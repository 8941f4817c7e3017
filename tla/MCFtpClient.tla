---------------------------- MODULE MCFtpClient ----------------------------
(* Instances of FtpClient for TLC.                                          *)
EXTENDS FtpClient

\* No path, one that fits, one that fits the test of accessFtpClient only, and
\* one that fits no command.
Lengths == {0, 10, 1017, 1018}

\* A call of each form: scripts of one and of two commands, with a reply that has
\* to parse and without, transfers, and a stream of the application's own.  The
\* other calls differ from these in verbs and lengths only.
FormCalls == {"login", "quit", "size", "get", "put", "access"}
=============================================================================
