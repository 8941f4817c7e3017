--------------------------- MODULE MCThreadTimers ---------------------------
(* Two tasks, each with one delayed call, and a timer queue of one or two.  *)
EXTENDS ThreadTimers

CONSTANTS t1, t2
TwoTasks == {t1, t2}
=============================================================================
