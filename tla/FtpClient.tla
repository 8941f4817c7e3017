----------------------------- MODULE FtpClient -----------------------------
(* The FTP client (src/src/FtpClient.c): one task calls it, one server      *)
(* answers.  A call is a script of control commands; each is sent and then  *)
(* its reply is read line by line.  A reply line is abstracted to its first *)
(* digit and whether it fits the response buffer, a path or name to its     *)
(* length, a file to a few blocks.                                          *)
(* The server and the two TCP connections are the environment.              *)
EXTENDS Naturals, Sequences

CONSTANTS
    Calls,      \* calls the application makes, by name, and types of its accesses
    PathLens,   \* lengths of the paths and names the application passes
    FileBlocks, \* number of blocks of a transferred file
    Overlong    \* whether a server may send a reply line that does not fit the
                \* response buffer: one at most on a connection

ASSUME ConstantsAssumption ==
    PathLens \subseteq Nat /\ FileBlocks \in Nat /\ Overlong \in BOOLEAN

TempBuffer == 1024     \* FTP_CLIENT_TEMP_BUFFER_SIZE
LoginBuffer == 64      \* tempbuf of loginFtpClient

Modes == {"passive", "active"}
Digits == {"1", "2", "3", "4", "5"}
ListTypes == {"dir", "nlst", "mlsd"}
TransferOps == ListTypes \cup {"get", "put"}

VARIABLES
    pc,      \* where the caller is: "idle" between two calls
    op,      \* the running call: its name, type and mode
    todo,    \* commands of the running call, the current one first
    await,   \* the command sent last: the reply read next should answer it
    back,    \* where the running readResponse returns to
    matched, \* what readResponse or sendCommand returned
    ctl,     \* the control NetBuf: live, response[0], cmode, callback
    data,    \* the data NetBuf: live, direction, ASCII buffer, callback
    socks,   \* open sockets of the client
    local,   \* local file of xfer: "none" (no file), "open", "kept", "std"
    rv,      \* rv of xfer
    ret,     \* name and result of the login or transfer that returned last
    link,    \* control connection: "up", "down"
    wire,    \* reply lines on their way to the client
    srv,     \* the server: its state, the command it works on, the login,
             \* whether it sent an overlong line on this connection
    flow     \* data connection: its state, blocks the sender still has,
             \* blocks on their way, closed by the server, whether a block the
             \* client was to write did not get on its way

clientVars == <<pc, op, todo, await, back, matched, ctl, data, socks, local, rv, ret>>
vars == <<clientVars, link, wire, srv, flow>>

-----------------------------------------------------------------------------
(* Commands, and the scripts of the calls that only exchange commands.  An   *)
(* empty script is a call that returns 0 before it sends anything.           *)

Cmd(verb, len, expect) == [verb |-> verb, len |-> len, expect |-> expect]
IfFits(fits, script) == IF fits THEN script ELSE <<>>

siteFtpClient(n) == IfFits(n + 7 <= TempBuffer, <<Cmd("SITE", n + 5, "2")>>)
getSysTypeFtpClient == <<Cmd("SYST", 4, "2")>>
getFileSizeFtpClient(n) ==
    IfFits(n + 7 <= TempBuffer, <<Cmd("TYPE", 6, "2"), Cmd("SIZE", n + 5, "2")>>)
getModDateFtpClient(n) == IfFits(n + 7 <= TempBuffer, <<Cmd("MDTM", n + 5, "2")>>)
loginFtpClient(n) ==
    IfFits(n + 7 <= LoginBuffer, <<Cmd("USER", n + 5, "3"), Cmd("PASS", n + 5, "2")>>)
quitFtpClient == <<Cmd("QUIT", 4, "2")>>
changeDirFtpClient(n) == IfFits(n + 6 <= TempBuffer, <<Cmd("CWD", n + 4, "2")>>)
makeDirFtpClient(n) == IfFits(n + 6 <= TempBuffer, <<Cmd("MKD", n + 4, "2")>>)
removeDirFtpClient(n) == IfFits(n + 6 <= TempBuffer, <<Cmd("RMD", n + 4, "2")>>)
changeDirUpFtpClient == <<Cmd("CDUP", 4, "2")>>
pwdFtpClient == <<Cmd("PWD", 3, "2")>>
deleteDataFtpClient(n) == IfFits(n + 7 <= TempBuffer, <<Cmd("DELE", n + 5, "2")>>)
renameFtpClient(n) ==
    IfFits(n + 7 <= TempBuffer, <<Cmd("RNFR", n + 5, "3"), Cmd("RNTO", n + 5, "2")>>)

Scripts(n) ==
    [site |-> siteFtpClient(n), syst |-> getSysTypeFtpClient,
     size |-> getFileSizeFtpClient(n), mdtm |-> getModDateFtpClient(n),
     login |-> loginFtpClient(n), quit |-> quitFtpClient,
     cwd |-> changeDirFtpClient(n), mkd |-> makeDirFtpClient(n),
     rmd |-> removeDirFtpClient(n), cdup |-> changeDirUpFtpClient,
     pwd |-> pwdFtpClient, dele |-> deleteDataFtpClient(n), rename |-> renameFtpClient(n)]
ScriptOps == DOMAIN Scripts(0)

\* The verb and direction of an access by its type code.
Verb(typ) == [dir |-> "LIST", nlst |-> "NLST", mlsd |-> "MLSD", get |-> "RETR", put |-> "STOR"][typ]
Direction(typ) == IF typ = "put" THEN "write" ELSE "read"

\* The commands of an access: TYPE, the one that prepares the data connection,
\* the transfer command.  Length 0 stands for a NULL path.
accessScript(typ, n, cmode) ==
    <<Cmd("TYPE", 6, "2"),
      IF cmode = "passive" THEN Cmd("PASV", 4, "2") ELSE Cmd("PORT", 30, "2"),
      Cmd(Verb(typ), IF n = 0 THEN 4 ELSE n + 5, "1")>>

\* sscanf of SIZE, the quote of PWD and the parenthesis of PASV may be missing.
Parses(verb) == IF verb \in {"SIZE", "PWD", "PASV"} THEN BOOLEAN ELSE {TRUE}

-----------------------------------------------------------------------------
NoOp == [name |-> "none", typ |-> "get", ascii |-> FALSE]
NoCtl == [live |-> FALSE, resp |-> "none", cmode |-> "passive", cb |-> FALSE]
NoData == [live |-> FALSE, dir |-> "read", ascii |-> FALSE, cb |-> FALSE]
NoFlow == [conn |-> "none", left |-> 0, pipe |-> 0, eof |-> FALSE, lost |-> FALSE]
Idle == [st |-> "idle", verb |-> "none", logged |-> FALSE, long |-> FALSE]
NoRet == [name |-> "none", ok |-> FALSE]

Init ==
    /\ pc = "idle" /\ op = NoOp /\ todo = <<>> /\ await = "none" /\ back = "replied"
    /\ matched = FALSE /\ ctl = NoCtl /\ data = NoData /\ socks = {} /\ local = "none"
    /\ rv = 1 /\ ret = NoRet
    /\ link = "down" /\ wire = <<>> /\ srv = Idle /\ flow = NoFlow

locals == <<op, todo, await, back, matched, rv>>

Result(name, ok) ==
    IF name \in TransferOps \cup {"login"} THEN [name |-> name, ok |-> ok] ELSE NoRet

\* The running call returns to the application; its local variables are gone.
\* While a data connection stays open its last reply is still to come.
Return(ok) ==
    /\ pc' = "idle"
    /\ ret' = Result(op.name, ok)
    /\ op' = NoOp /\ todo' = <<>> /\ back' = "replied" /\ matched' = FALSE /\ rv' = 1
    /\ await' = IF data.live THEN await ELSE "none"

-----------------------------------------------------------------------------
(* sendCommand and readResponse.                                             *)

SendCommandUnsent ==
    /\ pc = "send"
    /\ await' = Head(todo).verb /\ back' = "replied" /\ pc' = "read"
    /\ srv' = IF link = "up" /\ Head(todo).len + 3 <= TempBuffer
                 THEN [srv EXCEPT !.st = "asked", !.verb = Head(todo).verb] ELSE srv
    /\ UNCHANGED <<op, todo, matched, ctl, data, socks, local, rv, ret, link, wire, flow>>

\* sendCommand: a command that does not fit its buffer is not sent, and send
\* fails on a broken connection at once or lets the read find out.  The server
\* takes a command up when it is through with the one before.
SendCommand ==
    /\ pc = "send"
    /\ LET cmd == Head(todo) IN
         \/ /\ \/ cmd.len + 3 > TempBuffer
               \/ link = "down"
            /\ matched' = FALSE /\ pc' = "replied"
            /\ UNCHANGED <<await, back, srv>>
         \/ /\ cmd.len + 3 <= TempBuffer /\ (link = "up" => srv.st = "idle")
            /\ await' = cmd.verb /\ back' = "replied" /\ pc' = "read"
            /\ srv' = IF link = "up" THEN [srv EXCEPT !.st = "asked", !.verb = cmd.verb]
                                     ELSE srv
            /\ UNCHANGED matched
    /\ UNCHANGED <<op, todo, ctl, data, socks, local, rv, ret, link, wire, flow>>

\* The digit the running readResponse compares the reply with.
Expected == IF back = "replied" THEN Head(todo).expect ELSE "2"

\* A reply line of the command to: a whole one that is the last of its reply or
\* has more to follow, or an overlong one, alone or among several.
Line(to, digit, kind) == [to |-> to, digit |-> digit, kind |-> kind]
LongKinds == {"long", "among"}

\* What readLine leaves of an overlong line, in front of the lines to come: it
\* answers nothing and may begin with anything.
Rests == {Line("rest", digit, "last") : digit \in Digits \cup {"text"}}

ReadResponseOneLine ==
    /\ pc = "read"
    /\ \/ /\ wire # <<>>
          /\ ctl' = [ctl EXCEPT !.resp = Head(wire).digit]
          /\ wire' = Tail(wire)
          /\ matched' = (Head(wire).digit = Expected) /\ pc' = back
       \/ /\ wire = <<>> /\ link = "down"
          /\ matched' = FALSE /\ pc' = back
          /\ UNCHANGED <<ctl, wire>>
    /\ UNCHANGED <<op, todo, await, back, data, socks, local, rv, ret, link, srv, flow>>

\* readResponse with readLine: lines up to the one that ends the reply.  An
\* overlong line leaves response empty; among several lines it keeps the loop
\* from finding the last one.  A broken connection leaves the last line that
\* arrived in response.
ReadResponse ==
    /\ pc \in {"read", "skip"}
    /\ \/ /\ wire # <<>>
          /\ LET line == Head(wire) IN
               /\ IF line.kind \in LongKinds
                    THEN /\ ctl' = [ctl EXCEPT !.resp = "none"]
                         /\ \E rest \in Rests : wire' = <<rest>> \o Tail(wire)
                    ELSE ctl' = [ctl EXCEPT !.resp = line.digit] /\ wire' = Tail(wire)
               /\ \/ line.kind = "more" /\ UNCHANGED <<pc, matched>>
                  \/ (line.kind = "among" \/ pc = "skip") /\ pc' = "skip" /\ UNCHANGED matched
                  \/ /\ line.kind \in {"last", "long"} /\ pc = "read"
                     /\ matched' = (line.kind = "last" /\ line.digit = Expected) /\ pc' = back
       \/ /\ wire = <<>> /\ link = "down"
          /\ matched' = FALSE /\ pc' = back
          /\ UNCHANGED <<ctl, wire>>
    /\ UNCHANGED <<op, todo, await, back, data, socks, local, rv, ret, link, srv, flow>>

-----------------------------------------------------------------------------
(* Calls that only exchange commands, and the options.                       *)

\* Discipline of the application: one data connection at a time, and control
\* commands only while none is open.
Between == pc = "idle" /\ ctl.live /\ ~ data.live

StartScript(name, n) ==
    /\ Between /\ name \in ScriptOps
    /\ IF Scripts(n)[name] = <<>>
         THEN ret' = Result(name, FALSE) /\ UNCHANGED <<pc, op, todo>>
         ELSE /\ pc' = "send" /\ op' = [NoOp EXCEPT !.name = name]
              /\ todo' = Scripts(n)[name] /\ ret' = NoRet
    /\ local' = "none"
    /\ UNCHANGED <<await, back, matched, ctl, data, socks, rv, link, wire, srv, flow>>

\* The code after sendCommand: the next command, or the result.  A refused
\* USER is still a login if response[0] is '2'.
ContinueScript ==
    /\ pc = "replied" /\ op.name \in ScriptOps \ {"quit"}
    /\ \E parsed \in Parses(Head(todo).verb) :
         \/ /\ matched /\ parsed /\ Len(todo) > 1
            /\ todo' = Tail(todo) /\ pc' = "send"
            /\ UNCHANGED <<op, await, back, matched, rv, ret>>
         \/ /\ matched /\ (Len(todo) = 1 \/ ~ parsed)
            /\ Return(parsed)
         \/ /\ ~ matched
            /\ Return(Head(todo).verb = "USER" /\ ctl.resp = "2")
    /\ UNCHANGED <<ctl, data, socks, local, link, wire, srv, flow>>

\* quitFtpClient frees the control structure whatever the reply was.
QuitEnds ==
    /\ pc = "replied" /\ op.name = "quit"
    /\ ctl' = NoCtl /\ socks' = socks \ {"control"}
    /\ link' = "down" /\ wire' = <<>> /\ srv' = Idle
    /\ Return(TRUE)
    /\ UNCHANGED <<data, local, flow>>

setCallbackFtpClient(on) ==
    /\ pc = "idle" /\ ctl.live /\ ctl' = [ctl EXCEPT !.cb = on]
    /\ UNCHANGED <<pc, locals, ret, data, socks, local, link, wire, srv, flow>>

setOptionsFtpClient(mode) ==
    /\ pc = "idle" /\ ctl.live /\ ctl' = [ctl EXCEPT !.cmode = mode]
    /\ UNCHANGED <<pc, locals, ret, data, socks, local, link, wire, srv, flow>>

\* connectFtpClient: name lookup, socket, connect and the two allocations may
\* fail; then the greeting must be a '2'.
connectFtpClient ==
    /\ pc = "idle" /\ ~ ctl.live
    /\ \/ UNCHANGED <<pc, op, todo, await, ctl, socks, link, srv>>
       \/ /\ op' = [NoOp EXCEPT !.name = "connect"]
          /\ socks' = socks \cup {"control"}
          /\ ctl' = [NoCtl EXCEPT !.live = TRUE]
          /\ todo' = <<Cmd("greeting", 0, "2")>> /\ await' = "greeting"
          /\ pc' = "read" /\ link' = "up" /\ srv' = [Idle EXCEPT !.st = "asked", !.verb = "greeting"]
    /\ ret' = NoRet /\ local' = "none"
    /\ UNCHANGED <<back, matched, data, rv, wire, flow>>

ConnectEnds ==
    /\ pc = "replied" /\ op.name = "connect"
    /\ Return(matched)
    /\ IF matched
         THEN UNCHANGED <<ctl, socks, link, wire, srv>>
         ELSE /\ ctl' = NoCtl /\ socks' = socks \ {"control"}
              /\ link' = "down" /\ wire' = <<>> /\ srv' = Idle
    /\ UNCHANGED <<data, local, flow>>

-----------------------------------------------------------------------------
(* Access to a data stream.                                                  *)

AccessFailsKeepingFile ==
    Return(FALSE) /\ local' = IF local = "open" THEN "kept" ELSE local

\* accessFtpClient returns 0: the call itself does, or xfer, which closes its
\* local file and removes it if it was to receive a file.
AccessFails ==
    /\ Return(FALSE)
    /\ local' = IF local # "open" THEN local ELSE IF op.typ = "get" THEN "none" ELSE "kept"

\* accessFtpClient returns 1: the stream is the application's, or xfer's, which
\* may get no buffer for it.
AccessSucceeds ==
    /\ \/ op.name = "access" /\ Return(TRUE)
       \/ /\ op.name # "access" /\ todo' = <<>>
          /\ \/ pc' = "transfer" /\ UNCHANGED rv
             \/ pc' = "finish" /\ rv' = 0
          /\ UNCHANGED <<op, await, back, matched, ret>>
    /\ UNCHANGED local

\* The call goes on.
Continues == UNCHANGED <<op, await, back, matched, rv, ret, local>>

InAccess == op.name \in TransferOps \cup {"access"}

\* xfer opens the local file (or takes stdin or stdout) before the access; a
\* file transfer needs a path.  After an overlong reply the application begins
\* no access on this connection: there is one data connection here.
StartAccess(name, typ, ascii, n) ==
    /\ Between /\ ~ srv.long /\ (name = "access" \/ name = typ)
    /\ \E file \in IF name = "access" THEN {"none"} ELSE {"open", "std", "fails"} :
         IF file = "fails" \/ (n = 0 /\ typ \in {"get", "put"})
           THEN /\ ret' = Result(name, FALSE)
                /\ ctl' = [ctl EXCEPT !.resp = "text"]
                /\ local' = IF file = "open" /\ typ = "put" THEN "kept" ELSE "none"
                /\ UNCHANGED <<pc, op, todo, flow>>
           ELSE /\ local' = file /\ pc' = "send" /\ ret' = NoRet
                /\ op' = [name |-> name, typ |-> typ, ascii |-> ascii]
                /\ todo' = accessScript(typ, n, ctl.cmode)
                /\ \E blocks \in 0 .. FileBlocks : flow' = [NoFlow EXCEPT !.left = blocks]
                /\ UNCHANGED ctl
    /\ UNCHANGED <<await, back, matched, rv, data, socks, link, wire, srv>>

\* After TYPE: the path must fit the command buffer, then openPort begins.
TypeReplied ==
    /\ pc = "replied" /\ InAccess /\ Head(todo).verb = "TYPE"
    /\ IF matched /\ todo[3].len + 1 < TempBuffer
         THEN pc' = "openPort" /\ todo' = Tail(todo) /\ Continues
         ELSE AccessFails
    /\ UNCHANGED <<ctl, data, socks, link, wire, srv, flow>>

\* openPort up to its command.  In active mode the client listens; getsockname
\* failing on the listening socket returns without closing it.
openPort ==
    /\ pc = "openPort"
    /\ IF Head(todo).verb = "PASV"
         THEN pc' = "send" /\ Continues /\ UNCHANGED <<todo, socks>>
         ELSE \/ AccessFails /\ UNCHANGED socks
              \/ AccessFails /\ socks' = socks \cup {"lost"}
              \/ pc' = "send" /\ socks' = socks \cup {"listen"} /\ Continues /\ UNCHANGED todo
    /\ UNCHANGED <<ctl, data, link, wire, srv, flow>>

\* openPort after its command: connect to the port of the PASV reply, then the
\* two allocations; each failure closes the socket.
PortReplied ==
    /\ pc = "replied" /\ InAccess /\ Head(todo).verb \in {"PASV", "PORT"}
    /\ \E parsed \in Parses(Head(todo).verb) :
         \/ AccessFails /\ socks' = socks \ {"listen"} /\ UNCHANGED <<data, flow>>
         \/ /\ matched /\ parsed
            /\ pc' = "send" /\ todo' = Tail(todo)
            /\ data' = [live |-> TRUE, dir |-> Direction(op.typ), ascii |-> op.ascii, cb |-> ctl.cb]
            /\ IF Head(todo).verb = "PASV"
                 THEN socks' = socks \cup {"data"} /\ flow' = [flow EXCEPT !.conn = "open"]
                 ELSE UNCHANGED <<socks, flow>>
            /\ Continues
    /\ UNCHANGED <<ctl, link, wire, srv>>

\* After the transfer command: a refusal closes the data connection.
TransferReplied ==
    /\ pc = "replied" /\ InAccess /\ Len(todo) = 1
    /\ \/ matched /\ ctl.cmode = "passive" /\ AccessSucceeds
       \/ /\ pc' = IF matched THEN "accept" ELSE "close"
          /\ matched => ctl.cmode = "active"
          /\ Continues /\ UNCHANGED todo
    /\ UNCHANGED <<ctl, data, socks, link, wire, srv, flow>>

acceptConnectionListening ==
    /\ pc = "accept"
    /\ \/ /\ flow.conn = "pending" /\ flow' = [flow EXCEPT !.conn = "open"]
          /\ socks' = socks \cup {"data"}
          /\ AccessSucceeds /\ UNCHANGED ctl
       \/ /\ socks' = socks \ {"listen"} /\ flow' = [flow EXCEPT !.conn = "closed"]
          /\ pc' = "close" /\ ctl' = [ctl EXCEPT !.resp = "text"]
          /\ UNCHANGED <<op, todo, await, matched, back, rv, ret, local>>
    /\ UNCHANGED <<data, link, wire, srv>>

\* acceptConnection: select fails, times out, or finds the listening socket
\* ready (looked at first) or the control connection ready, whose reply is read.
acceptConnection ==
    /\ pc = "accept"
    /\ \/ /\ flow.conn = "pending" /\ flow' = [flow EXCEPT !.conn = "open"]
          /\ socks' = (socks \ {"listen"}) \cup {"data"}
          /\ AccessSucceeds /\ UNCHANGED ctl
       \/ /\ socks' = socks \ {"listen"} /\ flow' = [flow EXCEPT !.conn = "closed"]
          /\ \/ pc' = "close" /\ ctl' = [ctl EXCEPT !.resp = "text"] /\ UNCHANGED back
             \/ /\ flow.conn = "none" /\ (wire # <<>> \/ link = "down")
                /\ pc' = "read" /\ back' = "close" /\ UNCHANGED ctl
          /\ UNCHANGED <<op, todo, await, matched, rv, ret, local>>
    /\ UNCHANGED <<data, link, wire, srv>>

-----------------------------------------------------------------------------
(* The transfer itself.                                                      *)

ReadsBlockUnready == flow' = [flow EXCEPT !.pipe = @ - 1] /\ UNCHANGED ctl

\* socketWait stops an operation when the callback asks for it, or when select
\* fails, whose error goes into response; without a callback it never does.
SelectFails == data.cb /\ ctl' = [ctl EXCEPT !.resp = "text"]
Stops == SelectFails \/ (data.cb /\ UNCHANGED ctl)

\* readFtpClient returns a block, or 0: the end of the stream, or socketWait
\* stopped it, or the callback did after the read (the block is dropped).
ReadsBlock == flow.pipe > 0 /\ flow' = [flow EXCEPT !.pipe = @ - 1] /\ UNCHANGED ctl
ReadsNothing ==
    \/ flow.pipe = 0 /\ flow.eof /\ UNCHANGED <<flow, ctl>>
    \/ Stops /\ UNCHANGED flow
    \/ data.cb /\ ReadsBlock

\* A binary write goes on whatever socketWait says.
BinaryWaits == UNCHANGED ctl \/ (~ data.ascii /\ SelectFails)

\* writeFtpClient counts a block as written: it is on its way, or, in writeLine,
\* socketWait stopped its last bytes from being sent.  rest is the stream
\* without the block.
WritesBlock(rest) ==
    \/ rest.pipe < FileBlocks /\ flow' = [rest EXCEPT !.pipe = @ + 1] /\ BinaryWaits
    \/ data.ascii /\ Stops /\ flow' = [rest EXCEPT !.lost = TRUE]

\* ... or is short: the connection is gone, or writeLine was stopped earlier.
WritesShort ==
    /\ (flow.eof /\ BinaryWaits) \/ (data.ascii /\ Stops)
    /\ flow' = [flow EXCEPT !.lost = TRUE]

\* The loop of xfer that sends ends when fread returns nothing, at the end of
\* the local file or at an error, or with a short write.
xferSendShort ==
    /\ data.dir = "write"
    /\ \/ pc' = "finish" /\ UNCHANGED <<flow, ctl, rv>>
       \/ flow.left > 0 /\ WritesBlock([flow EXCEPT !.left = @ - 1]) /\ UNCHANGED <<pc, rv>>
       \/ flow.left > 0 /\ WritesShort /\ pc' = "finish" /\ UNCHANGED rv
xferSend ==
    /\ data.dir = "write"
    /\ \/ pc' = "finish" /\ UNCHANGED <<flow, ctl, rv>>
       \/ flow.left > 0 /\ WritesBlock([flow EXCEPT !.left = @ - 1]) /\ UNCHANGED <<pc, rv>>
       \/ flow.left > 0 /\ WritesShort /\ rv' = 0 /\ pc' = "finish"

\* The loop that receives: a block that was read may not go into the local file.
xferReceive ==
    /\ data.dir = "read"
    /\ \/ ReadsBlock /\ UNCHANGED <<pc, rv>>
       \/ ReadsBlock /\ rv' = 0 /\ pc' = "finish"
       \/ ReadsNothing /\ pc' = "finish" /\ UNCHANGED rv

xferLoop ==
    /\ pc = "transfer" /\ (xferSend \/ xferReceive)
    /\ UNCHANGED <<op, todo, await, back, matched, data, socks, local, ret, link, wire, srv>>

\* The end of xfer: the local file is closed, and removed if receiving failed.
xferFinish ==
    /\ pc = "finish" /\ pc' = "close"
    /\ local' = IF local # "open" THEN local
                ELSE IF rv # 1 /\ op.typ = "get" THEN "none" ELSE "kept"
    /\ UNCHANGED <<op, todo, await, back, matched, ctl, data, socks, rv, ret, link, wire, srv, flow>>

closeFtpClientSilent ==
    /\ pc = "close" /\ pc' = "closed" /\ matched' = TRUE
    /\ data' = NoData /\ socks' = socks \ {"data", "listen"}
    /\ flow' = [flow EXCEPT !.conn = "closed"]
    /\ UNCHANGED <<op, todo, await, back, ctl, local, rv, ret, link, wire, srv>>

\* closeFtpClient on a data connection: the server's last reply is read unless
\* the one before it was a refusal.
closeFtpClient ==
    /\ pc = "close"
    /\ data' = NoData /\ socks' = socks \ {"data", "listen"}
    /\ flow' = [flow EXCEPT !.conn = "closed"]
    /\ IF ctl.resp \in {"4", "5"}
         THEN pc' = "closed" /\ matched' = TRUE /\ UNCHANGED back
         ELSE pc' = "read" /\ back' = "closed" /\ UNCHANGED matched
    /\ UNCHANGED <<op, todo, await, ctl, local, rv, ret, link, wire, srv>>

\* What follows closeFtpClient: accessFtpClient fails, xfer returns rv, or the
\* application's own close returns what readResponse did.
CloseEnds ==
    /\ pc = "closed"
    /\ \/ todo # <<>> /\ AccessFails
       \/ todo = <<>> /\ UNCHANGED local
          /\ Return(IF op.name = "close" THEN matched ELSE rv = 1)
    /\ flow' = NoFlow
    /\ UNCHANGED <<ctl, data, socks, link, wire, srv>>

\* The application's own reads, writes and close of a stream it was given.
Streaming == pc = "idle" /\ data.live

readFtpClient ==
    /\ Streaming /\ data.dir = "read" /\ (ReadsBlock \/ ReadsNothing)
    /\ UNCHANGED <<pc, locals, ret, data, socks, local, link, wire, srv>>

writeFtpClient ==
    /\ Streaming /\ data.dir = "write" /\ (WritesBlock(flow) \/ WritesShort)
    /\ UNCHANGED <<pc, locals, ret, data, socks, local, link, wire, srv>>

StartClose ==
    /\ Streaming /\ pc' = "close" /\ op' = [NoOp EXCEPT !.name = "close"] /\ ret' = NoRet
    /\ UNCHANGED <<todo, await, back, matched, ctl, data, socks, local, rv, link, wire, srv, flow>>

-----------------------------------------------------------------------------
(* The server and the network.                                               *)

\* Digits with which a server answers a command other than a transfer.
Answers(verb) ==
    CASE verb = "USER" -> {"2", "3", "5"}
      [] verb = "RNFR" -> {"3", "5"}
      [] verb = "QUIT" -> {"2"}
      [] OTHER -> {"2", "5"}

TransferVerbs == {Verb(typ) : typ \in TransferOps}

\* The lines of a reply: a greeting or login text may take two, and one line of
\* the connection may be overlong.
Texts == {"greeting", "USER", "PASS"}
Layouts == {<<"last">>} \cup (IF srv.verb \in Texts THEN {<<"more", "last">>} ELSE {})
LongLayouts ==
    IF ~ Overlong \/ srv.long THEN {}
    ELSE {<<"long">>}
         \cup (IF srv.verb \in Texts THEN {<<"among", "last">>, <<"more", "among">>} ELSE {})

\* The server's reply to the command it works on, after which it is in state st.
Replies(digit, layout, st, logged) ==
    /\ wire' = wire \o [i \in DOMAIN layout |-> Line(srv.verb, digit, layout[i])]
    /\ srv' = [st |-> st, verb |-> IF st = "idle" THEN "none" ELSE srv.verb,
               logged |-> logged, long |-> srv.long \/ layout \in LongLayouts]

\* A reply to a plain command.
ServerReplies ==
    /\ srv.st = "asked" /\ srv.verb \notin TransferVerbs
    /\ \E digit \in Answers(srv.verb), layout \in Layouts \cup LongLayouts :
         Replies(digit, layout, "idle",
                 srv.logged \/ (srv.verb \in {"USER", "PASS"} /\ digit = "2"))
    /\ UNCHANGED <<clientVars, link, flow>>

\* A transfer is refused, or begins: the data connection is there in passive
\* mode, the server makes it in active mode.
ServerBegins ==
    /\ srv.st = "asked" /\ srv.verb \in TransferVerbs
    /\ \E layout \in Layouts \cup LongLayouts :
         \/ Replies("4", layout, "idle", srv.logged)
         \/ Replies("1", layout, IF ctl.cmode = "passive" THEN "serve" ELSE "dial", srv.logged)
    /\ UNCHANGED <<clientVars, link, flow>>

\* The server's last reply about the transfer, with which it closes its end.
ServerEnds(digit) ==
    /\ \E layout \in Layouts \cup LongLayouts : Replies(digit, layout, "idle", srv.logged)
    /\ flow' = [flow EXCEPT !.eof = TRUE]
    /\ UNCHANGED <<clientVars, link>>

ServerDials ==
    /\ srv.st = "dial"
    /\ \/ ServerEnds("4")
       \/ /\ "listen" \in socks /\ flow.conn = "none"
          /\ flow' = [flow EXCEPT !.conn = "pending"] /\ srv' = [srv EXCEPT !.st = "serve"]
          /\ UNCHANGED <<clientVars, link, wire>>

Sending == srv.verb # "STOR"

\* The connection holds no more than the blocks of a file.
ServerMoves ==
    /\ srv.st = "serve"
    /\ \/ /\ Sending /\ flow.left > 0 /\ flow.conn # "closed" /\ flow.pipe < FileBlocks
          /\ flow' = [flow EXCEPT !.left = @ - 1, !.pipe = @ + 1]
       \/ ~ Sending /\ flow.pipe > 0 /\ flow' = [flow EXCEPT !.pipe = @ - 1]
    /\ UNCHANGED <<clientVars, link, wire, srv>>

ServerFinishes ==
    /\ srv.st = "serve"
    /\ \/ ServerEnds("4")
       \/ /\ IF Sending THEN flow.left = 0 ELSE flow.conn = "closed" /\ flow.pipe = 0
          /\ ServerEnds("2")

\* The control connection breaks: lines on their way may be lost, the server
\* gives up what it was doing.
LinkBreaks ==
    /\ link = "up" /\ link' = "down"
    /\ \E kept \in 0 .. Len(wire) : wire' = SubSeq(wire, 1, kept)
    /\ srv' = [srv EXCEPT !.st = "idle", !.verb = "none"]
    /\ flow' = [flow EXCEPT !.eof = TRUE]
    /\ UNCHANGED clientVars

-----------------------------------------------------------------------------
Application ==
    \/ connectFtpClient
    \/ \E name \in ScriptOps \cap Calls, n \in PathLens \ {0} : StartScript(name, n)
    \/ \E name \in (TransferOps \cup {"access"}) \cap Calls, typ \in TransferOps \cap Calls,
          ascii \in BOOLEAN, n \in PathLens : StartAccess(name, typ, ascii, n)
    \/ readFtpClient \/ writeFtpClient \/ StartClose
    \/ \E on \in BOOLEAN : setCallbackFtpClient(on)
    \/ \E mode \in Modes : setOptionsFtpClient(mode)

Client ==
    \/ SendCommand \/ ReadResponse \/ ContinueScript \/ QuitEnds \/ ConnectEnds
    \/ TypeReplied \/ openPort \/ PortReplied \/ TransferReplied \/ acceptConnection
    \/ xferLoop \/ xferFinish \/ closeFtpClient \/ CloseEnds

Server == ServerReplies \/ ServerBegins \/ ServerDials \/ ServerMoves \/ ServerFinishes

Next == Application \/ Client \/ Server \/ LinkBreaks

Spec == Init /\ [][Next]_vars

\* The caller's task runs on, and the server answers what it was asked.
FairSpec == Spec /\ WF_vars(Client) /\ WF_vars(Server)

-----------------------------------------------------------------------------
(* Properties.                                                               *)

TypeOK ==
    /\ pc \in {"idle", "send", "read", "skip", "replied", "openPort", "accept", "transfer",
               "finish", "close", "closed"}
    /\ back \in {"replied", "close", "closed"}
    /\ matched \in BOOLEAN
    /\ ctl \in [live : BOOLEAN, resp : Digits \cup {"none", "text"}, cmode : Modes, cb : BOOLEAN]
    /\ data \in [live : BOOLEAN, dir : {"read", "write"}, ascii : BOOLEAN, cb : BOOLEAN]
    /\ socks \subseteq {"control", "listen", "data", "lost"}
    /\ local \in {"none", "open", "kept", "std"} /\ rv \in {0, 1}
    /\ link \in {"up", "down"} /\ srv.st \in {"idle", "asked", "dial", "serve"}
    /\ flow \in [conn : {"none", "pending", "open", "closed"}, left : 0 .. FileBlocks,
                 pipe : 0 .. FileBlocks, eof : BOOLEAN, lost : BOOLEAN]

\* The reply readResponse (FtpClient.c:224) reads answers the command sent
\* last: no call takes the reply of another, whatever failed before it, on a
\* connection on which every reply line fitted the response buffer.
RepliesMatch ==
    ~ srv.long /\ pc = "read" /\ wire # <<>> => Head(wire).to = await

\* Between two calls with no data connection open and the control connection
\* up, no reply is outstanding: closeFtpClient (FtpClient.c:1321) reads the
\* last reply of a transfer exactly when there is one, if every line fitted.
InStep ==
    ~ srv.long /\ pc = "idle" /\ ctl.live /\ ~ data.live /\ link = "up"
        => wire = <<>> /\ srv.st = "idle"

\* A reply that counts as the proper one is that of the command it was read for,
\* as the comment at FtpClient.c:264-268 has it.
ProperReply == [][pc = "read" /\ pc' = back /\ matched' => Head(wire).to = await]_vars

\* Between two calls the client's open sockets are those of its structures.
\* The one exception is the listening socket of an openPort whose getsockname
\* failed (FtpClient.c:461), which stays open for ever.
SocketsOwned ==
    pc = "idle" => socks \ {"lost"} = (IF ctl.live THEN {"control"} ELSE {})
                                      \cup (IF data.live THEN {"data"} ELSE {})

\* A get that reports a failure leaves no local file behind, and no call leaves
\* its local file open (FtpClient.c:295).
LocalFileKept ==
    pc = "idle" => /\ local # "open"
                   /\ ret.name = "get" /\ ~ ret.ok => local # "kept"

PutSucceeds == pc = "closed" /\ pc' = "idle" /\ ret'.name = "put" /\ ret'.ok

\* A put that reports success sent every block it had read, but for those of an
\* ASCII put whose callback, or select, stopped the last flush of writeLine
\* (FtpClient.c:336, :574).
PutLosesStoppedOnly == [][PutSucceeds /\ flow.lost => op.ascii /\ ctl.cb]_vars

\* Two waits for a line that nobody sends.  The path passed the test of
\* accessFtpClient (FtpClient.c:1232) but not that of sendCommand
\* (FtpClient.c:277): the transfer command was never sent, and closeFtpClient
\* waits for the reply to it.  Or a reply of several lines had an overlong one,
\* and the loop of readResponse (FtpClient.c:242) found no last line.
WaitsForNobody ==
    \/ pc = "read" /\ back = "closed" /\ todo # <<>> /\ Head(todo).len + 2 = TempBuffer
    \/ pc = "skip"

\* Every call returns to the application, those two excepted.
CallsReturn == pc # "idle" ~> pc = "idle" \/ WaitsForNobody
=============================================================================
