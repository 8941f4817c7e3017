-------------------------- MODULE FtpClient_proofs --------------------------
(***************************************************************************)
(* Theorems about FtpClient for every set of calls, paths of any length    *)
(* and files of any number of blocks.                                      *)
(***************************************************************************)
EXTENDS FtpClient, SequenceTheorems, TLAPS

-----------------------------------------------------------------------------
(* Verbs, commands and the scripts of the calls.                             *)

PlainVerbs ==
    {"SITE", "SYST", "TYPE", "SIZE", "MDTM", "USER", "PASS", "QUIT", "CWD", "MKD",
     "RMD", "CDUP", "PWD", "DELE", "RNFR", "RNTO", "greeting", "PASV", "PORT"}
Verbs == PlainVerbs \cup TransferVerbs
Commands == [verb : Verbs, len : Nat, expect : Digits]
Kinds == {"last", "more"} \cup LongKinds
Lines == [to : Verbs \cup {"rest"}, digit : Digits \cup {"text"}, kind : Kinds]

\* The verbs of transfers, one by one.
LEMMA TransferVerbsAre == TransferVerbs = {"LIST", "NLST", "MLSD", "RETR", "STOR"}
<1>1. TransferOps = {"dir", "nlst", "mlsd", "get", "put"}
  BY DEF TransferOps, ListTypes
<1>2. /\ Verb("dir") = "LIST" /\ Verb("nlst") = "NLST" /\ Verb("mlsd") = "MLSD"
      /\ Verb("get") = "RETR" /\ Verb("put") = "STOR"
  BY DEF Verb
<1> QED
  BY <1>1, <1>2 DEF TransferVerbs

\* The names of the calls that only exchange commands.
LEMMA ScriptNames ==
    ScriptOps = {"site", "syst", "size", "mdtm", "login", "quit", "cwd", "mkd", "rmd",
                 "cdup", "pwd", "dele", "rename"}
BY DEF ScriptOps, Scripts

\* A script of one or two plain commands, or none.
PlainScript(t) ==
    /\ t \in Seq(Commands)
    /\ \A i \in 1 .. Len(t) : t[i].verb \in PlainVerbs

\* Scripts of one command.
LEMMA OneCommand ==
    ASSUME NEW v \in PlainVerbs, NEW n \in Nat, NEW d \in Digits
    PROVE  PlainScript(<<Cmd(v, n, d)>>)
BY DEF PlainScript, Cmd, Commands, Verbs

\* Scripts of two commands.
LEMMA TwoCommands ==
    ASSUME NEW c, NEW d, PlainScript(<<c>>), PlainScript(<<d>>)
    PROVE  PlainScript(<<c, d>>)
<1>1. ASSUME NEW e, PlainScript(<<e>>)
      PROVE  e \in Commands /\ e.verb \in PlainVerbs
  <2>1. <<e>>[1] = e /\ 1 \in 1 .. Len(<<e>>)
    OBVIOUS
  <2>2. <<e>> \in Seq(Commands) /\ <<e>>[1].verb \in PlainVerbs
    BY <1>1, <2>1 DEF PlainScript
  <2> QED
    BY <2>1, <2>2, ElementOfSeq
<1>2. c \in Commands /\ c.verb \in PlainVerbs /\ d \in Commands /\ d.verb \in PlainVerbs
  BY <1>1
<1>3. /\ <<c, d>> \in Seq(Commands) /\ Len(<<c, d>>) = 2
      /\ <<c, d>>[1] = c /\ <<c, d>>[2] = d
  BY <1>2
<1>4. ASSUME NEW i \in 1 .. 2  PROVE i = 1 \/ i = 2
  OBVIOUS
<1> QED
  BY <1>2, <1>3, <1>4 DEF PlainScript

\* The length of the empty sequence.
LEMMA EmptyLen == Len(<<>>) = 0
BY EmptySeq

\* No command.
LEMMA NoCommand == PlainScript(<<>>)
BY EmptySeq DEF PlainScript

\* Every call that only exchanges commands has a script of plain commands.
LEMMA ScriptsArePlain ==
    ASSUME NEW n \in Nat, NEW name \in ScriptOps
    PROVE  PlainScript(Scripts(n)[name])
<1> USE DEF Digits, PlainVerbs
<1>1. n + 5 \in Nat /\ n + 4 \in Nat /\ 4 \in Nat /\ 3 \in Nat /\ 6 \in Nat
  OBVIOUS
<1>2. PlainScript(siteFtpClient(n)) /\ PlainScript(getModDateFtpClient(n))
  <2>1. PlainScript(<<Cmd("SITE", n + 5, "2")>>) /\ PlainScript(<<Cmd("MDTM", n + 5, "2")>>)
    BY <1>1, OneCommand
  <2> QED
    BY <2>1, NoCommand DEF IfFits, siteFtpClient, getModDateFtpClient
<1>3. PlainScript(getSysTypeFtpClient) /\ PlainScript(quitFtpClient)
  BY <1>1, OneCommand DEF getSysTypeFtpClient, quitFtpClient
<1>4. PlainScript(changeDirUpFtpClient) /\ PlainScript(pwdFtpClient)
  BY <1>1, OneCommand DEF changeDirUpFtpClient, pwdFtpClient
<1>5. PlainScript(changeDirFtpClient(n)) /\ PlainScript(makeDirFtpClient(n))
  <2>1. PlainScript(<<Cmd("CWD", n + 4, "2")>>) /\ PlainScript(<<Cmd("MKD", n + 4, "2")>>)
    BY <1>1, OneCommand
  <2> QED
    BY <2>1, NoCommand DEF IfFits, changeDirFtpClient, makeDirFtpClient
<1>6. PlainScript(removeDirFtpClient(n)) /\ PlainScript(deleteDataFtpClient(n))
  <2>1. PlainScript(<<Cmd("RMD", n + 4, "2")>>) /\ PlainScript(<<Cmd("DELE", n + 5, "2")>>)
    BY <1>1, OneCommand
  <2> QED
    BY <2>1, NoCommand DEF IfFits, removeDirFtpClient, deleteDataFtpClient
<1>7. PlainScript(getFileSizeFtpClient(n))
  <2>1. PlainScript(<<Cmd("TYPE", 6, "2")>>) /\ PlainScript(<<Cmd("SIZE", n + 5, "2")>>)
    BY <1>1, OneCommand
  <2> QED
    BY <2>1, TwoCommands, NoCommand DEF IfFits, getFileSizeFtpClient
<1>8. PlainScript(loginFtpClient(n))
  <2>1. PlainScript(<<Cmd("USER", n + 5, "3")>>) /\ PlainScript(<<Cmd("PASS", n + 5, "2")>>)
    BY <1>1, OneCommand
  <2> QED
    BY <2>1, TwoCommands, NoCommand DEF IfFits, loginFtpClient
<1>9. PlainScript(renameFtpClient(n))
  <2>1. PlainScript(<<Cmd("RNFR", n + 5, "3")>>) /\ PlainScript(<<Cmd("RNTO", n + 5, "2")>>)
    BY <1>1, OneCommand
  <2> QED
    BY <2>1, TwoCommands, NoCommand DEF IfFits, renameFtpClient
<1> HIDE DEF PlainVerbs, Digits
<1> QED
  BY <1>2, <1>3, <1>4, <1>5, <1>6, <1>7, <1>8, <1>9, ScriptNames DEF Scripts

\* What a script of plain commands begins with, and what is left of it.
LEMMA ScriptParts ==
    ASSUME NEW t, PlainScript(t), t # <<>>
    PROVE  /\ Head(t) \in Commands /\ Head(t).verb \in PlainVerbs
           /\ Len(t) > 1 => PlainScript(Tail(t)) /\ Tail(t) # <<>>
<1>1. t \in Seq(Commands) /\ Len(t) \in Nat /\ Len(t) > 0
  BY EmptySeq DEF PlainScript
<1>2. /\ Head(t) = t[1] /\ Head(t) \in Commands
      /\ Tail(t) \in Seq(Commands) /\ Len(Tail(t)) = Len(t) - 1
      /\ \A i \in 1 .. Len(t) - 1 : Tail(t)[i] = t[i + 1]
  BY <1>1, HeadTailProperties
<1>3. Head(t).verb \in PlainVerbs
  BY <1>1, <1>2 DEF PlainScript
<1>4. \A i \in 1 .. Len(Tail(t)) : Tail(t)[i].verb \in PlainVerbs
  BY <1>1, <1>2 DEF PlainScript
<1>5. Len(t) > 1 => Tail(t) # <<>>
  BY <1>1, <1>2, EmptyLen
<1> QED
  BY <1>2, <1>3, <1>4, <1>5 DEF PlainScript

\* The command that moves the data, and the one that opens the connection.
Moves(c, typ) == c.verb = Verb(typ) /\ c.expect = "1"
Opens(c, cmode) == c.verb = IF cmode = "passive" THEN "PASV" ELSE "PORT"

\* What is left of the commands of an access: one to three.
AccessPlan(t, typ, cmode) ==
    /\ t \in Seq(Commands) /\ typ \in TransferOps
    /\ \/ Len(t) = 1 /\ Moves(t[1], typ)
       \/ Len(t) = 2 /\ Opens(t[1], cmode) /\ Moves(t[2], typ)
       \/ Len(t) = 3 /\ t[1].verb = "TYPE" /\ Opens(t[2], cmode) /\ Moves(t[3], typ)

\* An access begins with three commands.
LEMMA AccessStart ==
    ASSUME NEW typ \in TransferOps, NEW n \in Nat, NEW cmode \in Modes
    PROVE  AccessPlan(accessScript(typ, n, cmode), typ, cmode)
<1>1. Verb(typ) \in TransferVerbs
  BY DEF TransferVerbs
<1>2. (IF n = 0 THEN 4 ELSE n + 5) \in Nat
  OBVIOUS
<1> DEFINE a == Cmd("TYPE", 6, "2")
           b == IF cmode = "passive" THEN Cmd("PASV", 4, "2") ELSE Cmd("PORT", 30, "2")
           c == Cmd(Verb(typ), IF n = 0 THEN 4 ELSE n + 5, "1")
<1>3. a \in Commands /\ a.verb = "TYPE"
  BY DEF Cmd, Commands, Verbs, PlainVerbs, Digits
<1>4. b \in Commands /\ Opens(b, cmode)
  BY DEF Cmd, Commands, Verbs, PlainVerbs, Digits, Opens
<1>5. c \in Commands /\ Moves(c, typ)
  BY <1>1, <1>2 DEF Cmd, Commands, Verbs, Digits, Moves
<1>6. accessScript(typ, n, cmode) = <<a, b, c>>
  BY DEF accessScript
<1> HIDE DEF a, b, c
<1>7. /\ <<a, b, c>> \in Seq(Commands) /\ Len(<<a, b, c>>) = 3
      /\ <<a, b, c>>[1] = a /\ <<a, b, c>>[2] = b /\ <<a, b, c>>[3] = c
  BY <1>3, <1>4, <1>5
<1> QED
  BY <1>3, <1>4, <1>5, <1>6, <1>7 DEF AccessPlan

\* The command an access has come to tells how many are left.
LEMMA AccessHead ==
    ASSUME NEW t, NEW typ, NEW cmode, AccessPlan(t, typ, cmode)
    PROVE  /\ t # <<>> /\ Head(t) \in Commands /\ Len(t) \in 1 .. 3
           /\ Len(t) = 1 <=> Head(t).verb \in TransferVerbs
           /\ Len(t) = 2 <=> Head(t).verb \in {"PASV", "PORT"}
           /\ Len(t) = 3 <=> Head(t).verb = "TYPE"
           /\ Len(t) = 1 => Head(t).verb = Verb(typ) /\ Head(t).expect = "1"
           /\ Len(t) = 2 => (Head(t).verb = "PASV" <=> cmode = "passive")
<1>1. t \in Seq(Commands) /\ Len(t) \in 1 .. 3
  BY DEF AccessPlan
<1>2. t # <<>>
  BY <1>1, EmptyLen
<1>3. Head(t) = t[1] /\ Head(t) \in Commands
  BY <1>1, <1>2, HeadTailProperties
<1>4. Len(t) = 1 => Head(t).verb = Verb(typ) /\ Head(t).expect = "1"
                   /\ Head(t).verb \in TransferVerbs
  BY <1>3 DEF AccessPlan, Moves, TransferVerbs
<1>5. Len(t) = 2 => Head(t).verb = IF cmode = "passive" THEN "PASV" ELSE "PORT"
  BY <1>3 DEF AccessPlan, Opens
<1>6. Len(t) = 3 => Head(t).verb = "TYPE"
  BY <1>3 DEF AccessPlan
<1>7. "TYPE" \notin TransferVerbs /\ "PASV" \notin TransferVerbs /\ "PORT" \notin TransferVerbs
  BY TransferVerbsAre
<1>8. Len(t) = 1 \/ Len(t) = 2 \/ Len(t) = 3
  BY <1>1
<1>9. Head(t).verb \in TransferVerbs => Head(t).verb \notin {"TYPE", "PASV", "PORT"}
  BY <1>7
<1> QED
  BY <1>1, <1>2, <1>3, <1>4, <1>5, <1>6, <1>8, <1>9

\* An access goes on to its next command.
LEMMA AccessTail ==
    ASSUME NEW t, NEW typ, NEW cmode, AccessPlan(t, typ, cmode), Len(t) > 1
    PROVE  AccessPlan(Tail(t), typ, cmode) /\ Len(Tail(t)) = Len(t) - 1
<1>1. t \in Seq(Commands) /\ typ \in TransferOps /\ (Len(t) = 2 \/ Len(t) = 3)
  <2>1. Len(t) = 1 \/ Len(t) = 2 \/ Len(t) = 3
    BY DEF AccessPlan
  <2> QED
    BY <2>1 DEF AccessPlan
<1>2. t # <<>>
  BY <1>1, EmptyLen
<1>3. /\ Tail(t) \in Seq(Commands) /\ Len(Tail(t)) = Len(t) - 1
      /\ \A i \in 1 .. Len(t) - 1 : Tail(t)[i] = t[i + 1]
  BY <1>1, <1>2, HeadTailProperties
<1>4. CASE Len(t) = 2
  <2>1. Tail(t)[1] = t[2] /\ Len(Tail(t)) = 1
    BY <1>3, <1>4
  <2>2. Moves(t[2], typ)
    BY <1>4 DEF AccessPlan
  <2> QED
    BY <1>1, <1>3, <1>4, <2>1, <2>2 DEF AccessPlan
<1>5. CASE Len(t) = 3
  <2>1. Tail(t)[1] = t[2] /\ Tail(t)[2] = t[3] /\ Len(Tail(t)) = 2
    BY <1>3, <1>5
  <2>2. Opens(t[2], cmode) /\ Moves(t[3], typ)
    BY <1>5 DEF AccessPlan
  <2> QED
    BY <1>1, <1>3, <1>5, <2>1, <2>2 DEF AccessPlan
<1> QED
  BY <1>1, <1>4, <1>5

-----------------------------------------------------------------------------
(* Where the caller is, and what it holds there.                             *)

\* What the running call has still to send.
OnScript == op.name \in ScriptOps \cup {"connect"} /\ PlainScript(todo) /\ todo # <<>>
OnAccess ==
    /\ op.name \in TransferOps => op.typ = op.name
    /\ InAccess /\ AccessPlan(todo, op.typ, ctl.cmode)
OnStream == op.name \in TransferOps /\ op.typ = op.name /\ todo = <<>>
OnClose == op.name = "close" /\ todo = <<>>

Reading == pc \in {"read", "skip"}
Commanding == pc \in {"send", "replied"} \/ (Reading /\ back = "replied")
Closing == pc \in {"close", "closed"} \/ (Reading /\ back = "closed")

Place ==
    \/ pc = "idle" /\ back = "replied" /\ todo = <<>> /\ (data.live => ctl.live) /\ rv = 1
    \/ Commanding /\ OnScript /\ ctl.live /\ ~ data.live /\ rv = 1
    \/ Commanding /\ OnAccess /\ ctl.live /\ (data.live <=> Len(todo) = 1) /\ rv = 1
    \/ pc = "openPort" /\ OnAccess /\ Len(todo) = 2 /\ ctl.live /\ ~ data.live /\ rv = 1
    \/ /\ pc = "accept" \/ (Reading /\ back = "close")
       /\ OnAccess /\ Len(todo) = 1 /\ ctl.live /\ data.live /\ rv = 1
    \/ pc = "transfer" /\ OnStream /\ ctl.live /\ data.live /\ rv = 1
    \/ pc = "finish" /\ OnStream /\ ctl.live /\ data.live /\ rv \in {0, 1}
    \/ /\ Closing
       /\ (OnAccess /\ Len(todo) = 1) \/ OnStream \/ OnClose
       /\ ctl.live /\ (data.live <=> pc = "close") /\ rv \in {0, 1}

States == {"idle", "asked", "dial", "serve"}
SrvType == [st : States, verb : Verbs \cup {"none"}, logged : BOOLEAN, long : BOOLEAN]
Types ==
    /\ back \in {"replied", "close", "closed"} /\ matched \in BOOLEAN /\ op.ascii \in BOOLEAN
    /\ ctl \in [live : BOOLEAN, resp : Digits \cup {"none", "text"}, cmode : Modes, cb : BOOLEAN]
    /\ data \in [live : BOOLEAN, dir : {"read", "write"}, ascii : BOOLEAN, cb : BOOLEAN]
    /\ link \in {"up", "down"} /\ wire \in Seq(Lines)
    /\ srv \in SrvType
    /\ srv.st # "idle" => srv.verb \in Verbs
    /\ srv.st \in {"dial", "serve"} => srv.verb \in TransferVerbs

Shape == Types /\ Place

\* The names of calls of different kinds differ.
LEMMA NamesApart ==
    /\ \A n \in ScriptOps \cup {"connect"} : n \notin TransferOps \cup {"access", "close"}
    /\ "connect" \notin ScriptOps
    /\ "access" \notin TransferOps /\ "close" \notin TransferOps
BY ScriptNames DEF TransferOps, ListTypes

\* The first state has the shape.
LEMMA ShapeInit == Init => Shape
<1> SUFFICES ASSUME Init PROVE Shape
  OBVIOUS
<1>1. Place
  BY DEF Init, Place, NoData
<1>2. wire \in Seq(Lines)
  BY EmptySeq DEF Init
<1>3. ctl \in [live : BOOLEAN, resp : Digits \cup {"none", "text"}, cmode : Modes, cb : BOOLEAN]
  BY DEF Init, NoCtl, Modes
<1>4. srv \in SrvType /\ srv.st = "idle"
  BY DEF Init, Idle, States, SrvType
<1>5. /\ back = "replied" /\ matched = FALSE /\ op.ascii = FALSE /\ link = "down"
      /\ data \in [live : BOOLEAN, dir : {"read", "write"}, ascii : BOOLEAN, cb : BOOLEAN]
  BY DEF Init, NoData, NoOp
<1> QED
  BY <1>1, <1>2, <1>3, <1>4, <1>5 DEF Shape, Types

\* Steps that leave the caller where it is.
LEMMA PlaceKept ==
    ASSUME Place, UNCHANGED <<pc, op, todo, back, rv>>, ctl'.live = ctl.live,
           ctl'.cmode = ctl.cmode, data'.live = data.live
    PROVE  Place'
BY DEF Place, OnScript, OnAccess, OnStream, OnClose, Commanding, Closing, Reading, InAccess

\* What the place says of an access that waits for a reply or goes on with it.
LEMMA AtAccess ==
    ASSUME Place, InAccess, pc \in {"send", "replied", "openPort", "accept"}
    PROVE  /\ OnAccess /\ ctl.live /\ rv = 1
           /\ pc = "openPort" => Len(todo) = 2 /\ ~ data.live
           /\ pc = "accept" => Len(todo) = 1 /\ data.live
           /\ pc \in {"send", "replied"} => (data.live <=> Len(todo) = 1)
BY NamesApart DEF Place, OnScript, OnAccess, OnStream, OnClose, Commanding, Closing, Reading, InAccess

\* A call that returns leaves the caller at rest.
LEMMA ReturnRests ==
    ASSUME NEW ok, Return(ok), data'.live => ctl'.live
    PROVE  Place'
BY DEF Return, Place

\* An access that succeeds is the application's, or its transfer begins.
LEMMA SuccessPlace ==
    ASSUME AccessSucceeds, OnAccess, ctl'.live, data'.live, rv = 1
    PROVE  Place'
<1>1. CASE op.name = "access" /\ Return(TRUE)
  BY <1>1, ReturnRests
<1>2. CASE op.name # "access" /\ todo' = <<>> /\ UNCHANGED op
  <2>1. op.name \in TransferOps /\ op.typ = op.name
    BY <1>2 DEF OnAccess, InAccess
  <2>2. OnStream'
    BY <1>2, <2>1 DEF OnStream
  <2>3. (pc' = "transfer" /\ rv' = 1) \/ (pc' = "finish" /\ rv' = 0)
    BY <1>2, NamesApart DEF AccessSucceeds
  <2> QED
    BY <2>2, <2>3 DEF Place
<1> QED
  BY <1>1, <1>2 DEF AccessSucceeds

\* What an operation on the data stream may leave in response.
Texted == ctl' = ctl \/ ctl' = [ctl EXCEPT !.resp = "text"]

\* The operations on the data stream.
LEMMA StreamCtl ==
    /\ ReadsBlock => ctl' = ctl
    /\ ReadsNothing => Texted
    /\ \A rest : WritesBlock(rest) => Texted
    /\ WritesShort => Texted
BY DEF ReadsBlock, ReadsNothing, WritesBlock, WritesShort, BinaryWaits, Stops, SelectFails,
   Texted

\* A turn of the loop of xfer.
LEMMA LoopTurns ==
    ASSUME xferLoop
    PROVE  /\ pc = "transfer" /\ Texted
           /\ (pc' = "transfer" /\ rv' = rv) \/ (pc' = "finish" /\ rv' \in {rv, 0})
           /\ UNCHANGED <<op, todo, await, back, matched, data, socks, local, ret, link,
                          wire, srv>>
<1>1. CASE xferSend
  BY <1>1, StreamCtl DEF xferLoop, xferSend, Texted
<1>2. CASE xferReceive
  BY <1>2, StreamCtl DEF xferLoop, xferReceive, Texted
<1> QED
  BY <1>1, <1>2 DEF xferLoop

\* What is said in response leaves the rest of the control structure alone.
LEMMA TextedKeeps ==
    ASSUME Types, Texted
    PROVE  /\ ctl'.live = ctl.live /\ ctl'.cmode = ctl.cmode /\ ctl'.cb = ctl.cb
           /\ ctl'.resp \in {ctl.resp, "text"}
           /\ ctl' \in [live : BOOLEAN, resp : Digits \cup {"none", "text"}, cmode : Modes,
                       cb : BOOLEAN]
BY DEF Texted, Types

\* Steps of the caller that lead from one place to the next.
LEMMA PlaceStep ==
    ASSUME Shape, Client
    PROVE  Place'
<1> USE DEF Shape
<1>1. CASE SendCommand
  BY <1>1, NamesApart DEF SendCommand, Place, OnScript, OnAccess, OnStream, OnClose,
     Commanding, Closing, Reading, InAccess
<1>2. CASE ReadResponse
  <2>1. ctl'.live = ctl.live /\ ctl'.cmode = ctl.cmode
    BY <1>2 DEF ReadResponse, Types
  <2>2. UNCHANGED <<op, todo, back, data, rv>> /\ Reading /\ (Reading' \/ pc' = back)
    BY <1>2 DEF ReadResponse, Reading
  <2> QED
    BY <2>1, <2>2 DEF Types, Place, OnScript, OnAccess, OnStream, OnClose, Commanding,
       Closing, Reading, InAccess
<1>3. CASE ContinueScript
  <2>1. OnScript /\ ctl.live /\ ~ data.live /\ rv = 1
    BY <1>3, NamesApart DEF ContinueScript, Place, OnAccess, OnStream, OnClose,
       Commanding, Closing, Reading, InAccess
  <2>2. Len(todo) > 1 => PlainScript(Tail(todo)) /\ Tail(todo) # <<>>
    BY <2>1, ScriptParts DEF OnScript
  <2> QED
    BY <1>3, <2>1, <2>2 DEF ContinueScript, Return, NoOp, Place, OnScript, Commanding, Reading
<1>4. CASE QuitEnds
  BY <1>4, NamesApart, ScriptNames DEF QuitEnds, Return, NoOp, Place, OnScript, OnAccess,
     OnStream, OnClose, Commanding, Closing, Reading, InAccess
<1>5. CASE ConnectEnds
  BY <1>5, NamesApart DEF ConnectEnds, Return, NoOp, Place, OnScript, OnAccess,
     OnStream, OnClose, Commanding, Closing, Reading, InAccess
<1>6. CASE TypeReplied
  <2>1. OnAccess /\ ctl.live /\ rv = 1 /\ (data.live <=> Len(todo) = 1)
    BY <1>6, AtAccess DEF TypeReplied
  <2>2. Len(todo) = 3
    BY <1>6, <2>1, AccessHead DEF TypeReplied, OnAccess
  <2>3. CASE AccessFails
    BY <1>6, <2>1, <2>3, ReturnRests DEF TypeReplied, AccessFails
  <2>4. CASE pc' = "openPort" /\ todo' = Tail(todo) /\ Continues
    <3>1. AccessPlan(Tail(todo), op.typ, ctl.cmode) /\ Len(Tail(todo)) = 2
      BY <2>1, <2>2, AccessTail DEF OnAccess
    <3>2. OnAccess' /\ Len(todo') = 2
      BY <1>6, <2>1, <2>4, <3>1 DEF TypeReplied, OnAccess, InAccess, Continues
    <3> QED
      BY <1>6, <2>1, <2>2, <2>4, <3>2 DEF TypeReplied, Continues, Place
  <2> QED
    BY <1>6, <2>3, <2>4 DEF TypeReplied
<1>7. CASE openPort
  <2>1. OnAccess /\ ctl.live /\ rv = 1 /\ Len(todo) = 2 /\ ~ data.live
    <3>1. InAccess
      BY <1>7 DEF openPort, Place, OnAccess, Commanding, Closing, Reading
    <3> QED
      BY <1>7, <3>1, AtAccess DEF openPort
  <2>2. CASE AccessFails
    BY <1>7, <2>1, <2>2, ReturnRests DEF openPort, AccessFails
  <2>3. CASE pc' = "send" /\ Continues /\ UNCHANGED todo
    <3>1. OnAccess' /\ UNCHANGED <<todo, ctl, data, rv>>
      BY <1>7, <2>1, <2>3 DEF openPort, OnAccess, InAccess, Continues
    <3> QED
      BY <2>1, <2>3, <3>1 DEF Place, Commanding, Reading
  <2> QED
    BY <1>7, <2>2, <2>3 DEF openPort
<1>8. CASE PortReplied
  <2>1. OnAccess /\ ctl.live /\ rv = 1 /\ (data.live <=> Len(todo) = 1)
    BY <1>8, AtAccess DEF PortReplied
  <2>2. Len(todo) = 2
    BY <1>8, <2>1, AccessHead DEF PortReplied, OnAccess
  <2>3. CASE AccessFails /\ UNCHANGED data
    BY <1>8, <2>1, <2>3, ReturnRests DEF PortReplied, AccessFails
  <2>4. CASE pc' = "send" /\ todo' = Tail(todo) /\ Continues /\ data'.live
    <3>1. AccessPlan(Tail(todo), op.typ, ctl.cmode) /\ Len(Tail(todo)) = 1
      BY <2>1, <2>2, AccessTail DEF OnAccess
    <3>2. OnAccess' /\ Len(todo') = 1
      BY <1>8, <2>1, <2>4, <3>1 DEF PortReplied, OnAccess, InAccess, Continues
    <3> QED
      BY <1>8, <2>1, <2>4, <3>2 DEF PortReplied, Continues, Place, Commanding, Reading
  <2> QED
    BY <1>8, <2>3, <2>4 DEF PortReplied
<1>9. CASE TransferReplied
  <2>1. OnAccess /\ ctl.live /\ rv = 1 /\ Len(todo) = 1 /\ data.live
    BY <1>9, AtAccess DEF TransferReplied
  <2>2. CASE AccessSucceeds
    BY <1>9, <2>1, <2>2, SuccessPlace DEF TransferReplied
  <2>3. CASE pc' \in {"accept", "close"} /\ Continues /\ UNCHANGED todo
    <3>1. OnAccess' /\ UNCHANGED <<todo, ctl, data, rv>>
      BY <1>9, <2>1, <2>3 DEF TransferReplied, OnAccess, InAccess, Continues
    <3> QED
      BY <2>1, <2>3, <3>1 DEF Place, Closing, Reading
  <2> QED
    BY <1>9, <2>2, <2>3 DEF TransferReplied
<1>10. CASE acceptConnection
  <2>1. OnAccess /\ ctl.live /\ rv = 1 /\ Len(todo) = 1 /\ data.live
    <3>1. InAccess
      BY <1>10 DEF acceptConnection, Place, OnAccess, Commanding, Closing, Reading
    <3> QED
      BY <1>10, <3>1, AtAccess DEF acceptConnection
  <2>2. CASE AccessSucceeds /\ UNCHANGED ctl
    BY <1>10, <2>1, <2>2, SuccessPlace DEF acceptConnection
  <2>3. CASE /\ pc' = "close" \/ (pc' = "read" /\ back' = "close")
             /\ UNCHANGED <<op, todo, await, matched, rv, ret, local>>
             /\ ctl' = ctl \/ ctl' = [ctl EXCEPT !.resp = "text"]
    <3>1. ctl'.live = ctl.live /\ ctl'.cmode = ctl.cmode
      BY <2>3 DEF Types
    <3>2. OnAccess' /\ UNCHANGED <<todo, data, rv>>
      BY <1>10, <2>1, <2>3, <3>1 DEF acceptConnection, OnAccess, InAccess
    <3> QED
      BY <2>1, <2>3, <3>1, <3>2 DEF Place, Closing, Reading
  <2> QED
    BY <1>10, <2>2, <2>3 DEF acceptConnection
<1>11. CASE xferLoop
  <2>1. OnStream /\ ctl.live /\ data.live /\ rv = 1
    BY <1>11 DEF xferLoop, Place, Commanding, Closing, Reading
  <2>2. OnStream' /\ UNCHANGED data /\ ctl'.live
    BY <1>11, <2>1, LoopTurns, TextedKeeps DEF OnStream
  <2>3. (pc' = "transfer" /\ rv' = 1) \/ (pc' = "finish" /\ rv' \in {0, 1})
    BY <1>11, <2>1, LoopTurns
  <2> QED
    BY <2>1, <2>2, <2>3 DEF Place
<1>12. CASE xferFinish
  <2>1. OnStream /\ ctl.live /\ data.live /\ rv \in {0, 1}
    BY <1>12 DEF xferFinish, Place, Commanding, Closing, Reading
  <2>2. OnStream' /\ UNCHANGED <<ctl, data, rv>> /\ pc' = "close"
    BY <1>12, <2>1 DEF xferFinish, OnStream
  <2> QED
    BY <2>1, <2>2 DEF Place, Closing, Reading
<1>13. CASE closeFtpClient
  <2>1. /\ (OnAccess /\ Len(todo) = 1) \/ OnStream \/ OnClose
        /\ ctl.live /\ rv \in {0, 1}
    BY <1>13 DEF closeFtpClient, Place, Commanding, Closing, Reading
  <2>2. ((OnAccess /\ Len(todo) = 1) \/ OnStream \/ OnClose)'
    BY <1>13, <2>1 DEF closeFtpClient, OnAccess, InAccess, OnStream, OnClose
  <2>3. ctl'.live /\ rv' \in {0, 1} /\ ~ data'.live
    BY <1>13, <2>1 DEF closeFtpClient, NoData
  <2>4. pc' = "closed" \/ (pc' = "read" /\ back' = "closed")
    BY <1>13 DEF closeFtpClient
  <2> QED
    BY <2>2, <2>3, <2>4 DEF Place, Closing, Reading
<1>14. CASE CloseEnds
  <2>1. ctl.live /\ ~ data.live
    BY <1>14 DEF CloseEnds, Place, Commanding, Closing, Reading
  <2>2. PICK ok : Return(ok)
    BY <1>14 DEF CloseEnds, AccessFails
  <2> QED
    BY <1>14, <2>1, <2>2, ReturnRests DEF CloseEnds
<1> QED
  BY <1>1, <1>2, <1>3, <1>4, <1>5, <1>6, <1>7, <1>8, <1>9, <1>10, <1>11, <1>12, <1>13,
     <1>14 DEF Client

\* Calls begin with the first command of their script.
LEMMA PlaceStart ==
    ASSUME Shape, Application
    PROVE  Place'
<1> USE DEF Shape
<1>1. CASE connectFtpClient
  <2>1. CASE UNCHANGED <<pc, op, todo, await, ctl, socks, link, srv>>
    BY <1>1, <2>1, PlaceKept DEF connectFtpClient
  <2>2. CASE /\ op' = [NoOp EXCEPT !.name = "connect"]
             /\ ctl' = [NoCtl EXCEPT !.live = TRUE]
             /\ todo' = <<Cmd("greeting", 0, "2")>>
             /\ pc' = "read"
    <3>1. PlainScript(<<Cmd("greeting", 0, "2")>>)
      BY OneCommand DEF PlainVerbs, Digits
    <3>2. todo' # <<>>
      BY <2>2
    <3>3. op'.name = "connect" /\ ctl'.live
      BY <2>2 DEF NoOp, NoCtl
    <3>4. back = "replied" /\ ~ data.live /\ rv = 1 /\ UNCHANGED <<back, data, rv>>
      BY <1>1 DEF connectFtpClient, Place, Commanding, Closing, Reading
    <3> QED
      BY <2>2, <3>1, <3>2, <3>3, <3>4 DEF Place, OnScript, Commanding, Reading
  <2> QED
    BY <1>1, <2>1, <2>2 DEF connectFtpClient
<1>2. ASSUME NEW name, NEW n \in PathLens \ {0}, StartScript(name, n)
      PROVE  Place'
  <2>1. pc = "idle" /\ ctl.live /\ ~ data.live /\ rv = 1 /\ back = "replied" /\ todo = <<>>
    BY <1>2 DEF StartScript, Between, Place, Commanding, Closing, Reading
  <2>2. CASE UNCHANGED <<pc, op, todo>>
    BY <1>2, <2>2, PlaceKept DEF StartScript
  <2>3. CASE /\ Scripts(n)[name] # <<>> /\ pc' = "send"
             /\ op' = [NoOp EXCEPT !.name = name] /\ todo' = Scripts(n)[name]
    <3>1. n \in Nat /\ name \in ScriptOps
      BY <1>2, ConstantsAssumption DEF StartScript
    <3>2. PlainScript(todo') /\ todo' # <<>>
      BY <2>3, <3>1, ScriptsArePlain
    <3>3. op'.name = name
      BY <2>3 DEF NoOp
    <3>4. OnScript'
      BY <3>1, <3>2, <3>3 DEF OnScript
    <3>5. UNCHANGED <<ctl, data, rv>>
      BY <1>2 DEF StartScript
    <3> QED
      BY <2>1, <2>3, <3>4, <3>5 DEF Place, Commanding, Reading
  <2> QED
    BY <1>2, <2>2, <2>3 DEF StartScript
<1>3. ASSUME NEW name \in TransferOps \cup {"access"}, NEW typ \in TransferOps,
             NEW ascii \in BOOLEAN, NEW n \in PathLens, StartAccess(name, typ, ascii, n)
      PROVE  Place'
  <2>1. pc = "idle" /\ ctl.live /\ ~ data.live /\ rv = 1 /\ back = "replied" /\ todo = <<>>
    BY <1>3 DEF StartAccess, Between, Place, Commanding, Closing, Reading
  <2>2. CASE UNCHANGED <<pc, op, todo>> /\ ctl' = [ctl EXCEPT !.resp = "text"]
    <3>1. ctl'.live = ctl.live /\ ctl'.cmode = ctl.cmode
      BY <2>2 DEF Types
    <3> QED
      BY <1>3, <2>2, <3>1, PlaceKept DEF StartAccess
  <2>3. CASE /\ pc' = "send" /\ UNCHANGED ctl
             /\ op' = [name |-> name, typ |-> typ, ascii |-> ascii]
             /\ todo' = accessScript(typ, n, ctl.cmode)
    <3>1. AccessPlan(todo', typ, ctl.cmode) /\ Len(todo') = 3
      <4>1. n \in Nat /\ ctl.cmode \in Modes
        BY ConstantsAssumption DEF Types
      <4>2. Len(todo') = 3
        BY <2>3 DEF accessScript
      <4> QED
        BY <2>3, <4>1, <4>2, AccessStart
    <3>2. op'.name = name /\ op'.typ = typ /\ (name = "access" \/ name = typ)
      BY <1>3, <2>3 DEF StartAccess
    <3>3. InAccess' /\ (op'.name \in TransferOps => op'.typ = op'.name)
      BY <3>2, NamesApart DEF InAccess
    <3>4. OnAccess'
      BY <2>3, <3>1, <3>2, <3>3 DEF OnAccess
    <3>5. UNCHANGED <<data, rv>>
      BY <1>3 DEF StartAccess
    <3> QED
      BY <2>1, <2>3, <3>1, <3>4, <3>5 DEF Place, Commanding, Reading
  <2> QED
    BY <1>3, <2>2, <2>3 DEF StartAccess
<1>4. CASE readFtpClient \/ writeFtpClient
  <2>1. Texted
    BY <1>4, StreamCtl DEF readFtpClient, writeFtpClient, Texted
  <2>2. UNCHANGED <<pc, op, todo, back, rv, data>>
    BY <1>4 DEF readFtpClient, writeFtpClient, locals
  <2> QED
    BY <2>1, <2>2, TextedKeeps, PlaceKept
<1>5. CASE StartClose
  <2>1. pc = "idle" /\ ctl.live /\ data.live /\ rv = 1 /\ todo = <<>>
    BY <1>5 DEF StartClose, Streaming, Place, Commanding, Closing, Reading
  <2>2. OnClose' /\ pc' = "close" /\ UNCHANGED <<ctl, data, rv>>
    BY <1>5, <2>1 DEF StartClose, OnClose, NoOp
  <2> QED
    BY <2>1, <2>2 DEF Place, Closing, Reading
<1>6. ASSUME NEW on, setCallbackFtpClient(on)
      PROVE  Place'
  <2>1. ctl'.live = ctl.live /\ ctl'.cmode = ctl.cmode
    BY <1>6 DEF setCallbackFtpClient, Types
  <2> QED
    BY <1>6, <2>1, PlaceKept DEF setCallbackFtpClient, locals
<1>7. ASSUME NEW mode, setOptionsFtpClient(mode)
      PROVE  Place'
  <2>1. ctl'.live = ctl.live
    BY <1>7 DEF setOptionsFtpClient, Types
  <2>2. pc = "idle" /\ UNCHANGED <<pc, back, todo, data, rv>>
    BY <1>7 DEF setOptionsFtpClient, locals
  <2> QED
    BY <2>1, <2>2 DEF Place, Commanding, Closing, Reading
<1> QED
  BY <1>1, <1>2, <1>3, <1>4, <1>5, <1>6, <1>7 DEF Application

\* The server and the network leave the caller where it is.
LEMMA PlaceOthers ==
    ASSUME Place, Server \/ LinkBreaks
    PROVE  Place'
<1>1. UNCHANGED clientVars
  BY DEF Server, ServerReplies, ServerBegins, ServerDials, ServerEnds, ServerMoves,
     ServerFinishes, LinkBreaks
<1> QED
  BY <1>1, PlaceKept DEF clientVars

\* The line read next, and those behind it.
LEMMA WireParts ==
    ASSUME wire \in Seq(Lines), wire # <<>>
    PROVE  /\ Head(wire) \in Lines /\ Head(wire) = wire[1] /\ Tail(wire) \in Seq(Lines)
           /\ Len(wire) \in Nat /\ Len(wire) > 0 /\ Len(Tail(wire)) = Len(wire) - 1
           /\ \A i \in 1 .. Len(wire) - 1 : Tail(wire)[i] = wire[i + 1]
BY HeadTailProperties, EmptySeq

\* The command sent next is one the client knows.
LEMMA CommandKnown ==
    ASSUME Place, pc = "send"
    PROVE  Head(todo) \in Commands /\ todo # <<>>
<1>1. OnScript \/ OnAccess
  BY DEF Place, Commanding, Closing, Reading
<1>2. CASE OnScript
  BY <1>2, ScriptParts DEF OnScript
<1>3. CASE OnAccess
  BY <1>3, AccessHead DEF OnAccess
<1> QED
  BY <1>1, <1>2, <1>3

\* Steps that leave the control connection and its structure alone.
LEMMA TypesKept1 ==
    ASSUME Types, UNCHANGED <<ctl, link, wire, srv>>, back' \in {"replied", "close", "closed"},
           matched' \in BOOLEAN, op' \in {op, NoOp},
           data' \in [live : BOOLEAN, dir : {"read", "write"}, ascii : BOOLEAN, cb : BOOLEAN]
    PROVE  Types'
<1>1. op'.ascii \in BOOLEAN
  <2>1. CASE op' = op
    BY <2>1 DEF Types
  <2>2. CASE op' = NoOp
    <3>1. NoOp.ascii \in BOOLEAN
      BY DEF NoOp
    <3> QED
      BY <2>2, <3>1
  <2> QED
    BY <2>1, <2>2
<1> QED
  BY <1>1 DEF Types

\* The values of a control connection that is gone.
LEMMA Reset ==
    /\ NoCtl \in [live : BOOLEAN, resp : Digits \cup {"none", "text"}, cmode : Modes, cb : BOOLEAN]
    /\ Idle \in SrvType /\ Idle.st = "idle"
    /\ <<>> \in Seq(Lines) /\ NoOp.ascii = FALSE
<1>1. NoCtl \in [live : BOOLEAN, resp : Digits \cup {"none", "text"}, cmode : Modes, cb : BOOLEAN]
  BY DEF NoCtl, Modes
<1>2. Idle \in SrvType /\ Idle.st = "idle"
  BY DEF Idle, States, SrvType
<1>3. <<>> \in Seq(Lines) /\ NoOp.ascii = FALSE
  BY EmptySeq DEF NoOp
<1> QED
  BY <1>1, <1>2, <1>3

\* The caller's steps keep the types.
LEMMA TypesStep ==
    ASSUME Shape, Client
    PROVE  Types'
<1> USE DEF Shape
<1>1. CASE SendCommand
  <2>1. Head(todo).verb \in Verbs
    BY <1>1, CommandKnown DEF SendCommand, Commands
  <2>2. srv' = srv \/ srv' = [srv EXCEPT !.st = "asked", !.verb = Head(todo).verb]
    BY <1>1 DEF SendCommand
  <2>3. srv' \in SrvType
    BY <2>1, <2>2 DEF Types, States, SrvType
  <2>4. /\ srv'.st # "idle" => srv'.verb \in Verbs
        /\ srv'.st \in {"dial", "serve"} => srv'.verb \in TransferVerbs
    BY <2>1, <2>2 DEF Types, SrvType
  <2>5. back' \in {"replied", "close", "closed"} /\ matched' \in BOOLEAN /\ op' = op
    BY <1>1 DEF SendCommand, Types
  <2> QED
    BY <1>1, <2>3, <2>4, <2>5 DEF SendCommand, Types
<1>2. CASE ReadResponse
  <2>1. CASE wire # <<>>
    <3>1. /\ Head(wire) \in Lines /\ Tail(wire) \in Seq(Lines)
          /\ Head(wire).digit \in Digits \cup {"text"}
      BY <2>1, WireParts DEF Types, Lines
    <3>2. \A rest \in Rests : <<rest>> \o Tail(wire) \in Seq(Lines)
      <4>1. \A rest \in Rests : rest \in Lines
        BY DEF Rests, Line, Lines, Kinds
      <4> QED
        BY <3>1, <4>1
    <3>3. \/ ctl' = [ctl EXCEPT !.resp = "none"] /\ (\E rest \in Rests : wire' = <<rest>> \o Tail(wire))
          \/ ctl' = [ctl EXCEPT !.resp = Head(wire).digit] /\ wire' = Tail(wire)
      BY <1>2, <2>1 DEF ReadResponse
    <3>4. wire' \in Seq(Lines)
      BY <3>1, <3>2, <3>3
    <3>5. ctl' \in [live : BOOLEAN, resp : Digits \cup {"none", "text"}, cmode : Modes,
                    cb : BOOLEAN]
      BY <3>1, <3>3 DEF Types
    <3>6. matched' \in BOOLEAN
      <4>1. (Head(wire).kind = "last" /\ Head(wire).digit = Expected) \in BOOLEAN
        OBVIOUS
      <4> QED
        BY <1>2, <2>1, <4>1 DEF ReadResponse, Types
    <3> QED
      BY <1>2, <3>4, <3>5, <3>6 DEF ReadResponse, Types
  <2>2. CASE matched' = FALSE /\ UNCHANGED <<ctl, wire>>
    BY <1>2, <2>2, TypesKept1 DEF ReadResponse, Types
  <2> QED
    BY <1>2, <2>1, <2>2 DEF ReadResponse
<1>3. CASE ContinueScript
  BY <1>3, TypesKept1 DEF ContinueScript, Return, Types
<1>4. CASE QuitEnds
  BY <1>4, Reset DEF QuitEnds, Return, Types
<1>5. CASE ConnectEnds
  <2>1. CASE matched
    BY <1>5, <2>1, TypesKept1 DEF ConnectEnds, Return, Types
  <2>2. CASE ~ matched
    BY <1>5, <2>2, Reset DEF ConnectEnds, Return, Types
  <2> QED
    BY <2>1, <2>2
<1>6. CASE TypeReplied
  BY <1>6, TypesKept1 DEF TypeReplied, AccessFails, Continues, Return, Types
<1>7. CASE openPort
  BY <1>7, TypesKept1 DEF openPort, AccessFails, Continues, Return, Types
<1>8. CASE PortReplied
  <2>1. Direction(op.typ) \in {"read", "write"}
    BY DEF Direction
  <2>2. op.ascii \in BOOLEAN
    BY DEF Types
  <2>3. /\ UNCHANGED <<ctl, link, wire, srv>> /\ op' \in {op, NoOp}
        /\ back' \in {"replied", "close", "closed"} /\ matched' \in BOOLEAN
    BY <1>8 DEF PortReplied, AccessFails, Continues, Return, Types
  <2>4. ctl.cb \in BOOLEAN
    BY DEF Types
  <2>5. data' \in [live : BOOLEAN, dir : {"read", "write"}, ascii : BOOLEAN, cb : BOOLEAN]
    <3>1. CASE UNCHANGED data
      BY <3>1 DEF Types
    <3>2. CASE data' = [live |-> TRUE, dir |-> Direction(op.typ), ascii |-> op.ascii, cb |-> ctl.cb]
      BY <2>1, <2>2, <2>4, <3>2
    <3> QED
      BY <1>8, <3>1, <3>2 DEF PortReplied
  <2> QED
    BY <2>3, <2>5, TypesKept1
<1>9. CASE TransferReplied
  BY <1>9, TypesKept1 DEF TransferReplied, AccessSucceeds, Continues, Return, Types
<1>10. CASE acceptConnection
  <2>1. CASE UNCHANGED ctl
    BY <1>10, <2>1, TypesKept1 DEF acceptConnection, AccessSucceeds, Return, Types
  <2>2. CASE ctl' = [ctl EXCEPT !.resp = "text"] /\ UNCHANGED <<op, back, matched>>
    <3>1. ctl' \in [live : BOOLEAN, resp : Digits \cup {"none", "text"}, cmode : Modes,
                    cb : BOOLEAN]
      BY <2>2 DEF Types
    <3> QED
      BY <1>10, <2>2, <3>1 DEF acceptConnection, Types
  <2> QED
    BY <1>10, <2>1, <2>2 DEF acceptConnection
<1>11. CASE xferLoop
  <2>1. Texted
    BY <1>11, LoopTurns
  <2> QED
    BY <1>11, <2>1, LoopTurns, TextedKeeps DEF Types
<1>12. CASE xferFinish
  BY <1>12, TypesKept1 DEF xferFinish, Types
<1>13. CASE closeFtpClient
  BY <1>13, TypesKept1 DEF closeFtpClient, NoData, Types
<1>14. CASE CloseEnds
  BY <1>14, TypesKept1 DEF CloseEnds, AccessFails, Return, Types
<1> QED
  BY <1>1, <1>2, <1>3, <1>4, <1>5, <1>6, <1>7, <1>8, <1>9, <1>10, <1>11, <1>12, <1>13,
     <1>14 DEF Client

\* The application's steps keep the types.
LEMMA TypesStart ==
    ASSUME Shape, Application
    PROVE  Types'
<1> USE DEF Shape
<1> DEFINE CtlType == [live : BOOLEAN, resp : Digits \cup {"none", "text"}, cmode : Modes,
                       cb : BOOLEAN]
<1>1. CASE connectFtpClient
  <2>1. CASE UNCHANGED <<pc, op, todo, await, ctl, socks, link, srv>>
    BY <1>1, <2>1 DEF connectFtpClient, Types
  <2>2. CASE /\ op' = [NoOp EXCEPT !.name = "connect"]
             /\ ctl' = [NoCtl EXCEPT !.live = TRUE] /\ link' = "up"
             /\ srv' = [Idle EXCEPT !.st = "asked", !.verb = "greeting"]
    <3>1. ctl' \in CtlType
      BY <2>2, Reset
    <3>2. "greeting" \in Verbs
      BY DEF Verbs, PlainVerbs
    <3>3. srv' \in SrvType
      BY <2>2, <3>2, Reset DEF States, SrvType
    <3>4. srv'.verb = "greeting"
      BY <2>2 DEF Idle
    <3>5. op'.ascii \in BOOLEAN
      BY <2>2 DEF NoOp
    <3> QED
      BY <1>1, <2>2, <3>1, <3>2, <3>3, <3>4, <3>5 DEF connectFtpClient, Types
  <2> QED
    BY <1>1, <2>1, <2>2 DEF connectFtpClient
<1>2. ASSUME NEW name, NEW n \in PathLens \ {0}, StartScript(name, n)
      PROVE  Types'
  <2>1. op'.ascii \in BOOLEAN
    <3>1. CASE op' = op
      BY <3>1 DEF Types
    <3>2. CASE op' = [NoOp EXCEPT !.name = name]
      BY <3>2 DEF NoOp
    <3> QED
      BY <1>2, <3>1, <3>2 DEF StartScript
  <2> QED
    BY <1>2, <2>1 DEF StartScript, Types
<1>3. ASSUME NEW name \in TransferOps \cup {"access"}, NEW typ \in TransferOps,
             NEW ascii \in BOOLEAN, NEW n \in PathLens, StartAccess(name, typ, ascii, n)
      PROVE  Types'
  <2>1. op'.ascii \in BOOLEAN
    <3>1. CASE op' = op
      BY <3>1 DEF Types
    <3>2. CASE op' = [name |-> name, typ |-> typ, ascii |-> ascii]
      BY <3>2
    <3> QED
      BY <1>3, <3>1, <3>2 DEF StartAccess
  <2>2. ctl' \in CtlType
    <3>1. ctl' = ctl \/ ctl' = [ctl EXCEPT !.resp = "text"]
      BY <1>3 DEF StartAccess
    <3> QED
      BY <3>1 DEF Types
  <2> QED
    BY <1>3, <2>1, <2>2 DEF StartAccess, Types
<1>4. CASE readFtpClient \/ writeFtpClient
  <2>1. ctl' \in CtlType
    <3>1. Texted
      BY <1>4, StreamCtl DEF readFtpClient, writeFtpClient, Texted
    <3> QED
      BY <3>1, TextedKeeps
  <2> QED
    BY <1>4, <2>1 DEF readFtpClient, writeFtpClient, locals, Types
<1>5. CASE StartClose
  <2>1. op'.ascii \in BOOLEAN
    BY <1>5 DEF StartClose, NoOp
  <2> QED
    BY <1>5, <2>1 DEF StartClose, Types
<1>6. ASSUME NEW on \in BOOLEAN, setCallbackFtpClient(on)
      PROVE  Types'
  <2>1. ctl' \in CtlType
    BY <1>6 DEF setCallbackFtpClient, Types
  <2> QED
    BY <1>6, <2>1 DEF setCallbackFtpClient, locals, Types
<1>7. ASSUME NEW mode \in Modes, setOptionsFtpClient(mode)
      PROVE  Types'
  <2>1. ctl' \in CtlType
    BY <1>7 DEF setOptionsFtpClient, Types
  <2> QED
    BY <1>7, <2>1 DEF setOptionsFtpClient, locals, Types
<1> QED
  BY <1>1, <1>2, <1>3, <1>4, <1>5, <1>6, <1>7 DEF Application

\* The digits of the server's answers.
LEMMA AnswersAreDigits == \A v : Answers(v) \subseteq Digits
BY DEF Answers, Digits

\* The layouts of a reply: one line, or two of a greeting or login text.
LEMMA LayoutsAre ==
    ASSUME NEW layout \in Layouts \cup LongLayouts
    PROVE  /\ layout \in Seq(Kinds) /\ Len(layout) \in {1, 2} /\ DOMAIN layout = 1 .. Len(layout)
           /\ layout \notin LongLayouts =>
                \/ Len(layout) = 1 /\ layout[1] = "last"
                \/ /\ Len(layout) = 2 /\ layout[1] = "more" /\ layout[2] = "last"
                   /\ srv.verb \in Texts
           /\ layout \in LongLayouts /\ srv.verb \notin Texts => Len(layout) = 1 /\ layout[1] = "long"
           /\ layout \in LongLayouts => Overlong /\ ~ srv.long
<1>1. /\ layout \in {<<"last">>, <<"more", "last">>, <<"long">>, <<"among", "last">>, <<"more", "among">>}
      /\ layout = <<"more", "last">> => srv.verb \in Texts
      /\ layout \in LongLayouts => Overlong /\ ~ srv.long
      /\ layout \notin LongLayouts => layout \in {<<"last">>, <<"more", "last">>}
      /\ layout \in LongLayouts /\ srv.verb \notin Texts => layout = <<"long">>
  BY DEF Layouts, LongLayouts
<1>2. {"last", "more", "long", "among"} \subseteq Kinds
  BY DEF Kinds, LongKinds
<1>3. layout \in Seq(Kinds) /\ Len(layout) \in {1, 2}
  <2>1. ASSUME NEW a \in Kinds
        PROVE  <<a>> \in Seq(Kinds) /\ Len(<<a>>) = 1
    OBVIOUS
  <2>2. ASSUME NEW a \in Kinds, NEW b \in Kinds
        PROVE  <<a, b>> \in Seq(Kinds) /\ Len(<<a, b>>) = 2
    OBVIOUS
  <2>3. "last" \in Kinds /\ "more" \in Kinds /\ "long" \in Kinds /\ "among" \in Kinds
    BY <1>2
  <2>4. CASE layout \in {<<"last">>, <<"long">>}
    BY <2>1, <2>3, <2>4
  <2>5. CASE layout \in {<<"more", "last">>, <<"among", "last">>, <<"more", "among">>}
    BY <2>2, <2>3, <2>5
  <2> QED
    BY <1>1, <2>4, <2>5
<1>4. DOMAIN layout = 1 .. Len(layout)
  BY <1>3, LenProperties
<1> QED
  BY <1>1, <1>3, <1>4

\* The lines of a reply, behind those on their way.
LEMMA ReplyLines ==
    ASSUME Types, srv.st # "idle", NEW digit \in Digits, NEW layout \in Layouts \cup LongLayouts,
           NEW st, NEW logged, Replies(digit, layout, st, logged)
    PROVE  /\ wire' \in Seq(Lines) /\ Len(wire') = Len(wire) + Len(layout)
           /\ \A i \in 1 .. Len(wire) : wire'[i] = wire[i]
           /\ \A i \in 1 .. Len(layout) :
                wire'[Len(wire) + i] = Line(srv.verb, digit, layout[i])
<1> DEFINE reply == [i \in DOMAIN layout |-> Line(srv.verb, digit, layout[i])]
<1>1. layout \in Seq(Kinds) /\ Len(layout) \in Nat /\ DOMAIN layout = 1 .. Len(layout)
  BY LayoutsAre
<1>2. \A i \in 1 .. Len(layout) : Line(srv.verb, digit, layout[i]) \in Lines
  BY <1>1, ElementOfSeq DEF Line, Lines, Types
<1>3. /\ reply \in Seq(Lines) /\ Len(reply) = Len(layout)
      /\ \A i \in 1 .. Len(layout) : reply[i] = Line(srv.verb, digit, layout[i])
  BY <1>1, <1>2
<1>4. wire' = wire \o reply
  BY DEF Replies
<1> HIDE DEF reply
<1>5. wire \in Seq(Lines) /\ Len(wire) \in Nat
  BY LenProperties DEF Types
<1>6. /\ wire' \in Seq(Lines) /\ Len(wire') = Len(wire) + Len(reply)
      /\ \A i \in 1 .. Len(wire) + Len(reply) :
           wire'[i] = IF i <= Len(wire) THEN wire[i] ELSE reply[i - Len(wire)]
  <2>1. reply \in Seq(Lines) /\ wire \in Seq(Lines)
    BY <1>3, <1>5
  <2>2. /\ wire \o reply \in Seq(Lines) /\ Len(wire \o reply) = Len(wire) + Len(reply)
        /\ \A i \in 1 .. Len(wire) + Len(reply) :
             (wire \o reply)[i] = IF i <= Len(wire) THEN wire[i] ELSE reply[i - Len(wire)]
    BY <2>1, ConcatProperties, Zenon
  <2> QED
    BY <1>4, <2>2, Zenon
<1>7. ASSUME NEW i \in 1 .. Len(wire)  PROVE wire'[i] = wire[i]
  <2>1. i \in 1 .. Len(wire) + Len(reply) /\ i <= Len(wire)
    BY <1>1, <1>3, <1>5
  <2> QED
    BY <1>6, <2>1
<1>8. ASSUME NEW i \in 1 .. Len(layout)
      PROVE  wire'[Len(wire) + i] = Line(srv.verb, digit, layout[i])
  <2>1. /\ Len(wire) + i \in 1 .. Len(wire) + Len(reply) /\ ~ (Len(wire) + i <= Len(wire))
        /\ (Len(wire) + i) - Len(wire) = i
    BY <1>1, <1>3, <1>5
  <2>2. wire'[Len(wire) + i] = reply[(Len(wire) + i) - Len(wire)]
    BY <1>6, <2>1
  <2> QED
    BY <1>3, <2>1, <2>2
<1> QED
  BY <1>3, <1>6, <1>7, <1>8

\* What a reply makes of the server.
LEMMA ReplySrv ==
    ASSUME Types, srv.st # "idle", NEW digit, NEW layout \in Layouts \cup LongLayouts,
           NEW st \in States, NEW logged \in BOOLEAN, Replies(digit, layout, st, logged)
    PROVE  /\ srv' \in SrvType /\ srv'.st = st /\ (st # "idle" => srv'.verb = srv.verb)
           /\ srv'.long <=> srv.long \/ layout \in LongLayouts
<1>1. srv' = [st |-> st, verb |-> IF st = "idle" THEN "none" ELSE srv.verb,
              logged |-> logged, long |-> srv.long \/ layout \in LongLayouts]
  BY DEF Replies
<1>2. srv.verb \in Verbs /\ (srv.long \/ layout \in LongLayouts) \in BOOLEAN
  BY DEF Types
<1> QED
  BY <1>1, <1>2 DEF SrvType

\* The steps of the server and of the network keep the types.
LEMMA TypesOthers ==
    ASSUME Types, Server \/ LinkBreaks
    PROVE  Types'
<1>1. UNCHANGED <<back, matched, op, ctl, data>>
  BY DEF Server, ServerReplies, ServerBegins, ServerDials, ServerEnds, ServerMoves,
     ServerFinishes, LinkBreaks, clientVars
<1>2. ASSUME srv.st # "idle", UNCHANGED link, NEW digit \in Digits,
             NEW layout \in Layouts \cup LongLayouts, NEW st \in States, NEW logged \in BOOLEAN,
             Replies(digit, layout, st, logged),
             st \in {"dial", "serve"} => srv.verb \in TransferVerbs
      PROVE  Types'
  <2>1. wire' \in Seq(Lines)
    BY <1>2, ReplyLines
  <2>2. srv' \in SrvType /\ srv'.st = st /\ (st # "idle" => srv'.verb = srv.verb)
    BY <1>2, ReplySrv
  <2>3. srv.verb \in Verbs
    BY <1>2 DEF Types
  <2> QED
    BY <1>1, <1>2, <2>1, <2>2, <2>3 DEF Types, States
<1>3. CASE ServerReplies
  <2>1. PICK digit \in Answers(srv.verb), layout \in Layouts \cup LongLayouts :
          Replies(digit, layout, "idle",
                  srv.logged \/ (srv.verb \in {"USER", "PASS"} /\ digit = "2"))
    BY <1>3 DEF ServerReplies
  <2>2. (srv.logged \/ (srv.verb \in {"USER", "PASS"} /\ digit = "2")) \in BOOLEAN
    BY DEF Types, SrvType
  <2>3. srv.st # "idle" /\ UNCHANGED link /\ digit \in Digits /\ "idle" \in States
    BY <1>3, AnswersAreDigits DEF ServerReplies, States
  <2> QED
    BY <1>2, <2>1, <2>2, <2>3
<1>4. CASE ServerBegins
  <2>1. PICK layout \in Layouts \cup LongLayouts :
          \/ Replies("4", layout, "idle", srv.logged)
          \/ Replies("1", layout, IF ctl.cmode = "passive" THEN "serve" ELSE "dial", srv.logged)
    BY <1>4 DEF ServerBegins
  <2>2. srv.st # "idle" /\ srv.verb \in TransferVerbs /\ UNCHANGED link
    BY <1>4 DEF ServerBegins
  <2>3. srv.logged \in BOOLEAN /\ {"1", "4"} \subseteq Digits /\ {"idle", "serve", "dial"} \subseteq States
    BY DEF Types, SrvType, Digits, States
  <2> QED
    BY <1>2, <2>1, <2>2, <2>3
<1>5. ASSUME NEW digit \in {"2", "4"}, ServerEnds(digit), srv.st # "idle"
      PROVE  Types'
  <2>1. PICK layout \in Layouts \cup LongLayouts : Replies(digit, layout, "idle", srv.logged)
    BY <1>5 DEF ServerEnds
  <2>2. srv.logged \in BOOLEAN /\ digit \in Digits /\ "idle" \in States /\ UNCHANGED link
    BY <1>5 DEF Types, SrvType, Digits, States, ServerEnds
  <2> QED
    BY <1>2, <1>5, <2>1, <2>2
<1>6. CASE ServerDials
  <2>1. CASE srv.st = "dial" /\ srv' = [srv EXCEPT !.st = "serve"] /\ UNCHANGED <<link, wire>>
    <3>1. srv' \in SrvType /\ srv'.verb = srv.verb /\ srv'.st = "serve"
      BY <2>1 DEF Types, SrvType, States
    <3>2. srv.verb \in Verbs /\ srv.verb \in TransferVerbs
      BY <2>1 DEF Types
    <3> QED
      BY <1>1, <2>1, <3>1, <3>2 DEF Types
  <2> QED
    BY <1>5, <1>6, <2>1 DEF ServerDials
<1>7. CASE ServerMoves
  BY <1>1, <1>7 DEF ServerMoves, Types
<1>8. CASE ServerFinishes
  BY <1>5, <1>8 DEF ServerFinishes
<1>9. CASE LinkBreaks
  <2>1. PICK kept \in 0 .. Len(wire) : wire' = SubSeq(wire, 1, kept)
    BY <1>9 DEF LinkBreaks
  <2>2. wire' \in Seq(Lines)
    BY <2>1, SubSeqProperties DEF Types
  <2>3. srv' \in SrvType /\ srv'.st = "idle"
    BY <1>9 DEF LinkBreaks, Types, SrvType, States
  <2> QED
    BY <1>1, <1>9, <2>2, <2>3 DEF LinkBreaks, Types
<1> QED
  BY <1>3, <1>4, <1>6, <1>7, <1>8, <1>9 DEF Server

\* Every step keeps the shape.
LEMMA ShapeStep ==
    ASSUME Shape, [Next]_vars
    PROVE  Shape'
<1>1. CASE Application
  BY <1>1, PlaceStart, TypesStart DEF Shape
<1>2. CASE Client
  BY <1>2, PlaceStep, TypesStep DEF Shape
<1>3. CASE Server \/ LinkBreaks
  BY <1>3, PlaceOthers, TypesOthers DEF Shape
<1>4. CASE UNCHANGED vars
  <2>1. Place'
    BY <1>4, PlaceKept DEF vars, clientVars, Shape
  <2>2. Types'
    BY <1>4 DEF vars, clientVars, Shape, Types
  <2> QED
    BY <2>1, <2>2 DEF Shape
<1> QED
  BY <1>1, <1>2, <1>3, <1>4 DEF Next

-----------------------------------------------------------------------------
(* The data connection has the fields the model gives it.                    *)

FlowType == [conn : {"none", "pending", "open", "closed"}, left : 0 .. FileBlocks,
             pipe : 0 .. FileBlocks, eof : BOOLEAN, lost : BOOLEAN]

\* The numbers of blocks.
LEMMA FlowCounts ==
    ASSUME flow \in FlowType
    PROVE  /\ flow.left \in Nat /\ flow.pipe \in Nat /\ FileBlocks \in Nat
           /\ flow.left <= FileBlocks /\ flow.pipe <= FileBlocks
BY ConstantsAssumption DEF FlowType

\* Reading and writing a stream.
LEMMA StreamFlow ==
    ASSUME flow \in FlowType,
           \/ ReadsBlock \/ ReadsNothing \/ WritesBlock(flow) \/ WritesShort
           \/ flow.left > 0 /\ WritesBlock([flow EXCEPT !.left = @ - 1])
    PROVE  flow' \in FlowType /\ flow'.conn = flow.conn
<1>1. CASE UNCHANGED flow
  BY <1>1
<1>2. CASE ReadsBlock
  BY <1>2, FlowCounts DEF ReadsBlock, FlowType
<1>3. CASE WritesShort
  BY <1>3 DEF WritesShort, FlowType
<1>4. ASSUME NEW rest \in FlowType, rest.conn = flow.conn, WritesBlock(rest)
      PROVE  flow' \in FlowType /\ flow'.conn = flow.conn
  <2>1. CASE flow' = [rest EXCEPT !.lost = TRUE]
    BY <1>4, <2>1 DEF FlowType
  <2>2. CASE rest.pipe < FileBlocks /\ flow' = [rest EXCEPT !.pipe = @ + 1]
    <3>1. rest.pipe + 1 \in 0 .. FileBlocks
      BY <1>4, <2>2, ConstantsAssumption DEF FlowType
    <3> QED
      BY <1>4, <2>2, <3>1 DEF FlowType
  <2> QED
    BY <1>4, <2>1, <2>2 DEF WritesBlock
<1>5. flow.left > 0 => /\ [flow EXCEPT !.left = @ - 1] \in FlowType
                       /\ [flow EXCEPT !.left = @ - 1].conn = flow.conn
  BY FlowCounts DEF FlowType
<1> QED
  BY <1>1, <1>2, <1>3, <1>4, <1>5 DEF ReadsNothing

\* A turn of the loop of xfer.
LEMMA LoopFlow ==
    ASSUME flow \in FlowType, xferLoop
    PROVE  flow' \in FlowType /\ flow'.conn = flow.conn
BY StreamFlow DEF xferLoop, xferSend, xferReceive

\* The first state.
LEMMA FlowInit == Init => flow \in FlowType
BY ConstantsAssumption DEF Init, NoFlow, FlowType

\* Every step.
LEMMA FlowStep ==
    ASSUME flow \in FlowType, [Next]_vars
    PROVE  flow' \in FlowType
<1>1. CASE Application
  <2>1. CASE UNCHANGED flow
    BY <2>1
  <2>2. CASE readFtpClient \/ writeFtpClient
    BY <2>2, StreamFlow DEF readFtpClient, writeFtpClient
  <2>3. ASSUME NEW name, NEW typ, NEW ascii, NEW n, StartAccess(name, typ, ascii, n)
        PROVE  flow' \in FlowType
    <3>1. CASE UNCHANGED flow
      BY <3>1
    <3>2. ASSUME NEW blocks \in 0 .. FileBlocks, flow' = [NoFlow EXCEPT !.left = blocks]
          PROVE  flow' \in FlowType
      <4>1. /\ flow'.conn = "none" /\ flow'.left = blocks /\ flow'.pipe = 0
            /\ flow'.eof = FALSE /\ flow'.lost = FALSE /\ 0 \in 0 .. FileBlocks
        BY <3>2, ConstantsAssumption DEF NoFlow
      <4>2. flow' = [conn |-> "none", left |-> blocks, pipe |-> 0, eof |-> FALSE, lost |-> FALSE]
        BY <3>2 DEF NoFlow
      <4> QED
        BY <3>2, <4>1, <4>2 DEF FlowType
    <3> QED
      BY <2>3, <3>1, <3>2 DEF StartAccess
  <2> QED
    BY <1>1, <2>1, <2>2, <2>3 DEF Application, connectFtpClient, StartScript, StartClose,
       setCallbackFtpClient, setOptionsFtpClient
<1>2. CASE Client
  <2>1. CASE UNCHANGED flow
    BY <2>1
  <2>2. CASE PortReplied
    BY <2>2 DEF PortReplied, FlowType
  <2>3. CASE acceptConnection
    BY <2>3 DEF acceptConnection, FlowType
  <2>4. CASE xferLoop
    BY <2>4, LoopFlow
  <2>5. CASE closeFtpClient
    BY <2>5 DEF closeFtpClient, FlowType
  <2>6. CASE CloseEnds
    BY <2>6, ConstantsAssumption DEF CloseEnds, NoFlow, FlowType
  <2> QED
    BY <1>2, <2>1, <2>2, <2>3, <2>4, <2>5, <2>6 DEF Client, SendCommand, ReadResponse,
       ContinueScript, QuitEnds, ConnectEnds, TypeReplied, openPort, TransferReplied,
       xferFinish
<1>3. CASE Server
  <2>1. ASSUME NEW digit, ServerEnds(digit)
        PROVE  flow' \in FlowType
    BY <2>1 DEF ServerEnds, FlowType
  <2>2. CASE ServerDials
    BY <2>1, <2>2 DEF ServerDials, FlowType
  <2>3. CASE ServerMoves
    <3>1. CASE /\ flow.left > 0 /\ flow.pipe < FileBlocks
               /\ flow' = [flow EXCEPT !.left = @ - 1, !.pipe = @ + 1]
      <4>1. flow.left - 1 \in 0 .. FileBlocks /\ flow.pipe + 1 \in 0 .. FileBlocks
        BY <3>1, FlowCounts
      <4> QED
        BY <3>1, <4>1 DEF FlowType
    <3>2. CASE flow.pipe > 0 /\ flow' = [flow EXCEPT !.pipe = @ - 1]
      BY <3>2, FlowCounts DEF FlowType
    <3> QED
      BY <2>3, <3>1, <3>2 DEF ServerMoves
  <2>4. CASE ServerFinishes
    BY <2>1, <2>4 DEF ServerFinishes
  <2> QED
    BY <1>3, <2>2, <2>3, <2>4 DEF Server, ServerReplies, ServerBegins
<1>4. CASE LinkBreaks
  BY <1>4 DEF LinkBreaks, FlowType
<1> QED
  BY <1>1, <1>2, <1>3, <1>4 DEF Next, vars

-----------------------------------------------------------------------------
(* Which replies are outstanding, wherever the caller is.                    *)

Quiet == wire = <<>> /\ srv.st = "idle"
Refusing == ctl.resp \in {"4", "5"}
OnTransfer == InAccess /\ Len(todo) = 1
\* A command that sendCommand does not take.
Unsent == todo # <<>> /\ Head(todo).len + 3 > TempBuffer

\* The reply to a command other than a transfer.
PlainDue ==
    \/ srv.st = "asked" /\ srv.verb \notin TransferVerbs /\ wire = <<>>
    \/ srv.st = "idle" /\ Len(wire) = 1 /\ (wire[1].kind = "more" => link = "down")
    \/ srv.st = "idle" /\ Len(wire) = 2 /\ wire[1].kind = "more" /\ wire[2].kind = "last"
    \/ link = "down" /\ Quiet

\* The reply that ends a transfer; without a data connection it is a refusal.
Ends(line) == line.kind = "last" /\ (flow.conn = "none" => line.digit = "4")
ClosingDue ==
    \/ srv.st \in {"dial", "serve"} /\ wire = <<>>
    \/ srv.st = "idle" /\ Len(wire) = 1 /\ Ends(wire[1])
    \/ link = "down" /\ Quiet

\* The replies to a transfer: a refusal, or the first and the one that ends it.
TransferDue ==
    \/ srv.st = "asked" /\ srv.verb \in TransferVerbs /\ wire = <<>>
    \/ srv.st = "idle" /\ Len(wire) = 1 /\ wire[1].kind = "last" /\ wire[1].digit = "4"
    \/ /\ srv.st \in {"dial", "serve"} /\ Len(wire) = 1
       /\ wire[1].kind = "last" /\ wire[1].digit = "1"
    \/ /\ srv.st = "idle" /\ Len(wire) = 2
       /\ wire[1].kind = "last" /\ wire[1].digit = "1" /\ Ends(wire[2])
    \/ link = "down" /\ srv.st = "idle" /\ Len(wire) = 1 /\ wire[1].kind = "last" /\ wire[1].digit = "1"
    \/ link = "down" /\ Quiet

RefusalDue ==
    \/ srv.st = "idle" /\ Len(wire) = 1 /\ wire[1].kind = "last" /\ wire[1].digit = "4"
    \/ link = "down" /\ Quiet

Due ==
    /\ pc # "skip"
    /\ pc = "idle" => IF data.live THEN ClosingDue ELSE Quiet
    /\ pc \in {"send", "openPort", "closed"} => Quiet
    /\ pc = "read" /\ back = "replied" => IF OnTransfer THEN TransferDue ELSE PlainDue
    /\ pc = "read" /\ back = "close" => RefusalDue
    /\ pc = "read" /\ back = "closed" => ClosingDue \/ (Quiet /\ Unsent)
    /\ pc = "replied" => IF OnTransfer /\ matched THEN ClosingDue ELSE Quiet
    /\ pc \in {"accept", "transfer", "finish"} => ClosingDue
    /\ pc = "close" => IF Refusing THEN Quiet ELSE ClosingDue \/ (Quiet /\ Unsent)

\* What the client knows of the last reply.
Answer ==
    /\ (pc = "idle" /\ data.live) \/ pc \in {"accept", "transfer", "finish"} => ~ Refusing
    /\ pc = "replied" /\ OnTransfer =>
           IF matched THEN ctl.resp = "1" ELSE Refusing \/ link = "down" \/ Unsent

\* Lines and the server's command belong to the command sent last, and the lines
\* fit the response buffer.
Tagged ==
    /\ \A i \in 1 .. Len(wire) : wire[i].to = await /\ wire[i].kind \in {"last", "more"}
    /\ srv.st # "idle" => srv.verb = await
    /\ link = "down" => srv.st = "idle"

\* A passive data connection is there before the transfer command is sent.
Reached ==
    /\ srv.st = "serve" => flow.conn # "none"
    /\ Commanding /\ OnTransfer /\ ctl.cmode = "passive" => flow.conn # "none"

\* All of it, on a connection on which every line fitted.
Orderly == flow \in FlowType /\ Tagged /\ Reached /\ Answer /\ Due

\* An empty sequence of lines.
LEMMA WireEmpty ==
    ASSUME wire \in Seq(Lines)
    PROVE  wire = <<>> <=> Len(wire) = 0
BY EmptySeq

\* Nothing is outstanding at the start.
LEMMA RepliesInit == Init => Orderly
<1> SUFFICES ASSUME Init PROVE Orderly
  OBVIOUS
<1>1. pc = "idle" /\ ~ data.live /\ wire = <<>> /\ srv.st = "idle"
  BY DEF Init, NoData, Idle
<1>2. Tagged
  BY <1>1, EmptyLen DEF Tagged
<1>3. Due
  BY <1>1 DEF Due, Quiet
<1>4. Answer /\ Reached
  BY <1>1 DEF Answer, Reached, Commanding, Reading
<1> QED
  BY <1>2, <1>3, <1>4, FlowInit DEF Orderly

\* Where the server has work to do.
LEMMA ServerWorks ==
    ASSUME Shape, Orderly, srv.st # "idle"
    PROVE  /\ srv.st = "asked" => /\ pc = "read" /\ back = "replied" /\ wire = <<>>
                                  /\ srv.verb \in TransferVerbs <=> OnTransfer
           /\ ~ Quiet
<1>1. /\ ~ Quiet
      /\ ClosingDue => srv.st # "asked"
      /\ TransferDue => srv.st # "asked" \/ (wire = <<>> /\ srv.verb \in TransferVerbs)
      /\ PlainDue => srv.st = "asked" /\ wire = <<>> /\ srv.verb \notin TransferVerbs
      /\ ~ RefusalDue
  BY DEF Quiet, ClosingDue, TransferDue, PlainDue, RefusalDue
<1>2. /\ pc \in {"idle", "send", "openPort", "closed", "replied", "accept", "transfer",
                "finish", "close", "read"}
      /\ back \in {"replied", "close", "closed"}
  BY DEF Shape, Types, Place, Commanding, Closing, Reading, Orderly, Due
<1> QED
  BY <1>1, <1>2 DEF Orderly, Due

\* The server and the network bring replies forward, and none of another kind.
LEMMA ServerDue ==
    ASSUME Types, flow \in FlowType, Tagged, srv.st = "serve" => flow.conn # "none",
           srv.st = "asked" => wire = <<>>,
           srv.st = "asked" /\ srv.verb \in TransferVerbs /\ ctl.cmode = "passive"
              => flow.conn # "none",
           Server \/ LinkBreaks, ~ srv.long, ~ srv'.long
    PROVE  /\ Quiet => Quiet'
           /\ PlainDue => PlainDue'
           /\ TransferDue => TransferDue'
           /\ ClosingDue => ClosingDue'
           /\ RefusalDue => RefusalDue'
           /\ Tagged'
           /\ srv'.st = "serve" => flow'.conn # "none"
<1> DEFINE Goal ==
                  /\ Quiet => Quiet'
                  /\ PlainDue => PlainDue'
                  /\ TransferDue => TransferDue'
                  /\ ClosingDue => ClosingDue'
                  /\ RefusalDue => RefusalDue'
                  /\ Tagged'
                  /\ srv'.st = "serve" => flow'.conn # "none"
<1>1. /\ wire = <<>> <=> Len(wire) = 0
      /\ Len(wire) \in Nat /\ wire \in Seq(Lines)
  BY WireEmpty, LenProperties DEF Types
<1>2. /\ wire' = <<>> <=> Len(wire') = 0
      /\ wire' \in Seq(Lines)
  <2>1. wire' \in Seq(Lines)
    BY TypesOthers DEF Types
  <2> QED
    BY <2>1, EmptySeq
<1>3. /\ await' = await
      /\ \A i \in 1 .. Len(wire) : wire[i].to = await /\ wire[i].kind \in {"last", "more"}
  BY DEF Tagged, Server, ServerReplies, ServerBegins, ServerDials, ServerEnds, ServerMoves,
     ServerFinishes, LinkBreaks, clientVars
<1>4. ASSUME srv.st # "idle", NEW digit \in Digits, NEW layout \in Layouts \cup LongLayouts,
             NEW st \in States, NEW logged \in BOOLEAN, Replies(digit, layout, st, logged)
      PROVE  /\ srv'.st = st /\ (st # "idle" => srv'.verb = await)
             /\ \/ Len(layout) = 1 /\ layout[1] = "last"
                \/ Len(layout) = 2 /\ layout[1] = "more" /\ layout[2] = "last" /\ srv.verb \in Texts
             /\ Len(wire') = Len(wire) + Len(layout)
             /\ \A i \in 1 .. Len(wire) : wire'[i] = wire[i]
             /\ \A i \in 1 .. Len(layout) :
                  wire'[Len(wire) + i] = [to |-> await, digit |-> digit, kind |-> layout[i]]
             /\ \A i \in 1 .. Len(wire') : wire'[i].to = await /\ wire'[i].kind \in {"last", "more"}
  <2>1. srv.verb = await
    BY <1>4 DEF Tagged
  <2>2. srv'.st = st /\ (st # "idle" => srv'.verb = await) /\ layout \notin LongLayouts
    BY <1>4, <2>1, ReplySrv
  <2>3. \/ Len(layout) = 1 /\ layout[1] = "last"
        \/ Len(layout) = 2 /\ layout[1] = "more" /\ layout[2] = "last" /\ srv.verb \in Texts
    BY <2>2, LayoutsAre
  <2>4. /\ Len(wire') = Len(wire) + Len(layout)
        /\ \A i \in 1 .. Len(wire) : wire'[i] = wire[i]
        /\ \A i \in 1 .. Len(layout) :
             wire'[Len(wire) + i] = [to |-> await, digit |-> digit, kind |-> layout[i]]
    BY <1>4, <2>1, ReplyLines DEF Line
  <2>5. ASSUME NEW i \in 1 .. Len(wire')
        PROVE  wire'[i].to = await /\ wire'[i].kind \in {"last", "more"}
    <3>1. CASE i \in 1 .. Len(wire)
      BY <1>3, <2>4, <3>1
    <3>2. CASE i \notin 1 .. Len(wire)
      <4>1. PICK j \in 1 .. Len(layout) : i = Len(wire) + j
        <5>1. /\ i \in Nat /\ i > Len(wire) /\ i <= Len(wire) + Len(layout) /\ Len(layout) \in {1, 2}
          BY <1>1, <2>3, <2>4, <3>2
        <5>2. i - Len(wire) \in 1 .. Len(layout) /\ i = Len(wire) + (i - Len(wire))
          BY <1>1, <5>1
        <5> QED
          BY <5>2
      <4>2. layout[j] \in {"last", "more"}
        <5>1. CASE Len(layout) = 1
          <6>1. j = 1
            BY <4>1, <5>1
          <6> QED
            BY <2>3, <5>1, <6>1
        <5>2. CASE Len(layout) = 2
          <6>1. j = 1 \/ j = 2
            BY <4>1, <5>2
          <6> QED
            BY <2>3, <5>2, <6>1
        <5> QED
          BY <2>3, <5>1, <5>2
      <4>3. wire'[Len(wire) + j] = [to |-> await, digit |-> digit, kind |-> layout[j]]
        BY <2>4, <4>1
      <4>4. wire'[i].to = await /\ wire'[i].kind = layout[j]
        BY <4>1, <4>3
      <4> QED
        BY <4>2, <4>4
    <3> QED
      BY <3>1, <3>2
  <2> QED
    BY <2>2, <2>3, <2>4, <2>5
<1>5. CASE ServerReplies
  <2>1. PICK digit \in Answers(srv.verb), layout \in Layouts \cup LongLayouts :
          Replies(digit, layout, "idle",
                  srv.logged \/ (srv.verb \in {"USER", "PASS"} /\ digit = "2"))
    BY <1>5 DEF ServerReplies
  <2>2. /\ digit \in Digits /\ wire = <<>> /\ srv.st = "asked" /\ srv.verb \notin TransferVerbs
        /\ UNCHANGED link /\ Len(wire) = 0 /\ "idle" \in States
    BY <1>1, <1>5, AnswersAreDigits DEF ServerReplies, Types, SrvType, States
  <2>21. PICK logged \in BOOLEAN : Replies(digit, layout, "idle", logged)
    BY <2>1
  <2>3. /\ srv'.st = "idle"
        /\ \/ Len(layout) = 1 /\ layout[1] = "last"
           \/ Len(layout) = 2 /\ layout[1] = "more" /\ layout[2] = "last"
        /\ Len(wire') = 0 + Len(layout)
        /\ \A i \in 1 .. Len(layout) :
             wire'[0 + i] = [to |-> await, digit |-> digit, kind |-> layout[i]]
        /\ \A i \in 1 .. Len(wire') : wire'[i].to = await /\ wire'[i].kind \in {"last", "more"}
    <3>1. /\ srv'.st = "idle"
          /\ \/ Len(layout) = 1 /\ layout[1] = "last"
             \/ Len(layout) = 2 /\ layout[1] = "more" /\ layout[2] = "last"
          /\ Len(wire') = Len(wire) + Len(layout)
          /\ \A i \in 1 .. Len(layout) :
               wire'[Len(wire) + i] = [to |-> await, digit |-> digit, kind |-> layout[i]]
          /\ \A i \in 1 .. Len(wire') : wire'[i].to = await /\ wire'[i].kind \in {"last", "more"}
      <4>1. srv.st # "idle" /\ digit \in Digits /\ layout \in Layouts \cup LongLayouts
            /\ "idle" \in States /\ logged \in BOOLEAN
            /\ Replies(digit, layout, "idle", logged)
        BY <2>2, <2>21
      <4> HIDE DEF Goal
      <4> QED
        BY <1>4, <4>1
    <3> QED
      BY <2>2, <3>1
  <2>4. \/ Len(wire') = 1 /\ wire'[1].kind = "last"
        \/ Len(wire') = 2 /\ wire'[1].kind = "more" /\ wire'[2].kind = "last"
    <3>1. CASE Len(layout) = 1 /\ layout[1] = "last"
      <4>1. Len(wire') = 1 /\ wire'[0 + 1].kind = "last" /\ 0 + 1 = 1
        BY <2>3, <3>1
      <4> QED
        BY <4>1
    <3>2. CASE Len(layout) = 2 /\ layout[1] = "more" /\ layout[2] = "last"
      <4>1. Len(wire') = 2 /\ wire'[0 + 1].kind = "more" /\ wire'[0 + 2].kind = "last"
        BY <2>3, <3>2
      <4>2. 0 + 1 = 1 /\ 0 + 2 = 2
        OBVIOUS
      <4> QED
        BY <4>1, <4>2
    <3> QED
      BY <2>3, <3>1, <3>2
  <2>5. PlainDue'
    BY <2>3, <2>4 DEF PlainDue
  <2>6. Tagged'
    BY <1>3, <2>3 DEF Tagged
  <2> QED
    BY <2>2, <2>3, <2>5, <2>6 DEF Quiet, TransferDue, ClosingDue, RefusalDue
<1>51. CASE ServerBegins
  <2>1. PICK layout \in Layouts \cup LongLayouts :
          \/ Replies("4", layout, "idle", srv.logged)
          \/ Replies("1", layout, IF ctl.cmode = "passive" THEN "serve" ELSE "dial", srv.logged)
    BY <1>51 DEF ServerBegins
  <2>2. PICK digit \in {"1", "4"}, st \in {"idle", "serve", "dial"} :
          /\ Replies(digit, layout, st, srv.logged)
          /\ digit = "4" => st = "idle"
          /\ digit = "1" => st = IF ctl.cmode = "passive" THEN "serve" ELSE "dial"
    <3>1. CASE Replies("4", layout, "idle", srv.logged)
      BY <3>1
    <3>2. CASE Replies("1", layout, IF ctl.cmode = "passive" THEN "serve" ELSE "dial", srv.logged)
      BY <3>2
    <3> QED
      BY <2>1, <3>1, <3>2
  <2>3. /\ srv.st = "asked" /\ wire = <<>> /\ srv.verb \in TransferVerbs /\ UNCHANGED <<link, flow>>
        /\ Len(wire) = 0 /\ digit \in Digits /\ st \in States /\ srv.logged \in BOOLEAN
        /\ srv.verb \notin Texts
    BY <1>1, <1>51, TransferVerbsAre DEF ServerBegins, Types, SrvType, States, Digits, Texts
  <2>4. /\ srv'.st = st /\ (st # "idle" => srv'.verb = await)
        /\ Len(layout) = 1 /\ layout[1] = "last" /\ Len(wire') = 0 + Len(layout)
        /\ \A i \in 1 .. Len(layout) :
             wire'[0 + i] = [to |-> await, digit |-> digit, kind |-> layout[i]]
        /\ \A i \in 1 .. Len(wire') : wire'[i].to = await /\ wire'[i].kind \in {"last", "more"}
    BY <1>4, <2>2, <2>3
  <2>5. Len(wire') = 1 /\ wire'[1].kind = "last" /\ wire'[1].digit = digit
    <3>1. Len(wire') = 1 /\ wire'[0 + 1] = [to |-> await, digit |-> digit, kind |-> "last"]
      BY <2>4
    <3>2. 0 + 1 = 1
      OBVIOUS
    <3> QED
      BY <3>1, <3>2
  <2>6. TransferDue'
    BY <2>2, <2>4, <2>5 DEF TransferDue
  <2>7. Tagged'
    BY <1>3, <2>3, <2>4 DEF Tagged
  <2>8. srv'.st = "serve" => flow'.conn # "none"
    BY <2>2, <2>3, <2>4
  <2> QED
    BY <2>3, <2>6, <2>7, <2>8 DEF Quiet, PlainDue, ClosingDue, RefusalDue
<1>6. ASSUME NEW digit \in {"2", "4"}, ServerEnds(digit), srv.st \in {"dial", "serve"},
             flow.conn = "none" => digit = "4"
      PROVE  Goal
  <2>1. PICK layout \in Layouts \cup LongLayouts : Replies(digit, layout, "idle", srv.logged)
    BY <1>6 DEF ServerEnds
  <2>2. /\ srv.st # "idle" /\ digit \in Digits /\ "idle" \in States /\ srv.logged \in BOOLEAN
        /\ srv.verb \notin Texts
    BY <1>6, TransferVerbsAre DEF Types, SrvType, States, Digits, Texts
  <2>3. /\ srv'.st = "idle" /\ Len(layout) = 1 /\ layout[1] = "last"
        /\ Len(wire') = Len(wire) + Len(layout)
        /\ \A i \in 1 .. Len(wire) : wire'[i] = wire[i]
        /\ \A i \in 1 .. Len(layout) :
             wire'[Len(wire) + i] = [to |-> await, digit |-> digit, kind |-> layout[i]]
        /\ \A i \in 1 .. Len(wire') : wire'[i].to = await /\ wire'[i].kind \in {"last", "more"}
    BY <1>4, <2>1, <2>2
  <2>4. UNCHANGED link /\ flow'.conn = flow.conn
    BY <1>6 DEF ServerEnds, Types, FlowType
  <2>5. /\ Len(wire') = Len(wire) + 1
        /\ wire'[Len(wire) + 1].kind = "last" /\ wire'[Len(wire) + 1].digit = digit
    BY <2>3
  <2>6. ASSUME ClosingDue PROVE ClosingDue'
    <3>1. Len(wire) = 0
      BY <1>1, <1>6, <2>6 DEF ClosingDue, Quiet
    <3>2. Len(wire) + 1 = 1
      BY <3>1
    <3>3. Len(wire') = 1 /\ wire'[1].kind = "last" /\ wire'[1].digit = digit
      BY <2>5, <3>2
    <3>4. Ends(wire[1])'
      BY <1>6, <2>4, <3>3 DEF Ends
    <3> QED
      BY <2>3, <3>3, <3>4 DEF ClosingDue
  <2>7. ASSUME TransferDue PROVE TransferDue'
    <3>1. Len(wire) = 1 /\ wire[1].kind = "last" /\ wire[1].digit = "1"
      BY <1>1, <1>6, <2>7 DEF TransferDue, Quiet
    <3>2. Len(wire) + 1 = 2 /\ 1 \in 1 .. Len(wire)
      BY <3>1
    <3>3. /\ Len(wire') = 2 /\ wire'[1] = wire[1]
          /\ wire'[2].kind = "last" /\ wire'[2].digit = digit
      BY <2>3, <2>5, <3>2
    <3>4. Ends(wire[2])'
      BY <1>6, <2>4, <3>3 DEF Ends
    <3> QED
      BY <2>3, <3>1, <3>3, <3>4 DEF TransferDue
  <2>8. Tagged'
    BY <1>3, <2>3 DEF Tagged
  <2> QED
    BY <1>6, <2>3, <2>6, <2>7, <2>8 DEF Quiet, PlainDue, RefusalDue
<1>7. CASE ServerDials
  <2>1. CASE /\ flow' = [flow EXCEPT !.conn = "pending"] /\ srv' = [srv EXCEPT !.st = "serve"]
             /\ UNCHANGED <<link, wire>>
    <3>1. srv'.st = "serve" /\ srv'.verb = srv.verb /\ flow'.conn = "pending" /\ srv.st = "dial"
      BY <1>7, <2>1 DEF ServerDials, Types, FlowType
    <3>2. Tagged'
      BY <1>3, <2>1, <3>1 DEF Tagged
    <3> QED
      BY <2>1, <3>1, <3>2 DEF Quiet, PlainDue, TransferDue, ClosingDue, RefusalDue
  <2>2. CASE srv.st = "dial" /\ ServerEnds("4")
    BY <1>6, <2>2
  <2> QED
    BY <1>7, <2>1, <2>2 DEF ServerDials, clientVars
<1>8. CASE ServerMoves
  <2>1. flow'.conn = flow.conn /\ UNCHANGED <<link, wire, srv>>
    BY <1>8 DEF ServerMoves, FlowType
  <2> QED
    BY <1>3, <2>1 DEF Quiet, PlainDue, TransferDue, ClosingDue, RefusalDue, Ends, Tagged
<1>9. CASE ServerFinishes
  <2>1. srv.st = "serve" /\ (ServerEnds("2") \/ ServerEnds("4"))
    BY <1>9 DEF ServerFinishes
  <2> QED
    BY <1>6, <2>1
<1>10. CASE LinkBreaks
  <2>1. PICK kept \in 0 .. Len(wire) : wire' = SubSeq(wire, 1, kept)
    BY <1>10 DEF LinkBreaks
  <2>2. Len(wire') = kept /\ \A i \in 1 .. kept : wire'[i] = wire[i]
    BY <1>1, <2>1, SubSeqProperties
  <2>3. srv'.st = "idle" /\ link' = "down" /\ flow'.conn = flow.conn
    BY <1>10 DEF LinkBreaks, Types, FlowType
  <2>4. Tagged'
    BY <1>1, <1>3, <2>1, <2>2, <2>3 DEF Tagged
  <2>5. kept \in Nat /\ kept <= Len(wire) /\ (kept = 0 <=> wire' = <<>>)
    BY <1>1, <1>2, <2>1, <2>2
  <2>6. PlainDue => PlainDue'
    BY <1>1, <2>2, <2>3, <2>5 DEF PlainDue, Quiet
  <2>7. TransferDue => TransferDue'
    BY <1>1, <2>2, <2>3, <2>5 DEF TransferDue, Quiet, Ends
  <2>8. ClosingDue => ClosingDue'
    BY <1>1, <2>2, <2>3, <2>5 DEF ClosingDue, Quiet, Ends
  <2>9. (RefusalDue => RefusalDue') /\ (Quiet => Quiet')
    BY <1>1, <2>2, <2>3, <2>5 DEF RefusalDue, Quiet
  <2> QED
    BY <2>3, <2>4, <2>6, <2>7, <2>8, <2>9
<1> QED
  BY <1>5, <1>51, <1>7, <1>8, <1>9, <1>10 DEF Server

\* Steps of the server and of the network.
LEMMA RepliesOthers ==
    ASSUME Shape, Orderly, Server \/ LinkBreaks, ~ srv.long, ~ srv'.long
    PROVE  Orderly'
<1>1. UNCHANGED clientVars
  BY DEF Server, ServerReplies, ServerBegins, ServerDials, ServerEnds, ServerMoves,
     ServerFinishes, LinkBreaks
<1>2. /\ UNCHANGED <<pc, op, todo, back, matched, ctl, data>>
      /\ Refusing' = Refusing /\ OnTransfer' = OnTransfer /\ Unsent' = Unsent
      /\ Commanding' = Commanding
  BY <1>1 DEF clientVars, Refusing, OnTransfer, InAccess, Unsent, Commanding, Reading
<1>3. srv.st = "asked" /\ srv.verb \in TransferVerbs /\ ctl.cmode = "passive"
        => flow.conn # "none"
  BY ServerWorks DEF Orderly, Reached, Commanding, Reading
<1>4. /\ Quiet => Quiet'
      /\ PlainDue => PlainDue'
      /\ TransferDue => TransferDue'
      /\ ClosingDue => ClosingDue'
      /\ RefusalDue => RefusalDue'
      /\ Tagged'
      /\ srv'.st = "serve" => flow'.conn # "none"
  <2>1. srv.st = "asked" => wire = <<>>
    BY ServerWorks
  <2>2. Types /\ flow \in FlowType /\ Tagged /\ (srv.st = "serve" => flow.conn # "none")
    BY DEF Shape, Orderly, Reached
  <2> QED
    BY <1>3, <2>1, <2>2, ServerDue
<1>5. flow' \in FlowType
  BY FlowStep DEF Orderly, Next
<1>6. flow'.conn \in {flow.conn, "pending"} /\ (link = "down" => link' = "down")
  BY DEF Server, ServerReplies, ServerBegins, ServerDials, ServerEnds, ServerMoves,
     ServerFinishes, LinkBreaks, Orderly, FlowType
<1>7. Reached'
  BY <1>2, <1>4, <1>6 DEF Reached, Orderly
<1>8. Answer'
  BY <1>2, <1>6 DEF Answer, Orderly
<1>9. Due'
  <2>1. Due
    BY DEF Orderly
  <2> QED
    BY <1>2, <1>4, <2>1 DEF Due
<1> QED
  BY <1>4, <1>5, <1>7, <1>8, <1>9 DEF Orderly

\* Steps that leave the connections alone.
LEMMA DueSame ==
    ASSUME UNCHANGED <<link, wire, srv>>, flow'.conn = flow.conn
    PROVE  /\ Quiet' = Quiet /\ PlainDue' = PlainDue /\ TransferDue' = TransferDue
           /\ ClosingDue' = ClosingDue /\ RefusalDue' = RefusalDue
<1>1. Quiet' = Quiet
  BY DEF Quiet
<1>2. PlainDue' = PlainDue
  BY <1>1 DEF PlainDue
<1>3. TransferDue' = TransferDue
  BY <1>1 DEF TransferDue, Ends
<1>4. ClosingDue' = ClosingDue
  BY <1>1 DEF ClosingDue, Ends
<1>5. RefusalDue' = RefusalDue
  BY <1>1 DEF RefusalDue
<1> QED
  BY <1>1, <1>2, <1>3, <1>4, <1>5

\* An access that succeeded is due the reply that ends it.
LEMMA SuccessReplies ==
    ASSUME Shape, Orderly, AccessSucceeds, UNCHANGED <<ctl, data, link, wire, srv>>,
           flow' \in FlowType, flow'.conn # "none" \/ flow'.conn = flow.conn,
           ClosingDue, ~ Refusing, data.live
    PROVE  Orderly'
<1>1. ClosingDue' /\ ~ Refusing' /\ await' = await
  BY DEF ClosingDue, Quiet, Ends, Refusing, AccessSucceeds, Return
<1>2. Tagged'
  BY <1>1 DEF Orderly, Tagged
<1>3. pc' = "idle" \/ pc' \in {"transfer", "finish"}
  BY DEF AccessSucceeds, Return
<1>4. Reached' /\ Answer' /\ Due'
  BY <1>1, <1>3 DEF Orderly, Reached, Answer, Due, Commanding, Reading
<1> QED
  BY <1>2, <1>4 DEF Orderly

\* A call that returns with nothing outstanding.
LEMMA ReturnReplies ==
    ASSUME NEW ok, Return(ok), Quiet', ~ data'.live, flow' \in FlowType
    PROVE  Orderly'
<1>1. pc' = "idle" /\ wire' = <<>> /\ srv'.st = "idle"
  BY DEF Return, Quiet
<1>2. Tagged'
  BY <1>1, EmptyLen DEF Tagged
<1>3. Reached' /\ Answer' /\ Due'
  BY <1>1 DEF Reached, Answer, Due, Commanding, Reading
<1> QED
  BY <1>2, <1>3 DEF Orderly

\* The command sent next is a transfer if it is the last one of an access.
LEMMA VerbKind ==
    ASSUME Shape, Commanding
    PROVE  /\ OnTransfer <=> Head(todo).verb \in TransferVerbs
           /\ OnTransfer => Head(todo).expect = "1"
           /\ todo # <<>> /\ Head(todo).verb \in Verbs
<1>1. OnScript \/ OnAccess
  BY DEF Shape, Place, Commanding, Closing, Reading
<1>2. CASE OnScript
  <2>1. Head(todo).verb \in PlainVerbs /\ todo # <<>>
    BY <1>2, ScriptParts DEF OnScript
  <2>2. ~ InAccess
    BY <1>2, NamesApart DEF OnScript, InAccess
  <2>3. Head(todo).verb \notin TransferVerbs
    BY <2>1, TransferVerbsAre DEF PlainVerbs
  <2> QED
    BY <2>1, <2>2, <2>3 DEF OnTransfer, Verbs
<1>3. CASE OnAccess
  BY <1>3, AccessHead DEF OnAccess, OnTransfer, Commands
<1> QED
  BY <1>1, <1>2, <1>3

\* A command is sent when nothing is outstanding.
LEMMA RepliesSend ==
    ASSUME Shape, Orderly, SendCommand
    PROVE  Orderly'
<1>1. /\ pc = "send" /\ UNCHANGED <<op, todo, ctl, data, link, wire, flow>>
      /\ flow' \in FlowType
  BY DEF SendCommand, Orderly
<1>2. Quiet /\ Commanding /\ (link = "down" => srv.st = "idle")
  BY <1>1 DEF Orderly, Due, Commanding, Reading, Tagged
<1>3. /\ OnTransfer' = OnTransfer /\ Unsent' = Unsent /\ Refusing' = Refusing
      /\ todo # <<>> /\ Commanding'
  BY <1>1, <1>2, VerbKind DEF OnTransfer, InAccess, Unsent, Refusing, SendCommand, Commanding, Reading
<1>4. Len(wire') = 0 /\ wire' = <<>>
  BY <1>1, <1>2, EmptyLen DEF Quiet
<1>5. CASE /\ Head(todo).len + 3 > TempBuffer \/ link = "down"
           /\ matched' = FALSE /\ pc' = "replied" /\ UNCHANGED <<await, back, srv>>
  <2>1. Tagged'
    BY <1>1, <1>4, <1>5 DEF Orderly, Tagged
  <2>2. Reached'
    BY <1>1, <1>2, <1>3, <1>5 DEF Orderly, Reached
  <2>3. Unsent \/ link = "down"
    BY <1>3, <1>5 DEF Unsent
  <2>4. Answer'
    BY <1>1, <1>3, <1>5, <2>3 DEF Answer
  <2>5. Due'
    BY <1>2, <1>4, <1>5 DEF Due, Quiet
  <2> QED
    BY <1>1, <2>1, <2>2, <2>4, <2>5 DEF Orderly
<1>6. CASE /\ await' = Head(todo).verb /\ back' = "replied" /\ pc' = "read"
           /\ srv' = IF link = "up" THEN [srv EXCEPT !.st = "asked", !.verb = Head(todo).verb]
                                    ELSE srv
           /\ UNCHANGED matched
  <2>1. CASE link = "up"
    <3>1. srv'.st = "asked" /\ srv'.verb = Head(todo).verb
      BY <1>6, <2>1 DEF Shape, Types
    <3>2. Tagged'
      BY <1>1, <1>4, <1>6, <2>1, <3>1 DEF Tagged
    <3>3. IF OnTransfer' THEN TransferDue' ELSE PlainDue'
      BY <1>2, <1>3, <1>4, <3>1, VerbKind DEF TransferDue, PlainDue
    <3>4. Due' /\ Answer'
      BY <1>6, <3>3 DEF Due, Answer
    <3>5. Reached'
      BY <1>1, <1>2, <1>3, <3>1 DEF Orderly, Reached
    <3> QED
      BY <1>1, <3>2, <3>4, <3>5 DEF Orderly
  <2>2. CASE link = "down"
    <3>1. Quiet' /\ link' = "down" /\ srv' = srv
      BY <1>1, <1>2, <1>6, <2>2 DEF Quiet
    <3>2. Tagged'
      BY <1>4, <3>1 DEF Tagged, Quiet
    <3>3. TransferDue' /\ PlainDue'
      BY <3>1 DEF TransferDue, PlainDue
    <3>4. Due' /\ Answer'
      BY <1>6, <3>3 DEF Due, Answer
    <3>5. Reached'
      BY <1>1, <1>2, <1>3, <3>1 DEF Orderly, Reached
    <3> QED
      BY <1>1, <3>2, <3>4, <3>5 DEF Orderly
  <2> QED
    BY <2>1, <2>2 DEF Shape, Types
<1> QED
  BY <1>5, <1>6 DEF SendCommand

\* A line is read, or the connection found broken.
LEMMA RepliesRead ==
    ASSUME Shape, Orderly, ReadResponse
    PROVE  Orderly'
<1>1. /\ pc = "read" /\ UNCHANGED <<op, todo, await, back, data, link, srv, flow>>
      /\ flow' \in FlowType /\ wire \in Seq(Lines) /\ Len(wire) \in Nat
      /\ wire = <<>> <=> Len(wire) = 0
  BY WireEmpty, LenProperties DEF ReadResponse, Orderly, Due, Shape, Types
<1>2. OnTransfer' = OnTransfer /\ Unsent' = Unsent
  BY <1>1 DEF OnTransfer, InAccess, Unsent
<1>3. CASE wire = <<>> /\ link = "down" /\ matched' = FALSE /\ pc' = back
           /\ UNCHANGED <<ctl, wire>>
  <2>1. Quiet /\ Quiet' /\ link' = "down"
    BY <1>1, <1>3 DEF Quiet, Orderly, Tagged
  <2>2. ClosingDue' /\ Tagged'
    BY <1>1, <1>3, <2>1, EmptyLen DEF ClosingDue, Tagged, Quiet
  <2>3. Answer'
    BY <1>1, <1>3, <2>1 DEF Answer, Shape, Types
  <2>4. Due'
    BY <1>1, <1>3, <2>1, <2>2 DEF Due, Shape, Types
  <2>5. Reached'
    BY <1>1, <1>2, <1>3 DEF Orderly, Reached, Commanding, Reading, Shape, Types
  <2> QED
    BY <1>1, <2>2, <2>3, <2>4, <2>5 DEF Orderly
<1>4. CASE wire # <<>> /\ ctl' = [ctl EXCEPT !.resp = Head(wire).digit] /\ wire' = Tail(wire)
  <2>1. /\ Head(wire) = wire[1] /\ Len(wire) > 0 /\ Len(wire') = Len(wire) - 1
        /\ wire' \in Seq(Lines)
        /\ \A i \in 1 .. Len(wire) - 1 : wire'[i] = wire[i + 1]
    BY <1>1, <1>4, WireParts
  <2>2. wire' = <<>> <=> Len(wire') = 0
    BY <2>1, EmptySeq
  <2>3. ctl'.resp = wire[1].digit /\ ctl'.cmode = ctl.cmode
    BY <1>4, <2>1 DEF Shape, Types
  <2>4. Tagged'
    <3>1. ASSUME NEW i \in 1 .. Len(wire')
          PROVE  wire'[i].to = await' /\ wire'[i].kind \in {"last", "more"}
      <4>1. i + 1 \in 1 .. Len(wire) /\ i \in 1 .. Len(wire) - 1
        BY <1>1, <2>1
      <4>2. wire[i + 1].to = await /\ wire[i + 1].kind \in {"last", "more"}
        BY <4>1 DEF Orderly, Tagged
      <4> QED
        BY <1>1, <2>1, <4>1, <4>2
    <3> QED
      BY <1>1, <3>1 DEF Orderly, Tagged
  <2>5. /\ pc' = IF wire[1].kind = "more" THEN "read" ELSE back
        /\ wire[1].kind \in {"last", "more"}
        /\ wire[1].kind = "last" => matched' = (wire[1].digit = Expected)
    <3>1. wire[1].kind \in {"last", "more"}
      <4>1. 1 \in 1 .. Len(wire)
        BY <1>1, <2>1
      <4> QED
        BY <4>1 DEF Orderly, Tagged
    <3> QED
      BY <1>1, <1>4, <2>1, <3>1 DEF ReadResponse
  <2>6. Reached'
    BY <1>1, <1>2, <2>3, <2>5 DEF Orderly, Reached, Commanding, Reading, Shape, Types
  <2>7. CASE back = "replied" /\ OnTransfer
    <3>1. TransferDue
      BY <1>1, <2>7 DEF Orderly, Due
    <3>2. wire[1].kind = "last" /\ (wire[1].digit = "4" \/ wire[1].digit = "1")
      BY <1>1, <2>1, <3>1 DEF TransferDue, Quiet
    <3>3. pc' = "replied" /\ matched' = (wire[1].digit = "1")
      <4>1. Expected = "1"
        BY <1>1, <2>7, VerbKind DEF Expected, Commanding, Reading
      <4> QED
        BY <2>5, <2>7, <3>2, <4>1
    <3>4. wire[1].digit = "4" => Quiet'
      BY <1>1, <2>1, <2>2, <3>1 DEF TransferDue, Quiet
    <3>5. ASSUME wire[1].digit = "1" PROVE ClosingDue'
      <4>1. CASE Len(wire) = 1
        <5>1. wire' = <<>>
          BY <2>1, <2>2, <4>1
        <5>2. srv.st \in {"dial", "serve"} \/ (link = "down" /\ srv.st = "idle")
          BY <1>1, <2>1, <3>1, <3>5, <4>1 DEF TransferDue, Quiet
        <5> QED
          BY <1>1, <5>1, <5>2 DEF ClosingDue, Quiet
      <4>2. CASE Len(wire) # 1
        <5>1. srv.st = "idle" /\ Len(wire) = 2 /\ Ends(wire[2])
          BY <1>1, <2>1, <3>1, <4>2 DEF TransferDue, Quiet
        <5>2. Len(wire') = 1 /\ wire'[1] = wire[2]
          BY <2>1, <5>1
        <5> QED
          BY <1>1, <5>1, <5>2 DEF ClosingDue, Ends
      <4> QED
        BY <4>1, <4>2
    <3>6. Answer'
      BY <1>2, <2>3, <3>2, <3>3 DEF Answer, Refusing
    <3>7. Due'
      BY <1>2, <2>7, <3>2, <3>3, <3>4, <3>5 DEF Due
    <3> QED
      BY <1>1, <2>4, <2>6, <3>6, <3>7 DEF Orderly
  <2>8. CASE back = "replied" /\ ~ OnTransfer
    <3>1. PlainDue
      BY <1>1, <2>8 DEF Orderly, Due
    <3>2. CASE wire[1].kind = "more"
      <4>1. PlainDue'
        <5>1. CASE Len(wire) = 1
          <6>1. wire' = <<>> /\ srv.st = "idle" /\ link = "down"
            BY <1>1, <2>1, <2>2, <3>1, <3>2, <5>1 DEF PlainDue, Quiet
          <6> QED
            BY <1>1, <6>1 DEF PlainDue, Quiet
        <5>2. CASE Len(wire) # 1
          <6>1. srv.st = "idle" /\ Len(wire) = 2 /\ wire[2].kind = "last"
            BY <1>1, <2>1, <3>1, <5>2 DEF PlainDue, Quiet
          <6>2. Len(wire') = 1 /\ wire'[1] = wire[2]
            BY <2>1, <6>1
          <6> QED
            BY <1>1, <6>1, <6>2 DEF PlainDue
        <5> QED
          BY <5>1, <5>2
      <4>2. Answer' /\ Due'
        BY <1>1, <1>2, <2>5, <2>8, <3>2, <4>1 DEF Answer, Due
      <4> QED
        BY <1>1, <2>4, <2>6, <4>2 DEF Orderly
    <3>3. CASE wire[1].kind = "last"
      <4>1. Quiet'
        BY <1>1, <2>1, <2>2, <3>1, <3>3 DEF PlainDue, Quiet
      <4>2. Answer' /\ Due'
        BY <1>2, <2>5, <2>8, <3>3, <4>1 DEF Answer, Due
      <4> QED
        BY <1>1, <2>4, <2>6, <4>2 DEF Orderly
    <3> QED
      BY <2>5, <3>2, <3>3
  <2>9. CASE back = "close"
    <3>1. RefusalDue
      BY <1>1, <2>9 DEF Orderly, Due
    <3>2. wire[1].kind = "last" /\ wire[1].digit = "4" /\ Quiet'
      BY <1>1, <2>1, <2>2, <3>1 DEF RefusalDue, Quiet
    <3>3. pc' = "close" /\ Refusing'
      BY <2>3, <2>5, <2>9, <3>2 DEF Refusing
    <3>4. Answer' /\ Due'
      BY <3>2, <3>3 DEF Answer, Due
    <3> QED
      BY <1>1, <2>4, <2>6, <3>4 DEF Orderly
  <2>10. CASE back = "closed"
    <3>1. ClosingDue
      BY <1>1, <1>4, <2>10 DEF Orderly, Due, Quiet
    <3>2. wire[1].kind = "last" /\ Quiet'
      BY <1>1, <2>1, <2>2, <3>1 DEF ClosingDue, Ends, Quiet
    <3>3. pc' = "closed"
      BY <2>5, <2>10, <3>2
    <3>4. Answer' /\ Due'
      BY <3>2, <3>3 DEF Answer, Due
    <3> QED
      BY <1>1, <2>4, <2>6, <3>4 DEF Orderly
  <2> QED
    BY <2>7, <2>8, <2>9, <2>10 DEF Shape, Types
<1>5. CASE wire # <<>>
  <2>1. Head(wire).kind \in {"last", "more"}
    <3>1. Head(wire) = wire[1] /\ 1 \in 1 .. Len(wire)
      BY <1>1, <1>5, WireParts
    <3> QED
      BY <3>1 DEF Orderly, Tagged
  <2> QED
    BY <1>4, <1>5, <2>1 DEF ReadResponse, LongKinds
<1> QED
  BY <1>3, <1>5 DEF ReadResponse

\* The caller's other steps.
LEMMA RepliesClient ==
    ASSUME Shape, Orderly, Client
    PROVE  Orderly'
<1> USE DEF Shape
<1>1. flow' \in FlowType
  BY FlowStep DEF Orderly, Next
<1>2. CASE SendCommand
  BY <1>2, RepliesSend
<1>3. CASE ReadResponse
  BY <1>3, RepliesRead
<1>4. CASE ContinueScript
  <2>1. OnScript /\ ~ data.live
    BY <1>4, NamesApart DEF ContinueScript, Place, OnAccess, OnStream, OnClose,
       Commanding, Closing, Reading, InAccess
  <2>2. ~ OnTransfer
    BY <2>1, NamesApart DEF OnScript, OnTransfer, InAccess
  <2>3. Quiet /\ Quiet' /\ UNCHANGED <<data, link, wire, srv, flow>>
    BY <1>4, <2>2 DEF ContinueScript, Orderly, Due, Quiet
  <2>4. CASE pc' = "send" /\ UNCHANGED <<op, await>>
    <3>1. ~ OnTransfer'
      BY <2>1, <2>4, NamesApart DEF OnScript, OnTransfer, InAccess
    <3>2. Tagged' /\ Reached'
      BY <2>3, <2>4, <3>1 DEF Orderly, Tagged, Reached, Quiet
    <3>3. Answer' /\ Due'
      BY <2>3, <2>4 DEF Answer, Due
    <3> QED
      BY <1>1, <3>2, <3>3 DEF Orderly
  <2>5. ASSUME NEW ok, Return(ok) PROVE Orderly'
    BY <1>1, <2>1, <2>3, <2>5, ReturnReplies
  <2> QED
    BY <1>4, <2>4, <2>5 DEF ContinueScript
<1>5. CASE QuitEnds
  <2>1. ~ data'.live
    BY <1>5, NamesApart, ScriptNames DEF QuitEnds, Place, OnAccess, OnStream, OnClose,
       Commanding, Closing, Reading, InAccess
  <2>2. Quiet' /\ Return(TRUE)
    BY <1>5 DEF QuitEnds, Quiet, Idle
  <2> QED
    BY <1>1, <2>1, <2>2, ReturnReplies
<1>6. CASE ConnectEnds
  <2>1. ~ data'.live /\ ~ OnTransfer
    BY <1>6, NamesApart DEF ConnectEnds, Place, OnAccess, OnStream, OnClose,
       Commanding, Closing, Reading, InAccess, OnTransfer
  <2>2. Quiet
    BY <1>6, <2>1 DEF ConnectEnds, Orderly, Due
  <2>3. Quiet' /\ Return(matched)
    BY <1>6, <2>2 DEF ConnectEnds, Quiet, Idle
  <2> QED
    BY <1>1, <2>1, <2>3, ReturnReplies
<1>7. CASE TypeReplied
  <2>1. OnAccess /\ (data.live <=> Len(todo) = 1)
    BY <1>7, AtAccess DEF TypeReplied
  <2>2. Len(todo) = 3
    BY <1>7, <2>1, AccessHead DEF TypeReplied, OnAccess
  <2>3. Quiet /\ Quiet' /\ ~ data'.live
    BY <1>7, <2>1, <2>2 DEF TypeReplied, Orderly, Due, OnTransfer, Quiet
  <2>4. CASE AccessFails
    BY <1>1, <2>3, <2>4, ReturnReplies DEF AccessFails
  <2>5. CASE pc' = "openPort" /\ Continues
    <3>1. Tagged' /\ Reached'
      BY <1>7, <2>3, <2>5 DEF TypeReplied, Continues, Orderly, Tagged, Reached, Quiet,
         Commanding, Reading
    <3>2. Answer' /\ Due'
      BY <2>3, <2>5 DEF Answer, Due
    <3> QED
      BY <1>1, <3>1, <3>2 DEF Orderly
  <2> QED
    BY <1>7, <2>4, <2>5 DEF TypeReplied
<1>8. CASE openPort
  <2>1. Len(todo) = 2 /\ ~ data.live
    BY <1>8 DEF openPort, Place, Commanding, Closing, Reading
  <2>2. Quiet /\ Quiet' /\ ~ data'.live
    BY <1>8, <2>1 DEF openPort, Orderly, Due, Quiet
  <2>3. CASE AccessFails
    BY <1>1, <2>2, <2>3, ReturnReplies DEF AccessFails
  <2>4. CASE pc' = "send" /\ Continues /\ UNCHANGED todo
    <3>1. Tagged' /\ Reached'
      BY <1>8, <2>1, <2>2, <2>4 DEF openPort, Continues, Orderly, Tagged, Reached, Quiet,
         OnTransfer
    <3>2. Answer' /\ Due'
      BY <2>2, <2>4 DEF Answer, Due
    <3> QED
      BY <1>1, <3>1, <3>2 DEF Orderly
  <2> QED
    BY <1>8, <2>3, <2>4 DEF openPort
<1>9. CASE PortReplied
  <2>1. OnAccess /\ (data.live <=> Len(todo) = 1)
    BY <1>9, AtAccess DEF PortReplied
  <2>2. Len(todo) = 2 /\ (Head(todo).verb = "PASV" <=> ctl.cmode = "passive")
    BY <1>9, <2>1, AccessHead DEF PortReplied, OnAccess
  <2>3. Quiet /\ Quiet' /\ ~ data.live
    BY <1>9, <2>1, <2>2 DEF PortReplied, Orderly, Due, OnTransfer, Quiet
  <2>4. CASE AccessFails /\ UNCHANGED data
    BY <1>1, <2>3, <2>4, ReturnReplies DEF AccessFails
  <2>5. CASE /\ pc' = "send" /\ Continues
             /\ Head(todo).verb = "PASV" => flow' = [flow EXCEPT !.conn = "open"]
    <3>1. ctl'.cmode = "passive" => flow'.conn = "open"
      BY <1>9, <2>2, <2>5 DEF PortReplied, Orderly, FlowType
    <3>2. Tagged' /\ Reached'
      BY <1>9, <2>3, <2>5, <3>1 DEF PortReplied, Continues, Orderly, Tagged, Reached, Quiet
    <3>3. Answer' /\ Due'
      BY <2>3, <2>5 DEF Answer, Due
    <3> QED
      BY <1>1, <3>2, <3>3 DEF Orderly
  <2> QED
    BY <1>9, <2>4, <2>5 DEF PortReplied
<1>10. CASE TransferReplied
  <2>1. OnTransfer /\ data.live
    BY <1>10, AtAccess DEF TransferReplied, OnTransfer
  <2>2. /\ UNCHANGED <<ctl, data, link, wire, srv, flow>> /\ pc = "replied"
        /\ ClosingDue' = ClosingDue /\ Quiet' = Quiet /\ Refusing' = Refusing
    BY <1>10, DueSame DEF TransferReplied, Refusing
  <2>3. CASE matched
    <3>1. ClosingDue /\ ~ Refusing
      BY <2>1, <2>2, <2>3 DEF Orderly, Due, Answer, Refusing
    <3>2. CASE AccessSucceeds
      BY <1>1, <2>1, <2>2, <3>1, <3>2, SuccessReplies
    <3>3. CASE pc' = "accept" /\ Continues
      <4>1. Tagged' /\ Reached'
        BY <2>2, <3>3 DEF Orderly, Continues, Tagged, Reached, Commanding, Reading
      <4>2. Answer' /\ Due'
        BY <2>2, <3>1, <3>3 DEF Answer, Due
      <4> QED
        BY <1>1, <4>1, <4>2 DEF Orderly
    <3> QED
      BY <1>10, <2>3, <3>2, <3>3 DEF TransferReplied
  <2>4. CASE ~ matched
    <3>1. pc' = "close" /\ Continues /\ UNCHANGED todo
      BY <1>10, <2>4 DEF TransferReplied
    <3>2. Quiet /\ (Refusing \/ link = "down" \/ Unsent)
      BY <2>1, <2>2, <2>4 DEF Orderly, Due, Answer
    <3>3. Unsent' = Unsent
      BY <3>1 DEF Unsent
    <3>4. Tagged' /\ Reached'
      BY <2>2, <3>1 DEF Orderly, Continues, Tagged, Reached, Commanding, Reading
    <3>5. Answer' /\ Due'
      <4>1. link = "down" => ClosingDue
        BY <3>2 DEF ClosingDue
      <4> QED
        BY <2>2, <3>1, <3>2, <3>3, <4>1 DEF Answer, Due
    <3> QED
      BY <1>1, <3>4, <3>5 DEF Orderly
  <2> QED
    BY <2>3, <2>4
<1>11. CASE acceptConnection
  <2>1. /\ pc = "accept" /\ ClosingDue /\ ~ Refusing /\ data.live
        /\ UNCHANGED <<data, link, wire, srv>>
    BY <1>11 DEF acceptConnection, Orderly, Due, Answer, Place, Commanding, Closing, Reading
  <2>2. CASE AccessSucceeds /\ UNCHANGED ctl /\ flow' = [flow EXCEPT !.conn = "open"]
    <3>1. flow'.conn # "none"
      BY <2>2 DEF Orderly, FlowType
    <3> QED
      BY <1>1, <2>1, <2>2, <3>1, SuccessReplies
  <2>3. CASE /\ flow' = [flow EXCEPT !.conn = "closed"] /\ UNCHANGED <<op, todo, await>>
             /\ \/ pc' = "close" /\ ctl' = [ctl EXCEPT !.resp = "text"]
                \/ /\ flow.conn = "none" /\ (wire # <<>> \/ link = "down")
                   /\ pc' = "read" /\ back' = "close" /\ UNCHANGED ctl
    <3>1. flow'.conn = "closed"
      BY <2>3 DEF Orderly, FlowType
    <3>2. CASE pc' = "close" /\ ctl' = [ctl EXCEPT !.resp = "text"]
      <4>1. ~ Refusing'
        BY <3>2 DEF Refusing, Types
      <4>2. ClosingDue'
        BY <2>1, <3>1 DEF ClosingDue, Ends, Quiet
      <4>3. Tagged' /\ Reached'
        BY <2>1, <2>3, <3>1, <3>2 DEF Orderly, Tagged, Reached, Commanding, Reading
      <4>4. Answer' /\ Due'
        BY <3>2, <4>1, <4>2 DEF Answer, Due
      <4> QED
        BY <1>1, <4>3, <4>4 DEF Orderly
    <3>3. CASE /\ flow.conn = "none" /\ (wire # <<>> \/ link = "down")
               /\ pc' = "read" /\ back' = "close" /\ UNCHANGED ctl
      <4>1. RefusalDue'
        <5>1. RefusalDue
          BY <2>1, <3>3 DEF RefusalDue, ClosingDue, Ends, Quiet, Orderly, Tagged
        <5> QED
          BY <2>1, <5>1 DEF RefusalDue, Quiet
      <4>2. Tagged' /\ Reached'
        BY <2>1, <2>3, <3>1, <3>3 DEF Orderly, Tagged, Reached, Commanding, Reading
      <4>3. Answer' /\ Due'
        BY <3>3, <4>1 DEF Answer, Due
      <4> QED
        BY <1>1, <4>2, <4>3 DEF Orderly
    <3> QED
      BY <2>3, <3>2, <3>3
  <2> QED
    BY <1>11, <2>2, <2>3 DEF acceptConnection
<1>12. CASE xferLoop
  <2>1. flow'.conn = flow.conn
    BY <1>12, LoopFlow DEF Orderly
  <2>2. /\ UNCHANGED <<op, todo, await, data, link, wire, srv>>
        /\ pc = "transfer" /\ pc' \in {"transfer", "finish"}
        /\ ctl'.resp \in {ctl.resp, "text"}
    BY <1>12, LoopTurns, TextedKeeps
  <2>3. ClosingDue /\ ClosingDue' = ClosingDue /\ ~ Refusing /\ ~ Refusing'
    BY <2>1, <2>2, DueSame DEF Orderly, Due, Answer, Refusing
  <2>4. Tagged' /\ Reached'
    BY <2>1, <2>2 DEF Orderly, Tagged, Reached, Commanding, Reading
  <2>5. Answer' /\ Due'
    BY <2>2, <2>3 DEF Answer, Due
  <2> QED
    BY <1>1, <2>4, <2>5 DEF Orderly
<1>13. CASE xferFinish
  <2>1. /\ UNCHANGED <<op, todo, await, ctl, data, link, wire, srv, flow>>
        /\ pc = "finish" /\ pc' = "close"
    BY <1>13 DEF xferFinish
  <2>2. ClosingDue /\ ClosingDue' = ClosingDue /\ ~ Refusing /\ Refusing' = Refusing
    BY <2>1, DueSame DEF Orderly, Due, Answer, Refusing
  <2>3. Tagged' /\ Reached'
    BY <2>1 DEF Orderly, Tagged, Reached, Commanding, Reading
  <2>4. Answer' /\ Due'
    BY <2>1, <2>2 DEF Answer, Due
  <2> QED
    BY <1>1, <2>3, <2>4 DEF Orderly
<1>14. CASE closeFtpClient
  <2>1. /\ pc = "close" /\ UNCHANGED <<op, todo, await, ctl, link, wire, srv>>
        /\ flow'.conn = "closed"
    BY <1>14 DEF closeFtpClient, Orderly, FlowType
  <2>2. Tagged' /\ Reached'
    BY <1>14, <2>1 DEF closeFtpClient, Orderly, Tagged, Reached, Commanding, Reading
  <2>3. CASE Refusing
    <3>1. pc' = "closed" /\ Quiet'
      BY <1>14, <2>1, <2>3 DEF closeFtpClient, Refusing, Orderly, Due, Quiet
    <3>2. Answer' /\ Due'
      BY <3>1 DEF Answer, Due
    <3> QED
      BY <1>1, <2>2, <3>2 DEF Orderly
  <2>4. CASE ~ Refusing
    <3>1. pc' = "read" /\ back' = "closed"
      BY <1>14, <2>4 DEF closeFtpClient, Refusing
    <3>2. ClosingDue => ClosingDue'
      BY <2>1 DEF ClosingDue, Ends, Quiet
    <3>3. Quiet /\ Unsent => Quiet' /\ Unsent'
      BY <2>1 DEF Quiet, Unsent
    <3>4. ClosingDue' \/ (Quiet' /\ Unsent')
      BY <2>1, <2>4, <3>2, <3>3 DEF Orderly, Due
    <3>5. Answer' /\ Due'
      BY <3>1, <3>4 DEF Answer, Due
    <3> QED
      BY <1>1, <2>2, <3>5 DEF Orderly
  <2> QED
    BY <2>3, <2>4
<1>15. CASE CloseEnds
  <2>1. ~ data'.live /\ Quiet'
    BY <1>15 DEF CloseEnds, Place, Commanding, Closing, Reading, Orderly, Due, Quiet
  <2>2. PICK ok : Return(ok)
    BY <1>15 DEF CloseEnds, AccessFails
  <2> QED
    BY <1>1, <2>1, <2>2, ReturnReplies
<1> QED
  BY <1>2, <1>3, <1>4, <1>5, <1>6, <1>7, <1>8, <1>9, <1>10, <1>11, <1>12, <1>13, <1>14,
     <1>15 DEF Client

\* The application's steps.
LEMMA RepliesStart ==
    ASSUME Shape, Orderly, Application
    PROVE  Orderly'
<1> USE DEF Shape
<1>1. flow' \in FlowType
  BY FlowStep DEF Orderly, Next
<1>2. CASE connectFtpClient
  <2>1. pc = "idle" /\ ~ ctl.live /\ ~ data.live /\ Quiet /\ UNCHANGED <<wire, data, flow>>
    BY <1>2 DEF connectFtpClient, Place, Commanding, Closing, Reading, Orderly, Due
  <2>2. CASE UNCHANGED <<pc, op, todo, await, ctl, socks, link, srv>>
    <3>1. Quiet'
      BY <2>1, <2>2 DEF Quiet
    <3>2. Tagged' /\ Reached' /\ Answer' /\ Due'
      BY <2>1, <2>2, <3>1 DEF Orderly, Tagged, Reached, Answer, Due, Quiet, Commanding, Reading
    <3> QED
      BY <1>1, <3>2 DEF Orderly
  <2>3. CASE /\ op' = [NoOp EXCEPT !.name = "connect"] /\ await' = "greeting"
             /\ pc' = "read" /\ link' = "up"
             /\ srv' = [Idle EXCEPT !.st = "asked", !.verb = "greeting"]
    <3>1. back' = "replied"
      BY <1>2, <2>1 DEF connectFtpClient, Place, Commanding, Closing, Reading
    <3>2. srv'.st = "asked" /\ srv'.verb = "greeting" /\ wire' = <<>> /\ ~ OnTransfer'
      BY <2>1, <2>3, NamesApart DEF Idle, Quiet, NoOp, OnTransfer, InAccess
    <3>3. PlainDue'
      BY <3>2, TransferVerbsAre DEF PlainDue
    <3>4. Tagged' /\ Reached'
      BY <2>3, <3>2, EmptyLen DEF Tagged, Reached
    <3>5. Answer' /\ Due'
      BY <2>3, <3>1, <3>2, <3>3 DEF Answer, Due
    <3> QED
      BY <1>1, <3>4, <3>5 DEF Orderly
  <2> QED
    BY <1>2, <2>2, <2>3 DEF connectFtpClient
<1>3. ASSUME NEW name, NEW n, StartScript(name, n)
      PROVE  Orderly'
  <2>1. /\ pc = "idle" /\ ~ data.live /\ Quiet /\ name \in ScriptOps
        /\ UNCHANGED <<await, back, ctl, data, link, wire, srv, flow>>
    BY <1>3 DEF StartScript, Between, Orderly, Due
  <2>2. Quiet'
    BY <2>1 DEF Quiet
  <2>3. CASE pc' = "send" /\ op' = [NoOp EXCEPT !.name = name]
    <3>1. ~ OnTransfer'
      BY <2>1, <2>3, NamesApart DEF OnTransfer, InAccess, NoOp
    <3>2. Tagged' /\ Reached' /\ Answer' /\ Due'
      BY <2>1, <2>2, <2>3, <3>1 DEF Orderly, Tagged, Reached, Answer, Due, Quiet
    <3> QED
      BY <1>1, <3>2 DEF Orderly
  <2>4. CASE UNCHANGED <<pc, op, todo>>
    <3>1. Tagged' /\ Reached' /\ Answer' /\ Due'
      BY <2>1, <2>2, <2>4 DEF Orderly, Tagged, Reached, Answer, Due, Quiet, Commanding, Reading
    <3> QED
      BY <1>1, <3>1 DEF Orderly
  <2> QED
    BY <1>3, <2>3, <2>4 DEF StartScript
<1>4. ASSUME NEW name, NEW typ, NEW ascii, NEW n, StartAccess(name, typ, ascii, n)
      PROVE  Orderly'
  <2>1. /\ pc = "idle" /\ ~ data.live /\ Quiet
        /\ UNCHANGED <<await, back, data, link, wire, srv>>
    BY <1>4 DEF StartAccess, Between, Orderly, Due
  <2>2. Quiet'
    BY <2>1 DEF Quiet
  <2>3. CASE pc' = "send" /\ todo' = accessScript(typ, n, ctl.cmode)
    <3>1. ~ OnTransfer'
      BY <2>3 DEF OnTransfer, accessScript
    <3>2. Tagged' /\ Reached' /\ Answer' /\ Due'
      BY <2>1, <2>2, <2>3, <3>1 DEF Orderly, Tagged, Reached, Answer, Due, Quiet
    <3> QED
      BY <1>1, <3>2 DEF Orderly
  <2>4. CASE UNCHANGED <<pc, op, todo>>
    <3>1. Tagged' /\ Reached' /\ Answer' /\ Due'
      BY <2>1, <2>2, <2>4 DEF Orderly, Tagged, Reached, Answer, Due, Quiet, Commanding, Reading
    <3> QED
      BY <1>1, <3>1 DEF Orderly
  <2> QED
    BY <1>4, <2>3, <2>4 DEF StartAccess
<1>5. CASE readFtpClient \/ writeFtpClient
  <2>1. UNCHANGED <<link, wire, srv>> /\ pc = "idle" /\ data.live
    BY <1>5 DEF readFtpClient, writeFtpClient, Streaming
  <2>2. flow'.conn = flow.conn
    BY <1>5, StreamFlow DEF readFtpClient, writeFtpClient, Orderly
  <2>3. /\ UNCHANGED <<pc, op, todo, await, back, data>>
        /\ ctl'.resp \in {ctl.resp, "text"}
    <3>1. Texted
      BY <1>5, StreamCtl DEF readFtpClient, writeFtpClient, Texted
    <3> QED
      BY <1>5, <3>1, TextedKeeps DEF readFtpClient, writeFtpClient, locals
  <2>4. ClosingDue' /\ ~ Refusing'
    BY <2>1, <2>2, <2>3, DueSame DEF Orderly, Due, Answer, Refusing
  <2>5. Tagged' /\ Reached'
    BY <2>1, <2>2, <2>3 DEF Orderly, Tagged, Reached, Commanding, Reading
  <2>6. Answer' /\ Due'
    BY <2>1, <2>3, <2>4 DEF Answer, Due
  <2> QED
    BY <1>1, <2>5, <2>6 DEF Orderly
<1>6. CASE StartClose
  <2>1. /\ pc = "idle" /\ data.live /\ pc' = "close"
        /\ UNCHANGED <<await, ctl, data, link, wire, srv, flow>>
    BY <1>6 DEF StartClose, Streaming
  <2>2. ClosingDue' /\ ~ Refusing'
    BY <2>1, DueSame DEF Orderly, Due, Answer, Refusing
  <2>3. Tagged' /\ Reached'
    BY <2>1 DEF Orderly, Tagged, Reached, Commanding, Reading
  <2>4. Answer' /\ Due'
    BY <2>1, <2>2 DEF Answer, Due
  <2> QED
    BY <1>1, <2>3, <2>4 DEF Orderly
<1>7. ASSUME pc = "idle", UNCHANGED <<pc, locals, data, link, wire, srv, flow>>,
             ctl'.resp = ctl.resp
      PROVE  Orderly'
  <2>1. UNCHANGED <<op, todo, await, back, matched>>
    BY <1>7 DEF locals
  <2>2. Refusing' = Refusing /\ ClosingDue' = ClosingDue /\ Quiet' = Quiet
    BY <1>7, DueSame DEF Refusing
  <2>3. Tagged' /\ Reached'
    BY <1>7, <2>1 DEF Orderly, Tagged, Reached, Commanding, Reading
  <2>4. Answer' /\ Due'
    BY <1>7, <2>2 DEF Orderly, Answer, Due
  <2> QED
    BY <1>1, <2>3, <2>4 DEF Orderly
<1>8. ASSUME NEW on, setCallbackFtpClient(on)
      PROVE  Orderly'
  <2>1. ctl'.resp = ctl.resp
    BY <1>8 DEF setCallbackFtpClient, Types
  <2> QED
    BY <1>7, <1>8, <2>1 DEF setCallbackFtpClient
<1>9. ASSUME NEW mode, setOptionsFtpClient(mode)
      PROVE  Orderly'
  <2>1. ctl'.resp = ctl.resp
    BY <1>9 DEF setOptionsFtpClient, Types
  <2> QED
    BY <1>7, <1>9, <2>1 DEF setOptionsFtpClient
<1> QED
  BY <1>2, <1>3, <1>4, <1>5, <1>6, <1>8, <1>9 DEF Application

\* Every step.
LEMMA RepliesStep ==
    ASSUME Shape, Orderly, ~ srv.long, ~ srv'.long, [Next]_vars
    PROVE  Orderly'
<1>1. CASE UNCHANGED vars
  <2>1. UNCHANGED <<pc, op, todo, await, back, matched, ctl, data, link, wire, srv, flow>>
    BY <1>1 DEF vars, clientVars
  <2>2. /\ Refusing' = Refusing /\ OnTransfer' = OnTransfer /\ Unsent' = Unsent
        /\ Commanding' = Commanding
    BY <2>1 DEF Refusing, OnTransfer, InAccess, Unsent, Commanding, Reading
  <2>3. Tagged' /\ Reached' /\ Answer'
    BY <2>1, <2>2 DEF Orderly, Tagged, Reached, Answer
  <2>4. Due'
    BY <2>1, <2>2, DueSame DEF Orderly, Due
  <2>5. flow' \in FlowType
    BY <2>1 DEF Orderly
  <2> QED
    BY <2>3, <2>4, <2>5 DEF Orderly
<1>2. CASE Next
  BY <1>2, RepliesStart, RepliesClient, RepliesOthers DEF Next
<1> QED
  BY <1>1, <1>2

\* What holds of the exchange whether every line fitted or not: the flag goes down
\* only with the control connection's structure.
Exchange == flow \in FlowType /\ (srv.long => ctl.live) /\ (~ srv.long => Orderly)

\* The first state.
LEMMA ExchangeInit == Init => Exchange
<1>1. Init => ~ srv.long
  BY DEF Init, Idle
<1> QED
  BY <1>1, FlowInit, RepliesInit DEF Exchange

\* The control structure lives as long as the flag is up.
LEMMA FlagLives ==
    ASSUME Shape, Exchange, [Next]_vars
    PROVE  srv'.long => ctl'.live
<1> USE DEF Shape, Exchange
<1>1. CASE Client
  <2>1. ctl'.live \/ ~ srv'.long
    <3>1. CASE QuitEnds \/ (ConnectEnds /\ ~ matched)
      <4>1. srv' = Idle
        BY <3>1 DEF QuitEnds, ConnectEnds
      <4>2. ~ Idle.long
        BY DEF Idle
      <4> QED
        BY <4>1, <4>2
    <3>2. CASE ConnectEnds /\ matched
      BY <3>2 DEF ConnectEnds, Place, Commanding, Closing, Reading
    <3>3. CASE UNCHANGED ctl \/ (\E r : ctl' = [ctl EXCEPT !.resp = r])
      <4>1. ctl'.live = ctl.live
        BY <3>3 DEF Types
      <4>2. pc # "idle" => ctl.live
        BY DEF Place
      <4>3. pc # "idle"
        BY <1>1 DEF Client, SendCommand, ReadResponse, ContinueScript, QuitEnds, ConnectEnds,
           TypeReplied, openPort, PortReplied, TransferReplied, acceptConnection, xferLoop,
           xferFinish, closeFtpClient, CloseEnds
      <4> QED
        BY <4>1, <4>2, <4>3
    <3>4. xferLoop => UNCHANGED ctl \/ (\E r : ctl' = [ctl EXCEPT !.resp = r])
      BY LoopTurns DEF Texted
    <3> QED
      BY <1>1, <3>1, <3>2, <3>3, <3>4 DEF Client, SendCommand, ReadResponse, ContinueScript,
         TypeReplied, openPort, PortReplied, TransferReplied, acceptConnection, xferFinish,
         closeFtpClient, CloseEnds
  <2> QED
    BY <2>1
<1>2. CASE connectFtpClient
  BY <1>2 DEF connectFtpClient, NoCtl
<1>3. ASSUME UNCHANGED srv, ctl'.live = ctl.live
      PROVE  srv'.long => ctl'.live
  BY <1>3
<1>4. CASE readFtpClient \/ writeFtpClient
  <2>1. Texted /\ UNCHANGED srv
    BY <1>4, StreamCtl DEF readFtpClient, writeFtpClient, Texted
  <2> QED
    BY <1>3, <2>1, TextedKeeps
<1>5. ASSUME NEW name, NEW n, StartScript(name, n)
      PROVE  srv'.long => ctl'.live
  BY <1>3, <1>5 DEF StartScript
<1>6. ASSUME NEW name, NEW typ, NEW ascii, NEW n, StartAccess(name, typ, ascii, n)
      PROVE  srv'.long => ctl'.live
  <2>1. ctl'.live = ctl.live /\ UNCHANGED srv
    BY <1>6 DEF StartAccess, Types
  <2> QED
    BY <1>3, <2>1
<1>7. ASSUME NEW on, setCallbackFtpClient(on) \/ setOptionsFtpClient(on)
      PROVE  srv'.long => ctl'.live
  BY <1>7 DEF setCallbackFtpClient, setOptionsFtpClient, Types
<1>8. CASE StartClose \/ UNCHANGED vars
  BY <1>8 DEF StartClose, vars, clientVars
<1>9. CASE Server \/ LinkBreaks
  <2>1. UNCHANGED ctl /\ (srv'.long => srv.long \/ srv.st # "idle")
    BY <1>9 DEF Server, ServerReplies, ServerBegins, ServerDials, ServerEnds, ServerMoves,
       ServerFinishes, LinkBreaks, clientVars, Types, SrvType
  <2>2. srv.st # "idle" /\ ~ srv.long => ctl.live
    BY DEF Place, Orderly, Due, Quiet
  <2> QED
    BY <2>1, <2>2
<1> QED
  BY <1>1, <1>2, <1>4, <1>5, <1>6, <1>7, <1>8, <1>9 DEF Next, Application

\* The flag goes down when the control structure is freed.
LEMMA FlagFalls ==
    ASSUME Shape, Exchange, srv.long, ~ srv'.long, [Next]_vars
    PROVE  QuitEnds \/ (ConnectEnds /\ ~ matched)
<1> USE DEF Shape, Exchange
<1>1. srv' # srv
  OBVIOUS
<1>2. ~ connectFtpClient
  BY DEF connectFtpClient
<1>3. CASE SendCommand
  BY <1>3 DEF SendCommand, Types, SrvType
<1>4. CASE Server \/ LinkBreaks
  <2>1. ASSUME NEW digit, NEW layout, NEW st, NEW logged, Replies(digit, layout, st, logged)
        PROVE  FALSE
    <3>1. srv'.long = (srv.long \/ layout \in LongLayouts)
      BY <2>1 DEF Replies
    <3> QED
      BY <3>1
  <2>2. CASE \E a, b : srv' = [srv EXCEPT !.st = a, !.verb = b]
    BY <2>2 DEF Types, SrvType
  <2>3. CASE \E a : srv' = [srv EXCEPT !.st = a]
    BY <2>3 DEF Types, SrvType
  <2>4. CASE ServerDials \/ ServerMoves \/ LinkBreaks
    BY <1>1, <2>1, <2>2, <2>3, <2>4 DEF ServerDials, ServerEnds, ServerMoves, LinkBreaks
  <2>5. CASE ServerReplies \/ ServerBegins \/ ServerFinishes
    BY <2>1, <2>5 DEF ServerReplies, ServerBegins, ServerFinishes, ServerEnds
  <2> QED
    BY <1>4, <2>4, <2>5 DEF Server
<1>5. CASE Application
  BY <1>1, <1>2, <1>5 DEF Application, StartScript, StartAccess, readFtpClient,
     writeFtpClient, StartClose, setCallbackFtpClient, setOptionsFtpClient
<1>6. CASE Client
  BY <1>1, <1>3, <1>6 DEF Client, ReadResponse, ContinueScript, ConnectEnds, TypeReplied,
     openPort, PortReplied, TransferReplied, acceptConnection, xferLoop, xferFinish,
     closeFtpClient, CloseEnds
<1> QED
  BY <1>1, <1>4, <1>5, <1>6 DEF Next, vars

\* Every step: once a line did not fit, only a new connection is orderly again.
LEMMA ExchangeStep ==
    ASSUME Shape, Exchange, [Next]_vars
    PROVE  Exchange'
<1>1. flow' \in FlowType /\ (srv'.long => ctl'.live)
  BY FlowStep, FlagLives DEF Exchange
<1>2. ASSUME ~ srv.long, ~ srv'.long
      PROVE  Orderly'
  BY <1>2, RepliesStep DEF Exchange
<1>3. ASSUME srv.long, ~ srv'.long
      PROVE  Orderly'
  <2>1. QuitEnds \/ (ConnectEnds /\ ~ matched)
    BY <1>3, FlagFalls
  <2>2. ~ data'.live
    <3> USE DEF Shape
    <3>1. CASE QuitEnds
      BY <3>1, NamesApart, ScriptNames DEF QuitEnds, Place, OnAccess, OnStream, OnClose,
         Commanding, Closing, Reading, InAccess
    <3>2. CASE ConnectEnds
      BY <3>2, NamesApart DEF ConnectEnds, Place, OnAccess, OnStream, OnClose,
         Commanding, Closing, Reading, InAccess
    <3> QED
      BY <2>1, <3>1, <3>2
  <2>3. Quiet'
    <3>1. wire' = <<>> /\ srv' = Idle
      BY <2>1 DEF QuitEnds, ConnectEnds
    <3> QED
      BY <3>1 DEF Quiet, Idle
  <2>4. PICK ok : Return(ok)
    BY <2>1 DEF QuitEnds, ConnectEnds
  <2> QED
    BY <1>1, <2>2, <2>3, <2>4, ReturnReplies
<1> QED
  BY <1>1, <1>2, <1>3 DEF Exchange

\* RepliesMatch (FtpClient.c:224): while every line fits the response buffer, no
\* call takes the reply of another.
THEOREM RepliesAreAnswers == Spec => []RepliesMatch
<1>1. Init => Shape /\ Exchange
  BY ShapeInit, ExchangeInit
<1>2. Shape /\ Exchange /\ [Next]_vars => Shape' /\ Exchange'
  BY ShapeStep, ExchangeStep
<1>3. Shape /\ Exchange => RepliesMatch
  <2> SUFFICES ASSUME Shape, Orderly, wire # <<>>
               PROVE  Head(wire).to = await
    BY DEF RepliesMatch, Exchange
  <2>1. Head(wire) = wire[1] /\ 1 \in 1 .. Len(wire)
    BY WireParts DEF Shape, Types
  <2> QED
    BY <2>1 DEF Orderly, Tagged
<1> QED
  BY <1>1, <1>2, <1>3, PTL DEF Spec

\* InStep (FtpClient.c:1321): closeFtpClient reads the last reply of a transfer
\* exactly when there is one, so that none is left between two calls, while every
\* line fits the response buffer.
THEOREM StaysInStep == Spec => []InStep
<1>1. Init => Shape /\ Exchange
  BY ShapeInit, ExchangeInit
<1>2. Shape /\ Exchange /\ [Next]_vars => Shape' /\ Exchange'
  BY ShapeStep, ExchangeStep
<1>3. Shape /\ Exchange => InStep
  BY DEF Exchange, Orderly, Due, Quiet, InStep
<1> QED
  BY <1>1, <1>2, <1>3, PTL DEF Spec

-----------------------------------------------------------------------------
(* The sockets of the client.                                                *)

OnPort == Commanding /\ InAccess /\ Len(todo) = 2

Sockets ==
    /\ socks \subseteq {"control", "listen", "data", "lost"}
    /\ "control" \in socks <=> ctl.live
    /\ ~ data.live /\ ~ OnPort => "listen" \notin socks /\ "data" \notin socks
    /\ OnPort => "data" \notin socks /\ (ctl.cmode = "passive" => "listen" \notin socks)
    /\ Commanding /\ OnTransfer /\ ctl.cmode = "passive"
         => "data" \in socks /\ "listen" \notin socks
    /\ pc = "idle" /\ data.live => "data" \in socks /\ "listen" \notin socks

\* No socket is open at the start.
LEMMA SocketsInit == Init => Sockets
BY DEF Init, Sockets, NoCtl, NoData, OnPort, Commanding, Reading

\* Steps that open and close no socket.
LEMMA SocketsKept ==
    ASSUME Sockets, UNCHANGED <<socks, data>>, ctl'.live = ctl.live,
           \/ ~ data.live /\ ~ OnPort /\ ~ OnPort'
           \/ OnPort /\ OnPort' /\ ctl'.cmode = ctl.cmode
           \/ data.live /\ ~ OnPort',
           Commanding' /\ OnTransfer' => data.live /\ Commanding /\ OnTransfer
                                         /\ ctl'.cmode = ctl.cmode,
           pc' = "idle" /\ data.live => "data" \in socks /\ "listen" \notin socks
    PROVE  Sockets'
<1>1. /\ socks' \subseteq {"control", "listen", "data", "lost"}
      /\ "control" \in socks' <=> ctl'.live
  BY DEF Sockets
<1>2. /\ ~ data'.live /\ ~ OnPort' => "listen" \notin socks' /\ "data" \notin socks'
      /\ OnPort' => "data" \notin socks' /\ (ctl'.cmode = "passive" => "listen" \notin socks')
      /\ Commanding' /\ OnTransfer' /\ ctl'.cmode = "passive"
           => "data" \in socks' /\ "listen" \notin socks'
      /\ pc' = "idle" /\ data'.live => "data" \in socks' /\ "listen" \notin socks'
  BY DEF Sockets
<1> QED
  BY <1>1, <1>2 DEF Sockets

\* Calls that end without a data connection.
LEMMA SocketsReturn ==
    ASSUME Sockets, NEW ok, Return(ok), ~ data'.live,
           socks' \subseteq {"control", "listen", "data", "lost"},
           "control" \in socks' <=> ctl'.live,
           "listen" \notin socks' /\ "data" \notin socks'
    PROVE  Sockets'
<1>1. pc' = "idle" /\ ~ Commanding' /\ ~ OnPort'
  BY DEF Return, Commanding, Reading, OnPort
<1> QED
  BY <1>1 DEF Sockets

\* The caller's steps.
LEMMA SocketsClient ==
    ASSUME Shape, Sockets, Client
    PROVE  Sockets'
<1> USE DEF Shape
<1>1. CASE SendCommand \/ ReadResponse
  <2>1. UNCHANGED <<op, todo, data, socks>> /\ ctl'.live = ctl.live /\ ctl'.cmode = ctl.cmode
    BY <1>1 DEF SendCommand, ReadResponse, Types
  <2>2. Commanding' = Commanding /\ pc' # "idle"
    BY <1>1 DEF SendCommand, ReadResponse, Commanding, Reading, Types
  <2>3. OnTransfer' = OnTransfer /\ OnPort' = OnPort
    BY <2>1, <2>2 DEF OnTransfer, OnPort, InAccess
  <2>4. Commanding /\ OnTransfer => data.live /\ ~ OnPort
    BY <2>2, NamesApart DEF Place, OnScript, OnTransfer, OnPort, InAccess, Commanding, Closing, Reading
  <2>5. data.live => ~ OnPort
    BY NamesApart DEF Place, OnScript, OnPort, InAccess, Commanding, Closing, Reading
  <2> QED
    BY <2>1, <2>2, <2>3, <2>4, <2>5, SocketsKept
<1>2. CASE ContinueScript
  <2>1. OnScript /\ ~ data.live
    BY <1>2, NamesApart DEF ContinueScript, Place, OnAccess, OnStream, OnClose,
       Commanding, Closing, Reading, InAccess
  <2>2. ~ OnPort /\ ~ OnTransfer
    BY <2>1, NamesApart DEF OnScript, OnPort, OnTransfer, InAccess
  <2>3. UNCHANGED <<ctl, data, socks>>
    BY <1>2 DEF ContinueScript
  <2>4. CASE pc' = "send" /\ UNCHANGED op
    <3>1. ~ OnPort' /\ ~ OnTransfer'
      BY <2>1, <2>4, NamesApart DEF OnScript, OnPort, OnTransfer, InAccess
    <3> QED
      BY <2>1, <2>2, <2>3, <3>1, SocketsKept
  <2>5. ASSUME NEW ok, Return(ok) PROVE Sockets'
    BY <2>1, <2>2, <2>3, <2>5, SocketsReturn DEF Sockets
  <2> QED
    BY <1>2, <2>4, <2>5 DEF ContinueScript
<1>3. CASE QuitEnds \/ ConnectEnds
  <2>1. ~ data.live /\ ~ OnPort
    BY <1>3, NamesApart, ScriptNames DEF QuitEnds, ConnectEnds, Place, OnAccess, OnStream,
       OnClose, Commanding, Closing, Reading, InAccess, OnPort
  <2>2. PICK ok : Return(ok)
    BY <1>3 DEF QuitEnds, ConnectEnds
  <2>3. /\ \/ socks' = socks /\ ctl' = ctl
           \/ socks' = socks \ {"control"} /\ ctl' = NoCtl
        /\ UNCHANGED data
    BY <1>3 DEF QuitEnds, ConnectEnds
  <2>4. "control" \in socks' <=> ctl'.live
    BY <2>3 DEF Sockets, NoCtl
  <2>5. "listen" \notin socks' /\ "data" \notin socks'
        /\ socks' \subseteq {"control", "listen", "data", "lost"}
    BY <2>1, <2>3 DEF Sockets
  <2> QED
    BY <2>1, <2>2, <2>3, <2>4, <2>5, SocketsReturn
<1>4. CASE TypeReplied
  <2>1. OnAccess /\ (data.live <=> Len(todo) = 1)
    BY <1>4, AtAccess DEF TypeReplied
  <2>2. Len(todo) = 3
    BY <1>4, <2>1, AccessHead DEF TypeReplied, OnAccess
  <2>3. ~ data.live /\ ~ OnPort /\ UNCHANGED <<ctl, data, socks>>
    BY <1>4, <2>1, <2>2 DEF TypeReplied, OnPort
  <2>4. CASE AccessFails
    BY <2>3, <2>4, SocketsReturn DEF AccessFails, Sockets
  <2>5. CASE pc' = "openPort"
    <3>1. ~ Commanding' /\ ~ OnPort'
      BY <2>5 DEF Commanding, Reading, OnPort
    <3> QED
      BY <2>3, <2>5, <3>1, SocketsKept
  <2> QED
    BY <1>4, <2>4, <2>5 DEF TypeReplied
<1>5. CASE openPort
  <2>1. OnAccess /\ Len(todo) = 2 /\ ~ data.live
    BY <1>5 DEF openPort, Place, Commanding, Closing, Reading
  <2>2. Head(todo).verb = "PASV" <=> ctl.cmode = "passive"
    BY <2>1, AccessHead DEF OnAccess
  <2>3. "listen" \notin socks /\ "data" \notin socks /\ ~ data'.live /\ UNCHANGED ctl
    BY <1>5, <2>1 DEF openPort, Sockets, OnPort, Commanding, Reading
  <2>4. CASE AccessFails /\ (socks' = socks \/ socks' = socks \cup {"lost"})
    BY <2>3, <2>4, SocketsReturn DEF AccessFails, Sockets
  <2>5. CASE /\ pc' = "send" /\ Continues /\ UNCHANGED todo
             /\ socks' = socks \/ (socks' = socks \cup {"listen"} /\ ctl.cmode # "passive")
    <3>1. OnPort' /\ ~ OnTransfer'
      BY <2>1, <2>5 DEF OnPort, OnTransfer, OnAccess, InAccess, Commanding, Reading, Continues
    <3> QED
      BY <2>3, <2>5, <3>1 DEF Sockets
  <2> QED
    BY <1>5, <2>2, <2>4, <2>5 DEF openPort
<1>6. CASE PortReplied
  <2>1. OnAccess /\ (data.live <=> Len(todo) = 1)
    BY <1>6, AtAccess DEF PortReplied
  <2>2. Len(todo) = 2 /\ (Head(todo).verb = "PASV" <=> ctl.cmode = "passive")
    BY <1>6, <2>1, AccessHead DEF PortReplied, OnAccess
  <2>3. OnPort /\ UNCHANGED ctl /\ ~ data.live
    BY <1>6, <2>1, <2>2 DEF PortReplied, OnPort, Commanding, Reading
  <2>4. CASE AccessFails /\ socks' = socks \ {"listen"} /\ UNCHANGED data
    BY <2>3, <2>4, SocketsReturn DEF AccessFails, Sockets
  <2>5. CASE /\ pc' = "send" /\ todo' = Tail(todo) /\ Continues /\ data'.live
             /\ \/ socks' = socks \cup {"data"} /\ ctl.cmode = "passive"
                \/ socks' = socks /\ ctl.cmode # "passive"
    <3>1. Len(todo') = 1
      BY <2>1, <2>2, <2>5, AccessTail DEF OnAccess
    <3>2. ~ OnPort' /\ data'.live /\ pc' # "idle"
      <4>1. ~ OnPort'
        BY <3>1 DEF OnPort
      <4> QED
        BY <2>5, <4>1
    <3>3. ctl.cmode = "passive" => "data" \in socks' /\ "listen" \notin socks'
      BY <2>3, <2>5 DEF Sockets
    <3>4. /\ socks' \subseteq {"control", "listen", "data", "lost"}
          /\ "control" \in socks' <=> ctl.live
      <4>1. CASE socks' = socks \cup {"data"}
        BY <4>1 DEF Sockets
      <4>2. CASE socks' = socks
        BY <4>2 DEF Sockets
      <4> QED
        BY <2>5, <4>1, <4>2
    <3> QED
      BY <2>3, <3>2, <3>3, <3>4 DEF Sockets
  <2> QED
    BY <1>6, <2>2, <2>4, <2>5 DEF PortReplied
<1>7. CASE TransferReplied
  <2>1. /\ data.live /\ Commanding /\ OnTransfer
        /\ UNCHANGED <<ctl, data, socks>>
    BY <1>7, AtAccess DEF TransferReplied, OnTransfer, Commanding, Reading
  <2>2. ~ Commanding' /\ ~ OnPort'
    BY <1>7 DEF TransferReplied, AccessSucceeds, Return, Commanding, Reading, OnPort
  <2>3. pc' = "idle" => ctl.cmode = "passive"
    BY <1>7 DEF TransferReplied
  <2>4. pc' = "idle" => "data" \in socks /\ "listen" \notin socks
    BY <2>1, <2>3 DEF Sockets
  <2> QED
    BY <2>1, <2>2, <2>4, SocketsKept
<1>8. CASE acceptConnection
  <2>1. data.live /\ UNCHANGED data /\ ctl'.live = ctl.live
    BY <1>8 DEF acceptConnection, Place, Commanding, Closing, Reading, Types
  <2>2. ~ Commanding' /\ ~ OnPort'
    BY <1>8 DEF acceptConnection, AccessSucceeds, Return, Commanding, Reading, OnPort
  <2>3. \/ socks' = (socks \ {"listen"}) \cup {"data"}
        \/ socks' = socks \ {"listen"} /\ pc' # "idle"
    BY <1>8 DEF acceptConnection
  <2> QED
    BY <2>1, <2>2, <2>3 DEF Sockets
<1>9. CASE xferLoop \/ xferFinish
  <2>1. data.live /\ UNCHANGED <<data, socks>> /\ ctl'.live = ctl.live
    <3>1. data.live
      BY <1>9 DEF xferLoop, xferFinish, Place, Commanding, Closing, Reading
    <3>2. CASE xferLoop
      BY <3>1, <3>2, LoopTurns, TextedKeeps
    <3>3. CASE xferFinish
      BY <3>1, <3>3 DEF xferFinish
    <3> QED
      BY <1>9, <3>2, <3>3
  <2>2. ~ Commanding' /\ ~ OnPort' /\ pc' # "idle"
    <3>1. pc' \in {"transfer", "finish", "close"}
      BY <1>9, LoopTurns DEF xferFinish
    <3> QED
      BY <3>1 DEF Commanding, Reading, OnPort
  <2> QED
    BY <2>1, <2>2, SocketsKept
<1>10. CASE closeFtpClient
  <2>1. ~ Commanding' /\ ~ OnPort' /\ pc' # "idle"
    BY <1>10 DEF closeFtpClient, Commanding, Reading, OnPort
  <2>2. socks' = socks \ {"data", "listen"} /\ UNCHANGED ctl
    BY <1>10 DEF closeFtpClient
  <2> QED
    BY <2>1, <2>2 DEF Sockets
<1>11. CASE CloseEnds
  <2>1. ~ data.live /\ ~ OnPort /\ UNCHANGED <<ctl, data, socks>>
    BY <1>11 DEF CloseEnds, Place, Commanding, Closing, Reading, OnPort
  <2>2. PICK ok : Return(ok)
    BY <1>11 DEF CloseEnds, AccessFails
  <2> QED
    BY <2>1, <2>2, SocketsReturn DEF Sockets
<1> QED
  BY <1>1, <1>2, <1>3, <1>4, <1>5, <1>6, <1>7, <1>8, <1>9, <1>10, <1>11 DEF Client

\* Every step.
LEMMA SocketsStep ==
    ASSUME Shape, Sockets, [Next]_vars
    PROVE  Sockets'
<1> USE DEF Shape
<1>1. CASE Client
  BY <1>1, SocketsClient
<1>2. CASE connectFtpClient
  <2>1. pc = "idle" /\ ~ ctl.live /\ ~ data.live /\ ~ OnPort /\ UNCHANGED data
    BY <1>2 DEF connectFtpClient, Place, Commanding, Closing, Reading, OnPort
  <2>2. CASE UNCHANGED <<pc, op, todo, ctl, socks>>
    <3>1. ~ Commanding' /\ ~ OnPort'
      BY <2>1, <2>2 DEF Commanding, Reading, OnPort
    <3> QED
      BY <2>1, <2>2, <3>1, SocketsKept
  <2>3. CASE /\ op' = [NoOp EXCEPT !.name = "connect"]
             /\ socks' = socks \cup {"control"} /\ ctl' = [NoCtl EXCEPT !.live = TRUE]
             /\ pc' = "read"
    <3>1. ctl'.live /\ ~ InAccess'
      BY <2>3, NamesApart DEF NoCtl, NoOp, InAccess
    <3>2. ~ OnPort' /\ ~ OnTransfer'
      BY <3>1 DEF OnPort, OnTransfer
    <3>3. "listen" \notin socks' /\ "data" \notin socks' /\ "control" \in socks'
          /\ socks' \subseteq {"control", "listen", "data", "lost"}
      BY <2>1, <2>3 DEF Sockets
    <3> QED
      BY <2>1, <2>3, <3>1, <3>2, <3>3 DEF Sockets
  <2> QED
    BY <1>2, <2>2, <2>3 DEF connectFtpClient
<1>3. ASSUME NEW name, NEW n, StartScript(name, n)
      PROVE  Sockets'
  <2>1. /\ pc = "idle" /\ ~ data.live /\ ~ OnPort /\ name \in ScriptOps
        /\ UNCHANGED <<ctl, data, socks>>
    BY <1>3 DEF StartScript, Between, OnPort, Commanding, Reading
  <2>2. ~ (Commanding' /\ InAccess')
    <3>1. CASE op' = [NoOp EXCEPT !.name = name]
      BY <2>1, <3>1, NamesApart DEF NoOp, InAccess
    <3>2. CASE UNCHANGED pc
      BY <2>1, <3>2 DEF Commanding, Reading
    <3> QED
      BY <1>3, <3>1, <3>2 DEF StartScript
  <2> QED
    BY <2>1, <2>2, SocketsKept DEF OnPort, OnTransfer
<1>4. ASSUME NEW name, NEW typ, NEW ascii, NEW n, StartAccess(name, typ, ascii, n)
      PROVE  Sockets'
  <2>1. pc = "idle" /\ ~ data.live /\ ~ OnPort /\ UNCHANGED <<data, socks>>
    BY <1>4 DEF StartAccess, Between, OnPort, Commanding, Reading
  <2>2. ctl'.live = ctl.live
    BY <1>4 DEF StartAccess, Types
  <2>3. ~ OnPort' /\ ~ (Commanding' /\ OnTransfer')
    <3>1. CASE todo' = accessScript(typ, n, ctl.cmode)
      <4>1. Len(todo') = 3
        BY <3>1 DEF accessScript
      <4> QED
        BY <4>1 DEF OnPort, OnTransfer
    <3>2. CASE UNCHANGED pc
      BY <2>1, <3>2 DEF Commanding, Reading, OnPort
    <3> QED
      BY <1>4, <3>1, <3>2 DEF StartAccess
  <2> QED
    BY <2>1, <2>2, <2>3, SocketsKept
<1>5. CASE StartClose
  <2>1. data.live /\ pc' = "close" /\ UNCHANGED <<ctl, data, socks>>
    BY <1>5 DEF StartClose, Streaming
  <2>2. ~ Commanding' /\ ~ OnPort'
    BY <2>1 DEF Commanding, Reading, OnPort
  <2> QED
    BY <2>1, <2>2, SocketsKept
<1>6. ASSUME pc = "idle", UNCHANGED <<pc, data, socks>>, ctl'.live = ctl.live
      PROVE  Sockets'
  <2>1. ~ OnPort /\ ~ OnPort' /\ ~ Commanding'
    BY <1>6 DEF Commanding, Reading, OnPort
  <2> QED
    BY <1>6, <2>1, SocketsKept DEF Sockets
<1>7. CASE readFtpClient \/ writeFtpClient
  <2>1. Texted
    BY <1>7, StreamCtl DEF readFtpClient, writeFtpClient, Texted
  <2> QED
    BY <1>6, <1>7, <2>1, TextedKeeps DEF readFtpClient, writeFtpClient, Streaming
<1>8. ASSUME NEW on, setCallbackFtpClient(on) \/ setOptionsFtpClient(on)
      PROVE  Sockets'
  <2>1. ctl'.live = ctl.live
    BY <1>8 DEF setCallbackFtpClient, setOptionsFtpClient, Types
  <2> QED
    BY <1>6, <1>8, <2>1 DEF setCallbackFtpClient, setOptionsFtpClient
<1>9. CASE Server \/ LinkBreaks \/ UNCHANGED vars
  <2>1. UNCHANGED clientVars
    BY <1>9 DEF Server, ServerReplies, ServerBegins, ServerDials, ServerEnds, ServerMoves,
       ServerFinishes, LinkBreaks, vars
  <2>2. UNCHANGED <<pc, op, todo, back, ctl, data, socks>>
    BY <2>1 DEF clientVars
  <2>3. OnPort' = OnPort /\ OnTransfer' = OnTransfer /\ Commanding' = Commanding
    BY <2>2 DEF OnPort, OnTransfer, InAccess, Commanding, Reading
  <2> QED
    BY <2>2, <2>3 DEF Sockets
<1> QED
  BY <1>1, <1>2, <1>3, <1>4, <1>5, <1>7, <1>8, <1>9 DEF Next, Application

\* SocketsOwned (FtpClient.c:461): between two calls the open sockets are those
\* of the client's structures, and the one that openPort forgets.
THEOREM SocketsHaveOwners == Spec => []SocketsOwned
<1>1. Init => Shape /\ Sockets
  BY ShapeInit, SocketsInit
<1>2. Shape /\ Sockets /\ [Next]_vars => Shape' /\ Sockets'
  BY ShapeStep, SocketsStep
<1>3. Shape /\ Sockets => SocketsOwned
  BY DEF Sockets, SocketsOwned, OnPort, Commanding, Reading
<1> QED
  BY <1>1, <1>2, <1>3, PTL DEF Spec

-----------------------------------------------------------------------------
(* The local file of a transfer.                                             *)

\* Calls that have no local file of their own.
NoFile == op.name \in ScriptOps \cup {"connect", "close"}
\* A transfer before its file is closed.
Holds == op.name \in TransferOps /\ (todo # <<>> \/ pc \in {"transfer", "finish"})
\* A transfer after its file was closed.
Done == op.name \in TransferOps /\ todo = <<>> /\ pc \notin {"transfer", "finish"}

Files ==
    /\ local \in {"none", "open", "kept", "std"}
    /\ pc = "idle" => /\ local # "open"
                      /\ ret.name = "get" /\ ~ ret.ok => local # "kept"
    /\ pc # "idle" /\ NoFile => local # "open"
    /\ pc # "idle" /\ op.name = "access" => local = "none"
    /\ pc # "idle" /\ Holds => local # "kept"
    /\ pc # "idle" /\ Done => /\ local # "open"
                              /\ local = "kept" /\ op.name = "get" => rv = 1

\* There is no file at the start.
LEMMA FilesInit == Init => Files
BY DEF Init, Files, NoRet

\* What a call returns, by its name.
LEMMA ResultIs ==
    ASSUME NEW name, NEW ok
    PROVE  /\ Result(name, ok).name = "get" => name = "get" /\ Result(name, ok).ok = ok
           /\ NoRet.name # "get"
BY DEF Result, NoRet

\* A call that returns without closing a file.
LEMMA ReturnFiles ==
    ASSUME Files, NEW ok \in BOOLEAN, Return(ok), local' = local, local # "open",
           op.name = "get" /\ ~ ok => local # "kept"
    PROVE  Files'
<1>1. pc' = "idle" /\ ret' = Result(op.name, ok)
  BY DEF Return
<1>2. ret'.name = "get" => op.name = "get" /\ ret'.ok = ok
  BY <1>1, ResultIs
<1> QED
  BY <1>1, <1>2 DEF Files

\* accessFtpClient fails: a file that was to receive is removed.
LEMMA AccessFailsFiles ==
    ASSUME Files, OnAccess, pc # "idle", AccessFails
    PROVE  Files'
<1>1. pc' = "idle" /\ ret' = Result(op.name, FALSE)
  BY DEF AccessFails, Return
<1>2. ret'.name = "get" => op.name = "get"
  BY <1>1, ResultIs
<1>3. todo # <<>>
  BY AccessHead DEF OnAccess
<1>4. op.name = "get" => local # "kept" /\ op.typ = "get"
  BY <1>3 DEF Files, Holds, OnAccess, TransferOps
<1>5. /\ local' = IF local # "open" THEN local ELSE IF op.typ = "get" THEN "none" ELSE "kept"
      /\ local \in {"none", "open", "kept", "std"}
  BY DEF AccessFails, Files
<1>6. local' \in {"none", "kept", "std"} /\ (op.name = "get" => local' # "kept")
  BY <1>4, <1>5
<1> QED
  BY <1>1, <1>2, <1>6 DEF Files

\* accessFtpClient succeeds: the file is the transfer's.
LEMMA AccessSucceedsFiles ==
    ASSUME Files, OnAccess, pc # "idle", AccessSucceeds
    PROVE  Files'
<1>1. todo # <<>>
  BY AccessHead DEF OnAccess
<1>2. CASE op.name = "access" /\ Return(TRUE)
  BY <1>2, ReturnFiles DEF AccessSucceeds, Files
<1>3. CASE op.name # "access" /\ UNCHANGED <<op, ret>> /\ pc' \in {"transfer", "finish"}
  <2>1. op.name \in TransferOps
    BY <1>3 DEF OnAccess, InAccess
  <2>2. local # "kept" /\ UNCHANGED <<local, op>>
    BY <1>1, <1>3, <2>1 DEF Files, Holds, AccessSucceeds
  <2>3. ~ NoFile'
    BY <2>1, <2>2, NamesApart DEF NoFile
  <2> QED
    BY <1>3, <2>1, <2>2, <2>3 DEF Files, Done
<1> QED
  BY <1>2, <1>3 DEF AccessSucceeds

\* Steps of a running call that leave the file alone.
LEMMA FilesKept ==
    ASSUME Files, pc # "idle", pc' # "idle", UNCHANGED <<op, local, rv>>,
           Holds' => Holds, Done' => Done
    PROVE  Files'
<1>1. NoFile' = NoFile
  BY DEF NoFile
<1> QED
  BY <1>1 DEF Files

\* The caller's steps.
LEMMA FilesClient ==
    ASSUME Shape, Files, Client
    PROVE  Files'
<1> USE DEF Shape
<1>1. CASE SendCommand \/ ReadResponse
  <2>1. UNCHANGED <<op, todo, local, rv>> /\ pc \in {"send", "read", "skip"}
        /\ pc' \in {"read", "skip", "replied", "close", "closed"}
    BY <1>1 DEF SendCommand, ReadResponse, Types
  <2>2. (Holds' => Holds) /\ (Done' => Done)
    BY <2>1 DEF Holds, Done
  <2> QED
    BY <2>1, <2>2, FilesKept
<1>2. CASE ContinueScript \/ QuitEnds \/ ConnectEnds
  <2>1. pc = "replied" /\ NoFile /\ UNCHANGED local
    BY <1>2, ScriptNames DEF ContinueScript, QuitEnds, ConnectEnds, NoFile
  <2>2. local # "open" /\ op.name # "get"
    BY <2>1, NamesApart DEF Files, NoFile, TransferOps
  <2>3. ASSUME NEW ok \in BOOLEAN, Return(ok) PROVE Files'
    BY <2>1, <2>2, <2>3, ReturnFiles
  <2>4. CASE ContinueScript /\ pc' = "send" /\ UNCHANGED <<op, rv>>
    <3>1. ~ Holds' /\ ~ Done'
      BY <2>1, <2>4, NamesApart DEF Holds, Done, NoFile
    <3> QED
      BY <2>1, <2>4, <3>1, FilesKept
  <2>5. CASE ContinueScript
    <3>1. \A v : Parses(v) \subseteq BOOLEAN
      BY DEF Parses
    <3>2. (Head(todo).verb = "USER" /\ ctl.resp = "2") \in BOOLEAN
      OBVIOUS
    <3> QED
      BY <2>3, <2>4, <2>5, <3>1, <3>2 DEF ContinueScript
  <2>6. CASE QuitEnds \/ ConnectEnds
    BY <2>3, <2>6 DEF QuitEnds, ConnectEnds, Types
  <2> QED
    BY <1>2, <2>5, <2>6
<1>3. CASE TypeReplied
  <2>1. OnAccess /\ pc = "replied"
    BY <1>3, AtAccess DEF TypeReplied
  <2>2. CASE AccessFails
    BY <2>1, <2>2, AccessFailsFiles
  <2>3. CASE pc' = "openPort" /\ todo' = Tail(todo) /\ Continues
    <3>1. todo # <<>> /\ Len(todo) = 3
      BY <1>3, <2>1, AccessHead DEF TypeReplied, OnAccess
    <3>2. todo' # <<>>
      <4>1. AccessPlan(Tail(todo), op.typ, ctl.cmode)
        BY <2>1, <3>1, AccessTail DEF OnAccess
      <4> QED
        BY <2>3, <4>1, AccessHead
    <3>3. (Holds' => Holds) /\ ~ Done'
      BY <2>3, <3>1, <3>2 DEF Holds, Done, Continues
    <3> QED
      BY <2>1, <2>3, <3>3, FilesKept DEF Continues
  <2> QED
    BY <1>3, <2>2, <2>3 DEF TypeReplied
<1>4. CASE openPort
  <2>1. OnAccess /\ pc = "openPort"
    BY <1>4 DEF openPort, Place, Commanding, Closing, Reading
  <2>2. CASE AccessFails
    BY <2>1, <2>2, AccessFailsFiles
  <2>3. CASE pc' = "send" /\ Continues /\ UNCHANGED todo
    <3>1. (Holds' => Holds) /\ (Done' => Done)
      BY <2>1, <2>3 DEF Holds, Done, Continues
    <3> QED
      BY <2>1, <2>3, <3>1, FilesKept DEF Continues
  <2> QED
    BY <1>4, <2>2, <2>3 DEF openPort
<1>5. CASE PortReplied
  <2>1. OnAccess /\ pc = "replied"
    BY <1>5, AtAccess DEF PortReplied
  <2>2. CASE AccessFails
    BY <2>1, <2>2, AccessFailsFiles
  <2>3. CASE pc' = "send" /\ todo' = Tail(todo) /\ Continues
    <3>1. todo # <<>> /\ Len(todo) = 2
      BY <1>5, <2>1, AccessHead DEF PortReplied, OnAccess
    <3>2. todo' # <<>>
      <4>1. AccessPlan(Tail(todo), op.typ, ctl.cmode)
        BY <2>1, <3>1, AccessTail DEF OnAccess
      <4> QED
        BY <2>3, <4>1, AccessHead
    <3>3. (Holds' => Holds) /\ ~ Done'
      BY <2>3, <3>1, <3>2 DEF Holds, Done, Continues
    <3> QED
      BY <2>1, <2>3, <3>3, FilesKept DEF Continues
  <2> QED
    BY <1>5, <2>2, <2>3 DEF PortReplied
<1>6. CASE TransferReplied \/ acceptConnection
  <2>1. OnAccess /\ pc \in {"replied", "accept"}
    BY <1>6, AtAccess DEF TransferReplied, acceptConnection, Place, Commanding, Closing, Reading
  <2>2. CASE AccessSucceeds
    BY <2>1, <2>2, AccessSucceedsFiles
  <2>3. CASE UNCHANGED <<op, todo, rv, local>> /\ pc' \in {"accept", "close", "read"}
    <3>1. todo # <<>>
      BY <2>1, AccessHead DEF OnAccess
    <3>2. (Holds' => Holds) /\ ~ Done'
      BY <2>3, <3>1 DEF Holds, Done
    <3> QED
      BY <2>1, <2>3, <3>2, FilesKept
  <2> QED
    BY <1>6, <2>2, <2>3 DEF TransferReplied, acceptConnection, Continues
<1>7. CASE xferLoop
  <2>1. OnStream /\ pc = "transfer" /\ pc' \in {"transfer", "finish"}
        /\ UNCHANGED <<op, local>>
    <3>1. OnStream
      BY <1>7 DEF xferLoop, Place, Commanding, Closing, Reading
    <3> QED
      BY <1>7, <3>1, LoopTurns
  <2>2. Holds /\ ~ NoFile' /\ ~ Done'
    BY <2>1, NamesApart DEF Holds, OnStream, NoFile, Done
  <2>3. op.name # "access"
    BY <2>1, NamesApart DEF OnStream
  <2> QED
    BY <2>1, <2>2, <2>3 DEF Files
<1>8. CASE xferFinish
  <2>1. OnStream /\ pc = "finish" /\ pc' = "close" /\ UNCHANGED <<op, rv>>
    BY <1>8 DEF xferFinish, Place, Commanding, Closing, Reading
  <2>2. Holds /\ ~ NoFile' /\ op.name # "access" /\ op.typ = op.name
    BY <2>1, NamesApart DEF Holds, OnStream, NoFile
  <2>3. local # "kept" /\ local \in {"none", "open", "kept", "std"}
    BY <2>1, <2>2 DEF Files
  <2>4. /\ local' \in {"none", "kept", "std"}
        /\ local' = "kept" /\ op.name = "get" => rv = 1
    BY <1>8, <2>2, <2>3 DEF xferFinish
  <2>5. ~ Holds'
    BY <1>8, <2>1 DEF xferFinish, OnStream, Holds
  <2> QED
    BY <2>1, <2>2, <2>4, <2>5 DEF Files
<1>9. CASE closeFtpClient
  <2>1. UNCHANGED <<op, todo, local, rv>> /\ pc = "close" /\ pc' \in {"read", "closed"}
    BY <1>9 DEF closeFtpClient
  <2>2. (Holds' => Holds) /\ (Done' => Done)
    BY <2>1 DEF Holds, Done
  <2> QED
    BY <2>1, <2>2, FilesKept
<1>10. CASE CloseEnds
  <2>1. pc = "closed"
    BY <1>10 DEF CloseEnds
  <2>2. CASE todo # <<>> /\ AccessFails
    <3>1. OnAccess
      BY <2>1, <2>2 DEF Place, OnStream, OnClose, Commanding, Closing, Reading
    <3> QED
      BY <2>1, <2>2, <3>1, AccessFailsFiles
  <2>3. CASE /\ todo = <<>> /\ UNCHANGED local
             /\ Return(IF op.name = "close" THEN matched ELSE rv = 1)
    <3>1. OnStream \/ OnClose
      <4>1. ~ OnAccess
        BY <2>3, AccessHead DEF OnAccess
      <4> QED
        BY <2>1, <4>1 DEF Place, Commanding, Closing, Reading
    <3>2. (IF op.name = "close" THEN matched ELSE rv = 1) \in BOOLEAN
      BY DEF Types
    <3>3. CASE OnStream
      <4>1. Done /\ op.name # "close"
        BY <2>1, <3>3, NamesApart DEF OnStream, Done
      <4>2. local # "open" /\ (local = "kept" /\ op.name = "get" => rv = 1)
        BY <2>1, <4>1 DEF Files
      <4> QED
        BY <2>3, <3>2, <4>1, <4>2, ReturnFiles
    <3>4. CASE OnClose
      <4>1. local # "open" /\ op.name = "close"
        BY <2>1, <3>4 DEF Files, OnClose, NoFile
      <4> QED
        BY <2>3, <3>2, <4>1, ReturnFiles
    <3> QED
      BY <3>1, <3>3, <3>4
  <2> QED
    BY <1>10, <2>2, <2>3 DEF CloseEnds
<1> QED
  BY <1>1, <1>2, <1>3, <1>4, <1>5, <1>6, <1>7, <1>8, <1>9, <1>10 DEF Client

\* Every step.
LEMMA FilesStep ==
    ASSUME Shape, Files, [Next]_vars
    PROVE  Files'
<1>1. CASE Client
  BY <1>1, FilesClient
<1>2. CASE connectFtpClient
  <2>1. local' = "none" /\ ret' = NoRet /\ (pc' # "idle" => op'.name = "connect")
    BY <1>2 DEF connectFtpClient, NoOp
  <2> QED
    BY <2>1, ResultIs, NamesApart DEF Files, Holds, Done
<1>3. ASSUME NEW name, NEW n, StartScript(name, n)
      PROVE  Files'
  <2>1. local' = "none"
    BY <1>3 DEF StartScript
  <2>2. name \in ScriptOps /\ pc = "idle"
    BY <1>3 DEF StartScript, Between
  <2>3. pc' # "idle" => op'.name = name
    BY <1>3, <2>2 DEF StartScript, NoOp
  <2> QED
    BY <2>1, <2>2, <2>3, NamesApart DEF Files, Holds, Done
<1>4. ASSUME NEW name \in TransferOps \cup {"access"}, NEW typ \in TransferOps,
             NEW ascii, NEW n, StartAccess(name, typ, ascii, n)
      PROVE  Files'
  <2>1. PICK file \in IF name = "access" THEN {"none"} ELSE {"open", "std", "fails"} :
          IF file = "fails" \/ (n = 0 /\ typ \in {"get", "put"})
            THEN /\ ret' = Result(name, FALSE)
                 /\ local' = IF file = "open" /\ typ = "put" THEN "kept" ELSE "none"
                 /\ UNCHANGED <<pc, op, todo>>
            ELSE /\ local' = file /\ pc' = "send"
                 /\ op' = [name |-> name, typ |-> typ, ascii |-> ascii]
                 /\ todo' = accessScript(typ, n, ctl.cmode)
    BY <1>4 DEF StartAccess
  <2>2. pc = "idle" /\ (name = "access" \/ name = typ)
    BY <1>4 DEF StartAccess, Between
  <2>3. CASE /\ ret' = Result(name, FALSE) /\ UNCHANGED pc
             /\ local' = IF file = "open" /\ typ = "put" THEN "kept" ELSE "none"
    <3>1. ret'.name = "get" => name = "get"
      BY <2>3, ResultIs
    <3>2. name = "get" => local' = "none"
      BY <2>2, <2>3
    <3> QED
      BY <2>2, <2>3, <3>1, <3>2 DEF Files
  <2>4. CASE /\ local' = file /\ pc' = "send" /\ file # "fails"
             /\ op' = [name |-> name, typ |-> typ, ascii |-> ascii]
             /\ todo' = accessScript(typ, n, ctl.cmode)
    <3>1. todo' # <<>>
      BY <2>4 DEF accessScript
    <3>2. op'.name = name /\ ~ Done' /\ local' # "kept"
      BY <2>1, <2>4, <3>1 DEF Done
    <3>3. NoFile' => local' # "open" /\ (name = "access" => local' = "none")
      <4>1. CASE name = "access"
        BY <2>1, <2>4, <4>1
      <4>2. CASE name # "access"
        <5>1. name \in TransferOps
          BY <1>4, <4>2
        <5>2. name \notin ScriptOps \cup {"connect", "close"}
          BY <5>1, NamesApart
        <5> QED
          BY <3>2, <5>2 DEF NoFile
      <4> QED
        BY <4>1, <4>2
    <3> QED
      BY <2>1, <2>4, <3>2, <3>3 DEF Files
  <2> QED
    BY <2>1, <2>3, <2>4
<1>5. CASE StartClose
  <2>1. UNCHANGED <<todo, local>> /\ pc = "idle" /\ pc' = "close" /\ op'.name = "close"
    BY <1>5 DEF StartClose, Streaming, NoOp
  <2> QED
    BY <2>1, NamesApart DEF Files, Holds, Done
<1>6. ASSUME UNCHANGED <<pc, op, todo, local, ret, rv>>
      PROVE  Files'
  BY <1>6 DEF Files, NoFile, Holds, Done
<1>7. CASE readFtpClient \/ writeFtpClient \/ Server \/ LinkBreaks \/ UNCHANGED vars
  <2>1. UNCHANGED <<pc, op, todo, local, ret, rv>>
    BY <1>7 DEF readFtpClient, writeFtpClient, locals, Server, ServerReplies, ServerBegins,
       ServerDials, ServerEnds, ServerMoves, ServerFinishes, LinkBreaks, vars, clientVars
  <2> QED
    BY <1>6, <2>1
<1>8. ASSUME NEW on, setCallbackFtpClient(on) \/ setOptionsFtpClient(on)
      PROVE  Files'
  BY <1>6, <1>8 DEF setCallbackFtpClient, setOptionsFtpClient, locals
<1> QED
  BY <1>1, <1>2, <1>3, <1>4, <1>5, <1>7, <1>8 DEF Next, Application

\* LocalFileKept (FtpClient.c:295): a get that fails leaves no file, and no call
\* leaves its file open.
THEOREM FailedGetLeavesNoFile == Spec => []LocalFileKept
<1>1. Init => Shape /\ Files
  BY ShapeInit, FilesInit
<1>2. Shape /\ Files /\ [Next]_vars => Shape' /\ Files'
  BY ShapeStep, FilesStep
<1>3. Files => LocalFileKept
  BY DEF Files, LocalFileKept
<1> QED
  BY <1>1, <1>2, <1>3, PTL DEF Spec

-----------------------------------------------------------------------------
(* What a put loses.                                                         *)

\* The data connection has the type and the callback of its call, and a put that
\* is to report success lost only what a callback, or select, stopped.
Puts ==
    /\ data.live /\ pc # "idle" /\ InAccess => data.ascii = op.ascii /\ data.cb = ctl.cb
    /\ pc # "idle" /\ op.name = "put" /\ rv = 1 /\ flow.lost => op.ascii /\ ctl.cb

\* Nothing is lost at the start.
LEMMA PutsInit == Init => Puts
BY DEF Init, Puts, NoData

\* Steps of a running call that lose nothing.
LEMMA PutsKept ==
    ASSUME Puts, pc # "idle" \/ pc' = "idle", data'.live => UNCHANGED data,
           op' = op \/ pc' = "idle", ctl'.cb = ctl.cb \/ pc' = "idle",
           pc' # "idle" => rv' = rv \/ rv' = 0, pc' # "idle" => (flow'.lost => flow.lost)
    PROVE  Puts'
<1>1. CASE pc' = "idle"
  BY <1>1 DEF Puts
<1>2. CASE pc' # "idle"
  <2>1. InAccess' = InAccess
    BY <1>2 DEF InAccess
  <2> QED
    BY <1>2, <2>1 DEF Puts
<1> QED
  BY <1>1, <1>2

\* The caller's steps.
LEMMA PutsClient ==
    ASSUME Shape, flow \in FlowType, Puts, Client
    PROVE  Puts'
<1> USE DEF Shape
<1>1. CASE SendCommand
  BY <1>1, PutsKept DEF SendCommand
<1>2. CASE ReadResponse
  <2>1. ctl'.cb = ctl.cb
    BY <1>2 DEF ReadResponse, Types
  <2> QED
    BY <1>2, <2>1, PutsKept DEF ReadResponse
<1>3. CASE ContinueScript \/ QuitEnds \/ ConnectEnds
  BY <1>3, PutsKept DEF ContinueScript, QuitEnds, ConnectEnds, Return
<1>4. CASE TypeReplied \/ openPort
  BY <1>4, PutsKept DEF TypeReplied, openPort, AccessFails, Continues, Return
<1>5. CASE PortReplied
  <2>1. CASE AccessFails
    BY <1>5, <2>1, PutsKept DEF PortReplied, AccessFails, Return
  <2>2. CASE /\ pc' = "send" /\ Continues /\ UNCHANGED ctl
             /\ data' = [live |-> TRUE, dir |-> Direction(op.typ), ascii |-> op.ascii, cb |-> ctl.cb]
             /\ flow' = flow \/ flow' = [flow EXCEPT !.conn = "open"]
    <3>1. data'.ascii = op'.ascii /\ data'.cb = ctl'.cb
      BY <2>2 DEF Continues
    <3>2. flow'.lost = flow.lost /\ UNCHANGED <<op, rv, ctl>> /\ pc # "idle"
      BY <1>5, <2>2 DEF FlowType, Continues, PortReplied
    <3> QED
      BY <3>1, <3>2 DEF Puts
  <2> QED
    BY <1>5, <2>1, <2>2 DEF PortReplied
<1>6. CASE TransferReplied \/ acceptConnection
  <2>1. ctl'.cb = ctl.cb
    BY <1>6 DEF TransferReplied, acceptConnection, Types
  <2>2. flow'.lost = flow.lost
    BY <1>6 DEF TransferReplied, acceptConnection, FlowType
  <2>3. /\ pc # "idle" /\ UNCHANGED data
        /\ UNCHANGED <<op, rv>> \/ pc' = "idle" \/ (UNCHANGED op /\ rv' = 0)
    BY <1>6 DEF TransferReplied, acceptConnection, AccessSucceeds, Continues, Return
  <2> QED
    BY <2>1, <2>2, <2>3, PutsKept
<1>7. CASE xferLoop
  <2>1. OnStream /\ data.live /\ pc = "transfer"
    BY <1>7 DEF xferLoop, Place, Commanding, Closing, Reading
  <2>2. /\ UNCHANGED <<op, data>> /\ pc' # "idle" /\ (rv' = rv \/ rv' = 0)
        /\ ctl'.cb = ctl.cb
    BY <1>7, LoopTurns, TextedKeeps
  <2>3. data.ascii = op.ascii /\ data.cb = ctl.cb
    BY <2>1 DEF Puts, OnStream, InAccess
  <2>4. CASE flow'.lost => flow.lost
    BY <2>1, <2>2, <2>4, PutsKept
  <2>5. CASE rv' = 0
    <3>1. InAccess' = InAccess
      BY <2>2 DEF InAccess
    <3> QED
      BY <2>1, <2>2, <2>5, <3>1 DEF Puts
  <2>6. CASE data.ascii /\ data.cb
    <3>1. InAccess' = InAccess
      BY <2>2 DEF InAccess
    <3> QED
      BY <2>1, <2>2, <2>3, <2>6, <3>1 DEF Puts
  <2>7. ASSUME NEW rest, rest = [flow EXCEPT !.left = @ - 1], WritesBlock(rest)
        PROVE  (flow'.lost => flow.lost) \/ (data.ascii /\ data.cb)
    <3>1. rest.lost = flow.lost
      BY <2>7 DEF FlowType
    <3>2. CASE flow' = [rest EXCEPT !.pipe = @ + 1]
      <4>1. flow'.lost = rest.lost
        BY <2>7, <3>2 DEF FlowType
      <4> QED
        BY <3>1, <4>1
    <3>3. CASE data.ascii /\ Stops
      BY <3>3 DEF Stops, SelectFails
    <3> QED
      BY <2>7, <3>2, <3>3 DEF WritesBlock
  <2>8. ReadsBlock \/ ReadsNothing => (flow'.lost => flow.lost)
    BY DEF ReadsBlock, ReadsNothing, FlowType
  <2>9. xferSend => (flow'.lost => flow.lost) \/ (data.ascii /\ data.cb) \/ rv' = 0
    BY <2>7 DEF xferSend
  <2>10. xferReceive => (flow'.lost => flow.lost)
    BY <2>8 DEF xferReceive
  <2> QED
    BY <1>7, <2>4, <2>5, <2>6, <2>9, <2>10 DEF xferLoop
<1>8. CASE xferFinish
  BY <1>8, PutsKept DEF xferFinish
<1>9. CASE closeFtpClient
  <2>1. flow'.lost = flow.lost /\ ~ data'.live
    BY <1>9 DEF closeFtpClient, NoData, FlowType
  <2> QED
    BY <1>9, <2>1, PutsKept DEF closeFtpClient
<1>10. CASE CloseEnds
  BY <1>10, PutsKept DEF CloseEnds, AccessFails, Return
<1> QED
  BY <1>1, <1>2, <1>3, <1>4, <1>5, <1>6, <1>7, <1>8, <1>9, <1>10 DEF Client

\* Every step.
LEMMA PutsStep ==
    ASSUME Shape, flow \in FlowType, Puts, [Next]_vars
    PROVE  Puts'
<1> USE DEF Shape
<1>1. CASE Client
  BY <1>1, PutsClient
<1>2. CASE connectFtpClient
  <2>1. ~ data'.live /\ (pc' = "idle" \/ op'.name = "connect")
    BY <1>2 DEF connectFtpClient, Place, Commanding, Closing, Reading, NoOp
  <2> QED
    BY <2>1 DEF Puts
<1>3. ASSUME NEW name, NEW n, StartScript(name, n)
      PROVE  Puts'
  <2>1. ~ data'.live /\ name \in ScriptOps /\ (pc' = "idle" \/ op'.name = name)
    BY <1>3 DEF StartScript, Between, NoOp
  <2>2. name # "put"
    BY <2>1, ScriptNames
  <2> QED
    BY <2>1, <2>2 DEF Puts
<1>4. ASSUME NEW name, NEW typ, NEW ascii, NEW n, StartAccess(name, typ, ascii, n)
      PROVE  Puts'
  <2>1. ~ data'.live /\ pc = "idle"
    BY <1>4 DEF StartAccess, Between
  <2>2. pc' = "idle" \/ \E blocks \in 0 .. FileBlocks : flow' = [NoFlow EXCEPT !.left = blocks]
    BY <1>4, <2>1 DEF StartAccess
  <2>3. pc' = "idle" \/ ~ flow'.lost
    BY <2>2 DEF NoFlow
  <2> QED
    BY <2>1, <2>3 DEF Puts
<1>5. CASE StartClose
  <2>1. op'.name = "close"
    BY <1>5 DEF StartClose, NoOp
  <2>2. ~ InAccess'
    BY <2>1, NamesApart DEF InAccess
  <2> QED
    BY <2>1, <2>2 DEF Puts
<1>6. CASE readFtpClient \/ writeFtpClient
  <2>1. pc' = "idle"
    BY <1>6 DEF readFtpClient, writeFtpClient, Streaming
  <2> QED
    BY <2>1 DEF Puts
<1>7. ASSUME NEW on, setCallbackFtpClient(on) \/ setOptionsFtpClient(on)
      PROVE  Puts'
  BY <1>7 DEF setCallbackFtpClient, setOptionsFtpClient, Puts
<1>8. CASE Server \/ LinkBreaks \/ UNCHANGED vars
  <2>1. UNCHANGED <<pc, op, data, ctl, rv>>
    BY <1>8 DEF Server, ServerReplies, ServerBegins, ServerDials, ServerEnds, ServerMoves,
       ServerFinishes, LinkBreaks, vars, clientVars
  <2>2. flow'.lost = flow.lost
    BY <1>8 DEF Server, ServerReplies, ServerBegins, ServerDials, ServerEnds, ServerMoves,
       ServerFinishes, LinkBreaks, vars, FlowType
  <2>3. InAccess' = InAccess
    BY <2>1 DEF InAccess
  <2> QED
    BY <2>1, <2>2, <2>3 DEF Puts
<1> QED
  BY <1>1, <1>2, <1>3, <1>4, <1>5, <1>6, <1>7, <1>8 DEF Next, Application

-----------------------------------------------------------------------------
(* The inductive invariant, and what follows from all of it.                 *)

IInv == Shape /\ Exchange /\ Sockets /\ Files /\ Puts

\* The parts are kept together, whatever the step.
LEMMA Inductive == Spec => []IInv
<1>1. Init => IInv
  BY ShapeInit, ExchangeInit, SocketsInit, FilesInit, PutsInit DEF IInv
<1>2. IInv /\ [Next]_vars => IInv'
  BY ShapeStep, ExchangeStep, SocketsStep, FilesStep, PutsStep DEF IInv, Exchange
<1> QED
  BY <1>1, <1>2, PTL DEF Spec

\* TypeOK: no buffer of the data connection holds more than the file, and every
\* variable has its type.
THEOREM TypesKept == Spec => []TypeOK
<1>1. IInv => TypeOK
  <2> SUFFICES ASSUME IInv PROVE TypeOK
    OBVIOUS
  <2>1. Types /\ Place /\ flow \in FlowType
    BY DEF IInv, Shape, Exchange
  <2>2. /\ pc \in {"idle", "send", "read", "skip", "replied", "openPort", "accept", "transfer",
                   "finish", "close", "closed"}
        /\ rv \in {0, 1}
    BY <2>1 DEF Place, Commanding, Closing, Reading
  <2>3. socks \subseteq {"control", "listen", "data", "lost"}
    BY DEF IInv, Sockets
  <2>4. local \in {"none", "open", "kept", "std"}
    BY DEF IInv, Files
  <2>5. srv.st \in {"idle", "asked", "dial", "serve"}
    BY <2>1 DEF Types, States, SrvType
  <2> QED
    BY <2>1, <2>2, <2>3, <2>4, <2>5 DEF Types, TypeOK, FlowType
<1> QED
  BY <1>1, Inductive, PTL

\* PutLosesStoppedOnly (FtpClient.c:336, :574): whichever step fails, a put
\* reports success only when every block it had read was handed to the connection,
\* or else it was an ASCII put with a callback.
THEOREM PutsAreWhole == Spec => PutLosesStoppedOnly
<1>1. ASSUME IInv, [Next]_vars, PutSucceeds, flow.lost
      PROVE  op.ascii /\ ctl.cb
  <2> USE DEF PutSucceeds
  <2>1. CloseEnds
    BY <1>1 DEF Next, Application, Client, Server, connectFtpClient, StartScript, StartAccess,
       Between, readFtpClient, writeFtpClient, Streaming, StartClose, setCallbackFtpClient,
       setOptionsFtpClient, SendCommand, ReadResponse, ContinueScript, QuitEnds, ConnectEnds,
       TypeReplied, openPort, PortReplied, TransferReplied, acceptConnection, xferLoop,
       xferFinish, closeFtpClient, ServerReplies, ServerBegins, ServerDials, ServerEnds,
       ServerMoves, ServerFinishes, LinkBreaks, vars, clientVars
  <2>2. ASSUME NEW ok, ret' = Result(op.name, ok)
        PROVE  op.name = "put" /\ ok
    BY <1>1, <2>2 DEF Result, NoRet
  <2>3. op.name = "put" /\ rv = 1
    <3>1. ~ AccessFails
      BY <2>2 DEF AccessFails, Return
    <3>2. ret' = Result(op.name, IF op.name = "close" THEN matched ELSE rv = 1)
      BY <2>1, <3>1 DEF CloseEnds, Return
    <3> QED
      BY <2>2, <3>2
  <2> QED
    BY <1>1, <2>3 DEF IInv, Puts
<1>2. IInv /\ [Next]_vars => [PutSucceeds /\ flow.lost => op.ascii /\ ctl.cb]_vars
  BY <1>1
<1> QED
  BY <1>2, Inductive, PTL DEF Spec, PutLosesStoppedOnly
=============================================================================
