---------------------------- MODULE WiFi_proofs ----------------------------
(***************************************************************************)
(* Theorems about WiFi for every set of stations, every choice of calls    *)
(* and event queues of any length.                                         *)
(***************************************************************************)
EXTENDS WiFi, SequenceTheorems, TLAPS

-----------------------------------------------------------------------------
(* The order of the steps of a call.                                        *)

StepNames ==
    {"construct", "configure", "destroyFlags", "unregister", "shutdown",
     "checkConnected", "ensureReady", "resetConnected", "join",
     "stopFlags", "stopLink", "stopAp", "destroyAp", "endFacade",
     "makeAp", "dropOldAp", "scan"}

\* Step b may come directly after step a.
Follow(a, b) ==
    \/ a = "construct" /\ b = "configure"
    \/ a = "configure" /\ b = "destroyFlags"
    \/ a = "destroyFlags" /\ b = "unregister"
    \/ a = "unregister" /\ b = "shutdown"
    \/ a = "shutdown" /\ b \in {"checkConnected", "stopAp"}
    \/ a = "checkConnected" /\ b = "ensureReady"
    \/ a = "ensureReady" /\ b = "resetConnected"
    \/ a = "resetConnected" /\ b = "join"
    \/ a = "stopFlags" /\ b = "stopLink"
    \/ a = "stopLink" /\ b = "destroyFlags"
    \/ a = "stopAp" /\ b = "destroyAp"
    \/ a = "destroyAp" /\ b = "endFacade"
    \/ a = "makeAp" /\ b = "dropOldAp"

Last(t) == t[Len(t)]
Finals == {"shutdown", "join", "endFacade", "dropOldAp", "destroyAp", "scan"}

\* end comes to its last step once it has stopped the station, and connect
\* does not turn into end.
KeepsEnd(t) ==
    \A i \in 1 .. Len(t) :
        /\ t[i] \in {"stopFlags", "stopLink"} => Last(t) = "endFacade"
        /\ t[i] = "checkConnected" => Last(t) = "join"

Plan(t) ==
    /\ t \in Seq(StepNames)
    /\ \A i \in 1 .. Len(t) - 1 : Follow(t[i], t[i + 1])
    /\ t # <<>> => Last(t) \in Finals
    /\ KeepsEnd(t)

\* What is left of a plan is a plan, and goes on with a step that may follow.
LEMMA TailPlan ==
    ASSUME NEW t, Plan(t), t # <<>>
    PROVE  /\ Plan(Tail(t)) /\ Head(t) \in StepNames
           /\ Tail(t) = <<>> => Head(t) = Last(t)
           /\ Tail(t) # <<>> => Follow(Head(t), Head(Tail(t))) /\ Last(Tail(t)) = Last(t)
<1>1. t \in Seq(StepNames) /\ Len(t) \in Nat /\ Len(t) > 0
  BY EmptySeq DEF Plan
<1>2. /\ Tail(t) \in Seq(StepNames) /\ Len(Tail(t)) = Len(t) - 1
      /\ \A i \in 1 .. Len(t) - 1 : Tail(t)[i] = t[i + 1]
      /\ Head(t) = t[1] /\ Head(t) \in StepNames
  BY <1>1, HeadTailProperties
<1>3. Tail(t) = <<>> <=> Len(t) = 1
  BY <1>1, <1>2, EmptySeq
<1>4. Tail(t) # <<>> => Head(Tail(t)) = t[2] /\ Last(Tail(t)) = Last(t)
  BY <1>1, <1>2, <1>3 DEF Last
<1>5. \A i \in 1 .. Len(Tail(t)) - 1 : Follow(Tail(t)[i], Tail(t)[i + 1])
  BY <1>1, <1>2 DEF Plan
<1>6. ASSUME NEW i \in 1 .. Len(Tail(t))
      PROVE  /\ Tail(t)[i] \in {"stopFlags", "stopLink"} => Last(Tail(t)) = "endFacade"
             /\ Tail(t)[i] = "checkConnected" => Last(Tail(t)) = "join"
  <2>1. i + 1 \in 1 .. Len(t) /\ Tail(t)[i] = t[i + 1] /\ Tail(t) # <<>>
    BY <1>1, <1>2, <1>3
  <2> QED
    BY <2>1, <1>4 DEF Plan, KeepsEnd
<1>7. Tail(t) # <<>> => Follow(Head(t), Head(Tail(t)))
  BY <1>1, <1>2, <1>3, <1>4 DEF Plan
<1>8. Plan(Tail(t))
  BY <1>2, <1>4, <1>5, <1>6 DEF Plan, KeepsEnd
<1>9. Tail(t) = <<>> => Head(t) = Last(t)
  BY <1>2, <1>3 DEF Last
<1> QED
  BY <1>2, <1>4, <1>7, <1>8, <1>9

\* Two plans make one when the second may follow the first.
LEMMA JoinPlans ==
    ASSUME NEW t \in Seq(StepNames), NEW u, Plan(u), u # <<>>, t # <<>>,
           \A i \in 1 .. Len(t) - 1 : Follow(t[i], t[i + 1]),
           Follow(Last(t), Head(u)),
           \A i \in 1 .. Len(t) :
               /\ t[i] \in {"stopFlags", "stopLink"} => Last(u) = "endFacade"
               /\ t[i] = "checkConnected" => Last(u) = "join"
    PROVE  Plan(t \o u) /\ t \o u # <<>>
<1>1. /\ u \in Seq(StepNames) /\ Len(t) \in Nat /\ Len(u) \in Nat
      /\ Len(t) > 0 /\ Len(u) > 0
  BY EmptySeq DEF Plan
<1>2. /\ t \o u \in Seq(StepNames) /\ Len(t \o u) = Len(t) + Len(u)
      /\ \A i \in 1 .. Len(t) : (t \o u)[i] = t[i]
      /\ \A i \in 1 .. Len(u) : (t \o u)[Len(t) + i] = u[i]
  BY <1>1, ConcatProperties
<1>3. Last(t \o u) = Last(u)
  BY <1>1, <1>2 DEF Last
<1>4. ASSUME NEW i \in 1 .. Len(t \o u) - 1
      PROVE  Follow((t \o u)[i], (t \o u)[i + 1])
  <2>1. CASE i < Len(t)
    BY <1>1, <1>2, <2>1
  <2>2. CASE i = Len(t)
    <3>1. (t \o u)[i] = Last(t) /\ (t \o u)[i + 1] = Head(u)
      BY <1>1, <1>2, <2>2 DEF Last
    <3> QED
      BY <3>1
  <2>3. CASE i > Len(t)
    <3> DEFINE j == i - Len(t)
    <3>1. /\ j \in 1 .. Len(u) - 1 /\ i = Len(t) + j /\ i + 1 = Len(t) + (j + 1)
          /\ j \in 1 .. Len(u) /\ j + 1 \in 1 .. Len(u)
      BY <1>1, <1>2, <2>3
    <3>2. (t \o u)[i] = u[j] /\ (t \o u)[i + 1] = u[j + 1]
      <4> HIDE DEF j
      <4> QED
        BY <1>2, <3>1
    <3> QED
      BY <3>2, <3>1 DEF Plan
  <2> QED
    BY <1>1, <1>2, <2>1, <2>2, <2>3
<1>5. ASSUME NEW i \in 1 .. Len(t \o u)
      PROVE  \/ \E j \in 1 .. Len(t) : (t \o u)[i] = t[j]
             \/ \E j \in 1 .. Len(u) : (t \o u)[i] = u[j]
  <2>1. CASE i <= Len(t)
    BY <1>1, <1>2, <2>1
  <2>2. CASE i > Len(t)
    <3> DEFINE j == i - Len(t)
    <3>1. j \in 1 .. Len(u) /\ i = Len(t) + j
      BY <1>1, <1>2, <2>2
    <3> HIDE DEF j
    <3> QED
      BY <1>2, <3>1
  <2> QED
    BY <1>1, <1>2, <2>1, <2>2
<1>6. KeepsEnd(t \o u)
  BY <1>3, <1>5 DEF Plan, KeepsEnd
<1>7. t \o u # <<>>
  BY <1>1, <1>2, EmptySeq
<1> QED
  BY <1>2, <1>3, <1>4, <1>6, <1>7 DEF Plan

\* A short plan written out.
LEMMA ConnectPlan == Plan(Connect) /\ Connect # <<>> /\ Head(Connect) = "checkConnected"
                     /\ Last(Connect) = "join"
  BY DEF Connect, Plan, KeepsEnd, Last, Follow, Finals, StepNames

\* The destructor's steps are a plan.
LEMMA DestroyPlan == Plan(Destroy) /\ Destroy # <<>> /\ Head(Destroy) = "destroyFlags"
                     /\ Last(Destroy) = "shutdown" /\ Len(Destroy) = 3
  BY DEF Destroy, Plan, KeepsEnd, Last, Follow, Finals, StepNames

\* ~WifiSta and what comes after it.
LEMMA DestroyThen ==
    ASSUME NEW u, Plan(u), u # <<>>, Head(u) \in {"checkConnected", "stopAp"}
    PROVE  Plan(Destroy \o u) /\ Destroy \o u # <<>> /\ Head(Destroy \o u) = "destroyFlags"
           /\ Last(Destroy \o u) = Last(u)
<1>1. /\ Destroy \in Seq(StepNames) /\ Len(Destroy) = 3
      /\ Destroy[1] = "destroyFlags" /\ Destroy[2] = "unregister" /\ Destroy[3] = "shutdown"
  BY DEF Destroy, StepNames
<1>2. Plan(Destroy \o u) /\ Destroy \o u # <<>>
  <2>1. \A i \in 1 .. 2 : Follow(Destroy[i], Destroy[i + 1])
    BY <1>1 DEF Follow
  <2>2. Follow(Last(Destroy), Head(u))
    BY <1>1 DEF Follow, Last
  <2>3. \A i \in 1 .. 3 : Destroy[i] \notin {"stopFlags", "stopLink", "checkConnected"}
    BY <1>1
  <2> QED
    BY <1>1, <2>1, <2>2, <2>3, JoinPlans, DestroyPlan
<1>3. u \in Seq(StepNames) /\ Len(u) \in Nat \ {0}
  BY EmptySeq DEF Plan
<1>4. /\ Len(Destroy \o u) = 3 + Len(u)
      /\ \A i \in 1 .. 3 + Len(u) :
            (Destroy \o u)[i] = IF i <= 3 THEN Destroy[i] ELSE u[i - 3]
  <2>1. /\ Len(Destroy \o u) = Len(Destroy) + Len(u)
        /\ \A i \in 1 .. Len(Destroy) + Len(u) :
              (Destroy \o u)[i] =
                  IF i <= Len(Destroy) THEN Destroy[i] ELSE u[i - Len(Destroy)]
    BY <1>1, <1>3, ConcatProperties, Zenon
  <2> QED
    BY <1>1, <2>1
<1>5. /\ 1 \in 1 .. 3 + Len(u) /\ 3 + Len(u) \in 1 .. 3 + Len(u)
      /\ ~ (3 + Len(u) <= 3) /\ (3 + Len(u)) - 3 = Len(u) /\ 1 <= 3
  BY <1>3
<1>6. (Destroy \o u)[1] = "destroyFlags" /\ (Destroy \o u)[3 + Len(u)] = u[Len(u)]
  BY <1>1, <1>4, <1>5
<1> QED
  BY <1>2, <1>4, <1>6 DEF Last

\* Two steps in front of a plan.
LEMMA TwoThen ==
    ASSUME NEW a \in StepNames, NEW b \in StepNames, NEW u, Plan(u), u # <<>>,
           Follow(a, b), Follow(b, Head(u)),
           a # "checkConnected", b # "checkConnected",
           {a, b} \cap {"stopFlags", "stopLink"} # {} => Last(u) = "endFacade"
    PROVE  Plan(<<a, b>> \o u) /\ <<a, b>> \o u # <<>> /\ Head(<<a, b>> \o u) = a
<1> DEFINE t == <<a, b>>
<1>1. /\ t \in Seq(StepNames) /\ Len(t) = 2 /\ t[1] = a /\ t[2] = b /\ t # <<>>
  OBVIOUS
<1> HIDE DEF t
<1>2. \A i \in 1 .. Len(t) - 1 : Follow(t[i], t[i + 1])
  BY <1>1
<1>3. Last(t) = b /\ \A i \in 1 .. Len(t) : t[i] \in {a, b}
  BY <1>1 DEF Last
<1> QED
  <2>1. Plan(t \o u) /\ t \o u # <<>>
    BY <1>1, <1>2, <1>3, JoinPlans
  <2>2. u \in Seq(StepNames) /\ Len(u) \in Nat
    BY EmptySeq DEF Plan
  <2>3. Head(t \o u) = a
    BY <1>1, <2>2, ConcatProperties
  <2> QED
    BY <2>1, <2>3 DEF t

\* Every call has a plan, which starts at the beginning of a step.
Starts == {"construct", "checkConnected", "stopFlags", "makeAp", "stopAp", "scan"}
Starting(t) == Plan(t) /\ t # <<>> /\ Head(t) \in Starts

\* begin is a plan, with connect after it or not.
LEMMA BeginPlan == Starting(Begin) /\ Starting(Begin \o Connect)
<1>1. Starting(Begin)
  BY DestroyPlan, TwoThen DEF Begin, StepNames, Follow, Starting, Starts
<1>2. /\ Plan(Destroy \o Connect) /\ Destroy \o Connect # <<>>
      /\ Head(Destroy \o Connect) = "destroyFlags"
  BY ConnectPlan, DestroyThen
<1>3. <<"construct", "configure">> \in Seq(StepNames)
  BY DEF StepNames
<1>4. Begin \o Connect = <<"construct", "configure">> \o (Destroy \o Connect)
  BY <1>3, ConnectPlan, DestroyPlan, ConcatAssociative DEF Begin, Plan
<1>5. /\ Follow("construct", "configure") /\ Follow("configure", "destroyFlags")
      /\ "construct" \in StepNames /\ "configure" \in StepNames
  BY DEF StepNames, Follow
<1>6. \A d : /\ Plan(d) /\ d # <<>> /\ Head(d) = "destroyFlags"
             => /\ Plan(<<"construct", "configure">> \o d)
                /\ <<"construct", "configure">> \o d # <<>>
                /\ Head(<<"construct", "configure">> \o d) = "construct"
  BY <1>5, TwoThen
<1>7. Plan(Begin \o Connect) /\ Begin \o Connect # <<>> /\ Head(Begin \o Connect) = "construct"
  <2> HIDE DEF Connect
  <2> QED
    BY <1>2, <1>4, <1>6, Zenon
<1> QED
  BY <1>1, <1>7 DEF Starting, Starts

\* end is a plan: the station first, then the access point, then the flag.
LEMMA EndPlan == Starting(Steps("end"))
<1> DEFINE u == <<"stopAp", "destroyAp", "endFacade">>
<1>1. Plan(u) /\ u # <<>> /\ Head(u) = "stopAp" /\ Last(u) = "endFacade"
  BY DEF Plan, KeepsEnd, Last, Follow, Finals, StepNames
<1>2. <<"stopFlags", "stopLink">> \in Seq(StepNames)
  BY DEF StepNames
<1>3. Steps("end") = (<<"stopFlags", "stopLink">> \o Destroy) \o u
  BY DEF Steps
<1> HIDE DEF u
<1>4. /\ Plan(Destroy \o u) /\ Destroy \o u # <<>>
      /\ Head(Destroy \o u) = "destroyFlags" /\ Last(Destroy \o u) = "endFacade"
  BY <1>1, DestroyThen
<1>5. Steps("end") = <<"stopFlags", "stopLink">> \o (Destroy \o u)
  <2>1. Destroy \in Seq(StepNames) /\ u \in Seq(StepNames)
    BY <1>1, DestroyPlan DEF Plan
  <2>2. (<<"stopFlags", "stopLink">> \o Destroy) \o u
          = <<"stopFlags", "stopLink">> \o (Destroy \o u)
    <3> DEFINE s == <<"stopFlags", "stopLink">>
    <3>1. s \in Seq(StepNames)
      BY <1>2
    <3> HIDE DEF s
    <3>2. (s \o Destroy) \o u = s \o (Destroy \o u)
      BY <3>1, <2>1, ConcatAssociative
    <3> QED
      BY <3>2 DEF s
  <2> QED
    BY <1>3, <2>2, Zenon
<1>6. /\ Follow("stopFlags", "stopLink") /\ Follow("stopLink", "destroyFlags")
      /\ "stopFlags" \in StepNames /\ "stopLink" \in StepNames
  BY DEF StepNames, Follow
<1>7. \A d : /\ Plan(d) /\ d # <<>> /\ Head(d) = "destroyFlags" /\ Last(d) = "endFacade"
             => /\ Plan(<<"stopFlags", "stopLink">> \o d)
                /\ <<"stopFlags", "stopLink">> \o d # <<>>
                /\ Head(<<"stopFlags", "stopLink">> \o d) = "stopFlags"
  BY <1>6, TwoThen
<1>8. Plan(Steps("end")) /\ Steps("end") # <<>> /\ Head(Steps("end")) = "stopFlags"
  BY <1>4, <1>5, <1>7, Zenon
<1> QED
  BY <1>8 DEF Starting, Starts

\* Every call of the application begins a plan.
LEMMA CallPlan == Call => Starting(todo')
<1>1. \A c \in Calls : Starting(Steps(c))
  <2>1. Steps("begin") = Begin \o Connect /\ Steps("connect") = Connect
    BY DEF Steps
  <2>2. /\ Steps("softAP") = <<"makeAp", "dropOldAp">>
        /\ Steps("softAPend") = <<"stopAp", "destroyAp">>
        /\ Steps("scanNetworks") = <<"scan">>
    BY DEF Steps
  <2>3. /\ Starting(<<"makeAp", "dropOldAp">>) /\ Starting(<<"stopAp", "destroyAp">>)
        /\ Starting(<<"scan">>)
    BY DEF Starting, Starts, Plan, KeepsEnd, Last, Follow, Finals, StepNames
  <2>4. Starting(Connect)
    BY ConnectPlan DEF Starting, Starts
  <2> QED
    BY <2>1, <2>2, <2>3, <2>4, BeginPlan, EndPlan, CallAssumption
<1> QED
  BY <1>1, BeginPlan DEF Call

-----------------------------------------------------------------------------
(* The driver: every call keeps the events that wait, and reports a link   *)
(* that it gives up.                                                        *)

Events == {"STA_START", "STA_DISCONNECTED", "STA_GOT_IP"}

Drivers ==
    {d \in [mode : {"STA", "AP", "APSTA"}, started : BOOLEAN,
            link : {"idle", "connecting", "up"}, events : Seq(Events)] :
       d.link # "idle" => d.started /\ d.mode # "AP"}

\* f is e with more events, none of them an address.
Longer(e, f) ==
    /\ Len(e) <= Len(f)
    /\ \A i \in 1 .. Len(e) : f[i] = e[i]
    /\ \A i \in Len(e) + 1 .. Len(f) : f[i] # "STA_GOT_IP"

Reported(e, f) == \E i \in Len(e) + 1 .. Len(f) : f[i] = "STA_DISCONNECTED"

Grows(d, e) ==
    /\ Longer(d.events, e.events)
    /\ d.link = "up" => e.link = "up" \/ Reported(d.events, e.events)

\* Growth after growth is growth.
LEMMA GrowsTransitive ==
    ASSUME NEW d \in Drivers, NEW e \in Drivers, NEW f \in Drivers,
           Grows(d, e), Grows(e, f)
    PROVE  Grows(d, f)
<1>1. /\ Len(d.events) \in Nat /\ Len(e.events) \in Nat /\ Len(f.events) \in Nat
      /\ Len(d.events) <= Len(e.events) /\ Len(e.events) <= Len(f.events)
  BY DEF Grows, Longer, Drivers
<1>2. ASSUME NEW i \in Len(d.events) + 1 .. Len(f.events)
      PROVE  \/ i \in Len(d.events) + 1 .. Len(e.events) /\ f.events[i] = e.events[i]
             \/ i \in Len(e.events) + 1 .. Len(f.events)
  BY <1>1 DEF Grows, Longer
<1>3. Longer(d.events, f.events)
  BY <1>1, <1>2 DEF Grows, Longer
<1>4. Reported(d.events, e.events) => Reported(d.events, f.events)
  BY <1>1 DEF Reported, Grows, Longer
<1>5. Reported(e.events, f.events) => Reported(d.events, f.events)
  BY <1>1 DEF Reported
<1> QED
  BY <1>3, <1>4, <1>5 DEF Grows

\* A call that appends nothing and leaves the link up grows nothing.
LEMMA GrowsReflexive ==
    ASSUME NEW d \in Drivers, NEW e \in Drivers, e.events = d.events,
           d.link = "up" => e.link = "up"
    PROVE  Grows(d, e)
  BY DEF Grows, Longer, Drivers

\* One event more.
LEMMA LongerByOne ==
    ASSUME NEW e \in Seq(Events), NEW v \in Events, v # "STA_GOT_IP"
    PROVE  /\ Append(e, v) \in Seq(Events) /\ Longer(e, Append(e, v))
           /\ v = "STA_DISCONNECTED" => Reported(e, Append(e, v))
<1>1. /\ Append(e, v) \in Seq(Events) /\ Len(Append(e, v)) = Len(e) + 1
      /\ \A i \in 1 .. Len(e) : Append(e, v)[i] = e[i]
      /\ Append(e, v)[Len(e) + 1] = v /\ Len(e) \in Nat
  BY AppendProperties
<1> QED
  BY <1>1 DEF Longer, Reported

\* A link that is given up is reported.
LEMMA DownGrows ==
    ASSUME NEW d \in Drivers
    PROVE  Down(d) \in Drivers /\ Grows(d, Down(d)) /\ Down(d).link = "idle"
           /\ Down(d).mode = d.mode /\ Down(d).started = d.started
<1>1. /\ Append(d.events, "STA_DISCONNECTED") \in Seq(Events)
      /\ Longer(d.events, Append(d.events, "STA_DISCONNECTED"))
      /\ Reported(d.events, Append(d.events, "STA_DISCONNECTED"))
  BY LongerByOne DEF Drivers, Events
<1>2. /\ Down(d) \in Drivers /\ Down(d).link = "idle"
      /\ Down(d).mode = d.mode /\ Down(d).started = d.started
      /\ Down(d).events = IF d.link = "idle" THEN d.events
                          ELSE Append(d.events, "STA_DISCONNECTED")
  BY <1>1 DEF Down, Drivers
<1>3. CASE d.link = "idle"
  BY <1>2, <1>3, GrowsReflexive
<1>4. CASE d.link # "idle"
  BY <1>1, <1>2, <1>4 DEF Grows
<1> QED
  BY <1>2, <1>3, <1>4

\* A call that at most announces a start.
LEMMA StartGrows ==
    ASSUME NEW d \in Drivers, NEW e \in Drivers,
           e.events \in {d.events, Append(d.events, "STA_START")}, e.link = d.link
    PROVE  Grows(d, e)
<1>1. Longer(d.events, Append(d.events, "STA_START"))
  BY LongerByOne DEF Drivers, Events
<1>2. CASE e.events = d.events
  BY <1>2, GrowsReflexive
<1>3. CASE e.events = Append(d.events, "STA_START")
  BY <1>1, <1>3 DEF Grows
<1> QED
  BY <1>2, <1>3

\* esp_wifi_start leaves the link alone.
LEMMA WifiStart ==
    ASSUME NEW d \in Drivers
    PROVE  esp_wifi_start(d) \in Drivers /\ Grows(d, esp_wifi_start(d))
<1>1. Append(d.events, "STA_START") \in Seq(Events)
  BY LongerByOne DEF Drivers, Events
<1>2. /\ esp_wifi_start(d) \in Drivers /\ esp_wifi_start(d).link = d.link
      /\ esp_wifi_start(d).events \in {d.events, Append(d.events, "STA_START")}
  BY <1>1 DEF esp_wifi_start, Drivers
<1> QED
  BY <1>2, StartGrows

\* esp_wifi_stop reports the link it drops.
LEMMA WifiStop ==
    ASSUME NEW d \in Drivers
    PROVE  esp_wifi_stop(d) \in Drivers /\ Grows(d, esp_wifi_stop(d))
<1>1. /\ esp_wifi_stop(d) \in Drivers /\ esp_wifi_stop(d).events = Down(d).events
      /\ esp_wifi_stop(d).link = Down(d).link
  BY DownGrows DEF esp_wifi_stop, Drivers
<1> QED
  BY <1>1, DownGrows, GrowsReflexive, GrowsTransitive

\* esp_wifi_disconnect reports the link it drops.
LEMMA WifiDisconnect ==
    ASSUME NEW d \in Drivers
    PROVE  esp_wifi_disconnect(d) \in Drivers /\ Grows(d, esp_wifi_disconnect(d))
  BY DownGrows DEF esp_wifi_disconnect

\* A change of the mode reports the link that it drops.
LEMMA WifiSetMode ==
    ASSUME NEW d \in Drivers, NEW m \in {"STA", "AP", "APSTA"}
    PROVE  /\ esp_wifi_set_mode(d, m) \in Drivers /\ Grows(d, esp_wifi_set_mode(d, m))
           /\ esp_wifi_set_mode(d, m).mode = m
<1> DEFINE b == IF m = "AP" THEN Down(d) ELSE d
           e == esp_wifi_set_mode(d, m)
<1>1. b \in Drivers /\ Grows(d, b) /\ (m = "AP" => b.link = "idle")
      /\ b.mode = d.mode /\ b.started = d.started
  BY DownGrows, GrowsReflexive
<1>2. Append(b.events, "STA_START") \in Seq(Events)
  BY <1>1, LongerByOne DEF Drivers, Events
<1>3. e = [b EXCEPT !.mode = m,
              !.events = IF d.started /\ d.mode = "AP" /\ m # "AP"
                           THEN Append(@, "STA_START") ELSE @]
  BY DEF esp_wifi_set_mode
<1> HIDE DEF b, e
<1>4. /\ e \in Drivers /\ e.link = b.link /\ e.mode = m
      /\ e.events \in {b.events, Append(b.events, "STA_START")}
  BY <1>1, <1>2, <1>3 DEF Drivers
<1>5. Grows(d, e)
  BY <1>1, <1>4, StartGrows, GrowsTransitive
<1> QED
  BY <1>4, <1>5 DEF e

\* esp_wifi_connect keeps a link that is up.
LEMMA WifiConnect ==
    ASSUME NEW d \in Drivers
    PROVE  esp_wifi_connect(d) \in Drivers /\ Grows(d, esp_wifi_connect(d))
<1>1. /\ esp_wifi_connect(d) \in Drivers /\ esp_wifi_connect(d).events = d.events
      /\ d.link = "up" => esp_wifi_connect(d).link = "up"
  BY DEF esp_wifi_connect, Drivers
<1> QED
  BY <1>1, GrowsReflexive

\* Stopping the access point reports the station's link it drops.
LEMMA ApStopGrows ==
    ASSUME NEW d \in Drivers
    PROVE  ApStop(d) \in Drivers /\ Grows(d, ApStop(d))
  BY WifiSetMode, WifiStop DEF ApStop

\* So does making one,
LEMMA ApInitGrows ==
    ASSUME NEW d \in Drivers
    PROVE  ApInit(d) \in Drivers /\ Grows(d, ApInit(d))
<1> DEFINE s == IF d.mode = "STA" THEN d ELSE ApStop(d)
           m == esp_wifi_set_mode(s, IF s.mode = "STA" THEN "APSTA" ELSE s.mode)
<1>1. s \in Drivers /\ Grows(d, s)
  BY ApStopGrows, GrowsReflexive
<1>2. s.mode \in {"STA", "AP", "APSTA"}
  BY <1>1 DEF Drivers
<1>3. m \in Drivers /\ Grows(s, m)
  <2> HIDE DEF s
  <2> QED
    BY <1>1, <1>2, WifiSetMode
<1>4. ApInit(d) = esp_wifi_start(m)
  BY DEF ApInit
<1> HIDE DEF s, m
<1> QED
  BY <1>1, <1>3, <1>4, WifiStart, GrowsTransitive

\* the end of a station's destructor,
LEMMA StaShutdownGrows ==
    ASSUME NEW d \in Drivers
    PROVE  StaShutdown(d) \in Drivers /\ Grows(d, StaShutdown(d))
<1>1. CASE d.mode = "APSTA"
  BY <1>1, WifiDisconnect, WifiSetMode, GrowsTransitive DEF StaShutdown
<1>2. CASE d.mode # "APSTA"
  BY <1>2, WifiStop DEF StaShutdown
<1> QED
  BY <1>1, <1>2

\* and the start of a station.
LEMMA ConfigureGrows ==
    ASSUME NEW d \in Drivers
    PROVE  LET e == esp_wifi_start(esp_wifi_set_mode(d, IF d.mode = "AP" THEN "APSTA" ELSE d.mode))
           IN  e \in Drivers /\ Grows(d, e)
<1> DEFINE n == IF d.mode = "AP" THEN "APSTA" ELSE d.mode
           m == esp_wifi_set_mode(d, n)
<1>1. n \in {"STA", "AP", "APSTA"}
  BY DEF Drivers
<1>2. m \in Drivers /\ Grows(d, m)
  <2> HIDE DEF n
  <2> QED
    BY <1>1, WifiSetMode
<1> HIDE DEF m
<1>3. esp_wifi_start(m) \in Drivers /\ Grows(d, esp_wifi_start(m))
  BY <1>2, WifiStart, GrowsTransitive
<1> QED
  BY <1>3 DEF m

-----------------------------------------------------------------------------
(* How a step moves the running call and the driver.                        *)

\* The step that comes next.
Position == IF todo = <<>> THEN "none" ELSE Head(todo)

\* A step goes on to one that may follow, or it was the last of its plan.
LEMMA Moves ==
    ASSUME Plan(todo), NEW p, At(p), Done
    PROVE  /\ Plan(todo') /\ Position = p /\ p \in StepNames
           /\ \/ Position' = "none" /\ todo' = <<>> /\ p = Last(todo) /\ p \in Finals
              \/ Follow(p, Position') /\ todo' # <<>> /\ Last(todo') = Last(todo)
<1>1. todo # <<>> /\ Head(todo) = p /\ todo' = Tail(todo)
  BY DEF At, Done
<1>2. p = Position
  BY <1>1 DEF Position
<1>3. CASE Tail(todo) = <<>>
  BY <1>1, <1>2, <1>3, TailPlan DEF Position, Plan
<1>4. CASE Tail(todo) # <<>>
  BY <1>1, <1>2, <1>4, TailPlan DEF Position
<1> QED
  BY <1>3, <1>4

\* The empty plan.
LEMMA NoPlan == Plan(<<>>)
<1>1. <<>> \in Seq(StepNames) /\ Len(<<>>) = 0
  BY EmptySeq
<1> QED
  BY <1>1 DEF Plan, KeepsEnd

\* The driver's variables are its state.
LEMMA BecomesState ==
    ASSUME NEW d \in Drivers, Becomes(d)
    PROVE  Now' = d
  BY DEF Becomes, Now, Drivers

\* Only the event task takes events, and only a new address makes a GOT_IP.
LEMMA DriverSteps ==
    ASSUME Now \in Drivers, WiFiNext
    PROVE  /\ Now' \in Drivers
           /\ Dispatch \/ Associates \/ Grows(Now, Now')
<1>1. CASE Dispatch
  <2>1. events \in Seq(Events) /\ events # <<>>
    BY <1>1 DEF Dispatch, Now, Drivers
  <2>2. Tail(events) \in Seq(Events)
    BY <2>1, HeadTailProperties
  <2> QED
    BY <1>1, <2>2 DEF Dispatch, Now, Drivers
<1>2. CASE Associates
  <2>1. events \in Seq(Events)
    BY DEF Now, Drivers
  <2>2. Append(events, "STA_GOT_IP") \in Seq(Events)
    BY <2>1, AppendProperties DEF Events
  <2> QED
    BY <1>2, <2>2 DEF Associates, Now, Drivers
<1>3. CASE UNCHANGED driver
  <2>1. Now' = Now
    BY <1>3 DEF driver, Now
  <2> QED
    BY <2>1, GrowsReflexive
<1>4. ASSUME NEW d \in Drivers, Becomes(d), Grows(Now, d)
      PROVE  Now' \in Drivers /\ Grows(Now, Now')
  BY <1>4, BecomesState
<1>5. CASE Configure
  <2>1. Becomes(esp_wifi_start(esp_wifi_set_mode(Now, IF Now.mode = "AP" THEN "APSTA" ELSE Now.mode)))
    BY <1>5 DEF Configure, Now
  <2> QED
    BY <2>1, <1>4, ConfigureGrows
<1>6. CASE Shutdown
  BY <1>6, <1>3, <1>4, StaShutdownGrows DEF Shutdown
<1>7. CASE EnsureReady
  BY <1>7, <1>4, WifiStart DEF EnsureReady
<1>8. CASE Join \/ Retry
  BY <1>8, <1>4, WifiConnect DEF Join, Retry
<1>9. CASE StopLink \/ Scan
  BY <1>9, <1>3, <1>4, WifiDisconnect DEF StopLink, Scan
<1>10. CASE MakeAp
  BY <1>10, <1>4, ApInitGrows DEF MakeAp
<1>11. CASE DropOldAp \/ StopAp \/ DestroyAp
  <2>1. Becomes(ApStop(Now)) \/ UNCHANGED driver
    BY <1>11 DEF DropOldAp, StopAp, DestroyAp, driver
  <2> QED
    BY <2>1, <1>3, <1>4, ApStopGrows
<1>12. CASE LosesLink
  BY <1>12, <1>4, DownGrows DEF LosesLink
<1>13. CASE \/ Call \/ Construct \/ DestroyFlags \/ Unregister \/ CheckConnected
            \/ ResetConnected \/ StopFlags \/ EndFacade \/ NextHandler \/ OnStart
            \/ OnDisconnected \/ handle_disconnect \/ OnGotIp \/ handle_ip
  <2>1. UNCHANGED driver
    BY <1>13 DEF Call, Construct, DestroyFlags, Unregister, CheckConnected,
       ResetConnected, StopFlags, EndFacade, NextHandler, OnStart,
       OnDisconnected, handle_disconnect, OnGotIp, handle_ip
  <2> QED
    BY <2>1, <1>3
<1> QED
  BY <1>1, <1>2, <1>5, <1>6, <1>7, <1>8, <1>9, <1>10, <1>11, <1>12, <1>13
     DEF WiFiNext, CallStep, EventTask

-----------------------------------------------------------------------------
(* The stations: which exist, and whose handlers are registered, follows    *)
(* from the position in the call.                                            *)

Making == Position \in {"configure", "destroyFlags", "unregister"}

StationsOK ==
    /\ registered = ({sta_} \cup (IF Making THEN {fresh} ELSE {})) \ {NULL}
    /\ alive = {sta_, fresh} \ {NULL}
    /\ fresh # NULL => Making \/ Position = "shutdown"
    /\ Position = "configure" => fresh # NULL
    /\ sta_ = fresh => sta_ = NULL

\* The handler that runs, and those still to run, are registered ones.
HandlingOK ==
    /\ handling.left \cup ({handling.at} \ {NULL}) \subseteq registered
    /\ handling.step # "none" => handling.at # NULL

Handlings ==
    [event : Events \cup {"none"}, at : Stations \cup {NULL},
     step : {"none", "flags", "retry", "tell"}, left : SUBSET Stations]

Shape ==
    /\ WiFiTypeOK /\ Now \in Drivers /\ handling \in Handlings
    /\ Plan(todo) /\ (aps <= 1 \/ Position = "dropOldAp")
    /\ StationsOK /\ HandlingOK

\* Before the first call there is nothing.
LEMMA ShapeInit == WiFiInit => Shape
<1> SUFFICES ASSUME WiFiInit PROVE Shape
  OBVIOUS
<1>1. events = <<>> /\ <<>> \in Seq(Events) /\ todo = <<>>
  BY EmptySeq DEF WiFiInit
<1>2. Now \in Drivers
  BY <1>1 DEF WiFiInit, Now, Drivers
<1>3. handling = [event |-> "none", at |-> NULL, step |-> "none", left |-> {}]
  BY DEF WiFiInit, Idle
<1>4. handling \in Handlings /\ HandlingOK
  BY <1>3 DEF Handlings, HandlingOK, WiFiInit
<1>5. StationsOK
  BY <1>1, StationAssumption DEF WiFiInit, StationsOK, Making, Position
<1>6. connected_ \in [Stations -> BOOLEAN] /\ disconnecting_ \in [Stations -> BOOLEAN]
  BY DEF WiFiInit
<1>7. aps \in 0..2
  BY DEF WiFiInit
<1>8. WiFiTypeOK
  BY <1>6, <1>7 DEF WiFiInit, WiFiTypeOK
<1> QED
  BY <1>1, <1>2, <1>4, <1>5, <1>7, <1>8, NoPlan DEF Shape, WiFiInit

\* Only the event task changes what is handled, and only NextHandler takes a
\* station from those that are left.
LEMMA HandlingSteps ==
    ASSUME Shape, EventTask
    PROVE  handling' \in Handlings /\ HandlingOK' /\ UNCHANGED <<todo, sta_, fresh, alive, registered>>
<1> USE DEF Shape, HandlingOK, Handlings, WiFiTypeOK
<1>1. CASE Dispatch
  <2>1. events \in Seq(Events) /\ events # <<>>
    BY <1>1 DEF Dispatch, Now, Drivers
  <2>2. Head(events) \in Events
    BY <2>1, HeadTailProperties
  <2>3. handling' = [event |-> Head(events), at |-> NULL, step |-> "none", left |-> registered]
    BY <1>1 DEF Dispatch, Idle
  <2> QED
    BY <1>1, <2>2, <2>3 DEF Dispatch, staVars
<1>2. CASE NextHandler
  <2>1. CASE handling' = Idle
    BY <1>2, <2>1 DEF NextHandler, Idle, staVars
  <2>2. CASE \E s \in handling.left :
               handling' = [handling EXCEPT !.at = s, !.step = "flags", !.left = @ \ {s}]
    <3>1. PICK s \in handling.left :
               handling' = [handling EXCEPT !.at = s, !.step = "flags",
                                            !.left = handling.left \ {s}]
      BY <2>2
    <3>2. s \in registered /\ s \in Stations /\ s # NULL
      BY StationAssumption
    <3>3. handling' \in Handlings
      BY <3>1, <3>2
    <3>4. handling'.at = s /\ handling'.left = handling.left \ {s} /\ registered' = registered
      BY <1>2, <3>1 DEF NextHandler, staVars
    <3>5. HandlingOK'
      BY <3>2, <3>4
    <3> QED
      BY <1>2, <3>3, <3>5 DEF NextHandler, staVars
  <2> QED
    BY <1>2, <2>1, <2>2 DEF NextHandler
<1>3. CASE OnStart \/ handle_disconnect \/ handle_ip
  <2>1. handling' = [handling EXCEPT !.at = NULL, !.step = "none"]
    BY <1>3 DEF OnStart, handle_disconnect, handle_ip, Leave
  <2> QED
    BY <1>3, <2>1 DEF OnStart, handle_disconnect, handle_ip, staVars
<1>4. CASE OnDisconnected \/ Retry \/ OnGotIp
  <2>1. \E x \in {"retry", "tell"} : handling' = [handling EXCEPT !.step = x]
    BY <1>4 DEF OnDisconnected, Retry, OnGotIp
  <2>2. handling.step # "none"
    BY <1>4 DEF OnDisconnected, Retry, OnGotIp, In
  <2> QED
    BY <1>4, <2>1, <2>2 DEF OnDisconnected, Retry, OnGotIp, staVars
<1> QED
  BY <1>1, <1>2, <1>3, <1>4 DEF EventTask

\* Every step of a call, of the event task and of the driver keeps the shape.
LEMMA ShapeStep == Shape /\ [WiFiNext]_wifiVars => Shape'
<1> SUFFICES ASSUME Shape, [WiFiNext]_wifiVars PROVE Shape'
  OBVIOUS
<1>1. CASE UNCHANGED wifiVars
  BY <1>1 DEF wifiVars, staVars, driver, Shape, WiFiTypeOK, Now, StationsOK,
     HandlingOK, Making, Position
<1> SUFFICES ASSUME WiFiNext PROVE Shape'
  BY <1>1
<1>2. Now' \in Drivers
  BY DriverSteps DEF Shape
<1>3. /\ mode' \in {"STA", "AP", "APSTA"} /\ started' \in BOOLEAN
      /\ link' \in {"idle", "connecting", "up"}
      /\ link' # "idle" => started' /\ mode' # "AP"
  BY <1>2 DEF Now, Drivers
\* Steps that leave the stations' objects and the handling alone.
<1>4. ASSUME UNCHANGED <<sta_, fresh, alive, registered, handling>>,
             Plan(todo'), connected_' \in [Stations -> BOOLEAN],
             disconnecting_' \in [Stations -> BOOLEAN], m_connected' \in BOOLEAN,
             aps' \in 0..2, aps' <= 1 \/ Position' = "dropOldAp",
             fresh # NULL => Making' \/ Position' = "shutdown",
             Making => Making' \/ fresh = NULL, Making' => Making \/ fresh = NULL,
             Position' # "configure"
      PROVE  Shape'
  BY <1>2, <1>3, <1>4 DEF Shape, StationsOK, HandlingOK, WiFiTypeOK
<1>5. CASE Call
  <2>1. Starting(todo') /\ todo = <<>>
    BY <1>5, CallPlan DEF Call
  <2>2. Plan(todo') /\ Position' \in Starts /\ Position = "none"
    BY <2>1 DEF Starting, Position
  <2> QED
    BY <1>5, <1>4, <2>2 DEF Call, Shape, StationsOK, Making, Starts, staVars, WiFiTypeOK
<1>6. CASE EventTask
  <2>1. handling' \in Handlings /\ HandlingOK' /\ UNCHANGED <<todo, sta_, fresh, alive, registered>>
    BY <1>6, HandlingSteps
  <2>2. aps' = aps /\ m_connected' \in BOOLEAN
    BY <1>6 DEF EventTask, Dispatch, NextHandler, OnStart, OnDisconnected, Retry,
       handle_disconnect, OnGotIp, handle_ip, Shape, WiFiTypeOK
  <2>3. connected_' \in [Stations -> BOOLEAN] /\ disconnecting_' \in [Stations -> BOOLEAN]
    BY <1>6 DEF EventTask, Dispatch, NextHandler, OnStart, OnDisconnected, Retry,
       handle_disconnect, OnGotIp, handle_ip, Shape, WiFiTypeOK, staVars
  <2> QED
    BY <1>2, <1>3, <2>1, <2>2, <2>3 DEF Shape, WiFiTypeOK, StationsOK, Making, Position
<1>7. CASE Associates \/ LosesLink
  BY <1>7, <1>2, <1>3 DEF Associates, LosesLink, Shape, StationsOK, HandlingOK, WiFiTypeOK,
     Making, Position, staVars
<1>8. CASE Construct
  <2>1. Plan(todo') /\ Position = "construct" /\ Position' = "configure"
    BY <1>8, Moves DEF Construct, Shape, Follow, Finals
  <2>2. fresh = NULL /\ alive = {sta_} \ {NULL} /\ registered = {sta_} \ {NULL}
    BY <2>1 DEF Shape, StationsOK, Making
  <2>3. \E x \in Stations : x \notin alive
    BY <2>2, StationAssumption
  <2> DEFINE s == CHOOSE x \in Stations : x \notin alive
  <2>4. s \in Stations /\ s \notin alive
    BY <2>3
  <2>5. s # sta_ /\ s # NULL
    BY <2>2, <2>4, StationAssumption
  <2>6. /\ fresh' = s /\ alive' = alive \cup {s} /\ registered' = registered \cup {s}
        /\ connected_' = [connected_ EXCEPT ![s] = FALSE]
        /\ disconnecting_' = [disconnecting_ EXCEPT ![s] = FALSE]
        /\ sta_' = sta_ /\ aps' = aps /\ m_connected' = m_connected /\ handling' = handling
    BY <1>8 DEF Construct
  <2> HIDE DEF s
  <2> QED
    BY <1>2, <1>3, <2>1, <2>2, <2>4, <2>5, <2>6
       DEF Shape, StationsOK, HandlingOK, WiFiTypeOK, Making
<1>9. CASE Configure
  <2>1. Plan(todo') /\ Position = "configure" /\ Position' = "destroyFlags"
    BY <1>9, Moves DEF Configure, Shape, Follow, Finals
  <2> QED
    BY <1>2, <1>3, <1>9, <2>1 DEF Configure, Shape, StationsOK, HandlingOK, WiFiTypeOK, Making
<1>10. CASE DestroyFlags
  <2>1. Plan(todo') /\ Position = "destroyFlags" /\ Position' = "unregister"
    BY <1>10, Moves DEF DestroyFlags, Shape, Follow, Finals
  <2> QED
    BY <1>4, <1>10, <2>1 DEF DestroyFlags, Shape, StationsOK, WiFiTypeOK, Making
<1>11. CASE Unregister
  <2>1. Plan(todo') /\ Position = "unregister" /\ Position' = "shutdown"
    BY <1>11, Moves DEF Unregister, Shape, Follow, Finals
  <2>2. handling.left = {} /\ handling.at = NULL /\ handling.step = "none"
    BY <1>11 DEF Unregister, Idle
  <2> QED
    BY <1>2, <1>3, <1>11, <2>1, <2>2
       DEF Unregister, Shape, StationsOK, HandlingOK, WiFiTypeOK, Making
<1>12. CASE Shutdown
  <2>1. /\ Plan(todo') /\ Position = "shutdown"
        /\ Position' \in {"none", "checkConnected", "stopAp"}
    BY <1>12, Moves DEF Shutdown, Shape, Follow
  <2> QED
    BY <1>2, <1>3, <1>12, <2>1 DEF Shutdown, Shape, StationsOK, HandlingOK, WiFiTypeOK, Making
<1>13. CASE CheckConnected
  <2>1. At("checkConnected") /\ (todo' = <<>> \/ Done) /\ Position = "checkConnected"
    BY <1>13 DEF CheckConnected, Done, At, Position
  <2>2. Plan(todo') /\ Position' \in {"none", "ensureReady"}
    <3>1. CASE todo' = <<>>
      BY <3>1, NoPlan DEF Position
    <3>2. CASE Done
      BY <2>1, <3>2, Moves DEF Shape, Follow
    <3> QED
      BY <2>1, <3>1, <3>2
  <2> QED
    BY <1>4, <1>13, <2>1, <2>2 DEF CheckConnected, Shape, StationsOK, WiFiTypeOK, Making, staVars
<1>14. CASE EnsureReady
  <2>1. Plan(todo') /\ Position = "ensureReady" /\ Position' = "resetConnected"
    BY <1>14, Moves DEF EnsureReady, Shape, Follow, Finals
  <2> QED
    BY <1>4, <1>14, <2>1 DEF EnsureReady, Shape, StationsOK, WiFiTypeOK, Making, staVars
<1>15. CASE ResetConnected
  <2>1. Plan(todo') /\ Position = "resetConnected" /\ Position' = "join"
    BY <1>15, Moves DEF ResetConnected, Shape, Follow, Finals
  <2> QED
    BY <1>4, <1>15, <2>1 DEF ResetConnected, Shape, StationsOK, WiFiTypeOK, Making, staVars
<1>16. CASE Join
  <2>1. Plan(todo') /\ Position = "join" /\ Position' = "none"
    BY <1>16, Moves DEF Join, Shape, Follow
  <2> QED
    BY <1>4, <1>16, <2>1 DEF Join, Shape, StationsOK, WiFiTypeOK, Making, staVars
<1>17. CASE StopFlags
  <2>1. Plan(todo') /\ Position = "stopFlags" /\ Position' = "stopLink"
    BY <1>17, Moves DEF StopFlags, Shape, Follow, Finals
  <2> QED
    BY <1>4, <1>17, <2>1 DEF StopFlags, Shape, StationsOK, WiFiTypeOK, Making
<1>18. CASE StopLink
  <2>1. Plan(todo') /\ Position = "stopLink" /\ Position' = "destroyFlags"
    BY <1>18, Moves DEF StopLink, Shape, Follow, Finals
  <2> QED
    BY <1>2, <1>3, <1>18, <2>1 DEF StopLink, Shape, StationsOK, HandlingOK, WiFiTypeOK, Making
<1>19. CASE EndFacade
  <2>1. Plan(todo') /\ Position = "endFacade" /\ Position' = "none"
    BY <1>19, Moves DEF EndFacade, Shape, Follow
  <2> QED
    BY <1>4, <1>19, <2>1 DEF EndFacade, Shape, StationsOK, WiFiTypeOK, Making, staVars
<1>20. CASE MakeAp
  <2>1. Plan(todo') /\ Position = "makeAp" /\ Position' = "dropOldAp"
    BY <1>20, Moves DEF MakeAp, Shape, Follow, Finals
  <2> QED
    BY <1>4, <1>20, <2>1 DEF MakeAp, Shape, StationsOK, WiFiTypeOK, Making, staVars
<1>21. CASE DropOldAp
  <2>1. Plan(todo') /\ Position = "dropOldAp" /\ Position' = "none"
    BY <1>21, Moves DEF DropOldAp, Shape, Follow
  <2> QED
    BY <1>4, <1>21, <2>1 DEF DropOldAp, Shape, StationsOK, WiFiTypeOK, Making, staVars
<1>22. CASE StopAp
  <2>1. Plan(todo') /\ Position = "stopAp" /\ Position' = "destroyAp"
    BY <1>22, Moves DEF StopAp, Shape, Follow, Finals
  <2> QED
    BY <1>4, <1>22, <2>1 DEF StopAp, Shape, StationsOK, WiFiTypeOK, Making, staVars
<1>23. CASE DestroyAp
  <2>1. Plan(todo') /\ Position = "destroyAp" /\ Position' \in {"none", "endFacade"}
    BY <1>23, Moves DEF DestroyAp, Shape, Follow
  <2> QED
    BY <1>4, <1>23, <2>1 DEF DestroyAp, Shape, StationsOK, WiFiTypeOK, Making, staVars
<1>24. CASE Scan
  <2>1. Plan(todo') /\ Position = "scan" /\ Position' = "none"
    BY <1>24, Moves DEF Scan, Shape, Follow
  <2> QED
    BY <1>4, <1>24, <2>1 DEF Scan, Shape, StationsOK, WiFiTypeOK, Making, staVars
<1> QED
  BY <1>5, <1>6, <1>7, <1>8, <1>9, <1>10, <1>11, <1>12, <1>13, <1>14, <1>15, <1>16,
     <1>17, <1>18, <1>19, <1>20, <1>21, <1>22, <1>23, <1>24 DEF WiFiNext, CallStep

\* The variables keep their types, and the driver has a link only while it
\* is started and not an access point alone.
THEOREM TypesKept == WiFiSpec => []WiFiTypeOK
<1>1. Shape => WiFiTypeOK
  BY DEF Shape
<1> QED
  BY <1>1, ShapeInit, ShapeStep, PTL DEF WiFiSpec

\* Handlers run for stations that exist, and when no call runs only for the
\* station of the facade.
THEOREM HandlersSafe == WiFiSpec => []HandlersAlive
<1>1. Shape => HandlersAlive
  <2> SUFFICES ASSUME Shape PROVE HandlersAlive
    OBVIOUS
  <2>1. registered \subseteq alive
    BY DEF Shape, StationsOK
  <2>2. todo = <<>> => ~ Making /\ Position = "none"
    BY DEF Making, Position
  <2>3. todo = <<>> => fresh = NULL
    BY <2>2 DEF Shape, StationsOK
  <2> QED
    BY <2>1, <2>2, <2>3 DEF Shape, StationsOK, HandlingOK, HandlersAlive
<1> QED
  BY <1>1, ShapeInit, ShapeStep, PTL DEF WiFiSpec

-----------------------------------------------------------------------------
(* The flags and the link: a station that says it is connected is, or has   *)
(* the report of the loss before it.                                         *)

Disconnects(e, i) == \E j \in i .. Len(e) : e[j] = "STA_DISCONNECTED"

\* The handler of s has begun with the loss, or is to.
LossHandled(s) ==
    /\ handling.event = "STA_DISCONNECTED"
    /\ s \in handling.left \/ (handling.at = s /\ handling.step = "flags")

LinkOK ==
    \A s \in registered :
        connected_[s] => link = "up" \/ Disconnects(events, 1) \/ LossHandled(s)

\* An address that is reported is still there, or its loss is reported later.
AddressOK ==
    /\ \A i \in 1 .. Len(events) :
          events[i] = "STA_GOT_IP" => link = "up" \/ Disconnects(events, i + 1)
    /\ handling.event = "STA_GOT_IP" => link = "up" \/ Disconnects(events, 1)

\* The property's wording and the proof's agree.
LEMMA LossIsPending ==
    ASSUME Shape, NEW s
    PROVE  LossPending(s) <=> Disconnects(events, 1) \/ LossHandled(s)
<1>1. events \in Seq(Events) /\ DOMAIN events = 1 .. Len(events)
  BY DEF Shape, Now, Drivers
<1> QED
  BY <1>1 DEF LossPending, Disconnects, LossHandled

\* Steps that report the losses they cause and set no flag.
LEMMA QuietSteps ==
    ASSUME Shape, Shape', LinkOK, AddressOK, Grows(Now, Now'),
           \A s \in registered' :
               connected_'[s] => /\ s \in registered /\ connected_[s]
                                 /\ LossHandled(s) => LossHandled(s)',
           handling'.event \in {handling.event, "none"}
    PROVE  LinkOK' /\ AddressOK'
<1>1. /\ Longer(events, events')
      /\ link = "up" => link' = "up" \/ Reported(events, events')
      /\ Len(events) \in Nat /\ Len(events') \in Nat
  BY DEF Grows, Now, Shape, Drivers
<1>2. ASSUME NEW i \in Nat, i >= 1, Disconnects(events, i)
      PROVE  Disconnects(events', i)
  BY <1>1, <1>2 DEF Disconnects, Longer
<1>3. ASSUME NEW i \in Nat, i >= 1, i <= Len(events) + 1, Reported(events, events')
      PROVE  Disconnects(events', i)
  BY <1>1, <1>3 DEF Disconnects, Reported
<1>4. LinkOK'
  BY <1>1, <1>2, <1>3 DEF LinkOK
<1>5. ASSUME NEW i \in 1 .. Len(events'), events'[i] = "STA_GOT_IP"
      PROVE  link' = "up" \/ Disconnects(events', i + 1)
  <2>1. i <= Len(events)
    BY <1>1, <1>5 DEF Longer
  <2>2. events[i] = "STA_GOT_IP" /\ i \in 1 .. Len(events)
    BY <1>1, <1>5, <2>1 DEF Longer
  <2>3. i + 1 \in Nat /\ i + 1 >= 1 /\ i + 1 <= Len(events) + 1
    BY <1>1, <2>2
  <2> QED
    BY <1>1, <1>2, <1>3, <2>2, <2>3 DEF AddressOK
<1>6. handling'.event = "STA_GOT_IP" => link' = "up" \/ Disconnects(events', 1)
  BY <1>1, <1>2, <1>3 DEF AddressOK
<1> QED
  BY <1>4, <1>5, <1>6 DEF AddressOK

\* At first nothing is connected.
LEMMA LinkInit == WiFiInit => LinkOK /\ AddressOK
<1> SUFFICES ASSUME WiFiInit PROVE LinkOK /\ AddressOK
  OBVIOUS
<1>1. events = <<>> /\ Len(events) = 0 /\ registered = {} /\ handling.event = "none"
  BY EmptySeq DEF WiFiInit, Idle
<1> QED
  BY <1>1 DEF LinkOK, AddressOK

\* Every step keeps the flags and the queue in accord with the link.
LEMMA LinkStep ==
    ASSUME Shape, Shape', LinkOK, AddressOK, [WiFiNext]_wifiVars
    PROVE  LinkOK' /\ AddressOK'
<1>1. CASE UNCHANGED wifiVars
  BY <1>1 DEF wifiVars, staVars, driver, LinkOK, AddressOK, LossHandled
<1> SUFFICES ASSUME WiFiNext PROVE LinkOK' /\ AddressOK'
  BY <1>1
<1>2. events \in Seq(Events) /\ Len(events) \in Nat
  BY DEF Shape, Now, Drivers
<1>3. CASE Dispatch
  <2>1. events # <<>> /\ events' = Tail(events) /\ handling = Idle
        /\ handling' = [event |-> Head(events), at |-> NULL, step |-> "none", left |-> registered]
        /\ link' = link /\ registered' = registered /\ connected_' = connected_
    BY <1>3 DEF Dispatch, Idle, staVars
  <2>2. /\ Len(events) > 0 /\ Len(events') = Len(events) - 1 /\ Head(events) = events[1]
        /\ \A i \in 1 .. Len(events) - 1 : events'[i] = events[i + 1]
    BY <1>2, <2>1, HeadTailProperties, EmptySeq
  <2>3. \A i \in Nat : i >= 1 /\ Disconnects(events, i + 1) => Disconnects(events', i)
    <3> SUFFICES ASSUME NEW i \in Nat, i >= 1, NEW j \in i + 1 .. Len(events),
                        events[j] = "STA_DISCONNECTED"
                 PROVE  Disconnects(events', i)
      BY DEF Disconnects
    <3>1. j - 1 \in i .. Len(events') /\ j - 1 \in 1 .. Len(events) - 1 /\ (j - 1) + 1 = j
      BY <1>2, <2>2
    <3>2. events'[j - 1] = "STA_DISCONNECTED"
      BY <2>2, <3>1
    <3> QED
      BY <3>1, <3>2 DEF Disconnects
  <2>4. LinkOK'
    <3> SUFFICES ASSUME NEW s \in registered, connected_[s], link # "up"
                 PROVE  Disconnects(events', 1) \/ LossHandled(s)'
      BY <2>1 DEF LinkOK
    <3>1. Disconnects(events, 1)
      BY <2>1 DEF LinkOK, LossHandled, Idle
    <3>2. CASE events[1] = "STA_DISCONNECTED"
      BY <2>1, <2>2, <3>2 DEF LossHandled
    <3>3. CASE events[1] # "STA_DISCONNECTED"
      <4>1. Disconnects(events, 1 + 1)
        BY <1>2, <3>1, <3>3 DEF Disconnects
      <4> QED
        BY <2>3, <4>1
    <3> QED
      BY <3>2, <3>3
  <2>5. ASSUME NEW i \in 1 .. Len(events'), events'[i] = "STA_GOT_IP"
        PROVE  link' = "up" \/ Disconnects(events', i + 1)
    <3>1. /\ i \in 1 .. Len(events) - 1 /\ i + 1 \in 1 .. Len(events)
          /\ i + 1 \in Nat /\ i + 1 >= 1
      BY <1>2, <2>2
    <3>2. events[i + 1] = "STA_GOT_IP"
      BY <2>2, <2>5, <3>1
    <3> QED
      BY <2>1, <2>3, <3>1, <3>2 DEF AddressOK
  <2>6. handling'.event = "STA_GOT_IP" => link' = "up" \/ Disconnects(events', 1)
    <3>1. 1 \in 1 .. Len(events) /\ 1 \in Nat
      BY <1>2, <2>2
    <3> QED
      BY <2>1, <2>2, <2>3, <3>1 DEF AddressOK
  <2> QED
    BY <2>4, <2>5, <2>6 DEF AddressOK
<1>4. CASE Associates
  BY <1>4 DEF Associates, LinkOK, AddressOK
<1>5. CASE OnGotIp
  <2>1. /\ handling.event = "STA_GOT_IP" /\ handling'.event = "STA_GOT_IP"
        /\ UNCHANGED <<link, events, registered>>
    BY <1>5 DEF OnGotIp, In, driver, Shape, Handlings
  <2> QED
    BY <2>1 DEF AddressOK, LinkOK
<1> SUFFICES ASSUME Grows(Now, Now'), ~ OnGotIp, ~ Dispatch PROVE LinkOK' /\ AddressOK'
  BY <1>3, <1>4, <1>5, DriverSteps DEF Shape
<1>6. ASSUME NEW q, q = registered', q \subseteq registered, UNCHANGED handling,
             \A s \in q : connected_'[s] => connected_[s]
      PROVE  LinkOK' /\ AddressOK'
  BY <1>6, QuietSteps DEF LossHandled
<1>7. CASE UNCHANGED <<registered, connected_, handling>>
  BY <1>6, <1>7
<1>8. CASE \/ Call \/ Configure \/ Shutdown \/ CheckConnected \/ EnsureReady \/ Join
           \/ StopLink \/ EndFacade \/ MakeAp \/ DropOldAp \/ StopAp \/ DestroyAp \/ Scan
           \/ Associates \/ LosesLink
  <2>1. UNCHANGED <<registered, connected_, handling>>
    BY <1>8 DEF Call, Configure, Shutdown, CheckConnected, EnsureReady, Join, StopLink,
       EndFacade, MakeAp, DropOldAp, StopAp, DestroyAp, Scan, Associates, LosesLink, staVars
  <2> QED
    BY <1>7, <2>1
<1>9. CASE Construct
  <2> DEFINE s == CHOOSE x \in Stations : x \notin alive
  <2>1. /\ registered' = registered \cup {s} /\ handling' = handling
        /\ connected_' = [connected_ EXCEPT ![s] = FALSE]
    BY <1>9 DEF Construct
  <2> HIDE DEF s
  <2>2. \A r \in registered' : connected_'[r] => r \in registered /\ connected_[r]
    BY <2>1 DEF Shape, WiFiTypeOK
  <2> QED
    BY <2>1, <2>2, QuietSteps DEF LossHandled
<1>10. CASE DestroyFlags \/ StopFlags \/ ResetConnected
  <2>1. /\ registered' = registered /\ handling' = handling
        /\ connected_' = connected_ \/ \E x : connected_' = [connected_ EXCEPT ![x] = FALSE]
    BY <1>10 DEF DestroyFlags, StopFlags, ResetConnected
  <2>2. \A r \in registered' : connected_'[r] => r \in registered /\ connected_[r]
    BY <2>1 DEF Shape, WiFiTypeOK
  <2> QED
    BY <2>1, <2>2, QuietSteps DEF LossHandled
<1>11. CASE Unregister
  <2>1. registered' \subseteq registered /\ UNCHANGED <<connected_, handling>>
    BY <1>11 DEF Unregister
  <2> QED
    BY <2>1, <1>6
<1>12. CASE NextHandler
  <2>1. UNCHANGED <<registered, connected_>> /\ handling.at = NULL
    BY <1>12 DEF NextHandler, staVars
  <2>2. CASE handling.left = {} /\ handling' = Idle
    <3>1. \A s \in registered : ~ LossHandled(s)
      BY <2>1, <2>2, StationAssumption DEF LossHandled, Shape, WiFiTypeOK
    <3>2. handling'.event = "none"
      BY <2>2 DEF Idle
    <3> QED
      BY <2>1, <3>1, <3>2, QuietSteps
  <2>3. CASE \E s \in handling.left :
               handling' = [handling EXCEPT !.at = s, !.step = "flags", !.left = @ \ {s}]
    <3>1. PICK s \in handling.left :
               handling' = [handling EXCEPT !.at = s, !.step = "flags",
                                            !.left = handling.left \ {s}]
      BY <2>3
    <3>2. /\ handling'.at = s /\ handling'.left = handling.left \ {s}
          /\ handling'.step = "flags" /\ handling'.event = handling.event
      BY <3>1 DEF Shape, Handlings
    <3>3. \A r \in registered : LossHandled(r) => LossHandled(r)'
      BY <2>1, <3>2, StationAssumption DEF LossHandled, Shape, WiFiTypeOK
    <3> QED
      BY <2>1, <3>2, <3>3, QuietSteps
  <2> QED
    BY <1>12, <2>2, <2>3 DEF NextHandler
<1>13. CASE OnStart \/ OnDisconnected
  <2>1. /\ registered' = registered
        /\ connected_' = [connected_ EXCEPT ![handling.at] = FALSE]
        /\ \/ handling' = [handling EXCEPT !.at = NULL, !.step = "none"]
           \/ \E x \in {"retry", "tell"} : handling' = [handling EXCEPT !.step = x]
    BY <1>13 DEF OnStart, OnDisconnected, Leave
  <2>2. \A r \in registered : connected_'[r] => connected_[r] /\ r # handling.at
    BY <2>1 DEF Shape, WiFiTypeOK
  <2>3. handling'.event = handling.event /\ handling'.left = handling.left
    BY <2>1 DEF Shape, Handlings
  <2>4. \A r \in registered : connected_'[r] /\ LossHandled(r) => LossHandled(r)'
    BY <2>2, <2>3 DEF LossHandled
  <2> QED
    BY <2>1, <2>2, <2>3, <2>4, QuietSteps
<1>14. CASE Retry \/ handle_disconnect \/ handle_ip
  <2>1. /\ UNCHANGED <<registered, connected_>> /\ handling.step # "flags"
        /\ \/ handling' = [handling EXCEPT !.at = NULL, !.step = "none"]
           \/ handling' = [handling EXCEPT !.step = "tell"]
    BY <1>14 DEF Retry, handle_disconnect, handle_ip, Leave, In, staVars
  <2>2. handling'.event = handling.event /\ handling'.left = handling.left
    BY <2>1 DEF Shape, Handlings
  <2>3. \A r \in registered : LossHandled(r) => LossHandled(r)'
    BY <2>1, <2>2 DEF LossHandled
  <2> QED
    BY <2>1, <2>2, <2>3, QuietSteps
<1> QED
  BY <1>8, <1>9, <1>10, <1>11, <1>12, <1>13, <1>14 DEF WiFiNext, CallStep, EventTask

-----------------------------------------------------------------------------
(* Without a station the facade's own flag is only set while a call is      *)
(* about to make one, or about to clear it.                                  *)

Ending == todo # <<>> /\ Last(todo) = "endFacade"

EndOK ==
    sta_ = NULL /\ (m_connected \/ fresh # NULL) => Position = "configure" \/ Ending

\* Every step keeps the facade's flag accounted for.
LEMMA EndStep ==
    ASSUME Shape, Shape', EndOK, [WiFiNext]_wifiVars
    PROVE  EndOK'
<1>1. CASE UNCHANGED wifiVars
  BY <1>1 DEF wifiVars, staVars, EndOK, Ending, Position
<1> SUFFICES ASSUME WiFiNext PROVE EndOK'
  BY <1>1
\* A step that comes after its plan's last one, or that has others to come.
<1>2. ASSUME NEW p, At(p), Done, p # "endFacade"
      PROVE  Position = p /\ (Ending => Ending')
  BY <1>2, Moves DEF Shape, Ending
<1>3. ASSUME UNCHANGED <<sta_, fresh>>, m_connected' => m_connected,
             NEW p, At(p), Done, p \notin {"configure", "endFacade"}
      PROVE  EndOK'
  BY <1>2, <1>3 DEF EndOK
<1>4. CASE Call
  <2>1. todo = <<>> /\ Position = "none" /\ ~ Ending
        /\ UNCHANGED <<sta_, fresh, m_connected>>
    BY <1>4 DEF Call, Position, Ending, staVars
  <2> QED
    BY <2>1 DEF EndOK
<1>5. CASE Construct
  <2>1. Position' = "configure"
    BY <1>5, Moves DEF Construct, Shape, Follow, Finals
  <2> QED
    BY <2>1 DEF EndOK
<1>6. CASE Configure
  <2>1. Position = "configure"
    BY <1>6, Moves DEF Configure, Shape
  <2>2. sta_' # NULL
    BY <1>6, <2>1 DEF Configure, Shape, StationsOK
  <2> QED
    BY <2>2 DEF EndOK
<1>7. CASE DestroyFlags \/ Unregister \/ EnsureReady \/ ResetConnected \/ Join \/ StopFlags
           \/ MakeAp \/ DropOldAp \/ StopAp \/ DestroyAp \/ Scan
  <2>1. /\ UNCHANGED <<sta_, fresh, m_connected>> /\ Done
        /\ \E p : At(p) /\ p \notin {"configure", "endFacade"}
    BY <1>7 DEF DestroyFlags, Unregister, EnsureReady, ResetConnected, Join, StopFlags,
       MakeAp, DropOldAp, StopAp, DestroyAp, Scan, staVars
  <2> QED
    BY <2>1, <1>3
<1>8. CASE Shutdown
  <2>1. /\ At("shutdown") /\ Done /\ fresh' = NULL
        /\ sta_' = sta_ /\ m_connected' = m_connected
    BY <1>8 DEF Shutdown
  <2>2. Position = "shutdown" /\ (Ending => Ending')
    BY <2>1, <1>2
  <2> QED
    BY <2>1, <2>2 DEF EndOK
<1>9. CASE CheckConnected
  <2>1. At("checkConnected") /\ UNCHANGED <<sta_, fresh, m_connected>>
    BY <1>9 DEF CheckConnected, staVars
  <2>2. Position = "checkConnected" /\ ~ Ending
    <3>1. todo \in Seq(StepNames) /\ todo # <<>> /\ Head(todo) = "checkConnected"
      BY <2>1 DEF At, Shape, Plan
    <3>2. 1 \in 1 .. Len(todo) /\ todo[1] = "checkConnected"
      BY <3>1, HeadTailProperties, EmptySeq
    <3>3. Last(todo) = "join"
      BY <3>2 DEF Shape, Plan, KeepsEnd
    <3> QED
      BY <3>1, <3>3 DEF Position, Ending
  <2> QED
    BY <2>1, <2>2 DEF EndOK
<1>10. CASE StopLink
  <2>1. At("stopLink") /\ Done
    BY <1>10 DEF StopLink
  <2>2. Ending
    <3>1. todo \in Seq(StepNames) /\ todo # <<>> /\ Head(todo) = "stopLink"
      BY <2>1 DEF At, Shape, Plan
    <3>2. 1 \in 1 .. Len(todo) /\ todo[1] = "stopLink"
      BY <3>1, HeadTailProperties, EmptySeq
    <3> QED
      BY <3>1, <3>2 DEF Shape, Plan, KeepsEnd, Ending
  <2>3. Ending'
    BY <1>2, <2>1, <2>2
  <2> QED
    BY <2>3 DEF EndOK
<1>11. CASE EndFacade
  <2>1. Position = "endFacade"
    BY <1>11, Moves DEF EndFacade, Shape
  <2>2. fresh = NULL
    BY <2>1 DEF Shape, StationsOK, Making
  <2> QED
    BY <1>11, <2>2 DEF EndFacade, EndOK, staVars
<1>12. CASE handle_ip
  <2>1. /\ UNCHANGED <<sta_, fresh, todo>> /\ handling.step = "tell"
        /\ m_connected' = (m_connected \/ ~ Cleared(handling.at))
    BY <1>12 DEF handle_ip, In, staVars
  <2>2. handling.at \in registered
    BY <2>1 DEF Shape, HandlingOK
  <2>3. sta_ = NULL => fresh # NULL
    BY <2>2 DEF Shape, StationsOK
  <2> QED
    BY <2>1, <2>3 DEF EndOK, Ending, Position
<1>13. CASE handle_disconnect
  <2>1. UNCHANGED <<sta_, fresh, todo>> /\ (m_connected' => m_connected)
    BY <1>13 DEF handle_disconnect, staVars
  <2> QED
    BY <2>1 DEF EndOK, Ending, Position
<1>14. CASE \/ Dispatch \/ NextHandler \/ OnStart \/ OnDisconnected \/ Retry
            \/ OnGotIp \/ Associates \/ LosesLink
  <2>1. UNCHANGED <<sta_, fresh, todo, m_connected>>
    BY <1>14 DEF Dispatch, NextHandler, OnStart, OnDisconnected, Retry,
       OnGotIp, Associates, LosesLink, staVars
  <2> QED
    BY <2>1 DEF EndOK, Ending, Position
<1> QED
  BY <1>4, <1>5, <1>6, <1>7, <1>8, <1>9, <1>10, <1>11, <1>12, <1>13, <1>14
     DEF WiFiNext, CallStep, EventTask

-----------------------------------------------------------------------------
\* isConnected is true only of a link that is up, or of one whose loss the
\* handler has still to see.
THEOREM ConnectedIsTrue == WiFiSpec => []NoFalseLink
<1> DEFINE I == Shape /\ LinkOK /\ AddressOK /\ EndOK
<1>1. WiFiInit => I
  <2>1. WiFiInit => EndOK
    BY DEF WiFiInit, EndOK
  <2> QED
    BY <2>1, ShapeInit, LinkInit
<1>2. I /\ [WiFiNext]_wifiVars => I'
  BY ShapeStep, LinkStep, EndStep
<1>3. I => NoFalseLink
  <2> SUFFICES ASSUME I, isConnected, todo = <<>>
               PROVE  link = "up" \/ (sta_ # NULL /\ LossPending(sta_))
    BY DEF NoFalseLink
  <2>1. CASE sta_ = NULL
    BY <2>1 DEF isConnected, EndOK, Ending, Position
  <2>2. CASE sta_ # NULL
    <3>1. sta_ \in registered
      BY <2>2 DEF Shape, StationsOK
    <3> QED
      BY <2>2, <3>1, LossIsPending DEF isConnected, LinkOK
  <2> QED
    BY <2>1, <2>2
<1> HIDE DEF I
<1> QED
  BY <1>1, <1>2, <1>3, PTL DEF WiFiSpec
=============================================================================
