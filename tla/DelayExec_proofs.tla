-------------------------- MODULE DelayExec_proofs --------------------------
(***************************************************************************)
(* Theorems about DelayExec for every set of requests, every length of the *)
(* queue and any use of the queue by others.                               *)
(***************************************************************************)
EXTENDS DelayExec, FiniteSetTheorems, TLAPS

-----------------------------------------------------------------------------
(* The inductive invariant: the life of a request, its context and its     *)
(* timer.                                                                  *)

Has(c, r) == <<c, r>> \in queue

\* The daemon has nothing to do with r yet, and will not have.
Untouched(r) ==
    /\ ~ Has("start", r) /\ timer[r] # "active"
    /\ ran[r] = 0 /\ r \notin daemon.for

\* delay_exec has not returned, or has refused.
Unaccepted(r) ==
    /\ Untouched(r)
    /\ \/ call[r] = "new" /\ timer[r] = "none" /\ ~ Has("delete", r)
       \/ /\ call[r] \in {"starting", "refusing"}
          /\ ctx[r] = "live" /\ timer[r] = "dormant" /\ ~ Has("delete", r)
       \/ /\ call[r] \in {"freeing", "refused"}
          /\ Has("delete", r) => timer[r] = "dormant"

\* Accepted, and the callback is still to be run.
ToRun(r) ==
    /\ call[r] = "accepted" /\ ctx[r] = "live" /\ ran[r] = 0
    /\ r \notin daemon.for /\ ~ Has("delete", r)
    /\ \/ Has("start", r) /\ timer[r] = "dormant"
       \/ ~ Has("start", r) /\ timer[r] = "active"

\* Accepted, and the callback runs or was run.
HasRun(r) ==
    /\ call[r] = "accepted" /\ ran[r] = 1 /\ ~ Has("start", r)
    /\ \/ /\ r \in daemon.for /\ timer[r] = "dormant" /\ ~ Has("delete", r)
          /\ daemon.st = "callback" => ctx[r] = "live"
       \/ r \notin daemon.for /\ timer[r] = "dormant" /\ Has("delete", r)
       \/ r \notin daemon.for /\ timer[r] = "freed" /\ ~ Has("delete", r)

LifeOK == \A r \in Requests : Unaccepted(r) \/ ToRun(r) \/ HasRun(r)

DelayInv == DelayTypeOK /\ IsFiniteSet(queue) /\ LifeOK

-----------------------------------------------------------------------------
(* A step leaves the requests alone that it is not about.                  *)

Apart(r) ==
    /\ call'[r] = call[r] /\ ctx'[r] = ctx[r] /\ timer'[r] = timer[r]
    /\ ran'[r] = ran[r]
    /\ \A c \in {"start", "delete"} : Has(c, r)' <=> Has(c, r)
    /\ r \in daemon'.for <=> r \in daemon.for
    /\ r \in daemon.for => daemon'.st = daemon.st

\* A change of one request leaves what is known of the others.
LEMMA ApartLife ==
    ASSUME NEW r \in Requests, Apart(r), Unaccepted(r) \/ ToRun(r) \/ HasRun(r)
    PROVE  (Unaccepted(r) \/ ToRun(r) \/ HasRun(r))'
  BY DEF Apart, Unaccepted, Untouched, ToRun, HasRun, Has

\* What is left to show of a step about r.
LEMMA OneLife ==
    ASSUME NEW r \in Requests, LifeOK, \A q \in Requests \ {r} : Apart(q),
           (Unaccepted(r) \/ ToRun(r) \/ HasRun(r))'
    PROVE  LifeOK'
  BY ApartLife DEF LifeOK

\* A command that finds room keeps the queue in its bounds.
LEMMA SendRoom ==
    ASSUME DelayTypeOK, IsFiniteSet(queue), HasRoom, NEW c \in Commands,
           queue' = queue \cup {c}, others' = others
    PROVE  /\ IsFiniteSet(queue') /\ queue' \subseteq Commands
           /\ Cardinality(queue') + others' <= QueueLength
<1>1. IsFiniteSet(queue') /\ Cardinality(queue) \in Nat
  BY FS_AddElement, FS_CardinalityType
<1>2. Cardinality(queue') \in {Cardinality(queue), Cardinality(queue) + 1}
  BY FS_AddElement, Zenon
<1> QED
  BY <1>1, <1>2, QueueAssumption DEF DelayTypeOK, HasRoom

\* A command that is taken from the queue makes room.
LEMMA TakeRoom ==
    ASSUME DelayTypeOK, IsFiniteSet(queue), NEW c, queue' = queue \ {c},
           others' = others
    PROVE  /\ IsFiniteSet(queue') /\ queue' \subseteq Commands
           /\ Cardinality(queue') + others' <= QueueLength
<1>1. IsFiniteSet(queue') /\ Cardinality(queue) \in Nat
  BY FS_RemoveElement, FS_CardinalityType
<1>2. Cardinality(queue') \in {Cardinality(queue), Cardinality(queue) - 1}
  BY FS_RemoveElement, Zenon
<1> QED
  BY <1>1, <1>2, QueueAssumption DEF DelayTypeOK

\* Nothing is requested at first.
LEMMA DelayInitInv == DelayInit => DelayInv
  BY FS_EmptySet, QueueAssumption
     DEF DelayInit, DelayInv, DelayTypeOK, NoOne, LifeOK, Unaccepted, Untouched, Has

-----------------------------------------------------------------------------
(* The steps of the caller.                                                 *)

\* A request gets a context and a timer.
LEMMA CreateInv ==
    ASSUME NEW r \in Requests, DelayInv, Create(r)
    PROVE  DelayInv'
<1>1. DelayTypeOK' /\ IsFiniteSet(queue')
  BY DEF DelayInv, DelayTypeOK, Create
<1>2. \A q \in Requests \ {r} : Apart(q)
  BY DEF DelayInv, DelayTypeOK, Create, Apart, Has
<1>3. (Unaccepted(r) \/ ToRun(r) \/ HasRun(r))'
  BY DEF DelayInv, DelayTypeOK, LifeOK, Create, Unaccepted, Untouched, ToRun, HasRun, Has
<1> QED
  BY <1>1, <1>2, <1>3, OneLife DEF DelayInv

\* The start command is queued, or there is no room for it.
LEMMA StartTimerInv ==
    ASSUME NEW r \in Requests, DelayInv, StartTimer(r)
    PROVE  DelayInv'
<1>1. DelayTypeOK' /\ IsFiniteSet(queue')
  <2>1. CASE HasRoom
    <3>1. <<"start", r>> \in Commands
      BY DEF Commands
    <3> QED
      BY <2>1, <3>1, SendRoom DEF DelayInv, DelayTypeOK, StartTimer
  <2>2. CASE ~ HasRoom
    BY <2>2 DEF DelayInv, DelayTypeOK, StartTimer
  <2> QED
    BY <2>1, <2>2
<1>2. \A q \in Requests \ {r} : Apart(q)
  BY DEF DelayInv, DelayTypeOK, StartTimer, Apart, Has
<1>3. (Unaccepted(r) \/ ToRun(r) \/ HasRun(r))'
  BY DEF DelayInv, DelayTypeOK, LifeOK, StartTimer, Unaccepted, Untouched, ToRun, HasRun, Has
<1> QED
  BY <1>1, <1>2, <1>3, OneLife DEF DelayInv

\* Without a start the timer is deleted unused.
LEMMA DeleteUnstartedInv ==
    ASSUME NEW r \in Requests, DelayInv, DeleteUnstarted(r)
    PROVE  DelayInv'
<1>1. DelayTypeOK' /\ IsFiniteSet(queue')
  <2>1. CASE HasRoom
    <3>1. <<"delete", r>> \in Commands
      BY DEF Commands
    <3> QED
      BY <2>1, <3>1, SendRoom DEF DelayInv, DelayTypeOK, DeleteUnstarted
  <2>2. CASE ~ HasRoom
    BY <2>2 DEF DelayInv, DelayTypeOK, DeleteUnstarted
  <2> QED
    BY <2>1, <2>2
<1>2. \A q \in Requests \ {r} : Apart(q)
  BY DEF DelayInv, DelayTypeOK, DeleteUnstarted, Apart, Has
<1>3. (Unaccepted(r) \/ ToRun(r) \/ HasRun(r))'
  BY DEF DelayInv, DelayTypeOK, LifeOK, DeleteUnstarted, Unaccepted, Untouched, ToRun,
         HasRun, Has
<1> QED
  BY <1>1, <1>2, <1>3, OneLife DEF DelayInv

\* The context of a request that failed is freed by its maker.
LEMMA FreeContextInv ==
    ASSUME NEW r \in Requests, DelayInv, FreeContext(r)
    PROVE  DelayInv'
<1>1. DelayTypeOK' /\ IsFiniteSet(queue')
  BY DEF DelayInv, DelayTypeOK, FreeContext
<1>2. \A q \in Requests \ {r} : Apart(q)
  BY DEF DelayInv, DelayTypeOK, FreeContext, Apart, Has
<1>3. (Unaccepted(r) \/ ToRun(r) \/ HasRun(r))'
  BY DEF DelayInv, DelayTypeOK, LifeOK, FreeContext, Unaccepted, Untouched, ToRun, HasRun,
         Has
<1> QED
  BY <1>1, <1>2, <1>3, OneLife DEF DelayInv

-----------------------------------------------------------------------------
(* The steps of the daemon.                                                 *)

\* The daemon starts a timer that has not run.
LEMMA ProcessStartInv ==
    ASSUME NEW r \in Requests, DelayInv, ProcessStart(r)
    PROVE  DelayInv'
<1>1. DelayTypeOK' /\ IsFiniteSet(queue')
  BY TakeRoom DEF DelayInv, DelayTypeOK, ProcessStart
<1>2. \A q \in Requests \ {r} : Apart(q)
  BY DEF DelayInv, DelayTypeOK, ProcessStart, Apart, Has
<1>3. (Unaccepted(r) \/ ToRun(r) \/ HasRun(r))'
  BY DEF DelayInv, DelayTypeOK, LifeOK, ProcessStart, Unaccepted, Untouched, ToRun, HasRun,
         Has
<1> QED
  BY <1>1, <1>2, <1>3, OneLife DEF DelayInv

\* The daemon deletes a timer that nobody else names.
LEMMA ProcessDeleteInv ==
    ASSUME NEW r \in Requests, DelayInv, ProcessDelete(r)
    PROVE  DelayInv'
<1>1. DelayTypeOK' /\ IsFiniteSet(queue')
  BY TakeRoom DEF DelayInv, DelayTypeOK, ProcessDelete
<1>2. \A q \in Requests \ {r} : Apart(q)
  BY DEF DelayInv, DelayTypeOK, ProcessDelete, Apart, Has
<1>3. (Unaccepted(r) \/ ToRun(r) \/ HasRun(r))'
  BY DEF DelayInv, DelayTypeOK, LifeOK, ProcessDelete, Unaccepted, Untouched, ToRun,
         HasRun, Has
<1> QED
  BY <1>1, <1>2, <1>3, OneLife DEF DelayInv

\* A timer that runs still has its context.
LEMMA ExpireInv ==
    ASSUME NEW r \in Requests, DelayInv, Expire(r)
    PROVE  DelayInv'
<1>1. DelayTypeOK' /\ IsFiniteSet(queue')
  BY DEF DelayInv, DelayTypeOK, Expire
<1>2. \A q \in Requests \ {r} : Apart(q)
  BY DEF DelayInv, DelayTypeOK, Expire, NoOne, Apart, Has
<1>3. (Unaccepted(r) \/ ToRun(r) \/ HasRun(r))'
  BY DEF DelayInv, DelayTypeOK, LifeOK, Expire, Unaccepted, Untouched, ToRun, HasRun, Has
<1> QED
  BY <1>1, <1>2, <1>3, OneLife DEF DelayInv

\* The callback frees the context it ran with.
LEMMA CallbackEndsInv ==
    ASSUME NEW r \in Requests, DelayInv, CallbackEnds(r)
    PROVE  DelayInv'
<1>1. DelayTypeOK' /\ IsFiniteSet(queue')
  BY DEF DelayInv, DelayTypeOK, CallbackEnds
<1>2. \A q \in Requests \ {r} : Apart(q)
  BY DEF DelayInv, DelayTypeOK, CallbackEnds, Apart, Has
<1>3. (Unaccepted(r) \/ ToRun(r) \/ HasRun(r))'
  BY DEF DelayInv, DelayTypeOK, LifeOK, CallbackEnds, Unaccepted, Untouched, ToRun, HasRun,
         Has
<1> QED
  BY <1>1, <1>2, <1>3, OneLife DEF DelayInv

\* The callback asks for its own timer to be deleted.
LEMMA DeleteSelfInv ==
    ASSUME NEW r \in Requests, DelayInv, DeleteSelf(r)
    PROVE  DelayInv'
<1>1. DelayTypeOK' /\ IsFiniteSet(queue')
  <2>1. <<"delete", r>> \in Commands
    BY DEF Commands
  <2> QED
    BY <2>1, SendRoom DEF DelayInv, DelayTypeOK, DeleteSelf, NoOne
<1>2. \A q \in Requests \ {r} : Apart(q)
  BY DEF DelayInv, DelayTypeOK, DeleteSelf, NoOne, Apart, Has
<1>3. (Unaccepted(r) \/ ToRun(r) \/ HasRun(r))'
  BY DEF DelayInv, DelayTypeOK, LifeOK, DeleteSelf, NoOne, Unaccepted, Untouched, ToRun,
         HasRun, Has
<1> QED
  BY <1>1, <1>2, <1>3, OneLife DEF DelayInv

\* Commands of others only take up room.
LEMMA OthersInv == DelayInv /\ OtherUsers => DelayInv'
<1> SUFFICES ASSUME DelayInv, OtherUsers
             PROVE  DelayInv'
  OBVIOUS
<1>1. Cardinality(queue) \in Nat
  BY FS_CardinalityType DEF DelayInv
<1>2. UNCHANGED <<call, ctx, timer, ran, queue, daemon>>
  BY DEF OtherUsers
<1>3. others' \in Nat /\ Cardinality(queue) + others' <= QueueLength
  BY <1>1, QueueAssumption DEF OtherUsers, HasRoom, DelayInv, DelayTypeOK
<1>4. LifeOK'
  BY <1>2 DEF DelayInv, LifeOK, Unaccepted, Untouched, ToRun, HasRun, Has
<1> QED
  BY <1>2, <1>3, <1>4 DEF DelayInv, DelayTypeOK

\* Each step keeps the invariant.
LEMMA DelayStepInv == DelayInv /\ [DelayNext]_delayVars => DelayInv'
<1> SUFFICES ASSUME DelayInv, [DelayNext]_delayVars
             PROVE  DelayInv'
  OBVIOUS
<1>1. ASSUME NEW r \in Requests, delay_exec(r)
      PROVE  DelayInv'
  BY <1>1, CreateInv, StartTimerInv, DeleteUnstartedInv, FreeContextInv DEF delay_exec
<1>2. ASSUME NEW r \in Requests, Daemon(r)
      PROVE  DelayInv'
  BY <1>2, ProcessStartInv, ProcessDeleteInv, ExpireInv, CallbackEndsInv, DeleteSelfInv
     DEF Daemon, delay_exec_timer_callback
<1>3. CASE OtherUsers
  BY <1>3, OthersInv
<1>4. CASE UNCHANGED delayVars
  BY <1>4 DEF delayVars, DelayInv, DelayTypeOK, LifeOK, Unaccepted, Untouched, ToRun,
              HasRun, Has
<1> QED
  BY <1>1, <1>2, <1>3, <1>4 DEF DelayNext

-----------------------------------------------------------------------------
(* The theorems.                                                            *)

\* Every request goes through its life in order (DelayExec.hpp:16-23, :37-54).
THEOREM DelayInvariant == DelaySpec => []DelayInv
  BY DelayInitInv, DelayStepInv, PTL DEF DelaySpec

\* The context outlives every use of it, no timer waits or runs for a request
\* that was refused, and a freed timer is not used again.
THEOREM DelaySafety == DelaySpec => [](DelayTypeOK /\ ContextLive /\ FreedTimersUnused)
<1>1. ASSUME DelayInv
      PROVE  DelayTypeOK /\ ContextLive /\ FreedTimersUnused
  <2>1. ASSUME NEW r \in Requests
        PROVE  /\ Pending(r) => ctx[r] = "live"
               /\ r \in daemon.for /\ daemon.st = "callback" => ctx[r] = "live"
               /\ call[r] = "refused" => ~ Pending(r) /\ ran[r] = 0
    BY <1>1 DEF DelayInv, LifeOK, Pending, Unaccepted, Untouched, ToRun, HasRun, Has
  <2>2. FreedTimersUnused
    BY <1>1 DEF DelayInv, LifeOK, FreedTimersUnused, Unaccepted, Untouched, ToRun, HasRun,
                Has
  <2> QED
    BY <1>1, <2>1, <2>2 DEF DelayInv, ContextLive
<1> QED
  BY <1>1, DelayInvariant, PTL

-----------------------------------------------------------------------------
(* delay_exec implements OneShot.                                           *)

\* At first nothing is promised, and nothing was run.
LEMMA PromiseInit == DelayInit => Promise!Init
  BY DEF DelayInit, Promise!Init, answer

\* A step that answers no request and runs no callback.
LEMMA SilentStep ==
    ASSUME UNCHANGED ran, \A r \in Requests :
             \/ call'[r] = call[r]
             \/ {call[r], call'[r]} \cap {"accepted", "refused"} = {}
    PROVE  UNCHANGED <<answer, ran>>
  BY DEF answer

\* A step that answers one.
LEMMA AnswerStep ==
    ASSUME NEW r \in Requests, NEW a \in {"accepted", "refused"},
           call \in [Requests -> {"new", "starting", "refusing", "freeing", "refused",
                                  "accepted"}],
           call[r] \notin {"accepted", "refused"},
           call' = [call EXCEPT ![r] = a], UNCHANGED ran
    PROVE  Promise!Next
<1>1. answer[r] = "none" /\ answer' = [answer EXCEPT ![r] = a]
  BY DEF answer
<1> QED
  BY <1>1 DEF Promise!Next, Promise!Accept, Promise!Refuse

\* Each step is a step of the promise, or leaves it alone.
LEMMA PromiseStep == DelayInv /\ [DelayNext]_delayVars => [Promise!Next]_<<answer, ran>>
<1> SUFFICES ASSUME DelayInv, [DelayNext]_delayVars
             PROVE  [Promise!Next]_<<answer, ran>>
  OBVIOUS
<1> USE DEF DelayInv, DelayTypeOK
<1>1. ASSUME NEW r \in Requests, Create(r)
      PROVE  [Promise!Next]_<<answer, ran>>
  BY <1>1, SilentStep, AnswerStep DEF Create
<1>2. ASSUME NEW r \in Requests, StartTimer(r)
      PROVE  [Promise!Next]_<<answer, ran>>
  BY <1>2, SilentStep, AnswerStep DEF StartTimer
<1>3. ASSUME NEW r \in Requests, DeleteUnstarted(r)
      PROVE  [Promise!Next]_<<answer, ran>>
  BY <1>3, SilentStep DEF DeleteUnstarted
<1>4. ASSUME NEW r \in Requests, FreeContext(r)
      PROVE  [Promise!Next]_<<answer, ran>>
  BY <1>4, AnswerStep DEF FreeContext
<1>5. ASSUME NEW r \in Requests, Expire(r)
      PROVE  [Promise!Next]_<<answer, ran>>
  <2>1. call[r] = "accepted" /\ ran[r] = 0
    BY <1>5 DEF Expire, LifeOK, Unaccepted, Untouched, ToRun, HasRun
  <2>2. answer[r] = "accepted" /\ UNCHANGED answer
    BY <1>5, <2>1 DEF Expire, answer
  <2>3. ran' = [ran EXCEPT ![r] = 1]
    BY <1>5, <2>1 DEF Expire
  <2> QED
    BY <2>1, <2>2, <2>3 DEF Promise!Next, Promise!Run
<1>6. ASSUME NEW r \in Requests,
             ProcessStart(r) \/ ProcessDelete(r) \/ CallbackEnds(r) \/ DeleteSelf(r)
      PROVE  [Promise!Next]_<<answer, ran>>
  BY <1>6, SilentStep DEF ProcessStart, ProcessDelete, CallbackEnds, DeleteSelf
<1>7. CASE OtherUsers \/ UNCHANGED delayVars
  BY <1>7, SilentStep DEF OtherUsers, delayVars
<1> QED
  BY <1>1, <1>2, <1>3, <1>4, <1>5, <1>6, <1>7
     DEF DelayNext, delay_exec, Daemon, delay_exec_timer_callback

\* delay_exec keeps its promise: an accepted request runs its callback once at
\* most, a refused one never (DelayExec.hpp:28-36).
THEOREM DelayImplementsOneShot == DelaySpec => OneShotSpec
  BY PromiseInit, PromiseStep, DelayInvariant, PTL DEF DelaySpec, OneShotSpec, Promise!Spec
=============================================================================
