----------------------------- MODULE DelayExec -----------------------------
(* delay_exec (src/include/DelayExec.hpp): a callback is put into a context *)
(* on the heap and a one-shot FreeRTOS software timer is created for it.    *)
(* Timers are started and deleted by commands to the queue of the timer     *)
(* service task (the daemon), which runs the callbacks.  A timer gets one   *)
(* start and one delete command at most, and never waits for both, so the   *)
(* queue is a set; other users of timers take up room in it as well.        *)
EXTENDS Naturals, FiniteSets

CONSTANTS
    Requests,    \* calls of delay_exec
    QueueLength  \* configTIMER_QUEUE_LENGTH

ASSUME QueueAssumption == QueueLength \in Nat \ {0}

VARIABLES
    call,    \* progress of each call
    ctx,     \* its Context: "none", "live", "freed"
    timer,   \* its timer: "none", "dormant", "active", "freed"
    ran,     \* how often its callback was run
    queue,   \* commands waiting for the daemon
    others,  \* commands of other users of timers in the queue
    daemon   \* what the daemon is doing, and for which request

delayVars == <<call, ctx, timer, ran, queue, others, daemon>>

Commands == {"start", "delete"} \X Requests
NoOne == [st |-> "idle", for |-> {}]

DelayInit ==
    /\ call = [r \in Requests |-> "new"]
    /\ ctx = [r \in Requests |-> "none"]
    /\ timer = [r \in Requests |-> "none"]
    /\ ran = [r \in Requests |-> 0]
    /\ queue = {} /\ others = 0 /\ daemon = NoOne

HasRoom == Cardinality(queue) + others < QueueLength

-----------------------------------------------------------------------------
(* The caller.                                                               *)

\* new Context and xTimerCreate, which may fail: then the context is freed.
Create(r) ==
    /\ call[r] = "new"
    /\ \/ /\ call' = [call EXCEPT ![r] = "starting"]
          /\ ctx' = [ctx EXCEPT ![r] = "live"]
          /\ timer' = [timer EXCEPT ![r] = "dormant"]
       \/ /\ call' = [call EXCEPT ![r] = "refused"]
          /\ ctx' = [ctx EXCEPT ![r] = "freed"]
          /\ UNCHANGED timer
    /\ UNCHANGED <<ran, queue, others, daemon>>

\* xTimerStart(timer, 0) does not wait for room in the queue.
StartTimerInverted(r) ==
    /\ call[r] = "starting"
    /\ IF HasRoom
         THEN /\ queue' = queue \cup {<<"start", r>>}
              /\ call' = [call EXCEPT ![r] = "refusing"]
         ELSE call' = [call EXCEPT ![r] = "accepted"] /\ UNCHANGED queue
    /\ UNCHANGED <<ctx, timer, ran, others, daemon>>

StartTimer(r) ==
    /\ call[r] = "starting"
    /\ IF HasRoom
         THEN /\ queue' = queue \cup {<<"start", r>>}
              /\ call' = [call EXCEPT ![r] = "accepted"]
         ELSE call' = [call EXCEPT ![r] = "refusing"] /\ UNCHANGED queue
    /\ UNCHANGED <<ctx, timer, ran, others, daemon>>

\* The timer that was not started: xTimerDelete(timer, 0) does not wait either,
\* and its result is not looked at.
DeleteUnstarted(r) ==
    /\ call[r] = "refusing" /\ call' = [call EXCEPT ![r] = "freeing"]
    /\ IF HasRoom THEN queue' = queue \cup {<<"delete", r>>} ELSE UNCHANGED queue
    /\ UNCHANGED <<ctx, timer, ran, others, daemon>>

FreeContextForgotten(r) ==
    /\ call[r] = "freeing" /\ call' = [call EXCEPT ![r] = "refused"]
    /\ UNCHANGED <<ctx, timer, ran, queue, others, daemon>>

FreeContext(r) ==
    /\ call[r] = "freeing" /\ call' = [call EXCEPT ![r] = "refused"]
    /\ ctx' = [ctx EXCEPT ![r] = "freed"]
    /\ UNCHANGED <<timer, ran, queue, others, daemon>>

delay_exec(r) == Create(r) \/ StartTimer(r) \/ DeleteUnstarted(r) \/ FreeContext(r)

-----------------------------------------------------------------------------
(* The daemon.                                                               *)

ProcessStart(r) ==
    /\ daemon = NoOne /\ <<"start", r>> \in queue
    /\ queue' = queue \ {<<"start", r>>}
    /\ timer' = [timer EXCEPT ![r] = "active"]
    /\ UNCHANGED <<call, ctx, ran, others, daemon>>

ProcessDelete(r) ==
    /\ daemon = NoOne /\ <<"delete", r>> \in queue
    /\ queue' = queue \ {<<"delete", r>>}
    /\ timer' = [timer EXCEPT ![r] = "freed"]
    /\ UNCHANGED <<call, ctx, ran, others, daemon>>

ExpireReloading(r) ==
    /\ daemon = NoOne /\ timer[r] = "active"
    /\ daemon' = [st |-> "callback", for |-> {r}]
    /\ ran' = [ran EXCEPT ![r] = @ + 1]
    /\ UNCHANGED <<call, ctx, timer, queue, others>>

ExpireFreeing(r) ==
    /\ daemon = NoOne /\ timer[r] = "active"
    /\ timer' = [timer EXCEPT ![r] = "dormant"]
    /\ ctx' = [ctx EXCEPT ![r] = "freed"]
    /\ daemon' = [st |-> "callback", for |-> {r}]
    /\ ran' = [ran EXCEPT ![r] = @ + 1]
    /\ UNCHANGED <<call, queue, others>>

\* The timer expires (it is not reloaded) and delay_exec_timer_callback runs
\* the callback of its context.
Expire(r) ==
    /\ daemon = NoOne /\ timer[r] = "active"
    /\ timer' = [timer EXCEPT ![r] = "dormant"]
    /\ daemon' = [st |-> "callback", for |-> {r}]
    /\ ran' = [ran EXCEPT ![r] = @ + 1]
    /\ UNCHANGED <<call, ctx, queue, others>>

CallbackEnds(r) ==
    /\ daemon = [st |-> "callback", for |-> {r}]
    /\ ctx' = [ctx EXCEPT ![r] = "freed"]
    /\ daemon' = [st |-> "deleting", for |-> {r}]
    /\ UNCHANGED <<call, timer, ran, queue, others>>

\* xTimerDelete(xTimer, portMAX_DELAY) waits for room that only the daemon,
\* which is waiting here, could make.
DeleteSelf(r) ==
    /\ daemon = [st |-> "deleting", for |-> {r}] /\ HasRoom
    /\ queue' = queue \cup {<<"delete", r>>}
    /\ daemon' = NoOne
    /\ UNCHANGED <<call, ctx, timer, ran, others>>

delay_exec_timer_callback(r) == Expire(r) \/ CallbackEnds(r) \/ DeleteSelf(r)

Daemon(r) == ProcessStart(r) \/ ProcessDelete(r) \/ delay_exec_timer_callback(r)

\* Commands of other users come, and are processed.
OtherUsers ==
    \/ HasRoom /\ others' = others + 1 /\ UNCHANGED <<call, ctx, timer, ran, queue, daemon>>
    \/ /\ daemon = NoOne /\ others > 0 /\ others' = others - 1
       /\ UNCHANGED <<call, ctx, timer, ran, queue, daemon>>

-----------------------------------------------------------------------------
DelayNext == (\E r \in Requests : delay_exec(r) \/ Daemon(r)) \/ OtherUsers

DelaySpec == DelayInit /\ [][DelayNext]_delayVars

DelayTypeOK ==
    /\ call \in [Requests -> {"new", "starting", "refusing", "freeing", "refused", "accepted"}]
    /\ ctx \in [Requests -> {"none", "live", "freed"}]
    /\ timer \in [Requests -> {"none", "dormant", "active", "freed"}]
    /\ ran \in [Requests -> Nat]
    /\ queue \subseteq Commands /\ others \in Nat
    /\ Cardinality(queue) + others <= QueueLength
    /\ daemon \in [st : {"idle", "callback", "deleting"}, for : SUBSET Requests]

\* A request the daemon still has to run: its start command waits, or its
\* timer is active.
Pending(r) == <<"start", r>> \in queue \/ timer[r] = "active"

\* The context is there when the callback runs and when it is still to run,
\* and no timer waits or runs for a refused request (DelayExec.hpp:16, :48).
ContextLive ==
    \A r \in Requests :
        /\ Pending(r) \/ daemon = [st |-> "callback", for |-> {r}] => ctx[r] = "live"
        /\ call[r] = "refused" => ~ Pending(r) /\ ran[r] = 0

\* A timer that the daemon has freed is not used again: no command or expiry
\* for it is left.
FreedTimersUnused ==
    \A r \in Requests : timer[r] = "freed" =>
        /\ \A c \in {"start", "delete"} : <<c, r>> \notin queue
        /\ r \notin daemon.for

\* The daemon waits for itself.
DaemonStuck == daemon.st = "deleting" /\ ~ HasRoom

answer == [r \in Requests |-> IF call[r] \in {"accepted", "refused"} THEN call[r] ELSE "none"]

\* delay_exec implements its promise.
Promise == INSTANCE OneShot
OneShotSpec == Promise!Spec
=============================================================================
