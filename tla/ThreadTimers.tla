---------------------------- MODULE ThreadTimers ----------------------------
(* Threads whose bodies call delay_exec: the two headers used together.  A  *)
(* task that is deleted in the middle of delay_exec leaves its call as it   *)
(* was, and the timer service goes on.                                      *)
EXTENDS Thread, DelayExec

ASSUME OneRequestPerTask == Requests = Tasks

vars == <<threadVars, delayVars>>

Init == ThreadInit /\ DelayInit

Calling(t) == call[t] \in {"starting", "refusing", "freeing"}

OwnerStep == Owner /\ UNCHANGED delayVars

\* A body returns only when it is not inside delay_exec.
TaskStep(t) == task_entry(t) /\ ~ Calling(t) /\ UNCHANGED delayVars
BodyDelays(t) == task[t] = "body" /\ delay_exec(t) /\ UNCHANGED threadVars
DaemonStep(t) == Daemon(t) /\ UNCHANGED threadVars
OtherUsersStep == OtherUsers /\ UNCHANGED threadVars

Next ==
    \/ OwnerStep \/ OtherUsersStep
    \/ \E t \in Tasks : TaskStep(t) \/ BodyDelays(t) \/ DaemonStep(t)

Spec == Init /\ [][Next]_vars

\* The scheduler runs the owner, the tasks and the daemon; a body need not
\* look at the flag, and an application need not call start or stop.
Fairness ==
    /\ WF_vars(stop /\ UNCHANGED delayVars) /\ WF_vars(CreateTask /\ UNCHANGED delayVars)
    /\ \A t \in Tasks : WF_vars(BodyDelays(t) /\ Calling(t)) /\ WF_vars(DaemonStep(t))

FairSpec == Spec /\ Fairness

TypeOK == ThreadTypeOK /\ DelayTypeOK

\* stop returns, whatever the body does, or the owner is lost
\* (Thread.hpp:149-160).
StopReturns == owner \in Stopping ~> owner \notin Stopping

\* The task was deleted by the owner while it was in delay_exec.
CutOff(t) == Calling(t) /\ task[t] = "deleted"

\* A context is freed in the end (DelayExec.hpp:21, :45, :50), but for two
\* cases: its caller was deleted in between, or the daemon waits for itself,
\* which this property does not forbid.
ContextsFreed ==
    \A t \in Tasks : ctx[t] = "live" ~> ctx[t] = "freed" \/ CutOff(t) \/ DaemonStuck
=============================================================================
