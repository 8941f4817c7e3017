------------------------- MODULE ThreadTimers_proofs -------------------------
(***************************************************************************)
(* What Thread and DelayExec keep when they are used together.             *)
(***************************************************************************)
EXTENDS ThreadTimers, Thread_proofs, DelayExec_proofs

\* Every step of the composition is a step, or none, of each part.
LEMMA PartSteps ==
    [Next]_vars => [ThreadNext]_threadVars /\ [DelayNext]_delayVars
<1> SUFFICES ASSUME [Next]_vars
             PROVE  [ThreadNext]_threadVars /\ [DelayNext]_delayVars
  OBVIOUS
<1>1. CASE OwnerStep
  BY <1>1 DEF OwnerStep, ThreadNext
<1>2. CASE OtherUsersStep
  BY <1>2 DEF OtherUsersStep, DelayNext
<1>3. ASSUME NEW t \in Tasks, TaskStep(t)
      PROVE  [ThreadNext]_threadVars /\ [DelayNext]_delayVars
  BY <1>3 DEF TaskStep, ThreadNext
<1>4. ASSUME NEW t \in Tasks, BodyDelays(t) \/ DaemonStep(t)
      PROVE  [ThreadNext]_threadVars /\ [DelayNext]_delayVars
  BY <1>4, OneRequestPerTask DEF BodyDelays, DaemonStep, DelayNext
<1>5. CASE UNCHANGED vars
  BY <1>5 DEF vars
<1> QED
  BY <1>1, <1>2, <1>3, <1>4, <1>5 DEF Next

\* The composition implements both parts.
THEOREM PartsImplemented == Spec => ThreadSpec /\ DelaySpec
<1>1. Init => ThreadInit /\ DelayInit
  BY DEF Init
<1> QED
  BY <1>1, PartSteps, PTL DEF Spec, ThreadSpec, DelaySpec

\* Types, and the ranges of the queue and its users, are kept.
THEOREM TypesKept == Spec => []TypeOK
<1>1. ThreadTypeOK /\ DelayTypeOK => TypeOK
  BY DEF TypeOK
<1> QED
  BY <1>1, PartsImplemented, ThreadSafety, DelaySafety, PTL

\* Bodies that call delay_exec, and tasks that are deleted inside it, do not
\* make the handle lose a task (Thread.hpp:90-161, :248-257).
THEOREM NoTaskEscapes == Spec => []NoOrphan
  BY PartsImplemented, ThreadSafety, PTL

\* While no stop is under way a handle that is set names a task that is there.
THEOREM HandleNamesTask == Spec => []HandleLive
  BY PartsImplemented, ThreadSafety, PTL

\* start takes back a stop only when no task has to obey it any more.
THEOREM StopsAreKept == Spec => StopNotRevoked
  BY PartsImplemented, ThreadStopNotRevoked, PTL

\* A context lives as long as it is used, even when the task that made it is
\* deleted inside delay_exec (DelayExec.hpp:16-23, :48-51).
THEOREM ContextsLive == Spec => []ContextLive
  BY PartsImplemented, DelaySafety, PTL

\* No command names a timer that is freed.
THEOREM FreedTimersRest == Spec => []FreedTimersUnused
  BY PartsImplemented, DelaySafety, PTL

\* delay_exec keeps its promise when the tasks that call it may be deleted.
THEOREM PromiseKept == Spec => OneShotSpec
  BY PartsImplemented, DelayImplementsOneShot, PTL
=============================================================================
