--------------------------- MODULE Thread_proofs ---------------------------
(***************************************************************************)
(* Theorems about Thread for every set of tasks.                           *)
(***************************************************************************)
EXTENDS Thread, TLAPS

-----------------------------------------------------------------------------
(* The inductive invariant: what the owner may rely on where it is.        *)

\* start creates a task when the handle is null.
CreateOK == owner = "create" => m_task = NULL

\* What stop has read is still what the variable holds, or the task has
\* cleared it in between.
HeldOK == owner = "deleting" => m_task \in {held, NULL}

\* stop clears the handle when no task needs it any more.
ClearOK == owner = "clear" => \A t \in Tasks : task[t] \notin Unfinished

ThreadInv ==
    ThreadTypeOK /\ NoOrphan /\ HandleLive /\ CreateOK /\ HeldOK /\ ClearOK

\* A new thread has no task.
LEMMA ThreadInitInv == ThreadInit => ThreadInv
  BY TaskAssumption
     DEF ThreadInit, ThreadInv, ThreadTypeOK, NoOrphan, HandleLive, CreateOK,
         HeldOK, ClearOK, Unfinished, Stopping, Lost

-----------------------------------------------------------------------------
(* The steps of the owner.                                                  *)

\* start makes a task only where none is alive.
LEMMA StartInv == ThreadInv /\ Start => ThreadInv'
  BY TaskAssumption
     DEF Start, ThreadInv, ThreadTypeOK, NoOrphan, HandleLive, CreateOK, HeldOK,
         ClearOK, Unfinished, Stopping, Lost

\* The new task is the only one that has not finished: the handle was null.
LEMMA CreateTaskInv == ThreadInv /\ CreateTask => ThreadInv'
<1> SUFFICES ASSUME ThreadInv, CreateTask
             PROVE  ThreadInv'
  OBVIOUS
<1>1. m_task = NULL /\ \A t \in Tasks : task[t] \notin Unfinished
  BY TaskAssumption DEF CreateTask, ThreadInv, CreateOK, NoOrphan
<1>2. CASE UNCHANGED <<m_task, task>>
  BY <1>1, <1>2 DEF CreateTask, ThreadInv, ThreadTypeOK, NoOrphan, HandleLive,
                    CreateOK, HeldOK, ClearOK, Unfinished, Stopping, Lost
<1>3. ASSUME NEW t \in Tasks, task' = [task EXCEPT ![t] = "ready"], m_task' = t
      PROVE  ThreadInv'
  <2>1. ThreadTypeOK'
    BY <1>3 DEF CreateTask, ThreadInv, ThreadTypeOK, Stopping, Lost
  <2>2. NoOrphan' /\ HandleLive'
    BY <1>1, <1>3 DEF ThreadInv, ThreadTypeOK, NoOrphan, HandleLive, Unfinished
  <2>3. CreateOK' /\ HeldOK' /\ ClearOK'
    BY DEF CreateTask, CreateOK, HeldOK, ClearOK
  <2> QED
    BY <2>1, <2>2, <2>3 DEF ThreadInv
<1> QED
  BY <1>2, <1>3 DEF CreateTask

\* Entering stop changes no task.
LEMMA StopInv == ThreadInv /\ Stop => ThreadInv'
  BY DEF Stop, ThreadInv, ThreadTypeOK, NoOrphan, HandleLive, CreateOK, HeldOK,
         ClearOK, Unfinished, Stopping, Lost

\* Setting the flag changes no task.
LEMMA SetFlagInv == ThreadInv /\ SetFlag => ThreadInv'
  BY DEF SetFlag, ThreadInv, ThreadTypeOK, NoOrphan, HandleLive, CreateOK, HeldOK,
         ClearOK, Unfinished, Stopping, Lost

\* Waiting changes no task.
LEMMA WaitForTaskInv == ThreadInv /\ WaitForTask => ThreadInv'
  BY DEF WaitForTask, ThreadInv, ThreadTypeOK, NoOrphan, HandleLive, CreateOK,
         HeldOK, ClearOK, Unfinished, Stopping, Lost

\* The read of the handle is current when the task has not ended.
LEMMA ReadHandleInv == ThreadInv /\ ReadHandle => ThreadInv'
  BY DEF ReadHandle, ThreadInv, ThreadTypeOK, NoOrphan, HandleLive, CreateOK,
         HeldOK, ClearOK, Unfinished, Stopping, Lost

\* The task that is deleted is the only one that may not have finished.
LEMMA DeleteTaskInv == ThreadInv /\ DeleteTask => ThreadInv'
<1> SUFFICES ASSUME ThreadInv, DeleteTask
             PROVE  ThreadInv'
  OBVIOUS
<1>1. \A t \in Tasks : task[t] \in Unfinished => held = t
  BY TaskAssumption DEF DeleteTask, ThreadInv, HeldOK, NoOrphan
<1>2. CASE held = NULL
  BY <1>2 DEF DeleteTask, ThreadInv, ThreadTypeOK, NoOrphan, HandleLive, CreateOK,
              HeldOK, ClearOK, Unfinished, Stopping, Lost
<1>3. CASE held # NULL
  <2>1. held \in Tasks /\ task' = [task EXCEPT ![held] = "deleted"]
    BY <1>3 DEF DeleteTask, ThreadInv, ThreadTypeOK
  <2>2. \A t \in Tasks : task'[t] \notin Unfinished
    BY <1>1, <2>1 DEF ThreadInv, ThreadTypeOK, Unfinished
  <2>3. ThreadTypeOK'
    BY <1>3, <2>1 DEF DeleteTask, ThreadInv, ThreadTypeOK, Stopping, Lost
  <2>4. owner' \in {"clear", "corrupt"}
    BY <1>3 DEF DeleteTask
  <2> QED
    BY <2>2, <2>3, <2>4 DEF ThreadInv, NoOrphan, HandleLive, CreateOK, HeldOK, ClearOK
<1> QED
  BY <1>2, <1>3

\* stop clears the handle of a task that is gone.
LEMMA ClearHandleInv == ThreadInv /\ ClearHandle => ThreadInv'
  BY DEF ClearHandle, ThreadInv, ThreadTypeOK, NoOrphan, HandleLive, CreateOK,
         HeldOK, ClearOK, Unfinished, Stopping, Lost

\* Each step of an owner keeps the invariant.
LEMMA OwnerInv == ThreadInv /\ Owner => ThreadInv'
  BY StartInv, CreateTaskInv, StopInv, SetFlagInv, WaitForTaskInv, ReadHandleInv,
     DeleteTaskInv, ClearHandleInv
     DEF Owner, stop

-----------------------------------------------------------------------------
(* The steps of a task.                                                     *)

\* Beginning and returning change neither the handle nor whether the task has
\* finished.
LEMMA BodyInv ==
    ASSUME NEW t \in Tasks, ThreadInv, Begin(t) \/ RunReturns(t)
    PROVE  ThreadInv'
<1>1. PICK s \in {"body", "returned"} : task' = [task EXCEPT ![t] = s]
  BY DEF Begin, RunReturns
<1>2. /\ task[t] \in Unfinished
      /\ UNCHANGED <<m_task, m_should_stop, owner, restart, held>>
  BY DEF Begin, RunReturns, Unfinished
<1>3. \A u \in Tasks : task'[u] \in Unfinished <=> task[u] \in Unfinished
  BY <1>1, <1>2 DEF ThreadInv, ThreadTypeOK, Unfinished
<1>4. ThreadTypeOK'
  BY <1>1, <1>2 DEF ThreadInv, ThreadTypeOK
<1> QED
  BY <1>2, <1>3, <1>4
     DEF ThreadInv, ThreadTypeOK, NoOrphan, HandleLive, CreateOK, HeldOK, ClearOK

\* A task that clears the handle was named by it, so no other one loses it.
LEMMA ClearOwnHandleInv ==
    ASSUME NEW t \in Tasks, ThreadInv, ClearOwnHandle(t)
    PROVE  ThreadInv'
<1>1. \A u \in Tasks : task[u] \in Unfinished => u = t
  BY DEF ThreadInv, NoOrphan, ClearOwnHandle, Unfinished
<1>2. \A u \in Tasks : task'[u] \notin Unfinished
  BY <1>1 DEF ThreadInv, ThreadTypeOK, ClearOwnHandle, Unfinished
<1>3. ThreadTypeOK'
  BY DEF ThreadInv, ThreadTypeOK, ClearOwnHandle
<1>4. m_task' = NULL
  BY DEF ClearOwnHandle
<1> QED
  BY <1>2, <1>3, <1>4
     DEF ThreadInv, NoOrphan, HandleLive, CreateOK, HeldOK, ClearOK

\* A task that deletes itself is not the one the handle names.
LEMMA DeleteOwnTaskInv ==
    ASSUME NEW t \in Tasks, ThreadInv, DeleteOwnTask(t)
    PROVE  ThreadInv'
<1>1. /\ task[t] \notin Unfinished
      /\ task' = [task EXCEPT ![t] = "deleted"]
      /\ UNCHANGED <<m_task, m_should_stop, owner, restart, held>>
  BY DEF DeleteOwnTask, Unfinished
<1>2. \A u \in Tasks : task'[u] \in Unfinished <=> task[u] \in Unfinished
  BY <1>1 DEF ThreadInv, ThreadTypeOK, Unfinished
<1>3. ThreadTypeOK'
  BY <1>1 DEF ThreadInv, ThreadTypeOK
<1> QED
  BY <1>1, <1>2, <1>3
     DEF ThreadInv, ThreadTypeOK, NoOrphan, HandleLive, CreateOK, HeldOK, ClearOK

\* Each step of an owner or a task keeps the invariant.
LEMMA ThreadStepInv == ThreadInv /\ [ThreadNext]_threadVars => ThreadInv'
<1> SUFFICES ASSUME ThreadInv, [ThreadNext]_threadVars
             PROVE  ThreadInv'
  OBVIOUS
<1>1. CASE Owner
  BY <1>1, OwnerInv
<1>2. ASSUME NEW t \in Tasks, task_entry(t)
      PROVE  ThreadInv'
  BY <1>2, BodyInv, ClearOwnHandleInv, DeleteOwnTaskInv DEF task_entry
<1>3. CASE UNCHANGED threadVars
  BY <1>3 DEF threadVars, ThreadInv, ThreadTypeOK, NoOrphan, HandleLive, CreateOK,
              HeldOK, ClearOK
<1> QED
  BY <1>1, <1>2, <1>3 DEF ThreadNext

-----------------------------------------------------------------------------
(* The theorems.                                                            *)

\* However the owner and its tasks interleave, the invariant holds
\* (Thread.hpp:90-161, :248-257).
THEOREM ThreadInvariant == ThreadSpec => []ThreadInv
  BY ThreadInitInv, ThreadStepInv, PTL DEF ThreadSpec

\* There is one unfinished task at most and the handle names it, so it can be
\* stopped; with no stop under way the handle never names a task that is gone.
THEOREM ThreadSafety == ThreadSpec => [](ThreadTypeOK /\ NoOrphan /\ HandleLive)
<1>1. ThreadInv => ThreadTypeOK /\ NoOrphan /\ HandleLive
  BY DEF ThreadInv
<1> QED
  BY <1>1, ThreadInvariant, PTL

\* Only a start takes a stop request back.
LEMMA RevokeStep ==
    ThreadInv /\ [ThreadNext]_threadVars
      => [m_should_stop /\ ~ m_should_stop' => \A t \in Tasks : task[t] \notin Unfinished]_threadVars
<1> SUFFICES ASSUME ThreadInv, ThreadNext, m_should_stop, ~ m_should_stop'
             PROVE  \A t \in Tasks : task[t] \notin Unfinished
  OBVIOUS
<1>1. (Start /\ m_task = NULL) \/ ClearHandle
  BY DEF ThreadNext, Owner, stop, task_entry, Start, CreateTask, Stop, SetFlag,
         WaitForTask, ReadHandle, DeleteTask, Begin, RunReturns, ClearOwnHandle,
         DeleteOwnTask
<1> QED
  BY <1>1, TaskAssumption DEF ThreadInv, NoOrphan, ClearOK, ClearHandle

\* start takes back a stop only when no task is left that has to obey it.
THEOREM ThreadStopNotRevoked == ThreadSpec => StopNotRevoked
  BY ThreadInvariant, RevokeStep, PTL DEF ThreadSpec, StopNotRevoked
=============================================================================
