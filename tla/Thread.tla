------------------------------- MODULE Thread -------------------------------
(* Thread (src/include/Thread.hpp): an owner task starts and stops a task.  *)
(* The handle m_task and the flag m_should_stop are plain variables that    *)
(* the owner and the task read and write without a lock.  A task ends by    *)
(* clearing the handle and deleting itself; stop deletes it by the handle.  *)
(* FreeRTOS stores the handle before the new task can run.                  *)
EXTENDS Naturals

CONSTANTS
    Tasks,       \* tasks that can be created, each used once
    NULL,        \* the null handle
    MayReturn    \* whether a body may return before it is told to stop

ASSUME TaskAssumption == NULL \notin Tasks /\ MayReturn \in BOOLEAN

VARIABLES
    m_task,         \* the task handle
    m_should_stop,  \* the flag the body looks at
    task,           \* state of each task
    owner,          \* where the owner is
    restart,        \* whether the running stop is that of a start
    held            \* the handle stop has read to give to vTaskDelete

threadVars == <<m_task, m_should_stop, task, owner, restart, held>>

ThreadInitUnset ==
    /\ m_task = "unset" /\ m_should_stop = FALSE
    /\ task = [t \in Tasks |-> "none"]
    /\ owner = "idle" /\ restart = FALSE /\ held = NULL

ThreadInit ==
    /\ m_task = NULL /\ m_should_stop = FALSE
    /\ task = [t \in Tasks |-> "none"]
    /\ owner = "idle" /\ restart = FALSE /\ held = NULL

-----------------------------------------------------------------------------
(* The owner.                                                                *)

\* start stops the old task first, without waiting.
StartAnew ==
    /\ owner = "idle" /\ owner' = "create"
    /\ m_should_stop' = FALSE
    /\ UNCHANGED <<m_task, task, restart, held>>

Start ==
    /\ owner = "idle"
    /\ IF m_task # NULL
         THEN owner' = "stop" /\ restart' = TRUE /\ UNCHANGED m_should_stop
         ELSE owner' = "create" /\ m_should_stop' = FALSE /\ UNCHANGED restart
    /\ UNCHANGED <<m_task, task, held>>

\* xTaskCreate or xTaskCreatePinnedToCore, which may fail.
CreateTask ==
    /\ owner = "create" /\ owner' = "idle"
    /\ \/ \E t \in Tasks : /\ task[t] = "none"
                           /\ task' = [task EXCEPT ![t] = "ready"]
                           /\ m_task' = t
       \/ UNCHANGED <<m_task, task>>
    /\ UNCHANGED <<m_should_stop, restart, held>>

\* stop, from the application: the handle is looked at.
Stop ==
    /\ owner = "idle" /\ m_task # NULL
    /\ owner' = "stop"
    /\ UNCHANGED <<m_task, m_should_stop, task, restart, held>>

\* The flag is set; with a timeout the owner waits for the task to end.
SetFlag ==
    /\ owner = "stop" /\ m_should_stop' = TRUE
    /\ \/ owner' = "delete"
       \/ ~ restart /\ owner' = "wait"
    /\ UNCHANGED <<m_task, task, restart, held>>

\* eTaskGetState of the handle the variable holds now, which it refuses when
\* it is null; the wait goes on until the task is deleted or time is up.
WaitUntimed ==
    /\ owner = "wait"
    /\ \/ m_task = NULL /\ owner' = "asserted"
       \/ m_task # NULL /\ task[m_task] = "deleted" /\ owner' = "delete"
    /\ UNCHANGED <<m_task, m_should_stop, task, restart, held>>

WaitForTask ==
    /\ owner = "wait"
    /\ owner' \in (IF m_task = NULL THEN {"asserted"} ELSE {"wait", "delete"})
    /\ UNCHANGED <<m_task, m_should_stop, task, restart, held>>

ReadHandle ==
    /\ owner = "delete" /\ owner' = "deleting" /\ held' = m_task
    /\ UNCHANGED <<m_task, m_should_stop, task, restart>>

DeleteTaskNot ==
    /\ owner = "deleting" /\ owner' = "clear" /\ held' = NULL
    /\ UNCHANGED <<m_task, m_should_stop, task, restart>>

\* vTaskDelete: of a null handle it deletes the caller, the handle of a task
\* that has deleted itself is no longer valid.
DeleteTask ==
    /\ owner = "deleting"
    /\ IF held = NULL
         THEN owner' = "deleted" /\ UNCHANGED task
         ELSE /\ task' = [task EXCEPT ![held] = "deleted"]
              /\ \/ owner' = "clear"
                 \/ task[held] = "deleted" /\ owner' = "corrupt"
    /\ held' = NULL
    /\ UNCHANGED <<m_task, m_should_stop, restart>>

ClearHandle ==
    /\ owner = "clear" /\ m_task' = NULL
    /\ IF restart THEN owner' = "create" /\ restart' = FALSE /\ m_should_stop' = FALSE
                  ELSE owner' = "idle" /\ UNCHANGED <<restart, m_should_stop>>
    /\ UNCHANGED <<task, held>>

stop == SetFlag \/ WaitForTask \/ ReadHandle \/ DeleteTask \/ ClearHandle
Owner == Start \/ CreateTask \/ Stop \/ stop

-----------------------------------------------------------------------------
(* A task: task_entry.                                                       *)

Begin(t) ==
    /\ task[t] = "ready" /\ task' = [task EXCEPT ![t] = "body"]
    /\ UNCHANGED <<m_task, m_should_stop, owner, restart, held>>

\* run() returns: the body saw the flag, or was done.
RunReturns(t) ==
    /\ task[t] = "body" /\ (m_should_stop \/ MayReturn)
    /\ task' = [task EXCEPT ![t] = "returned"]
    /\ UNCHANGED <<m_task, m_should_stop, owner, restart, held>>

KeepOwnHandle(t) ==
    /\ task[t] = "returned" /\ task' = [task EXCEPT ![t] = "cleared"]
    /\ UNCHANGED <<m_task, m_should_stop, owner, restart, held>>

ClearOwnHandle(t) ==
    /\ task[t] = "returned" /\ task' = [task EXCEPT ![t] = "cleared"]
    /\ m_task' = NULL
    /\ UNCHANGED <<m_should_stop, owner, restart, held>>

DeleteOwnTask(t) ==
    /\ task[t] = "cleared" /\ task' = [task EXCEPT ![t] = "deleted"]
    /\ UNCHANGED <<m_task, m_should_stop, owner, restart, held>>

task_entry(t) == Begin(t) \/ RunReturns(t) \/ ClearOwnHandle(t) \/ DeleteOwnTask(t)

-----------------------------------------------------------------------------
ThreadNext == Owner \/ \E t \in Tasks : task_entry(t)

ThreadSpec == ThreadInit /\ [][ThreadNext]_threadVars

Stopping == {"stop", "wait", "delete", "deleting", "clear"}
\* The owner failed an assertion, deleted itself or used a dead handle.
Lost == {"asserted", "deleted", "corrupt"}

ThreadTypeOK ==
    /\ m_task \in Tasks \cup {NULL}
    /\ m_should_stop \in BOOLEAN /\ restart \in BOOLEAN
    /\ task \in [Tasks -> {"none", "ready", "body", "returned", "cleared", "deleted"}]
    /\ owner \in {"idle", "create"} \cup Stopping \cup Lost
    /\ held \in Tasks \cup {NULL}

\* A task that has not cleared the handle is the one the handle names: there
\* is one at most, and it can be stopped (Thread.hpp:90, :140).
Unfinished == {"ready", "body", "returned"}
NoOrphan == \A t \in Tasks : task[t] \in Unfinished => m_task = t

\* While no stop is under way the handle names a task that is still there.
HandleLive == m_task # NULL /\ owner \in {"idle", "create"} => task[m_task] \in Unfinished

\* start resets the flag only when no task is left that has to see it.
StopNotRevoked ==
    [][m_should_stop /\ ~ m_should_stop' => \A t \in Tasks : task[t] \notin Unfinished]_threadVars

\* stop comes back to its caller (Thread.hpp:138).
StopComesBack == owner \notin Lost
=============================================================================
