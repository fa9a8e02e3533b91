---------------------------- MODULE BackgroundTasks ----------------------------
(* TaskRuntime (tasks.py) with the threads of a background command            *)
(* (tools/local_shell.py): launch, process, watcher, TaskStop, TaskUpdate and *)
(* blocking TaskOutput calls; and the tasks of agents.  Every method holds one*)
(* lock, but a launch is two calls and stop() releases the lock while it waits*)
(* for the process.                                                           *)
EXTENDS Naturals, FiniteSets

CONSTANTS MaxTasks      \* bound: tasks created

ASSUME TasksAssumption == MaxTasks \in Nat

TaskIds == 1..MaxTasks

VARIABLES
    created,        \* _next_id - 1
    taskStatus,     \* per task: unborn, pending, in_progress, completed, deleted
    taskError,      \* per task: none, exit, failed, stopped
    blocks,         \* per task the tasks in its blocks list
    blockedBy,      \* per task the tasks in its blocked_by list
    process,        \* per task its process: none, running, good, bad (exit code)
    processes,      \* tasks with an entry in _processes
    taskAgent,      \* per task its agent: none, forked (a process), alone (without)
    launch,         \* per task the thread that launches it: none, launching, over
    watching,       \* tasks with a _wait_for_process thread
    stopping,       \* tasks a stop() call is between its two locked parts for
    sleeping        \* tasks that a wait_for_task call sleeps for

taskVars == <<created, taskStatus, taskError, blocks, blockedBy, process,
              processes, taskAgent, launch, watching, stopping, sleeping>>

TasksInit ==
    /\ created = 0
    /\ taskStatus = [t \in TaskIds |-> "unborn"]
    /\ taskError = [t \in TaskIds |-> "none"]
    /\ blocks = [t \in TaskIds |-> {}]
    /\ blockedBy = [t \in TaskIds |-> {}]
    /\ process = [t \in TaskIds |-> "none"]
    /\ taskAgent = [t \in TaskIds |-> "none"]
    /\ launch = [t \in TaskIds |-> "none"]
    /\ processes = {} /\ watching = {} /\ stopping = {}
    /\ sleeping = {}

Known == {t \in TaskIds : taskStatus[t] \notin {"unborn", "deleted"}}
Open(t) == taskStatus[t] \in {"pending", "in_progress"}

NotifyAll == sleeping' = {}

CreateTask ==
    /\ created < MaxTasks
    /\ created' = created + 1
    /\ taskStatus' = [taskStatus EXCEPT ![created + 1] = "pending"]
    /\ UNCHANGED <<taskError, blocks, blockedBy, process, processes, launch,
                   watching, stopping, sleeping, taskAgent>>

CreateShellTask ==
    /\ created < MaxTasks
    /\ created' = created + 1
    /\ taskStatus' = [taskStatus EXCEPT ![created + 1] = "in_progress"]
    /\ launch' = [launch EXCEPT ![created + 1] = "launching"]
    /\ NotifyAll
    /\ UNCHANGED <<taskError, blocks, blockedBy, process, processes, watching, stopping, taskAgent>>

(* create_agent_session: the agent of a spawned task keeps a process; the lock*)
(* is held until its first turn is answered or has timed out.                 *)
CreateAgentTask(spawned) ==
    /\ created < MaxTasks
    /\ created' = created + 1
    /\ taskStatus' = [taskStatus EXCEPT ![created + 1] =
                          IF spawned THEN "in_progress" ELSE "completed"]
    /\ taskAgent' = [taskAgent EXCEPT ![created + 1] = IF spawned THEN "forked" ELSE "alone"]
    /\ NotifyAll
    /\ UNCHANGED <<taskError, blocks, blockedBy, process, processes, launch, watching, stopping>>

(* stop_forked_process: the agent's task is completed without a notification. *)
StopForkedProcess(t) ==
    /\ taskAgent[t] # "none"
    /\ taskAgent' = [taskAgent EXCEPT ![t] = "alone"]
    /\ taskStatus' = [taskStatus EXCEPT ![t] = IF @ = "in_progress" THEN "completed" ELSE @]
    /\ UNCHANGED <<created, taskError, blocks, blockedBy, process, processes, launch,
                   watching, stopping, sleeping>>

(* append_output, append_agent_exchange.                                      *)
AppendOutput(t) ==
    /\ t \in Known
    /\ NotifyAll
    /\ UNCHANGED <<created, taskStatus, taskError, blocks, blockedBy, process, processes,
                   launch, watching, stopping, taskAgent>>

(* mark_process_failed and mark_process_finished.                             *)
Complete(t, errors) ==
    /\ taskStatus' = [taskStatus EXCEPT ![t] = "completed"]
    /\ taskError' = [taskError EXCEPT ![t] = errors]
    /\ processes' = processes \ {t}
    /\ NotifyAll

LaunchFails(t) ==
    /\ launch[t] = "launching" /\ process[t] = "none"
    /\ launch' = [launch EXCEPT ![t] = "over"]
    /\ IF t \in Known THEN Complete(t, "failed")
                      ELSE UNCHANGED <<taskStatus, taskError, processes, sleeping>>
    /\ UNCHANGED <<created, blocks, blockedBy, process, watching, stopping, taskAgent>>

SpawnProcess(t) ==
    /\ launch[t] = "launching" /\ process[t] = "none"
    /\ process' = [process EXCEPT ![t] = "running"]
    /\ UNCHANGED <<created, taskStatus, taskError, blocks, blockedBy, processes,
                   launch, watching, stopping, sleeping, taskAgent>>

(* attach_process, then the watcher; a task deleted meanwhile is a KeyError.  *)
AttachProcess(t) ==
    /\ launch[t] = "launching" /\ process[t] # "none"
    /\ launch' = [launch EXCEPT ![t] = "over"]
    /\ IF t \in Known
       THEN processes' = processes \cup {t} /\ watching' = watching \cup {t} /\ NotifyAll
       ELSE UNCHANGED <<processes, watching, sleeping>>
    /\ UNCHANGED <<created, taskStatus, taskError, blocks, blockedBy, process, stopping, taskAgent>>

ProcessEnds(t) ==
    /\ process[t] = "running"
    /\ \E code \in {"good", "bad"} : process' = [process EXCEPT ![t] = code]
    /\ UNCHANGED <<created, taskStatus, taskError, blocks, blockedBy, processes,
                   launch, watching, stopping, sleeping, taskAgent>>

(* Mutant: the exit code of a stopped process replaces the reason.            *)
ExitErrorAlways(t) == IF process[t] = "bad" THEN "exit" ELSE taskError[t]

(* The watcher: an exit code does not replace an error that is there.         *)
ExitError(t) ==
    IF process[t] = "bad" /\ taskError[t] = "none" THEN "exit" ELSE taskError[t]

WatcherReports(t) ==
    /\ t \in watching /\ process[t] # "running"
    /\ watching' = watching \ {t}
    /\ IF t \in Known THEN Complete(t, ExitError(t))
                      ELSE UNCHANGED <<taskStatus, taskError, processes, sleeping>>
    /\ UNCHANGED <<created, blocks, blockedBy, process, launch, stopping, taskAgent>>

StopTask(t) ==
    /\ t \in Known /\ t \notin stopping
    /\ taskStatus[t] = "in_progress" /\ t \in processes
    /\ stopping' = stopping \cup {t}
    /\ UNCHANGED <<created, taskStatus, taskError, blocks, blockedBy, process,
                   processes, launch, watching, sleeping, taskAgent>>

(* Mutant: the process of a task that was deleted meanwhile is left alone.    *)
KillProcessIfKnown(t) ==
    /\ t \in stopping \cap Known /\ process[t] = "running"
    /\ process' = [process EXCEPT ![t] = "bad"]
    /\ UNCHANGED <<created, taskStatus, taskError, blocks, blockedBy, processes,
                   launch, watching, stopping, sleeping, taskAgent>>

(* terminate or kill, outside the lock.                                       *)
KillProcess(t) ==
    /\ t \in stopping /\ process[t] = "running"
    /\ process' = [process EXCEPT ![t] = "bad"]
    /\ UNCHANGED <<created, taskStatus, taskError, blocks, blockedBy, processes,
                   launch, watching, stopping, sleeping, taskAgent>>

FinishStop(t) ==
    /\ t \in stopping /\ process[t] # "running"
    /\ stopping' = stopping \ {t}
    /\ IF t \in Known THEN Complete(t, "stopped")
                      ELSE UNCHANGED <<taskStatus, taskError, processes, sleeping>>
    /\ UNCHANGED <<created, blocks, blockedBy, process, launch, watching, taskAgent>>

(* Mutant: the tasks a deleted task blocked stay blocked by it.               *)
DeleteTaskStillBlocking(t) ==
    /\ t \in Known
    /\ taskStatus' = [taskStatus EXCEPT ![t] = "deleted"]
    /\ processes' = processes \ {t}
    /\ blocks' = [u \in TaskIds |-> blocks[u] \ {t}]
    /\ NotifyAll
    /\ UNCHANGED <<created, taskError, blockedBy, process, launch, watching, stopping, taskAgent>>

(* update(): the status "deleted", ...                                        *)
DeleteTask(t) ==
    /\ t \in Known
    /\ taskStatus' = [taskStatus EXCEPT ![t] = "deleted"]
    /\ processes' = processes \ {t}
    /\ blocks' = [u \in TaskIds |-> blocks[u] \ {t}]
    /\ blockedBy' = [u \in TaskIds |-> blockedBy[u] \ {t}]
    /\ NotifyAll
    /\ UNCHANGED <<created, taskError, process, launch, watching, stopping, taskAgent>>

(* Mutant: a change of status notifies nobody.                                *)
UpdateStatusQuietly(t, s) ==
    /\ t \in Known
    /\ taskStatus' = [taskStatus EXCEPT ![t] = s]
    /\ UNCHANGED <<created, taskError, blocks, blockedBy, process, processes,
                   launch, watching, stopping, sleeping, taskAgent>>

(* ... another status, ...                                                    *)
UpdateStatus(t, s) ==
    /\ t \in Known
    /\ taskStatus' = [taskStatus EXCEPT ![t] = s]
    /\ NotifyAll
    /\ UNCHANGED <<created, taskError, blocks, blockedBy, process, processes,
                   launch, watching, stopping, taskAgent>>

(* ... or dependencies; unknown blockers are found after the blocked tasks    *)
(* are recorded, and nobody is notified then.                                 *)
AddDependencies(t, addBlocks, addBlockedBy) ==
    /\ t \in Known
    /\ addBlocks \subseteq Known
    /\ blocks' = [blocks EXCEPT ![t] = @ \cup (addBlocks \ {t})]
    /\ IF addBlockedBy \subseteq Known
       THEN blockedBy' = [blockedBy EXCEPT ![t] = @ \cup (addBlockedBy \ {t})] /\ NotifyAll
       ELSE UNCHANGED <<blockedBy, sleeping>>
    /\ UNCHANGED <<created, taskStatus, taskError, process, processes, launch,
                   watching, stopping, taskAgent>>

(* wait_for_task: look at the status under the lock, sleep while it is open;  *)
(* a notified call looks again, as if it came for the first time.             *)
WaitForTask(t) ==
    /\ t \in Known \ sleeping
    /\ Open(t)
    /\ sleeping' = sleeping \cup {t}
    /\ UNCHANGED <<created, taskStatus, taskError, blocks, blockedBy, process,
                   processes, launch, watching, stopping, taskAgent>>

(* The deadlines of the calls that wait for the task have passed.             *)
WaitTimesOut(t) ==
    /\ t \in sleeping
    /\ sleeping' = sleeping \ {t}
    /\ UNCHANGED <<created, taskStatus, taskError, blocks, blockedBy, process, processes,
                   launch, watching, stopping, taskAgent>>

TaskStep(t) ==
    \/ LaunchFails(t) \/ SpawnProcess(t) \/ AttachProcess(t) \/ ProcessEnds(t)
    \/ WatcherReports(t)
    \/ StopTask(t) \/ KillProcess(t) \/ FinishStop(t)
    \/ DeleteTask(t)
    \/ \E s \in {"pending", "in_progress", "completed"} : UpdateStatus(t, s)
    \/ \E u, v \in TaskIds : AddDependencies(t, {u}, {v})
    \/ StopForkedProcess(t) \/ AppendOutput(t)
    \/ WaitForTask(t) \/ WaitTimesOut(t)

TasksNext ==
    \/ CreateTask \/ CreateShellTask \/ \E spawned \in BOOLEAN : CreateAgentTask(spawned)
    \/ \E t \in TaskIds : TaskStep(t)

TasksFairness ==
    \A t \in TaskIds :
        /\ WF_taskVars(SpawnProcess(t) \/ LaunchFails(t))
        /\ WF_taskVars(AttachProcess(t))
        /\ WF_taskVars(WatcherReports(t))
        /\ WF_taskVars(KillProcess(t))
        /\ WF_taskVars(FinishStop(t))

TasksSpec == TasksInit /\ [][TasksNext]_taskVars /\ TasksFairness

(* Dependencies name tasks that exist: a deleted task cannot block another.   *)
DependenciesKnown ==
    \A t \in Known : blocks[t] \cup blockedBy[t] \subseteq Known \ {t}

(* A call that waits for a task sleeps only while the task is open: launch,   *)
(* watcher, stop, update and delete notify it, whichever completes the task.  *)
(* The exception is stop_forked_process, which completes an agent's task and  *)
(* notifies nobody: a call that waits for that task sleeps on.                *)
NoMissedWakeup ==
    \A t \in sleeping : t \in Known /\ (Open(t) \/ taskAgent[t] = "alone")

(* A command that was stopped is reported as stopped, whether stop() or the   *)
(* watcher of its process gets the lock first.                                *)
StoppedIsReported ==
    [][\A t \in TaskIds :
         /\ (taskError[t] = "stopped") => (taskError'[t] = "stopped")
         /\ (t \in stopping /\ t \notin stopping' /\ t \in Known)
                => (taskError'[t] = "stopped" /\ taskStatus'[t] = "completed")]_taskVars

(* stop() terminates what it found running, though it gave up the lock.       *)
StopTerminates ==
    \A t \in TaskIds : (t \in stopping) ~> (t \notin stopping /\ process[t] # "running")
=============================================================================
