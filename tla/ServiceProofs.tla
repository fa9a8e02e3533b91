------------------------------ MODULE ServiceProofs ------------------------------
(* Proofs about the services a turn uses from other threads: background       *)
(* tasks, requests to a language server and turns of a forked agent.          *)
EXTENDS BackgroundTasks, LspClient, ForkedAgent, Integers, SequenceTheorems, TLAPS

-----------------------------------------------------------------------------
(* Background tasks.  A task that was not created has left no trace, and what *)
(* stop() may be called for has been launched: so no late failure of a launch *)
(* overwrites the reason of a stop.                                           *)
TasksTypeOK ==
    /\ created \in 0..MaxTasks
    /\ taskStatus \in [TaskIds -> {"unborn", "pending", "in_progress", "completed", "deleted"}]
    /\ taskError \in [TaskIds -> {"none", "exit", "failed", "stopped"}]
    /\ blocks \in [TaskIds -> SUBSET TaskIds] /\ blockedBy \in [TaskIds -> SUBSET TaskIds]
    /\ process \in [TaskIds -> {"none", "running", "good", "bad"}]
    /\ launch \in [TaskIds -> {"none", "launching", "over"}]
    /\ taskAgent \in [TaskIds -> {"none", "forked", "alone"}]
    /\ processes \subseteq TaskIds /\ watching \subseteq TaskIds
    /\ stopping \subseteq TaskIds /\ sleeping \subseteq TaskIds

UnbornIsBlank ==
    \A t \in TaskIds :
        /\ t > created => taskStatus[t] = "unborn"
        /\ taskStatus[t] = "unborn" =>
               /\ blocks[t] = {} /\ blockedBy[t] = {}
               /\ taskError[t] = "none" /\ t \notin processes \cup stopping

StoppableIsLaunched ==
    \A t \in TaskIds :
        (t \in processes \cup stopping \/ taskError[t] = "stopped") => launch[t] = "over"

TasksInv ==
    /\ TasksTypeOK /\ UnbornIsBlank /\ StoppableIsLaunched
    /\ DependenciesKnown /\ NoMissedWakeup

LEMMA TasksStart == TasksInit => TasksInv
<1> SUFFICES ASSUME TasksInit PROVE TasksInv
    OBVIOUS
<1>1. TasksTypeOK
    BY TasksAssumption DEF TasksInit, TasksTypeOK
<1>2. UnbornIsBlank /\ StoppableIsLaunched
    BY DEF TasksInit, UnbornIsBlank, StoppableIsLaunched
<1>3. DependenciesKnown /\ NoMissedWakeup
    BY DEF TasksInit, DependenciesKnown, NoMissedWakeup, Known
<1> QED BY <1>1, <1>2, <1>3 DEF TasksInv

(* A new task changes nothing for the others.                                 *)
LEMMA BirthKeeps ==
    ASSUME TasksInv, created < MaxTasks, created' = created + 1,
           NEW s \in {"pending", "in_progress", "completed"},
           taskStatus' = [taskStatus EXCEPT ![created + 1] = s],
           NEW a \in {"forked", "alone"},
           \/ taskAgent' = taskAgent
           \/ taskAgent' = [taskAgent EXCEPT ![created + 1] = a],
           \/ launch' = launch
           \/ launch' = [launch EXCEPT ![created + 1] = "launching"],
           sleeping' \in {sleeping, {}},
           UNCHANGED <<taskError, blocks, blockedBy, process, processes, watching, stopping>>
    PROVE  TasksInv'
<1>0. TasksTypeOK /\ created + 1 \in TaskIds /\ created \in Nat /\ MaxTasks \in Nat
    BY TasksAssumption DEF TasksInv, TasksTypeOK, TaskIds
<1>1. taskStatus[created + 1] = "unborn"
    BY <1>0 DEF TasksInv, UnbornIsBlank
<1>2. /\ taskStatus'[created + 1] = s
      /\ \A t \in TaskIds : t # created + 1 => taskStatus'[t] = taskStatus[t]
    BY <1>0 DEF TasksTypeOK
<1>3. TasksTypeOK'
    BY <1>0 DEF TasksTypeOK
<1>4. UnbornIsBlank'
    BY <1>0, <1>2 DEF TasksInv, UnbornIsBlank, TaskIds
<1>5. StoppableIsLaunched'
    BY <1>0, <1>1 DEF TasksInv, UnbornIsBlank, StoppableIsLaunched, TasksTypeOK
<1>6. Known' = Known \cup {created + 1}
    BY <1>0, <1>2 DEF Known
<1>7. created + 1 \notin Known
    BY <1>1 DEF Known
<1>8. DependenciesKnown'
    <2>1. blocks[created + 1] = {} /\ blockedBy[created + 1] = {}
        BY <1>0, <1>1 DEF TasksInv, UnbornIsBlank
    <2> QED BY <1>6, <1>7, <2>1 DEF TasksInv, DependenciesKnown
<1>9. NoMissedWakeup'
    <2>1. SUFFICES ASSUME NEW t \in sleeping'
                   PROVE  t \in Known' /\ (Open(t)' \/ taskAgent'[t] = "alone")
        BY DEF NoMissedWakeup
    <2>2. t \in Known /\ (Open(t) \/ taskAgent[t] = "alone")
        BY DEF TasksInv, NoMissedWakeup
    <2>3. t # created + 1 /\ t \in TaskIds
        BY <1>7, <2>2 DEF Known
    <2>4. taskAgent'[t] = taskAgent[t]
        BY <1>0, <2>3 DEF TasksTypeOK
    <2> QED BY <1>2, <1>6, <2>2, <2>3, <2>4 DEF Open
<1> QED BY <1>3, <1>4, <1>5, <1>8, <1>9 DEF TasksInv

(* A task that is known gets another status and everybody is notified.        *)
LEMMA StatusKeeps ==
    ASSUME TasksInv, NEW t \in Known, NEW s \in {"pending", "in_progress", "completed"},
           NEW e \in {"none", "exit", "failed", "stopped"},
           e = "stopped" => (taskError[t] = "stopped" \/ t \in stopping),
           taskStatus' = [taskStatus EXCEPT ![t] = s],
           taskError' = [taskError EXCEPT ![t] = e],
           processes' \subseteq processes, stopping' \subseteq stopping,
           watching' \subseteq watching, sleeping' = {},
           \/ launch' = launch
           \/ launch' = [launch EXCEPT ![t] = "over"],
           UNCHANGED <<created, blocks, blockedBy, process, taskAgent>>
    PROVE  TasksInv'
<1>0. TasksTypeOK /\ t \in TaskIds /\ taskStatus[t] # "unborn"
    BY DEF TasksInv, Known
<1>1. TasksTypeOK'
    BY <1>0 DEF TasksTypeOK
<1>2. UnbornIsBlank'
    BY <1>0 DEF TasksInv, UnbornIsBlank, TasksTypeOK
<1>3. StoppableIsLaunched'
    BY <1>0 DEF TasksInv, StoppableIsLaunched, TasksTypeOK
<1>4. Known' = Known
    BY <1>0 DEF Known, TasksTypeOK
<1>5. DependenciesKnown'
    BY <1>4 DEF TasksInv, DependenciesKnown
<1>6. NoMissedWakeup'
    BY DEF NoMissedWakeup
<1> QED BY <1>1, <1>2, <1>3, <1>5, <1>6 DEF TasksInv

(* Only the threads around a task move.                                       *)
LEMMA ThreadsKeep ==
    ASSUME TasksInv, UNCHANGED <<created, taskStatus, taskError, blocks, blockedBy, taskAgent>>,
           process' \in [TaskIds -> {"none", "running", "good", "bad"}],
           launch' \in [TaskIds -> {"none", "launching", "over"}],
           \A t \in TaskIds : launch[t] = "over" => launch'[t] = "over",
           \A t \in TaskIds : t \in processes' \cup stopping' =>
               \/ t \in processes \cup stopping
               \/ t \in Known /\ launch'[t] = "over",
           processes' \subseteq TaskIds, stopping' \subseteq TaskIds, watching' \subseteq TaskIds,
           \A t \in sleeping' : t \in sleeping \/ (t \in Known /\ Open(t))
    PROVE  TasksInv'
<1>0. TasksTypeOK /\ Known' = Known
    BY DEF TasksInv, Known
<1>1. sleeping' \subseteq TaskIds
    BY <1>0 DEF Known, TasksTypeOK
<1>2. TasksTypeOK'
    BY <1>0, <1>1 DEF TasksTypeOK
<1>3. UnbornIsBlank'
    BY DEF TasksInv, UnbornIsBlank, Known
<1>4. StoppableIsLaunched'
    BY DEF TasksInv, StoppableIsLaunched
<1>5. DependenciesKnown'
    BY <1>0 DEF TasksInv, DependenciesKnown
<1>6. NoMissedWakeup'
    BY <1>0 DEF TasksInv, NoMissedWakeup, Open
<1> QED BY <1>2, <1>3, <1>4, <1>5, <1>6 DEF TasksInv

LEMMA DeleteTaskKeeps ==
    ASSUME TasksInv, NEW t \in TaskIds, DeleteTask(t)
    PROVE  TasksInv'
<1>0. TasksTypeOK /\ t \in Known
    BY DEF TasksInv, DeleteTask
<1>1. /\ taskStatus' = [taskStatus EXCEPT ![t] = "deleted"]
      /\ processes' = processes \ {t} /\ sleeping' = {}
      /\ blocks' = [u \in TaskIds |-> blocks[u] \ {t}]
      /\ blockedBy' = [u \in TaskIds |-> blockedBy[u] \ {t}]
      /\ UNCHANGED <<created, taskError, process, launch, watching, stopping, taskAgent>>
    BY DEF DeleteTask, NotifyAll
<1>2. TasksTypeOK'
    BY <1>0, <1>1 DEF TasksTypeOK
<1>3. Known' = Known \ {t}
    BY <1>0, <1>1 DEF Known, TasksTypeOK
<1>4. UnbornIsBlank'
    BY <1>0, <1>1 DEF TasksInv, UnbornIsBlank, TasksTypeOK, Known
<1>5. StoppableIsLaunched'
    BY <1>1 DEF TasksInv, StoppableIsLaunched
<1>6. DependenciesKnown'
    <2>1. SUFFICES ASSUME NEW u \in Known \ {t}
                   PROVE  blocks'[u] \cup blockedBy'[u] \subseteq (Known \ {t}) \ {u}
        BY <1>3 DEF DependenciesKnown
    <2>2. blocks[u] \cup blockedBy[u] \subseteq Known \ {u} /\ u \in TaskIds
        BY DEF TasksInv, DependenciesKnown, Known
    <2>3. blocks'[u] = blocks[u] \ {t} /\ blockedBy'[u] = blockedBy[u] \ {t}
        BY <1>1, <2>2
    <2> QED BY <2>2, <2>3
<1>7. NoMissedWakeup'
    BY <1>1 DEF NoMissedWakeup
<1> QED BY <1>2, <1>4, <1>5, <1>6, <1>7 DEF TasksInv

LEMMA AddDependenciesKeeps ==
    ASSUME TasksInv, NEW t \in TaskIds, NEW u \in TaskIds, NEW v \in TaskIds,
           AddDependencies(t, {u}, {v})
    PROVE  TasksInv'
<1>0. TasksTypeOK /\ t \in Known /\ u \in Known
    BY DEF TasksInv, AddDependencies
<1>1. /\ blocks' = [blocks EXCEPT ![t] = @ \cup ({u} \ {t})]
      /\ UNCHANGED <<created, taskStatus, taskError, process, processes, launch,
                     watching, stopping, taskAgent>>
    BY DEF AddDependencies
<1>2. \/ UNCHANGED <<blockedBy, sleeping>>
      \/ /\ v \in Known /\ sleeping' = {}
         /\ blockedBy' = [blockedBy EXCEPT ![t] = @ \cup ({v} \ {t})]
    BY DEF AddDependencies, NotifyAll
<1>3. TasksTypeOK'
    BY <1>0, <1>1, <1>2 DEF TasksTypeOK
<1>4. Known' = Known /\ Known \subseteq TaskIds
    BY <1>1 DEF Known
<1>5. UnbornIsBlank'
    BY <1>0, <1>1, <1>2 DEF TasksInv, UnbornIsBlank, TasksTypeOK, Known
<1>6. StoppableIsLaunched'
    BY <1>1 DEF TasksInv, StoppableIsLaunched
<1>7. DependenciesKnown'
    <2>1. SUFFICES ASSUME NEW w \in Known
                   PROVE  blocks'[w] \cup blockedBy'[w] \subseteq Known \ {w}
        BY <1>4 DEF DependenciesKnown
    <2>2. blocks[w] \cup blockedBy[w] \subseteq Known \ {w} /\ w \in TaskIds
        BY <1>4 DEF TasksInv, DependenciesKnown
    <2>3. blocks'[w] \subseteq blocks[w] \cup (IF w = t THEN {u} \ {t} ELSE {})
        BY <1>0, <1>1, <2>2 DEF TasksTypeOK
    <2>4. \/ blockedBy'[w] = blockedBy[w]
          \/ v \in Known /\ blockedBy'[w] \subseteq blockedBy[w] \cup (IF w = t THEN {v} \ {t} ELSE {})
        BY <1>0, <1>2, <2>2 DEF TasksTypeOK
    <2> QED BY <1>0, <2>2, <2>3, <2>4
<1>8. NoMissedWakeup'
    BY <1>1, <1>2, <1>4 DEF TasksInv, NoMissedWakeup, Open
<1> QED BY <1>3, <1>5, <1>6, <1>7, <1>8 DEF TasksInv

(* The one who completes an agent's task quietly marks it as left alone.      *)
LEMMA StopForkedKeeps ==
    ASSUME TasksInv, NEW t \in TaskIds, StopForkedProcess(t)
    PROVE  TasksInv'
<1>0. TasksTypeOK
    BY DEF TasksInv
<1>1. /\ taskAgent' = [taskAgent EXCEPT ![t] = "alone"]
      /\ taskStatus' = [taskStatus EXCEPT ![t] = IF @ = "in_progress" THEN "completed" ELSE @]
      /\ UNCHANGED <<created, taskError, blocks, blockedBy, process, processes, launch,
                     watching, stopping, sleeping>>
    BY DEF StopForkedProcess
<1>2. \A u \in TaskIds : \/ taskStatus'[u] = taskStatus[u] /\ taskAgent'[u] = taskAgent[u]
                         \/ /\ taskAgent'[u] = "alone"
                            /\ \/ taskStatus'[u] = taskStatus[u]
                               \/ taskStatus[u] = "in_progress" /\ taskStatus'[u] = "completed"
    BY <1>0, <1>1 DEF TasksTypeOK
<1>3. TasksTypeOK'
    BY <1>0, <1>1 DEF TasksTypeOK
<1>4. Known' = Known
    BY <1>2 DEF Known
<1>5. UnbornIsBlank'
    BY <1>1, <1>2 DEF TasksInv, UnbornIsBlank
<1>6. StoppableIsLaunched'
    BY <1>1 DEF TasksInv, StoppableIsLaunched
<1>7. DependenciesKnown'
    BY <1>1, <1>4 DEF TasksInv, DependenciesKnown
<1>8. NoMissedWakeup'
    <2>1. SUFFICES ASSUME NEW u \in sleeping
                   PROVE  u \in Known /\ (Open(u)' \/ taskAgent'[u] = "alone")
        BY <1>1, <1>4 DEF NoMissedWakeup
    <2>2. u \in Known /\ (Open(u) \/ taskAgent[u] = "alone") /\ u \in TaskIds
        BY <1>0 DEF TasksInv, NoMissedWakeup, TasksTypeOK
    <2> QED BY <1>2, <2>2 DEF Open
<1> QED BY <1>3, <1>5, <1>6, <1>7, <1>8 DEF TasksInv

LEMMA TasksStep == TasksInv /\ [TasksNext]_taskVars => TasksInv'
<1> SUFFICES ASSUME TasksInv, [TasksNext]_taskVars PROVE TasksInv'
    OBVIOUS
<1>0. TasksTypeOK
    BY DEF TasksInv
<1>1. CASE CreateTask
    BY <1>1, BirthKeeps DEF CreateTask
<1>2. CASE CreateShellTask
    BY <1>2, BirthKeeps DEF CreateShellTask, NotifyAll
<1>3. ASSUME NEW t \in TaskIds, LaunchFails(t) PROVE TasksInv'
    <2>1. CASE t \in Known
        BY <1>3, <2>1, StatusKeeps DEF LaunchFails, Complete, NotifyAll
    <2>2. CASE t \notin Known
        BY <1>0, <1>3, <2>2, ThreadsKeep DEF LaunchFails, TasksTypeOK
    <2> QED BY <2>1, <2>2
<1>4. ASSUME NEW t \in TaskIds, WatcherReports(t) PROVE TasksInv'
    <2>1. CASE t \in Known
        <3>1. ExitError(t) \in {"none", "exit", "failed", "stopped"}
              /\ (ExitError(t) = "stopped" => taskError[t] = "stopped")
            BY <1>0 DEF ExitError, TasksTypeOK
        <3> QED BY <1>4, <2>1, <3>1, StatusKeeps DEF WatcherReports, Complete, NotifyAll
    <2>2. CASE t \notin Known
        BY <1>0, <1>4, <2>2, ThreadsKeep DEF WatcherReports, TasksTypeOK
    <2> QED BY <2>1, <2>2
<1>5. ASSUME NEW t \in TaskIds, FinishStop(t) PROVE TasksInv'
    <2>1. CASE t \in Known
        BY <1>5, <2>1, StatusKeeps DEF FinishStop, Complete, NotifyAll
    <2>2. CASE t \notin Known
        BY <1>0, <1>5, <2>2, ThreadsKeep DEF FinishStop, TasksTypeOK
    <2> QED BY <2>1, <2>2
<1>6. ASSUME NEW t \in TaskIds, NEW s \in {"pending", "in_progress", "completed"},
             UpdateStatus(t, s)
      PROVE  TasksInv'
    <2>1. /\ t \in Known /\ taskStatus' = [taskStatus EXCEPT ![t] = s] /\ sleeping' = {}
          /\ UNCHANGED <<created, taskError, blocks, blockedBy, process, processes,
                         launch, watching, stopping, taskAgent>>
        BY <1>6 DEF UpdateStatus, NotifyAll
    <2>2. taskError' = [taskError EXCEPT ![t] = taskError[t]]
        BY <1>0, <2>1 DEF TasksTypeOK
    <2>3. taskError[t] \in {"none", "exit", "failed", "stopped"}
        BY <1>0 DEF TasksTypeOK
    <2> QED BY <2>1, <2>2, <2>3, StatusKeeps
<1>7. ASSUME NEW t \in TaskIds, DeleteTask(t) PROVE TasksInv'
    BY <1>7, DeleteTaskKeeps
<1>8. ASSUME NEW t \in TaskIds, NEW u \in TaskIds, NEW v \in TaskIds,
             AddDependencies(t, {u}, {v})
      PROVE  TasksInv'
    BY <1>8, AddDependenciesKeeps
<1>9. ASSUME NEW t \in TaskIds,
             \/ SpawnProcess(t) \/ ProcessEnds(t) \/ KillProcess(t)
             \/ WaitForTask(t) \/ WaitTimesOut(t) \/ AppendOutput(t)
      PROVE  TasksInv'
    BY <1>0, <1>9, ThreadsKeep
       DEF SpawnProcess, ProcessEnds, KillProcess, WaitForTask, WaitTimesOut, AppendOutput,
           NotifyAll, TasksTypeOK
<1>10. ASSUME NEW t \in TaskIds, AttachProcess(t) PROVE TasksInv'
    <2>1. launch' = [launch EXCEPT ![t] = "over"]
          /\ UNCHANGED <<created, taskStatus, taskError, blocks, blockedBy, process,
                         stopping, taskAgent>>
        BY <1>10 DEF AttachProcess
    <2>2. launch' \in [TaskIds -> {"none", "launching", "over"}] /\ launch'[t] = "over"
          /\ \A u \in TaskIds : launch[u] = "over" => launch'[u] = "over"
        BY <1>0, <2>1 DEF TasksTypeOK
    <2>3. \/ t \in Known /\ processes' = processes \cup {t} /\ watching' = watching \cup {t}
             /\ sleeping' = {}
          \/ UNCHANGED <<processes, watching, sleeping>>
        BY <1>10 DEF AttachProcess, NotifyAll
    <2> QED BY <1>0, <2>1, <2>2, <2>3, ThreadsKeep DEF TasksTypeOK
<1>11. ASSUME NEW t \in TaskIds, StopTask(t) PROVE TasksInv'
    <2>1. /\ t \in processes /\ stopping' = stopping \cup {t}
          /\ UNCHANGED <<created, taskStatus, taskError, blocks, blockedBy, process,
                         processes, launch, watching, sleeping, taskAgent>>
        BY <1>11 DEF StopTask
    <2> QED BY <1>0, <2>1, ThreadsKeep DEF TasksTypeOK
<1>12. CASE UNCHANGED taskVars
    BY <1>0, <1>12, ThreadsKeep DEF taskVars, TasksTypeOK
<1>13. ASSUME NEW spawned \in BOOLEAN, CreateAgentTask(spawned) PROVE TasksInv'
    <2> DEFINE s == IF spawned THEN "in_progress" ELSE "completed"
               a == IF spawned THEN "forked" ELSE "alone"
    <2>1. s \in {"pending", "in_progress", "completed"} /\ a \in {"forked", "alone"}
        OBVIOUS
    <2>2. /\ created < MaxTasks /\ created' = created + 1
          /\ taskStatus' = [taskStatus EXCEPT ![created + 1] = s]
          /\ taskAgent' = [taskAgent EXCEPT ![created + 1] = a]
          /\ sleeping' \in {sleeping, {}}
          /\ UNCHANGED <<taskError, blocks, blockedBy, process, processes, launch,
                         watching, stopping>>
        BY <1>13 DEF CreateAgentTask, NotifyAll
    <2> HIDE DEF s, a
    <2> QED BY <2>1, <2>2, BirthKeeps
<1>14. ASSUME NEW t \in TaskIds, StopForkedProcess(t) PROVE TasksInv'
    BY <1>14, StopForkedKeeps
<1> QED BY <1>1, <1>2, <1>3, <1>4, <1>5, <1>6, <1>7, <1>8, <1>9, <1>10, <1>11, <1>12,
           <1>13, <1>14 DEF TasksNext, TaskStep

(* Only a launched task can be stopping or stopped, a task not created is blank,  *)
(* and with that the graph and the sleeping callers stay as they should.          *)
THEOREM TasksInvariant == TasksSpec => []TasksInv
<1> QED BY TasksStart, TasksStep, PTL DEF TasksSpec

(* No task depends on one that does not exist, or on itself.                  *)
THEOREM NoDanglingDependency == TasksSpec => []DependenciesKnown
<1>1. TasksInv => DependenciesKnown
    BY DEF TasksInv
<1> QED BY <1>1, TasksInvariant, PTL

(* Whoever completes or deletes a task wakes those that wait for it, except   *)
(* stop_forked_process: only for an agent's task can a waiter sleep on.       *)
THEOREM WaitersAreWoken == TasksSpec => []NoMissedWakeup
<1>1. TasksInv => NoMissedWakeup
    BY DEF TasksInv
<1> QED BY <1>1, TasksInvariant, PTL

(* The reason of a stop is set by stop() and stays, whoever comes later.      *)
THEOREM StopIsReported == TasksSpec => StoppedIsReported
<1> DEFINE Reported ==
        \A t \in TaskIds :
            /\ (taskError[t] = "stopped") => (taskError'[t] = "stopped")
            /\ (t \in stopping /\ t \notin stopping' /\ t \in Known)
                   => (taskError'[t] = "stopped" /\ taskStatus'[t] = "completed")
<1>1. ASSUME TasksInv, [TasksNext]_taskVars PROVE Reported
    <2>0. TasksTypeOK /\ StoppableIsLaunched
        BY <1>1 DEF TasksInv
    <2>1. ASSUME NEW t \in TaskIds, LaunchFails(t) PROVE Reported
        <3>1. taskError[t] # "stopped" /\ stopping' = stopping
            BY <2>0, <2>1 DEF LaunchFails, StoppableIsLaunched
        <3>2. taskError' = taskError \/ taskError' = [taskError EXCEPT ![t] = "failed"]
            BY <2>1 DEF LaunchFails, Complete
        <3> QED BY <2>0, <3>1, <3>2 DEF TasksTypeOK
    <2>2. ASSUME NEW t \in TaskIds, WatcherReports(t) PROVE Reported
        <3>1. stopping' = stopping
            BY <2>2 DEF WatcherReports
        <3>2. taskError' = taskError \/ taskError' = [taskError EXCEPT ![t] = ExitError(t)]
            BY <2>2 DEF WatcherReports, Complete
        <3>3. taskError[t] = "stopped" => ExitError(t) = "stopped"
            BY DEF ExitError
        <3> QED BY <2>0, <3>1, <3>2, <3>3 DEF TasksTypeOK
    <2>3. ASSUME NEW t \in TaskIds, FinishStop(t) PROVE Reported
        <3>1. stopping' = stopping \ {t}
            BY <2>3 DEF FinishStop
        <3>2. CASE t \in Known
            <4>1. /\ taskError' = [taskError EXCEPT ![t] = "stopped"]
                  /\ taskStatus' = [taskStatus EXCEPT ![t] = "completed"]
                BY <2>3, <3>2 DEF FinishStop, Complete
            <4> QED BY <2>0, <3>1, <4>1 DEF TasksTypeOK
        <3>3. CASE t \notin Known
            BY <2>3, <3>1, <3>3 DEF FinishStop
        <3> QED BY <3>2, <3>3
    <2>4. CASE taskError' = taskError /\ stopping \subseteq stopping'
        BY <2>4
    <2>5. ASSUME NEW t \in TaskIds,
                 \/ SpawnProcess(t) \/ AttachProcess(t) \/ ProcessEnds(t) \/ StopTask(t)
                 \/ KillProcess(t) \/ DeleteTask(t) \/ WaitForTask(t)
                 \/ WaitTimesOut(t) \/ AppendOutput(t) \/ StopForkedProcess(t)
                 \/ \E s \in {"pending", "in_progress", "completed"} : UpdateStatus(t, s)
                 \/ \E u, v \in TaskIds : AddDependencies(t, {u}, {v})
          PROVE  Reported
        BY <2>4, <2>5 DEF SpawnProcess, AttachProcess, ProcessEnds, StopTask, KillProcess,
                          DeleteTask, WaitForTask, WaitTimesOut, AppendOutput,
                          StopForkedProcess, UpdateStatus, AddDependencies
    <2>6. CASE \/ CreateTask \/ CreateShellTask \/ UNCHANGED taskVars
               \/ \E spawned \in BOOLEAN : CreateAgentTask(spawned)
        BY <2>4, <2>6 DEF CreateTask, CreateShellTask, CreateAgentTask, taskVars
    <2> QED BY <1>1, <2>1, <2>2, <2>3, <2>5, <2>6 DEF TasksNext, TaskStep
<1>2. TasksInv /\ [TasksNext]_taskVars => [Reported]_taskVars
    BY <1>1
<1> QED BY <1>2, TasksInvariant, PTL DEF TasksSpec, StoppedIsReported

-----------------------------------------------------------------------------
(* Requests to a language server.  Only the reader takes an event out of the  *)
(* dictionary while the server runs, one at a time, and it sets what it took. *)
LspTypeOK ==
    /\ call \in [LspCallers -> {"idle", "named", "sent", "waiting"}]
    /\ requestId \in [LspCallers -> Nat] /\ nextId \in Nat
    /\ running \in BOOLEAN
    /\ stopPhase \in {"no", "events", "clear"}
    /\ running => stopPhase = "no"

OneAtATime == \A g, h \in handling : g = h

LspInv == LspTypeOK /\ OneAtATime /\ WaiterIsReachable

LEMMA LspStart == LspInit => LspInv
BY DEF LspInit, LspInv, LspTypeOK, OneAtATime, WaiterIsReachable

LEMMA LspStep == LspInv /\ [LspNext]_lspVars => LspInv'
<1> SUFFICES ASSUME LspInv, [LspNext]_lspVars PROVE LspInv'
    OBVIOUS
<1>0. LspTypeOK /\ OneAtATime /\ WaiterIsReachable
    BY DEF LspInv
<1> USE <1>0 DEF LspInv, LspTypeOK, OneAtATime, WaiterIsReachable
<1>1. ASSUME NEW c \in LspCallers, TakeId(c) PROVE LspInv'
    <2>1. /\ requestId' = [requestId EXCEPT ![c] = nextId] /\ nextId' = nextId + 1
          /\ call' = [call EXCEPT ![c] = "named"]
          /\ UNCHANGED <<pendingIds, eventsSet, handling, running, stopPhase>>
        BY <1>1 DEF TakeId
    <2>2. ASSUME NEW d \in LspCallers, call'[d] = "waiting"
          PROVE  call[d] = "waiting" /\ requestId'[d] = requestId[d]
        BY <2>1, <2>2
    <2>3. WaiterIsReachable'
        BY <2>1, <2>2
    <2>4. LspTypeOK' /\ OneAtATime'
        BY <2>1
    <2> QED BY <2>3, <2>4
<1>2. ASSUME NEW c \in LspCallers, SendRequest(c) PROVE LspInv'
    BY <1>2 DEF SendRequest
<1>3. ASSUME NEW c \in LspCallers, LookUpEvent(c) PROVE LspInv'
    BY <1>3 DEF LookUpEvent, Return
<1>4. ASSUME NEW c \in LspCallers, TakeResult(c) PROVE LspInv'
    BY <1>4 DEF TakeResult, Return
<1>5. ASSUME NEW id \in RequestIds, ReadResponse(id) PROVE LspInv'
    <2>1. /\ handling = {} /\ handling' = {<<id, id \in pendingIds>>}
          /\ pendingIds' = pendingIds \ {id}
          /\ UNCHANGED <<eventsSet, running, stopPhase, call, requestId, nextId>>
        BY <1>5 DEF ReadResponse
    <2>2. id \in pendingIds => <<id, TRUE>> \in handling'
        BY <2>1
    <2>3. WaiterIsReachable'
        <3>1. SUFFICES ASSUME NEW c \in LspCallers, running, call[c] = "waiting"
                       PROVE  \/ requestId[c] \in pendingIds' \cup eventsSet
                              \/ <<requestId[c], TRUE>> \in handling'
            BY <2>1
        <3>2. requestId[c] \in pendingIds \cup eventsSet
            BY <2>1, <3>1
        <3> QED BY <2>1, <2>2, <3>2
    <2>4. OneAtATime'
        BY <2>1
    <2> QED BY <2>1, <2>3, <2>4
<1>6. CASE StoreResponse
    <2>1. PICK h \in handling :
              eventsSet' = IF h[2] THEN eventsSet \cup {h[1]} ELSE eventsSet
        BY <1>6 DEF StoreResponse
    <2>2. handling' = {} /\ UNCHANGED <<pendingIds, running, stopPhase, call, requestId, nextId>>
        BY <1>6 DEF StoreResponse
    <2>3. ASSUME NEW c \in LspCallers, <<requestId[c], TRUE>> \in handling
          PROVE  requestId[c] \in eventsSet'
        <3>1. h = <<requestId[c], TRUE>>
            BY <2>3
        <3>2. h[1] = requestId[c] /\ h[2] = TRUE
            BY <3>1
        <3> QED BY <2>1, <3>2
    <2>4. eventsSet \subseteq eventsSet'
        BY <2>1
    <2>5. WaiterIsReachable'
        <3>1. SUFFICES ASSUME NEW c \in LspCallers, running, call[c] = "waiting"
                       PROVE  requestId[c] \in pendingIds \cup eventsSet'
            BY <2>2
        <3>2. requestId[c] \in pendingIds \cup eventsSet \/ <<requestId[c], TRUE>> \in handling
            BY <3>1
        <3> QED BY <2>3, <2>4, <3>2
    <2> QED BY <2>2, <2>5
<1>7. CASE StopBegins \/ StopSetsEvents \/ StopClears
    <2>1. /\ running' = FALSE /\ stopPhase' \in {"no", "events", "clear"}
          /\ UNCHANGED <<handling, call, requestId, nextId>>
        BY <1>7 DEF StopBegins, StopSetsEvents, StopClears
    <2> QED BY <2>1
<1>8. CASE UNCHANGED lspVars
    BY <1>8 DEF lspVars
<1> QED BY <1>1, <1>2, <1>3, <1>4, <1>5, <1>6, <1>7, <1>8 DEF LspNext

(* The reader holds one taken event at a time, and a waiter's event is held by it  *)
(* or in the dictionary.                                                           *)
THEOREM LspInvariant == LspSpec => []LspInv
<1> QED BY LspStart, LspStep, PTL DEF LspSpec

(* While the server runs, whoever waits for a response can be woken.          *)
THEOREM WaiterCanBeWoken == LspSpec => []WaiterIsReachable
<1>1. LspInv => WaiterIsReachable
    BY DEF LspInv
<1> QED BY <1>1, LspInvariant, PTL

-----------------------------------------------------------------------------
(* Turns of a forked agent, for one sender at a time: with two of them, which *)
(* nothing in the code excludes, two messages can get the same turn number.   *)
(* The turn of a message is then its number, wherever its result is; and it   *)
(* is in one place only, after it was sent.                                   *)
OneSender == \A s, u \in Senders : s = u

Result == [turn : Turn, message : Nat]

Numbered(seq) == \A i \in 1..Len(seq) : seq[i].turn = seq[i].message

ForkTypeOK ==
    /\ messages \in 0..MaxMessages
    /\ sender \in [Senders -> {"idle", "counted", "registered", "waiting", "woken", "recording"}]
    /\ turnOf \in [Senders -> Turn] /\ messageOf \in [Senders -> Nat]
    /\ replyTo \in [Senders -> Nat]
    /\ waiterOf \in [Turn -> Nat] /\ turnResults \in [Turn -> Nat]
    /\ toChild \in Seq(Result) /\ fromChild \in Seq(Result)
    /\ routing = <<>> \/ \E r \in Result, e \in Nat : routing = <<[result |-> r, event |-> e]>>

TurnIsMessage ==
    /\ \A s \in Senders :
        /\ exchanges = IF sender[s] = "idle" THEN messages + 1 ELSE messages
        /\ sender[s] # "idle" => turnOf[s] = messages /\ messageOf[s] = messages /\ messages > 0
        /\ replyTo[s] \in {NoReply, messageOf[s]}
        /\ messageOf[s] <= messages
    /\ \A t \in Turn : turnResults[t] \in {NoReply, t}
    /\ Numbered(toChild) /\ Numbered(fromChild)
    /\ routing # <<>> => routing[1].result.turn = routing[1].result.message

(* The results before they are handed over, and the places afterwards.        *)
InPipe(m) ==
    \/ \E i \in 1..Len(toChild) : toChild[i].message = m
    \/ \E i \in 1..Len(fromChild) : fromChild[i].message = m

Routed(m) == routing # <<>> /\ routing[1].result.message = m

Stored(m) == \E t \in Turn : turnResults[t] = m

Taken(m) == \E s \in Senders : replyTo[s] = m

NoTwins(seq) == \A i, j \in 1..Len(seq) : seq[i].message = seq[j].message => i = j

OnePlace ==
    /\ NoTwins(toChild) /\ NoTwins(fromChild)
    /\ \A i \in 1..Len(toChild), j \in 1..Len(fromChild) : toChild[i].message # fromChild[j].message
    /\ \A m \in 1..MaxMessages :
        /\ InPipe(m) => ~Routed(m) /\ ~Stored(m) /\ ~Taken(m) /\ m \notin queuedLate
        /\ Routed(m) => ~Stored(m) /\ ~Taken(m) /\ m \notin queuedLate
        /\ Stored(m) => ~Taken(m) /\ m \notin queuedLate
        /\ Taken(m) => m \notin queuedLate

(* What was not sent yet is nowhere.                                          *)
UnsentIsNowhere ==
    \A m \in 1..MaxMessages :
        (m > messages \/ \E s \in Senders : sender[s] \in {"counted", "registered"} /\ messageOf[s] = m)
            => ~InPipe(m) /\ ~Routed(m) /\ ~Stored(m) /\ ~Taken(m) /\ m \notin queuedLate

ForkInv == ForkTypeOK /\ TurnIsMessage /\ OnePlace /\ UnsentIsNowhere

LEMMA ForkStart == ForkInit => ForkInv
<1> SUFFICES ASSUME ForkInit PROVE ForkInv
    OBVIOUS
<1>0. MaxMessages \in Nat /\ Turn \subseteq Nat /\ 0 \in Turn
    BY ForkAssumption DEF Turn
<1>1. <<>> \in Seq(Result) /\ Len(<<>>) = 0
    BY EmptySeq
<1>2. ForkTypeOK
    BY <1>0, <1>1 DEF ForkInit, ForkTypeOK, NoReply, Nobody
<1>3. TurnIsMessage
    BY <1>0, <1>1 DEF ForkInit, TurnIsMessage, Numbered, NoReply
<1>4. \A m \in 1..MaxMessages : ~InPipe(m) /\ ~Routed(m) /\ ~Stored(m) /\ ~Taken(m) /\ m \notin queuedLate
    BY <1>0, <1>1 DEF ForkInit, InPipe, Routed, Stored, Taken, NoReply
<1>5. OnePlace
    BY <1>1, <1>4 DEF ForkInit, OnePlace, NoTwins
<1>6. UnsentIsNowhere
    BY <1>4 DEF UnsentIsNowhere
<1> QED BY <1>2, <1>3, <1>5, <1>6 DEF ForkInv

(* The sender moves and no result does.                                       *)
LEMMA SenderMoves ==
    ASSUME ForkInv, ForkTypeOK', TurnIsMessage', messages' = messages,
           UNCHANGED <<toChild, fromChild, routing, turnResults, queuedLate, replyTo, messageOf>>,
           \A s \in Senders : sender'[s] \in {"counted", "registered"}
                                  => sender[s] \in {"counted", "registered"}
    PROVE  ForkInv'
<1>1. \A m : /\ InPipe(m)' = InPipe(m) /\ Routed(m)' = Routed(m)
             /\ Stored(m)' = Stored(m) /\ Taken(m)' = Taken(m)
    BY DEF InPipe, Routed, Stored, Taken
<1>2. NoTwins(toChild)' /\ NoTwins(fromChild)'
    BY DEF ForkInv, OnePlace, NoTwins
<1>3. OnePlace'
    BY <1>1, <1>2 DEF ForkInv, OnePlace
<1>4. UnsentIsNowhere'
    BY <1>1 DEF ForkInv, UnsentIsNowhere
<1> QED BY <1>3, <1>4 DEF ForkInv

(* A result leaves its place or moves to another; nobody counts or registers. *)
LEMMA ResultMoves ==
    ASSUME ForkInv, ForkTypeOK', TurnIsMessage', UNCHANGED <<messages, messageOf>>,
           \A s \in Senders : sender'[s] \in {"counted", "registered"}
                                  => sender[s] \in {"counted", "registered"},
           NoTwins(toChild'), NoTwins(fromChild'),
           \A i \in 1..Len(toChild'), j \in 1..Len(fromChild') :
               toChild'[i].message # fromChild'[j].message,
           NEW m0,
           \A m \in 1..MaxMessages :
               /\ InPipe(m)' => InPipe(m) /\ (m = m0 => ~Routed(m)' /\ ~Stored(m)' /\ ~Taken(m)' /\ m \notin queuedLate')
               /\ Routed(m)' => Routed(m) \/ (m = m0 /\ InPipe(m) /\ ~InPipe(m)' /\ m \notin queuedLate')
               /\ Stored(m)' => Stored(m) \/ (m = m0 /\ Routed(m) /\ ~Routed(m)')
               /\ Taken(m)' => Taken(m) \/ (m = m0 /\ Stored(m) /\ ~Stored(m)')
               /\ m \in queuedLate' => m \in queuedLate \/ (m = m0 /\ InPipe(m) /\ ~InPipe(m)' /\ ~Routed(m)')
    PROVE  ForkInv'
<1>1. OnePlace'
    <2>1. \A m \in 1..MaxMessages :
            /\ InPipe(m)' => ~Routed(m)' /\ ~Stored(m)' /\ ~Taken(m)' /\ m \notin queuedLate'
            /\ Routed(m)' => ~Stored(m)' /\ ~Taken(m)' /\ m \notin queuedLate'
            /\ Stored(m)' => ~Taken(m)' /\ m \notin queuedLate'
            /\ Taken(m)' => m \notin queuedLate'
        BY DEF ForkInv, OnePlace
    <2>2. NoTwins(toChild)' /\ NoTwins(fromChild)'
        BY DEF NoTwins
    <2> QED BY <2>1, <2>2 DEF OnePlace
<1>2. UnsentIsNowhere'
    BY DEF ForkInv, UnsentIsNowhere
<1> QED BY <1>1, <1>2 DEF ForkInv

LEMMA CountTurnKeeps ==
    ASSUME OneSender, ForkInv, NEW s \in Senders, CountTurn(s)
    PROVE  ForkInv'
<1>0. ForkTypeOK /\ TurnIsMessage /\ MaxMessages \in Nat /\ \A u \in Senders : u = s
    BY ForkAssumption DEF ForkInv, OneSender
<1>1. /\ sender[s] = "idle" /\ messages < MaxMessages /\ messages' = messages + 1
      /\ messageOf' = [messageOf EXCEPT ![s] = messages + 1]
      /\ turnOf' = [turnOf EXCEPT ![s] = exchanges]
      /\ replyTo' = [replyTo EXCEPT ![s] = NoReply]
      /\ sender' = [sender EXCEPT ![s] = "counted"]
      /\ UNCHANGED <<exchanges, waiterOf, turnResults, toChild, fromChild, routing, queuedLate>>
    BY DEF CountTurn
<1>2. exchanges = messages + 1 /\ messages \in Nat
    BY <1>0, <1>1 DEF TurnIsMessage, ForkTypeOK
<1>3. exchanges \in Turn
    BY <1>0, <1>1, <1>2 DEF Turn
<1>4. ForkTypeOK'
    BY <1>0, <1>1, <1>2, <1>3 DEF ForkTypeOK, NoReply
<1>5. TurnIsMessage'
    <2>1. /\ sender'[s] = "counted" /\ turnOf'[s] = messages + 1 /\ messageOf'[s] = messages + 1
          /\ replyTo'[s] = NoReply
        BY <1>0, <1>1, <1>2 DEF ForkTypeOK
    <2>2. \A u \in Senders :
            /\ exchanges' = IF sender'[u] = "idle" THEN messages' + 1 ELSE messages'
            /\ sender'[u] # "idle" => turnOf'[u] = messages' /\ messageOf'[u] = messages' /\ messages' > 0
            /\ replyTo'[u] \in {NoReply, messageOf'[u]}
            /\ messageOf'[u] <= messages'
        BY <1>0, <1>1, <1>2, <2>1
    <2>3. Numbered(toChild)' /\ Numbered(fromChild)'
        BY <1>0, <1>1 DEF TurnIsMessage, Numbered
    <2> QED BY <1>0, <1>1, <2>2, <2>3 DEF TurnIsMessage
<1>6. \A m \in 1..MaxMessages :
          /\ InPipe(m)' = InPipe(m) /\ Routed(m)' = Routed(m) /\ Stored(m)' = Stored(m)
          /\ ~Taken(m)'
    <2>1. \A u \in Senders : replyTo'[u] = NoReply
        BY <1>0, <1>1 DEF ForkTypeOK
    <2>2. \A m \in 1..MaxMessages : ~Taken(m)'
        BY <2>1 DEF Taken, NoReply
    <2> QED BY <1>1, <2>2 DEF InPipe, Routed, Stored
<1>7. OnePlace'
    <2>1. NoTwins(toChild)' /\ NoTwins(fromChild)'
        BY <1>1 DEF ForkInv, OnePlace, NoTwins
    <2> QED BY <1>1, <1>6, <2>1 DEF ForkInv, OnePlace
<1>8. UnsentIsNowhere'
    <2>1. SUFFICES ASSUME NEW m \in 1..MaxMessages,
                          m > messages' \/ \E u \in Senders : messageOf'[u] = m
                   PROVE  ~InPipe(m)' /\ ~Routed(m)' /\ ~Stored(m)' /\ ~Taken(m)' /\ m \notin queuedLate'
        BY DEF UnsentIsNowhere
    <2>2. \A u \in Senders : messageOf'[u] = messages + 1
        BY <1>0, <1>1 DEF ForkTypeOK
    <2>3. m > messages
        BY <1>1, <1>2, <2>1, <2>2
    <2> QED BY <1>1, <1>6, <2>3 DEF ForkInv, UnsentIsNowhere
<1> QED BY <1>4, <1>5, <1>7, <1>8 DEF ForkInv

LEMMA SendTurnKeeps ==
    ASSUME OneSender, ForkInv, NEW s \in Senders, SendTurn(s)
    PROVE  ForkInv'
<1>0. ForkTypeOK /\ TurnIsMessage /\ MaxMessages \in Nat /\ \A u \in Senders : u = s
    BY ForkAssumption DEF ForkInv, OneSender
<1>1. /\ sender[s] = "registered"
      /\ UNCHANGED <<exchanges, messages, turnOf, messageOf, replyTo, turnResults,
                     fromChild, routing, queuedLate>>
      /\ sender' \in {[sender EXCEPT ![s] = "waiting"], [sender EXCEPT ![s] = "recording"]}
      /\ waiterOf' \in {waiterOf, [waiterOf EXCEPT ![turnOf[s]] = Nobody]}
    BY DEF SendTurn
<1>2. /\ turnOf[s] = messages /\ messageOf[s] = messages /\ messages \in 1..MaxMessages
      /\ turnOf[s] \in Turn
    BY <1>0, <1>1 DEF TurnIsMessage, ForkTypeOK
<1>3. /\ sender'[s] \in {"waiting", "recording"}
      /\ sender' \in [Senders -> {"idle", "counted", "registered", "waiting", "woken", "recording"}]
      /\ waiterOf' \in [Turn -> Nat]
    BY <1>0, <1>1, <1>2 DEF ForkTypeOK, Nobody
<1> DEFINE r == [turn |-> turnOf[s], message |-> messageOf[s]]
<1>4. r \in Result /\ r.turn = messages /\ r.message = messages
    BY <1>2 DEF Result
<1>5. toChild' = toChild \/ toChild' = Append(toChild, r)
    BY DEF SendTurn
<1> HIDE DEF r
<1>6. CASE toChild' = toChild
    <2>1. ForkTypeOK'
        BY <1>0, <1>1, <1>3, <1>6 DEF ForkTypeOK
    <2>2. TurnIsMessage'
        <3>1. Numbered(toChild)' /\ Numbered(fromChild)'
            BY <1>0, <1>1, <1>6 DEF TurnIsMessage, Numbered
        <3> QED BY <1>0, <1>1, <1>3, <3>1 DEF TurnIsMessage
    <2>3. \A u \in Senders : sender'[u] \notin {"counted", "registered"}
        BY <1>0, <1>3
    <2> QED BY <1>1, <1>6, <2>1, <2>2, <2>3, SenderMoves
<1>7. CASE toChild' = Append(toChild, r)
    <2>1. /\ toChild' \in Seq(Result) /\ Len(toChild') = Len(toChild) + 1 /\ Len(toChild) \in Nat
          /\ \A i \in 1..Len(toChild) : toChild'[i] = toChild[i]
          /\ toChild'[Len(toChild) + 1] = r
        BY <1>0, <1>4, <1>7, LenProperties DEF ForkTypeOK
    <2>2. ForkTypeOK'
        BY <1>0, <1>1, <1>3, <2>1 DEF ForkTypeOK
    <2>3. TurnIsMessage'
        <3>1. \A i \in 1..Len(toChild') : i \in 1..Len(toChild) \/ i = Len(toChild) + 1
            BY <2>1
        <3>2. Numbered(toChild)'
            BY <1>0, <1>4, <2>1, <3>1 DEF TurnIsMessage, Numbered
        <3>3. Numbered(fromChild)'
            BY <1>0, <1>1 DEF TurnIsMessage, Numbered
        <3> QED BY <1>0, <1>1, <1>3, <3>2, <3>3 DEF TurnIsMessage
    <2>4. /\ ~InPipe(messages) /\ ~Routed(messages) /\ ~Stored(messages)
          /\ ~Taken(messages) /\ messages \notin queuedLate
        BY <1>1, <1>2 DEF ForkInv, UnsentIsNowhere
    <2>5. \A m : InPipe(m)' => InPipe(m) \/ m = messages
        <3>1. \A i \in 1..Len(toChild') : i \in 1..Len(toChild) \/ i = Len(toChild) + 1
            BY <2>1
        <3> QED BY <1>1, <1>4, <2>1, <3>1 DEF InPipe
    <2>6. \A m : Routed(m)' = Routed(m) /\ Stored(m)' = Stored(m) /\ Taken(m)' = Taken(m)
        BY <1>1 DEF Routed, Stored, Taken
    <2>7. OnePlace'
        <3>0. NoTwins(toChild) /\ NoTwins(fromChild)
              /\ \A i \in 1..Len(toChild), j \in 1..Len(fromChild) :
                     toChild[i].message # fromChild[j].message
            BY DEF ForkInv, OnePlace
        <3>1. \A i \in 1..Len(toChild') : i \in 1..Len(toChild) \/ i = Len(toChild) + 1
            BY <2>1
        <3>2. \A i \in 1..Len(toChild) : toChild[i].message # messages
            BY <2>4 DEF InPipe
        <3>3. \A j \in 1..Len(fromChild) : fromChild[j].message # messages
            BY <2>4 DEF InPipe
        <3>4. NoTwins(toChild')
            BY <1>4, <2>1, <3>0, <3>1, <3>2 DEF NoTwins
        <3>5. \A i \in 1..Len(toChild'), j \in 1..Len(fromChild') :
                  toChild'[i].message # fromChild'[j].message
            BY <1>1, <1>4, <2>1, <3>0, <3>1, <3>3
        <3>6. \A m \in 1..MaxMessages :
                /\ InPipe(m)' => ~Routed(m)' /\ ~Stored(m)' /\ ~Taken(m)' /\ m \notin queuedLate'
                /\ Routed(m)' => ~Stored(m)' /\ ~Taken(m)' /\ m \notin queuedLate'
                /\ Stored(m)' => ~Taken(m)' /\ m \notin queuedLate'
                /\ Taken(m)' => m \notin queuedLate'
            BY <1>1, <2>4, <2>5, <2>6 DEF ForkInv, OnePlace
        <3>7. NoTwins(toChild)' /\ NoTwins(fromChild)'
            BY <1>1, <3>0, <3>4 DEF NoTwins
        <3> QED BY <3>5, <3>6, <3>7 DEF OnePlace
    <2>8. UnsentIsNowhere'
        <3>1. \A u \in Senders : sender'[u] \notin {"counted", "registered"}
            BY <1>0, <1>3
        <3>2. \A m \in 1..MaxMessages : m > messages => m # messages
            BY <1>2
        <3> QED BY <1>1, <2>5, <2>6, <3>1, <3>2 DEF ForkInv, UnsentIsNowhere
    <2> QED BY <2>2, <2>3, <2>7, <2>8 DEF ForkInv
<1> QED BY <1>5, <1>6, <1>7

(* What the sender does when no result is involved.                           *)
LEMMA SenderTypes ==
    ASSUME ForkInv, NEW s \in Senders,
           NEW p \in {"registered", "waiting", "woken", "recording"},
           sender[s] # "idle",
           sender' = [sender EXCEPT ![s] = p],
           waiterOf' \in [Turn -> Nat],
           sender[s] \in {"counted", "registered"} \/ p # "registered",
           UNCHANGED <<exchanges, messages, turnOf, messageOf, replyTo, turnResults,
                       toChild, fromChild, routing, queuedLate>>
    PROVE  ForkInv'
<1>0. ForkTypeOK /\ TurnIsMessage
    BY DEF ForkInv
<1>1. /\ sender'[s] = p
      /\ \A u \in Senders : u # s => sender'[u] = sender[u]
    BY <1>0 DEF ForkTypeOK
<1>2. ForkTypeOK'
    BY <1>0 DEF ForkTypeOK
<1>3. TurnIsMessage'
    <2>1. Numbered(toChild)' /\ Numbered(fromChild)'
        BY <1>0 DEF TurnIsMessage, Numbered
    <2> QED BY <1>0, <1>1, <2>1 DEF TurnIsMessage
<1>4. \A u \in Senders : sender'[u] \in {"counted", "registered"}
                            => sender[u] \in {"counted", "registered"}
    BY <1>1
<1> QED BY <1>2, <1>3, <1>4, SenderMoves

LEMMA EndWaitKeeps ==
    ASSUME ForkInv, NEW s \in Senders, RegisterTurn(s) \/ EndWait(s)
    PROVE  ForkInv'
<1>0. ForkTypeOK /\ turnOf[s] \in Turn /\ messageOf[s] \in Nat
    BY DEF ForkInv, ForkTypeOK
<1>1. waiterOf' \in [Turn -> Nat]
    <2>1. waiterOf \in [Turn -> Nat] /\ Nobody \in Nat
        BY <1>0 DEF ForkTypeOK, Nobody
    <2>2. \/ waiterOf' = [waiterOf EXCEPT ![turnOf[s]] = messageOf[s]]
          \/ waiterOf' = [waiterOf EXCEPT ![turnOf[s]] = Nobody]
        BY DEF RegisterTurn, EndWait
    <2> QED BY <1>0, <2>1, <2>2
<1>2. CASE RegisterTurn(s)
    BY <1>1, <1>2, SenderTypes DEF RegisterTurn
<1>3. CASE EndWait(s)
    BY <1>1, <1>3, SenderTypes DEF EndWait
<1> QED BY <1>2, <1>3

LEMMA TakeTurnResultKeeps ==
    ASSUME OneSender, ForkInv, NEW s \in Senders, TakeTurnResult(s)
    PROVE  ForkInv'
<1> DEFINE v == turnResults[turnOf[s]]
<1>0. /\ ForkTypeOK /\ TurnIsMessage /\ OnePlace /\ \A u \in Senders : u = s
      /\ MaxMessages \in Nat
    BY ForkAssumption DEF ForkInv, OneSender
<1>1. /\ sender[s] = "woken"
      /\ replyTo' = [replyTo EXCEPT ![s] = v]
      /\ turnResults' = [turnResults EXCEPT ![turnOf[s]] = NoReply]
      /\ sender' = [sender EXCEPT ![s] = "recording"]
      /\ UNCHANGED <<exchanges, messages, turnOf, messageOf, waiterOf,
                     toChild, fromChild, routing, queuedLate>>
    BY DEF TakeTurnResult
<1>2. /\ turnOf[s] = messages /\ messageOf[s] = messages /\ turnOf[s] \in Turn
      /\ v \in {NoReply, messages} /\ v \in Nat /\ messages \in 1..MaxMessages
    BY <1>0, <1>1 DEF TurnIsMessage, ForkTypeOK, NoReply
<1>3. /\ replyTo'[s] = v /\ sender'[s] = "recording"
      /\ turnResults'[turnOf[s]] = NoReply
      /\ \A t \in Turn : t # turnOf[s] => turnResults'[t] = turnResults[t]
    BY <1>0, <1>1, <1>2 DEF ForkTypeOK
<1>4. ForkTypeOK'
    BY <1>0, <1>1, <1>2 DEF ForkTypeOK, NoReply
<1>5. TurnIsMessage'
    <2>1. Numbered(toChild)' /\ Numbered(fromChild)'
        BY <1>0, <1>1 DEF TurnIsMessage, Numbered
    <2>2. \A t \in Turn : turnResults'[t] \in {NoReply, t}
        BY <1>0, <1>3 DEF TurnIsMessage
    <2>3. \A u \in Senders :
            /\ exchanges' = IF sender'[u] = "idle" THEN messages' + 1 ELSE messages'
            /\ sender'[u] # "idle" => turnOf'[u] = messages' /\ messageOf'[u] = messages' /\ messages' > 0
            /\ replyTo'[u] \in {NoReply, messageOf'[u]}
            /\ messageOf'[u] <= messages'
        BY <1>0, <1>1, <1>2, <1>3 DEF TurnIsMessage
    <2> QED BY <1>0, <1>1, <2>1, <2>2, <2>3 DEF TurnIsMessage
<1>6. \A m \in 1..MaxMessages : InPipe(m)' = InPipe(m) /\ Routed(m)' = Routed(m)
    BY <1>1 DEF InPipe, Routed
<1>7. \A m \in 1..MaxMessages :
          /\ Stored(m)' => Stored(m)
          /\ Taken(m)' => m = v /\ Stored(m) /\ ~Stored(m)'
    <2>1. ASSUME NEW m \in 1..MaxMessages, Stored(m)' PROVE Stored(m) /\ m # v
        <3>1. PICK t \in Turn : turnResults'[t] = m
            BY <2>1 DEF Stored
        <3>2. t # turnOf[s] /\ turnResults[t] = m
            BY <1>3, <3>1 DEF NoReply
        <3>3. m = t
            BY <1>0, <3>2 DEF TurnIsMessage, NoReply
        <3> QED BY <1>2, <3>2, <3>3 DEF Stored, NoReply
    <2>2. ASSUME NEW m \in 1..MaxMessages, Taken(m)' PROVE m = v /\ Stored(m)
        BY <1>0, <1>2, <1>3, <2>2 DEF Taken, Stored
    <2> QED BY <2>1, <2>2
<1>8. /\ NoTwins(toChild') /\ NoTwins(fromChild')
      /\ \A i \in 1..Len(toChild'), j \in 1..Len(fromChild') :
             toChild'[i].message # fromChild'[j].message
    BY <1>0, <1>1 DEF OnePlace
<1>9. \A u \in Senders : sender'[u] \notin {"counted", "registered"}
    BY <1>0, <1>3
<1>10. \A m \in 1..MaxMessages :
         /\ InPipe(m)' => InPipe(m) /\ (m = v => ~Routed(m)' /\ ~Stored(m)' /\ ~Taken(m)' /\ m \notin queuedLate')
         /\ Routed(m)' => Routed(m)
         /\ Stored(m)' => Stored(m)
         /\ Taken(m)' => m = v /\ Stored(m) /\ ~Stored(m)'
         /\ m \in queuedLate' => m \in queuedLate
    <2>1. ASSUME NEW m \in 1..MaxMessages, InPipe(m)', m = v
          PROVE  ~Routed(m)' /\ ~Stored(m)' /\ ~Taken(m)' /\ m \notin queuedLate'
        BY <1>0, <1>1, <1>6, <1>7, <2>1 DEF OnePlace
    <2> QED BY <1>1, <1>6, <1>7, <2>1
<1> HIDE DEF v
<1> QED BY <1>1, <1>4, <1>5, <1>8, <1>9, <1>10, ResultMoves

LEMMA RecordExchangeKeeps ==
    ASSUME OneSender, ForkInv, NEW s \in Senders, RecordExchange(s)
    PROVE  ForkInv'
<1>0. ForkTypeOK /\ TurnIsMessage /\ \A u \in Senders : u = s
    BY DEF ForkInv, OneSender
<1>1. /\ sender[s] = "recording" /\ exchanges' = exchanges + 1
      /\ sender' = [sender EXCEPT ![s] = "idle"]
      /\ UNCHANGED <<messages, turnOf, messageOf, replyTo, waiterOf, turnResults,
                     toChild, fromChild, routing, queuedLate>>
    BY DEF RecordExchange
<1>2. sender'[s] = "idle" /\ exchanges = messages
    BY <1>0, <1>1 DEF ForkTypeOK, TurnIsMessage
<1>3. ForkTypeOK'
    BY <1>0, <1>1 DEF ForkTypeOK
<1>4. TurnIsMessage'
    <2>1. Numbered(toChild)' /\ Numbered(fromChild)'
        BY <1>0, <1>1 DEF TurnIsMessage, Numbered
    <2> QED BY <1>0, <1>1, <1>2, <2>1 DEF TurnIsMessage
<1>5. \A u \in Senders : sender'[u] \notin {"counted", "registered"}
    BY <1>0, <1>2
<1> QED BY <1>1, <1>3, <1>4, <1>5, SenderMoves

(* The first element of a sequence of results, and the others.                *)
LEMMA FirstResult ==
    ASSUME NEW seq \in Seq(Result), seq # <<>>
    PROVE  /\ Head(seq) \in Result /\ Head(seq) = seq[1] /\ Len(seq) \in Nat /\ 1 \in 1..Len(seq)
           /\ Tail(seq) \in Seq(Result) /\ Len(Tail(seq)) = Len(seq) - 1
           /\ \A i \in 1..Len(Tail(seq)) : i + 1 \in 1..Len(seq) /\ Tail(seq)[i] = seq[i + 1]
           /\ Numbered(seq) => Numbered(Tail(seq)) /\ Head(seq).turn = Head(seq).message
           /\ NoTwins(seq) =>
                /\ NoTwins(Tail(seq))
                /\ \A i \in 1..Len(Tail(seq)) : Tail(seq)[i].message # Head(seq).message
<1>1. Len(seq) \in Nat /\ Len(seq) # 0
    BY LenProperties, EmptySeq
<1>2. /\ Tail(seq) \in Seq(Result) /\ Head(seq) \in Result /\ Len(Tail(seq)) = Len(seq) - 1
      /\ \A i \in 1..Len(Tail(seq)) : Tail(seq)[i] = seq[i + 1]
    BY HeadTailProperties
<1>3. Head(seq) = seq[1] /\ 1 \in 1..Len(seq)
    BY <1>1
<1>4. \A i \in 1..Len(Tail(seq)) : i + 1 \in 1..Len(seq) /\ i + 1 # 1
    BY <1>1, <1>2
<1>5. Numbered(seq) => Numbered(Tail(seq)) /\ Head(seq).turn = Head(seq).message
    BY <1>2, <1>3, <1>4 DEF Numbered
<1>6. ASSUME NoTwins(seq) PROVE NoTwins(Tail(seq))
    <2>1. SUFFICES ASSUME NEW i \in 1..Len(Tail(seq)), NEW j \in 1..Len(Tail(seq)),
                          Tail(seq)[i].message = Tail(seq)[j].message
                   PROVE  i = j
        BY DEF NoTwins
    <2>2. seq[i + 1].message = seq[j + 1].message
        BY <1>2, <2>1
    <2>3. i + 1 = j + 1
        BY <1>4, <1>6, <2>2 DEF NoTwins
    <2> QED BY <2>3
<1>7. ASSUME NoTwins(seq), NEW i \in 1..Len(Tail(seq)) PROVE Tail(seq)[i].message # Head(seq).message
    <2>1. Tail(seq)[i] = seq[i + 1] /\ i + 1 \in 1..Len(seq) /\ i + 1 # 1
        BY <1>2, <1>4
    <2> QED BY <1>3, <1>7, <2>1 DEF NoTwins
<1> QED BY <1>1, <1>2, <1>3, <1>4, <1>5, <1>6, <1>7

LEMMA ChildAnswersKeeps ==
    ASSUME ForkInv, ChildAnswers
    PROVE  ForkInv'
<1> DEFINE r == Head(toChild)
<1>0. ForkTypeOK /\ TurnIsMessage /\ OnePlace
    BY DEF ForkInv
<1>1. /\ toChild # <<>> /\ fromChild' = Append(fromChild, r) /\ toChild' = Tail(toChild)
      /\ UNCHANGED <<exchanges, messages, sender, turnOf, messageOf, replyTo,
                     waiterOf, turnResults, routing, queuedLate>>
    BY DEF ChildAnswers
<1>2. /\ r \in Result /\ r = toChild[1] /\ Len(toChild) \in Nat /\ 1 \in 1..Len(toChild)
      /\ toChild' \in Seq(Result) /\ Len(toChild') = Len(toChild) - 1
      /\ \A i \in 1..Len(toChild') : i + 1 \in 1..Len(toChild) /\ toChild'[i] = toChild[i + 1]
      /\ Numbered(toChild') /\ r.turn = r.message
      /\ NoTwins(toChild')
      /\ \A i \in 1..Len(toChild') : toChild'[i].message # r.message
    BY <1>0, <1>1, FirstResult DEF ForkTypeOK, TurnIsMessage, OnePlace
<1> HIDE DEF r
<1>3. /\ fromChild' \in Seq(Result) /\ Len(fromChild') = Len(fromChild) + 1 /\ Len(fromChild) \in Nat
      /\ \A i \in 1..Len(fromChild) : fromChild'[i] = fromChild[i]
      /\ fromChild'[Len(fromChild) + 1] = r
    BY <1>0, <1>1, <1>2, LenProperties DEF ForkTypeOK
<1>4. \A i \in 1..Len(fromChild') : i \in 1..Len(fromChild) \/ i = Len(fromChild) + 1
    BY <1>3
<1>5. ForkTypeOK'
    BY <1>0, <1>1, <1>2, <1>3 DEF ForkTypeOK
<1>6. TurnIsMessage'
    <2>1. Numbered(toChild)' /\ Numbered(fromChild)'
        BY <1>0, <1>2, <1>3, <1>4 DEF TurnIsMessage, Numbered
    <2> QED BY <1>0, <1>1, <2>1 DEF TurnIsMessage
<1>7. \A m : /\ InPipe(m)' => InPipe(m)
             /\ Routed(m)' = Routed(m) /\ Stored(m)' = Stored(m) /\ Taken(m)' = Taken(m)
    <2>1. ASSUME NEW m, InPipe(m)' PROVE InPipe(m)
        <3>1. CASE \E i \in 1..Len(toChild') : toChild'[i].message = m
            BY <1>2, <3>1 DEF InPipe
        <3>2. CASE \E i \in 1..Len(fromChild') : fromChild'[i].message = m
            BY <1>2, <1>3, <1>4, <3>2 DEF InPipe
        <3> QED BY <2>1, <3>1, <3>2 DEF InPipe
    <2> QED BY <1>1, <2>1 DEF Routed, Stored, Taken
<1>8. \A j \in 1..Len(fromChild) : fromChild[j].message # r.message
    BY <1>0, <1>2 DEF OnePlace
<1>9. NoTwins(fromChild')
    BY <1>0, <1>3, <1>4, <1>8 DEF OnePlace, NoTwins
<1>10. ASSUME NEW i \in 1..Len(toChild'), NEW j \in 1..Len(fromChild')
       PROVE  toChild'[i].message # fromChild'[j].message
    <2>1. CASE j \in 1..Len(fromChild)
        BY <1>0, <1>2, <1>3, <2>1 DEF OnePlace
    <2>2. CASE j = Len(fromChild) + 1
        BY <1>2, <1>3, <2>2
    <2> QED BY <1>4, <2>1, <2>2
<1>11. OnePlace'
    <2>1. NoTwins(toChild)' /\ NoTwins(fromChild)'
        BY <1>2, <1>9 DEF NoTwins
    <2> QED BY <1>0, <1>1, <1>7, <1>10, <2>1 DEF OnePlace
<1>12. UnsentIsNowhere'
    BY <1>1, <1>7 DEF ForkInv, UnsentIsNowhere
<1> QED BY <1>5, <1>6, <1>11, <1>12 DEF ForkInv

LEMMA RouteResultKeeps ==
    ASSUME ForkInv, RouteResult
    PROVE  ForkInv'
<1> DEFINE r == Head(fromChild)
<1>0. ForkTypeOK /\ TurnIsMessage /\ OnePlace
    BY DEF ForkInv
<1>1. /\ routing = <<>> /\ fromChild # <<>> /\ fromChild' = Tail(fromChild)
      /\ UNCHANGED <<exchanges, messages, sender, turnOf, messageOf, replyTo,
                     waiterOf, turnResults, toChild>>
      /\ \/ queuedLate' = queuedLate \cup {r.message} /\ routing' = routing
         \/ routing' = <<[result |-> r, event |-> waiterOf[r.turn]]>> /\ queuedLate' = queuedLate
    BY DEF RouteResult
<1>2. /\ r \in Result /\ r = fromChild[1] /\ 1 \in 1..Len(fromChild)
      /\ fromChild' \in Seq(Result)
      /\ \A i \in 1..Len(fromChild') : i + 1 \in 1..Len(fromChild) /\ fromChild'[i] = fromChild[i + 1]
      /\ Numbered(fromChild') /\ r.turn = r.message
      /\ NoTwins(fromChild')
      /\ \A i \in 1..Len(fromChild') : fromChild'[i].message # r.message
    BY <1>0, <1>1, FirstResult DEF ForkTypeOK, TurnIsMessage, OnePlace
<1> HIDE DEF r
<1>3. waiterOf[r.turn] \in Nat /\ r.message \in Nat
    BY <1>0, <1>2 DEF ForkTypeOK, Result
<1>4. ForkTypeOK'
    BY <1>0, <1>1, <1>2, <1>3 DEF ForkTypeOK
<1>5. \/ routing' = <<>> /\ queuedLate' = queuedLate \cup {r.message}
      \/ /\ routing' # <<>> /\ routing'[1].result = r /\ queuedLate' = queuedLate
    BY <1>1
<1>6. TurnIsMessage'
    <2>1. Numbered(toChild)' /\ Numbered(fromChild)'
        BY <1>0, <1>1, <1>2 DEF TurnIsMessage, Numbered
    <2> QED BY <1>0, <1>1, <1>2, <1>5, <2>1 DEF TurnIsMessage
<1>7. PICK m0 : m0 = r.message
    OBVIOUS
<1>8. InPipe(m0) /\ ~InPipe(m0)'
    <2>1. InPipe(m0)
        BY <1>2, <1>7 DEF InPipe
    <2>2. \A i \in 1..Len(toChild') : toChild'[i].message # m0
        BY <1>0, <1>1, <1>2, <1>7 DEF OnePlace
    <2>3. \A i \in 1..Len(fromChild') : fromChild'[i].message # m0
        BY <1>2, <1>7
    <2> QED BY <2>1, <2>2, <2>3 DEF InPipe
<1>9. \A m : /\ InPipe(m)' => InPipe(m)
             /\ Stored(m)' = Stored(m) /\ Taken(m)' = Taken(m)
             /\ Routed(m)' => m = m0 /\ queuedLate' = queuedLate
             /\ m \in queuedLate' => m \in queuedLate \/ (m = m0 /\ ~Routed(m)')
    <2>1. \A m : InPipe(m)' => InPipe(m)
        BY <1>1, <1>2 DEF InPipe
    <2>2. \A m : Stored(m)' = Stored(m) /\ Taken(m)' = Taken(m)
        BY <1>1 DEF Stored, Taken
    <2>3. \A m : Routed(m)' => m = m0 /\ queuedLate' = queuedLate
        BY <1>5, <1>7 DEF Routed
    <2>4. \A m : m \in queuedLate' => m \in queuedLate \/ (m = m0 /\ ~Routed(m)')
        BY <1>5, <1>7 DEF Routed
    <2> QED BY <2>1, <2>2, <2>3, <2>4
<1>10. \A i \in 1..Len(toChild'), j \in 1..Len(fromChild') :
          toChild'[i].message # fromChild'[j].message
    BY <1>0, <1>1, <1>2 DEF OnePlace
<1>11. NoTwins(toChild') /\ NoTwins(fromChild')
    BY <1>0, <1>1, <1>2 DEF OnePlace
<1>12. m0 \in 1..MaxMessages => m0 \notin queuedLate
    BY <1>0, <1>8 DEF OnePlace
<1>13. ASSUME NEW m \in 1..MaxMessages
       PROVE  /\ InPipe(m)' => InPipe(m) /\ m # m0
              /\ Routed(m)' => m = m0 /\ InPipe(m) /\ ~InPipe(m)' /\ m \notin queuedLate'
              /\ Stored(m)' => Stored(m)
              /\ Taken(m)' => Taken(m)
              /\ m \in queuedLate' => m \in queuedLate \/ (m = m0 /\ InPipe(m) /\ ~InPipe(m)' /\ ~Routed(m)')
    <2>1. CASE m = m0
        BY <1>8, <1>9, <1>12, <2>1
    <2>2. CASE m # m0
        BY <1>9, <2>2
    <2> QED BY <2>1, <2>2
<1>14. \A s \in Senders : sender'[s] = sender[s]
    BY <1>1
<1> QED BY <1>1, <1>4, <1>6, <1>10, <1>11, <1>13, <1>14, ResultMoves

LEMMA StoreResultKeeps ==
    ASSUME ForkInv, StoreResult
    PROVE  ForkInv'
<1> DEFINE r == routing[1].result
<1>0. ForkTypeOK /\ TurnIsMessage /\ OnePlace
    BY DEF ForkInv
<1>1. /\ routing # <<>> /\ routing' = <<>>
      /\ UNCHANGED <<exchanges, messages, sender, turnOf, messageOf, replyTo,
                     waiterOf, toChild, fromChild, queuedLate>>
    BY DEF StoreResult
<1>2. Head(routing) = routing[1] /\ r \in Result /\ r.turn = r.message
    BY <1>0, <1>1 DEF ForkTypeOK, TurnIsMessage
<1>3. turnResults' = [turnResults EXCEPT ![r.turn] = r.message]
    BY <1>2 DEF StoreResult
<1>4. Routed(r.message) /\ r.turn \in Turn /\ r.message \in Nat
    BY <1>1, <1>2 DEF Routed, Result
<1> HIDE DEF r
<1>5. /\ turnResults'[r.turn] = r.message
      /\ \A t \in Turn : t # r.turn => turnResults'[t] = turnResults[t]
    BY <1>0, <1>3, <1>4 DEF ForkTypeOK
<1>6. ForkTypeOK'
    BY <1>0, <1>1, <1>3, <1>4 DEF ForkTypeOK
<1>7. TurnIsMessage'
    <2>1. Numbered(toChild)' /\ Numbered(fromChild)'
        BY <1>0, <1>1 DEF TurnIsMessage, Numbered
    <2>2. \A t \in Turn : turnResults'[t] \in {NoReply, t}
        BY <1>0, <1>2, <1>5 DEF TurnIsMessage
    <2> QED BY <1>0, <1>1, <2>1, <2>2 DEF TurnIsMessage
<1>8. \A m : /\ InPipe(m)' = InPipe(m) /\ ~Routed(m)' /\ Taken(m)' = Taken(m)
             /\ Stored(m)' => Stored(m) \/ m = r.message
    <2>1. \A m : InPipe(m)' = InPipe(m) /\ ~Routed(m)' /\ Taken(m)' = Taken(m)
        BY <1>1 DEF InPipe, Routed, Taken
    <2>2. \A m : Stored(m)' => Stored(m) \/ m = r.message
        BY <1>5 DEF Stored
    <2> QED BY <2>1, <2>2
<1>9. /\ NoTwins(toChild') /\ NoTwins(fromChild')
      /\ \A i \in 1..Len(toChild'), j \in 1..Len(fromChild') :
             toChild'[i].message # fromChild'[j].message
    BY <1>0, <1>1 DEF OnePlace
<1>10. \A m \in 1..MaxMessages :
         /\ InPipe(m)' => InPipe(m) /\ m # r.message
         /\ Stored(m)' => Stored(m) \/ (m = r.message /\ Routed(m) /\ ~Routed(m)')
         /\ Taken(m)' => Taken(m)
         /\ m \in queuedLate' => m \in queuedLate
    BY <1>0, <1>1, <1>4, <1>8 DEF OnePlace
<1> QED BY <1>1, <1>6, <1>7, <1>8, <1>9, <1>10, ResultMoves

(* Results get lost: the child dies or is terminated.                         *)
LEMMA LossKeeps ==
    ASSUME ForkInv, toChild' = <<>>, fromChild' \in Seq(Result),
           \/ fromChild' = fromChild
           \/ /\ Len(fromChild') <= 1
              /\ \A i \in 1..Len(fromChild') :
                    \/ \E j \in 1..Len(fromChild) : fromChild'[i] = fromChild[j]
                    \/ \E j \in 1..Len(toChild) : fromChild'[i] = toChild[j],
           UNCHANGED <<exchanges, messages, sender, turnOf, messageOf, replyTo,
                       waiterOf, turnResults, routing, queuedLate>>
    PROVE  ForkInv'
<1>0. ForkTypeOK /\ TurnIsMessage /\ OnePlace
    BY DEF ForkInv
<1>1. Len(toChild') = 0 /\ toChild' \in Seq(Result) /\ Len(fromChild') \in Nat
    BY EmptySeq, LenProperties
<1>2. ForkTypeOK'
    BY <1>0, <1>1 DEF ForkTypeOK
<1>3. TurnIsMessage'
    <2>1. Numbered(toChild)' /\ Numbered(fromChild)'
        BY <1>0, <1>1 DEF TurnIsMessage, Numbered
    <2> QED BY <1>0, <2>1 DEF TurnIsMessage
<1>4. NoTwins(toChild') /\ NoTwins(fromChild')
    <2>1. CASE fromChild' = fromChild
        BY <1>0, <1>1, <2>1 DEF OnePlace, NoTwins
    <2>2. CASE Len(fromChild') <= 1
        BY <1>1, <2>2 DEF NoTwins
    <2> QED BY <2>1, <2>2
<1>5. \A i \in 1..Len(toChild'), j \in 1..Len(fromChild') :
          toChild'[i].message # fromChild'[j].message
    BY <1>1
<1>6. \A m : InPipe(m)' => InPipe(m)
    BY <1>1 DEF InPipe
<1>7. \A m : Routed(m)' = Routed(m) /\ Stored(m)' = Stored(m) /\ Taken(m)' = Taken(m)
    BY DEF Routed, Stored, Taken
<1>8. OnePlace'
    <2>1. NoTwins(toChild)' /\ NoTwins(fromChild)'
        BY <1>4 DEF NoTwins
    <2> QED BY <1>0, <1>5, <1>6, <1>7, <2>1 DEF OnePlace
<1>9. UnsentIsNowhere'
    BY <1>6, <1>7 DEF ForkInv, UnsentIsNowhere
<1> QED BY <1>2, <1>3, <1>8, <1>9 DEF ForkInv

LEMMA TerminateKeeps ==
    ASSUME ForkInv, Terminate
    PROVE  ForkInv'
<1> DEFINE left == fromChild \o toChild
<1>0. fromChild \in Seq(Result) /\ toChild \in Seq(Result)
    BY DEF ForkInv, ForkTypeOK
<1>1. /\ left \in Seq(Result) /\ Len(left) = Len(fromChild) + Len(toChild)
      /\ Len(fromChild) \in Nat /\ Len(toChild) \in Nat
      /\ \A i \in 1..Len(left) : left[i] = IF i <= Len(fromChild) THEN fromChild[i]
                                                             ELSE toChild[i - Len(fromChild)]
    BY <1>0, ConcatProperties, LenProperties
<1>2. /\ toChild' = <<>>
      /\ fromChild' \in {<<>>, SubSeq(left, 1, IF left = <<>> THEN 0 ELSE 1)}
      /\ UNCHANGED <<exchanges, messages, sender, turnOf, messageOf, replyTo,
                     waiterOf, turnResults, routing, queuedLate>>
    BY DEF Terminate
<1> HIDE DEF left
<1>3. CASE fromChild' = <<>>
    <2>1. fromChild' \in Seq(Result) /\ Len(fromChild') = 0
        BY <1>3, EmptySeq
    <2> QED BY <1>2, <2>1, LossKeeps
<1>4. CASE left = <<>>
    <2>1. fromChild' = <<>>
        BY <1>2, <1>4, SubSeqEmpty
    <2> QED BY <1>3, <2>1
<1>5. CASE left # <<>> /\ fromChild' = SubSeq(left, 1, 1)
    <2>1. 1 \in 1..Len(left) /\ left[1] \in Result
        BY <1>1, <1>5, EmptySeq, ElementOfSeq
    <2>2. fromChild' \in Seq(Result) /\ Len(fromChild') = 1 /\ fromChild'[1] = left[1]
        BY <1>5, <2>1, SubSeqProperties
    <2>3. \/ \E j \in 1..Len(fromChild) : left[1] = fromChild[j]
          \/ \E j \in 1..Len(toChild) : left[1] = toChild[j]
        <3>1. CASE 1 <= Len(fromChild)
            BY <1>1, <2>1, <3>1
        <3>2. CASE ~(1 <= Len(fromChild))
            <4>1. Len(fromChild) = 0 /\ left[1] = toChild[1] /\ 1 \in 1..Len(toChild)
                BY <1>1, <2>1, <3>2
            <4> QED BY <4>1
        <3> QED BY <3>1, <3>2
    <2>4. \A i \in 1..Len(fromChild') : i = 1
        BY <2>2
    <2> QED BY <1>2, <2>2, <2>3, <2>4, LossKeeps
<1> QED BY <1>2, <1>3, <1>4, <1>5

LEMMA ForkStep == OneSender /\ ForkInv /\ [ForkNext]_forkVars => ForkInv'
<1> SUFFICES ASSUME OneSender, ForkInv, [ForkNext]_forkVars PROVE ForkInv'
    OBVIOUS
<1>1. ASSUME NEW s \in Senders, CountTurn(s) PROVE ForkInv'
    BY <1>1, CountTurnKeeps
<1>2. ASSUME NEW s \in Senders, SenderStep(s) PROVE ForkInv'
    BY <1>2, SendTurnKeeps, EndWaitKeeps, TakeTurnResultKeeps, RecordExchangeKeeps DEF SenderStep
<1>3. CASE ChildAnswers
    BY <1>3, ChildAnswersKeeps
<1>4. CASE RouteResult
    BY <1>4, RouteResultKeeps
<1>5. CASE StoreResult
    BY <1>5, StoreResultKeeps
<1>6. CASE ChildDies
    <2>1. fromChild \in Seq(Result)
        BY DEF ForkInv, ForkTypeOK
    <2> QED BY <1>6, <2>1, LossKeeps DEF ChildDies
<1>7. CASE Terminate
    BY <1>7, TerminateKeeps
<1>8. CASE UNCHANGED forkVars
    <2>1. ForkTypeOK'
        BY <1>8 DEF forkVars, ForkInv, ForkTypeOK
    <2>2. TurnIsMessage'
        BY <1>8 DEF forkVars, ForkInv, TurnIsMessage, Numbered
    <2> QED BY <1>8, <2>1, <2>2, SenderMoves DEF forkVars
<1> QED BY <1>1, <1>2, <1>3, <1>4, <1>5, <1>6, <1>7, <1>8 DEF ForkNext

(* With one sender at a time a result's turn number is its message's, and a result *)
(* is in one place: pipe, router, dictionary or caller.                            *)
THEOREM ForkInvariant == OneSender => (ForkSpec => []ForkInv)
<1> SUFFICES ASSUME OneSender PROVE ForkSpec => []ForkInv
    OBVIOUS
<1>1. ForkInv /\ [ForkNext]_forkVars => ForkInv'
    BY ForkStep
<1> QED BY <1>1, ForkStart, PTL DEF ForkSpec

(* With one sender a message is answered by its own reply or by none.         *)
THEOREM ReplyIsOwn == OneSender => (ForkSpec => []OwnReply)
<1> SUFFICES ASSUME OneSender PROVE ForkSpec => []OwnReply
    OBVIOUS
<1>1. ForkInv => OwnReply
    BY DEF ForkInv, TurnIsMessage, OwnReply
<1> QED BY <1>1, ForkInvariant, PTL

(* With one sender no reply is used twice, though a late one is kept.         *)
THEOREM ReplyIsUsedUp == OneSender => (ForkSpec => []ReplyUsedOnce)
<1> SUFFICES ASSUME OneSender PROVE ForkSpec => []ReplyUsedOnce
    OBVIOUS
<1>1. ASSUME ForkInv, NEW s \in Senders, replyTo[s] # NoReply
      PROVE  replyTo[s] \notin queuedLate /\ \A t \in Turn : turnResults[t] # replyTo[s]
    <2>1. replyTo[s] \in 1..MaxMessages
        BY <1>1, ForkAssumption DEF ForkInv, ForkTypeOK, TurnIsMessage, NoReply
    <2>2. Taken(replyTo[s])
        BY DEF Taken
    <2> QED BY <1>1, <2>1, <2>2 DEF ForkInv, OnePlace, Stored
<1>2. ForkInv => ReplyUsedOnce
    BY <1>1 DEF ReplyUsedOnce
<1> QED BY <1>2, ForkInvariant, PTL
=============================================================================
