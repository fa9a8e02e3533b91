------------------------------ MODULE PreventSleep ------------------------------
(* PreventSleepService (services/prevent_sleep/service.py) on macOS: a count  *)
(* of callers, a caffeinate process that exits by itself after a timeout, and *)
(* a chain of timers that restarts it before.  Each locked method and each    *)
(* timer callback is one action; a callback that is due waits for the lock.   *)
EXTENDS Integers, FiniteSets

CONSTANTS
    Timeout,        \* timeout_seconds, in units of Tick
    RestartAfter,   \* restart_interval_ms, in units of Tick
    MaxCallers,     \* bound: callers that have enabled at the same time
    MaxTimers       \* bound: timers that live at the same time

ASSUME SleepAssumption ==
    /\ RestartAfter \in Nat \ {0} /\ Timeout \in Nat /\ RestartAfter < Timeout
    /\ MaxCallers \in Nat /\ MaxTimers \in Nat \ {0}

NoTimer == 0
Timers == 1..MaxTimers
Unused == -1

VARIABLES
    refCount,       \* _ref_count
    callers,        \* enable() calls without their disable(), as callers know
    caffeinate,     \* ticks until _caffeinate_process exits, Unused for None
    spawnFailed,    \* the last spawn found no caffeinate or failed
    restartTimer,   \* _restart_interval
    left            \* per timer the ticks left; 0: its callback waits for the lock

sleepVars == <<refCount, callers, caffeinate, spawnFailed, restartTimer, left>>

SleepInit ==
    /\ refCount = 0
    /\ callers = 0
    /\ caffeinate = Unused
    /\ spawnFailed = FALSE
    /\ restartTimer = NoTimer
    /\ left = [t \in Timers |-> Unused]

(* Popen may fail: the process is None then.                                  *)
SpawnCaffeinate ==
    \/ caffeinate' = Timeout /\ spawnFailed' = FALSE
    \/ caffeinate' = Unused /\ spawnFailed' = TRUE

KillCaffeinate == caffeinate' = Unused

(* A new Timer; a timer object is one of the unused numbers.                  *)
StartTimer(timers) ==
    \E t \in {u \in Timers : timers[u] = Unused} :
        /\ restartTimer' = t
        /\ left' = [timers EXCEPT ![t] = RestartAfter]

(* cancel() stops a timer that waits for its time, not its running callback.  *)
StopTimer ==
    /\ restartTimer' = NoTimer
    /\ left' = IF restartTimer # NoTimer /\ left[restartTimer] > 0
               THEN [left EXCEPT ![restartTimer] = Unused] ELSE left

Enable ==
    /\ callers < MaxCallers
    /\ callers' = callers + 1
    /\ refCount' = refCount + 1
    /\ IF refCount = 0
       THEN /\ SpawnCaffeinate
            /\ IF restartTimer = NoTimer THEN StartTimer(left)
                                         ELSE UNCHANGED <<restartTimer, left>>
       ELSE UNCHANGED <<caffeinate, spawnFailed, restartTimer, left>>

StopPreventing == StopTimer /\ KillCaffeinate /\ UNCHANGED spawnFailed

(* Mutant: every caller that leaves stops the timer.                          *)
DisableEach ==
    /\ callers' = IF callers > 0 THEN callers - 1 ELSE 0
    /\ refCount' = IF refCount > 0 THEN refCount - 1 ELSE 0
    /\ StopPreventing

(* disable(), also by a caller that never enabled or was stopped by force.    *)
Disable ==
    /\ callers' = IF callers > 0 THEN callers - 1 ELSE 0
    /\ refCount' = IF refCount > 0 THEN refCount - 1 ELSE 0
    /\ IF refCount' = 0 THEN StopPreventing
                        ELSE UNCHANGED <<caffeinate, spawnFailed, restartTimer, left>>

ForceStop ==
    /\ refCount' = 0
    /\ callers' = 0
    /\ StopPreventing

(* Mutant: the process is restarted once.                                     *)
RestartOnce(t) ==
    /\ left[t] = 0
    /\ left' = [left EXCEPT ![t] = Unused]
    /\ restartTimer' = NoTimer
    /\ IF refCount > 0 THEN SpawnCaffeinate ELSE UNCHANGED <<caffeinate, spawnFailed>>
    /\ UNCHANGED <<refCount, callers>>

(* restart_loop of timer t gets the lock.                                     *)
RestartLoop(t) ==
    /\ left[t] = 0
    /\ LET over == [left EXCEPT ![t] = Unused] IN
       IF refCount > 0
       THEN SpawnCaffeinate /\ StartTimer(over)
       ELSE left' = over /\ restartTimer' = NoTimer /\ UNCHANGED <<caffeinate, spawnFailed>>
    /\ UNCHANGED <<refCount, callers>>

(* A tick of the clock; a callback that is due runs within the tick.          *)
Tick ==
    /\ \A t \in Timers : left[t] # 0
    /\ left' = [t \in Timers |-> IF left[t] = Unused THEN Unused ELSE left[t] - 1]
    /\ caffeinate' = IF caffeinate > 0 THEN caffeinate - 1 ELSE caffeinate
    /\ UNCHANGED <<refCount, callers, spawnFailed, restartTimer>>

SleepNext ==
    \/ Enable \/ Disable \/ ForceStop \/ Tick
    \/ \E t \in Timers : RestartLoop(t)

SleepFairness == WF_sleepVars(Tick) /\ \A t \in Timers : WF_sleepVars(RestartLoop(t))

SleepSpec == SleepInit /\ [][SleepNext]_sleepVars /\ SleepFairness

SleepTypeOK ==
    /\ refCount \in 0..MaxCallers
    /\ caffeinate \in {Unused} \cup 0..Timeout
    /\ restartTimer \in {NoTimer} \cup Timers
    /\ left \in [Timers -> {Unused} \cup 0..RestartAfter]

(* "restart it before it expires to maintain continuous sleep prevention":    *)
(* while a caller needs it caffeinate runs, across timers, cancelled or late  *)
(* callbacks and nested callers, unless it could not be spawned.              *)
AwakeWhileNeeded == refCount > 0 => (caffeinate > 0 \/ spawnFailed)

(* Without callers nothing is left running that keeps the machine awake, and  *)
(* no late callback brings it back.                                           *)
AsleepOtherwise == refCount = 0 => caffeinate = Unused

(* The service can stop the chain: while it is needed the timer it knows is   *)
(* alive, so that a later stop cancels it, whatever stale callbacks did.      *)
TimerIsKnown ==
    refCount > 0 => (restartTimer # NoTimer /\ left[restartTimer] # Unused)
=============================================================================
