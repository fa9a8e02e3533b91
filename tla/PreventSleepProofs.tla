--------------------------- MODULE PreventSleepProofs ---------------------------
(* Proofs about PreventSleep, for any timeout, any shorter restart interval   *)
(* and any numbers of callers and timers.                                     *)
EXTENDS PreventSleep, TLAPS

(* The process outlives the timer that will restart it, unless it could not   *)
(* be spawned.                                                                *)
RestartComesFirst ==
    refCount > 0 => /\ restartTimer \in Timers
                    /\ left[restartTimer] # Unused
                    /\ caffeinate > left[restartTimer] \/ spawnFailed

(* Without callers the service knows no timer: one that is left runs into     *)
(* refCount = 0 and ends.                                                     *)
NothingAtRest == refCount = 0 => restartTimer = NoTimer /\ caffeinate = Unused

SleepInv ==
    /\ SleepTypeOK
    /\ refCount = callers
    /\ RestartComesFirst
    /\ NothingAtRest

USE SleepAssumption DEF Timers, NoTimer, Unused

LEMMA SleepInitially == SleepInit => SleepInv
BY DEF SleepInit, SleepInv, SleepTypeOK, RestartComesFirst, NothingAtRest

(* A spawn together with a new timer establishes what a caller needs.         *)
LEMMA FreshStart ==
    ASSUME SleepTypeOK, NEW timers \in [Timers -> {Unused} \cup 0..RestartAfter],
           SpawnCaffeinate, StartTimer(timers)
    PROVE  /\ caffeinate' \in {Unused} \cup 0..Timeout
           /\ restartTimer' \in Timers
           /\ left' \in [Timers -> {Unused} \cup 0..RestartAfter]
           /\ left'[restartTimer'] = RestartAfter
           /\ caffeinate' > left'[restartTimer'] \/ spawnFailed'
<1>1. caffeinate' \in {Unused} \cup 0..Timeout /\ (caffeinate' = Timeout \/ spawnFailed')
    BY DEF SpawnCaffeinate
<1>2. PICK t \in Timers : restartTimer' = t /\ left' = [timers EXCEPT ![t] = RestartAfter]
    BY DEF StartTimer
<1>3. left' \in [Timers -> {Unused} \cup 0..RestartAfter] /\ left'[t] = RestartAfter
    BY <1>2
<1> QED
    BY <1>1, <1>2, <1>3

(* Stopping leaves nothing the service knows of.                              *)
LEMMA Stopped ==
    ASSUME SleepTypeOK, StopPreventing
    PROVE  /\ caffeinate' = Unused
           /\ restartTimer' = NoTimer
           /\ left' \in [Timers -> {Unused} \cup 0..RestartAfter]
BY DEF StopPreventing, StopTimer, KillCaffeinate, SleepTypeOK

LEMMA SleepStep == SleepInv /\ [SleepNext]_sleepVars => SleepInv'
<1> SUFFICES ASSUME SleepInv, [SleepNext]_sleepVars PROVE SleepInv'
    OBVIOUS
<1>t. SleepTypeOK /\ refCount = callers /\ RestartComesFirst /\ NothingAtRest
    BY DEF SleepInv
<1> USE DEF SleepInv, SleepTypeOK, RestartComesFirst, NothingAtRest
<1>1. CASE Enable
    <2>1. /\ callers' \in 0..MaxCallers /\ refCount' = callers' /\ refCount' > 0
        BY <1>1, <1>t DEF Enable
    <2>2. CASE refCount = 0
        <3>1. left \in [Timers -> {Unused} \cup 0..RestartAfter]
            BY <1>t
        <3>2. SpawnCaffeinate /\ StartTimer(left)
            BY <1>1, <1>t, <2>2 DEF Enable
        <3> QED BY <1>t, <2>1, <3>1, <3>2, FreshStart
    <2>3. CASE refCount # 0
        BY <1>1, <1>t, <2>1, <2>3 DEF Enable
    <2> QED BY <2>2, <2>3
<1>2. CASE Disable
    <2>1. /\ callers' \in 0..MaxCallers /\ refCount' = callers'
          /\ refCount' # 0 => refCount > 0
        BY <1>2, <1>t DEF Disable
    <2>2. CASE refCount' = 0
        <3>1. StopPreventing
            BY <1>2, <2>2 DEF Disable
        <3> QED BY <1>t, <2>1, <2>2, <3>1, Stopped
    <2>3. CASE refCount' # 0
        BY <1>2, <1>t, <2>1, <2>3 DEF Disable
    <2> QED BY <2>2, <2>3
<1>3. CASE ForceStop
    <2>1. StopPreventing /\ refCount' = 0 /\ callers' = 0
        BY <1>3 DEF ForceStop
    <2> QED BY <1>t, <2>1, Stopped
<1>4. CASE Tick
    <2>1. left' \in [Timers -> {Unused} \cup 0..RestartAfter]
        BY <1>4, <1>t DEF Tick
    <2>2. caffeinate' \in {Unused} \cup 0..Timeout
        BY <1>4, <1>t DEF Tick
    <2>3. RestartComesFirst'
        <3>1. SUFFICES ASSUME refCount' > 0 PROVE RestartComesFirst'
            OBVIOUS
        <3>2. /\ refCount > 0 /\ restartTimer \in Timers /\ restartTimer' = restartTimer
              /\ left[restartTimer] \in 1..RestartAfter
              /\ caffeinate > left[restartTimer] \/ spawnFailed
            BY <1>4, <1>t, <3>1 DEF Tick
        <3>3. left'[restartTimer] = left[restartTimer] - 1
            BY <1>4, <3>2 DEF Tick
        <3>4. caffeinate > left[restartTimer] => caffeinate' = caffeinate - 1
            BY <1>4, <1>t, <3>2 DEF Tick
        <3>5. spawnFailed' = spawnFailed
            BY <1>4 DEF Tick
        <3> QED BY <1>t, <3>2, <3>3, <3>4, <3>5
    <2> QED BY <1>4, <1>t, <2>1, <2>2, <2>3 DEF Tick
<1>5. ASSUME NEW t \in Timers, RestartLoop(t) PROVE SleepInv'
    <2> DEFINE over == [left EXCEPT ![t] = Unused]
    <2>1. over \in [Timers -> {Unused} \cup 0..RestartAfter]
        BY <1>t
    <2>2. refCount' = refCount /\ callers' = callers
        BY <1>5 DEF RestartLoop
    <2>3. CASE refCount > 0
        <3>1. SpawnCaffeinate /\ StartTimer(over)
            BY <1>5, <2>3 DEF RestartLoop
        <3>2. /\ caffeinate' \in {Unused} \cup 0..Timeout
              /\ restartTimer' \in Timers
              /\ left' \in [Timers -> {Unused} \cup 0..RestartAfter]
              /\ left'[restartTimer'] = RestartAfter
              /\ caffeinate' > left'[restartTimer'] \/ spawnFailed'
            <4> HIDE DEF over
            <4> QED BY <1>t, <2>1, <3>1, FreshStart
        <3> QED BY <1>t, <2>2, <2>3, <3>2
    <2>4. CASE ~(refCount > 0)
        BY <1>5, <1>t, <2>1, <2>2, <2>4 DEF RestartLoop
    <2> QED BY <2>3, <2>4
<1>6. CASE UNCHANGED sleepVars
    BY <1>6, <1>t DEF sleepVars
<1> QED
    BY <1>1, <1>2, <1>3, <1>4, <1>5, <1>6 DEF SleepNext

(* The inductive invariant holds in every reachable state.                    *)
THEOREM SleepInvariant == SleepSpec => []SleepInv
BY SleepInitially, SleepStep, PTL DEF SleepSpec

(* The machine is kept awake while a caller needs it (restart_loop comes      *)
(* before caffeinate's timeout), for every timeout longer than the interval.  *)
THEOREM StaysAwake == SleepSpec => []AwakeWhileNeeded
<1>1. SleepInv => AwakeWhileNeeded
    BY DEF SleepInv, SleepTypeOK, RestartComesFirst, AwakeWhileNeeded
<1> QED BY <1>1, SleepInvariant, PTL

(* The timer the service would cancel is the one that is alive.               *)
THEOREM KnowsItsTimer == SleepSpec => []TimerIsKnown
<1>1. SleepInv => TimerIsKnown
    BY DEF SleepInv, RestartComesFirst, TimerIsKnown
<1> QED BY <1>1, SleepInvariant, PTL

(* Without callers no caffeinate is left, whatever late callbacks do.         *)
THEOREM FallsAsleep == SleepSpec => []AsleepOtherwise
<1>1. SleepInv => AsleepOtherwise
    BY DEF SleepInv, NothingAtRest, AsleepOtherwise
<1> QED BY <1>1, SleepInvariant, PTL
=============================================================================
