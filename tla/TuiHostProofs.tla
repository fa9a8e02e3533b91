----------------------------- MODULE TuiHostProofs -----------------------------
(* What is proved about TuiHost for a patient user: one who waits for the last  *)
(* worker before submitting again, and presses Esc and ctrl+g whenever he likes.*)
EXTENDS TuiHost, QueryEngineProofs

USE TurnsAssumption, SessionsAssumption, ResponsesAssumption, CapAssumption, FlagsAssumption

InLoop == {"backend", "answer", "blocked", "tools", "permission", "executing"}
Active == {"turn", "tail"}

(* What holds of one prompt: a running turn is in its worker, a dialog belongs to *)
(* a turn that waits for a permission, the turn loop found no turn in progress    *)
(* when it was entered, and an interrupt that met a turn stays until it is over.  *)
PromptInv(t) ==
    /\ Running(t) => worker[t] = "turn"
    /\ dialog[t] # "none" => pc[t] = "permission"
    /\ pc[t] \in InLoop => ~local[t].previous
    /\ pc[t] = "new" => struck[t] = "no"
    /\ struck[t] # "no" /\ Running(t) => interruptEvent

OneWorker == \A t, u \in Turns : worker[t] \in Active /\ worker[u] \in Active => t = u

\* The flags of the engine outside the turn loop.
LoopLeft == (\A t \in Turns : pc[t] \notin InLoop) => ~inProgress /\ activeState = None

PendingIsOpen == pendingDialog # None => pendingDialog \in Turns /\ dialog[pendingDialog] # "none"

TuiInv ==
    /\ EngineInv
    /\ worker \in [Turns -> {"none", "turn", "tail", "ended"}]
    /\ dialog \in [Turns -> {"none", "open", "denied"}]
    /\ OneWorker
    /\ LoopLeft
    /\ PendingIsOpen
    /\ \A t \in Turns : PromptInv(t)

-----------------------------------------------------------------------------
(* A step of the user interface is one of the engine, or leaves the engine alone *)
(* but for the interrupt that the end of a worker clears.                        *)
LEMMA EngineKept ==
    ASSUME EngineInv, [TuiNext]_tuiVars
    PROVE  EngineInv'
<1>1. CASE [Next]_vars
  BY <1>1, TypeStep, TurnInvStep DEF EngineInv
<1>2. ASSUME NEW t \in Turns, ClearInterrupt(t) PROVE EngineInv'
  <2>1. pc' = pc /\ local' = local /\ rounds' = rounds /\ emitted' = emitted
    BY <1>2 DEF ClearInterrupt
  <2>2. \A u \in Turns : TurnInv(u)'
    BY <2>1, TurnFrame DEF EngineInv
  <2>3. TypeOK'
    BY <1>2 DEF ClearInterrupt, EngineInv, TypeOK, conversation
  <2> QED BY <2>2, <2>3 DEF EngineInv
<1>3. ASSUME NEW t \in Turns, WorkerStep(t), ~ClearInterrupt(t) PROVE [Next]_vars
  BY <1>3 DEF WorkerStep, StartWorker, CancelledWorkerReturns, WorkTurn, OpenDialog, DialogDenied,
              ShowOutputs, Next, TurnStep, Permit
<1>4. ASSUME NEW t \in Turns, Submit(t) \/ AnswerDialog(t) PROVE [Next]_vars
  BY <1>4 DEF Submit, AnswerDialog, Next, TurnStep
<1>5. CASE HandleInterrupt \/ NewSession \/ UNCHANGED tuiVars
  BY <1>1, <1>5 DEF HandleInterrupt, NewSession, Next, tuiVars
<1> QED BY <1>1, <1>2, <1>3, <1>4, <1>5 DEF TuiNext

(* Whoever submits when, and wherever Esc and ctrl+g come, the turns in the worker  *)
(* threads keep the engine's invariant (its text is in QueryEngineProofs).          *)
THEOREM WorkersKeepTheEngine == TuiSpec => []EngineInv
<1>1. TuiInit => EngineInv
  BY InitType, InitTurnInv DEF TuiInit, EngineInv
<1>2. EngineInv /\ [TuiNext]_tuiVars => EngineInv'
  BY EngineKept
<1> QED BY <1>1, <1>2, PTL DEF TuiSpec

(* In the terminal UI, too, the loop guard and the cap hold and a turn's outputs end *)
(* as they should, with any number of prompts running at once.                      *)
THEOREM WorkersTurnsAreSound ==
    TuiSpec => [](NoThirdIdenticalRound /\ RoundsCapped /\ ResultThenIdle)
<1>1. EngineInv => NoThirdIdenticalRound /\ RoundsCapped
  BY DEF EngineInv, TurnInv, GuardInv, CapInv, NoThirdIdenticalRound, RoundsCapped
<1> QED BY <1>1, FinalOutputsEnd, WorkersKeepTheEngine, PTL

LEMMA WhereTo ==
    ASSUME TypeOK, NEW t \in Turns
    PROVE  /\ \A place : Go(t, place) => pc'[t] = place
           /\ \A l : SetLocal(t, l) => local'[t] = l
           /\ local' = local => local'[t] = local[t]
BY DEF TypeOK, Go, SetLocal

LEMMA OnlyRunningTurnsStep ==
    ASSUME NEW t \in Turns, TurnStep(t)
    PROVE  Running(t)
<1>1. pc[t] \notin {"new", "done"}
  BY DEF TurnStep, Prepare, PreparePrompt, PrepareLocal, PrepareRaises, Rewind, Resume,
         CompactStart, CompactRefused, CompactFinish, Rollback, Query, BeginTurn, BackendFails,
         BackendRaises, BackendAnswers, BackendCallsTools, LoopGuardStops, CallTools, StartCall,
         InterruptedBeforeCall, FinishCall, CrashCall, NextRound, BudgetExceeded, RoundFails,
         RoundDone, Permit, AllowCall, DenyCall, EmitAnswer, CompleteTurn
<1> QED BY <1>1 DEF Running

(* What the steps of a running turn do to its place and to the engine's flags.   *)
LoopOK(t) ==
    /\ pc[t] \in InLoop => ~local[t].previous
    /\ pc[t] \notin InLoop => ~inProgress /\ activeState = None

LEMMA LoopPrepare ==
    ASSUME TypeOK, NEW t \in Turns, Prepare(t), LoopOK(t)
    PROVE  /\ LoopOK(t)' /\ interruptEvent' = interruptEvent
           /\ pc[t] \in {"prepare", "compacting"}
           /\ pc'[t] \in {"begin", "compacting", "complete"}
<1>1. pc[t] \in {"prepare", "compacting"}
  BY DEF Prepare, PreparePrompt, PrepareLocal, PrepareRaises, Rewind, Resume, CompactStart,
         CompactRefused, CompactFinish, Rollback
<1>2. pc'[t] \in {"begin", "compacting", "complete"}
  BY WhereTo DEF Prepare, PreparePrompt, PrepareLocal, PrepareRaises, Rewind, Resume, CompactStart,
                 CompactRefused, CompactFinish, Rollback, AnswerLocally
<1>3. ~inProgress /\ activeState = None
  BY <1>1 DEF LoopOK, InLoop
<1>4. \A entries : RefreshedState(entries) = None
  BY <1>3 DEF RefreshedState
<1>5. activeState' = None
  BY <1>3, <1>4 DEF Prepare, PreparePrompt, PrepareLocal, PrepareRaises, Rewind, Resume,
        CompactStart, CompactRefused, CompactFinish, Rollback, ReplaceTranscript, flags
<1>6. inProgress' = inProgress /\ interruptEvent' = interruptEvent
  BY DEF Prepare, PreparePrompt, PrepareLocal, PrepareRaises, Rewind, Resume, CompactStart,
         CompactRefused, CompactFinish, Rollback, flags
<1> QED BY <1>1, <1>2, <1>3, <1>5, <1>6 DEF LoopOK, InLoop

LEMMA LoopFails ==
    ASSUME TypeOK, NEW t \in Turns, pc[t] \in InLoop, FailTurn(t), LoopOK(t)
    PROVE  LoopOK(t)' /\ interruptEvent' = interruptEvent /\ pc'[t] = "complete"
<1>1. pc'[t] = "complete"
  BY WhereTo DEF FailTurn
<1> QED BY <1>1 DEF FailTurn, LeaveLoop, LoopOK, InLoop

LEMMA LoopQuery ==
    ASSUME TypeOK, NEW t \in Turns, Query(t), LoopOK(t)
    PROVE  /\ LoopOK(t)' /\ interruptEvent' = interruptEvent
           /\ pc[t] \in {"begin", "backend"}
           /\ pc'[t] \in {"backend", "complete", "answer", "blocked", "tools"}
<1>0. local[t] \in Locals
  BY DEF TypeOK
<1>1. CASE BeginTurn(t)
  <2>1. pc[t] = "begin" /\ pc'[t] = "backend" /\ interruptEvent' = interruptEvent
    BY <1>1, WhereTo DEF BeginTurn
  <2>2. local'[t] = [local[t] EXCEPT !.previous = inProgress, !.sent = CurrentContext']
    BY <1>1, WhereTo DEF BeginTurn
  <2>3. local'[t].previous = inProgress
    BY <1>0, <2>2 DEF Locals
  <2>4. ~inProgress
    BY <2>1 DEF LoopOK, InLoop
  <2> QED BY <2>1, <2>3, <2>4 DEF LoopOK, InLoop
<1>2. CASE BackendFails(t) \/ LoopGuardStops(t)
  <2>1. FailTurn(t) /\ pc[t] = "backend"
    BY <1>2 DEF BackendFails, LoopGuardStops
  <2> QED BY <2>1, LoopFails DEF InLoop
<1>3. CASE BackendRaises(t)
  <2>1. pc'[t] = "complete" /\ pc[t] = "backend"
    BY <1>3, WhereTo DEF BackendRaises
  <2> QED BY <1>3, <2>1 DEF BackendRaises, LeaveLoop, LoopOK, InLoop
<1>4. CASE BackendAnswers(t)
  <2>1. pc'[t] \in {"answer", "blocked"} /\ pc[t] = "backend" /\ local'[t] = local[t]
    BY <1>4, WhereTo DEF BackendAnswers
  <2> QED BY <1>4, <2>1 DEF BackendAnswers, LoopOK, InLoop, flags
<1>5. CASE BackendCallsTools(t)
  <2>1. pc'[t] = "tools" /\ pc[t] = "backend" /\ interruptEvent' = interruptEvent
    BY <1>5, WhereTo DEF BackendCallsTools, flags
  <2>2. PICK response \in Responses \ {<<>>} :
            SetLocal(t, [local[t] EXCEPT !.signature = response,
                                           !.streak = NextStreak(local[t], response),
                                           !.calls = response])
    BY <1>5 DEF BackendCallsTools
  <2>3. local'[t].previous = local[t].previous
    BY <1>0, <2>2, WhereTo DEF Locals
  <2> QED BY <2>1, <2>3 DEF LoopOK, InLoop
<1> QED BY <1>1, <1>2, <1>3, <1>4, <1>5 DEF Query

LEMMA LoopTools ==
    ASSUME TypeOK, NEW t \in Turns, CallTools(t) \/ Permit(t), LoopOK(t)
    PROVE  /\ LoopOK(t)' /\ interruptEvent' = interruptEvent
           /\ pc[t] \in {"tools", "permission", "executing"}
           /\ pc'[t] \in {"permission", "complete", "tools", "executing", "backend", "answer"}
<1>0. local[t] \in Locals
  BY DEF TypeOK
<1>1. CASE InterruptedBeforeCall(t) \/ CrashCall(t) \/ RoundFails(t)
  <2>1. FailTurn(t) /\ pc[t] \in {"tools", "permission", "executing"}
    BY <1>1 DEF InterruptedBeforeCall, CrashCall, RoundFails, RoundDone
  <2> QED BY <2>1, LoopFails DEF InLoop
<1>2. CASE StartCall(t) \/ AllowCall(t) \/ DenyCall(t) \/ FinishCall(t) \/ NextRound(t) \/ BudgetExceeded(t)
  <2>1. /\ pc[t] \in {"tools", "permission", "executing"}
        /\ pc'[t] \in {"permission", "tools", "executing", "backend", "answer"}
    BY <1>2, WhereTo DEF StartCall, AllowCall, DenyCall, FinishCall, NextRound, BudgetExceeded,
                         RoundDone, NextCall
  <2>2. interruptEvent' = interruptEvent
    BY <1>2 DEF StartCall, AllowCall, DenyCall, FinishCall, NextRound, BudgetExceeded, flags
  <2>3. local'[t].previous = local[t].previous
    BY <1>0, <1>2, WhereTo DEF StartCall, AllowCall, DenyCall, FinishCall, NextRound,
                               BudgetExceeded, NextCall, Locals
  <2> QED BY <2>1, <2>2, <2>3 DEF LoopOK, InLoop
<1> QED BY <1>1, <1>2 DEF CallTools, Permit

LEMMA LoopStep ==
    ASSUME TypeOK, NEW t \in Turns, TurnStep(t), LoopOK(t)
    PROVE  /\ LoopOK(t)' /\ interruptEvent' = interruptEvent
           /\ Running(t) /\ pc'[t] # "new"
<1>1. CASE Prepare(t)
  BY <1>1, LoopPrepare DEF Running
<1>2. CASE Query(t)
  BY <1>2, LoopQuery DEF Running
<1>3. CASE CallTools(t) \/ Permit(t)
  BY <1>3, LoopTools DEF Running
<1>4. CASE EmitAnswer(t)
  <2>1. pc[t] \in {"answer", "blocked"} /\ pc'[t] = "complete"
    BY <1>4, WhereTo DEF EmitAnswer
  <2> QED BY <1>4, <2>1 DEF EmitAnswer, LeaveLoop, LoopOK, InLoop, Running
<1>5. CASE CompleteTurn(t)
  <2>1. pc[t] = "complete" /\ pc'[t] = "done"
    BY <1>5, WhereTo DEF CompleteTurn
  <2> QED BY <1>5, <2>1 DEF CompleteTurn, LoopOK, InLoop, Running
<1> QED BY <1>1, <1>2, <1>3, <1>4, <1>5 DEF TurnStep

-----------------------------------------------------------------------------
(* While the worker of turn t is active no other turn runs.                      *)
LEMMA Alone ==
    ASSUME TuiInv, NEW t \in Turns, worker[t] \in Active
    PROVE  /\ \A u \in Turns \ {t} : ~Running(u) /\ pc[u] \notin InLoop
           /\ LoopOK(t)
<1>1. \A u \in Turns \ {t} : ~Running(u)
  BY DEF TuiInv, OneWorker, PromptInv, Active
<1>2. \A u \in Turns \ {t} : pc[u] \notin InLoop
  BY <1>1 DEF Running, InLoop
<1>3. LoopOK(t)
  BY <1>2 DEF TuiInv, LoopLeft, PromptInv, LoopOK
<1> QED BY <1>1, <1>2, <1>3

(* A step of the engine by the turn in the active worker keeps what is said of the *)
(* other prompts and of the engine's flags.                                       *)
LEMMA TurnKeeps ==
    ASSUME TuiInv, NEW t \in Turns, worker[t] = "turn", HandleUserMessage(t) \/ TurnStep(t),
           UNCHANGED <<worker, struck>>
    PROVE  /\ OneWorker' /\ LoopLeft'
           /\ Running(t)' => worker'[t] = "turn"
           /\ pc'[t] \in InLoop => ~local'[t].previous
           /\ pc'[t] = "new" => struck'[t] = "no"
           /\ struck'[t] # "no" /\ Running(t)' => interruptEvent'
           /\ \A u \in Turns \ {t} : /\ pc'[u] = pc[u] /\ local'[u] = local[u]
                                     /\ ~Running(u) /\ ~Running(u)'
<1>0. TypeOK
  BY DEF TuiInv, EngineInv
<1>1. LoopOK(t) /\ \A u \in Turns \ {t} : ~Running(u) /\ pc[u] \notin InLoop
  BY Alone DEF Active
<1>2. \A u \in Turns \ {t} : pc'[u] = pc[u] /\ local'[u] = local[u]
  BY <1>0, OtherTurns
<1>3. LoopOK(t)' /\ pc'[t] # "new" /\ (struck[t] # "no" => interruptEvent')
  <2>1. CASE HandleUserMessage(t)
    <3>1. pc[t] = "new" /\ pc'[t] = "prepare"
      BY <1>0, <2>1, WhereTo DEF HandleUserMessage
    <3>2. struck[t] = "no"
      BY <3>1 DEF TuiInv, PromptInv
    <3> QED BY <1>1, <2>1, <3>1, <3>2 DEF HandleUserMessage, LoopOK, InLoop
  <2>2. CASE TurnStep(t)
    BY <1>0, <1>1, <2>2, LoopStep DEF TuiInv, PromptInv
  <2> QED BY <2>1, <2>2
<1>4. \A u \in Turns \ {t} : ~Running(u)'
  BY <1>1, <1>2 DEF Running
<1>5. LoopLeft'
  BY <1>3 DEF LoopLeft, LoopOK
<1>6. OneWorker'
  BY DEF TuiInv, OneWorker
<1> QED BY <1>1, <1>2, <1>3, <1>4, <1>5, <1>6 DEF LoopOK

LEMMA TuiStart == TuiInit => TuiInv
<1> SUFFICES ASSUME TuiInit PROVE TuiInv
  OBVIOUS
<1>1. EngineInv
  BY InitType, InitTurnInv DEF TuiInit, EngineInv
<1>2. \A t \in Turns : pc[t] = "new" /\ worker[t] = "none" /\ dialog[t] = "none" /\ struck[t] = "no"
  BY DEF TuiInit, Init
<1>3. OneWorker
  BY <1>2 DEF OneWorker, Active
<1>4. LoopLeft /\ PendingIsOpen
  BY DEF TuiInit, Init, LoopLeft, PendingIsOpen
<1>5. \A t \in Turns : PromptInv(t)
  BY <1>2 DEF PromptInv, Running, InLoop
<1> QED BY <1>1, <1>3, <1>4, <1>5 DEF TuiInit, TuiInv

LEMMA TuiStep ==
    ASSUME Patient, TuiInv, [TuiNext]_tuiVars
    PROVE  TuiInv'
<1>0. /\ EngineInv' /\ TypeOK /\ OneWorker /\ LoopLeft /\ PendingIsOpen
      /\ worker \in [Turns -> {"none", "turn", "tail", "ended"}]
      /\ dialog \in [Turns -> {"none", "open", "denied"}]
  BY EngineKept DEF TuiInv, EngineInv
<1>1. \A u \in Turns : PromptInv(u)
  BY DEF TuiInv
\* Only the worker changes, or nothing at all.
<1>2. ASSUME UNCHANGED <<pc, local, inProgress, activeState, dialog, pendingDialog, struck>>,
             worker' \in [Turns -> {"none", "turn", "tail", "ended"}], OneWorker',
             \A u \in Turns : Running(u) => worker'[u] = "turn",
             \A u \in Turns : struck[u] # "no" /\ Running(u) => interruptEvent'
      PROVE  TuiInv'
  <2>1. LoopLeft' /\ PendingIsOpen'
    BY <1>0, <1>2 DEF LoopLeft, PendingIsOpen
  <2>2. \A u \in Turns : PromptInv(u)'
    BY <1>1, <1>2 DEF PromptInv, Running
  <2> QED BY <1>0, <1>2, <2>1, <2>2 DEF TuiInv
\* A step of the turn in worker t, with what it does to the dialog.
<1>3. ASSUME NEW t \in Turns, worker[t] = "turn", HandleUserMessage(t) \/ TurnStep(t),
             UNCHANGED <<worker, struck>>,
             \/ dialog[t] = "none" /\ UNCHANGED <<dialog, pendingDialog>>
             \/ dialog' = [dialog EXCEPT ![t] = "none"] /\ pendingDialog' = None
      PROVE  TuiInv'
  <2>1. dialog' \in [Turns -> {"none", "open", "denied"}] /\ dialog'[t] = "none"
    BY <1>0, <1>3
  <2>2. \A u \in Turns \ {t} : dialog'[u] = dialog[u]
    BY <1>0, <1>3
  <2>3. PendingIsOpen'
    BY <1>0, <1>3 DEF PendingIsOpen
  <2>4. OneWorker' /\ LoopLeft'
    BY <1>3, TurnKeeps
  <2>5. PromptInv(t)'
    BY <1>3, <2>1, TurnKeeps DEF PromptInv
  <2>6. ASSUME NEW u \in Turns \ {t} PROVE PromptInv(u)'
    <3>1. pc'[u] = pc[u] /\ local'[u] = local[u] /\ ~Running(u)'
      BY <1>3, TurnKeeps
    <3> QED BY <1>1, <1>3, <2>2, <3>1 DEF PromptInv
  <2> QED BY <1>0, <1>3, <2>1, <2>3, <2>4, <2>5, <2>6 DEF TuiInv
<1>4. ASSUME NEW t \in Turns, Submit(t) PROVE TuiInv'
  <2>1. /\ worker[t] = "none" /\ worker' = [worker EXCEPT ![t] = "turn"]
        /\ \A u \in Turns : worker[u] \in {"none", "ended"}
    BY <1>4 DEF Submit
  <2>2. OneWorker' /\ worker' \in [Turns -> {"none", "turn", "tail", "ended"}]
    BY <1>0, <2>1 DEF OneWorker, Active
  <2>3. \A u \in Turns : Running(u) => worker'[u] = "turn"
    BY <1>0, <1>1, <2>1 DEF PromptInv
  <2>4. UNCHANGED <<pc, local, inProgress, activeState, dialog, pendingDialog, struck, interruptEvent>>
    BY <1>4 DEF Submit, vars
  <2> QED BY <1>1, <1>2, <2>2, <2>3, <2>4 DEF PromptInv
<1>5. ASSUME NEW t \in Turns, AnswerDialog(t) \/ DialogDenied(t) PROVE TuiInv'
  <2>1. dialog[t] # "none" /\ TurnStep(t) /\ CloseDialog(t)
    BY <1>5 DEF AnswerDialog, DialogDenied, TurnStep, Permit
  <2>2. pc[t] = "permission"
    BY <1>1, <2>1 DEF PromptInv
  <2>3. worker[t] = "turn"
    BY <1>1, <2>2 DEF PromptInv, Running
  <2> QED BY <1>3, <2>1, <2>3 DEF CloseDialog
<1>6. ASSUME NEW t \in Turns, StartWorker(t) PROVE TuiInv'
  <2>1. dialog[t] = "none"
    BY <1>1, <1>6 DEF StartWorker, PromptInv
  <2> QED BY <1>3, <1>6, <2>1 DEF StartWorker, tui
<1>7. ASSUME NEW t \in Turns, WorkTurn(t) PROVE TuiInv'
  <2>1. Running(t)
    BY <1>7, OnlyRunningTurnsStep DEF WorkTurn
  <2>2. worker[t] = "turn"
    BY <1>1, <2>1 DEF PromptInv
  <2> QED BY <1>3, <1>7, <2>2 DEF WorkTurn, tui
<1>8. ASSUME NEW t \in Turns, OpenDialog(t) PROVE TuiInv'
  <2>1. /\ dialog' = [dialog EXCEPT ![t] = "open"] /\ pendingDialog' = t
        /\ UNCHANGED <<pc, local, inProgress, activeState, interruptEvent, worker, struck>>
        /\ pc[t] = "permission"
    BY <1>8 DEF OpenDialog, vars
  <2>2. /\ dialog' \in [Turns -> {"none", "open", "denied"}] /\ dialog'[t] = "open"
        /\ \A u \in Turns \ {t} : dialog'[u] = dialog[u]
    BY <1>0, <2>1
  <2>3. \A u \in Turns : PromptInv(u)'
    BY <1>1, <2>1, <2>2 DEF PromptInv, Running
  <2>4. OneWorker' /\ LoopLeft' /\ PendingIsOpen'
    BY <1>0, <2>1, <2>2 DEF OneWorker, LoopLeft, PendingIsOpen
  <2> QED BY <1>0, <2>1, <2>2, <2>3, <2>4 DEF TuiInv
<1>9. ASSUME NEW t \in Turns, CancelledWorkerReturns(t) \/ ShowOutputs(t) \/ ClearInterrupt(t)
      PROVE  TuiInv'
  <2>1. /\ worker[t] \in Active
        /\ worker' = [worker EXCEPT ![t] = "ended"] \/ worker' = [worker EXCEPT ![t] = "tail"]
    BY <1>9 DEF CancelledWorkerReturns, ShowOutputs, ClearInterrupt, EndWorker, Active
  <2>2. ~Running(t)
    BY <1>1, <1>9 DEF CancelledWorkerReturns, ShowOutputs, ClearInterrupt, PromptInv, Running
  <2>3. \A u \in Turns : ~Running(u)
    BY <2>1, <2>2, Alone
  <2>4. /\ worker' \in [Turns -> {"none", "turn", "tail", "ended"}]
        /\ \A u \in Turns : worker'[u] \in Active => worker[u] \in Active
    BY <1>0, <2>1 DEF Active
  <2>5. OneWorker'
    BY <1>0, <2>4 DEF OneWorker
  <2>6. UNCHANGED <<pc, local, inProgress, activeState, dialog, pendingDialog, struck>>
    BY <1>9 DEF CancelledWorkerReturns, ShowOutputs, ClearInterrupt, EndWorker, vars
  <2> QED BY <1>2, <2>3, <2>4, <2>5, <2>6
<1>10. CASE HandleInterrupt
  <2>1. /\ UNCHANGED <<pc, local, inProgress, activeState, worker, pendingDialog>>
        /\ interruptEvent'
    BY <1>10 DEF HandleInterrupt, Interrupt
  <2>2. \A u \in Turns : /\ dialog'[u] \in {"none", "open", "denied"}
                         /\ dialog'[u] # "none" <=> dialog[u] # "none"
    BY <1>0, <1>10 DEF HandleInterrupt
  <2>3. dialog' \in [Turns -> {"none", "open", "denied"}]
    BY <1>10, <2>2 DEF HandleInterrupt
  <2>4. \A u \in Turns : pc[u] = "new" => struck'[u] = "no"
    BY <1>1, <1>10 DEF HandleInterrupt, Doing, Running, PromptInv
  <2>5. \A u \in Turns : PromptInv(u)'
    BY <1>1, <2>1, <2>2, <2>4 DEF PromptInv, Running
  <2>6. OneWorker' /\ LoopLeft' /\ PendingIsOpen'
    BY <1>0, <2>1, <2>2 DEF OneWorker, LoopLeft, PendingIsOpen
  <2> QED BY <1>0, <2>1, <2>3, <2>5, <2>6 DEF TuiInv
<1>11. CASE NewSession \/ UNCHANGED tuiVars
  <2>1. UNCHANGED <<pc, local, inProgress, activeState, interruptEvent, tui>>
    BY <1>11 DEF NewSession, ClearSession, flags, tuiVars, vars
  <2>2. OneWorker'
    BY <1>0, <2>1 DEF OneWorker, tui
  <2> QED BY <1>0, <1>1, <1>2, <2>1, <2>2 DEF tui, PromptInv
<1> QED BY <1>4, <1>5, <1>6, <1>7, <1>8, <1>9, <1>10, <1>11 DEF TuiNext, WorkerStep

(* With a patient user at most one worker is active, and what it leaves in the    *)
(* engine is known at each place of its turn, whenever Esc and ctrl+g come.        *)
THEOREM TuiInvariant == Patient => (TuiSpec => []TuiInv)
<1> SUFFICES ASSUME Patient PROVE TuiSpec => []TuiInv
  OBVIOUS
<1>1. TuiInv /\ [TuiNext]_tuiVars => TuiInv'
  BY TuiStep
<1> QED BY <1>1, TuiStart, PTL DEF TuiSpec

(* When the last worker has ended the engine is at rest: no turn in progress, no  *)
(* turn state, no dialog open or pending.                                         *)
THEOREM WorkersCleanUp == Patient => (TuiSpec => []AtRestWithoutWorkers)
<1> SUFFICES ASSUME Patient PROVE TuiSpec => []AtRestWithoutWorkers
  OBVIOUS
<1>1. ASSUME TuiInv, \A t \in Turns : worker[t] \in {"none", "ended"}
      PROVE  /\ ~inProgress /\ activeState = None /\ pendingDialog = None
             /\ \A t \in Turns : dialog[t] = "none"
  <2>1. \A t \in Turns : ~Running(t)
    BY <1>1 DEF TuiInv, PromptInv
  <2>2. \A t \in Turns : pc[t] \notin InLoop /\ dialog[t] = "none"
    BY <1>1, <2>1 DEF TuiInv, PromptInv, Running, InLoop
  <2> QED BY <1>1, <2>2 DEF TuiInv, LoopLeft, PendingIsOpen
<1>2. TuiInv => AtRestWithoutWorkers
  BY <1>1 DEF AtRestWithoutWorkers
<1> QED BY <1>2, TuiInvariant, PTL

-----------------------------------------------------------------------------
(* An interrupted turn starts no round of tools and no tool.                      *)
LEMMA InterruptedStep ==
    ASSUME TypeOK, NEW t \in Turns, TurnStep(t), interruptEvent
    PROVE  rounds'[t] = rounds[t] /\ ~(pc[t] = "tools" /\ pc'[t] = "permission")
<1>1. ~BackendCallsTools(t) /\ ~StartCall(t)
  BY DEF BackendCallsTools, StartCall
<1>2. rounds'[t] = rounds[t]
  BY <1>1, GuardFrame
<1>3. ASSUME pc[t] = "tools", pc'[t] = "permission" PROVE FALSE
  <2>1. InterruptedBeforeCall(t) \/ NextRound(t) \/ BudgetExceeded(t) \/ RoundFails(t)
    BY <1>1, <1>3 DEF TurnStep, Prepare, PreparePrompt, PrepareLocal, PrepareRaises, Rewind, Resume,
            CompactStart, CompactRefused, CompactFinish, Rollback, Query, BeginTurn, BackendFails,
            BackendRaises, BackendAnswers, LoopGuardStops, CallTools, FinishCall, CrashCall,
            Permit, AllowCall, DenyCall, EmitAnswer, CompleteTurn
  <2>2. pc'[t] \in {"complete", "backend", "answer"}
    BY <2>1, WhereTo DEF InterruptedBeforeCall, NextRound, BudgetExceeded, RoundFails, FailTurn
  <2> QED BY <1>3, <2>2
<1> QED BY <1>2, <1>3

(* "Actually cancel the in-flight turn": after Esc a turn that was running runs no *)
(* further round of tools and starts no further tool of the round it is in.        *)
THEOREM EscStopsTheTurn == Patient => (TuiSpec => InterruptHolds)
<1> SUFFICES ASSUME Patient PROVE TuiSpec => InterruptHolds
  OBVIOUS
<1> DEFINE Holds(t) == /\ rounds'[t] = rounds[t]
                       /\ ~(pc[t] = "tools" /\ pc'[t] = "permission")
<1>1. ASSUME TuiInv, [TuiNext]_tuiVars, NEW t \in Turns, struck[t] # "no" PROVE Holds(t)
  <2>0. TypeOK /\ PromptInv(t)
    BY <1>1 DEF TuiInv, EngineInv
  <2>1. ASSUME UNCHANGED <<pc, rounds>> PROVE Holds(t)
    BY <2>1
  <2>2. ASSUME NEW u \in Turns, HandleUserMessage(u) \/ TurnStep(u) PROVE Holds(t)
    <3>1. CASE u # t
      <4>1. pc'[t] = pc[t] /\ rounds'[t] = rounds[t]
        BY <2>0, <2>2, <3>1, OtherTurns
      <4> QED BY <4>1
    <3>2. CASE u = t
      <4>1. pc[t] # "new"
        BY <1>1, <2>0 DEF PromptInv
      <4>2. TurnStep(t)
        BY <2>2, <3>2, <4>1 DEF HandleUserMessage
      <4>3. worker[t] = "turn"
        BY <2>0, <4>2, OnlyRunningTurnsStep DEF PromptInv
      <4>4. interruptEvent
        BY <1>1, <2>0, <4>2, <4>3, Alone, LoopStep DEF PromptInv, Active
      <4> QED BY <2>0, <4>2, <4>4, InterruptedStep
    <3> QED BY <3>1, <3>2
  <2>3. ASSUME NEW u \in Turns, WorkerStep(u) PROVE Holds(t)
    BY <2>1, <2>2, <2>3 DEF WorkerStep, StartWorker, CancelledWorkerReturns, WorkTurn, OpenDialog,
        DialogDenied, ShowOutputs, ClearInterrupt, TurnStep, Permit, vars
  <2>4. ASSUME NEW u \in Turns, Submit(u) \/ AnswerDialog(u) PROVE Holds(t)
    BY <2>1, <2>2, <2>4 DEF Submit, AnswerDialog, TurnStep, vars
  <2>5. CASE HandleInterrupt \/ NewSession \/ UNCHANGED tuiVars
    BY <2>1, <2>5 DEF HandleInterrupt, Interrupt, NewSession, ClearSession, tuiVars, vars
  <2> QED BY <1>1, <2>3, <2>4, <2>5 DEF TuiNext
<1>2. TuiInv /\ [TuiNext]_tuiVars =>
          [\A t \in Turns : struck[t] # "no" =>
              /\ rounds'[t] = rounds[t]
              /\ ~(pc[t] = "tools" /\ pc'[t] = "permission")]_tuiVars
  BY <1>1
<1> QED BY <1>2, TuiInvariant, PTL DEF TuiSpec, InterruptHolds
=============================================================================
