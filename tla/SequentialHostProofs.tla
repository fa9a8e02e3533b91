-------------------------- MODULE SequentialHostProofs --------------------------
(* What is proved about SequentialHost: turns that run one after the other, for *)
(* every set of turns, sessions and tools and every answer of the model.        *)
EXTENDS SequentialHost, QueryEngineProofs

USE TurnsAssumption, SessionsAssumption, ResponsesAssumption, CapAssumption, FlagsAssumption

-----------------------------------------------------------------------------
(* Turns that run one at a time.  The invariant says what the one running turn *)
(* leaves in the shared flags at each of its places.                           *)
Before == {"prepare", "compacting", "begin"}
InLoop == {"backend", "answer", "blocked", "tools", "permission", "executing"}
InCall == {"permission", "executing"}

OneTurn == \A t, u \in Turns : Running(t) /\ Running(u) => t = u

RunningInv(t) ==
    /\ sessionId # None /\ local[t].session \in Sessions
    /\ ~interruptEvent
    /\ pc[t] \in Before => local[t].input \in Inputs
    /\ pc[t] = "compacting" => local[t].input = "compact"
    /\ pc[t] \in Before \cup {"complete"} => ~inProgress /\ activeState = None
    /\ pc[t] \in InLoop => ~local[t].previous
    /\ pc[t] = "backend" => local[t].sent = transcript

HostInv ==
    /\ EngineInv
    /\ OneTurn
    /\ NothingLeftBehind
    /\ \A t \in Turns : Running(t) => RunningInv(t)


-----------------------------------------------------------------------------
(* A step of the host is one of the engine, of the one turn that may run.      *)
LEMMA HostStepIsEngineStep == [SequentialNext]_vars => [Next]_vars
BY DEF SequentialNext, ReadMessage, ReadInterrupt, Next

LEMMA WhereTo ==
    ASSUME TypeOK, NEW t \in Turns
    PROVE  /\ \A place : Go(t, place) => pc'[t] = place
           /\ \A l : SetLocal(t, l) => local'[t] = l
           /\ local' = local => local'[t] = local[t]
BY DEF TypeOK, Go, SetLocal

(* A turn runs until its completion, and starts by reading its message.        *)
LEMMA RunsOn ==
    ASSUME TypeOK, NEW t \in Turns
    PROVE  /\ TurnStep(t) => Running(t)
           /\ TurnStep(t) /\ ~CompleteTurn(t) => Running(t)'
           /\ CompleteTurn(t) => ~Running(t)' /\ pc[t] = "complete"
           /\ HandleUserMessage(t) => ~Running(t) /\ Running(t)' /\ pc'[t] = "prepare"
<1>1. Prepare(t) => pc[t] \in {"prepare", "compacting"} /\ pc'[t] \in {"begin", "compacting", "complete"}
  BY WhereTo DEF Prepare, PreparePrompt, PrepareLocal, PrepareRaises, Rewind, Resume, CompactStart,
                 CompactRefused, CompactFinish, Rollback, AnswerLocally
<1>2. Query(t) => pc[t] \in {"begin", "backend"} /\ pc'[t] \in {"backend", "complete", "answer", "blocked", "tools"}
  <2>1. ASSUME FailTurn(t) PROVE pc'[t] = "complete"
    BY <2>1, WhereTo DEF FailTurn
  <2> QED BY <2>1, WhereTo DEF Query, BeginTurn, BackendFails, BackendRaises, BackendAnswers,
                               BackendCallsTools, LoopGuardStops
<1>3. CallTools(t) \/ Permit(t) =>
        /\ pc[t] \in {"tools", "permission", "executing"}
        /\ pc'[t] \in {"permission", "complete", "tools", "executing", "backend", "answer"}
  <2>1. ASSUME FailTurn(t) PROVE pc'[t] = "complete"
    BY <2>1, WhereTo DEF FailTurn
  <2> QED BY <2>1, WhereTo DEF CallTools, Permit, StartCall, InterruptedBeforeCall, FinishCall,
                 CrashCall, NextRound, BudgetExceeded, RoundFails, RoundDone, AllowCall, DenyCall, NextCall
<1>4. EmitAnswer(t) => pc[t] \in {"answer", "blocked"} /\ pc'[t] = "complete"
  BY WhereTo DEF EmitAnswer
<1>5. CompleteTurn(t) => pc[t] = "complete" /\ pc'[t] = "done"
  BY WhereTo DEF CompleteTurn
<1>6. HandleUserMessage(t) => pc[t] = "new" /\ pc'[t] = "prepare"
  BY WhereTo DEF HandleUserMessage
<1>7. Running(t) <=> pc[t] \notin {"new", "done"}
  BY DEF Running
<1>8. Running(t)' <=> pc'[t] \notin {"new", "done"}
  BY DEF Running
<1>9. TurnStep(t) /\ ~CompleteTurn(t) => Running(t) /\ Running(t)'
  BY <1>1, <1>2, <1>3, <1>4, <1>7, <1>8 DEF TurnStep
<1> QED BY <1>5, <1>6, <1>7, <1>8, <1>9

(* No other turn runs before or after a step of turn t.                        *)
LEMMA Alone ==
    ASSUME HostInv, NEW t \in Turns, ReadMessage(t) \/ TurnStep(t), NEW u \in Turns, u # t
    PROVE  ~Running(u) /\ ~Running(u)' /\ pc'[u] = pc[u] /\ local'[u] = local[u]
<1>1. TypeOK /\ OneTurn
  BY DEF HostInv, EngineInv
<1>2. HandleUserMessage(t) \/ TurnStep(t)
  BY DEF ReadMessage
<1>3. pc'[u] = pc[u] /\ local'[u] = local[u]
  BY <1>1, <1>2, OtherTurns
<1>4. ~Running(u)
  BY <1>1, RunsOn DEF ReadMessage, Quiet, OneTurn
<1> QED BY <1>3, <1>4 DEF Running

LEMMA StaysIdle ==
    ASSUME NEW entries, activeState = None
    PROVE  RefreshedState(entries) = None
BY DEF RefreshedState

(* What the next round is asked is the transcript.                             *)
LEMMA FreshContext ==
    /\ AdvancedState = None \/ AdvancedState.transcript = transcript
    /\ \A entries : activeState' \in {None, [transcript |-> entries, continuations |-> 0]}
                       /\ transcript' = entries => CurrentContext' = entries
    /\ activeState' = AdvancedState /\ transcript' = transcript => CurrentContext' = transcript
BY DEF AdvancedState, CurrentContext

LEMMA PrepareRunning ==
    ASSUME HostInv, NEW t \in Turns, Prepare(t)
    PROVE  RunningInv(t)'
<1>0. /\ TypeOK /\ Running(t) /\ RunningInv(t)
      /\ local[t] \in Locals /\ sessionId \in Sessions
  BY RunsOn DEF HostInv, EngineInv, TurnStep, RunningInv, TypeOK
<1>1. /\ pc[t] \in {"prepare", "compacting"} /\ activeState = None /\ ~inProgress /\ ~interruptEvent
      /\ local[t].input \in Inputs /\ local[t].session \in Sessions
  BY <1>0 DEF RunningInv, Before, Prepare, PreparePrompt, PrepareLocal, PrepareRaises, Rewind,
              Resume, CompactStart, CompactRefused, CompactFinish, Rollback
<1>2. pc'[t] \in {"begin", "compacting", "complete"}
  BY <1>0, WhereTo DEF Prepare, PreparePrompt, PrepareLocal, PrepareRaises, Rewind, Resume,
                       CompactStart, CompactRefused, CompactFinish, Rollback, AnswerLocally
<1>3. local'[t].input = local[t].input /\ local'[t].session = local[t].session
  BY <1>0, WhereTo DEF Prepare, PreparePrompt, PrepareLocal, PrepareRaises, Rewind, Resume,
                       CompactStart, CompactRefused, CompactFinish, Rollback, Locals
<1>7. pc'[t] = "compacting" => local[t].input = "compact"
  BY <1>0, WhereTo DEF Prepare, PreparePrompt, PrepareLocal, PrepareRaises, Rewind, Resume,
                       CompactStart, CompactRefused, CompactFinish, Rollback, AnswerLocally
<1>4. sessionId' \in Sessions
  BY <1>0 DEF Prepare, PreparePrompt, PrepareLocal, PrepareRaises, Rewind, Resume, CompactStart,
              CompactRefused, CompactFinish, Rollback, conversation
<1>5. activeState' = None
  BY <1>1, StaysIdle DEF Prepare, PreparePrompt, PrepareLocal, PrepareRaises, Rewind, Resume,
        CompactStart, CompactRefused, CompactFinish, Rollback, ReplaceTranscript, flags
<1>6. inProgress' = inProgress /\ interruptEvent' = interruptEvent
  BY DEF Prepare, PreparePrompt, PrepareLocal, PrepareRaises, Rewind, Resume, CompactStart,
         CompactRefused, CompactFinish, Rollback, flags
<1> QED BY <1>1, <1>2, <1>3, <1>4, <1>5, <1>6, <1>7 DEF RunningInv, Before, InLoop

LEMMA FailRunning ==
    ASSUME HostInv, NEW t \in Turns, Running(t), pc[t] \in InLoop, FailTurn(t)
    PROVE  RunningInv(t)'
<1>0. TypeOK /\ RunningInv(t)
  BY DEF HostInv, EngineInv
<1>1. pc'[t] = "complete" /\ local'[t] = local[t]
  BY <1>0, WhereTo DEF FailTurn
<1>2. ~inProgress' /\ activeState' = None /\ sessionId' = sessionId /\ interruptEvent' = interruptEvent
  BY <1>0 DEF FailTurn, LeaveLoop, RunningInv, conversation
<1> QED BY <1>0, <1>1, <1>2 DEF RunningInv, Before, InLoop

LEMMA QueryRunning ==
    ASSUME HostInv, NEW t \in Turns, Query(t)
    PROVE  RunningInv(t)'
<1>0. /\ TypeOK /\ Running(t) /\ RunningInv(t)
      /\ local[t] \in Locals
  BY RunsOn DEF HostInv, EngineInv, TurnStep, TypeOK
<1>1. CASE BeginTurn(t)
  <2>1. sessionId' = sessionId /\ interruptEvent' = interruptEvent /\ transcript' = transcript
    BY <1>0, <1>1 DEF BeginTurn, EnsureSession, RunningInv
  <2>2. CurrentContext' = transcript'
    BY <1>1, FreshContext DEF BeginTurn
  <2>3. pc'[t] = "backend" /\ local'[t] = [local[t] EXCEPT !.previous = inProgress, !.sent = CurrentContext']
    BY <1>0, <1>1, WhereTo DEF BeginTurn
  <2>4. /\ local'[t].previous = inProgress /\ local'[t].sent = CurrentContext'
        /\ local'[t].session = local[t].session
    BY <1>0, <2>3 DEF Locals
  <2>5. ~inProgress
    BY <1>0, <1>1 DEF BeginTurn, RunningInv, Before
  <2> QED BY <1>0, <2>1, <2>2, <2>3, <2>4, <2>5 DEF RunningInv, Before, InLoop
<1>2. CASE BackendFails(t) \/ LoopGuardStops(t)
  BY <1>0, <1>2, FailRunning DEF BackendFails, LoopGuardStops, InLoop
<1>3. CASE BackendRaises(t)
  <2>1. pc'[t] = "complete" /\ local'[t] = local[t]
    BY <1>0, <1>3, WhereTo DEF BackendRaises
  <2>2. ~inProgress' /\ activeState' = None /\ sessionId' = sessionId /\ interruptEvent' = interruptEvent
    BY <1>0, <1>3 DEF BackendRaises, LeaveLoop, RunningInv, InLoop, conversation
  <2> QED BY <1>0, <2>1, <2>2 DEF RunningInv, Before, InLoop
<1>4. CASE BackendAnswers(t)
  <2>1. pc'[t] \in {"answer", "blocked"} /\ local'[t] = local[t]
    BY <1>0, <1>4, WhereTo DEF BackendAnswers
  <2>2. sessionId' = sessionId /\ interruptEvent' = interruptEvent /\ pc[t] = "backend"
    BY <1>4 DEF BackendAnswers, conversation, flags
  <2> QED BY <1>0, <2>1, <2>2 DEF RunningInv, Before, InLoop
<1>5. CASE BackendCallsTools(t)
  <2>1. pc'[t] = "tools" /\ pc[t] = "backend" /\ sessionId' = sessionId /\ interruptEvent' = interruptEvent
    BY <1>0, <1>5, WhereTo DEF BackendCallsTools, conversation, flags
  <2>2. local'[t].previous = local[t].previous /\ local'[t].session = local[t].session
    BY <1>0, <1>5, WhereTo DEF BackendCallsTools, Locals
  <2> QED BY <1>0, <2>1, <2>2 DEF RunningInv, Before, InLoop
<1> QED BY <1>1, <1>2, <1>3, <1>4, <1>5 DEF Query

LEMMA CallRunning ==
    ASSUME HostInv, NEW t \in Turns, CallTools(t) \/ Permit(t)
    PROVE  RunningInv(t)'
<1>0. /\ TypeOK /\ Running(t) /\ RunningInv(t)
      /\ local[t] \in Locals
  BY RunsOn DEF HostInv, EngineInv, TurnStep, TypeOK
<1>1. CASE InterruptedBeforeCall(t) \/ CrashCall(t) \/ RoundFails(t)
  BY <1>0, <1>1, FailRunning DEF InterruptedBeforeCall, CrashCall, RoundFails, RoundDone, InLoop
<1>2. CASE NextRound(t)
  <2>1. pc'[t] = "backend" /\ local'[t] = [local[t] EXCEPT !.sent = CurrentContext']
    BY <1>0, <1>2, WhereTo DEF NextRound
  <2>2. /\ local'[t].previous = local[t].previous /\ local'[t].sent = CurrentContext'
        /\ local'[t].session = local[t].session
    BY <1>0, <2>1 DEF Locals
  <2>3. /\ sessionId' = sessionId /\ interruptEvent' = interruptEvent /\ transcript' = transcript
        /\ pc[t] = "tools" /\ activeState' = AdvancedState
    BY <1>2 DEF NextRound, RoundDone, conversation
  <2>4. CurrentContext' = transcript'
    BY <2>3, FreshContext
  <2> QED BY <1>0, <2>1, <2>2, <2>3, <2>4 DEF RunningInv, Before, InLoop
<1>3. CASE StartCall(t) \/ FinishCall(t) \/ BudgetExceeded(t) \/ Permit(t)
  <2>1. pc'[t] \in {"permission", "tools", "answer", "executing"} /\ pc[t] \in InLoop
    BY <1>0, <1>3, WhereTo DEF StartCall, FinishCall, BudgetExceeded, RoundDone, Permit, AllowCall,
                               DenyCall, NextCall, InLoop
  <2>2. local'[t].previous = local[t].previous /\ local'[t].session = local[t].session
    BY <1>0, <1>3, WhereTo DEF StartCall, FinishCall, BudgetExceeded, Permit, AllowCall, DenyCall,
                               NextCall, Locals
  <2>3. sessionId' = sessionId /\ interruptEvent' = interruptEvent
    BY <1>3 DEF StartCall, FinishCall, BudgetExceeded, Permit, AllowCall, DenyCall, conversation, flags
  <2> QED BY <1>0, <2>1, <2>2, <2>3 DEF RunningInv, Before, InLoop
<1> QED BY <1>1, <1>2, <1>3 DEF CallTools

LEMMA AnswerRunning ==
    ASSUME HostInv, NEW t \in Turns, EmitAnswer(t)
    PROVE  RunningInv(t)'
<1>0. TypeOK /\ Running(t) /\ RunningInv(t)
  BY RunsOn DEF HostInv, EngineInv, TurnStep
<1>1. pc'[t] = "complete" /\ local'[t] = local[t] /\ pc[t] \in InLoop
  BY <1>0, WhereTo DEF EmitAnswer, InLoop
<1>2. ~inProgress' /\ activeState' = None /\ sessionId' = sessionId /\ interruptEvent' = interruptEvent
  BY <1>0, <1>1 DEF EmitAnswer, LeaveLoop, RunningInv
<1> QED BY <1>0, <1>1, <1>2 DEF RunningInv, Before, InLoop

LEMMA ReadRunning ==
    ASSUME HostInv, NEW t \in Turns, ReadMessage(t)
    PROVE  RunningInv(t)'
<1>0. TypeOK /\ local[t] \in Locals /\ ~inProgress /\ activeState = None
  BY DEF HostInv, EngineInv, TypeOK, NothingLeftBehind, ReadMessage
<1>1. /\ sessionId' \in Sessions /\ ~interruptEvent' /\ pc'[t] = "prepare"
      /\ inProgress' = inProgress /\ activeState' = activeState
  BY <1>0, EnsureSessionType, WhereTo DEF ReadMessage, HandleUserMessage
<1>2. local'[t].input \in Inputs /\ local'[t].session = sessionId'
  <2>1. PICK kind \in Inputs :
            SetLocal(t, [local[t] EXCEPT !.input = kind, !.session = sessionId'])
    BY DEF ReadMessage, HandleUserMessage
  <2>2. local'[t] = [local[t] EXCEPT !.input = kind, !.session = sessionId']
    BY <1>0, <2>1, WhereTo
  <2> QED BY <1>0, <2>2 DEF Locals
<1> QED BY <1>0, <1>1, <1>2 DEF RunningInv, Before, InLoop

LEMMA HostStart == Init => HostInv
<1> SUFFICES ASSUME Init PROVE HostInv
  OBVIOUS
<1>1. EngineInv
  BY InitType, InitTurnInv DEF EngineInv
<1>2. \A t \in Turns : ~Running(t)
  BY DEF Init, Running
<1> QED BY <1>1, <1>2 DEF HostInv, OneTurn, NothingLeftBehind, Init

LEMMA HostStep ==
    ASSUME HostInv, [SequentialNext]_vars
    PROVE  HostInv'
<1>0. EngineInv /\ TypeOK /\ OneTurn
  BY DEF HostInv, EngineInv
<1>1. EngineInv'
  BY <1>0, HostStepIsEngineStep, TypeStep, TurnInvStep DEF EngineInv
<1>2. ASSUME NEW t \in Turns, ReadMessage(t) \/ (TurnStep(t) /\ ~CompleteTurn(t))
      PROVE  HostInv'
  <2>1. Running(t)'
    BY <1>0, <1>2, RunsOn DEF ReadMessage
  <2>2. \A u \in Turns : u # t => ~Running(u)'
    BY <1>2, Alone
  <2>3. RunningInv(t)'
    BY <1>2, ReadRunning, PrepareRunning, QueryRunning, CallRunning, AnswerRunning DEF TurnStep
  <2>4. OneTurn' /\ NothingLeftBehind'
    BY <2>1, <2>2 DEF OneTurn, NothingLeftBehind, Quiet
  <2> QED BY <1>1, <2>2, <2>3, <2>4 DEF HostInv
<1>3. ASSUME NEW t \in Turns, CompleteTurn(t) PROVE HostInv'
  <2>1. TurnStep(t) /\ Running(t) /\ pc[t] = "complete" /\ ~Running(t)'
    BY <1>0, <1>3, RunsOn DEF TurnStep
  <2>2. \A u \in Turns : ~Running(u)'
    BY <2>1, Alone
  <2>3. RunningInv(t)
    BY <2>1 DEF HostInv
  <2>4. ~inProgress' /\ activeState' = None /\ activeMessage' = None
    BY <1>3, <2>1, <2>3 DEF CompleteTurn, RunningInv
  <2> QED BY <1>1, <2>2, <2>4 DEF HostInv, OneTurn, NothingLeftBehind
<1>4. CASE ReadInterrupt \/ UNCHANGED vars
  <2>1. /\ pc' = pc /\ local' = local /\ sessionId' = sessionId /\ transcript' = transcript
        /\ inProgress' = inProgress /\ activeState' = activeState /\ activeMessage' = activeMessage
        /\ Quiet \/ interruptEvent' = interruptEvent
    BY <1>4 DEF ReadInterrupt, Interrupt, vars, conversation
  <2>2. \A u \in Turns : Running(u)' = Running(u)
    BY <2>1 DEF Running
  <2>3. Quiet' = Quiet
    BY <2>2 DEF Quiet
  <2>4. OneTurn' /\ NothingLeftBehind'
    BY <1>0, <2>1, <2>2, <2>3 DEF OneTurn, NothingLeftBehind, HostInv
  <2>5. ASSUME NEW u \in Turns, Running(u)' PROVE RunningInv(u)'
    BY <2>1, <2>2, <2>5 DEF HostInv, RunningInv, Quiet
  <2> QED BY <1>1, <2>4, <2>5 DEF HostInv
<1> QED BY <1>2, <1>3, <1>4 DEF SequentialNext

(* The host implements the engine's own specification, in which turns interleave *)
(* freely: what QueryEngineProofs proves of a turn holds of its turns.          *)
THEOREM HostIsAnEngine == SequentialSpec => Spec
<1> QED BY HostStepIsEngineStep, PTL DEF SequentialSpec, Spec

(* A turn that runs finds the flags as the turn before left them: at most one    *)
(* runs, it has a session, no interrupt is pending, and the loop's state is gone. *)
THEOREM HostTurnsInvariant == SequentialSpec => []HostInv
<1> QED BY HostStart, HostStep, PTL DEF SequentialSpec

(* Between two turns the in-progress flag, the loop's state and the message     *)
(* worked on are all put back, whichever way the last turn ended.               *)
THEOREM TurnsCleanUp == SequentialSpec => []NothingLeftBehind
<1>1. HostInv => NothingLeftBehind
  BY DEF HostInv
<1> QED BY <1>1, HostTurnsInvariant, PTL

(* An interrupt read between two turns does not hit the next one.               *)
THEOREM InterruptIsForgotten == SequentialSpec => []NoStaleInterrupt
<1>1. HostInv => NoStaleInterrupt
  BY DEF HostInv, RunningInv, NoStaleInterrupt
<1> QED BY <1>1, HostTurnsInvariant, PTL

(* In every round the model is given the whole transcript, although the loop    *)
(* works on a state of its own.                                                 *)
THEOREM ModelSeesTranscript == SequentialSpec => []ContextFresh
<1>1. HostInv => ContextFresh
  BY DEF HostInv, RunningInv, ContextFresh, Running
<1> QED BY <1>1, HostTurnsInvariant, PTL

-----------------------------------------------------------------------------
(* The session file, for the inputs that only add to the transcript or mark    *)
(* all of it as not yet written.                                               *)
KeepsHistory == "rewind" \notin Inputs /\ "resume" \notin Inputs

OnDiskInOrder(entries, n, file) ==
    /\ \A i \in 1..n : Occurs(entries[i].id, file)
    /\ \A i, j \in 1..n :
          i < j => \E p, q \in 1..Len(file) :
                      p < q /\ file[p] = entries[i].id /\ file[q] = entries[j].id

FileInv ==
    /\ persistedCount <= Len(transcript)
    /\ sessionId = None => transcript = <<>>
    /\ sessionId # None => OnDiskInOrder(transcript, persistedCount, disk[sessionId])
    /\ Quiet /\ ~DiskFails => persistedCount = Len(transcript)

LEMMA SameEntries ==
    ASSUME NEW before \in Transcripts, NEW after, NEW n \in Nat, NEW file,
           \A i \in 1..n : after[i] = before[i],
           OnDiskInOrder(before, n, file)
    PROVE  OnDiskInOrder(after, n, file)
<1>1. \A i \in 1..n : after[i].id = before[i].id
  OBVIOUS
<1>2. \A i \in 1..n : Occurs(after[i].id, file)
  BY <1>1 DEF OnDiskInOrder
<1>3. ASSUME NEW i \in 1..n, NEW j \in 1..n, i < j
      PROVE  \E p, q \in 1..Len(file) : p < q /\ file[p] = after[i].id /\ file[q] = after[j].id
  <2>1. PICK p \in 1..Len(file), q \in 1..Len(file) :
            p < q /\ file[p] = before[i].id /\ file[q] = before[j].id
    BY <1>3 DEF OnDiskInOrder
  <2>2. after[i].id = before[i].id /\ after[j].id = before[j].id
    BY <1>1
  <2> QED BY <2>1, <2>2
<1> QED BY <1>2, <1>3 DEF OnDiskInOrder

(* Entries k + 1 to k + n of the transcript are appended to the file; they may  *)
(* count as persisted or not.                                                   *)
LEMMA MoreLines ==
    ASSUME NEW entries, NEW k \in Nat, NEW n \in Nat,
           NEW file \in Seq(Nat), NEW lines \in Seq(Nat), Len(lines) = n,
           \A i \in 1..n : lines[i] = entries[k + i].id,
           OnDiskInOrder(entries, k, file)
    PROVE  /\ OnDiskInOrder(entries, k, file \o lines)
           /\ OnDiskInOrder(entries, k + n, file \o lines)
<1> DEFINE after == file \o lines
<1>1. /\ Len(after) = Len(file) + n /\ Len(file) \in Nat
      /\ \A p \in 1..Len(file) : p \in 1..Len(after) /\ after[p] = file[p]
      /\ \A i \in 1..n : Len(file) + i \in 1..Len(after) /\ after[Len(file) + i] = lines[i]
  <2>1. Len(after) = Len(file) + n /\ Len(file) \in Nat
    BY ConcatProperties, LenProperties
  <2>2. \A p \in 1..Len(file) : p \in 1..Len(after) /\ after[p] = file[p]
    BY <2>1, ConcatProperties
  <2>3. ASSUME NEW i \in 1..n PROVE Len(file) + i \in 1..Len(after) /\ after[Len(file) + i] = lines[i]
    <3>1. Len(file) + i \in 1..(Len(file) + n) /\ Len(file) + i > Len(file) /\ Len(file) + i - Len(file) = i
      BY <2>1
    <3> QED BY <2>1, <3>1, ConcatProperties
  <2> QED BY <2>1, <2>2, <2>3
<1> HIDE DEF after
<1>2. OnDiskInOrder(entries, k, after)
  <2>1. ASSUME NEW i \in 1..k PROVE Occurs(entries[i].id, after)
    <3>1. PICK p \in 1..Len(file) : file[p] = entries[i].id
      BY DEF OnDiskInOrder, Occurs
    <3> QED BY <1>1, <3>1 DEF Occurs
  <2>2. ASSUME NEW i \in 1..k, NEW j \in 1..k, i < j
        PROVE  \E p, q \in 1..Len(after) : p < q /\ after[p] = entries[i].id /\ after[q] = entries[j].id
    <3>1. PICK p \in 1..Len(file), q \in 1..Len(file) :
              p < q /\ file[p] = entries[i].id /\ file[q] = entries[j].id
      BY <2>2 DEF OnDiskInOrder
    <3> QED BY <1>1, <3>1
  <2> QED BY <2>1, <2>2 DEF OnDiskInOrder
<1>3. \A j \in 1..(k + n) : j \in 1..k \/ (j - k \in 1..n /\ k + (j - k) = j)
  OBVIOUS
<1>4. ASSUME NEW j \in 1..(k + n), j \notin 1..k
      PROVE  /\ Len(file) + (j - k) \in 1..Len(after)
             /\ after[Len(file) + (j - k)] = entries[j].id
  <2> DEFINE i == j - k
  <2>1. i \in 1..n /\ k + i = j
    BY <1>3, <1>4
  <2> HIDE DEF i
  <2>2. Len(file) + i \in 1..Len(after) /\ after[Len(file) + i] = entries[k + i].id
    BY <1>1, <2>1
  <2> QED BY <2>1, <2>2 DEF i
<1>5. ASSUME NEW i \in 1..(k + n) PROVE Occurs(entries[i].id, after)
  BY <1>2, <1>4, <1>5 DEF OnDiskInOrder, Occurs
<1>6. ASSUME NEW i \in 1..(k + n), NEW j \in 1..(k + n), i < j
      PROVE  \E p, q \in 1..Len(after) : p < q /\ after[p] = entries[i].id /\ after[q] = entries[j].id
  <2>1. CASE j \in 1..k
    <3>1. i \in 1..k
      BY <1>6, <2>1
    <3> QED BY <1>2, <1>6, <2>1, <3>1 DEF OnDiskInOrder
  <2>2. CASE j \notin 1..k /\ i \in 1..k
    <3>1. PICK p \in 1..Len(file) : file[p] = entries[i].id
      BY <2>2 DEF OnDiskInOrder, Occurs
    <3>2. p \in 1..Len(after) /\ after[p] = entries[i].id /\ p < Len(file) + (j - k)
      BY <1>1, <1>3, <2>2, <3>1
    <3> QED BY <1>4, <2>2, <3>2
  <2>3. CASE i \notin 1..k
    <3>1. j \notin 1..k /\ Len(file) + (i - k) < Len(file) + (j - k)
      BY <1>1, <1>6, <2>3
    <3> QED BY <1>4, <2>3, <3>1
  <2> QED BY <2>1, <2>2, <2>3
<1>7. OnDiskInOrder(entries, k + n, after)
  BY <1>5, <1>6 DEF OnDiskInOrder
<1> QED BY <1>2, <1>7 DEF after

(* The lines a completion appends, when the first n unpersisted entries reach   *)
(* the file.                                                                    *)
LEMMA LinesOf ==
    ASSUME TypeOK, persistedCount <= Len(transcript), NEW n \in 0..Len(Unpersisted)
    PROVE  /\ Len(Unpersisted) = Len(transcript) - persistedCount
           /\ persistedCount + n \in 0..Len(transcript)
           /\ Ids(SubSeq(Unpersisted, 1, n)) \in Seq(Nat)
           /\ Len(Ids(SubSeq(Unpersisted, 1, n))) = n
           /\ \A i \in 1..n :
                 Ids(SubSeq(Unpersisted, 1, n))[i] = transcript[persistedCount + i].id
<1>0. transcript \in Seq(Entry) /\ persistedCount \in Nat /\ Len(transcript) \in Nat
  BY DEF TypeOK, Transcripts
<1>1. /\ Unpersisted \in Seq(Entry)
      /\ Len(Unpersisted) = Len(transcript) - persistedCount
      /\ \A i \in 1..(Len(transcript) - persistedCount) : Unpersisted[i] = transcript[persistedCount + i]
  <2>1. persistedCount + 1 \in 1..(Len(transcript) + 1)
    BY <1>0
  <2> DEFINE m == persistedCount + 1
  <2>2. \A i \in m..Len(transcript) : i \in 1..Len(transcript)
    BY <1>0
  <2>3. /\ SubSeq(transcript, m, Len(transcript)) \in Seq(Entry)
        /\ Len(SubSeq(transcript, m, Len(transcript))) =
              IF m <= Len(transcript) THEN Len(transcript) - m + 1 ELSE 0
        /\ \A i \in 1..(Len(transcript) - m + 1) :
              SubSeq(transcript, m, Len(transcript))[i] = transcript[m + i - 1]
    BY <1>0, <2>1, <2>2, SubSeqProperties
  <2>4. \A i \in 1..(Len(transcript) - persistedCount) :
            i \in 1..(Len(transcript) - m + 1) /\ m + i - 1 = persistedCount + i
    BY <1>0
  <2> QED BY <1>0, <2>3, <2>4 DEF Unpersisted
<1> DEFINE part == SubSeq(Unpersisted, 1, n)
<1>2. part \in Seq(Entry) /\ Len(part) = n /\ \A i \in 1..n : part[i] = Unpersisted[i]
  <2>1. n \in Nat /\ n <= Len(Unpersisted) /\ \A i \in 1..n : i \in 1..Len(Unpersisted)
    BY <1>0, <1>1
  <2>2. /\ part \in Seq(Entry)
        /\ Len(part) = IF 1 <= n THEN n - 1 + 1 ELSE 0
        /\ \A i \in 1..(n - 1 + 1) : part[i] = Unpersisted[1 + i - 1]
    BY <1>1, <2>1, SubSeqProperties
  <2> QED BY <2>1, <2>2
<1> HIDE DEF part
<1>3. Ids(part) \in Seq(Nat) /\ Len(Ids(part)) = n /\ \A i \in 1..n : Ids(part)[i] = part[i].id
  <2>1. Ids(part) \in Seq(Nat)
    BY <1>2, IdsType DEF Transcripts
  <2>2. Ids(part) = [i \in 1..n |-> part[i].id]
    BY <1>2 DEF Ids
  <2>3. Len(Ids(part)) = n
    <3>1. Len(Ids(part)) \in Nat /\ 1..Len(Ids(part)) = 1..n
      BY <2>1, <2>2, LenProperties
    <3>2. n \in Nat /\ (\A i \in Nat : i \in 1..n <=> i \in 1..Len(Ids(part)))
      BY <1>0, <1>1, <3>1
    <3>3. n + 1 \in Nat /\ Len(Ids(part)) + 1 \in Nat
      BY <3>1, <3>2
    <3> QED BY <3>1, <3>2, <3>3
  <2> QED BY <2>1, <2>2, <2>3
<1>4. ASSUME NEW i \in 1..n PROVE Ids(part)[i] = transcript[persistedCount + i].id
  <2>1. i \in 1..(Len(transcript) - persistedCount)
    BY <1>0, <1>1
  <2>2. part[i] = transcript[persistedCount + i]
    BY <1>1, <1>2, <2>1
  <2> QED BY <1>3, <2>2
<1>5. persistedCount + n \in 0..Len(transcript)
  BY <1>0, <1>1
<1> QED BY <1>1, <1>3, <1>4, <1>5 DEF part

(* What a step that does not complete a turn does to what is counted as written: *)
(* it keeps the counted entries, or counts none of them.                         *)
LEMMA CountedEntries ==
    ASSUME HostInv, KeepsHistory, NEW t \in Turns, TurnStep(t), ~CompleteTurn(t)
    PROVE  /\ disk' = disk /\ sessionId' = sessionId
           /\ \/ persistedCount' = 0
              \/ /\ persistedCount' = persistedCount
                 /\ transcript' = transcript \/ \E e : transcript' = Append(transcript, e)
<1>0. /\ TypeOK /\ Running(t) /\ RunningInv(t) /\ sessionId \in Sessions
  BY RunsOn DEF HostInv, EngineInv, RunningInv, TypeOK
<1>1. CASE Prepare(t)
  <2>1. ~Rewind(t) /\ ~Resume(t)
    BY <1>0 DEF Rewind, Resume, KeepsHistory, RunningInv, Before
  <2> QED BY <1>1, <2>1 DEF Prepare, PreparePrompt, PrepareLocal, PrepareRaises, CompactStart,
              CompactRefused, CompactFinish, Rollback, ReplaceTranscript, conversation
<1>2. CASE Query(t)
  BY <1>0, <1>2 DEF Query, BeginTurn, EnsureSession, BackendFails, BackendRaises, BackendAnswers,
              BackendCallsTools, LoopGuardStops, FailTurn, conversation
<1>3. CASE CallTools(t) \/ Permit(t)
  BY <1>3 DEF CallTools, Permit, StartCall, InterruptedBeforeCall, FinishCall, CrashCall, NextRound,
              BudgetExceeded, RoundFails, AllowCall, DenyCall, FailTurn, AppendEntry, conversation
<1>4. CASE EmitAnswer(t)
  BY <1>4 DEF EmitAnswer, AppendEntry
<1> QED BY <1>1, <1>2, <1>3, <1>4 DEF TurnStep

(* The counted entries stay where they are while the transcript only grows.     *)
LEMMA GrowthKeeps ==
    ASSUME TypeOK, TypeOK', FileInv, sessionId' # None, ~Quiet', disk' = disk,
           \/ sessionId' = sessionId \/ sessionId = None,
           \/ persistedCount' = 0
           \/ /\ persistedCount' = persistedCount
              /\ transcript' = transcript \/ \E e : transcript' = Append(transcript, e)
    PROVE  FileInv'
<1>0. /\ transcript \in Seq(Entry) /\ transcript' \in Seq(Entry)
      /\ Len(transcript) \in Nat /\ Len(transcript') \in Nat
      /\ persistedCount \in Nat /\ persistedCount <= Len(transcript)
  BY DEF TypeOK, Transcripts, FileInv
<1>1. CASE persistedCount' = 0
  <2>1. OnDiskInOrder(transcript', persistedCount', disk'[sessionId'])
    BY <1>1 DEF OnDiskInOrder
  <2> QED BY <1>0, <1>1, <2>1 DEF FileInv
<1>2. CASE /\ persistedCount' = persistedCount
           /\ transcript' = transcript \/ \E e : transcript' = Append(transcript, e)
  <2>1. Len(transcript') >= Len(transcript) /\ \A i \in 1..Len(transcript) : transcript'[i] = transcript[i]
    <3>1. CASE transcript' = transcript
      BY <1>0, <3>1
    <3>2. ASSUME NEW e, transcript' = Append(transcript, e)
          PROVE  Len(transcript') >= Len(transcript) /\ \A i \in 1..Len(transcript) : transcript'[i] = transcript[i]
      BY <1>0, <3>2
    <3> QED BY <1>2, <3>1, <3>2
  <2>2. persistedCount' <= Len(transcript')
    BY <1>0, <1>2, <2>1
  <2>3. CASE sessionId = None
    <3>1. persistedCount = 0
      BY <1>0, <2>3 DEF FileInv
    <3> QED BY <1>1, <1>2, <3>1
  <2>4. CASE sessionId # None /\ sessionId' = sessionId
    <3>1. \A i \in 1..persistedCount : transcript'[i] = transcript[i]
      BY <1>0, <2>1
    <3>2. OnDiskInOrder(transcript, persistedCount, disk[sessionId])
      BY <2>4 DEF FileInv
    <3>3. OnDiskInOrder(transcript', persistedCount', disk'[sessionId'])
      BY <1>0, <1>2, <2>4, <3>1, <3>2, SameEntries DEF Transcripts
    <3> QED BY <2>2, <3>3 DEF FileInv
  <2> QED BY <2>3, <2>4
<1> QED BY <1>1, <1>2

LEMMA CompletionKeeps ==
    ASSUME HostInv, FileInv, NEW t \in Turns, CompleteTurn(t)
    PROVE  FileInv'
<1>0. /\ TypeOK /\ sessionId \in Sessions /\ sessionId # None
      /\ Len(transcript) \in Nat /\ persistedCount \in Nat /\ persistedCount <= Len(transcript)
      /\ OnDiskInOrder(transcript, persistedCount, disk[sessionId])
      /\ disk[sessionId] \in Seq(Nat)
  <2>1. TypeOK /\ RunningInv(t) /\ TurnStep(t)
    BY RunsOn DEF HostInv, EngineInv, TurnStep
  <2> QED BY <2>1 DEF RunningInv, TypeOK, Transcripts, FileInv
<1>1. PICK written \in BOOLEAN, n \in 0..Len(Unpersisted) :
          /\ IF written THEN n = Len(Unpersisted) ELSE DiskFails
          /\ WriteEntries(n)
          /\ persistedCount' = IF local[t].reset THEN 0 ELSE CountAfter(written, n)
  BY DEF CompleteTurn
<1>2. CASE local[t].reset
  <2>1. sessionId' = None /\ transcript' = <<>> /\ persistedCount' = 0
    BY <1>1, <1>2 DEF CompleteTurn
  <2>2. Len(transcript') = 0
    BY <2>1
  <2> QED BY <2>1, <2>2 DEF FileInv
<1>3. CASE ~local[t].reset
  <2>1. sessionId' = sessionId /\ transcript' = transcript
    BY <1>3 DEF CompleteTurn
  <2> DEFINE lines == Ids(SubSeq(Unpersisted, 1, n))
  <2>2. /\ Len(Unpersisted) = Len(transcript) - persistedCount
        /\ persistedCount + n \in 0..Len(transcript)
        /\ lines \in Seq(Nat) /\ Len(lines) = n
        /\ \A i \in 1..n : lines[i] = transcript[persistedCount + i].id
    BY <1>0, LinesOf
  <2>3. disk' = [disk EXCEPT ![sessionId] = disk[sessionId] \o lines]
    BY <1>0, <1>1 DEF WriteEntries
  <2>4. disk'[sessionId] = disk[sessionId] \o lines
    BY <1>0, <2>3 DEF TypeOK
  <2>5. persistedCount' = IF written THEN persistedCount + n ELSE persistedCount
    BY <1>0, <1>1, <1>3 DEF CountAfter
  <2>6. n \in Nat
    BY <1>0, <2>2
  <2> HIDE DEF lines
  <2>7. /\ OnDiskInOrder(transcript, persistedCount, disk[sessionId] \o lines)
        /\ OnDiskInOrder(transcript, persistedCount + n, disk[sessionId] \o lines)
    BY <1>0, <2>2, <2>6, MoreLines
  <2>8. OnDiskInOrder(transcript', persistedCount', disk'[sessionId'])
    BY <2>1, <2>4, <2>5, <2>7
  <2>9. persistedCount' <= Len(transcript')
    BY <1>0, <2>1, <2>2, <2>5
  <2>10. ~DiskFails => persistedCount' = Len(transcript')
    BY <1>0, <1>1, <2>1, <2>2, <2>5
  <2> QED BY <1>0, <2>1, <2>8, <2>9, <2>10 DEF FileInv
<1> QED BY <1>2, <1>3

LEMMA FileStep ==
    ASSUME KeepsHistory, HostInv, HostInv', FileInv, [SequentialNext]_vars
    PROVE  FileInv'
<1>0. TypeOK /\ TypeOK'
  BY DEF HostInv, EngineInv
<1>1. ASSUME NEW t \in Turns, ReadMessage(t) PROVE FileInv'
  <2>1. ~Quiet' /\ sessionId' \in Sessions
    BY <1>0, <1>1, RunsOn, EnsureSessionType DEF ReadMessage, HandleUserMessage, Quiet
  <2>2. /\ disk' = disk /\ persistedCount' = persistedCount
        /\ sessionId' = sessionId \/ sessionId = None
        /\ \E e : transcript' = Append(transcript, e)
    BY <1>1 DEF ReadMessage, HandleUserMessage, EnsureSession, AppendEntry
  <2> QED BY <1>0, <2>1, <2>2, GrowthKeeps
<1>2. ASSUME NEW t \in Turns, TurnStep(t), ~CompleteTurn(t) PROVE FileInv'
  <2>1. ~Quiet' /\ sessionId # None
    BY <1>0, <1>2, RunsOn DEF Quiet, HostInv, RunningInv
  <2> QED BY <1>0, <1>2, <2>1, CountedEntries, GrowthKeeps
<1>3. ASSUME NEW t \in Turns, CompleteTurn(t) PROVE FileInv'
  BY <1>3, CompletionKeeps
<1>4. CASE ReadInterrupt \/ UNCHANGED vars
  <2>1. /\ sessionId' = sessionId /\ transcript' = transcript /\ disk' = disk
        /\ persistedCount' = persistedCount /\ pc' = pc
    BY <1>4 DEF ReadInterrupt, Interrupt, vars, conversation
  <2>2. Quiet' = Quiet
    BY <2>1 DEF Quiet, Running
  <2> QED BY <2>1, <2>2 DEF FileInv
<1> QED BY <1>1, <1>2, <1>3, <1>4 DEF SequentialNext

LEMMA FileStart == Init => FileInv
<1> SUFFICES ASSUME Init PROVE FileInv
  OBVIOUS
<1>1. transcript = <<>> /\ Len(transcript) = 0 /\ persistedCount = 0 /\ sessionId = None
  BY DEF Init
<1> QED BY <1>1 DEF FileInv

(* What is counted is in the file, in order, and between two turns all of the     *)
(* transcript is counted, unless an append failed.                               *)
THEOREM FileInvariant == KeepsHistory => (SequentialSpec => [](HostInv /\ FileInv))
<1> SUFFICES ASSUME KeepsHistory PROVE SequentialSpec => [](HostInv /\ FileInv)
  OBVIOUS
<1>1. HostInv /\ FileInv /\ [SequentialNext]_vars => (HostInv /\ FileInv)'
  BY HostStep, FileStep
<1> QED BY <1>1, HostStart, FileStart, PTL DEF SequentialSpec

(* What the engine counts as persisted is in the session's file, in the order of *)
(* the conversation, also after appends that failed half way and after /compact,  *)
(* its rollback and /clear.                                                       *)
THEOREM CountIsHonest == KeepsHistory => (SequentialSpec => []CountedIsOnDisk)
<1> SUFFICES ASSUME KeepsHistory PROVE SequentialSpec => []CountedIsOnDisk
  OBVIOUS
<1>1. ASSUME HostInv, FileInv PROVE CountedIsOnDisk
  <2>1. persistedCount \in Nat /\ persistedCount <= Len(transcript)
    BY <1>1 DEF HostInv, EngineInv, TypeOK, FileInv
  <2>2. sessionId # None => OnDiskInOrder(transcript, persistedCount, disk[sessionId])
    BY <1>1 DEF FileInv
  <2>3. persistedCount > 0 => 1 \in 1..persistedCount
    BY <2>1
  <2> QED BY <2>1, <2>2, <2>3 DEF CountedIsOnDisk, OnDiskInOrder
<1> QED BY <1>1, FileInvariant, PTL

(* When no append fails the file holds the whole conversation between two turns. *)
THEOREM NothingUnwritten == KeepsHistory => (SequentialSpec => []AllWrittenWhenQuiet)
<1> SUFFICES ASSUME KeepsHistory PROVE SequentialSpec => []AllWrittenWhenQuiet
  OBVIOUS
<1>1. ASSUME FileInv PROVE AllWrittenWhenQuiet
  BY <1>1 DEF FileInv, OnDiskInOrder, AllWrittenWhenQuiet
<1> QED BY <1>1, FileInvariant, PTL
(* Unless a command or the Snip tool replaces the transcript, its entries keep  *)
(* their places, and those after the counted ones are in no file.              *)
NeverReplaces == {"compact", "rollback", "resume"} \cap Inputs = {} /\ SnipTool \notin Tools

FreshInv ==
    /\ \A i \in 1..Len(transcript) : transcript[i].id < nextId
    /\ \A i, j \in 1..Len(transcript) : i < j => transcript[i].id # transcript[j].id
    /\ \A s \in Sessions :
        /\ \A p \in 1..Len(disk[s]) : disk[s][p] < nextId
        /\ \A p, q \in 1..Len(disk[s]) : p < q => disk[s][p] # disk[s][q]
        /\ \A i \in (persistedCount + 1)..Len(transcript) : ~Occurs(transcript[i].id, disk[s])


(* What a step that does not complete a turn does then: it adds an entry with a  *)
(* new id or, in /rewind, drops entries at the end.                              *)
LEMMA OldOrNew ==
    ASSUME HostInv, NeverReplaces, NEW t \in Turns, TurnStep(t), ~CompleteTurn(t)
    PROVE  /\ disk' = disk /\ persistedCount' = persistedCount
           /\ \/ /\ Len(transcript') <= Len(transcript)
                 /\ \A i \in 1..Len(transcript') : transcript'[i] = transcript[i]
                 /\ nextId' = nextId
              \/ /\ \E kind, ref : transcript' = Append(transcript, NewEntry(kind, nextId, ref))
                 /\ nextId' = nextId + 1
<1>0. /\ TypeOK /\ RunningInv(t) /\ CallOpen(t) /\ local[t].calls \in Seq(Tools)
      /\ transcript \in Seq(Entry) /\ Len(transcript) \in Nat
  <2>1. TypeOK
    BY DEF HostInv, EngineInv
  <2>2. RunningInv(t) /\ CallOpen(t)
    BY RunsOn DEF HostInv, EngineInv, TurnInv
  <2>3. local[t].calls \in Seq(Tools)
    BY <2>1 DEF TypeOK, Locals
  <2>4. transcript \in Seq(Entry)
    BY <2>1 DEF TypeOK, Transcripts
  <2> QED BY <2>1, <2>2, <2>3, <2>4
<1>1. CASE Prepare(t)
  <2>1. local[t].input \notin {"compact", "rollback", "resume"}
    BY <1>0, <1>1 DEF NeverReplaces, RunningInv, Before, Prepare, PreparePrompt, PrepareLocal,
          PrepareRaises, Rewind, Resume, CompactStart, CompactRefused, CompactFinish, Rollback
  <2>2. pc[t] # "compacting"
    BY <1>0, <2>1 DEF RunningInv
  <2>3. PreparePrompt(t) \/ PrepareLocal(t) \/ PrepareRaises(t) \/ Rewind(t)
    BY <1>1, <2>1, <2>2 DEF Prepare, Resume, CompactStart, CompactRefused, CompactFinish, Rollback
  <2>4. CASE Rewind(t)
    <3>1. PICK count \in 1..Len(transcript) :
              IF count >= Len(transcript)
              THEN transcript' = transcript
              ELSE transcript' = SubSeq(transcript, 1, Len(transcript) - count)
      BY <2>4 DEF Rewind
    <3>2. CASE count >= Len(transcript)
      BY <1>0, <2>4, <3>1, <3>2 DEF Rewind
    <3>3. CASE ~(count >= Len(transcript))
      <4> DEFINE n == Len(transcript) - count
      <4>1. n \in Nat /\ 1 <= n /\ n <= Len(transcript) /\ transcript' = SubSeq(transcript, 1, n)
        BY <1>0, <3>1, <3>3
      <4> HIDE DEF n
      <4>2. Len(transcript') = n /\ \A i \in 1..n : transcript'[i] = transcript[i]
        BY <1>0, <4>1
      <4> QED BY <2>4, <4>1, <4>2 DEF Rewind
    <3> QED BY <3>2, <3>3
  <2> QED BY <1>0, <2>3, <2>4 DEF PreparePrompt, PrepareLocal, PrepareRaises, conversation
<1>2. CASE Query(t)
  <2>1. UNCHANGED <<transcript, nextId, disk, persistedCount>>
    BY <1>2 DEF Query, BeginTurn, BackendFails, BackendRaises, BackendAnswers, BackendCallsTools,
                LoopGuardStops, FailTurn, conversation
  <2> QED BY <1>0, <2>1
<1>3. CASE FinishCall(t)
  <2>1. local[t].calls # <<>>
    BY <1>0, <1>3 DEF FinishCall, CallOpen
  <2>2. Head(local[t].calls) \in Tools
    BY <1>0, <2>1
  <2>3. Head(local[t].calls) # SnipTool
    BY <2>2 DEF NeverReplaces
  <2> QED BY <1>3, <2>3 DEF FinishCall, AppendEntry
<1>4. CASE (CallTools(t) /\ ~FinishCall(t)) \/ Permit(t)
  BY <1>0, <1>4 DEF CallTools, Permit, StartCall, InterruptedBeforeCall, CrashCall, NextRound,
              BudgetExceeded, RoundFails, AllowCall, DenyCall, FailTurn, AppendEntry, conversation
<1>5. CASE EmitAnswer(t)
  BY <1>5 DEF EmitAnswer, AppendEntry
<1> QED BY <1>1, <1>2, <1>3, <1>4, <1>5 DEF TurnStep

LEMMA FewerEntries ==
    ASSUME TypeOK, FreshInv, disk' = disk, persistedCount' = persistedCount, nextId' = nextId,
           Len(transcript') <= Len(transcript), Len(transcript') \in Nat,
           \A i \in 1..Len(transcript') : transcript'[i] = transcript[i]
    PROVE  FreshInv'
<1>0. Len(transcript) \in Nat /\ persistedCount \in Nat
  BY DEF TypeOK, Transcripts
<1>1. \A i \in 1..Len(transcript') : i \in 1..Len(transcript)
  BY <1>0
<1>2. \A i \in (persistedCount + 1)..Len(transcript') :
          i \in 1..Len(transcript') /\ i \in (persistedCount + 1)..Len(transcript)
  BY <1>0
<1>3. ASSUME NEW s \in Sessions, NEW i \in (persistedCount' + 1)..Len(transcript')
      PROVE  ~Occurs(transcript'[i].id, disk'[s])
  <2>1. transcript'[i] = transcript[i] /\ ~Occurs(transcript[i].id, disk[s])
    BY <1>2 DEF FreshInv
  <2> QED BY <2>1
<1>4. \A i \in 1..Len(transcript') : transcript'[i].id < nextId'
  BY <1>1 DEF FreshInv
<1>5. \A i, j \in 1..Len(transcript') : i < j => transcript'[i].id # transcript'[j].id
  BY <1>1 DEF FreshInv
<1> QED BY <1>3, <1>4, <1>5 DEF FreshInv

(* One more entry with a fresh id, not written yet.                             *)
LEMMA FreshEntry ==
    ASSUME TypeOK, FreshInv, disk' = disk, persistedCount' = persistedCount, nextId' = nextId + 1,
           NEW kind, NEW ref, transcript' = Append(transcript, NewEntry(kind, nextId, ref))
    PROVE  FreshInv'
<1> DEFINE n == Len(transcript)
<1>0. /\ transcript \in Seq(Entry) /\ n \in Nat /\ nextId \in Nat /\ persistedCount \in Nat
      /\ disk \in [Sessions -> Seq(Nat)]
  BY DEF TypeOK, Transcripts
<1>1. /\ Len(transcript') = n + 1
      /\ \A i \in 1..n : transcript'[i] = transcript[i]
      /\ transcript'[n + 1].id = nextId
  BY <1>0 DEF NewEntry
<1>2. \A i \in 1..Len(transcript') : i \in 1..n \/ i = n + 1
  BY <1>0, <1>1
<1> HIDE DEF n
<1>3. \A i \in 1..n : transcript[i].id < nextId /\ transcript'[i].id = transcript[i].id
  BY <1>1 DEF FreshInv, n
<1>4. \A i \in 1..n : transcript[i].id \in Nat
  <2>1. \A i \in 1..n : transcript[i] \in Entry
    BY <1>0 DEF n
  <2>2. \A e \in Entry : e.id \in Nat
    BY DEF Entry
  <2> QED BY <2>1, <2>2
<1>5. ASSUME NEW i \in 1..Len(transcript') PROVE transcript'[i].id < nextId'
  <2>1. CASE i \in 1..n
    BY <1>0, <1>3, <1>4, <2>1
  <2>2. CASE i = n + 1
    BY <1>0, <1>1, <2>2
  <2> QED BY <1>2, <2>1, <2>2
<1>6. ASSUME NEW i \in 1..Len(transcript'), NEW j \in 1..Len(transcript'), i < j
      PROVE  transcript'[i].id # transcript'[j].id
  <2>1. i \in 1..n
    BY <1>0, <1>1, <1>6
  <2>2. CASE j \in 1..n
    BY <1>3, <1>6, <2>1, <2>2 DEF FreshInv, n
  <2>3. CASE j = n + 1
    BY <1>0, <1>1, <1>3, <1>4, <2>1, <2>3
  <2> QED BY <1>2, <2>2, <2>3
<1>7. ASSUME NEW s \in Sessions
      PROVE  /\ \A p \in 1..Len(disk'[s]) : disk'[s][p] < nextId'
             /\ \A p, q \in 1..Len(disk'[s]) : p < q => disk'[s][p] # disk'[s][q]
             /\ \A i \in (persistedCount' + 1)..Len(transcript') : ~Occurs(transcript'[i].id, disk'[s])
  <2>1. \A p \in 1..Len(disk[s]) : disk[s][p] \in Nat /\ disk[s][p] < nextId
    BY <1>0 DEF FreshInv
  <2>2. \A p, q \in 1..Len(disk[s]) : p < q => disk[s][p] # disk[s][q]
    BY DEF FreshInv
  <2>3. ASSUME NEW i \in (persistedCount + 1)..Len(transcript') PROVE ~Occurs(transcript'[i].id, disk[s])
    <3>1. CASE i \in 1..n
      <4>1. i \in (persistedCount + 1)..n
        BY <1>0, <3>1
      <4> QED BY <1>3, <3>1, <4>1 DEF FreshInv, n
    <3>2. CASE i = n + 1
      BY <1>0, <1>1, <2>1, <3>2 DEF Occurs
    <3> QED BY <1>0, <1>2, <3>1, <3>2
  <2> QED BY <1>0, <2>1, <2>2, <2>3
<1> QED BY <1>5, <1>6, <1>7 DEF FreshInv

(* The lines of a whole append, also when /rewind left fewer entries than are    *)
(* counted: then there are none.                                                 *)
LEMMA AllLines ==
    ASSUME TypeOK, NEW n \in 0..Len(Unpersisted), n = Len(Unpersisted)
    PROVE  /\ n \in Nat /\ persistedCount + n >= Len(transcript)
           /\ Ids(SubSeq(Unpersisted, 1, n)) \in Seq(Nat)
           /\ Len(Ids(SubSeq(Unpersisted, 1, n))) = n
           /\ \A i \in 1..n :
                 /\ persistedCount + i \in (persistedCount + 1)..Len(transcript)
                 /\ Ids(SubSeq(Unpersisted, 1, n))[i] = transcript[persistedCount + i].id
<1>0. persistedCount \in Nat /\ Len(transcript) \in Nat
  BY DEF TypeOK, Transcripts
<1> DEFINE lines == Ids(SubSeq(Unpersisted, 1, n))
<1>1. CASE persistedCount <= Len(transcript)
  <2>1. /\ Len(Unpersisted) = Len(transcript) - persistedCount
        /\ lines \in Seq(Nat) /\ Len(lines) = n
        /\ \A i \in 1..n : lines[i] = transcript[persistedCount + i].id
    BY <1>1, LinesOf
  <2> HIDE DEF lines
  <2>2. n \in Nat /\ persistedCount + n = Len(transcript)
    BY <1>0, <1>1, <2>1
  <2>3. \A i \in 1..n : persistedCount + i \in (persistedCount + 1)..Len(transcript)
    BY <1>0, <2>2
  <2> QED BY <1>0, <2>1, <2>2, <2>3 DEF lines
<1>2. CASE ~(persistedCount <= Len(transcript))
  <2>1. Unpersisted = <<>>
    <3>1. Len(transcript) < persistedCount + 1 /\ persistedCount + 1 \in Int /\ Len(transcript) \in Int
      BY <1>0, <1>2
    <3> QED BY <3>1, SubSeqEmpty DEF Unpersisted
  <2>2. n = 0
    BY <2>1
  <2>3. SubSeq(Unpersisted, 1, n) = <<>>
    BY <2>2, SubSeqEmpty
  <2>4. <<>> \in Seq(Nat) /\ Len(<<>>) = 0 /\ Ids(<<>>) = <<>>
    BY DEF Ids
  <2>5. lines = <<>>
    BY <2>3, <2>4
  <2>6. \A i \in 1..n : FALSE
    BY <2>2
  <2>7. n \in Nat /\ persistedCount + n >= Len(transcript)
    BY <1>0, <1>2, <2>2
  <2>8. lines \in Seq(Nat) /\ Len(lines) = n
    BY <2>2, <2>4, <2>5
  <2> QED BY <2>6, <2>7, <2>8
<1> QED BY <1>1, <1>2

LEMMA FreshCompletion ==
    ASSUME HostInv, FreshInv, ~DiskFails, NEW t \in Turns, CompleteTurn(t)
    PROVE  FreshInv'
<1>0. /\ TypeOK /\ sessionId \in Sessions /\ sessionId # None
      /\ Len(transcript) \in Nat /\ persistedCount \in Nat
      /\ disk \in [Sessions -> Seq(Nat)] /\ nextId \in Nat
  <2>1. TypeOK /\ RunningInv(t) /\ TurnStep(t)
    BY RunsOn DEF HostInv, EngineInv, TurnStep
  <2> QED BY <2>1 DEF RunningInv, TypeOK, Transcripts, FreshInv
<1>1. PICK n \in 0..Len(Unpersisted) :
          /\ n = Len(Unpersisted)
          /\ WriteEntries(n)
          /\ persistedCount' = IF local[t].reset THEN 0 ELSE CountAfter(TRUE, n)
  BY DEF CompleteTurn
<1> DEFINE file == disk[sessionId]
           lines == Ids(SubSeq(Unpersisted, 1, n))
<1>2. /\ n \in Nat /\ persistedCount + n >= Len(transcript)
      /\ lines \in Seq(Nat) /\ Len(lines) = n
      /\ \A i \in 1..n : /\ persistedCount + i \in (persistedCount + 1)..Len(transcript)
                         /\ lines[i] = transcript[persistedCount + i].id
  BY <1>0, <1>1, AllLines
<1>3. disk' = [disk EXCEPT ![sessionId] = file \o lines]
  BY <1>0, <1>1 DEF WriteEntries
<1>4. file \in Seq(Nat) /\ Len(file) \in Nat
  BY <1>0
<1> DEFINE after == file \o lines
<1> HIDE DEF lines
<1>5. /\ Len(after) = Len(file) + n
      /\ \A p \in 1..Len(file) : after[p] = file[p]
      /\ \A p \in 1..Len(after) : p \notin 1..Len(file) =>
            p - Len(file) \in 1..n /\ after[p] = lines[p - Len(file)]
  <2>1. /\ Len(after) = Len(file) + n
        /\ \A p \in 1..Len(after) : after[p] = IF p <= Len(file) THEN file[p] ELSE lines[p - Len(file)]
    <3>1. /\ Len(after) = Len(file) + Len(lines)
          /\ \A p \in 1..Len(file) + Len(lines) :
                after[p] = IF p <= Len(file) THEN file[p] ELSE lines[p - Len(file)]
      <4>1. file \in Seq(Nat) /\ lines \in Seq(Nat)
        BY <1>2, <1>4
      <4> HIDE DEF file
      <4> QED BY <4>1, ConcatProperties
    <3>2. 1..Len(after) = 1..Len(file) + Len(lines) /\ Len(after) = Len(file) + n
      BY <1>2, <3>1
    <3> QED BY <3>1, <3>2
  <2>2. \A p \in 1..Len(file) : p \in 1..Len(after) /\ p <= Len(file)
    BY <1>2, <1>4, <2>1
  <2>3. \A p \in 1..Len(after) : p \notin 1..Len(file) => p - Len(file) \in 1..n /\ ~(p <= Len(file))
    BY <1>2, <1>4, <2>1
  <2> QED BY <2>1, <2>2, <2>3
<1>6. ASSUME NEW i \in 1..n
      PROVE  /\ lines[i] < nextId
             /\ ~Occurs(lines[i], file)
             /\ \A j \in 1..n : i < j => lines[i] # lines[j]
  <2>1. \A j \in 1..n : persistedCount + j \in (persistedCount + 1)..Len(transcript)
                          /\ persistedCount + j \in 1..Len(transcript)
    BY <1>0, <1>2
  <2>2. lines[i] < nextId
    BY <1>2, <2>1 DEF FreshInv
  <2>3. ~Occurs(lines[i], file)
    BY <1>0, <1>2, <2>1 DEF FreshInv
  <2>4. ASSUME NEW j \in 1..n, i < j PROVE lines[i] # lines[j]
    <3>1. persistedCount + i < persistedCount + j
      BY <1>0, <1>2, <2>4
    <3>2. transcript[persistedCount + i].id # transcript[persistedCount + j].id
      BY <2>1, <3>1 DEF FreshInv
    <3>3. lines[i] = transcript[persistedCount + i].id /\ lines[j] = transcript[persistedCount + j].id
      BY <1>2
    <3> QED BY <3>2, <3>3
  <2> QED BY <2>2, <2>3, <2>4
<1> HIDE DEF after
<1>7. \A p \in 1..Len(after) : after[p] < nextId
  BY <1>0, <1>5, <1>6 DEF FreshInv
<1>8. ASSUME NEW p \in 1..Len(after), NEW q \in 1..Len(after), p < q PROVE after[p] # after[q]
  <2>1. CASE q \in 1..Len(file)
    <3>1. p \in 1..Len(file)
      BY <1>4, <1>5, <1>8, <2>1
    <3>2. file[p] # file[q]
      BY <1>0, <1>8, <2>1, <3>1 DEF FreshInv
    <3>3. after[p] = file[p] /\ after[q] = file[q]
      BY <1>5, <2>1, <3>1
    <3> QED BY <3>2, <3>3
  <2>2. CASE p \in 1..Len(file) /\ q \notin 1..Len(file)
    <3> DEFINE j == q - Len(file)
    <3>1. j \in 1..n /\ after[q] = lines[j] /\ after[p] = file[p]
      BY <1>5, <2>2
    <3>2. ~Occurs(lines[j], file)
      BY <1>6, <3>1
    <3>3. file[p] # lines[j]
      BY <2>2, <3>2 DEF Occurs
    <3> QED BY <3>1, <3>3
  <2>3. CASE p \notin 1..Len(file)
    <3> DEFINE i == p - Len(file)
               j == q - Len(file)
    <3>1. q \notin 1..Len(file) /\ i < j
      BY <1>4, <1>5, <1>8, <2>3
    <3>2. i \in 1..n /\ after[p] = lines[i] /\ j \in 1..n /\ after[q] = lines[j]
      BY <1>5, <2>3, <3>1
    <3> HIDE DEF i, j
    <3>3. lines[i] # lines[j]
      BY <1>6, <3>1, <3>2
    <3> QED BY <3>2, <3>3
  <2> QED BY <2>1, <2>2, <2>3
<1>9. ASSUME NEW s \in Sessions
      PROVE  /\ \A p \in 1..Len(disk'[s]) : disk'[s][p] < nextId
             /\ \A p, q \in 1..Len(disk'[s]) : p < q => disk'[s][p] # disk'[s][q]
  <2>1. CASE s = sessionId
    <3>1. disk'[s] = after
      BY <1>0, <1>3, <2>1 DEF after
    <3> QED BY <1>7, <1>8, <3>1
  <2>2. CASE s # sessionId
    <3>1. disk'[s] = disk[s]
      BY <1>0, <1>3, <2>2
    <3> QED BY <3>1 DEF FreshInv
  <2> QED BY <2>1, <2>2
<1>10. nextId' = nextId
  BY DEF CompleteTurn
<1>11. CASE local[t].reset
  <2>1. transcript' = <<>> /\ Len(transcript') = 0 /\ persistedCount' = 0
    BY <1>1, <1>11 DEF CompleteTurn
  <2>2. /\ \A i : i \notin 1..Len(transcript')
        /\ \A i : i \notin (persistedCount' + 1)..Len(transcript')
    BY <2>1
  <2> QED BY <1>9, <1>10, <2>2 DEF FreshInv
<1>12. CASE ~local[t].reset
  <2>1. transcript' = transcript /\ persistedCount' >= Len(transcript) /\ persistedCount' \in Nat
    <3>1. transcript' = transcript /\ persistedCount' = persistedCount + n
      BY <1>0, <1>1, <1>12 DEF CompleteTurn, CountAfter
    <3> QED BY <1>2, <3>1
  <2>2. \A i : i \notin (persistedCount' + 1)..Len(transcript')
    BY <1>0, <2>1
  <2>3. /\ \A i \in 1..Len(transcript') : transcript'[i].id < nextId'
        /\ \A i, j \in 1..Len(transcript') : i < j => transcript'[i].id # transcript'[j].id
    BY <1>10, <2>1 DEF FreshInv
  <2> QED BY <1>9, <1>10, <2>2, <2>3 DEF FreshInv
<1> QED BY <1>11, <1>12

LEMMA FreshStep ==
    ASSUME NeverReplaces, ~DiskFails, HostInv, HostInv', FreshInv, [SequentialNext]_vars
    PROVE  FreshInv'
<1>0. /\ TypeOK /\ transcript \in Seq(Entry) /\ Len(transcript) \in Nat
      /\ Len(transcript') \in Nat
  <2>1. TypeOK /\ TypeOK'
    BY DEF HostInv, EngineInv
  <2>2. transcript \in Seq(Entry) /\ transcript' \in Seq(Entry)
    BY <2>1 DEF TypeOK, Transcripts
  <2> QED BY <2>1, <2>2
<1>1. ASSUME disk' = disk, persistedCount' = persistedCount, transcript' = transcript, nextId' = nextId
      PROVE  FreshInv'
  BY <1>1 DEF FreshInv, Occurs
<1>2. ASSUME NEW t \in Turns, ReadMessage(t) PROVE FreshInv'
  BY <1>0, <1>2, FreshEntry DEF ReadMessage, HandleUserMessage, AppendEntry
<1>3. ASSUME NEW t \in Turns, TurnStep(t), ~CompleteTurn(t) PROVE FreshInv'
  BY <1>0, <1>3, OldOrNew, FewerEntries, FreshEntry
<1>4. ASSUME NEW t \in Turns, CompleteTurn(t) PROVE FreshInv'
  BY <1>4, FreshCompletion
<1>5. CASE ReadInterrupt \/ UNCHANGED vars
  BY <1>1, <1>5 DEF ReadInterrupt, Interrupt, vars, conversation
<1> QED BY <1>2, <1>3, <1>4, <1>5 DEF SequentialNext

LEMMA FreshStart == Init => FreshInv
<1> SUFFICES ASSUME Init PROVE FreshInv
  OBVIOUS
<1>1. transcript = <<>> /\ Len(transcript) = 0 /\ persistedCount = 0
  BY DEF Init
<1>2. \A s \in Sessions : disk[s] = <<>> /\ Len(disk[s]) = 0
  BY DEF Init
<1> QED BY <1>1, <1>2 DEF FreshInv

(* When no append fails, and neither /compact, /resume nor the Snip tool puts     *)
(* another transcript under the count, no entry is written to a session's file    *)
(* twice: not after /rewind, nor when the host names an old session after /clear. *)
THEOREM NoEntryTwice == NeverReplaces => (SequentialSpec => []WrittenOnce)
<1> SUFFICES ASSUME NeverReplaces PROVE SequentialSpec => []WrittenOnce
  OBVIOUS
<1>1. CASE DiskFails
  <2>1. WrittenOnce
    BY <1>1 DEF WrittenOnce
  <2> QED BY <2>1, PTL
<1>2. CASE ~DiskFails
  <2>1. HostInv /\ FreshInv /\ [SequentialNext]_vars => (HostInv /\ FreshInv)'
    BY <1>2, HostStep, FreshStep
  <2>2. ASSUME HostInv, FreshInv PROVE WrittenOnce
    <3>1. SUFFICES ASSUME NEW s \in Sessions, NEW i \in 1..Len(disk[s]), NEW j \in 1..Len(disk[s]),
                          disk[s][i] = disk[s][j]
                   PROVE  i = j
      BY DEF WrittenOnce
    <3>2. ~(i < j) /\ ~(j < i)
      BY <2>2, <3>1 DEF FreshInv
    <3> QED BY <3>2
  <2> QED BY <2>1, <2>2, HostStart, FreshStart, PTL DEF SequentialSpec
<1> QED BY <1>1, <1>2

-----------------------------------------------------------------------------
(* Tool uses and their results.  Without /rewind, which can cut between them,  *)
(* and without a tool that crashes, the transcript is paired but for the call  *)
(* that is being made.                                                         *)
KeepsPairs == "rewind" \notin Inputs /\ ~ToolsCrash

OpenAt(entries, use) ==
    \E base \in Transcripts :
        entries = Append(base, NewEntry("use", use, 0)) /\ Paired(base)

PairInv ==
    /\ (\A t \in Turns : pc[t] \notin InCall) => Paired(transcript)
    /\ \A t \in Turns : pc[t] \in InCall => OpenAt(transcript, local[t].openUse)
    /\ \A t \in Turns : pc[t] = "compacting" => Paired(local[t].sent)
    /\ \A s \in Sessions :
        /\ snapshots[s] # None => Paired(snapshots[s].transcript)
        /\ savedSessions[s] # None /\ (s = sessionId => \A t \in Turns : pc[t] \notin InLoop \cup {"complete"})
              => Paired(savedSessions[s].transcript)

LEMMA PairedAppend ==
    ASSUME NEW entries \in Transcripts, Paired(entries),
           NEW kind, kind \notin {"use", "result"}, NEW id, NEW ref
    PROVE  Paired(Append(entries, NewEntry(kind, id, ref)))
<1> DEFINE after == Append(entries, NewEntry(kind, id, ref))
           n == Len(entries)
<1>1. /\ n \in Nat /\ Len(after) = n + 1
      /\ \A i \in 1..n : after[i] = entries[i]
      /\ after[n + 1].kind = kind
  BY DEF Transcripts, NewEntry
<1>2. \A i \in 1..Len(after) : i \in 1..n \/ i = n + 1
  BY <1>1
<1> HIDE DEF after, n
<1>3. SUFFICES ASSUME NEW i \in 1..Len(after)
               PROVE  /\ after[i].kind = "use" =>
                            /\ i < Len(after)
                            /\ after[i + 1].kind = "result"
                            /\ after[i + 1].ref = after[i].id
                      /\ after[i].kind = "result" =>
                            /\ i > 1
                            /\ after[i - 1].kind = "use"
                            /\ after[i - 1].id = after[i].ref
  BY DEF Paired, after
<1>4. CASE i \in 1..n
  <2>1. after[i] = entries[i] /\ i < Len(after)
    BY <1>1, <1>4
  <2>2. ASSUME entries[i].kind = "use"
        PROVE  after[i + 1].kind = "result" /\ after[i + 1].ref = after[i].id
    <3>1. i < n /\ entries[i + 1].kind = "result" /\ entries[i + 1].ref = entries[i].id
      BY <1>4, <2>2 DEF Paired, n
    <3>2. i + 1 \in 1..n
      BY <1>1, <1>4, <3>1
    <3> QED BY <1>1, <2>1, <3>1, <3>2
  <2>3. ASSUME entries[i].kind = "result"
        PROVE  i > 1 /\ after[i - 1].kind = "use" /\ after[i - 1].id = after[i].ref
    <3>1. i > 1 /\ entries[i - 1].kind = "use" /\ entries[i - 1].id = entries[i].ref
      BY <1>4, <2>3 DEF Paired, n
    <3>2. i - 1 \in 1..n
      BY <1>1, <1>4, <3>1
    <3> QED BY <1>1, <2>1, <3>1, <3>2
  <2> QED BY <2>1, <2>2, <2>3
<1>5. CASE i = n + 1
  BY <1>1, <1>5
<1> QED BY <1>2, <1>4, <1>5

(* The result of the open call closes it.                                      *)
LEMMA PairedAnswer ==
    ASSUME NEW entries, NEW use, OpenAt(entries, use), NEW id
    PROVE  Paired(Append(entries, NewEntry("result", id, use)))
<1>1. PICK base \in Transcripts : entries = Append(base, NewEntry("use", use, 0)) /\ Paired(base)
  BY DEF OpenAt
<1> DEFINE n == Len(base)
           after == Append(entries, NewEntry("result", id, use))
<1>2. /\ n \in Nat /\ Len(after) = n + 2
      /\ \A i \in 1..n : after[i] = base[i]
      /\ after[n + 1].kind = "use" /\ after[n + 1].id = use
      /\ after[n + 2].kind = "result" /\ after[n + 2].ref = use
  <2>1. /\ n \in Nat /\ Len(entries) = n + 1
        /\ \A i \in 1..n : entries[i] = base[i]
        /\ entries[n + 1] = NewEntry("use", use, 0)
    BY <1>1 DEF Transcripts
  <2>2. entries \in Seq({base[i] : i \in 1..n} \cup {NewEntry("use", use, 0)})
    <3>1. base \in Seq({base[i] : i \in 1..n} \cup {NewEntry("use", use, 0)})
      <4> DEFINE R == {base[i] : i \in 1..n} \cup {NewEntry("use", use, 0)}
      <4>1. \A i \in 1..n : base[i] \in R
        OBVIOUS
      <4>2. base \in [1..n -> R]
        <5>1. base \in [1..n -> Entry]
          BY <1>1, LenProperties DEF Transcripts
        <5> HIDE DEF R
        <5> QED BY <4>1, <5>1
      <4> HIDE DEF R
      <4>3. base \in Seq(R)
        BY <2>1, <4>2, SeqDef
      <4> QED BY <4>3 DEF R
    <3> QED BY <1>1, <3>1, AppendProperties
  <2>3. /\ Len(after) = Len(entries) + 1
        /\ \A i \in 1..Len(entries) : after[i] = entries[i]
        /\ after[Len(entries) + 1] = NewEntry("result", id, use)
    BY <2>2
  <2>4. \A i \in 1..n : i \in 1..(n + 1)
    BY <2>1
  <2>5. n + 1 \in 1..(n + 1)
    BY <2>1
  <2> QED BY <2>1, <2>3, <2>4, <2>5 DEF NewEntry
<1>3. \A i \in 1..Len(after) : i \in 1..n \/ i = n + 1 \/ i = n + 2
  BY <1>2
<1> HIDE DEF after, n
<1>4. SUFFICES ASSUME NEW i \in 1..Len(after)
               PROVE  /\ after[i].kind = "use" =>
                            /\ i < Len(after)
                            /\ after[i + 1].kind = "result"
                            /\ after[i + 1].ref = after[i].id
                      /\ after[i].kind = "result" =>
                            /\ i > 1
                            /\ after[i - 1].kind = "use"
                            /\ after[i - 1].id = after[i].ref
  BY DEF Paired, after
<1>5. CASE i \in 1..n
  <2>1. after[i] = base[i] /\ i < Len(after)
    BY <1>2, <1>5
  <2>2. ASSUME base[i].kind = "use"
        PROVE  after[i + 1].kind = "result" /\ after[i + 1].ref = after[i].id
    <3>1. i < n /\ base[i + 1].kind = "result" /\ base[i + 1].ref = base[i].id
      BY <1>1, <1>5, <2>2 DEF Paired, n
    <3>2. i + 1 \in 1..n
      BY <1>2, <1>5, <3>1
    <3> QED BY <1>2, <2>1, <3>1, <3>2
  <2>3. ASSUME base[i].kind = "result"
        PROVE  i > 1 /\ after[i - 1].kind = "use" /\ after[i - 1].id = after[i].ref
    <3>1. i > 1 /\ base[i - 1].kind = "use" /\ base[i - 1].id = base[i].ref
      BY <1>1, <1>5, <2>3 DEF Paired, n
    <3>2. i - 1 \in 1..n
      BY <1>2, <1>5, <3>1
    <3> QED BY <1>2, <2>1, <3>1, <3>2
  <2> QED BY <2>1, <2>2, <2>3
<1>6. CASE i = n + 1
  <2>1. i + 1 = n + 2 /\ i < Len(after)
    BY <1>2, <1>6
  <2> QED BY <1>2, <1>6, <2>1
<1>7. CASE i = n + 2
  <2>1. i - 1 = n + 1 /\ i > 1
    BY <1>2, <1>7
  <2> QED BY <1>2, <1>7, <2>1
<1> QED BY <1>3, <1>5, <1>6, <1>7

(* Entries in front that are no tool calls, and then the end of a paired         *)
(* transcript that does not start with a result.                                 *)
LEMMA PairedKeptEnd ==
    ASSUME NEW entries \in Transcripts, Paired(entries),
           NEW i \in 1..Len(entries), entries[i].kind # "result",
           NEW head \in Transcripts, \A k \in 1..Len(head) : head[k].kind \notin {"use", "result"}
    PROVE  Paired(head \o SubSeq(entries, i, Len(entries)))
<1> DEFINE kept == SubSeq(entries, i, Len(entries))
           after == head \o kept
           h == Len(head)
<1>1. /\ h \in Nat /\ Len(entries) \in Nat /\ kept \in Seq(Entry)
      /\ Len(kept) = Len(entries) - i + 1
      /\ \A k \in 1..Len(kept) : i + k - 1 \in 1..Len(entries) /\ kept[k] = entries[i + k - 1]
  <2>1. h \in Nat /\ Len(entries) \in Nat
    BY DEF Transcripts
  <2>2. \A k \in i..Len(entries) : entries[k] \in Entry
    BY <2>1 DEF Transcripts
  <2>3. /\ kept \in Seq(Entry) /\ Len(kept) = Len(entries) - i + 1
        /\ \A k \in 1..(Len(entries) - i + 1) : kept[k] = entries[i + k - 1]
    BY <2>1, <2>2, SubSeqProperties
  <2> HIDE DEF kept
  <2> QED BY <2>1, <2>3
<1> HIDE DEF kept
<1>2. /\ Len(after) = h + Len(kept) /\ Len(kept) \in Nat
      /\ \A k \in 1..Len(after) : after[k] = IF k <= h THEN head[k] ELSE kept[k - h]
  <2>1. head \in Seq(Entry) /\ kept \in Seq(Entry)
    BY <1>1 DEF Transcripts
  <2> QED BY <2>1, ConcatProperties, LenProperties
<1> HIDE DEF after
<1>0. /\ h \in Nat /\ Len(entries) \in Nat /\ i \in Nat /\ i >= 1 /\ i <= Len(entries)
      /\ Len(kept) = Len(entries) - i + 1 /\ Len(after) = h + Len(kept)
  BY <1>1, <1>2
<1> HIDE DEF h
<1>3. ASSUME NEW k \in 1..Len(after)
      PROVE  \/ k \in 1..h /\ after[k].kind \notin {"use", "result"}
             \/ /\ k > h /\ i + (k - h) - 1 \in i..Len(entries)
                /\ after[k] = entries[i + (k - h) - 1]
  <2>1. CASE k <= h
    <3>1. k \in 1..h
      BY <1>0, <2>1
    <3> QED BY <1>2, <2>1, <3>1 DEF h
  <2>2. CASE ~(k <= h)
    <3>1. k - h \in 1..Len(kept) /\ i + (k - h) - 1 \in i..Len(entries)
      BY <1>1, <1>2, <2>2
    <3> QED BY <1>1, <1>2, <2>2, <3>1
  <2> QED BY <2>1, <2>2
<1>4. \A m \in i..Len(entries) : m - i + 1 + h \in 1..Len(after) /\ after[m - i + 1 + h] = entries[m]
  <2>1. SUFFICES ASSUME NEW m \in i..Len(entries)
                 PROVE  m - i + 1 + h \in 1..Len(after) /\ after[m - i + 1 + h] = entries[m]
    OBVIOUS
  <2>2. /\ m - i + 1 \in 1..Len(kept) /\ i + (m - i + 1) - 1 = m
        /\ m - i + 1 + h \in 1..Len(after) /\ ~(m - i + 1 + h <= h) /\ m - i + 1 + h - h = m - i + 1
    BY <1>0
  <2> DEFINE k == m - i + 1 + h
  <2>3. k \in 1..Len(after) /\ ~(k <= h) /\ k - h = m - i + 1
    BY <1>0, <2>2
  <2> HIDE DEF k
  <2>4. after[k] = kept[m - i + 1]
    BY <1>2, <2>3
  <2>5. kept[m - i + 1] = entries[m]
    BY <1>1, <2>2
  <2> QED BY <2>3, <2>4, <2>5 DEF k
<1>5. SUFFICES ASSUME NEW k \in 1..Len(after)
               PROVE  /\ after[k].kind = "use" =>
                            /\ k < Len(after)
                            /\ after[k + 1].kind = "result"
                            /\ after[k + 1].ref = after[k].id
                      /\ after[k].kind = "result" =>
                            /\ k > 1
                            /\ after[k - 1].kind = "use"
                            /\ after[k - 1].id = after[k].ref
  BY DEF Paired, after, kept
<1>6. CASE k \in 1..h /\ after[k].kind \notin {"use", "result"}
  BY <1>6
<1>7. CASE /\ k > h /\ i + (k - h) - 1 \in i..Len(entries)
           /\ after[k] = entries[i + (k - h) - 1]
  <2> DEFINE m == i + (k - h) - 1
  <2>1. m \in 1..Len(entries) /\ after[k] = entries[m] /\ k = m - i + 1 + h
    <3>1. k \in Nat /\ i + (k - h) - 1 >= i /\ i + (k - h) - 1 <= Len(entries)
      BY <1>0, <1>7
    <3>2. m \in 1..Len(entries) /\ k = m - i + 1 + h
      BY <1>0, <3>1
    <3> QED BY <1>7, <3>2
  <2> HIDE DEF m
  <2>2. ASSUME entries[m].kind = "use"
        PROVE  k < Len(after) /\ after[k + 1].kind = "result" /\ after[k + 1].ref = after[k].id
    <3>1. m < Len(entries) /\ entries[m + 1].kind = "result" /\ entries[m + 1].ref = entries[m].id
      BY <2>1, <2>2 DEF Paired
    <3>2. m + 1 \in i..Len(entries) /\ (m + 1) - i + 1 + h = k + 1
      BY <1>0, <1>7, <2>1, <3>1 DEF m
    <3>3. k + 1 \in 1..Len(after) /\ after[k + 1] = entries[m + 1]
      BY <1>4, <3>2
    <3> QED BY <1>1, <1>2, <2>1, <3>1, <3>3
  <2>3. ASSUME entries[m].kind = "result"
        PROVE  k > 1 /\ after[k - 1].kind = "use" /\ after[k - 1].id = after[k].ref
    <3>1. m > 1 /\ entries[m - 1].kind = "use" /\ entries[m - 1].id = entries[m].ref
      BY <2>1, <2>3 DEF Paired
    <3>2. m # i
      BY <2>3
    <3>3. m - 1 \in i..Len(entries) /\ (m - 1) - i + 1 + h = k - 1 /\ k > 1
      BY <1>0, <1>7, <2>1, <3>2 DEF m
    <3>4. after[k - 1] = entries[m - 1]
      BY <1>4, <3>3
    <3> QED BY <2>1, <3>1, <3>3, <3>4
  <2> QED BY <2>1, <2>2, <2>3
<1> QED BY <1>3, <1>6, <1>7

LEMMA PairedCompacted ==
    ASSUME TypeOK, NEW entries \in Transcripts, Paired(entries), NEW i \in RoundStarts(entries),
           NEW summarised \in BOOLEAN
    PROVE  Paired(Compacted(entries, i, summarised))
<1> DEFINE boundary == NewEntry("boundary", nextId, 0)
           summary == NewEntry("summary", nextId + 1, 0)
           head == <<boundary>> \o (IF summarised THEN <<summary>> ELSE <<>>)
           kept == SubSeq(entries, i, Len(entries))
<1>1. /\ boundary \in Entry /\ summary \in Entry
      /\ boundary.kind = "boundary" /\ summary.kind = "summary"
  <2>1. nextId \in Nat /\ nextId + 1 \in Nat /\ 0 \in Nat
    BY DEF TypeOK
  <2> QED BY <2>1, EntryType DEF Kinds, NewEntry
<1> HIDE DEF boundary, summary
<1>2. head \in Transcripts /\ \A k \in 1..Len(head) : head[k].kind \notin {"use", "result"}
  <2>1. CASE summarised
    <3>1. /\ <<boundary>> \in Seq(Entry) /\ <<summary>> \in Seq(Entry)
          /\ head = <<boundary>> \o <<summary>>
      BY <1>1, <2>1
    <3> DEFINE one == <<boundary>>  two == <<summary>>
    <3>2. /\ Len(one) = 1 /\ Len(two) = 1 /\ one[1] = boundary /\ two[1] = summary
      OBVIOUS
    <3> HIDE DEF one, two
    <3>3. /\ one \o two \in Seq(Entry) /\ Len(one \o two) = 2
          /\ \A k \in 1..2 : (one \o two)[k] = IF k <= 1 THEN one[k] ELSE two[k - 1]
      <4>1. one \in Seq(Entry) /\ two \in Seq(Entry)
        BY <3>1 DEF one, two
      <4>2. /\ one \o two \in Seq(Entry) /\ Len(one \o two) = Len(one) + Len(two)
            /\ \A k \in 1..Len(one) + Len(two) :
                  (one \o two)[k] = IF k <= Len(one) THEN one[k] ELSE two[k - Len(one)]
        BY <4>1, ConcatProperties
      <4>3. Len(one) + Len(two) = 2
        BY <3>2
      <4> QED BY <3>2, <4>2, <4>3
    <3>4. ASSUME NEW k \in 1..2 PROVE (one \o two)[k] \in {boundary, summary}
      <4>1. k = 1 \/ (k = 2 /\ k - 1 = 1)
        OBVIOUS
      <4> QED BY <3>2, <3>3, <4>1
    <3>5. head = one \o two
      BY <3>1 DEF one, two
    <3> HIDE DEF head
    <3> QED BY <1>1, <3>3, <3>4, <3>5 DEF Transcripts
  <2>2. CASE ~summarised
    <3>1. head = <<boundary>>
      BY <2>2
    <3> QED BY <1>1, <3>1 DEF Transcripts
  <2> QED BY <2>1, <2>2
<1>3. i \in 1..Len(entries) /\ entries[i].kind # "result"
  BY DEF RoundStarts, IsAssistant
<1> HIDE DEF head
<1>4. Paired(head \o kept)
  BY <1>2, <1>3, PairedKeptEnd
<1>5. Compacted(entries, i, summarised) = head \o kept
  BY DEF Compacted, head, boundary, summary
<1> QED BY <1>4, <1>5

-----------------------------------------------------------------------------
LEMMA SavedUnder ==
    ASSUME TypeOK, sessionId \in Sessions, NEW entries \in Transcripts,
           savedSessions' = SavedWith(sessionId, entries, turnCount)
    PROVE  \A s \in Sessions :
              savedSessions'[s] = IF s = sessionId THEN [transcript |-> entries, turnCount |-> turnCount]
                                                   ELSE savedSessions[s]
BY DEF SavedWith, TypeOK

(* The saved copy is made by the step that ends the turn.                      *)
LEMMA SavedStep ==
    ASSUME HostInv, SavedWhenQuiet, [SequentialNext]_vars
    PROVE  SavedWhenQuiet'
<1>0. TypeOK
  BY DEF HostInv, EngineInv
<1>1. ASSUME NEW t \in Turns, ReadMessage(t) \/ (TurnStep(t) /\ ~CompleteTurn(t))
      PROVE  SavedWhenQuiet'
  <2>1. Running(t)'
    BY <1>0, <1>1, RunsOn DEF ReadMessage
  <2> QED BY <2>1 DEF SavedWhenQuiet, Quiet
<1>2. ASSUME NEW t \in Turns, CompleteTurn(t) PROVE SavedWhenQuiet'
  <2>1. CASE local[t].reset
    <3>1. sessionId' = None
      BY <1>2, <2>1 DEF CompleteTurn
    <3> QED BY <3>1 DEF SavedWhenQuiet
  <2>2. CASE ~local[t].reset
    <3>1. /\ sessionId' = sessionId /\ transcript' = transcript
          /\ savedSessions' = SavedWith(sessionId, transcript, turnCount)
      BY <1>2, <2>2 DEF CompleteTurn
    <3>2. sessionId \in Sessions /\ transcript \in Transcripts /\ turnCount \in Nat
      <4>1. RunningInv(t)
        BY <1>0, <1>2, RunsOn DEF HostInv, TurnStep
      <4> QED BY <1>0, <4>1 DEF RunningInv, TypeOK
    <3>3. savedSessions'[sessionId'] = [transcript |-> transcript, turnCount |-> turnCount]
      BY <1>0, <3>1, <3>2, SavedUnder
    <3>4. [transcript |-> transcript, turnCount |-> turnCount] \in Saved
      BY <3>2 DEF Saved
    <3> QED BY <3>1, <3>3, <3>4, SavedAssumption DEF SavedWhenQuiet
  <2> QED BY <2>1, <2>2
<1>3. CASE ReadInterrupt \/ UNCHANGED vars
  <2>1. /\ sessionId' = sessionId /\ transcript' = transcript /\ savedSessions' = savedSessions
        /\ pc' = pc
    BY <1>3 DEF ReadInterrupt, Interrupt, vars, conversation
  <2>2. Quiet' = Quiet
    BY <2>1 DEF Quiet, Running
  <2> QED BY <2>1, <2>2 DEF SavedWhenQuiet
<1> QED BY <1>1, <1>2, <1>3 DEF SequentialNext

(* Between two turns the saved copy of the session is the conversation, so that  *)
(* /resume finds it, after every way to end a turn and every command.            *)
THEOREM ConversationIsSaved == SequentialSpec => []SavedWhenQuiet
<1>1. Init => SavedWhenQuiet
  BY DEF Init, SavedWhenQuiet
<1>2. HostInv /\ SavedWhenQuiet /\ [SequentialNext]_vars => (HostInv /\ SavedWhenQuiet)'
  BY HostStep, SavedStep
<1> QED BY <1>1, <1>2, HostStart, PTL DEF SequentialSpec

-----------------------------------------------------------------------------
(* What a step of turn t has to show, when no other turn runs.                 *)
PairedAt(t) ==
    /\ pc[t] \notin InCall => Paired(transcript)
    /\ pc[t] \in InCall => OpenAt(transcript, local[t].openUse)
    /\ pc[t] = "compacting" => Paired(local[t].sent)
    /\ \A s \in Sessions :
        /\ snapshots[s] # None => Paired(snapshots[s].transcript)
        /\ savedSessions[s] # None /\ (s = sessionId => pc[t] \notin InLoop \cup {"complete"})
              => Paired(savedSessions[s].transcript)

(* The invariant as seen from the turn that runs, or is about to.              *)
LEMMA SeenFrom ==
    ASSUME NEW t \in Turns, \A u \in Turns : u # t => ~Running(u)
    PROVE  PairInv <=> PairedAt(t)
<1>1. \A u \in Turns : u # t => pc[u] \notin InCall \cup InLoop \cup {"complete", "compacting"}
  BY DEF Running, InCall, InLoop
<1>2. (\A u \in Turns : pc[u] \notin InCall) <=> pc[t] \notin InCall
  BY <1>1
<1>3. (\A u \in Turns : pc[u] \in InCall => OpenAt(transcript, local[u].openUse))
         <=> (pc[t] \in InCall => OpenAt(transcript, local[t].openUse))
  BY <1>1
<1>4. (\A u \in Turns : pc[u] = "compacting" => Paired(local[u].sent))
         <=> (pc[t] = "compacting" => Paired(local[t].sent))
  BY <1>1
<1>5. (\A u \in Turns : pc[u] \notin InLoop \cup {"complete"}) <=> pc[t] \notin InLoop \cup {"complete"}
  BY <1>1
<1> QED BY <1>2, <1>3, <1>4, <1>5 DEF PairInv, PairedAt

LEMMA SeenFromNext ==
    ASSUME NEW t \in Turns, \A u \in Turns : u # t => ~Running(u)'
    PROVE  PairedAt(t)' => PairInv'
<1>1. \A u \in Turns : u # t => pc'[u] \notin InCall \cup InLoop \cup {"complete", "compacting"}
  BY DEF Running, InCall, InLoop
<1>2. SUFFICES ASSUME PairedAt(t)' PROVE PairInv'
  OBVIOUS
<1>3. (\A u \in Turns : pc'[u] \notin InCall) => Paired(transcript')
  BY <1>2 DEF PairedAt
<1>4. \A u \in Turns : pc'[u] \in InCall => OpenAt(transcript', local'[u].openUse)
  BY <1>1, <1>2 DEF PairedAt
<1>5. \A u \in Turns : pc'[u] = "compacting" => Paired(local'[u].sent)
  BY <1>1, <1>2 DEF PairedAt
<1>6. (\A u \in Turns : pc'[u] \notin InLoop \cup {"complete"}) <=> pc'[t] \notin InLoop \cup {"complete"}
  BY <1>1
<1> QED BY <1>2, <1>3, <1>4, <1>5, <1>6 DEF PairInv, PairedAt

LEMMA SavedPaired ==
    ASSUME TypeOK, sessionId \in Sessions, NEW entries \in Transcripts, Paired(entries),
           savedSessions' = SavedWith(sessionId, entries, turnCount),
           \A s \in Sessions : savedSessions[s] # None /\ s # sessionId => Paired(savedSessions[s].transcript)
    PROVE  \A s \in Sessions : savedSessions'[s] # None => Paired(savedSessions'[s].transcript)
<1>1. SUFFICES ASSUME NEW s \in Sessions, savedSessions'[s] # None
               PROVE  Paired(savedSessions'[s].transcript)
  OBVIOUS
<1>2. savedSessions'[s] = IF s = sessionId THEN [transcript |-> entries, turnCount |-> turnCount]
                                           ELSE savedSessions[s]
  BY SavedUnder
<1>3. CASE s = sessionId
  <2>1. savedSessions'[s].transcript = entries
    BY <1>2, <1>3
  <2> QED BY <2>1
<1>4. CASE s # sessionId
  <2>1. savedSessions'[s] = savedSessions[s]
    BY <1>2, <1>4
  <2> QED BY <1>1, <1>4, <2>1
<1> QED BY <1>3, <1>4

LEMMA PrepareKeepsPairs ==
    ASSUME KeepsPairs, HostInv, NEW t \in Turns, PairedAt(t), Prepare(t)
    PROVE  PairedAt(t)'
<1>0. /\ TypeOK /\ RunningInv(t) /\ sessionId \in Sessions
      /\ local[t] \in Locals /\ transcript \in Transcripts
  BY RunsOn DEF HostInv, EngineInv, TurnStep, RunningInv, TypeOK
<1>1. /\ pc[t] \in {"prepare", "compacting"} /\ Paired(transcript)
      /\ \A s \in Sessions : savedSessions[s] # None => Paired(savedSessions[s].transcript)
      /\ \A s \in Sessions : snapshots[s] # None => Paired(snapshots[s].transcript)
  <2>1. pc[t] \in {"prepare", "compacting"}
    BY DEF Prepare, PreparePrompt, PrepareLocal, PrepareRaises, Rewind, Resume, CompactStart,
           CompactRefused, CompactFinish, Rollback
  <2> QED BY <2>1 DEF PairedAt, InCall, InLoop
<1>2. SUFFICES /\ pc'[t] \in {"begin", "compacting", "complete"} /\ Paired(transcript')
               /\ pc'[t] = "compacting" => Paired(local'[t].sent)
               /\ \A s \in Sessions : savedSessions'[s] # None => Paired(savedSessions'[s].transcript)
               /\ \A s \in Sessions : snapshots'[s] # None => Paired(snapshots'[s].transcript)
  BY DEF PairedAt, InCall
<1>3. CASE PreparePrompt(t) \/ PrepareLocal(t) \/ PrepareRaises(t)
  <2>1. pc'[t] \in {"begin", "complete"}
    BY <1>0, <1>3, WhereTo DEF PreparePrompt, PrepareLocal, PrepareRaises, AnswerLocally
  <2>2. transcript' = transcript /\ savedSessions' = savedSessions /\ snapshots' = snapshots
    BY <1>3 DEF PreparePrompt, PrepareLocal, PrepareRaises, conversation
  <2> QED BY <1>1, <2>1, <2>2
<1>4. CASE Rewind(t)
  BY <1>0, <1>4 DEF Rewind, KeepsPairs, RunningInv, Before
<1>5. CASE Resume(t)
  <2>1. pc'[t] = "complete" /\ savedSessions' = savedSessions /\ snapshots' = snapshots
    BY <1>0, <1>5, WhereTo DEF Resume, AnswerLocally
  <2>2. \/ transcript' = transcript
        \/ \E s \in Sessions : savedSessions[s] # None /\ transcript' = savedSessions[s].transcript
    BY <1>5 DEF Resume
  <2> QED BY <1>1, <2>1, <2>2
<1>6. CASE CompactStart(t)
  <2>1. transcript' = transcript /\ savedSessions' = savedSessions
    BY <1>6 DEF CompactStart
  <2>2. CASE Len(transcript) < 2
    <3>1. pc'[t] = "complete" /\ snapshots' = snapshots
      BY <1>0, <1>6, <2>2, WhereTo DEF CompactStart, AnswerLocally
    <3> QED BY <1>1, <2>1, <3>1
  <2>3. CASE ~(Len(transcript) < 2)
    <3>1. /\ pc'[t] = "compacting" /\ local'[t] = [local[t] EXCEPT !.sent = transcript]
          /\ snapshots' = [snapshots EXCEPT ![local[t].session] =
                              [transcript |-> transcript, turnCount |-> turnCount]]
      BY <1>0, <1>6, <2>3, WhereTo DEF CompactStart
    <3>2. local'[t].sent = transcript
      BY <1>0, <3>1 DEF Locals
    <3>3. \A s \in Sessions :
              \/ snapshots'[s] = snapshots[s]
              \/ snapshots'[s] = [transcript |-> transcript, turnCount |-> turnCount]
      BY <1>0, <3>1 DEF TypeOK
    <3>4. ASSUME NEW s \in Sessions, snapshots'[s] # None PROVE Paired(snapshots'[s].transcript)
      <4>1. CASE snapshots'[s] = snapshots[s]
        BY <1>1, <3>4, <4>1
      <4>2. CASE snapshots'[s] = [transcript |-> transcript, turnCount |-> turnCount]
        <5>1. snapshots'[s].transcript = transcript
          BY <4>2
        <5> QED BY <1>1, <5>1
      <4> QED BY <3>3, <4>1, <4>2
    <3> QED BY <1>1, <2>1, <3>1, <3>2, <3>4
  <2> QED BY <2>2, <2>3
<1>7. CASE CompactRefused(t)
  <2>1. /\ pc'[t] = "complete" /\ transcript' = transcript /\ savedSessions' = savedSessions
        /\ snapshots' = [snapshots EXCEPT ![local[t].session] = None]
    BY <1>0, <1>7, WhereTo DEF CompactRefused, AnswerLocally
  <2>2. \A s \in Sessions : snapshots'[s] \in {snapshots[s], None}
    BY <1>0, <2>1 DEF TypeOK
  <2>3. \A s \in Sessions : snapshots'[s] # None => Paired(snapshots'[s].transcript)
    BY <1>1, <2>2
  <2> QED BY <1>1, <2>1, <2>3
<1>8. CASE CompactFinish(t)
  <2>1. PICK i \in RoundStarts(local[t].sent), summarised \in BOOLEAN :
            ReplaceTranscript(Compacted(local[t].sent, i, summarised))
    BY <1>8 DEF CompactFinish
  <2> DEFINE after == Compacted(local[t].sent, i, summarised)
  <2>2. local[t].sent \in Transcripts /\ Paired(local[t].sent)
    BY <1>0, <1>8 DEF Locals, PairedAt, CompactFinish
  <2>3. after \in Transcripts /\ Paired(after)
    BY <1>0, <2>2, CompactedType, PairedCompacted
  <2>4. pc'[t] = "complete" /\ snapshots' = snapshots
    BY <1>0, <1>8, WhereTo DEF CompactFinish, AnswerLocally
  <2>5. transcript' = after /\ savedSessions' = SavedWith(sessionId, after, turnCount)
    BY <2>1 DEF ReplaceTranscript
  <2> HIDE DEF after
  <2>6. \A s \in Sessions : savedSessions'[s] # None => Paired(savedSessions'[s].transcript)
    BY <1>0, <1>1, <2>3, <2>5, SavedPaired
  <2> QED BY <1>1, <2>3, <2>4, <2>5, <2>6
<1>9. CASE Rollback(t)
  <2> DEFINE saved == SnapshotOf(local[t].session)
  <2>1. pc'[t] = "complete"
    BY <1>0, <1>9, WhereTo DEF Rollback, AnswerLocally
  <2>2. CASE saved = None
    <3>1. transcript' = transcript /\ savedSessions' = savedSessions /\ snapshots' = snapshots
      BY <1>9, <2>2 DEF Rollback
    <3> QED BY <1>1, <2>1, <3>1
  <2>3. CASE saved # None
    <3>1. /\ ReplaceTranscript(saved.transcript)
          /\ snapshots' = [snapshots EXCEPT ![local[t].session] = None]
      BY <1>9, <2>3 DEF Rollback
    <3>2. local[t].session \in Sessions /\ saved = snapshots[local[t].session]
      BY <1>0, <2>3 DEF SnapshotOf, RunningInv
    <3>3. saved \in Saved
      BY <1>0, <2>3, <3>2 DEF TypeOK
    <3>4. saved.transcript \in Transcripts /\ Paired(saved.transcript)
      BY <1>1, <2>3, <3>2, <3>3 DEF Saved
    <3> HIDE DEF saved
    <3> DEFINE after == saved.transcript
    <3>5. transcript' = after /\ savedSessions' = SavedWith(sessionId, after, turnCount)
      BY <3>1 DEF ReplaceTranscript
    <3>6. after \in Transcripts /\ Paired(after)
      BY <3>4
    <3> HIDE DEF after
    <3>7. \A s \in Sessions : savedSessions'[s] # None => Paired(savedSessions'[s].transcript)
      BY <1>0, <1>1, <3>5, <3>6, SavedPaired
    <3>8. \A s \in Sessions : snapshots'[s] \in {snapshots[s], None}
      BY <1>0, <3>1 DEF TypeOK
    <3>9. \A s \in Sessions : snapshots'[s] # None => Paired(snapshots'[s].transcript)
      BY <1>1, <3>8
    <3> QED BY <2>1, <3>5, <3>6, <3>7, <3>9
  <2> QED BY <2>2, <2>3
<1> QED BY <1>3, <1>4, <1>5, <1>6, <1>7, <1>8, <1>9 DEF Prepare

(* Inside the loop the saved copy of the conversation may be behind.           *)
LEMMA LoopKeepsPairs ==
    ASSUME NEW t \in Turns, PairedAt(t), sessionId' = sessionId, snapshots' = snapshots,
           pc[t] \in InLoop \/ savedSessions' = savedSessions,
           pc'[t] \in InLoop \cup {"complete"},
           \A s \in Sessions : s # sessionId => savedSessions'[s] = savedSessions[s],
           pc'[t] \notin InCall => Paired(transcript'),
           pc'[t] \in InCall => OpenAt(transcript', local'[t].openUse)
    PROVE  PairedAt(t)'
<1>1. pc'[t] # "compacting"
  BY DEF InLoop
<1>2. \A s \in Sessions :
          savedSessions'[s] # None /\ (s = sessionId' => pc'[t] \notin InLoop \cup {"complete"})
              => Paired(savedSessions'[s].transcript)
  BY DEF PairedAt
<1> QED BY <1>1, <1>2 DEF PairedAt

LEMMA QueryKeepsPairs ==
    ASSUME HostInv, NEW t \in Turns, PairedAt(t), Query(t)
    PROVE  PairedAt(t)'
<1>0. TypeOK /\ sessionId # None
  BY RunsOn DEF HostInv, EngineInv, TurnStep, RunningInv
<1>1. pc[t] \in {"begin", "backend"} /\ pc'[t] \in {"backend", "complete", "answer", "blocked", "tools"}
  <2>1. FailTurn(t) => pc'[t] = "complete"
    BY <1>0, WhereTo DEF FailTurn
  <2> QED BY <1>0, <2>1, WhereTo DEF Query, BeginTurn, BackendFails, BackendRaises, BackendAnswers,
                                     BackendCallsTools, LoopGuardStops
<1>2. /\ sessionId' = sessionId /\ transcript' = transcript
      /\ savedSessions' = savedSessions /\ snapshots' = snapshots
  BY <1>0 DEF Query, BeginTurn, EnsureSession, BackendFails, BackendRaises, BackendAnswers,
              BackendCallsTools, LoopGuardStops, FailTurn, conversation
<1>3. Paired(transcript) /\ pc'[t] \notin InCall /\ pc'[t] \in InLoop \cup {"complete"}
  BY <1>1 DEF PairedAt, InCall, InLoop
<1> QED BY <1>2, <1>3, LoopKeepsPairs

LEMMA CallKeepsPairs ==
    ASSUME KeepsPairs, HostInv, NEW t \in Turns, PairedAt(t), CallTools(t) \/ Permit(t)
    PROVE  PairedAt(t)'
<1>0. /\ TypeOK /\ sessionId \in Sessions /\ transcript \in Transcripts /\ local[t] \in Locals
  BY RunsOn DEF HostInv, EngineInv, TurnStep, RunningInv, TypeOK
<1>1. pc[t] \in InLoop /\ sessionId' = sessionId /\ snapshots' = snapshots
  BY DEF CallTools, Permit, StartCall, InterruptedBeforeCall, FinishCall, CrashCall, NextRound,
         BudgetExceeded, RoundFails, RoundDone, AllowCall, DenyCall, FailTurn, conversation, InLoop
<1>2. \A s \in Sessions : s # sessionId => savedSessions'[s] = savedSessions[s]
  <2>1. CASE FinishCall(t) /\ Head(local[t].calls) = SnipTool
    <3>1. savedSessions' = SavedWith(sessionId, transcript, turnCount)
      BY <2>1 DEF FinishCall
    <3> QED BY <1>0, <3>1, SavedUnder
  <2>2. CASE ~(FinishCall(t) /\ Head(local[t].calls) = SnipTool)
    <3>1. savedSessions' = savedSessions
      BY <2>2 DEF CallTools, Permit, StartCall, InterruptedBeforeCall, FinishCall, CrashCall, NextRound,
         BudgetExceeded, RoundFails, AllowCall, DenyCall, FailTurn, conversation
    <3> QED BY <3>1
  <2> QED BY <2>1, <2>2
<1>3. SUFFICES /\ pc'[t] \in InLoop \cup {"complete"}
               /\ pc'[t] \notin InCall => Paired(transcript')
               /\ pc'[t] \in InCall => OpenAt(transcript', local'[t].openUse)
  BY <1>1, <1>2, LoopKeepsPairs
<1>4. CASE StartCall(t)
  <2>1. pc'[t] = "permission" /\ local'[t] = [local[t] EXCEPT !.openUse = nextId]
    BY <1>0, <1>4, WhereTo DEF StartCall
  <2>2. local'[t].openUse = nextId
    BY <1>0, <2>1 DEF Locals
  <2>3. transcript' = Append(transcript, NewEntry("use", nextId, 0)) /\ Paired(transcript)
    BY <1>4 DEF StartCall, AppendEntry, PairedAt, InCall
  <2>4. OpenAt(transcript', local'[t].openUse)
    BY <1>0, <2>2, <2>3 DEF OpenAt
  <2> QED BY <2>1, <2>4 DEF InCall, InLoop
<1>5. CASE FinishCall(t) \/ DenyCall(t)
  <2>1. pc'[t] = "tools" /\ pc[t] \in InCall
    BY <1>0, <1>5, WhereTo DEF FinishCall, DenyCall, NextCall, InCall
  <2>2. transcript' = Append(transcript, NewEntry("result", nextId, local[t].openUse))
    BY <1>5 DEF FinishCall, DenyCall, AppendEntry
  <2>3. OpenAt(transcript, local[t].openUse)
    BY <2>1 DEF PairedAt
  <2>4. Paired(transcript')
    BY <2>2, <2>3, PairedAnswer
  <2> QED BY <2>1, <2>4 DEF InCall, InLoop
<1>6. CASE AllowCall(t)
  <2>1. /\ pc'[t] = "executing" /\ pc[t] \in InCall
        /\ transcript' = transcript /\ local'[t] = local[t]
    BY <1>0, <1>6, WhereTo DEF AllowCall, conversation, InCall
  <2> QED BY <2>1 DEF PairedAt, InCall, InLoop
<1>7. CASE InterruptedBeforeCall(t) \/ RoundFails(t) \/ NextRound(t) \/ BudgetExceeded(t)
  <2>1. /\ pc[t] = "tools" /\ pc'[t] \in {"complete", "backend", "answer"}
        /\ transcript' = transcript
    BY <1>0, <1>7, WhereTo DEF InterruptedBeforeCall, RoundFails, NextRound, BudgetExceeded, RoundDone,
       FailTurn, conversation
  <2> QED BY <2>1 DEF PairedAt, InCall, InLoop
<1>8. CASE CrashCall(t)
  BY <1>8 DEF CrashCall, KeepsPairs
<1> QED BY <1>4, <1>5, <1>6, <1>7, <1>8 DEF CallTools, Permit

LEMMA EndKeepsPairs ==
    ASSUME HostInv, NEW t \in Turns, PairedAt(t), EmitAnswer(t) \/ CompleteTurn(t)
    PROVE  PairedAt(t)'
<1>0. TypeOK /\ sessionId \in Sessions /\ transcript \in Transcripts /\ turnCount \in Nat
  BY RunsOn DEF HostInv, EngineInv, TurnStep, RunningInv, TypeOK
<1>1. CASE EmitAnswer(t)
  <2>1. /\ pc[t] \in {"answer", "blocked"} /\ pc'[t] = "complete"
        /\ sessionId' = sessionId /\ snapshots' = snapshots /\ savedSessions' = savedSessions
        /\ transcript' = Append(transcript, NewEntry("assistant", nextId, 0))
    BY <1>0, <1>1, WhereTo DEF EmitAnswer, AppendEntry
  <2>2. Paired(transcript)
    BY <2>1 DEF PairedAt, InCall
  <2>3. Paired(transcript')
    BY <1>0, <2>1, <2>2, PairedAppend
  <2> QED BY <2>1, <2>3, LoopKeepsPairs DEF InCall
<1>2. CASE CompleteTurn(t)
  <2>1. /\ pc[t] = "complete" /\ pc'[t] = "done" /\ snapshots' = snapshots
        /\ savedSessions' = SavedWith(sessionId, transcript, turnCount)
        /\ transcript' \in {transcript, <<>>}
    BY <1>0, <1>2, WhereTo DEF CompleteTurn
  <2>2. /\ Paired(transcript)
        /\ \A s \in Sessions : savedSessions[s] # None /\ s # sessionId => Paired(savedSessions[s].transcript)
    BY <2>1 DEF PairedAt, InCall
  <2>3. \A s \in Sessions : savedSessions'[s] # None => Paired(savedSessions'[s].transcript)
    BY <1>0, <2>1, <2>2, SavedPaired
  <2>4. Paired(<<>>)
    BY DEF Paired
  <2> QED BY <2>1, <2>2, <2>3, <2>4 DEF PairedAt, InCall
<1> QED BY <1>1, <1>2

LEMMA ReadKeepsPairs ==
    ASSUME HostInv, NEW t \in Turns, PairedAt(t), ReadMessage(t)
    PROVE  PairedAt(t)'
<1>0. TypeOK /\ transcript \in Transcripts
  BY DEF HostInv, EngineInv, TypeOK
<1>1. /\ pc[t] = "new" /\ pc'[t] = "prepare"
      /\ snapshots' = snapshots /\ savedSessions' = savedSessions
      /\ transcript' = Append(transcript, NewEntry("user", nextId, 0))
  BY <1>0, WhereTo DEF ReadMessage, HandleUserMessage, AppendEntry
<1>2. Paired(transcript) /\ \A s \in Sessions : savedSessions[s] # None => Paired(savedSessions[s].transcript)
  BY <1>1 DEF PairedAt, InCall, InLoop
<1>3. Paired(transcript')
  BY <1>0, <1>1, <1>2, PairedAppend
<1> QED BY <1>1, <1>2, <1>3 DEF PairedAt, InCall

LEMMA PairStep ==
    ASSUME KeepsPairs, HostInv, PairInv, [SequentialNext]_vars
    PROVE  PairInv'
<1>1. ASSUME NEW t \in Turns, ReadMessage(t) \/ TurnStep(t) PROVE PairInv'
  <2>1. \A u \in Turns : u # t => ~Running(u) /\ ~Running(u)'
    BY <1>1, Alone
  <2>2. PairedAt(t)
    BY <2>1, SeenFrom
  <2>3. PairedAt(t)'
    BY <1>1, <2>2, ReadKeepsPairs, PrepareKeepsPairs, QueryKeepsPairs, CallKeepsPairs, EndKeepsPairs
       DEF TurnStep
  <2> QED BY <2>1, <2>3, SeenFromNext
<1>2. CASE ReadInterrupt \/ UNCHANGED vars
  <2>1. /\ sessionId' = sessionId /\ transcript' = transcript /\ savedSessions' = savedSessions
        /\ snapshots' = snapshots /\ pc' = pc /\ local' = local
    BY <1>2 DEF ReadInterrupt, Interrupt, vars, conversation
  <2> QED BY <2>1 DEF PairInv, OpenAt
<1> QED BY <1>1, <1>2 DEF SequentialNext

LEMMA PairStart == Init => PairInv
<1> SUFFICES ASSUME Init PROVE PairInv
  OBVIOUS
<1>1. transcript = <<>> /\ Paired(<<>>)
  BY DEF Init, Paired
<1>2. \A t \in Turns : pc[t] = "new"
  BY DEF Init
<1>3. \A s \in Sessions : snapshots[s] = None /\ savedSessions[s] = None
  BY DEF Init
<1> QED BY <1>1, <1>2, <1>3 DEF PairInv, InCall

(* Unless the user cuts the history with /rewind or a tool crashes, the model is *)
(* never sent a tool use without its result next to it, in any conversation: not *)
(* after denials, interrupts, compaction, its rollback, /resume or /clear.       *)
THEOREM RequestsArePaired == KeepsPairs => (SequentialSpec => []RequestPaired)
<1> SUFFICES ASSUME KeepsPairs PROVE SequentialSpec => []RequestPaired
  OBVIOUS
<1>1. HostInv /\ PairInv /\ [SequentialNext]_vars => (HostInv /\ PairInv)'
  BY HostStep, PairStep
<1>2. ASSUME HostInv, PairInv PROVE RequestPaired
  <2>1. SUFFICES ASSUME NEW t \in Turns, pc[t] = "backend" PROVE Paired(local[t].sent)
    BY DEF RequestPaired
  <2>2. Running(t) /\ local[t].sent = transcript
    BY <1>2, <2>1 DEF Running, HostInv, RunningInv
  <2>3. \A u \in Turns : pc[u] \notin InCall
    BY <1>2, <2>1, <2>2 DEF HostInv, OneTurn, Running, InCall
  <2> QED BY <1>2, <2>2, <2>3 DEF PairInv
<1> QED BY <1>1, <1>2, HostStart, PairStart, PTL DEF SequentialSpec
=============================================================================
