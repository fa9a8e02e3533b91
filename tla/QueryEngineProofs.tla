--------------------------- MODULE QueryEngineProofs ---------------------------
(* What is proved about QueryEngine for every set of turns, sessions and       *)
(* tools, every answer of the model and every interleaving.                    *)
EXTENDS QueryEngine, SequenceTheorems, TLAPS

USE TurnsAssumption, SessionsAssumption, ResponsesAssumption, CapAssumption, FlagsAssumption

LEMMA EntryType ==
    ASSUME NEW kind \in Kinds, NEW id \in Nat, NEW ref \in Nat
    PROVE  NewEntry(kind, id, ref) \in Entry
BY DEF NewEntry, Entry

LEMMA AppendEntryType ==
    ASSUME TypeOK, NEW kind \in Kinds, NEW ref \in Nat, AppendEntry(kind, ref)
    PROVE  transcript' \in Transcripts /\ nextId' \in Nat
BY EntryType DEF AppendEntry, TypeOK, Transcripts

LEMMA EnsureSessionType ==
    ASSUME TypeOK, NEW candidates \in SUBSET Sessions, EnsureSession(candidates)
    PROVE  sessionId' \in Sessions /\ usedSessions' \subseteq Sessions
BY DEF EnsureSession, TypeOK

LEMMA SavedWithType ==
    ASSUME TypeOK, NEW s \in Sessions \cup {None}, NEW entries \in Transcripts, NEW count \in Nat
    PROVE  SavedWith(s, entries, count) \in [Sessions -> Saved \cup {None}]
BY DEF SavedWith, TypeOK, Saved

LEMMA RefreshedStateType ==
    ASSUME TypeOK, NEW entries \in Transcripts
    PROVE  RefreshedState(entries) \in ActiveStates \cup {None}
BY DEF RefreshedState, TypeOK, ActiveStates

LEMMA GoType ==
    ASSUME TypeOK, NEW t \in Turns, NEW place \in Places, Go(t, place)
    PROVE  pc' \in [Turns -> Places]
BY DEF Go, TypeOK

LEMMA EmitType ==
    ASSUME TypeOK, NEW t \in Turns, NEW messages \in Seq(Messages), Emit(t, messages)
    PROVE  emitted' \in [Turns -> Seq(Messages)]
BY DEF Emit, TypeOK

LEMMA SetLocalType ==
    ASSUME TypeOK, NEW t \in Turns, NEW l \in Locals, SetLocal(t, l)
    PROVE  local' \in [Turns -> Locals]
BY DEF SetLocal, TypeOK

\* Replacing fields of a turn's locals by values of their types.
LEMMA LocalsWith ==
    ASSUME NEW l \in Locals
    PROVE  /\ \A kind \in Inputs, s \in Sessions :
                  [l EXCEPT !.input = kind, !.session = s] \in Locals
           /\ \A b \in BOOLEAN : [l EXCEPT !.reset = b] \in Locals
           /\ \A entries \in Transcripts : [l EXCEPT !.sent = entries] \in Locals
           /\ \A b \in BOOLEAN, entries \in Transcripts :
                  [l EXCEPT !.previous = b, !.sent = entries] \in Locals
           /\ \A response \in Responses, n \in Nat :
                  [l EXCEPT !.signature = response, !.streak = n, !.calls = response] \in Locals
           /\ \A n \in Nat : [l EXCEPT !.openUse = n] \in Locals
           /\ l.calls # <<>> => [l EXCEPT !.calls = Tail(@), !.openUse = 0] \in Locals
<1>1. \A kind \in Inputs, s \in Sessions : [l EXCEPT !.input = kind, !.session = s] \in Locals
  BY DEF Locals
<1>2. \A b \in BOOLEAN : [l EXCEPT !.reset = b] \in Locals
  BY DEF Locals
<1>3. \A entries \in Transcripts : [l EXCEPT !.sent = entries] \in Locals
  BY DEF Locals
<1>4. \A b \in BOOLEAN, entries \in Transcripts :
          [l EXCEPT !.previous = b, !.sent = entries] \in Locals
  BY DEF Locals
<1>5. \A response \in Responses, n \in Nat :
          [l EXCEPT !.signature = response, !.streak = n, !.calls = response] \in Locals
  BY DEF Locals
<1>6. \A n \in Nat : [l EXCEPT !.openUse = n] \in Locals
  BY DEF Locals
<1>7. l.calls # <<>> => [l EXCEPT !.calls = Tail(@), !.openUse = 0] \in Locals
  <2>1. l.calls # <<>> => Tail(l.calls) \in Seq(Tools)
    BY DEF Locals
  <2> QED BY <2>1 DEF Locals
<1> QED BY <1>1, <1>2, <1>3, <1>4, <1>5, <1>6, <1>7

LEMMA NoLocalsType == NoLocals \in Locals
<1>1. <<>> \in Seq(Tools) /\ <<>> \in Transcripts
  BY DEF Transcripts
<1> QED BY <1>1 DEF NoLocals, Locals

LEMMA InitType == Init => TypeOK
<1> SUFFICES ASSUME Init PROVE TypeOK
  OBVIOUS
<1>1. local \in [Turns -> Locals]
  BY NoLocalsType DEF Init
<1>2. transcript \in Transcripts
  BY DEF Init, Transcripts
<1>3. /\ rounds \in [Turns -> Seq(Responses)]
      /\ emitted \in [Turns -> Seq(Messages)]
      /\ disk \in [Sessions -> Seq(Nat)]
  BY DEF Init
<1> QED BY <1>1, <1>2, <1>3 DEF Init, TypeOK, Places

LEMMA CurrentContextType ==
    ASSUME transcript' \in Transcripts, activeState' \in ActiveStates \cup {None}
    PROVE  CurrentContext' \in Transcripts
BY DEF CurrentContext, ActiveStates

LEMMA SliceType ==
    ASSUME NEW entries \in Transcripts, NEW m \in Nat \ {0}, NEW n \in 0..Len(entries)
    PROVE  SubSeq(entries, m, n) \in Transcripts
BY DEF Transcripts

LEMMA FailTurnType ==
    ASSUME TypeOK, NEW t \in Turns, FailTurn(t)
    PROVE  TypeOK'
<1>1. local[t] \in Locals
  BY DEF TypeOK
<1>2. inProgress' \in BOOLEAN /\ activeState' = None
  BY <1>1 DEF FailTurn, LeaveLoop, Locals
<1>3. emitted' \in [Turns -> Seq(Messages)]
  <2>1. <<"error">> \in Seq(Messages)
    BY DEF Messages
  <2> QED BY <2>1, EmitType DEF FailTurn
<1>4. pc' \in [Turns -> Places]
  BY GoType DEF FailTurn, Places
<1> QED BY <1>2, <1>3, <1>4 DEF FailTurn, TypeOK, conversation

LEMMA AnswerLocallyType ==
    ASSUME TypeOK, NEW t \in Turns, AnswerLocally(t)
    PROVE  pc' \in [Turns -> Places] /\ emitted' \in [Turns -> Seq(Messages)]
<1>1. "complete" \in Places /\ <<"running", "result">> \in Seq(Messages)
  BY DEF Places, Messages
<1> QED BY <1>1, GoType, EmitType DEF AnswerLocally

LEMMA HandleUserMessageType ==
    ASSUME TypeOK, NEW t \in Turns, HandleUserMessage(t)
    PROVE  TypeOK'
<1>1. sessionId' \in Sessions /\ usedSessions' \subseteq Sessions
  BY EnsureSessionType DEF HandleUserMessage
<1>2. transcript' \in Transcripts /\ nextId' \in Nat
  BY AppendEntryType DEF HandleUserMessage, Kinds
<1>3. pc' \in [Turns -> Places]
  BY GoType DEF HandleUserMessage, Places
<1>4. local' \in [Turns -> Locals]
  <2>1. PICK kind \in Inputs :
            SetLocal(t, [local[t] EXCEPT !.input = kind, !.session = sessionId'])
    BY DEF HandleUserMessage
  <2>2. [local[t] EXCEPT !.input = kind, !.session = sessionId'] \in Locals
    BY <1>1, LocalsWith DEF TypeOK
  <2> QED BY <2>1, <2>2, SetLocalType
<1> QED BY <1>1, <1>2, <1>3, <1>4 DEF HandleUserMessage, TypeOK

LEMMA ReplaceTranscriptType ==
    ASSUME TypeOK, NEW entries \in Transcripts, ReplaceTranscript(entries)
    PROVE  /\ transcript' \in Transcripts
           /\ persistedCount' \in Nat
           /\ activeState' \in ActiveStates \cup {None}
           /\ savedSessions' \in [Sessions -> Saved \cup {None}]
<1>1. sessionId \in Sessions \cup {None} /\ turnCount \in Nat
  BY DEF TypeOK
<1> QED BY <1>1, RefreshedStateType, SavedWithType DEF ReplaceTranscript

LEMMA CompactedType ==
    ASSUME TypeOK, NEW entries \in Transcripts, NEW i \in RoundStarts(entries),
           NEW summarised \in BOOLEAN
    PROVE  Compacted(entries, i, summarised) \in Transcripts
<1> DEFINE boundary == <<NewEntry("boundary", nextId, 0)>>
           summary == IF summarised THEN <<NewEntry("summary", nextId + 1, 0)>> ELSE <<>>
           kept == SubSeq(entries, i, Len(entries))
<1>1. nextId \in Nat /\ nextId + 1 \in Nat
  BY DEF TypeOK
<1>2. /\ NewEntry("boundary", nextId, 0) \in Entry
      /\ NewEntry("summary", nextId + 1, 0) \in Entry
  BY <1>1, EntryType DEF Kinds
<1>3. boundary \in Seq(Entry) /\ summary \in Seq(Entry)
  BY <1>2
<1>4. kept \in Seq(Entry)
  BY SliceType DEF Transcripts, RoundStarts
<1> HIDE DEF boundary, summary, kept
<1>5. boundary \o summary \o kept \in Seq(Entry)
  BY <1>3, <1>4
<1> QED BY <1>5 DEF Compacted, Transcripts, boundary, summary, kept

LEMMA PrepareType ==
    ASSUME TypeOK, NEW t \in Turns, Prepare(t)
    PROVE  TypeOK'
<1>0. /\ {"begin", "compacting", "complete"} \subseteq Places
      /\ <<"running", "error">> \in Seq(Messages)
  BY DEF Places, Messages
<1>1. CASE PreparePrompt(t)
  BY <1>0, <1>1, GoType DEF PreparePrompt, TypeOK, conversation, flags
<1>2. CASE PrepareLocal(t)
  <2>1. local' \in [Turns -> Locals]
    <3>1. [local[t] EXCEPT !.reset = (local[t].input = "clear")] \in Locals
      <4>1. local[t] \in Locals /\ (local[t].input = "clear") \in BOOLEAN
        BY DEF TypeOK
      <4> QED BY <4>1, LocalsWith
    <3> QED BY <1>2, <3>1, SetLocalType DEF PrepareLocal
  <2> QED BY <1>2, <2>1, AnswerLocallyType DEF PrepareLocal, TypeOK, conversation, flags
<1>3. CASE PrepareRaises(t)
  BY <1>0, <1>3, GoType, EmitType DEF PrepareRaises, TypeOK, conversation, flags
<1>4. CASE Rewind(t)
  <2>1. PICK count \in 1..Len(transcript) :
            IF count >= Len(transcript)
            THEN UNCHANGED <<transcript, savedSessions, activeState>>
            ELSE LET kept == SubSeq(transcript, 1, Len(transcript) - count) IN
                 /\ transcript' = kept
                 /\ activeState' = RefreshedState(kept)
                 /\ savedSessions' = SavedWith(sessionId, kept, turnCount)
    BY <1>4 DEF Rewind
  <2>2. Len(transcript) \in Nat
    BY DEF TypeOK, Transcripts
  <2>3. /\ transcript' \in Transcripts
        /\ activeState' \in ActiveStates \cup {None}
        /\ savedSessions' \in [Sessions -> Saved \cup {None}]
    <3>1. CASE count >= Len(transcript)
      BY <2>1, <3>1 DEF TypeOK
    <3>2. CASE ~(count >= Len(transcript))
      <4> DEFINE kept == SubSeq(transcript, 1, Len(transcript) - count)
      <4>1. kept \in Transcripts
        BY <2>2, <3>2, SliceType DEF TypeOK
      <4>2. /\ transcript' = kept
            /\ activeState' = RefreshedState(kept)
            /\ savedSessions' = SavedWith(sessionId, kept, turnCount)
        BY <2>1, <3>2
      <4>3. sessionId \in Sessions \cup {None} /\ turnCount \in Nat
        BY DEF TypeOK
      <4> HIDE DEF kept
      <4> QED BY <4>1, <4>2, <4>3, RefreshedStateType, SavedWithType
    <3> QED BY <3>1, <3>2
  <2> QED BY <1>4, <2>3, AnswerLocallyType DEF Rewind, TypeOK
<1>5. CASE Resume(t)
  <2>1. sessionId' \in Sessions \cup {None} /\ transcript' \in Transcripts /\ turnCount' \in Nat
    BY <1>5 DEF Resume, TypeOK, Saved
  <2> QED BY <1>5, <2>1, AnswerLocallyType DEF Resume, TypeOK, flags
<1>6. CASE CompactStart(t)
  <2>1. CASE Len(transcript) < 2
    BY <1>6, <2>1, AnswerLocallyType DEF CompactStart, TypeOK, flags
  <2>2. CASE ~(Len(transcript) < 2)
    <3>1. snapshots' \in [Sessions -> Saved \cup {None}]
      <4>1. [transcript |-> transcript, turnCount |-> turnCount] \in Saved
        BY DEF TypeOK, Saved
      <4> QED BY <1>6, <2>2, <4>1 DEF CompactStart, TypeOK
    <3>2. local' \in [Turns -> Locals]
      <4>1. [local[t] EXCEPT !.sent = transcript] \in Locals
        BY LocalsWith DEF TypeOK
      <4> QED BY <1>6, <2>2, <4>1, SetLocalType DEF CompactStart
    <3>3. pc' \in [Turns -> Places]
      BY <1>0, <1>6, <2>2, GoType DEF CompactStart
    <3>4. /\ UNCHANGED <<sessionId, transcript, turnCount, savedSessions, persistedCount>>
          /\ UNCHANGED <<inProgress, activeState, activeMessage, cancelled, interruptEvent>>
          /\ UNCHANGED <<rounds, emitted, disk, usedSessions, nextId>>
      BY <1>6, <2>2 DEF CompactStart, flags
    <3> QED BY <3>1, <3>2, <3>3, <3>4 DEF TypeOK
  <2> QED BY <2>1, <2>2
<1>7. CASE CompactRefused(t)
  <2>1. snapshots' \in [Sessions -> Saved \cup {None}]
    BY <1>7 DEF CompactRefused, TypeOK
  <2> QED BY <1>7, <2>1, AnswerLocallyType DEF CompactRefused, TypeOK, flags
<1>8. CASE CompactFinish(t)
  <2>1. PICK i \in RoundStarts(local[t].sent), summarised \in BOOLEAN :
            ReplaceTranscript(Compacted(local[t].sent, i, summarised))
    BY <1>8 DEF CompactFinish
  <2>2. local[t].sent \in Transcripts
    BY DEF TypeOK, Locals
  <2>3. Compacted(local[t].sent, i, summarised) \in Transcripts
    BY <2>2, CompactedType
  <2>4. /\ transcript' \in Transcripts
        /\ persistedCount' \in Nat
        /\ activeState' \in ActiveStates \cup {None}
        /\ savedSessions' \in [Sessions -> Saved \cup {None}]
    BY <2>1, <2>3, ReplaceTranscriptType
  <2> QED BY <1>8, <2>4, AnswerLocallyType DEF CompactFinish, TypeOK
<1>9. CASE Rollback(t)
  <2> DEFINE saved == SnapshotOf(local[t].session)
  <2>1. CASE saved = None
    BY <1>9, <2>1, AnswerLocallyType DEF Rollback, TypeOK
  <2>2. CASE saved # None
    <3>1. /\ ReplaceTranscript(saved.transcript)
          /\ turnCount' = saved.turnCount
          /\ snapshots' = [snapshots EXCEPT ![local[t].session] = None]
      BY <1>9, <2>2 DEF Rollback
    <3>2. saved \in Saved
      BY <2>2 DEF SnapshotOf, TypeOK, Locals
    <3>3. saved.transcript \in Transcripts /\ turnCount' \in Nat
      BY <3>1, <3>2 DEF Saved
    <3>4. snapshots' \in [Sessions -> Saved \cup {None}]
      BY <3>1 DEF TypeOK
    <3> QED BY <1>9, <3>1, <3>3, <3>4, ReplaceTranscriptType, AnswerLocallyType
            DEF Rollback, TypeOK
  <2> QED BY <2>1, <2>2
<1> QED BY <1>1, <1>2, <1>3, <1>4, <1>5, <1>6, <1>7, <1>8, <1>9 DEF Prepare

\* The steps of the turn loop around the model call.
LEMMA QueryType ==
    ASSUME TypeOK, NEW t \in Turns, Query(t)
    PROVE  TypeOK'
<1>0. /\ {"backend", "answer", "blocked", "tools", "complete"} \subseteq Places
      /\ <<"running">> \in Seq(Messages) /\ <<"running", "error">> \in Seq(Messages)
      /\ local[t] \in Locals /\ local[t].previous \in BOOLEAN /\ local[t].streak \in Nat
  BY DEF Places, Messages, TypeOK, Locals
<1>1. CASE BeginTurn(t)
  <2>1. sessionId' \in Sessions \cup {None} /\ usedSessions' \subseteq Sessions
    BY <1>1, EnsureSessionType DEF BeginTurn
  <2>2. transcript' \in Transcripts /\ activeState' \in ActiveStates \cup {None}
    BY <1>1 DEF BeginTurn, TypeOK, ActiveStates
  <2>3. inProgress \in BOOLEAN /\ inProgress' \in BOOLEAN
    BY <1>1 DEF BeginTurn, TypeOK
  <2>4. local' \in [Turns -> Locals]
    <3>1. [local[t] EXCEPT !.previous = inProgress, !.sent = CurrentContext'] \in Locals
      BY <1>0, <2>2, <2>3, CurrentContextType, LocalsWith
    <3> QED BY <1>1, <3>1, SetLocalType DEF BeginTurn
  <2>5. pc' \in [Turns -> Places] /\ emitted' \in [Turns -> Seq(Messages)]
    BY <1>0, <1>1, GoType, EmitType DEF BeginTurn
  <2> QED BY <1>1, <2>1, <2>2, <2>3, <2>4, <2>5 DEF BeginTurn, TypeOK
<1>2. CASE BackendFails(t)
  BY <1>2, FailTurnType DEF BackendFails
<1>3. CASE BackendRaises(t)
  <2>1. inProgress' \in BOOLEAN /\ activeState' = None
    BY <1>0, <1>3 DEF BackendRaises, LeaveLoop
  <2>2. pc' \in [Turns -> Places] /\ emitted' \in [Turns -> Seq(Messages)]
    BY <1>0, <1>3, GoType, EmitType DEF BackendRaises
  <2> QED BY <1>3, <2>1, <2>2 DEF BackendRaises, TypeOK, conversation
<1>4. CASE BackendAnswers(t)
  BY <1>0, <1>4, GoType DEF BackendAnswers, TypeOK, conversation, flags
<1>5. CASE BackendCallsTools(t)
  <2>1. PICK response \in Responses \ {<<>>} :
            /\ SetLocal(t, [local[t] EXCEPT !.signature = response,
                                             !.streak = NextStreak(local[t], response),
                                             !.calls = response])
            /\ rounds' = [rounds EXCEPT ![t] = Append(@, response)]
    BY <1>5 DEF BackendCallsTools
  <2>2. NextStreak(local[t], response) \in Nat
    BY <1>0 DEF NextStreak
  <2>3. local' \in [Turns -> Locals]
    <3>1. [local[t] EXCEPT !.signature = response,
                           !.streak = NextStreak(local[t], response),
                           !.calls = response] \in Locals
      BY <1>0, <2>2, LocalsWith
    <3> QED BY <2>1, <3>1, SetLocalType
  <2>4. rounds' \in [Turns -> Seq(Responses)]
    BY <2>1 DEF TypeOK
  <2>5. pc' \in [Turns -> Places]
    BY <1>0, <1>5, GoType DEF BackendCallsTools
  <2> QED BY <1>5, <2>3, <2>4, <2>5 DEF BackendCallsTools, TypeOK, conversation, flags
<1>6. CASE LoopGuardStops(t)
  BY <1>6, FailTurnType DEF LoopGuardStops
<1> QED BY <1>1, <1>2, <1>3, <1>4, <1>5, <1>6 DEF Query

\* A call is over and the next one is looked at.
LEMMA NextCallType ==
    ASSUME TypeOK, NEW t \in Turns, local[t].calls # <<>>, NextCall(t)
    PROVE  pc' \in [Turns -> Places] /\ local' \in [Turns -> Locals]
<1>1. local[t] \in Locals /\ "tools" \in Places
  BY DEF TypeOK, Places
<1>2. [local[t] EXCEPT !.calls = Tail(@), !.openUse = 0] \in Locals
  BY <1>1, LocalsWith
<1> QED BY <1>1, <1>2, GoType, SetLocalType DEF NextCall

\* A call that waits for permission or runs is one of the round's calls.
CallOpen(t) == pc[t] \in {"permission", "executing"} => local[t].calls # <<>>

LEMMA CallToolsType ==
    ASSUME TypeOK, NEW t \in Turns, CallOpen(t), CallTools(t) \/ Permit(t)
    PROVE  TypeOK'
<1>0. /\ {"backend", "answer", "blocked", "tools", "permission", "executing"} \subseteq Places
      /\ local[t] \in Locals /\ local[t].openUse \in Nat
      /\ nextId \in Nat
  BY DEF Places, TypeOK, Locals
<1>1. CASE StartCall(t)
  <2>1. transcript' \in Transcripts /\ nextId' \in Nat
    BY <1>1, AppendEntryType DEF StartCall, Kinds
  <2>2. local' \in [Turns -> Locals]
    <3>1. [local[t] EXCEPT !.openUse = nextId] \in Locals
      BY <1>0, LocalsWith
    <3> QED BY <1>1, <3>1, SetLocalType DEF StartCall
  <2>3. pc' \in [Turns -> Places]
    BY <1>0, <1>1, GoType DEF StartCall
  <2> QED BY <1>1, <2>1, <2>2, <2>3 DEF StartCall, TypeOK, flags
<1>2. CASE InterruptedBeforeCall(t)
  BY <1>2, FailTurnType DEF InterruptedBeforeCall
<1>3. CASE FinishCall(t)
  <2>1. transcript' \in Transcripts /\ nextId' \in Nat
    BY <1>0, <1>3, AppendEntryType DEF FinishCall, Kinds
  <2>2. /\ persistedCount' \in Nat
        /\ activeState' \in ActiveStates \cup {None}
        /\ savedSessions' \in [Sessions -> Saved \cup {None}]
    <3>1. CASE Head(local[t].calls) = SnipTool
      <4>1. sessionId \in Sessions \cup {None} /\ transcript \in Transcripts /\ turnCount \in Nat
        BY DEF TypeOK
      <4> QED BY <1>3, <3>1, <4>1, RefreshedStateType, SavedWithType DEF FinishCall
    <3>2. CASE Head(local[t].calls) # SnipTool
      BY <1>3, <3>2 DEF FinishCall, TypeOK
    <3> QED BY <3>1, <3>2
  <2>3. pc' \in [Turns -> Places] /\ local' \in [Turns -> Locals]
    BY <1>3, NextCallType DEF FinishCall, CallOpen
  <2> QED BY <1>3, <2>1, <2>2, <2>3 DEF FinishCall, TypeOK
<1>4. CASE CrashCall(t)
  BY <1>4, FailTurnType DEF CrashCall
<1>5. /\ transcript \in Transcripts
      /\ AdvancedState \in ActiveStates \cup {None}
  BY DEF AdvancedState, TypeOK, ActiveStates
<1>6. CASE NextRound(t)
  <2>1. transcript' \in Transcripts /\ activeState' \in ActiveStates \cup {None}
    BY <1>5, <1>6 DEF NextRound, conversation
  <2>2. local' \in [Turns -> Locals]
    <3>1. [local[t] EXCEPT !.sent = CurrentContext'] \in Locals
      BY <1>0, <2>1, CurrentContextType, LocalsWith
    <3> QED BY <1>6, <3>1, SetLocalType DEF NextRound
  <2>3. pc' \in [Turns -> Places]
    BY <1>0, <1>6, GoType DEF NextRound
  <2> QED BY <1>6, <2>1, <2>2, <2>3 DEF NextRound, TypeOK, conversation
<1>7. CASE BudgetExceeded(t)
  <2>1. pc' \in [Turns -> Places] /\ activeState' \in ActiveStates \cup {None}
    BY <1>0, <1>5, <1>7, GoType DEF BudgetExceeded
  <2> QED BY <1>7, <2>1 DEF BudgetExceeded, TypeOK, conversation
<1>8. CASE RoundFails(t)
  BY <1>8, FailTurnType DEF RoundFails
<1>9. CASE AllowCall(t)
  BY <1>0, <1>9, GoType DEF AllowCall, TypeOK, conversation, flags
<1>10. CASE DenyCall(t)
  <2>1. transcript' \in Transcripts /\ nextId' \in Nat
    BY <1>0, <1>10, AppendEntryType DEF DenyCall, Kinds
  <2>2. pc' \in [Turns -> Places] /\ local' \in [Turns -> Locals]
    BY <1>10, NextCallType DEF DenyCall, CallOpen
  <2> QED BY <1>10, <2>1, <2>2 DEF DenyCall, TypeOK, flags
<1> QED BY <1>1, <1>2, <1>3, <1>4, <1>6, <1>7, <1>8, <1>9, <1>10 DEF CallTools, Permit

LEMMA IdsType ==
    ASSUME NEW entries \in Transcripts
    PROVE  Ids(entries) \in Seq(Nat)
<1>1. Len(entries) \in Nat /\ \A i \in 1..Len(entries) : entries[i].id \in Nat
  <2>1. Len(entries) \in Nat /\ \A i \in 1..Len(entries) : entries[i] \in Entry
    BY DEF Transcripts
  <2>2. \A e \in Entry : e.id \in Nat
    BY DEF Entry
  <2> QED BY <2>1, <2>2
<1>2. Ids(entries) \in [1..Len(entries) -> Nat]
  BY <1>1 DEF Ids
<1> QED BY <1>1, <1>2, SeqDef

LEMMA CompletionType ==
    ASSUME TypeOK, NEW t \in Turns, EmitAnswer(t) \/ CompleteTurn(t)
    PROVE  TypeOK'
<1>0. /\ {"complete", "done"} \subseteq Places
      /\ <<"result">> \in Seq(Messages) /\ <<"idle">> \in Seq(Messages)
      /\ local[t] \in Locals /\ local[t].previous \in BOOLEAN
      /\ sessionId \in Sessions \cup {None} /\ turnCount \in Nat /\ persistedCount \in Nat
      /\ transcript \in Transcripts
  BY DEF Places, Messages, TypeOK, Locals
<1>1. CASE EmitAnswer(t)
  <2>1. transcript' \in Transcripts /\ nextId' \in Nat
    BY <1>1, AppendEntryType DEF EmitAnswer, Kinds
  <2>2. inProgress' \in BOOLEAN /\ activeState' = None
    BY <1>0, <1>1 DEF EmitAnswer, LeaveLoop
  <2>3. pc' \in [Turns -> Places]
    BY <1>0, <1>1, GoType DEF EmitAnswer
  <2>4. <<"error", "result">> \in Seq(Messages)
    BY DEF Messages
  <2>5. PICK messages \in Seq(Messages) : Emit(t, messages)
    BY <1>0, <1>1, <2>4 DEF EmitAnswer
  <2>6. emitted' \in [Turns -> Seq(Messages)]
    BY <2>5, EmitType
  <2> QED BY <1>1, <2>1, <2>2, <2>3, <2>6 DEF EmitAnswer, TypeOK
<1>2. CASE CompleteTurn(t)
  <2>1. PICK written \in BOOLEAN, n \in 0..Len(Unpersisted) :
            /\ WriteEntries(n)
            /\ persistedCount' = IF local[t].reset THEN 0 ELSE CountAfter(written, n)
    BY <1>2 DEF CompleteTurn
  <2>2. Unpersisted \in Transcripts
    BY <1>0 DEF Unpersisted, Transcripts
  <2>3. persistedCount' \in Nat
    BY <1>0, <2>1, <2>2 DEF CountAfter, Transcripts
  <2>4. disk' \in [Sessions -> Seq(Nat)]
    <3> DEFINE lines == Ids(SubSeq(Unpersisted, 1, n))
    <3>1. lines \in Seq(Nat)
      BY <2>2, SliceType, IdsType
    <3>2. disk' = IF sessionId = None THEN disk ELSE [disk EXCEPT ![sessionId] = @ \o lines]
      BY <2>1 DEF WriteEntries
    <3> HIDE DEF lines
    <3> QED BY <1>0, <3>1, <3>2 DEF TypeOK
  <2>5. savedSessions' \in [Sessions -> Saved \cup {None}]
    BY <1>0, <1>2, SavedWithType DEF CompleteTurn
  <2>6. /\ sessionId' \in Sessions \cup {None}
        /\ transcript' \in Transcripts
        /\ turnCount' \in Nat
    <3>1. <<>> \in Transcripts
      BY DEF Transcripts
    <3>2. CASE local[t].reset
      BY <1>0, <1>2, <3>1, <3>2 DEF CompleteTurn
    <3>3. CASE ~local[t].reset
      BY <1>0, <1>2, <3>3 DEF CompleteTurn
    <3> QED BY <3>2, <3>3
  <2>7. pc' \in [Turns -> Places] /\ emitted' \in [Turns -> Seq(Messages)]
    BY <1>0, <1>2, GoType, EmitType DEF CompleteTurn
  <2>8. /\ activeMessage' = None
        /\ UNCHANGED <<snapshots, inProgress, activeState, cancelled, interruptEvent>>
        /\ UNCHANGED <<local, rounds, usedSessions, nextId>>
    BY <1>2 DEF CompleteTurn
  <2> QED BY <2>3, <2>4, <2>5, <2>6, <2>7, <2>8 DEF TypeOK
<1> QED BY <1>1, <1>2

LEMMA DisturbanceType ==
    ASSUME TypeOK, (\E t \in Turns : CancelAsyncMessage(t)) \/ Interrupt \/ ClearSession
    PROVE  TypeOK'
<1>1. CASE \E t \in Turns : CancelAsyncMessage(t)
  BY <1>1 DEF CancelAsyncMessage, TypeOK, conversation
<1>2. CASE Interrupt
  BY <1>2 DEF Interrupt, TypeOK, conversation
<1>3. CASE ClearSession
  <2>1. /\ sessionId \in Sessions \cup {None} /\ transcript \in Transcripts /\ turnCount \in Nat
        /\ <<>> \in Transcripts
    BY DEF TypeOK, Transcripts
  <2>2. savedSessions' \in [Sessions -> Saved \cup {None}]
    BY <1>3, <2>1, SavedWithType DEF ClearSession
  <2> QED BY <1>3, <2>1, <2>2 DEF ClearSession, TypeOK, flags
<1> QED BY <1>1, <1>2, <1>3

-----------------------------------------------------------------------------
(* What one turn's own variables satisfy. A turn's place, locals, rounds and   *)
(* messages are only written by its own steps, so the invariant is inductive   *)
(* whatever the other turns and threads do.                                    *)

\* The streak counts the identical rounds at the end of the turn's history: one
\* at least when there is a last round, two when the last two are the same.
GuardInv(t) ==
    LET past == rounds[t]
        n == Len(rounds[t])
    IN  /\ n >= 1 => local[t].signature = past[n] /\ local[t].streak >= 1
        /\ n >= 2 => (past[n] = past[n - 1] => local[t].streak >= 2)
        /\ \A i \in 1..(n - 2) : ~(past[i] = past[i + 1] /\ past[i + 1] = past[i + 2])

\* The model is only asked while another round is allowed.
CapInv(t) ==
    /\ pc[t] \in {"new", "prepare", "compacting", "begin"} => Len(rounds[t]) = 0
    /\ pc[t] = "backend" => Len(rounds[t]) < MaxToolContinuations
    /\ Len(rounds[t]) <= MaxToolContinuations

\* What has been said by a turn that is over but for its "idle".
FinalOutputs ==
    {<<"running", "result">>, <<"running", "error">>, <<"running", "running", "error">>,
     <<"running", "error", "result">>}

OutputInv(t) ==
    /\ pc[t] \in {"new", "prepare", "compacting", "begin"} => emitted[t] = <<>>
    /\ pc[t] \in {"backend", "answer", "blocked", "tools", "permission", "executing"} =>
          emitted[t] = <<"running">>
    /\ pc[t] = "complete" => emitted[t] \in FinalOutputs
    /\ pc[t] = "done" => \E out \in FinalOutputs : emitted[t] = out \o <<"idle">>

TurnInv(t) == CallOpen(t) /\ GuardInv(t) /\ CapInv(t) /\ OutputInv(t)

EngineInv == TypeOK /\ \A t \in Turns : TurnInv(t)

LEMMA InitTurnInv == Init => \A t \in Turns : TurnInv(t)
<1> SUFFICES ASSUME Init, NEW t \in Turns PROVE TurnInv(t)
  OBVIOUS
<1>1. pc[t] = "new" /\ rounds[t] = <<>> /\ emitted[t] = <<>>
  BY DEF Init
<1>2. CallOpen(t) /\ CapInv(t) /\ OutputInv(t)
  BY <1>1 DEF CallOpen, CapInv, OutputInv
<1>3. GuardInv(t)
  BY <1>1 DEF GuardInv
<1> QED BY <1>2, <1>3 DEF TurnInv

\* A turn that keeps its place, locals, rounds and messages keeps its invariant.
LEMMA TurnFrame ==
    ASSUME NEW u \in Turns, TurnInv(u),
           pc'[u] = pc[u], local'[u] = local[u], rounds'[u] = rounds[u], emitted'[u] = emitted[u]
    PROVE  TurnInv(u)'
BY DEF TurnInv, CallOpen, GuardInv, CapInv, OutputInv

\* A step of turn t leaves the other turns' variables alone.
LEMMA OtherTurns ==
    ASSUME TypeOK, NEW t \in Turns, HandleUserMessage(t) \/ TurnStep(t),
           NEW u \in Turns, u # t
    PROVE  /\ pc'[u] = pc[u]
           /\ local'[u] = local[u]
           /\ rounds'[u] = rounds[u]
           /\ emitted'[u] = emitted[u]
<1>1. CASE HandleUserMessage(t)
  BY <1>1 DEF HandleUserMessage, Go, SetLocal, TypeOK
<1>2. CASE Prepare(t)
  BY <1>2 DEF Prepare, PreparePrompt, PrepareLocal, PrepareRaises, Rewind, Resume, CompactStart,
              CompactRefused, CompactFinish, Rollback, AnswerLocally, Go, Emit, SetLocal, TypeOK
<1>3. CASE Query(t)
  BY <1>3 DEF Query, BeginTurn, BackendFails, BackendRaises, BackendAnswers, BackendCallsTools,
              LoopGuardStops, FailTurn, Go, Emit, SetLocal, TypeOK
<1>4. CASE CallTools(t) \/ Permit(t)
  BY <1>4 DEF CallTools, Permit, StartCall, InterruptedBeforeCall, FinishCall, CrashCall, NextRound,
              BudgetExceeded, RoundFails, AllowCall, DenyCall, NextCall, FailTurn, Go, Emit,
              SetLocal, TypeOK
<1>5. CASE EmitAnswer(t) \/ CompleteTurn(t)
  BY <1>5 DEF EmitAnswer, CompleteTurn, Go, Emit, TypeOK
<1> QED BY <1>1, <1>2, <1>3, <1>4, <1>5 DEF TurnStep

\* Only a round of tool calls changes what the loop guard remembers.
LEMMA GuardFrame ==
    ASSUME TypeOK, NEW t \in Turns, HandleUserMessage(t) \/ TurnStep(t), ~BackendCallsTools(t)
    PROVE  /\ rounds'[t] = rounds[t]
           /\ local'[t].signature = local[t].signature
           /\ local'[t].streak = local[t].streak
<1>0. local[t] \in Locals /\ local \in [Turns -> Locals]
  BY DEF TypeOK
<1>1. CASE HandleUserMessage(t)
  <2>1. PICK kind \in Inputs : local' = [local EXCEPT ![t] = [local[t] EXCEPT !.input = kind,
                                                                    !.session = sessionId']]
    BY <1>1 DEF HandleUserMessage, SetLocal
  <2>2. rounds' = rounds
    BY <1>1 DEF HandleUserMessage
  <2> QED BY <1>0, <2>1, <2>2 DEF Locals
<1>2. CASE Prepare(t)
  BY <1>0, <1>2 DEF Prepare, PreparePrompt, PrepareLocal, PrepareRaises, Rewind, Resume,
                    CompactStart, CompactRefused, CompactFinish, Rollback, SetLocal, Locals
<1>3. CASE Query(t)
  <2>1. CASE BeginTurn(t)
    BY <1>0, <2>1 DEF BeginTurn, SetLocal, Locals
  <2>2. CASE BackendFails(t) \/ BackendRaises(t) \/ BackendAnswers(t) \/ LoopGuardStops(t)
    BY <2>2 DEF BackendFails, BackendRaises, BackendAnswers, LoopGuardStops, FailTurn
  <2> QED BY <1>3, <2>1, <2>2 DEF Query
<1>4. CASE CallTools(t) \/ Permit(t)
  <2>1. rounds' = rounds
    BY <1>4 DEF CallTools, Permit, StartCall, InterruptedBeforeCall, FinishCall, CrashCall,
                NextRound, BudgetExceeded, RoundFails, AllowCall, DenyCall, FailTurn
  <2>2. CASE NextCall(t)
    BY <1>0, <2>1, <2>2 DEF NextCall, SetLocal, Locals
  <2>3. CASE StartCall(t) \/ AllowCall(t)
    BY <1>0, <2>1, <2>3 DEF StartCall, AllowCall, SetLocal, Locals
  <2>4. CASE \/ NextRound(t) \/ BudgetExceeded(t) \/ RoundFails(t) \/ CrashCall(t)
             \/ InterruptedBeforeCall(t)
    BY <1>0, <2>1, <2>4 DEF NextRound, BudgetExceeded, RoundFails, CrashCall,
                            InterruptedBeforeCall, FailTurn, SetLocal, Locals
  <2>5. CASE FinishCall(t) \/ DenyCall(t)
    BY <2>2, <2>5 DEF FinishCall, DenyCall
  <2> QED BY <1>4, <2>3, <2>4, <2>5 DEF CallTools, Permit
<1>5. CASE EmitAnswer(t) \/ CompleteTurn(t)
  BY <1>5 DEF EmitAnswer, CompleteTurn
<1> QED BY <1>1, <1>2, <1>3, <1>4, <1>5 DEF TurnStep

LEMMA GuardStep ==
    ASSUME TypeOK, NEW t \in Turns, GuardInv(t), HandleUserMessage(t) \/ TurnStep(t)
    PROVE  GuardInv(t)'
<1>1. CASE ~BackendCallsTools(t)
  BY <1>1, GuardFrame DEF GuardInv
<1>2. CASE BackendCallsTools(t)
  <2>1. PICK response \in Responses \ {<<>>} :
            /\ ~LoopDetected(local[t], response)
            /\ SetLocal(t, [local[t] EXCEPT !.signature = response,
                                             !.streak = NextStreak(local[t], response),
                                             !.calls = response])
            /\ rounds' = [rounds EXCEPT ![t] = Append(@, response)]
    BY <1>2 DEF BackendCallsTools
  <2> DEFINE past == rounds[t]
             later == rounds'[t]
             n == Len(rounds[t])
  <2>2. past \in Seq(Responses) /\ n \in Nat /\ local[t] \in Locals /\ local[t].streak \in Nat
    BY DEF TypeOK, Locals
  <2>3. rounds'[t] = Append(past, response)
    BY <2>1 DEF TypeOK
  <2>4. /\ Len(later) = n + 1
        /\ later[n + 1] = response
        /\ \A i \in 1..n : later[i] = past[i]
    BY <2>2, <2>3
  <2>5. /\ local'[t].signature = response
        /\ local'[t].streak = NextStreak(local[t], response)
    BY <2>1, <2>2 DEF SetLocal, TypeOK, Locals
  <2>6. local'[t].streak >= 1
    BY <2>2, <2>5 DEF NextStreak
  <2>7. n >= 1 /\ past[n] = response => local'[t].streak >= 2
    BY <2>2, <2>5 DEF NextStreak, GuardInv
  <2>8. ~(n >= 2 /\ past[n] = past[n - 1] /\ past[n] = response)
    <3>1. n >= 2 /\ past[n] = past[n - 1] => local[t].signature = past[n] /\ local[t].streak >= 2
      BY <2>2 DEF GuardInv
    <3>2. ~(local[t].signature = response /\ local[t].streak >= 2)
      BY <2>1 DEF LoopDetected
    <3> HIDE DEF past, n
    <3> QED BY <3>1, <3>2
  <2>9. \A i \in 1..(n - 2) : ~(past[i] = past[i + 1] /\ past[i + 1] = past[i + 2])
    BY DEF GuardInv
  <2>10. ASSUME NEW i \in 1..(n - 1)
         PROVE  ~(later[i] = later[i + 1] /\ later[i + 1] = later[i + 2])
    <3> HIDE DEF past, later, n
    <3>1. CASE i \in 1..(n - 2)
      <4>1. later[i] = past[i] /\ later[i + 1] = past[i + 1] /\ later[i + 2] = past[i + 2]
        <5>1. i \in 1..n /\ i + 1 \in 1..n /\ i + 2 \in 1..n
          BY <2>2, <3>1
        <5> QED BY <2>4, <5>1
      <4> QED BY <2>9, <3>1, <4>1
    <3>2. CASE i = n - 1
      <4>1. n >= 2 /\ i + 1 = n /\ i + 2 = n + 1
        BY <2>2, <3>2
      <4>2. later[i] = past[n - 1] /\ later[i + 1] = past[n] /\ later[i + 2] = response
        BY <2>2, <2>4, <3>2, <4>1
      <4> QED BY <2>8, <4>1, <4>2
    <3> QED BY <2>2, <3>1, <3>2
  <2>11. (n + 1 >= 2) => (later[n + 1] = later[n] => local'[t].streak >= 2)
    <3> HIDE DEF past, later, n
    <3>1. ASSUME n + 1 >= 2, later[n + 1] = later[n] PROVE n >= 1 /\ past[n] = response
      <4>1. n >= 1 /\ n \in 1..n
        BY <2>2, <3>1
      <4> QED BY <2>4, <3>1, <4>1
    <3> QED BY <2>7, <3>1
  <2> QED BY <2>2, <2>4, <2>5, <2>6, <2>10, <2>11 DEF GuardInv
<1> QED BY <1>1, <1>2

LEMMA CapStep ==
    ASSUME TypeOK, NEW t \in Turns, CapInv(t), HandleUserMessage(t) \/ TurnStep(t)
    PROVE  CapInv(t)'
<1>1. /\ pc \in [Turns -> Places]
      /\ rounds \in [Turns -> Seq(Responses)]
      /\ Len(rounds[t]) \in Nat
  BY DEF TypeOK
<1>2. CASE HandleUserMessage(t)
  BY <1>1, <1>2 DEF HandleUserMessage, CapInv, Go
<1>3. CASE Prepare(t)
  BY <1>1, <1>3 DEF Prepare, PreparePrompt, PrepareLocal, PrepareRaises, Rewind, Resume,
                    CompactStart, CompactRefused, CompactFinish, Rollback, AnswerLocally, Go, CapInv
<1>4. CASE Query(t)
  <2>1. CASE BeginTurn(t)
    BY <1>1, <2>1 DEF BeginTurn, Go, CapInv
  <2>2. CASE BackendFails(t) \/ BackendRaises(t) \/ BackendAnswers(t) \/ LoopGuardStops(t)
    BY <1>1, <2>2 DEF BackendFails, BackendRaises, BackendAnswers, LoopGuardStops, FailTurn, Go,
                      CapInv
  <2>3. CASE BackendCallsTools(t)
    <3>1. PICK response \in Responses : rounds' = [rounds EXCEPT ![t] = Append(@, response)]
      BY <2>3 DEF BackendCallsTools
    <3>2. Len(rounds'[t]) = Len(rounds[t]) + 1
      BY <1>1, <3>1
    <3>3. pc[t] = "backend" /\ pc'[t] = "tools"
      BY <1>1, <2>3 DEF BackendCallsTools, Go
    <3> QED BY <1>1, <3>2, <3>3 DEF CapInv
  <2> QED BY <1>4, <2>1, <2>2, <2>3 DEF Query
<1>5. CASE CallTools(t) \/ Permit(t)
  BY <1>1, <1>5 DEF CallTools, Permit, StartCall, InterruptedBeforeCall, FinishCall, CrashCall,
                    NextRound, MayContinue, BudgetExceeded, RoundFails, AllowCall, DenyCall,
                    NextCall, FailTurn, Go, CapInv
<1>6. CASE EmitAnswer(t) \/ CompleteTurn(t)
  BY <1>1, <1>6 DEF EmitAnswer, CompleteTurn, Go, CapInv
<1> QED BY <1>2, <1>3, <1>4, <1>5, <1>6 DEF TurnStep

LEMMA CallStep ==
    ASSUME TypeOK, NEW t \in Turns, CallOpen(t), HandleUserMessage(t) \/ TurnStep(t)
    PROVE  CallOpen(t)'
<1>0. pc \in [Turns -> Places]
  BY DEF TypeOK
<1>1. CASE StartCall(t)
  <2>1. local'[t].calls = local[t].calls
    BY <1>1 DEF StartCall, SetLocal, TypeOK, Locals
  <2> QED BY <1>1, <2>1 DEF StartCall, CallOpen
<1>2. CASE AllowCall(t)
  BY <1>2 DEF AllowCall, CallOpen
<1>3. CASE HandleUserMessage(t) \/ Prepare(t)
  BY <1>0, <1>3 DEF HandleUserMessage, Prepare, PreparePrompt, PrepareLocal, PrepareRaises, Rewind,
                    Resume, CompactStart, CompactRefused, CompactFinish, Rollback, AnswerLocally,
                    Go, CallOpen
<1>4. CASE Query(t)
  BY <1>0, <1>4 DEF Query, BeginTurn, BackendFails, BackendRaises, BackendAnswers,
                    BackendCallsTools, LoopGuardStops, FailTurn, Go, CallOpen
<1>5. CASE (CallTools(t) \/ DenyCall(t)) /\ ~StartCall(t)
  BY <1>0, <1>5 DEF CallTools, InterruptedBeforeCall, FinishCall, CrashCall, NextRound,
                    BudgetExceeded, RoundFails, DenyCall, NextCall, FailTurn, Go, CallOpen
<1>6. CASE EmitAnswer(t) \/ CompleteTurn(t)
  BY <1>0, <1>6 DEF EmitAnswer, CompleteTurn, Go, CallOpen
<1> QED BY <1>1, <1>2, <1>3, <1>4, <1>5, <1>6 DEF TurnStep, Permit

\* Concatenations of short outputs, written out.
LEMMA PrefixOne ==
    ASSUME NEW m \in Messages, NEW s \in Seq(Messages), NEW out \in Seq(Messages),
           Len(out) = Len(s) + 1, out[1] = m,
           \A i \in 1..Len(s) : out[i + 1] = s[i]
    PROVE  <<m>> \o s = out
<1>1. <<m>> \in Seq(Messages) /\ Len(<<m>>) = 1 /\ Len(s) \in Nat
  OBVIOUS
<1>2. Len(<<m>> \o s) = Len(out)
  BY <1>1, ConcatProperties
<1>3. ASSUME NEW i \in 1..Len(out) PROVE (<<m>> \o s)[i] = out[i]
  <2>1. CASE i = 1
    BY <1>1, <2>1
  <2>2. CASE i # 1
    <3>1. (<<m>> \o s)[i] = s[i - 1]
      BY <1>1, <2>2
    <3>2. i - 1 \in 1..Len(s) /\ (i - 1) + 1 = i
      BY <1>1, <2>2
    <3> QED BY <3>1, <3>2
  <2> QED BY <2>1, <2>2
<1>4. <<m>> \o s \in Seq(Messages)
  BY <1>1
<1> HIDE DEF Messages
<1> QED BY <1>2, <1>3, <1>4, SeqEqual

LEMMA OneAndOne ==
    ASSUME NEW m \in Messages, NEW n \in Messages
    PROVE  <<m>> \o <<n>> = <<m, n>>
<1>1. <<n>> \in Seq(Messages) /\ <<m, n>> \in Seq(Messages) /\ Len(<<m, n>>) = Len(<<n>>) + 1
  OBVIOUS
<1>2. \A i \in 1..Len(<<n>>) : <<m, n>>[i + 1] = <<n>>[i]
  OBVIOUS
<1> QED BY <1>1, <1>2, PrefixOne

LEMMA OneAndTwo ==
    ASSUME NEW k \in Messages, NEW m \in Messages, NEW n \in Messages
    PROVE  <<k>> \o <<m, n>> = <<k, m, n>>
<1>1. <<m, n>> \in Seq(Messages) /\ <<k, m, n>> \in Seq(Messages) /\ Len(<<k, m, n>>) = Len(<<m, n>>) + 1
  OBVIOUS
<1>2. \A i \in 1..Len(<<m, n>>) : <<k, m, n>>[i + 1] = <<m, n>>[i]
  OBVIOUS
<1> QED BY <1>1, <1>2, PrefixOne

LEMMA OutputStep ==
    ASSUME TypeOK, NEW t \in Turns, OutputInv(t), HandleUserMessage(t) \/ TurnStep(t)
    PROVE  OutputInv(t)'
<1>0. /\ pc \in [Turns -> Places]
      /\ emitted \in [Turns -> Seq(Messages)]
  BY DEF TypeOK
<1>1. /\ <<>> \o <<"running">> = <<"running">>
      /\ <<>> \o <<"running", "result">> = <<"running", "result">>
      /\ <<>> \o <<"running", "error">> = <<"running", "error">>
      /\ <<"running">> \o <<"result">> = <<"running", "result">>
      /\ <<"running">> \o <<"error">> = <<"running", "error">>
      /\ <<"running">> \o <<"running", "error">> = <<"running", "running", "error">>
      /\ <<"running">> \o <<"error", "result">> = <<"running", "error", "result">>
  <2>1. {"running", "result", "error"} \subseteq Messages
    BY DEF Messages
  <2>2. /\ <<"running">> \in Seq(Messages)
        /\ <<"running", "result">> \in Seq(Messages)
        /\ <<"running", "error">> \in Seq(Messages)
    BY <2>1
  <2>3. /\ <<>> \o <<"running">> = <<"running">>
        /\ <<>> \o <<"running", "result">> = <<"running", "result">>
        /\ <<>> \o <<"running", "error">> = <<"running", "error">>
    BY <2>2, ConcatEmptySeq
  <2> QED BY <2>1, <2>3, OneAndOne, OneAndTwo
<1>2. CASE HandleUserMessage(t)
  BY <1>0, <1>2 DEF HandleUserMessage, Go, OutputInv
<1>3. CASE Prepare(t)
  BY <1>0, <1>1, <1>3 DEF Prepare, PreparePrompt, PrepareLocal, PrepareRaises, Rewind, Resume,
                    CompactStart, CompactRefused, CompactFinish, Rollback, AnswerLocally, Go, Emit,
                    OutputInv, FinalOutputs
<1>4. CASE Query(t)
  <2>1. CASE BeginTurn(t)
    BY <1>0, <1>1, <2>1 DEF BeginTurn, Go, Emit, OutputInv
  <2>2. CASE BackendFails(t) \/ LoopGuardStops(t)
    BY <1>0, <1>1, <2>2 DEF BackendFails, LoopGuardStops, FailTurn, Go, Emit, OutputInv, FinalOutputs
  <2>3. CASE BackendRaises(t)
    BY <1>0, <1>1, <2>3 DEF BackendRaises, Go, Emit, OutputInv, FinalOutputs
  <2>4. CASE BackendAnswers(t) \/ BackendCallsTools(t)
    BY <1>0, <2>4 DEF BackendAnswers, BackendCallsTools, Go, OutputInv
  <2> QED BY <1>4, <2>1, <2>2, <2>3, <2>4 DEF Query
<1>5. CASE InterruptedBeforeCall(t) \/ CrashCall(t) \/ RoundFails(t)
  BY <1>0, <1>1, <1>5 DEF InterruptedBeforeCall, CrashCall, RoundFails, RoundDone, FailTurn, Go, Emit,
                    OutputInv, FinalOutputs
<1>6. CASE StartCall(t) \/ FinishCall(t) \/ NextRound(t) \/ BudgetExceeded(t) \/ Permit(t)
  BY <1>0, <1>6 DEF StartCall, FinishCall, NextRound, BudgetExceeded, RoundDone, Permit, AllowCall,
                    DenyCall, NextCall, Go, OutputInv
<1>7. CASE EmitAnswer(t)
  BY <1>0, <1>1, <1>7 DEF EmitAnswer, Go, Emit, OutputInv, FinalOutputs
<1>8. CASE CompleteTurn(t)
  BY <1>0, <1>8 DEF CompleteTurn, Go, Emit, OutputInv
<1> QED BY <1>2, <1>3, <1>4, <1>5, <1>6, <1>7, <1>8 DEF TurnStep, CallTools

-----------------------------------------------------------------------------
LEMMA TypeStep ==
    ASSUME EngineInv, [Next]_vars
    PROVE  TypeOK'
<1>1. TypeOK /\ \A t \in Turns : CallOpen(t)
  BY DEF EngineInv, TurnInv
<1>2. ASSUME NEW t \in Turns, HandleUserMessage(t) PROVE TypeOK'
  BY <1>1, <1>2, HandleUserMessageType
<1>3. ASSUME NEW t \in Turns, TurnStep(t) PROVE TypeOK'
  BY <1>1, <1>3, PrepareType, QueryType, CallToolsType, CompletionType DEF TurnStep
<1>4. CASE (\E t \in Turns : CancelAsyncMessage(t)) \/ Interrupt \/ ClearSession
  BY <1>1, <1>4, DisturbanceType
<1>5. CASE UNCHANGED vars
  BY <1>1, <1>5 DEF TypeOK, vars
<1> QED BY <1>2, <1>3, <1>4, <1>5 DEF Next

LEMMA TurnInvStep ==
    ASSUME EngineInv, [Next]_vars, NEW u \in Turns
    PROVE  TurnInv(u)'
<1>1. TypeOK /\ TurnInv(u)
  BY DEF EngineInv
<1>2. ASSUME NEW t \in Turns, HandleUserMessage(t) \/ TurnStep(t) PROVE TurnInv(u)'
  <2>1. CASE t = u
    BY <1>1, <1>2, <2>1, CallStep, GuardStep, CapStep, OutputStep DEF TurnInv
  <2>2. CASE t # u
    BY <1>1, <1>2, <2>2, OtherTurns, TurnFrame
  <2> QED BY <2>1, <2>2
<1>3. CASE \/ \E t \in Turns : CancelAsyncMessage(t)
           \/ Interrupt
           \/ ClearSession
           \/ UNCHANGED vars
  <2>1. pc' = pc /\ local' = local /\ rounds' = rounds /\ emitted' = emitted
    BY <1>3 DEF CancelAsyncMessage, Interrupt, ClearSession, vars
  <2> QED BY <1>1, <2>1, TurnFrame
<1> QED BY <1>2, <1>3 DEF Next

\* The invariant everything else follows from is inductive.
THEOREM EngineInvariant == Spec => []EngineInv
<1>1. Init => EngineInv
  BY InitType, InitTurnInv DEF EngineInv
<1>2. EngineInv /\ [Next]_vars => EngineInv'
  BY TypeStep, TurnInvStep DEF EngineInv
<1> QED BY <1>1, <1>2, PTL DEF Spec

\* Every variable keeps its type: in particular no interleaving of turns, compaction,
\* rollback or clearing leaves the engine without a transcript or with a session it
\* does not know.
THEOREM TypeCorrect == Spec => []TypeOK
<1>1. EngineInv => TypeOK
  BY DEF EngineInv
<1> QED BY <1>1, EngineInvariant, PTL

\* The loop guard of _guard_against_tool_loop works in any conversation: no turn runs
\* the same round of tool calls three times in a row.
THEOREM GuardWorks == Spec => []NoThirdIdenticalRound
<1>1. EngineInv => NoThirdIdenticalRound
  BY DEF EngineInv, TurnInv, GuardInv, NoThirdIdenticalRound
<1> QED BY <1>1, EngineInvariant, PTL

\* No turn asks for tools more often than max_tool_continuations allows.
THEOREM CapHolds == Spec => []RoundsCapped
<1>1. EngineInv => RoundsCapped
  BY DEF EngineInv, TurnInv, CapInv, RoundsCapped
<1> QED BY <1>1, EngineInvariant, PTL

LEMMA FinalShape ==
    ASSUME NEW out \in FinalOutputs
    PROVE  /\ out \in Seq(Messages)
           /\ Len(out) \in {2, 3}
           /\ out[1] = "running"
           /\ out[Len(out)] \in {"result", "error"}
           /\ \A i \in 1..Len(out) : out[i] # "idle" /\ (out[i] = "result" => i = Len(out))
<1>1. {"running", "result", "error"} \subseteq Messages
  BY DEF Messages
<1>2. CASE out = <<"running", "result">>
  BY <1>1, <1>2
<1>3. CASE out = <<"running", "error">>
  BY <1>1, <1>3
<1>4. CASE out = <<"running", "running", "error">>
  BY <1>1, <1>4
<1>5. CASE out = <<"running", "error", "result">>
  BY <1>1, <1>5
<1> QED BY <1>2, <1>3, <1>4, <1>5 DEF FinalOutputs

LEMMA FinalOutputsEnd == EngineInv => ResultThenIdle
<1> SUFFICES ASSUME EngineInv, NEW t \in Turns
             PROVE  LET out == emitted[t]
                        At(message) == {i \in 1..Len(out) : out[i] = message}
                    IN  /\ (pc[t] = "done") <=> (At("idle") # {})
                        /\ \A i \in At("idle") :
                              /\ i = Len(out)
                              /\ i > 2
                              /\ out[1] = "running"
                              /\ out[i - 1] \in {"result", "error"}
                        /\ \A i \in At("result"), j \in 1..Len(out) :
                              i < j => out[j] = "idle"
  BY DEF ResultThenIdle
<1>1. pc[t] \in Places /\ OutputInv(t)
  BY DEF EngineInv, TurnInv, TypeOK
<1>2. CASE pc[t] \in {"new", "prepare", "compacting", "begin"}
  BY <1>1, <1>2 DEF OutputInv
<1>3. CASE pc[t] \in {"backend", "answer", "blocked", "tools", "permission", "executing"}
  BY <1>1, <1>3 DEF OutputInv
<1>4. CASE pc[t] = "complete"
  BY <1>1, <1>4, FinalShape DEF OutputInv
<1>5. CASE pc[t] = "done"
  <2>1. PICK out \in FinalOutputs : emitted[t] = out \o <<"idle">>
    BY <1>1, <1>5 DEF OutputInv
  <2>2. out \in Seq(Messages) /\ <<"idle">> \in Seq(Messages) /\ Len(<<"idle">>) = 1
    BY FinalShape DEF Messages
  <2>3. /\ Len(emitted[t]) = Len(out) + 1
        /\ \A i \in 1..Len(out) : emitted[t][i] = out[i]
        /\ emitted[t][Len(out) + 1] = "idle"
    BY <2>1, <2>2, ConcatProperties
  <2> HIDE DEF FinalOutputs
  <2> QED BY <1>5, <2>3, FinalShape
<1> QED BY <1>1, <1>2, <1>3, <1>4, <1>5 DEF Places

\* A host that reads a turn's messages gets "running" first and a result and "idle"
\* last, also when the turn fails, is interrupted, or shares the engine with other
\* turns.
THEOREM OutputsEnd == Spec => []ResultThenIdle
<1> QED BY FinalOutputsEnd, EngineInvariant, PTL
=============================================================================
