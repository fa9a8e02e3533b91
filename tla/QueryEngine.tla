------------------------------ MODULE QueryEngine ------------------------------
(***************************************************************************)
(* The query engine of py-claw: class QueryRuntime of                      *)
(* src/py_claw/query/engine.py.  One QueryRuntime owns one conversation:   *)
(* the transcript, the session it belongs to, the in-memory store of saved *)
(* sessions and the counter of transcript entries already written to the   *)
(* session file.  A turn is one call of handle_user_message.  Nothing in   *)
(* the class takes a lock, so the turns here may run in several threads    *)
(* and interleave wherever a turn blocks: in a slash command, in the       *)
(* model call, in a permission ask, in a tool, in the file append.  The    *)
(* host modules (SequentialHost, TuiHost) say how turns are really started.*)
(***************************************************************************)
EXTENDS Naturals, Sequences

CONSTANTS
    Turns,          \* the user messages, one turn each
    Sessions,       \* session ids (uuid4 strings)
    Tools,          \* tool calls: a tool name with its arguments
    SnipTool,       \* the Snip tool's call (tools/snip_tool.py)
    Responses,      \* what the model may answer: sequences of tool calls, <<>> = final text
    Inputs,         \* the kinds of user text this instance submits
    MaxToolContinuations,  \* QueryRuntime.max_tool_continuations
    ToolsCrash,     \* may a tool or a hook raise something else than ToolError?
    DiskFails,      \* may the append to the session file raise OSError?
    None

ASSUME TurnsAssumption == None \notin Turns
ASSUME SessionsAssumption == None \notin Sessions
ASSUME ResponsesAssumption == Responses \subseteq Seq(Tools)
ASSUME CapAssumption == MaxToolContinuations \in Nat \ {0}
ASSUME FlagsAssumption == ToolsCrash \in BOOLEAN /\ DiskFails \in BOOLEAN

VARIABLES
    sessionId,       \* _session_id
    transcript,      \* _transcript
    turnCount,       \* _turn_count
    savedSessions,   \* _saved_sessions, the keys that are session ids
    snapshots,       \* _saved_sessions, the keys "compact-snapshot:<session id>"
    persistedCount,  \* _persisted_transcript_count
    inProgress,      \* _turn_in_progress
    activeState,     \* _active_turn_state
    activeMessage,   \* _active_message_uuid, as the turn whose message it is
    cancelled,       \* _cancelled_message_uuids
    interruptEvent,  \* RuntimeState.interrupt_event
    pc,              \* where each turn's thread is
    local,           \* the locals of each turn's handlers
    rounds,          \* the tool-call rounds each turn has accepted
    emitted,         \* the session_state and result messages each turn has produced
    disk,            \* the session files: ids of the entries written, in order
    usedSessions,    \* session ids already generated
    nextId           \* the next fresh entry uuid

conversation == <<sessionId, transcript, turnCount, savedSessions, snapshots, persistedCount>>
flags == <<inProgress, activeState, activeMessage, cancelled, interruptEvent>>
vars == <<sessionId, transcript, turnCount, savedSessions, snapshots, persistedCount,
          inProgress, activeState, activeMessage, cancelled, interruptEvent,
          pc, local, rounds, emitted, disk, usedSessions, nextId>>

-----------------------------------------------------------------------------
(* Data. A transcript entry is known by its uuid; a tool result refers to   *)
(* the tool use it answers.                                                 *)

Kinds == {"user", "use", "result", "assistant", "boundary", "summary"}
Entry == [kind : Kinds, id : Nat, ref : Nat]
Transcripts == Seq(Entry)
Saved == [transcript : Transcripts, turnCount : Nat]
\* None stands for "no saved session", so it is none.
ASSUME SavedAssumption == None \notin Saved
ActiveStates == [transcript : Transcripts, continuations : Nat]
Messages == {"running", "result", "error", "idle"}

Places == {"new", "prepare", "compacting", "begin", "backend", "answer", "blocked",
           "tools", "permission", "executing", "complete", "done"}

Locals == [input : Inputs \cup {None},       \* the kind of the user's text
           session : Sessions \cup {None},   \* session_id of _handle_user_message_gen
           reset : BOOLEAN,                  \* prepared.should_reset_session
           previous : BOOLEAN,               \* previous_in_progress
           signature : Responses \cup {None},\* previous_call_signature
           streak : Nat,                     \* identical_call_streak
           calls : Seq(Tools),               \* tool calls of the round still to run
           openUse : Nat,                    \* tool_use_id being answered
           sent : Transcripts]               \* transcript handed to the model

NoLocals == [input |-> None, session |-> None, reset |-> FALSE, previous |-> FALSE,
             signature |-> None, streak |-> 0, calls |-> <<>>, openUse |-> 0, sent |-> <<>>]

\* Mutant: a tool result, too, starts an API round.
IsAssistantOrResult(e) == e.kind \in {"use", "result", "assistant"}

IsAssistant(e) == e.kind \in {"use", "assistant"}

NewEntry(kind, id, ref) == [kind |-> kind, id |-> id, ref |-> ref]

Last(s) == s[Len(s)]

Go(t, place) == pc' = [pc EXCEPT ![t] = place]

\* The locals of turn t become l.
SetLocal(t, l) == local' = [local EXCEPT ![t] = l]

Emit(t, messages) == emitted' = [emitted EXCEPT ![t] = @ \o messages]

-----------------------------------------------------------------------------
(* State shared by the handlers. *)

Init ==
    /\ sessionId = None
    /\ transcript = <<>>
    /\ turnCount = 0
    /\ savedSessions = [s \in Sessions |-> None]
    /\ snapshots = [s \in Sessions |-> None]
    /\ persistedCount = 0
    /\ inProgress = FALSE
    /\ activeState = None
    /\ activeMessage = None
    /\ cancelled = {}
    /\ interruptEvent = FALSE
    /\ pc = [t \in Turns |-> "new"]
    /\ local = [t \in Turns |-> NoLocals]
    /\ rounds = [t \in Turns |-> <<>>]
    /\ emitted = [t \in Turns |-> <<>>]
    /\ disk = [s \in Sessions |-> <<>>]
    /\ usedSessions = {}
    /\ nextId = 1

\* A conversation without an id gets one of the candidates: a fresh uuid, or
\* whatever id the host put in its message.
EnsureSession(candidates) ==
    IF sessionId # None
    THEN UNCHANGED <<sessionId, usedSessions>>
    ELSE \E s \in candidates :
            /\ sessionId' = s
            /\ usedSessions' = usedSessions \cup {s}

AppendEntry(kind, ref) ==
    /\ transcript' = Append(transcript, NewEntry(kind, nextId, ref))
    /\ nextId' = nextId + 1

\* Mutant: a session that was saved once is not saved again.
SavedOnce(s, entries, count) ==
    IF s = None \/ savedSessions[s] # None THEN savedSessions
    ELSE [savedSessions EXCEPT ![s] = [transcript |-> entries, turnCount |-> count]]

SavedWith(s, entries, count) ==
    IF s = None THEN savedSessions
    ELSE [savedSessions EXCEPT ![s] = [transcript |-> entries, turnCount |-> count]]

\* _active_turn_state with its transcript replaced, when there is one.
RefreshedState(entries) ==
    IF activeState = None THEN None ELSE [activeState EXCEPT !.transcript = entries]

\* replace_transcript: nothing of the new transcript counts as persisted.
ReplaceTranscript(entries) ==
    /\ transcript' = entries
    /\ persistedCount' = 0
    /\ activeState' = RefreshedState(entries)
    /\ savedSessions' = SavedWith(sessionId, entries, turnCount)

\* _current_turn_context(): the transcript the model call is given.
CurrentContext == IF activeState = None THEN transcript ELSE activeState.transcript

-----------------------------------------------------------------------------
(* A message arrives and is prepared. *)

\* Mutant: a message does not clear an interrupt that came before it.
HandleUserMessageInterrupted(t) ==
    /\ pc[t] = "new"
    /\ EnsureSession(Sessions)
    /\ AppendEntry("user", 0)
    /\ activeMessage' = t
    /\ \E kind \in Inputs :
          SetLocal(t, [local[t] EXCEPT !.input = kind, !.session = sessionId'])
    /\ Go(t, "prepare")
    /\ UNCHANGED <<turnCount, savedSessions, snapshots, persistedCount, inProgress,
                   activeState, cancelled, interruptEvent, rounds, emitted, disk>>

\* The head of _handle_user_message_gen.
HandleUserMessage(t) ==
    /\ pc[t] = "new"
    /\ EnsureSession(Sessions)
    /\ interruptEvent' = FALSE
    /\ AppendEntry("user", 0)
    /\ activeMessage' = t
    /\ \E kind \in Inputs :
          SetLocal(t, [local[t] EXCEPT !.input = kind, !.session = sessionId'])
    /\ Go(t, "prepare")
    /\ UNCHANGED <<turnCount, savedSessions, snapshots, persistedCount, inProgress,
                   activeState, cancelled, rounds, emitted, disk>>

\* A turn whose command produced its output locally: nothing is asked of the
\* model, the output follows "running" and the turn only has to be completed.
AnswerLocally(t) ==
    /\ Emit(t, <<"running", "result">>)
    /\ Go(t, "complete")

\* A prompt (or a prompt command): the model is queried.
PreparePrompt(t) ==
    /\ pc[t] = "prepare"
    /\ local[t].input = "prompt"
    /\ Go(t, "begin")
    /\ UNCHANGED <<conversation, flags, local, rounds, emitted, disk, usedSessions, nextId>>

\* A command that does not touch the conversation, and /clear, whose effect
\* waits for the completion of the turn.
PrepareLocal(t) ==
    /\ pc[t] = "prepare"
    /\ local[t].input \in {"local", "clear"}
    /\ SetLocal(t, [local[t] EXCEPT !.reset = (local[t].input = "clear")])
    /\ AnswerLocally(t)
    /\ UNCHANGED <<conversation, flags, rounds, disk, usedSessions, nextId>>

\* _prepare_turn raises, e.g. for an unknown command: the outer handler answers.
PrepareRaises(t) ==
    /\ pc[t] = "prepare"
    /\ local[t].input = "unknown"
    /\ Emit(t, <<"running", "error">>)
    /\ Go(t, "complete")
    /\ UNCHANGED <<conversation, flags, local, rounds, disk, usedSessions, nextId>>

\* /rewind n. The command's own message is already the last entry; a count that
\* would remove the whole history is refused.
Rewind(t) ==
    /\ pc[t] = "prepare"
    /\ local[t].input = "rewind"
    /\ \E count \in 1..Len(transcript) :
          IF count >= Len(transcript)
          THEN UNCHANGED <<transcript, savedSessions, activeState>>
          ELSE LET kept == SubSeq(transcript, 1, Len(transcript) - count) IN
               /\ transcript' = kept
               /\ activeState' = RefreshedState(kept)
               /\ savedSessions' = SavedWith(sessionId, kept, turnCount)
    /\ AnswerLocally(t)
    /\ UNCHANGED <<sessionId, turnCount, snapshots, persistedCount, inProgress, activeMessage,
                   cancelled, interruptEvent, local, rounds, disk, usedSessions, nextId>>

\* /resume s.
Resume(t) ==
    /\ pc[t] = "prepare"
    /\ local[t].input = "resume"
    /\ \/ \E s \in Sessions :
             /\ savedSessions[s] # None
             /\ sessionId' = s
             /\ transcript' = savedSessions[s].transcript
             /\ turnCount' = savedSessions[s].turnCount
       \/ UNCHANGED <<sessionId, transcript, turnCount>>
    /\ AnswerLocally(t)
    /\ UNCHANGED <<savedSessions, snapshots, persistedCount, flags, local, rounds, disk,
                   usedSessions, nextId>>

\* /compact, up to the summary call: the snapshot is taken and the transcript
\* to compact is read here, before the call blocks.
CompactStart(t) ==
    /\ pc[t] = "prepare"
    /\ local[t].input = "compact"
    /\ IF Len(transcript) < 2
       THEN /\ AnswerLocally(t)
            /\ UNCHANGED <<snapshots, local>>
       ELSE /\ snapshots' = [snapshots EXCEPT ![local[t].session] =
                                [transcript |-> transcript, turnCount |-> turnCount]]
            /\ SetLocal(t, [local[t] EXCEPT !.sent = transcript])
            /\ Go(t, "compacting")
            /\ UNCHANGED emitted
    /\ UNCHANGED <<sessionId, transcript, turnCount, savedSessions, persistedCount, flags,
                   rounds, disk, usedSessions, nextId>>

\* Where the API rounds after the first start: at each assistant message.
RoundStarts(entries) == {i \in 2..Len(entries) : IsAssistant(entries[i])}

\* build_post_compact_messages: boundary marker, summary if there is one, and
\* the last API round, which starts at entry i.
Compacted(entries, i, summarised) ==
    <<NewEntry("boundary", nextId, 0)>>
    \o (IF summarised THEN <<NewEntry("summary", nextId + 1, 0)>> ELSE <<>>)
    \o SubSeq(entries, i, Len(entries))

\* /compact of a conversation that has one API round only: there is nothing to
\* compact and the snapshot is dropped.
CompactRefused(t) ==
    /\ pc[t] = "compacting"
    /\ RoundStarts(local[t].sent) = {}
    /\ snapshots' = [snapshots EXCEPT ![local[t].session] = None]
    /\ AnswerLocally(t)
    /\ UNCHANGED <<sessionId, transcript, turnCount, savedSessions, persistedCount, flags, local,
                   rounds, disk, usedSessions, nextId>>

\* /compact, once the summary call has ended; when it failed there is no summary.
CompactFinish(t) ==
    /\ pc[t] = "compacting"
    /\ \E i \in RoundStarts(local[t].sent), summarised \in BOOLEAN :
          /\ \A j \in RoundStarts(local[t].sent) : j <= i
          /\ ReplaceTranscript(Compacted(local[t].sent, i, summarised))
    /\ nextId' = nextId + 2
    /\ AnswerLocally(t)
    /\ UNCHANGED <<sessionId, turnCount, snapshots, inProgress, activeMessage, cancelled,
                   interruptEvent, local, rounds, disk, usedSessions>>

SnapshotOf(s) == IF s = None THEN None ELSE snapshots[s]

\* /compact --rollback.
Rollback(t) ==
    /\ pc[t] = "prepare"
    /\ local[t].input = "rollback"
    /\ LET saved == SnapshotOf(local[t].session) IN
       IF saved = None
       THEN UNCHANGED <<transcript, persistedCount, activeState, savedSessions, turnCount, snapshots>>
       ELSE /\ ReplaceTranscript(saved.transcript)
            /\ turnCount' = saved.turnCount
            /\ snapshots' = [snapshots EXCEPT ![local[t].session] = None]
    /\ AnswerLocally(t)
    /\ UNCHANGED <<sessionId, inProgress, activeMessage, cancelled, interruptEvent,
                   local, rounds, disk, usedSessions, nextId>>

-----------------------------------------------------------------------------
(* The turn loop: _execute_turn_with_outputs_streaming. *)

BeginTurn(t) ==
    /\ pc[t] = "begin"
    /\ Emit(t, <<"running">>)
    /\ EnsureSession(Sessions \ usedSessions)
    /\ UNCHANGED transcript
    /\ inProgress' = TRUE
    /\ activeState' = [transcript |-> transcript, continuations |-> 0]
    /\ SetLocal(t, [local[t] EXCEPT !.previous = inProgress, !.sent = CurrentContext'])
    /\ Go(t, "backend")
    /\ UNCHANGED <<turnCount, savedSessions, snapshots, persistedCount,
                   activeMessage, cancelled, interruptEvent, rounds, disk, nextId>>

\* Mutant: the finally block does not put the in-progress flag back.
LeaveLoopInProgress(t) ==
    /\ inProgress' = TRUE
    /\ activeState' = None

\* The loop's finally block.
LeaveLoop(t) ==
    /\ inProgress' = local[t].previous
    /\ activeState' = None

\* Mutant: the error path goes on to the outputs of a turn that went well.
FailTurnFallsThrough(t) ==
    /\ LeaveLoop(t)
    /\ Emit(t, <<"error", "idle">>)
    /\ Go(t, "complete")
    /\ UNCHANGED <<conversation, activeMessage, cancelled, interruptEvent, local, rounds,
                   disk, usedSessions, nextId>>

\* A QueryTurnFailure: the loop ends, the error is the turn's result.
FailTurn(t) ==
    /\ LeaveLoop(t)
    /\ Emit(t, <<"error">>)
    /\ Go(t, "complete")
    /\ UNCHANGED <<conversation, activeMessage, cancelled, interruptEvent, local, rounds,
                   disk, usedSessions, nextId>>

\* The model call returns nothing usable, or the interrupt was seen after it.
BackendFails(t) ==
    /\ pc[t] = "backend"
    /\ FailTurn(t)

\* The model call raises. The exception is not a QueryTurnFailure: it leaves the
\* turn generator, and the outer handler emits a complete error output of its own.
BackendRaises(t) ==
    /\ pc[t] = "backend"
    /\ LeaveLoop(t)
    /\ Emit(t, <<"running", "error">>)
    /\ Go(t, "complete")
    /\ UNCHANGED <<conversation, activeMessage, cancelled, interruptEvent, local, rounds,
                   disk, usedSessions, nextId>>

\* A final answer. It ends the turn whatever the stop hooks and the budget check
\* say; stop hooks that refuse to continue may add their failures to the outputs.
BackendAnswers(t) ==
    /\ pc[t] = "backend"
    /\ ~interruptEvent
    /\ <<>> \in Responses
    /\ \E place \in {"answer", "blocked"} : Go(t, place)
    /\ UNCHANGED <<conversation, flags, local, rounds, emitted, disk, usedSessions, nextId>>

\* Mutant: the guard fires one round later.
LoopDetectedLate(l, response) == l.signature = response /\ l.streak >= 3

\* _guard_against_tool_loop: the round was already run twice in a row.
LoopDetected(l, response) == l.signature = response /\ l.streak >= 2

\* _track_tool_call_streak
NextStreak(l, response) == IF l.signature = response THEN l.streak + 1 ELSE 1

\* The model asks for tools.
BackendCallsTools(t) ==
    /\ pc[t] = "backend"
    /\ ~interruptEvent
    /\ \E response \in Responses \ {<<>>} :
          /\ ~LoopDetected(local[t], response)
          /\ SetLocal(t, [local[t] EXCEPT !.signature = response,
                                           !.streak = NextStreak(local[t], response),
                                           !.calls = response])
          /\ rounds' = [rounds EXCEPT ![t] = Append(@, response)]
    /\ Go(t, "tools")
    /\ UNCHANGED <<conversation, flags, emitted, disk, usedSessions, nextId>>

\* The model repeats itself: the turn fails instead of running the round.
LoopGuardStops(t) ==
    /\ pc[t] = "backend"
    /\ ~interruptEvent
    /\ \E response \in Responses \ {<<>>} : LoopDetected(local[t], response)
    /\ FailTurn(t)

-----------------------------------------------------------------------------
(* The tool calls of a round: _execute_tool_calls and _execute_tool_call. *)

\* Mutant: the interrupt is looked at before the round only.
StartCallInterrupted(t) ==
    /\ pc[t] = "tools"
    /\ local[t].calls # <<>>
    /\ AppendEntry("use", 0)
    /\ SetLocal(t, [local[t] EXCEPT !.openUse = nextId])
    /\ Go(t, "permission")
    /\ UNCHANGED <<sessionId, turnCount, savedSessions, snapshots, persistedCount, flags,
                   rounds, emitted, disk, usedSessions>>

StartCall(t) ==
    /\ pc[t] = "tools"
    /\ local[t].calls # <<>>
    /\ ~interruptEvent
    /\ AppendEntry("use", 0)
    /\ SetLocal(t, [local[t] EXCEPT !.openUse = nextId])
    /\ Go(t, "permission")
    /\ UNCHANGED <<sessionId, turnCount, savedSessions, snapshots, persistedCount, flags,
                   rounds, emitted, disk, usedSessions>>

\* The interrupt is looked at before each call.
InterruptedBeforeCall(t) ==
    /\ pc[t] = "tools"
    /\ local[t].calls # <<>>
    /\ interruptEvent
    /\ FailTurn(t)

\* _run_tool_call has decided to run the tool.
AllowCall(t) ==
    /\ pc[t] = "permission"
    /\ Go(t, "executing")
    /\ UNCHANGED <<conversation, flags, local, rounds, emitted, disk, usedSessions, nextId>>

NextCall(t) ==
    /\ SetLocal(t, [local[t] EXCEPT !.calls = Tail(@), !.openUse = 0])
    /\ Go(t, "tools")

\* The tool is not allowed, or permission is denied by a rule, a hook, the
\* user or the host: the error text becomes the tool's result.
DenyCall(t) ==
    /\ pc[t] = "permission"
    /\ AppendEntry("result", local[t].openUse)
    /\ NextCall(t)
    /\ UNCHANGED <<sessionId, turnCount, savedSessions, snapshots, persistedCount, flags,
                   rounds, emitted, disk, usedSessions>>

\* Mutant: a tool that failed is tried again.
FinishCallRetries(t) ==
    /\ pc[t] = "executing"
    /\ Go(t, "permission")
    /\ UNCHANGED <<conversation, flags, local, rounds, emitted, disk, usedSessions, nextId>>

\* The tool has run, well or with a ToolError: its result is appended. The Snip
\* tool puts the transcript back through replace_transcript first (its token
\* estimate of transcript entries is 0, so it never removes one).
FinishCall(t) ==
    /\ pc[t] = "executing"
    /\ AppendEntry("result", local[t].openUse)
    /\ IF Head(local[t].calls) = SnipTool
       THEN /\ persistedCount' = 0
            /\ activeState' = RefreshedState(transcript)
            /\ savedSessions' = SavedWith(sessionId, transcript, turnCount)
       ELSE UNCHANGED <<persistedCount, activeState, savedSessions>>
    /\ NextCall(t)
    /\ UNCHANGED <<sessionId, turnCount, snapshots, inProgress, activeMessage, cancelled,
                   interruptEvent, rounds, emitted, disk, usedSessions>>

\* A hook, the permission callback or the tool raises anything else: the call
\* gets no result and the turn fails.
CrashCall(t) ==
    /\ ToolsCrash
    /\ pc[t] \in {"permission", "executing"}
    /\ FailTurn(t)

\* Mutant: the next round is asked with the transcript of the first.
AdvancedStateStale ==
    IF activeState = None THEN None
    ELSE [activeState EXCEPT !.continuations = @ + 1]

\* _advance_turn_state_after_tool_calls
AdvancedState ==
    IF activeState = None THEN None
    ELSE [transcript |-> transcript, continuations |-> activeState.continuations + 1]

RoundDone(t) == pc[t] = "tools" /\ local[t].calls = <<>>

\* Mutant: one more time than max_tool_continuations.
MayContinueOnce(t) == Len(rounds[t]) <= MaxToolContinuations

\* The loop may go round again.
MayContinue(t) == Len(rounds[t]) < MaxToolContinuations

\* The round is over and the budget is not exhausted: the model is asked again.
NextRound(t) ==
    /\ RoundDone(t)
    /\ ~interruptEvent
    /\ MayContinue(t)
    /\ UNCHANGED conversation
    /\ activeState' = AdvancedState
    /\ SetLocal(t, [local[t] EXCEPT !.sent = CurrentContext'])
    /\ Go(t, "backend")
    /\ UNCHANGED <<inProgress, activeMessage, cancelled, interruptEvent,
                   rounds, emitted, disk, usedSessions, nextId>>

\* The budget is exhausted after the round: a synthetic answer ends the turn.
BudgetExceeded(t) ==
    /\ RoundDone(t)
    /\ activeState' = AdvancedState
    /\ Go(t, "answer")
    /\ UNCHANGED <<conversation, inProgress, activeMessage, cancelled, interruptEvent,
                   local, rounds, emitted, disk, usedSessions, nextId>>

\* The interrupt is seen after the round, or the continuations are used up.
RoundFails(t) ==
    /\ RoundDone(t)
    /\ interruptEvent \/ ~MayContinue(t)
    /\ FailTurn(t)

-----------------------------------------------------------------------------
(* The end of a turn. *)

\* _build_assistant_outputs, then the loop generator is resumed and its finally
\* block runs. Failed stop hooks are reported as error results before the result
\* (one stands for any number of them).
EmitAnswer(t) ==
    /\ pc[t] \in {"answer", "blocked"}
    /\ AppendEntry("assistant", 0)
    /\ LeaveLoop(t)
    /\ Emit(t, IF pc[t] = "blocked" THEN <<"error", "result">> ELSE <<"result">>)
    /\ Go(t, "complete")
    /\ UNCHANGED <<sessionId, turnCount, savedSessions, snapshots, persistedCount,
                   activeMessage, cancelled, interruptEvent, local, rounds, disk, usedSessions>>

Ids(entries) == [i \in 1..Len(entries) |-> entries[i].id]

\* Mutant: the slice starts one entry too far in.
UnpersistedSkipsOne ==
    SubSeq(transcript, persistedCount + IF persistedCount = 0 THEN 1 ELSE 2, Len(transcript))

\* _transcript[_persisted_transcript_count:]
Unpersisted == SubSeq(transcript, persistedCount + 1, Len(transcript))

\* append_session_entries: n lines reach the file of the session.
WriteEntries(n) ==
    disk' = IF sessionId = None THEN disk
            ELSE [disk EXCEPT ![sessionId] = @ \o Ids(SubSeq(Unpersisted, 1, n))]

\* Mutant: the entries count as persisted although the append failed.
CountAfterFailure(written, n) ==
    IF sessionId # None THEN persistedCount + Len(Unpersisted) ELSE persistedCount

\* Mutant: the entry count is short by one.
CountAfterShort(written, n) ==
    IF written /\ sessionId # None /\ n > 0 THEN persistedCount + n - 1 ELSE persistedCount

CountAfter(written, n) ==
    IF written /\ sessionId # None THEN persistedCount + n ELSE persistedCount

\* _finalize_outputs and _record_turn_completion, then the finally block of
\* _handle_user_message_gen. The entries are counted as persisted when the whole
\* append succeeds; an OSError may leave some of them in the file, uncounted.
CompleteTurn(t) ==
    /\ pc[t] = "complete"
    /\ Emit(t, <<"idle">>)
    /\ \E written \in BOOLEAN, n \in 0..Len(Unpersisted) :
          /\ IF written THEN n = Len(Unpersisted) ELSE DiskFails
          /\ WriteEntries(n)
          /\ persistedCount' = IF local[t].reset THEN 0 ELSE CountAfter(written, n)
    /\ savedSessions' = SavedWith(sessionId, transcript, turnCount)
    /\ IF local[t].reset
       THEN /\ sessionId' = None
            /\ transcript' = <<>>
            /\ turnCount' = 0
       ELSE /\ turnCount' = turnCount + 1
            /\ UNCHANGED <<sessionId, transcript>>
    /\ activeMessage' = None
    /\ Go(t, "done")
    /\ UNCHANGED <<snapshots, inProgress, activeState, cancelled, interruptEvent, local,
                   rounds, usedSessions, nextId>>

-----------------------------------------------------------------------------
(* What other threads call on the runtime. *)

Interrupt ==
    /\ interruptEvent' = TRUE
    /\ UNCHANGED <<conversation, inProgress, activeState, activeMessage, cancelled, pc, local,
                   rounds, emitted, disk, usedSessions, nextId>>

\* cancel_async_message of the message of turn t, which interrupts when it is
\* the message being worked on and was not cancelled before.
CancelAsyncMessage(t) ==
    /\ t \notin cancelled
    /\ inProgress
    /\ activeMessage = t
    /\ cancelled' = cancelled \cup {t}
    /\ interruptEvent' = TRUE
    /\ UNCHANGED <<conversation, inProgress, activeState, activeMessage, pc, local,
                   rounds, emitted, disk, usedSessions, nextId>>

\* Mutant: clearing leaves no transcript at all.
ClearSessionToNone ==
    /\ savedSessions' = SavedWith(sessionId, transcript, turnCount)
    /\ sessionId' = None
    /\ transcript' = None
    /\ turnCount' = 0
    /\ persistedCount' = 0
    /\ UNCHANGED <<snapshots, flags, pc, local, rounds, emitted, disk, usedSessions, nextId>>

ClearSession ==
    /\ savedSessions' = SavedWith(sessionId, transcript, turnCount)
    /\ sessionId' = None
    /\ transcript' = <<>>
    /\ turnCount' = 0
    /\ persistedCount' = 0
    /\ UNCHANGED <<snapshots, flags, pc, local, rounds, emitted, disk, usedSessions, nextId>>

-----------------------------------------------------------------------------
Prepare(t) ==
    \/ PreparePrompt(t) \/ PrepareLocal(t) \/ PrepareRaises(t) \/ Rewind(t)
    \/ Resume(t) \/ CompactStart(t) \/ CompactRefused(t) \/ CompactFinish(t)
    \/ Rollback(t)

Query(t) ==
    \/ BeginTurn(t) \/ BackendFails(t) \/ BackendRaises(t) \/ BackendAnswers(t)
    \/ BackendCallsTools(t) \/ LoopGuardStops(t)

CallTools(t) ==
    \/ StartCall(t) \/ InterruptedBeforeCall(t) \/ FinishCall(t) \/ CrashCall(t)
    \/ NextRound(t) \/ BudgetExceeded(t) \/ RoundFails(t)

Permit(t) == AllowCall(t) \/ DenyCall(t)

\* A step of a turn that has started.
TurnStep(t) ==
    Prepare(t) \/ Query(t) \/ CallTools(t) \/ Permit(t) \/ EmitAnswer(t) \/ CompleteTurn(t)

\* Turns start, run and are disturbed in any order: the most any host can do.
Next ==
    \/ \E t \in Turns : HandleUserMessage(t) \/ TurnStep(t) \/ CancelAsyncMessage(t)
    \/ Interrupt
    \/ ClearSession

Spec == Init /\ [][Next]_vars

-----------------------------------------------------------------------------
(* Properties that hold however the turns are interleaved. *)

\* The values each variable takes.
TypeOK ==
    /\ sessionId \in Sessions \cup {None}
    /\ transcript \in Transcripts
    /\ turnCount \in Nat
    /\ savedSessions \in [Sessions -> Saved \cup {None}]
    /\ snapshots \in [Sessions -> Saved \cup {None}]
    /\ persistedCount \in Nat
    /\ inProgress \in BOOLEAN
    /\ activeState \in ActiveStates \cup {None}
    /\ activeMessage \in Turns \cup {None}
    /\ cancelled \subseteq Turns
    /\ interruptEvent \in BOOLEAN
    /\ pc \in [Turns -> Places]
    /\ local \in [Turns -> Locals]
    /\ rounds \in [Turns -> Seq(Responses)]
    /\ emitted \in [Turns -> Seq(Messages)]
    /\ disk \in [Sessions -> Seq(Nat)]
    /\ usedSessions \subseteq Sessions
    /\ nextId \in Nat

\* The tool-loop guard (_guard_against_tool_loop): whatever the model answers,
\* and whatever other threads do, no turn runs the same tool calls three rounds
\* in a row.
NoThirdIdenticalRound ==
    \A t \in Turns : \A i \in 1..(Len(rounds[t]) - 2) :
        ~(rounds[t][i] = rounds[t][i + 1] /\ rounds[t][i + 1] = rounds[t][i + 2])

\* A turn never runs more rounds of tools than max_tool_continuations.
RoundsCapped == \A t \in Turns : Len(rounds[t]) <= MaxToolContinuations

\* What a host sees of a turn: it starts with "running"; "idle" comes last and at
\* once after the result, good or bad, and a turn that is over has said so; a good
\* result is the only one and nothing but "idle" follows it.
ResultThenIdle ==
    \A t \in Turns :
        LET out == emitted[t]
            At(message) == {i \in 1..Len(out) : out[i] = message}
        IN  /\ (pc[t] = "done") <=> (At("idle") # {})
            /\ \A i \in At("idle") :
                  /\ i = Len(out)
                  /\ i > 2
                  /\ out[1] = "running"
                  /\ out[i - 1] \in {"result", "error"}
            /\ \A i \in At("result"), j \in 1..Len(out) : i < j => out[j] = "idle"

-----------------------------------------------------------------------------
(* A property of any host that runs one turn at a time.                       *)

Paired(entries) ==
    \A i \in 1..Len(entries) :
        /\ entries[i].kind = "use" =>
              /\ i < Len(entries)
              /\ entries[i + 1].kind = "result"
              /\ entries[i + 1].ref = entries[i].id
        /\ entries[i].kind = "result" =>
              /\ i > 1
              /\ entries[i - 1].kind = "use"
              /\ entries[i - 1].id = entries[i].ref

\* The provider refuses a conversation in which a tool use is not answered by
\* its result at once: no request contains one, nor a result without its use,
\* across tool failures, denials, compaction and its rollback.
RequestPaired == \A t \in Turns : pc[t] = "backend" => Paired(local[t].sent)
=============================================================================
