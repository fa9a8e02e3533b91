---------------------------- MODULE SequentialHost ----------------------------
(***************************************************************************)
(* The stream-json host of src/py_claw/cli/main.py (_run_stream_json) on   *)
(* top of the query engine.  Its loop reads one message from stdin at a    *)
(* time and drains the turn's output before it reads the next one, so at   *)
(* most one turn runs.  Control requests, an interrupt among them, are     *)
(* read by the same loop: they are only seen between two turns.            *)
(* (_run_print_mode is the instance with one turn.)                        *)
(***************************************************************************)
EXTENDS QueryEngine

Running(t) == pc[t] \notin {"new", "done"}
Quiet == \A t \in Turns : ~Running(t)

\* A user message is read: handle_user_message.
ReadMessage(t) == Quiet /\ HandleUserMessage(t)

\* A control request "interrupt" is read; no turn can be running.
ReadInterrupt == Quiet /\ Interrupt

SequentialNext ==
    \/ \E t \in Turns : ReadMessage(t) \/ TurnStep(t)
    \/ ReadInterrupt

SequentialSpec == Init /\ [][SequentialNext]_vars

\* The turn is in somebody else's hands: a permission question (the read of the
\* host's answer has no limit in time) or a tool that runs.
OutOfHands(t) == pc[t] \in {"permission", "executing"}

\* The turn's thread goes on while the turn is in its own hands; a request to the
\* model returns or raises (its reads have a time limit).
FairSequentialSpec ==
    SequentialSpec /\ \A t \in Turns : WF_vars(~OutOfHands(t) /\ TurnStep(t))

-----------------------------------------------------------------------------
Occurs(id, file) == \E i \in 1..Len(file) : file[i] = id

\* The model is asked about the conversation as it is: everything the turn added
\* in its earlier rounds is in what the model is given, although the turn loop
\* reads its own copy (_active_turn_state) and not the transcript.
ContextFresh == \A t \in Turns : pc[t] = "backend" => local[t].sent = transcript

\* Between turns nothing is left of the last one: not the in-progress flag (by
\* which cancel_async_message decides to interrupt), not the loop's state (which
\* replaces the transcript in the next request), not the message being worked on.
NothingLeftBehind ==
    Quiet => ~inProgress /\ activeState = None /\ activeMessage = None

\* An interrupt that arrives between two turns does not hit the next one.
NoStaleInterrupt == \A t \in Turns : Running(t) => ~interruptEvent

\* Between turns the conversation can be resumed as it is: the saved copy of its
\* session is up to date (_record_turn_completion).
SavedWhenQuiet ==
    Quiet /\ sessionId # None /\ transcript # <<>> =>
        /\ savedSessions[sessionId] # None
        /\ savedSessions[sessionId].transcript = transcript

\* What is counted as persisted is in the session's file, in the order of the
\* conversation, whatever appends failed half way before, and after a compaction
\* or a rollback replaced the transcript.
CountedIsOnDisk ==
    sessionId # None =>
        LET file == disk[sessionId] IN
        /\ persistedCount <= Len(transcript)
        /\ \A i, j \in 1..persistedCount :
              i < j => \E p, q \in 1..Len(file) :
                          p < q /\ file[p] = transcript[i].id /\ file[q] = transcript[j].id
        /\ persistedCount > 0 => Occurs(transcript[1].id, file)

\* Unless an append failed, everything said so far is in the file when no turn
\* runs.
AllWrittenWhenQuiet ==
    Quiet /\ ~DiskFails /\ sessionId # None =>
        \A i \in 1..Len(transcript) : Occurs(transcript[i].id, disk[sessionId])

\* Unless an append failed, no entry is in a session's file twice
\* (_persist_session_transcript: "Append not-yet-persisted transcript entries").
WrittenOnce ==
    ~DiskFails => \A s \in Sessions : \A i, j \in 1..Len(disk[s]) :
        disk[s][i] = disk[s][j] => i = j

\* Every message that was read is answered to the end, however often the model
\* asks for tools, unless one permission question or one tool call never returns.
EveryTurnEnds ==
    \A t \in Turns :
        pc[t] = "prepare" ~>
            (pc[t] = "done" \/ [](pc[t] = "permission") \/ [](pc[t] = "executing"))
=============================================================================
