-------------------------------- MODULE TuiHost --------------------------------
(***************************************************************************)
(* The terminal UI of src/py_claw/ui/textual_app.py on top of the query    *)
(* engine.  The UI thread handles keys: submit a prompt, Esc (interrupt),  *)
(* ctrl+g (new session), the buttons of a permission dialog.  Each prompt  *)
(* runs in a worker thread of its own (_run_prompt), which blocks while    *)
(* its permission dialog is open.  Nothing stops the user from submitting  *)
(* a prompt while another one is still running; a Patient user does not.   *)
(***************************************************************************)
EXTENDS QueryEngine

CONSTANT Patient    \* the user waits for the last worker before submitting again
ASSUME PatientAssumption == Patient \in BOOLEAN

VARIABLES
    worker,            \* the worker thread of each prompt
    workersCancelled,  \* the workers with is_cancelled
    currentWorker,     \* _current_worker
    dialog,            \* the permission dialog of each prompt, and how Esc left it
    pendingDialog,     \* _pending_permission_dialog
    struck             \* history: what each prompt was doing when Esc was pressed

tui == <<worker, workersCancelled, currentWorker, dialog, pendingDialog, struck>>
tuiVars == <<vars, tui>>

TuiInit ==
    /\ Init
    /\ worker = [t \in Turns |-> "none"]
    /\ workersCancelled = {}
    /\ currentWorker = None
    /\ dialog = [t \in Turns |-> "none"]
    /\ pendingDialog = None
    /\ struck = [t \in Turns |-> "no"]

Running(t) == pc[t] \notin {"new", "done"}

\* What turn t is doing, seen from the keyboard.
Doing(t) == CASE Running(t) /\ dialog[t] = "open" -> "asking"
              [] Running(t) /\ dialog[t] # "open" -> "running"
              [] OTHER -> struck[t]

-----------------------------------------------------------------------------
(* The user. *)

\* _handle_submit
Submit(t) ==
    /\ worker[t] = "none"
    /\ Patient => \A u \in Turns : worker[u] \in {"none", "ended"}
    /\ worker' = [worker EXCEPT ![t] = "turn"]
    /\ currentWorker' = t
    /\ UNCHANGED <<vars, workersCancelled, dialog, pendingDialog, struck>>

\* Mutant: Esc does not answer the dialog.
HandleInterruptKeepsDialog ==
    /\ Interrupt
    /\ workersCancelled' = workersCancelled \cup ({currentWorker} \ {None})
    /\ currentWorker' = None
    /\ struck' = [t \in Turns |-> Doing(t)]
    /\ UNCHANGED <<worker, dialog, pendingDialog>>

\* Esc, _handle_interrupt: interrupt the engine, cancel the worker, answer "deny"
\* in the dialog that is pending.
HandleInterrupt ==
    /\ Interrupt
    /\ workersCancelled' = workersCancelled \cup ({currentWorker} \ {None})
    /\ currentWorker' = None
    /\ dialog' = [t \in Turns |-> IF t = pendingDialog /\ dialog[t] = "open"
                                  THEN "denied" ELSE dialog[t]]
    /\ struck' = [t \in Turns |-> Doing(t)]
    /\ UNCHANGED <<worker, pendingDialog>>

\* ctrl+g, action_new_session
NewSession == ClearSession /\ UNCHANGED tui

\* Mutant: the closed dialog stays the pending one.
CloseDialogHalf(t) ==
    /\ pendingDialog' = t
    /\ dialog' = [dialog EXCEPT ![t] = "none"]
    /\ UNCHANGED <<worker, workersCancelled, currentWorker, struck>>

CloseDialog(t) ==
    /\ dialog' = [dialog EXCEPT ![t] = "none"]
    /\ pendingDialog' = None
    /\ UNCHANGED <<worker, workersCancelled, currentWorker, struck>>

\* A button of the dialog: its worker goes on with the answer.
AnswerDialog(t) ==
    /\ dialog[t] = "open"
    /\ Permit(t)
    /\ CloseDialog(t)

-----------------------------------------------------------------------------
(* The worker threads. *)

\* _run_prompt, which looks at is_cancelled (CancelledWorkerReturns) before it calls
\* handle_user_message: Esc may come between the two.
StartWorker(t) ==
    /\ worker[t] = "turn"
    /\ pc[t] = "new"
    /\ HandleUserMessage(t)
    /\ UNCHANGED tui

EndWorker(t) ==
    /\ worker' = [worker EXCEPT ![t] = "ended"]
    /\ UNCHANGED <<workersCancelled, currentWorker, dialog, pendingDialog, struck>>

CancelledWorkerReturns(t) ==
    /\ worker[t] = "turn"
    /\ pc[t] \in {"new", "done"}
    /\ t \in workersCancelled
    /\ EndWorker(t)
    /\ UNCHANGED vars

\* The turn goes on; a rule, a hook or an earlier "always allow" decides about a
\* tool without asking the user.
WorkTurn(t) ==
    /\ dialog[t] = "none"
    /\ TurnStep(t)
    /\ UNCHANGED tui

\* _handle_permission_ask, up to event.wait().
OpenDialog(t) ==
    /\ pc[t] = "permission"
    /\ dialog[t] = "none"
    /\ dialog' = [dialog EXCEPT ![t] = "open"]
    /\ pendingDialog' = t
    /\ UNCHANGED <<vars, worker, workersCancelled, currentWorker, struck>>

\* The worker wakes up from a dialog that Esc denied.
DialogDenied(t) ==
    /\ dialog[t] = "denied"
    /\ DenyCall(t)
    /\ CloseDialog(t)

\* The outputs of the finished turn have been shown.
ShowOutputs(t) ==
    /\ worker[t] = "turn"
    /\ pc[t] = "done"
    /\ t \notin workersCancelled
    /\ worker' = [worker EXCEPT ![t] = "tail"]
    /\ UNCHANGED <<vars, workersCancelled, currentWorker, dialog, pendingDialog, struck>>

\* The last lines of _run_prompt clear the interrupt, whoever it was meant for.
ClearInterrupt(t) ==
    /\ worker[t] = "tail"
    /\ interruptEvent' = FALSE
    /\ EndWorker(t)
    /\ UNCHANGED <<conversation, inProgress, activeState, activeMessage, cancelled, pc, local,
                   rounds, emitted, disk, usedSessions, nextId>>

WorkerStep(t) ==
    \/ StartWorker(t) \/ CancelledWorkerReturns(t) \/ WorkTurn(t) \/ OpenDialog(t)
    \/ DialogDenied(t) \/ ShowOutputs(t) \/ ClearInterrupt(t)

TuiNext ==
    \/ \E t \in Turns : Submit(t) \/ AnswerDialog(t) \/ WorkerStep(t)
    \/ HandleInterrupt
    \/ NewSession

TuiSpec == TuiInit /\ [][TuiNext]_tuiVars

\* Worker threads keep running; the user need not do anything, not even answer.
FairTuiSpec == TuiSpec /\ \A t \in Turns : WF_tuiVars(WorkerStep(t))

-----------------------------------------------------------------------------
\* "Actually cancel the in-flight turn, not just the status text" (the comment
\* of _handle_interrupt): after Esc a turn that was running runs no further
\* round of tools and starts no further tool of the round it is in.
InterruptHolds ==
    [][\A t \in Turns : struck[t] # "no" =>
          /\ rounds'[t] = rounds[t]
          /\ ~(pc[t] = "tools" /\ pc'[t] = "permission")]_tuiVars

\* Esc while a permission dialog is open ends the turn although the user never
\* answers and the dialog has no timeout.
InterruptReleasesDialog ==
    \A t \in Turns : struck[t] = "asking" ~> pc[t] = "done"

\* When no worker is left the engine is at rest, although Esc, new sessions and
\* the end of the turn came in any order.
AtRestWithoutWorkers ==
    (\A t \in Turns : worker[t] \in {"none", "ended"}) =>
        /\ ~inProgress
        /\ activeState = None
        /\ pendingDialog = None
        /\ \A t \in Turns : dialog[t] = "none"
=============================================================================
