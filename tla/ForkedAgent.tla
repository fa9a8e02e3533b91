------------------------------ MODULE ForkedAgent ------------------------------
(* Turns of a persistent forked agent: SendMessage (tools/agent_tools.py)     *)
(* numbers a turn by the length of the session, ForkedAgentProcess            *)
(* (fork/process.py) sends it and waits, the child (fork/child_main.py)       *)
(* answers turns in order and echoes their number.  The reader thread routes  *)
(* a result by that number.  Senders and reader share the two dictionaries    *)
(* without a lock, so each access is a step.                                  *)
EXTENDS Naturals, Sequences, FiniteSets

CONSTANTS
    Senders,        \* threads that call SendMessage on this agent
    MaxMessages     \* bound: messages sent to the agent

Nobody == 0
NoReply == 0

ASSUME ForkAssumption == MaxMessages \in Nat

VARIABLES
    exchanges,      \* len(session.exchanges)
    messages,       \* number of messages so far: message m is the m-th
    sender,         \* per thread: idle, counted, registered, waiting, woken, recording
    turnOf,         \* per thread the number of its turn
    messageOf,      \* per thread its message
    replyTo,        \* per thread the message whose reply it took
    waiterOf,       \* _pending_turns: per turn the message whose Event it is
    wakened,        \* messages whose Event is set
    turnResults,    \* _pending_results: per turn the message replied to
    toChild,        \* turns on the child's stdin
    fromChild,      \* results on the child's stdout
    routing,        \* the result the reader has looked the Event up for
    queuedLate,     \* results put in _message_queue because nobody waited
    childUp,        \* the child runs and answers
    attached        \* _process is set

forkVars == <<exchanges, messages, sender, turnOf, messageOf, replyTo, waiterOf,
              wakened, turnResults, toChild, fromChild, routing, queuedLate,
              childUp, attached>>

Turn == 0..MaxMessages + 1

(* The agent's first turn (number 0) is over: one exchange is recorded.       *)
ForkInit ==
    /\ exchanges = 1
    /\ messages = 0
    /\ sender = [s \in Senders |-> "idle"]
    /\ turnOf = [s \in Senders |-> 0]
    /\ messageOf = [s \in Senders |-> 0]
    /\ replyTo = [s \in Senders |-> NoReply]
    /\ waiterOf = [t \in Turn |-> Nobody]
    /\ wakened = {}
    /\ turnResults = [t \in Turn |-> NoReply]
    /\ toChild = <<>> /\ fromChild = <<>> /\ routing = <<>>
    /\ queuedLate = {}
    /\ childUp = TRUE /\ attached = TRUE

(* turn_count = len(session.exchanges), if the process is running.            *)
CountTurn(s) ==
    /\ sender[s] = "idle" /\ attached /\ childUp
    /\ messages < MaxMessages
    /\ messages' = messages + 1
    /\ messageOf' = [messageOf EXCEPT ![s] = messages + 1]
    /\ turnOf' = [turnOf EXCEPT ![s] = exchanges]
    /\ replyTo' = [replyTo EXCEPT ![s] = NoReply]
    /\ sender' = [sender EXCEPT ![s] = "counted"]
    /\ UNCHANGED <<exchanges, waiterOf, wakened, turnResults, toChild, fromChild,
                   routing, queuedLate, childUp, attached>>

RegisterTurn(s) ==
    /\ sender[s] = "counted"
    /\ waiterOf' = [waiterOf EXCEPT ![turnOf[s]] = messageOf[s]]
    /\ sender' = [sender EXCEPT ![s] = "registered"]
    /\ UNCHANGED <<exchanges, messages, turnOf, messageOf, replyTo, wakened,
                   turnResults, toChild, fromChild, routing, queuedLate, childUp,
                   attached>>

(* _send: an error when the process is gone, silence when only its stdin is.  *)
SendTurn(s) ==
    /\ sender[s] = "registered"
    /\ IF attached
       THEN /\ sender' = [sender EXCEPT ![s] = "waiting"]
            /\ toChild' = IF childUp THEN Append(toChild, [turn |-> turnOf[s], message |-> messageOf[s]])
                                     ELSE toChild
            /\ UNCHANGED waiterOf
       ELSE /\ sender' = [sender EXCEPT ![s] = "recording"]
            /\ waiterOf' = [waiterOf EXCEPT ![turnOf[s]] = Nobody]
            /\ UNCHANGED toChild
    /\ UNCHANGED <<exchanges, messages, turnOf, messageOf, replyTo, wakened,
                   turnResults, fromChild, routing, queuedLate, childUp, attached>>

(* The wait ends; the entry of the turn is removed whoever it belongs to.  A  *)
(* timeout raises at once, otherwise the result is taken next.                *)
EndWait(s) ==
    /\ sender[s] = "waiting"
    /\ \/ messageOf[s] \in wakened /\ sender' = [sender EXCEPT ![s] = "woken"]
       \/ messageOf[s] \notin wakened /\ sender' = [sender EXCEPT ![s] = "recording"]
    /\ waiterOf' = [waiterOf EXCEPT ![turnOf[s]] = Nobody]
    /\ UNCHANGED <<exchanges, messages, turnOf, messageOf, replyTo, wakened,
                   turnResults, toChild, fromChild, routing, queuedLate, childUp,
                   attached>>

(* Mutant: the result is read and left in the dictionary.                     *)
TakeTurnResultCopy(s) ==
    /\ sender[s] = "woken"
    /\ replyTo' = [replyTo EXCEPT ![s] = turnResults[turnOf[s]]]
    /\ sender' = [sender EXCEPT ![s] = "recording"]
    /\ UNCHANGED <<exchanges, messages, turnOf, messageOf, waiterOf, wakened,
                   turnResults, toChild, fromChild, routing, queuedLate, childUp,
                   attached>>

TakeTurnResult(s) ==
    /\ sender[s] = "woken"
    /\ replyTo' = [replyTo EXCEPT ![s] = turnResults[turnOf[s]]]
    /\ turnResults' = [turnResults EXCEPT ![turnOf[s]] = NoReply]
    /\ sender' = [sender EXCEPT ![s] = "recording"]
    /\ UNCHANGED <<exchanges, messages, turnOf, messageOf, waiterOf, wakened,
                   toChild, fromChild, routing, queuedLate, childUp, attached>>

(* Mutant: only answered messages are recorded.                               *)
RecordReply(s) ==
    /\ sender[s] = "recording"
    /\ exchanges' = IF replyTo[s] = NoReply THEN exchanges ELSE exchanges + 1
    /\ sender' = [sender EXCEPT ![s] = "idle"]
    /\ UNCHANGED <<messages, turnOf, messageOf, replyTo, waiterOf, wakened,
                   turnResults, toChild, fromChild, routing, queuedLate, childUp,
                   attached>>

(* append_agent_exchange, also with the text of an error.                     *)
RecordExchange(s) ==
    /\ sender[s] = "recording"
    /\ exchanges' = exchanges + 1
    /\ sender' = [sender EXCEPT ![s] = "idle"]
    /\ UNCHANGED <<messages, turnOf, messageOf, replyTo, waiterOf, wakened,
                   turnResults, toChild, fromChild, routing, queuedLate, childUp,
                   attached>>

(* The child takes the next turn from its stdin and writes its result.        *)
ChildAnswers ==
    /\ childUp
    /\ toChild # <<>>
    /\ fromChild' = Append(fromChild, Head(toChild))
    /\ toChild' = Tail(toChild)
    /\ UNCHANGED <<exchanges, messages, sender, turnOf, messageOf, replyTo,
                   waiterOf, wakened, turnResults, routing, queuedLate, childUp,
                   attached>>

(* _route_message: the Event is looked up, then the result stored and the     *)
(* Event set; without an Event the result goes to the queue.                  *)
RouteResult ==
    /\ routing = <<>>
    /\ fromChild # <<>>
    /\ fromChild' = Tail(fromChild)
    /\ LET r == Head(fromChild) IN
       IF waiterOf[r.turn] = Nobody
       THEN queuedLate' = queuedLate \cup {r.message} /\ UNCHANGED routing
       ELSE routing' = <<[result |-> r, event |-> waiterOf[r.turn]]>> /\ UNCHANGED queuedLate
    /\ UNCHANGED <<exchanges, messages, sender, turnOf, messageOf, replyTo,
                   waiterOf, wakened, turnResults, toChild, childUp, attached>>

StoreResult ==
    /\ routing # <<>>
    /\ LET r == Head(routing) IN
       /\ turnResults' = [turnResults EXCEPT ![r.result.turn] = r.result.message]
       /\ wakened' = wakened \cup {r.event}
    /\ routing' = <<>>
    /\ UNCHANGED <<exchanges, messages, sender, turnOf, messageOf, replyTo,
                   waiterOf, toChild, fromChild, queuedLate, childUp, attached>>

(* The child dies: what it had not answered is lost, the waiters are not told.*)
ChildDies ==
    /\ childUp
    /\ childUp' = FALSE
    /\ toChild' = <<>>
    /\ UNCHANGED <<exchanges, messages, sender, turnOf, messageOf, replyTo,
                   waiterOf, wakened, turnResults, fromChild, routing, queuedLate,
                   attached>>

(* terminate() holds the lock until the child has stopped or is killed; the   *)
(* reader routes at most one more line before it finds _process to be None.   *)
Terminate ==
    /\ attached
    /\ attached' = FALSE
    /\ childUp' = FALSE
    /\ LET left == fromChild \o toChild IN
       fromChild' \in {<<>>, SubSeq(left, 1, IF left = <<>> THEN 0 ELSE 1)}
    /\ toChild' = <<>>
    /\ UNCHANGED <<exchanges, messages, sender, turnOf, messageOf, replyTo,
                   waiterOf, wakened, turnResults, routing, queuedLate>>

SenderStep(s) ==
    RegisterTurn(s) \/ SendTurn(s) \/ EndWait(s) \/ TakeTurnResult(s) \/ RecordExchange(s)

ForkNext ==
    \/ \E s \in Senders : CountTurn(s) \/ SenderStep(s)
    \/ ChildAnswers \/ RouteResult \/ StoreResult \/ ChildDies \/ Terminate

ForkSpec == ForkInit /\ [][ForkNext]_forkVars

(* A message is answered by its own reply or by an error, never by the reply  *)
(* to another message ("Thread-safe for concurrent send/recv operations").    *)
OwnReply == \A s \in Senders : replyTo[s] \in {NoReply, messageOf[s]}

(* A result is consumed once: it does not come back for a later turn after it *)
(* was taken, or was put in the queue of late messages.                       *)
ReplyUsedOnce ==
    \A s \in Senders : replyTo[s] # NoReply =>
        /\ replyTo[s] \notin queuedLate
        /\ \A t \in Turn : turnResults[t] # replyTo[s]
=============================================================================
