------------------------------ MODULE LspClient ------------------------------
(* Requests of LSPClient (services/lsp/client.py) during the life of one      *)
(* server process.  Callers run on their own threads and take no lock; the    *)
(* reader thread handles responses; stop() may come at any time.  The step    *)
(* from a request's id to the next one has no call in it, where CPython could *)
(* switch threads, so it is one action; every other statement on the shared   *)
(* dictionaries is a step.                                                    *)
EXTENDS Naturals, FiniteSets

CONSTANTS
    LspCallers,     \* threads that send requests
    MaxRequests     \* bound: requests sent in the life of the client

NoAnswer == 0       \* None: send_request returns nothing

ASSUME LspAssumption == MaxRequests \in Nat

RequestIds == 1..MaxRequests

VARIABLES
    nextId,         \* _next_id
    pendingIds,     \* ids in _pending
    eventsSet,      \* ids whose Event is set
    results,        \* ids in _results; the result of id is written id
    handling,       \* id the reader has popped from _pending, with its event
    unanswered,     \* requests the server has and has not answered
    running,        \* the process is there and the client initialized
    stopPhase,      \* what is left of stop(): no, events or clear
    call,           \* per caller: idle, named, sent, waiting
    requestId,      \* per caller the id of its request
    returned,       \* per caller what its last call returned
    answered        \* per caller: its response was handled before it gave up

lspVars == <<nextId, pendingIds, eventsSet, results, handling, unanswered,
             running, stopPhase, call, requestId, returned, answered>>

LspInit ==
    /\ nextId = 1
    /\ pendingIds = {} /\ eventsSet = {} /\ results = {} /\ handling = {}
    /\ unanswered = {}
    /\ running = TRUE
    /\ stopPhase = "no"
    /\ call = [c \in LspCallers |-> "idle"]
    /\ requestId = [c \in LspCallers |-> 0]
    /\ returned = [c \in LspCallers |-> NoAnswer]
    /\ answered = [c \in LspCallers |-> FALSE]

(* send_request: the check of _is_initialized, then the id.                   *)
TakeId(c) ==
    /\ call[c] = "idle" /\ running
    /\ nextId <= MaxRequests
    /\ requestId' = [requestId EXCEPT ![c] = nextId]
    /\ nextId' = nextId + 1
    /\ call' = [call EXCEPT ![c] = "named"]
    /\ answered' = [answered EXCEPT ![c] = FALSE]
    /\ UNCHANGED <<pendingIds, eventsSet, results, handling, unanswered, running,
                   stopPhase, returned>>

(* The Event is registered and the request written; nothing is written once   *)
(* the process is gone.                                                       *)
SendRequest(c) ==
    /\ call[c] = "named"
    /\ pendingIds' = pendingIds \cup {requestId[c]}
    /\ unanswered' = IF running THEN unanswered \cup {requestId[c]} ELSE unanswered
    /\ call' = [call EXCEPT ![c] = "sent"]
    /\ UNCHANGED <<nextId, eventsSet, results, handling, running, stopPhase, requestId,
                   returned, answered>>

Return(c, value) ==
    /\ returned' = [returned EXCEPT ![c] = value]
    /\ call' = [call EXCEPT ![c] = "idle"]

(* _wait_for_result looks the Event up: without one it returns None.          *)
LookUpEvent(c) ==
    /\ call[c] = "sent"
    /\ IF requestId[c] \in pendingIds
       THEN call' = [call EXCEPT ![c] = "waiting"] /\ UNCHANGED returned
       ELSE Return(c, NoAnswer)
    /\ UNCHANGED <<nextId, pendingIds, eventsSet, results, handling, unanswered,
                   running, stopPhase, requestId, answered>>

(* The wait ends because the Event is set or after its timeout.               *)
TakeResult(c) ==
    /\ call[c] = "waiting"
    /\ LET id == requestId[c] IN
       /\ Return(c, IF id \in results THEN id ELSE NoAnswer)
       /\ results' = results \ {id}
    /\ UNCHANGED <<nextId, pendingIds, eventsSet, handling, unanswered, running, stopPhase,
                   requestId, answered>>

(* The reader gets the response to id: it pops the Event first ...            *)
ReadResponse(id) ==
    /\ running
    /\ handling = {}
    /\ id \in unanswered
    /\ unanswered' = unanswered \ {id}
    /\ pendingIds' = pendingIds \ {id}
    /\ handling' = {<<id, id \in pendingIds>>}
    /\ UNCHANGED <<nextId, eventsSet, results, running, stopPhase, call, requestId, returned,
                   answered>>

(* Mutant: a response that is an error wakes nobody.                          *)
StoreResponseOnly ==
    /\ handling # {}
    /\ \E h \in handling :
        /\ results' = results \cup {h[1]}
        /\ answered' = [c \in LspCallers |->
                            answered[c] \/ (requestId[c] = h[1] /\ call[c] # "idle")]
    /\ handling' = {}
    /\ UNCHANGED <<nextId, pendingIds, eventsSet, unanswered, running, stopPhase, call,
                   requestId, returned>>

(* ... and stores the result and sets the Event afterwards.                   *)
StoreResponse ==
    /\ handling # {}
    /\ \E h \in handling :
        /\ results' = results \cup {h[1]}
        /\ eventsSet' = IF h[2] THEN eventsSet \cup {h[1]} ELSE eventsSet
        /\ answered' = [c \in LspCallers |->
                            answered[c] \/ (requestId[c] = h[1] /\ call[c] # "idle")]
    /\ handling' = {}
    /\ UNCHANGED <<nextId, pendingIds, unanswered, running, stopPhase, call, requestId, returned>>

(* stop(): the process is gone and the client not initialized, ...            *)
StopBegins ==
    /\ running
    /\ running' = FALSE
    /\ stopPhase' = "events"
    /\ unanswered' = {}
    /\ UNCHANGED <<nextId, pendingIds, eventsSet, results, handling, call, requestId,
                   returned, answered>>

(* ... then every registered Event is set, ...                                *)
StopSetsEvents ==
    /\ stopPhase = "events"
    /\ stopPhase' = "clear"
    /\ eventsSet' = eventsSet \cup pendingIds
    /\ UNCHANGED <<nextId, pendingIds, results, handling, unanswered, running, call,
                   requestId, returned, answered>>

(* ... and the dictionaries are cleared, with what came in meanwhile.         *)
StopClears ==
    /\ stopPhase = "clear"
    /\ stopPhase' = "no"
    /\ pendingIds' = {}
    /\ results' = {}
    /\ UNCHANGED <<nextId, eventsSet, handling, unanswered, running, call, requestId,
                   returned, answered>>

LspNext ==
    \/ \E c \in LspCallers : TakeId(c) \/ SendRequest(c) \/ LookUpEvent(c) \/ TakeResult(c)
    \/ \E id \in RequestIds : ReadResponse(id)
    \/ StoreResponse
    \/ StopBegins \/ StopSetsEvents \/ StopClears

LspSpec == LspInit /\ [][LspNext]_lspVars

(* A caller that waits is not forgotten while the server runs: its Event is   *)
(* registered, set or in the reader's hand.  (stop() can forget it: an Event  *)
(* registered between its loop and its clear is dropped without being set.)   *)
WaiterIsReachable ==
    \A c \in LspCallers : (running /\ call[c] = "waiting") =>
        \/ requestId[c] \in pendingIds \cup eventsSet
        \/ <<requestId[c], TRUE>> \in handling

(* "Send an RPC request and wait for the response": a call does not come back *)
(* empty-handed when its response was handled in time.                        *)
AnswerIsReturned ==
    \A c \in LspCallers : (call[c] = "idle" /\ answered[c] /\ running)
                              => returned[c] = requestId[c]
=============================================================================
