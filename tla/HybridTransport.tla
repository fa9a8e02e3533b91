---------------------------- MODULE HybridTransport ----------------------------
(* HybridTransport (cli/transports/hybrid.py) on top of its uploader: stream  *)
(* events wait in a buffer for a timer or for the next other message, writers *)
(* wait until the queue is sent, close() leaves a grace period.               *)
EXTENDS SerialBatchUploader

CONSTANTS
    Writers,    \* tasks that call write, write_batch and flush
    MaxItems    \* bound: messages offered to the transport

Grace == "grace"    \* the task of close() that waits in flush()

(* The transport's uploader takes 500 of 100 000 items at a time.             *)
ASSUME HybridAssumption ==
    /\ Flushers = Writers \cup {Grace}
    /\ MaxBatch <= MaxQueue
    /\ MaxItems \in Nat

VARIABLES
    buffer,     \* _stream_event_buffer
    timer,      \* _stream_event_timer is set
    grace,      \* close()'s task: none, scheduled, waiting or over
    blocked,    \* writers that wait for room in the uploader's queue
    offered     \* number of messages written so far: message k is the k-th

hybridVars == <<buffer, timer, grace, blocked, offered>>
transportVars == <<uploaderVars, hybridVars>>

HybridInit ==
    /\ UploaderInit
    /\ buffer = <<>>
    /\ timer = FALSE
    /\ grace = "none"
    /\ blocked = {}
    /\ offered = 0

Free(w) == w \notin flushing \cup blocked

WriteStreamEvent(w) ==
    /\ Free(w)
    /\ offered < MaxItems
    /\ offered' = offered + 1
    /\ buffer' = Append(buffer, offered + 1)
    /\ timer' = TRUE
    /\ UNCHANGED <<uploaderVars, grace, blocked>>

(* enqueue(buffered + messages) and then flush() by a writer.                 *)
Offer(w, items) ==
    /\ buffer' = <<>>
    /\ timer' = FALSE
    /\ EnqueueEffect(items)
    /\ IF MayWait(items)
       THEN /\ blocked' = blocked \cup {w}
            /\ UNCHANGED <<flushing, kicked>>
       ELSE LET waits == pending' # <<>> \/ drain # "idle" IN
            /\ flushing' = IF waits THEN flushing \cup {w} ELSE flushing
            /\ kicked' = (kicked \/ waits)
            /\ UNCHANGED blocked
    /\ UNCHANGED <<uploaderClosed, drain, batch, failures, failureLimit,
                   received, grace>>

(* Mutant: a message overtakes the buffered stream events, which are lost.    *)
WriteMessagesAlone(w, n) ==
    /\ Free(w)
    /\ offered + n <= MaxItems
    /\ offered' = offered + n
    /\ Offer(w, [k \in 1..n |-> offered + k])

(* write() of another message (n = 1) and write_batch().                      *)
WriteMessages(w, n) ==
    /\ Free(w)
    /\ offered + n <= MaxItems
    /\ offered' = offered + n
    /\ Offer(w, buffer \o [k \in 1..n |-> offered + k])

FlushTransport(w) ==
    /\ Free(w)
    /\ Offer(w, buffer)
    /\ UNCHANGED offered

(* The delay of _flush_stream_events_delayed is over.                         *)
TimerFires ==
    /\ timer
    /\ timer' = FALSE
    /\ buffer' = <<>>
    /\ EnqueueEffect(buffer)
    /\ kicked' = (kicked \/ (~uploaderClosed /\ HasRoom(buffer)))
    /\ UNCHANGED <<uploaderClosed, drain, batch, failures, failureLimit,
                   flushing, received, grace, blocked, offered>>

CloseTransport ==
    /\ grace = "none"
    /\ grace' = "scheduled"
    /\ buffer' = <<>>
    /\ timer' = FALSE
    /\ settled' = settled \cup ToSet(buffer)
    /\ UNCHANGED <<pending, uploaderClosed, drain, kicked, batch, failures,
                   failureLimit, flushing, stranded, received, blocked, offered>>

(* graceful_close() starts; without anything to wait for it closes at once.   *)
GraceStarts ==
    /\ grace = "scheduled"
    /\ IF FlushWaits
       THEN grace' = "waiting" /\ Flush(Grace)
       ELSE grace' = "over" /\ CloseUploader
    /\ UNCHANGED <<buffer, timer, blocked, offered>>

(* The flush has returned or CLOSE_GRACE_MS are over.                         *)
GraceEnds ==
    /\ grace = "waiting"
    /\ grace' = "over"
    /\ CloseUploader
    /\ UNCHANGED <<buffer, timer, blocked, offered>>

UploaderMoves == UploaderStep /\ UNCHANGED hybridVars

HybridNext ==
    \/ \E w \in Writers :
        \/ WriteStreamEvent(w)
        \/ \E n \in 1..2 : WriteMessages(w, n)
        \/ FlushTransport(w)
    \/ TimerFires
    \/ CloseTransport
    \/ GraceStarts
    \/ GraceEnds
    \/ UploaderMoves

(* The event loop runs what is ready, timers go off, a POST ends within its   *)
(* timeout; and a server that is asked again and again accepts in the end.    *)
HybridFairness ==
    /\ WF_transportVars(StartDrain /\ UNCHANGED hybridVars)
    /\ WF_transportVars(Wake /\ UNCHANGED hybridVars)
    /\ WF_transportVars(PostEnds /\ UNCHANGED hybridVars)
    /\ SF_transportVars(PostSucceeds /\ UNCHANGED hybridVars)
    /\ WF_transportVars(TimerFires)
    /\ WF_transportVars(GraceStarts)
    /\ WF_transportVars(GraceEnds)

HybridSpec == HybridInit /\ [][HybridNext]_transportVars /\ HybridFairness

HybridTypeOK ==
    /\ UploaderTypeOK
    /\ buffer \in Seq(Nat)
    /\ timer \in BOOLEAN /\ (buffer # <<>> => timer)
    /\ grace \in {"none", "scheduled", "waiting", "over"}
    /\ blocked \subseteq Writers
    /\ offered \in 0..MaxItems

(* Messages never overtake each other: what the server gets for the first     *)
(* time comes in the order of the writes, through the stream buffer, the      *)
(* timer, retries and batches regrouped after a failure.                      *)
ReceivedInOrder ==
    \A i, j \in DOMAIN received : i < j => received[i] < received[j]

(* Every message is at the server, given up, stranded in a blocked enqueue or *)
(* still on its way: no hand-over between buffer, queue and batch drops one.  *)
NothingLost ==
    1..offered = UNION {ToSet(received), settled, stranded, ToSet(batch),
                        ToSet(pending), ToSet(buffer)}

(* The queue keeps to its limit (max_queue_size), however many messages are   *)
(* buffered and written at once; only while a batch that failed waits for its *)
(* retry may that batch come on top.                                          *)
QueueBound ==
    Len(pending) <= IF drain = "sleeping" THEN MaxQueue + MaxBatch ELSE MaxQueue

(* flush() returns while the uploader is open: nobody waits for ever for a    *)
(* queue that is being drained.                                               *)
FlushReturns ==
    \A w \in Writers : (w \in flushing /\ ~uploaderClosed) ~> (w \notin flushing)

(* The uploader and its transport implement the abstract queue: its queue is  *)
(* what is in flight or queued and not yet at the server.                     *)
Undelivered == Without(batch \o pending, ToSet(received))

Promise == INSTANCE DeliveryQueue WITH queue <- Undelivered, delivered <- received

DeliveredInOrder == Promise!DeliverySpec

(* "close: Resolves any blocked enqueue() and flush() callers."               *)
CloseReleases ==
    \A w \in Writers : (uploaderClosed /\ w \in blocked) ~> (w \notin blocked)
=============================================================================
