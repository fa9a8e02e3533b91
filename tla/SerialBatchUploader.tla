-------------------------- MODULE SerialBatchUploader --------------------------
(* SerialBatchEventUploader (cli/transports/serial_batch.py): a queue drained *)
(* by one task at a time in batches, with retries and an optional limit on    *)
(* consecutive failures.  It runs on one asyncio loop: an action is what runs *)
(* between two awaits.  Items are numbered in the order they are offered.     *)
EXTENDS Naturals, Sequences, FiniteSets, SequencesExt

CONSTANTS
    MaxBatch,       \* max_batch_size
    MaxQueue,       \* max_queue_size
    FailureLimits,  \* choices of max_consecutive_failures; 0 stands for None
    Flushers        \* tasks that may wait in flush()

ASSUME UploaderAssumption ==
    /\ MaxBatch \in Nat \ {0}
    /\ MaxQueue \in Nat \ {0}
    /\ FailureLimits \subseteq Nat

VARIABLES
    pending,        \* _pending
    uploaderClosed, \* _closed
    drain,          \* where the _drain task is: idle, sending or sleeping
    kicked,         \* a _drain task is scheduled and has not run yet
    batch,          \* the batch of the POST in flight
    failures,       \* consecutive failures (kept only when there is a limit)
    failureLimit,   \* max_consecutive_failures of this uploader
    flushing,       \* tasks waiting in flush()
    stranded,       \* items of enqueue calls that found no room
    received,       \* what the server got, in order of first receipt
    settled         \* items given up: dropped, refused or cleared by close

uploaderVars == <<pending, uploaderClosed, drain, kicked, batch, failures,
                  failureLimit, flushing, stranded, received, settled>>

UploaderInit ==
    /\ pending = <<>>
    /\ uploaderClosed = FALSE
    /\ drain = "idle"
    /\ kicked = FALSE
    /\ batch = <<>>
    /\ failures = 0
    /\ failureLimit \in FailureLimits
    /\ flushing = {}
    /\ stranded = {}
    /\ received = <<>>
    /\ settled = {}

(* Mutant: the queue is looked at without the items to be added.              *)
HasRoomNow(items) == items = <<>> \/ Len(pending) < MaxQueue

(* enqueue(items) with room, without room and after close: the wait for room  *)
(* is on an Event that nothing else refers to, so it never ends.              *)
HasRoom(items) == items = <<>> \/ Len(pending) + Len(items) <= MaxQueue

(* Mutant: without room the oldest queued item makes place.                   *)
EnqueueEvicting(items) ==
    IF uploaderClosed
    THEN settled' = settled \cup ToSet(items) /\ UNCHANGED <<pending, stranded>>
    ELSE LET kept == IF HasRoom(items) \/ pending = <<>> THEN pending ELSE Tail(pending) IN
         /\ pending' = kept \o items
         /\ settled' = settled \cup (ToSet(pending) \ ToSet(kept))
         /\ UNCHANGED stranded

EnqueueEffect(items) ==
    IF uploaderClosed
    THEN /\ settled' = settled \cup ToSet(items)
         /\ UNCHANGED <<pending, stranded>>
    ELSE IF HasRoom(items)
    THEN /\ pending' = pending \o items
         /\ UNCHANGED <<settled, stranded>>
    ELSE /\ stranded' = stranded \cup ToSet(items)
         /\ UNCHANGED <<settled, pending>>

MayWait(items) == ~uploaderClosed /\ ~HasRoom(items)

(* flush() by task w: nothing to wait for, or register and wait.              *)
FlushWaits == pending # <<>> \/ drain # "idle"

Flush(w) ==
    /\ flushing' = IF FlushWaits THEN flushing \cup {w} ELSE flushing
    /\ kicked' = (kicked \/ FlushWaits)
    /\ UNCHANGED <<pending, uploaderClosed, drain, batch, failures,
                   failureLimit, stranded, received, settled>>

(* close(): waiting flushes end, the queue is dropped; the POST in flight and *)
(* its retry go on.                                                           *)
CloseUploader ==
    /\ uploaderClosed' = TRUE
    /\ settled' = IF uploaderClosed THEN settled ELSE settled \cup ToSet(pending)
    /\ pending' = IF uploaderClosed THEN pending ELSE <<>>
    /\ flushing' = IF uploaderClosed THEN flushing ELSE {}
    /\ UNCHANGED <<drain, kicked, batch, failures, failureLimit, stranded, received>>

(* Mutant: a batch that failed goes to the end of the queue.                  *)
RequeueAtBack(b, p) == p \o b

(* A batch that failed goes to the front of the queue.                        *)
Requeue(b, p) == b \o p

(* Mutant: the end of the task does not release the flushes.                  *)
TakeOrEndSilently(q) ==
    LET n == IF Len(q) < MaxBatch THEN Len(q) ELSE MaxBatch
        take == q # <<>> /\ ~uploaderClosed
    IN  /\ drain' = IF take THEN "sending" ELSE "idle"
        /\ batch' = IF take THEN SubSeq(q, 1, n) ELSE <<>>
        /\ pending' = IF take THEN SubSeq(q, n + 1, Len(q)) ELSE q
        /\ UNCHANGED flushing

(* One turn of the loop of _drain over queue q: the next batch is taken, or   *)
(* the task ends and releases the flushes if nothing is left.                 *)
TakeOrEnd(q) ==
    IF q # <<>> /\ ~uploaderClosed
    THEN LET n == IF Len(q) < MaxBatch THEN Len(q) ELSE MaxBatch IN
         /\ drain' = "sending"
         /\ batch' = SubSeq(q, 1, n)
         /\ pending' = SubSeq(q, n + 1, Len(q))
         /\ UNCHANGED flushing
    ELSE /\ drain' = "idle"
         /\ batch' = <<>>
         /\ pending' = q
         /\ flushing' = IF q = <<>> THEN {} ELSE flushing

StartDrain ==
    /\ kicked
    /\ kicked' = FALSE
    /\ IF drain # "idle" \/ uploaderClosed
       THEN UNCHANGED <<drain, batch, pending, flushing, failures>>
       ELSE TakeOrEnd(pending) /\ failures' = 0
    /\ UNCHANGED <<uploaderClosed, failureLimit, stranded, received, settled>>

(* SelectSeq as a function that provers can unfold: s without what was seen.  *)
Without(s, seen) ==
    LET kept[n \in 0..Len(s)] ==
            IF n = 0 THEN <<>>
            ELSE IF s[n] \in seen THEN kept[n - 1] ELSE Append(kept[n - 1], s[n])
    IN  kept[Len(s)]

FirstReceipt(b) == Without(b, ToSet(received))

PostSucceeds ==
    /\ drain = "sending"
    /\ received' = received \o FirstReceipt(batch)
    /\ failures' = 0
    /\ TakeOrEnd(pending)
    /\ UNCHANGED <<kicked, uploaderClosed, failureLimit, stranded, settled>>

(* A refusal (4xx but 429, or no token): send returns normally.               *)
PostRefused ==
    /\ drain = "sending"
    /\ settled' = settled \cup ToSet(batch)
    /\ failures' = 0
    /\ TakeOrEnd(pending)
    /\ UNCHANGED <<kicked, uploaderClosed, failureLimit, stranded, received>>

(* A failure: the server may nevertheless have taken the batch.               *)
MaybeReceived ==
    \/ received' = received
    \/ received' = received \o FirstReceipt(batch)

GivesUp == failureLimit > 0 /\ failures + 1 >= failureLimit

PostFailsForGood ==
    /\ drain = "sending"
    /\ GivesUp
    /\ MaybeReceived
    /\ settled' = settled \cup ToSet(batch)
    /\ failures' = 0
    /\ TakeOrEnd(pending)
    /\ UNCHANGED <<kicked, uploaderClosed, failureLimit, stranded>>

PostFails ==
    /\ drain = "sending"
    /\ ~GivesUp
    /\ MaybeReceived
    /\ failures' = IF failureLimit = 0 THEN 0 ELSE failures + 1
    /\ pending' = Requeue(batch, pending)
    /\ batch' = <<>>
    /\ drain' = "sleeping"
    /\ UNCHANGED <<kicked, uploaderClosed, failureLimit, flushing, stranded,
                   settled>>

(* The back-off ends by its timer, or because close() ended it.               *)
Wake ==
    /\ drain = "sleeping"
    /\ TakeOrEnd(pending)
    /\ UNCHANGED <<kicked, uploaderClosed, failures, failureLimit, stranded,
                   received, settled>>

PostEnds == PostSucceeds \/ PostRefused \/ PostFails \/ PostFailsForGood

UploaderStep == StartDrain \/ PostEnds \/ Wake

UploaderTypeOK ==
    /\ pending \in Seq(Nat) /\ batch \in Seq(Nat) /\ received \in Seq(Nat)
    /\ drain \in {"idle", "sending", "sleeping"}
    /\ (batch # <<>>) <=> (drain = "sending")
    /\ {uploaderClosed, kicked} \subseteq BOOLEAN
    /\ failures \in Nat
    /\ flushing \subseteq Flushers
=============================================================================
