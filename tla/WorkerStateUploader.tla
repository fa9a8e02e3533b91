-------------------------- MODULE WorkerStateUploader --------------------------
(* The worker state of CCRClient: report_state() hands a patch to its         *)
(* WorkerStateUploader (cli/transports/worker_state.py), which keeps one PUT  *)
(* in flight and coalesces everything else into one pending patch.  A patch   *)
(* maps the keys it sets to the number of the report that set them.           *)
EXTENDS Naturals, FiniteSets

CONSTANTS
    MetadataKeys,   \* keys used inside external_metadata
    MaxReports      \* bound: calls of report_state

Status == "worker_status"
StateKeys == {Status} \cup MetadataKeys

ASSUME WorkerStateAssumption == Status \notin MetadataKeys /\ MaxReports \in Nat

NoPatch == [k \in {} |-> 0]     \* None and the empty patch are alike: falsy

VARIABLES
    patch,          \* _pending of the uploader
    patchDrains,    \* a _drain task is scheduled
    putPhase,       \* _inflight: free, starting, sending, sleeping or raised
    current,        \* the patch of the task in flight
    stateClosed,    \* _closed
    serverState,    \* what the server has, by key
    reports,        \* number of reports
    reported        \* per key the last report that set it

workerVars == <<patch, patchDrains, putPhase, current, stateClosed, serverState,
                reports, reported>>

WorkerInit ==
    /\ patch = NoPatch
    /\ patchDrains = FALSE
    /\ putPhase = "free"
    /\ current = NoPatch
    /\ stateClosed = FALSE
    /\ serverState = [k \in StateKeys |-> 0]
    /\ reports = 0
    /\ reported = [k \in StateKeys |-> 0]

(* _coalesce_patches: the keys of the overlay win; metadata is merged key by  *)
(* key, so that keys only the base has are kept.                              *)
Coalesce(base, overlay) ==
    [k \in DOMAIN base \cup DOMAIN overlay |->
        IF k \in DOMAIN overlay THEN overlay[k] ELSE base[k]]

ReportState(keys) ==
    /\ reports < MaxReports
    /\ reports' = reports + 1
    /\ LET report == [k \in {Status} \cup keys |-> reports + 1] IN
       /\ reported' = Coalesce(reported, report)
       /\ patch' = IF stateClosed THEN patch
                   ELSE IF patch = NoPatch THEN report
                   ELSE Coalesce(patch, report)
    /\ patchDrains' = (patchDrains \/ ~stateClosed)
    /\ UNCHANGED <<putPhase, current, stateClosed, serverState>>

CloseWorkerState ==
    /\ ~stateClosed
    /\ stateClosed' = TRUE
    /\ patch' = NoPatch
    /\ UNCHANGED <<patchDrains, putPhase, current, serverState, reports, reported>>

(* Mutant: a new patch is sent before the one that failed, which is put back. *)
DrainPatchFirst ==
    /\ patchDrains
    /\ patchDrains' = FALSE
    /\ IF putPhase \in {"free", "sleeping"} /\ ~stateClosed /\ patch # NoPatch
       THEN putPhase' = "starting" /\ current' = patch /\ patch' = current
       ELSE UNCHANGED <<putPhase, current, patch>>
    /\ UNCHANGED <<stateClosed, serverState, reports, reported>>

DrainPatch ==
    /\ patchDrains
    /\ patchDrains' = FALSE
    /\ IF putPhase = "free" /\ ~stateClosed /\ patch # NoPatch
       THEN putPhase' = "starting" /\ current' = patch /\ patch' = NoPatch
       ELSE UNCHANGED <<putPhase, current, patch>>
    /\ UNCHANGED <<stateClosed, serverState, reports, reported>>

(* The loop of _send_with_retry looks at _closed before every attempt.        *)
AttemptOrStop ==
    IF stateClosed
    THEN putPhase' = "free" /\ current' = NoPatch
    ELSE putPhase' = "sending" /\ UNCHANGED current

StartPut ==
    /\ putPhase = "starting"
    /\ AttemptOrStop
    /\ UNCHANGED <<patch, patchDrains, stateClosed, serverState, reports, reported>>

(* The server merges the patch (external).                                    *)
Applied == Coalesce(serverState, current)

(* Mutant: what came in during the PUT waits for the next report.             *)
PutSucceedsAlone ==
    /\ putPhase = "sending"
    /\ serverState' = Applied
    /\ putPhase' = "free"
    /\ current' = NoPatch
    /\ UNCHANGED <<patch, patchDrains, stateClosed, reports, reported>>

PutSucceeds ==
    /\ putPhase = "sending"
    /\ serverState' = Applied
    /\ putPhase' = "free"
    /\ current' = NoPatch
    /\ patchDrains' = (patchDrains \/ (patch # NoPatch /\ ~stateClosed))
    /\ UNCHANGED <<patch, stateClosed, reports, reported>>

PutFails ==
    /\ putPhase = "sending"
    /\ serverState' \in {serverState, Applied}
    /\ putPhase' = "sleeping"
    /\ UNCHANGED <<patch, patchDrains, current, stateClosed, reports, reported>>

(* request() catches aiohttp.ClientError only: the total timeout of a PUT is  *)
(* an asyncio.TimeoutError, which ends the task without resetting _inflight.  *)
PutRaises ==
    /\ putPhase = "sending"
    /\ serverState' \in {serverState, Applied}
    /\ putPhase' = "raised"
    /\ current' = NoPatch
    /\ UNCHANGED <<patch, patchDrains, stateClosed, reports, reported>>

(* Mutant: the retry forgets the patch it should absorb.                      *)
RetryPutForgets ==
    /\ putPhase = "sleeping"
    /\ putPhase' = IF stateClosed THEN "free" ELSE "sending"
    /\ current' = IF stateClosed THEN NoPatch ELSE current
    /\ patch' = NoPatch
    /\ UNCHANGED <<patchDrains, stateClosed, serverState, reports, reported>>

RetryPut ==
    /\ putPhase = "sleeping"
    /\ IF stateClosed
       THEN putPhase' = "free" /\ current' = NoPatch /\ UNCHANGED patch
       ELSE /\ putPhase' = "sending"
            /\ current' = Coalesce(current, patch)
            /\ patch' = NoPatch
    /\ UNCHANGED <<patchDrains, stateClosed, serverState, reports, reported>>

PutEnds == PutSucceeds \/ PutFails \/ PutRaises

WorkerNext ==
    \/ \E keys \in SUBSET MetadataKeys : ReportState(keys)
    \/ CloseWorkerState
    \/ DrainPatch
    \/ StartPut
    \/ PutEnds
    \/ RetryPut

WorkerFairness ==
    /\ WF_workerVars(DrainPatch)
    /\ WF_workerVars(StartPut)
    /\ WF_workerVars(PutEnds)
    /\ WF_workerVars(RetryPut)
    /\ SF_workerVars(PutSucceeds)

WorkerSpec == WorkerInit /\ [][WorkerNext]_workerVars /\ WorkerFairness

(* When the uploader is idle and open the server has the last value of every  *)
(* key, although most reports never had a PUT of their own.                   *)
ServerCaughtUp ==
    (/\ putPhase = "free" /\ ~patchDrains /\ ~stateClosed) => serverState = reported

(* Neither a retry nor a patch that was merged late puts back an older value. *)
ServerNeverGoesBack ==
    [][\A k \in StateKeys : serverState'[k] >= serverState[k]]_workerVars

(* Every report reaches the server unless the client is closed; a PUT that    *)
(* raises is excluded here.                                                   *)
ReportsReachServer ==
    []<>(stateClosed \/ putPhase = "raised" \/ serverState = reported)

(* "On failure: exponential backoff (clamped), retries indefinitely until     *)
(* success or close()": a report waits for ever only if the client is closed. *)
RetriedUntilSuccess == []<>(stateClosed \/ serverState = reported)
=============================================================================
