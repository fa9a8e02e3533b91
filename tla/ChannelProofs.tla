------------------------------ MODULE ChannelProofs ------------------------------
(* Proofs about the other channels to the far side: the worker state uploader *)
(* with one patch in flight, the WebSocket transport with its handshakes and  *)
(* receive loops, and the host's answers on stdin.                            *)
EXTENDS WorkerStateUploader, WebSocketTransport, HostChannel, Integers,
        SequenceTheorems, TLAPS

-----------------------------------------------------------------------------
(* Worker state.  The invariant follows a report on its way: what was last    *)
(* reported of a key is in the pending patch, else in the patch in flight,    *)
(* else at the server; and along this way the reports get older.              *)
Patches == UNION {[keys -> Nat] : keys \in SUBSET StateKeys}

WorkerTypeOK ==
    /\ patch \in Patches /\ current \in Patches
    /\ patchDrains \in BOOLEAN /\ stateClosed \in BOOLEAN
    /\ putPhase \in {"free", "starting", "sending", "sleeping", "raised"}
    /\ serverState \in [StateKeys -> Nat] /\ reported \in [StateKeys -> Nat]
    /\ reports \in Nat

OlderDownstream ==
    /\ \A k \in StateKeys : serverState[k] <= reports
    /\ \A k \in DOMAIN current : serverState[k] <= current[k] /\ current[k] <= reports
    /\ \A k \in DOMAIN patch :
        /\ serverState[k] <= patch[k] /\ patch[k] <= reports
        /\ k \in DOMAIN current => current[k] <= patch[k]

OnItsWay ==
    (~stateClosed /\ putPhase # "raised") =>
        \A k \in StateKeys :
            reported[k] = IF k \in DOMAIN patch THEN patch[k]
                          ELSE IF k \in DOMAIN current THEN current[k]
                          ELSE serverState[k]

NoneForgotten ==
    /\ (patch # NoPatch /\ putPhase = "free" /\ ~stateClosed) => patchDrains
    /\ putPhase \in {"free", "raised"} => current = NoPatch

WorkerInv == WorkerTypeOK /\ OlderDownstream /\ OnItsWay /\ NoneForgotten

(* A patch is a function on some of the keys.                                 *)
LEMMA PatchFacts ==
    ASSUME NEW p \in Patches
    PROVE  /\ DOMAIN p \subseteq StateKeys
           /\ \A k \in DOMAIN p : p[k] \in Nat
           /\ p = NoPatch <=> DOMAIN p = {}
<1>1. PICK keys \in SUBSET StateKeys : p \in [keys -> Nat]
    BY DEF Patches
<1>2. p = NoPatch <=> DOMAIN p = {}
    BY <1>1 DEF NoPatch
<1> QED BY <1>1, <1>2

LEMMA NoPatchFacts == NoPatch \in Patches /\ DOMAIN NoPatch = {}
BY DEF NoPatch, Patches

LEMMA CoalescePatches ==
    ASSUME NEW p \in Patches, NEW q \in Patches
    PROVE  Coalesce(p, q) \in Patches
<1>1. DOMAIN p \cup DOMAIN q \subseteq StateKeys
    BY PatchFacts
<1>2. Coalesce(p, q) \in [DOMAIN p \cup DOMAIN q -> Nat]
    BY PatchFacts DEF Coalesce
<1> QED BY <1>1, <1>2 DEF Patches

LEMMA CoalesceState ==
    ASSUME NEW f \in [StateKeys -> Nat], NEW p \in Patches
    PROVE  Coalesce(f, p) \in [StateKeys -> Nat]
BY PatchFacts DEF Coalesce

LEMMA WorkerStart == WorkerInit => WorkerInv
<1> SUFFICES ASSUME WorkerInit PROVE WorkerInv
    OBVIOUS
<1>1. WorkerTypeOK
    BY NoPatchFacts DEF WorkerInit, WorkerTypeOK
<1>2. OlderDownstream
    BY NoPatchFacts DEF WorkerInit, OlderDownstream
<1>3. OnItsWay /\ NoneForgotten
    BY NoPatchFacts DEF WorkerInit, OnItsWay, NoneForgotten
<1> QED BY <1>1, <1>2, <1>3 DEF WorkerInv

LEMMA ReportStateKeeps ==
    ASSUME WorkerInv, NEW keys \in SUBSET MetadataKeys, ReportState(keys)
    PROVE  WorkerInv'
<1> DEFINE report == [k \in {Status} \cup keys |-> reports + 1]
<1>0. WorkerTypeOK
    BY DEF WorkerInv
<1>1. /\ reports' = reports + 1 /\ reported' = Coalesce(reported, report)
      /\ patch' = (IF stateClosed THEN patch
                   ELSE IF patch = NoPatch THEN report ELSE Coalesce(patch, report))
      /\ patchDrains' = (patchDrains \/ ~stateClosed)
      /\ UNCHANGED <<putPhase, current, stateClosed, serverState>>
    BY DEF ReportState
<1>2. /\ report \in Patches /\ DOMAIN report = {Status} \cup keys
      /\ \A k \in DOMAIN report : report[k] = reports + 1
    <2>1. {Status} \cup keys \subseteq StateKeys
        BY DEF StateKeys
    <2>2. report \in [{Status} \cup keys -> Nat]
        BY <1>0 DEF WorkerTypeOK
    <2> QED BY <2>1, <2>2 DEF Patches
<1> HIDE DEF report
<1>3. /\ reported' \in [StateKeys -> Nat]
      /\ \A k \in StateKeys :
             reported'[k] = IF k \in DOMAIN report THEN reports + 1 ELSE reported[k]
    BY <1>0, <1>1, <1>2, CoalesceState DEF WorkerTypeOK, Coalesce
<1>4. ~stateClosed =>
          /\ DOMAIN patch' = DOMAIN patch \cup DOMAIN report
          /\ \A k \in DOMAIN patch' :
                 patch'[k] = IF k \in DOMAIN report THEN reports + 1 ELSE patch[k]
    <2>1. CASE ~stateClosed /\ patch = NoPatch
        BY <1>1, <1>2, <2>1, NoPatchFacts
    <2>2. CASE ~stateClosed /\ patch # NoPatch
        <3>1. patch' = Coalesce(patch, report)
            BY <1>1, <2>2
        <3>2. DOMAIN patch' = DOMAIN patch \cup DOMAIN report
            BY <3>1 DEF Coalesce
        <3>3. \A k \in DOMAIN patch' :
                  patch'[k] = IF k \in DOMAIN report THEN report[k] ELSE patch[k]
            BY <3>1, <3>2 DEF Coalesce
        <3> QED BY <1>2, <3>2, <3>3
    <2> QED BY <2>1, <2>2
<1>5. patch' \in Patches
    BY <1>0, <1>1, <1>2, CoalescePatches DEF WorkerTypeOK
<1>6. WorkerTypeOK'
    BY <1>0, <1>1, <1>3, <1>5 DEF WorkerTypeOK
<1>7. /\ DOMAIN patch \subseteq StateKeys /\ DOMAIN current \subseteq StateKeys
      /\ DOMAIN report \subseteq StateKeys
      /\ \A k \in StateKeys : serverState[k] \in Nat
      /\ \A k \in DOMAIN patch : patch[k] \in Nat
      /\ \A k \in DOMAIN current : current[k] \in Nat
      /\ reports \in Nat
    BY <1>0, <1>2, PatchFacts DEF WorkerTypeOK
<1>8. OlderDownstream'
    <2>1. CASE stateClosed
        BY <1>1, <1>7, <2>1 DEF WorkerInv, OlderDownstream
    <2>2. CASE ~stateClosed
        <3>1. \A k \in StateKeys : serverState'[k] <= reports'
            BY <1>1, <1>7 DEF WorkerInv, OlderDownstream
        <3>2. \A k \in DOMAIN current' : serverState'[k] <= current'[k] /\ current'[k] <= reports'
            BY <1>1, <1>7 DEF WorkerInv, OlderDownstream
        <3>3. ASSUME NEW k \in DOMAIN patch'
              PROVE  /\ serverState'[k] <= patch'[k] /\ patch'[k] <= reports'
                     /\ k \in DOMAIN current' => current'[k] <= patch'[k]
            <4>1. CASE k \in DOMAIN report
                BY <1>1, <1>4, <1>7, <2>2, <4>1 DEF WorkerInv, OlderDownstream
            <4>2. CASE k \notin DOMAIN report
                BY <1>1, <1>4, <1>7, <2>2, <3>3, <4>2 DEF WorkerInv, OlderDownstream
            <4> QED BY <4>1, <4>2
        <3> QED BY <3>1, <3>2, <3>3 DEF OlderDownstream
    <2> QED BY <2>1, <2>2
<1>9. OnItsWay'
    BY <1>1, <1>3, <1>4, <1>7 DEF WorkerInv, OnItsWay
<1>10. NoneForgotten'
    BY <1>1 DEF WorkerInv, NoneForgotten
<1> QED BY <1>6, <1>8, <1>9, <1>10 DEF WorkerInv

(* A PUT that reached the server: it has the patch in flight.                 *)
LEMMA AppliedFacts ==
    ASSUME WorkerTypeOK, OlderDownstream
    PROVE  /\ Applied \in [StateKeys -> Nat]
           /\ \A k \in StateKeys :
                  /\ Applied[k] = IF k \in DOMAIN current THEN current[k] ELSE serverState[k]
                  /\ serverState[k] <= Applied[k]
                  /\ Applied[k] <= reports
                  /\ k \in DOMAIN patch => Applied[k] <= patch[k]
<1>1. Applied \in [StateKeys -> Nat]
    BY CoalesceState DEF Applied, WorkerTypeOK
<1>2. DOMAIN current \subseteq StateKeys /\ DOMAIN serverState = StateKeys
    BY PatchFacts DEF WorkerTypeOK
<1>3. \A k \in StateKeys :
          Applied[k] = IF k \in DOMAIN current THEN current[k] ELSE serverState[k]
    BY <1>2 DEF Applied, Coalesce
<1>4. \A k \in StateKeys : serverState[k] \in Nat
    BY DEF WorkerTypeOK
<1> QED BY <1>1, <1>3, <1>4 DEF OlderDownstream

LEMMA PutKeeps ==
    ASSUME WorkerInv, putPhase = "sending", serverState' \in {serverState, Applied},
           \/ /\ current' = NoPatch /\ serverState' = Applied /\ putPhase' = "free"
              /\ patchDrains' = (patchDrains \/ (patch # NoPatch /\ ~stateClosed))
           \/ current' = NoPatch /\ putPhase' = "raised" /\ patchDrains' = patchDrains
           \/ current' = current /\ putPhase' = "sleeping" /\ patchDrains' = patchDrains,
           UNCHANGED <<patch, stateClosed, reports, reported>>
    PROVE  WorkerInv'
<1>0. WorkerTypeOK /\ OlderDownstream
    BY DEF WorkerInv
<1>1. /\ Applied \in [StateKeys -> Nat]
      /\ \A k \in StateKeys :
             /\ Applied[k] = IF k \in DOMAIN current THEN current[k] ELSE serverState[k]
             /\ serverState[k] <= Applied[k]
             /\ Applied[k] <= reports
             /\ k \in DOMAIN patch => Applied[k] <= patch[k]
    BY <1>0, AppliedFacts
<1>2. DOMAIN patch \subseteq StateKeys /\ DOMAIN current \subseteq StateKeys
    BY <1>0, PatchFacts DEF WorkerTypeOK
<1>3. WorkerTypeOK'
    BY <1>0, <1>1, NoPatchFacts DEF WorkerTypeOK
<1>4. OlderDownstream'
    <2>1. \A k \in StateKeys : serverState'[k] <= reports
        BY <1>0, <1>1 DEF OlderDownstream
    <2>2. \A k \in DOMAIN patch : serverState'[k] <= patch[k]
        BY <1>0, <1>1, <1>2 DEF OlderDownstream
    <2>3. \A k \in DOMAIN current : serverState'[k] <= current[k]
        BY <1>0, <1>1, <1>2, PatchFacts DEF OlderDownstream, WorkerTypeOK
    <2>4. current' = NoPatch \/ current' = current
        OBVIOUS
    <2> QED BY <1>0, <2>1, <2>2, <2>3, <2>4, NoPatchFacts DEF OlderDownstream
<1>5. OnItsWay'
    <2>1. CASE putPhase' = "free"
        BY <1>1, <2>1, NoPatchFacts DEF WorkerInv, OnItsWay
    <2>2. CASE putPhase' = "sleeping"
        BY <1>1, <2>2 DEF WorkerInv, OnItsWay
    <2> QED BY <2>1, <2>2 DEF OnItsWay
<1>6. NoneForgotten'
    BY DEF WorkerInv, NoneForgotten
<1> QED BY <1>3, <1>4, <1>5, <1>6 DEF WorkerInv

LEMMA RetryPutKeeps ==
    ASSUME WorkerInv, RetryPut
    PROVE  WorkerInv'
<1>0. WorkerTypeOK /\ OlderDownstream
    BY DEF WorkerInv
<1>1. putPhase = "sleeping" /\ UNCHANGED <<patchDrains, stateClosed, serverState, reports, reported>>
    BY DEF RetryPut
<1>2. CASE stateClosed
    <2>1. putPhase' = "free" /\ current' = NoPatch /\ patch' = patch
        BY <1>2 DEF RetryPut
    <2> QED BY <1>1, <1>2, <2>1, NoPatchFacts
            DEF WorkerInv, WorkerTypeOK, OlderDownstream, OnItsWay, NoneForgotten
<1>3. CASE ~stateClosed
    <2>1. /\ putPhase' = "sending" /\ current' = Coalesce(current, patch)
          /\ patch' = NoPatch
        BY <1>3 DEF RetryPut
    <2>2. /\ DOMAIN current' = DOMAIN current \cup DOMAIN patch
          /\ \A k \in DOMAIN current' :
                 current'[k] = IF k \in DOMAIN patch THEN patch[k] ELSE current[k]
        BY <2>1 DEF Coalesce
    <2>3. WorkerTypeOK'
        BY <1>0, <1>1, <2>1, CoalescePatches, NoPatchFacts DEF WorkerTypeOK
    <2>4. OlderDownstream'
        BY <1>0, <1>1, <2>1, <2>2, NoPatchFacts DEF OlderDownstream
    <2>5. OnItsWay'
        BY <1>1, <2>1, <2>2, NoPatchFacts DEF WorkerInv, OnItsWay
    <2>6. NoneForgotten'
        BY <2>1 DEF NoneForgotten
    <2> QED BY <2>3, <2>4, <2>5, <2>6 DEF WorkerInv
<1> QED BY <1>2, <1>3

LEMMA WorkerStep == WorkerInv /\ [WorkerNext]_workerVars => WorkerInv'
<1> SUFFICES ASSUME WorkerInv, [WorkerNext]_workerVars PROVE WorkerInv'
    OBVIOUS
<1>1. ASSUME NEW keys \in SUBSET MetadataKeys, ReportState(keys) PROVE WorkerInv'
    BY <1>1, ReportStateKeeps
<1>2. CASE CloseWorkerState
    BY <1>2, NoPatchFacts
       DEF CloseWorkerState, WorkerInv, WorkerTypeOK, OlderDownstream, OnItsWay, NoneForgotten
<1>3. CASE DrainPatch
    <2>1. CASE putPhase = "free" /\ ~stateClosed /\ patch # NoPatch
        <3>1. /\ putPhase' = "starting" /\ current' = patch /\ patch' = NoPatch
              /\ patchDrains' = FALSE /\ current = NoPatch
              /\ UNCHANGED <<stateClosed, serverState, reports, reported>>
            BY <1>3, <2>1 DEF DrainPatch, WorkerInv, NoneForgotten
        <3> QED BY <2>1, <3>1, NoPatchFacts
                DEF WorkerInv, WorkerTypeOK, OlderDownstream, OnItsWay, NoneForgotten
    <2>2. CASE ~(putPhase = "free" /\ ~stateClosed /\ patch # NoPatch)
        BY <1>3, <2>2
           DEF DrainPatch, WorkerInv, WorkerTypeOK, OlderDownstream, OnItsWay, NoneForgotten
    <2> QED BY <2>1, <2>2
<1>4. CASE StartPut
    BY <1>4, NoPatchFacts
       DEF StartPut, AttemptOrStop, WorkerInv, WorkerTypeOK, OlderDownstream, OnItsWay, NoneForgotten
<1>5. CASE PutEnds
    BY <1>5, PutKeeps DEF PutEnds, PutSucceeds, PutFails, PutRaises
<1>6. CASE RetryPut
    BY <1>6, RetryPutKeeps
<1>7. CASE UNCHANGED workerVars
    BY <1>7 DEF workerVars, WorkerInv, WorkerTypeOK, OlderDownstream, OnItsWay, NoneForgotten
<1> QED BY <1>1, <1>2, <1>3, <1>4, <1>5, <1>6, <1>7 DEF WorkerNext

(* Server, patch in flight and pending patch are in the order of the reports, key *)
(* by key, and the last report of each key is in one of them.                     *)
THEOREM WorkerInvariant == WorkerSpec => []WorkerInv
<1> QED BY WorkerStart, WorkerStep, PTL DEF WorkerSpec

(* An idle uploader has brought the server up to date.                        *)
THEOREM IdleMeansCaughtUp == WorkerSpec => []ServerCaughtUp
<1>1. ASSUME WorkerInv, putPhase = "free", ~patchDrains, ~stateClosed
      PROVE  serverState = reported
    <2>1. patch = NoPatch /\ current = NoPatch
        BY <1>1 DEF WorkerInv, NoneForgotten
    <2>2. \A k \in StateKeys : reported[k] = serverState[k]
        BY <1>1, <2>1, NoPatchFacts DEF WorkerInv, OnItsWay
    <2> QED BY <1>1, <2>2 DEF WorkerInv, WorkerTypeOK
<1>2. WorkerInv => ServerCaughtUp
    BY <1>1 DEF ServerCaughtUp
<1> QED BY <1>2, WorkerInvariant, PTL

(* No retry and no late merge takes a key of the server back.                 *)
THEOREM ServerGoesForward == WorkerSpec => ServerNeverGoesBack
<1> DEFINE Forward == \A k \in StateKeys : serverState'[k] >= serverState[k]
<1>1. ASSUME WorkerInv, [WorkerNext]_workerVars PROVE Forward
    <2>1. serverState' = serverState \/ serverState' = Applied
        BY <1>1 DEF WorkerNext, workerVars, ReportState, CloseWorkerState, DrainPatch,
                    StartPut, PutEnds, PutSucceeds, PutFails, PutRaises, RetryPut
    <2>2. \A k \in StateKeys : serverState[k] \in Nat /\ Applied[k] \in Nat
        BY <1>1, AppliedFacts DEF WorkerInv, WorkerTypeOK
    <2> QED BY <1>1, <2>1, <2>2, AppliedFacts DEF WorkerInv
<1>2. WorkerInv /\ [WorkerNext]_workerVars => [Forward]_workerVars
    BY <1>1
<1> QED BY <1>2, WorkerInvariant, PTL DEF WorkerSpec, ServerNeverGoesBack

-----------------------------------------------------------------------------
(* WebSocket.  A transport that says it is connected waits for a handshake or *)
(* for a receive loop to start, or is listened to.                            *)
WsTypeOK ==
    /\ wsState \in {"idle", "connected", "reconnecting", "closed"}
    /\ handshakes \in Nat /\ made \in Nat /\ loopsStarting \in Nat
    /\ handshakes + made <= MaxConnections
    /\ ws \in 0..made
    /\ listening \in [0..MaxConnections -> Nat]
    /\ up \subseteq 1..made
    /\ sending \in BOOLEAN /\ retryTimer \in BOOLEAN /\ strayTimer \in BOOLEAN

SomebodyComes ==
    (wsState = "connected" /\ handshakes = 0) => (loopsStarting > 0 \/ listening[ws] > 0)

WsInv == WsTypeOK /\ SomebodyComes

LEMMA WsStart == WsInit => WsInv
<1> SUFFICES ASSUME WsInit PROVE WsInv
    OBVIOUS
<1>1. listening \in [0..MaxConnections -> Nat] /\ up \subseteq 1..made
    BY DEF WsInit
<1>2. /\ handshakes \in Nat /\ made \in Nat /\ loopsStarting \in Nat
      /\ handshakes + made <= MaxConnections /\ ws \in 0..made
    BY WebSocketAssumption DEF WsInit
<1>3. WsTypeOK
    BY <1>1, <1>2 DEF WsInit, WsTypeOK
<1>4. SomebodyComes
    BY DEF WsInit, SomebodyComes
<1> QED BY <1>3, <1>4 DEF WsInv

LEMMA WsStep == WsInv /\ [WsNext]_wsVars => WsInv'
<1> SUFFICES ASSUME WsInv, [WsNext]_wsVars PROVE WsInv'
    OBVIOUS
<1> USE WebSocketAssumption DEF WsInv, WsTypeOK, SomebodyComes
<1>1. CASE Connect
    BY <1>1 DEF Connect, ConnectEffect, timers
<1>2. CASE HandshakeSucceeds
    BY <1>2 DEF HandshakeSucceeds, timers
<1>3. CASE HandshakeFails
    BY <1>3 DEF HandshakeFails, timers
<1>4. CASE LoopStarts
    BY <1>4 DEF LoopStarts, timers
<1>5. ASSUME NEW c \in 0..MaxConnections, ConnectionDrops(c) PROVE WsInv'
    BY <1>5 DEF ConnectionDrops, timers
<1>6. ASSUME NEW c \in 0..MaxConnections, LoopEnds(c) PROVE WsInv'
    <2>1. listening' \in [0..MaxConnections -> Nat]
        BY <1>6 DEF LoopEnds, LoopStops
    <2>2. wsState' # "connected" /\ wsState' \in {"idle", "reconnecting", "closed"}
        BY <1>6 DEF LoopEnds, HandleDisconnect
    <2>3. retryTimer' \in BOOLEAN /\ strayTimer' \in BOOLEAN
        BY <1>6 DEF LoopEnds, HandleDisconnect, timers
    <2> QED BY <1>6, <2>1, <2>2, <2>3 DEF LoopEnds, LoopStops
<1>7. CASE SendStarts
    BY <1>7 DEF SendStarts, timers
<1>8. CASE SendEnds
    BY <1>8 DEF SendEnds, HandleDisconnect, timers
<1>9. CASE RetryTimerFires
    BY <1>9 DEF RetryTimerFires, ConnectEffect
<1>10. CASE CloseWs
    BY <1>10 DEF CloseWs
<1>11. CASE UNCHANGED wsVars
    BY <1>11 DEF wsVars, timers
<1> QED BY <1>1, <1>2, <1>3, <1>4, <1>5, <1>6, <1>7, <1>8, <1>9, <1>10, <1>11 DEF WsNext

(* A connected transport has a receive loop on its connection, or one about to   *)
(* start, unless a handshake is under way.                                       *)
THEOREM WebSocketInvariant == WsSpec => []WsInv
<1> QED BY WsStart, WsStep, PTL DEF WsSpec

(* A transport that says it is connected is listened to.                      *)
THEOREM ConnectedListens == WsSpec => []ConnectedIsListening
<1>1. WsInv => ConnectedIsListening
    BY DEF WsInv, WsTypeOK, SomebodyComes, ConnectedIsListening
<1> QED BY <1>1, WebSocketInvariant, PTL

-----------------------------------------------------------------------------
(* The host.  Every line on its way, in the pipe, in the loop's buffer or in  *)
(* the channel's, is one the host sent, and a call is allowed by such a line. *)
Line == [kind : LineKinds, id : Nat, allow : BOOLEAN]

FromHost(s) == \A i \in 1..Len(s) : \E j \in 1..Len(lines) : lines[j] = s[i]

HostInv ==
    /\ HostTypeOK
    /\ asks \in 0..MaxAsks
    /\ stdin \in Seq(Line) /\ stdinBuffer \in Seq(Line) /\ lines \in Seq(Line)
    /\ FromHost(stdin) /\ FromHost(stdinBuffer)
    /\ piece \in Seq(Line) /\ FromHost(piece)
    /\ AllowedByItsAnswer

(* What the host sends is never taken back.                                   *)
LEMMA LinesStay ==
    ASSUME lines \in Seq(Line), NEW line \in Line, lines' = Append(lines, line)
    PROVE  /\ lines' \in Seq(Line) /\ Len(lines') = Len(lines) + 1
           /\ \A j \in 1..Len(lines) : lines'[j] = lines[j]
           /\ lines'[Len(lines) + 1] = line
BY LenProperties

(* The first line, the others, and a full chunk of them.                      *)
LEMMA PartsFromHost ==
    ASSUME NEW s \in Seq(Line), FromHost(s), NEW n \in 0..Len(s)
    PROVE  /\ SubSeq(s, 1, n) \in Seq(Line) /\ FromHost(SubSeq(s, 1, n))
           /\ SubSeq(s, n + 1, Len(s)) \in Seq(Line) /\ FromHost(SubSeq(s, n + 1, Len(s)))
<1>0. Len(s) \in Nat /\ \A i \in 1..Len(s) : s[i] \in Line
    BY LenProperties, ElementOfSeq
<1>1. /\ SubSeq(s, 1, n) \in Seq(Line) /\ Len(SubSeq(s, 1, n)) = n
      /\ \A i \in 1..n : SubSeq(s, 1, n)[i] = s[i]
    <2>1. 1 \in 1..(Len(s) + 1) /\ n \in 0..Len(s) /\ \A i \in 1..n : s[i] \in Line
        BY <1>0
    <2> QED BY <1>0, <2>1, SubSeqProperties
<1>2. /\ SubSeq(s, n + 1, Len(s)) \in Seq(Line)
      /\ Len(SubSeq(s, n + 1, Len(s))) \in 0..(Len(s) - n)
      /\ \A i \in 1..(Len(s) - n) : SubSeq(s, n + 1, Len(s))[i] = s[n + i]
    <2>1. \A i \in (n + 1)..Len(s) : s[i] \in Line
        BY <1>0
    <2> DEFINE rest == SubSeq(s, n + 1, Len(s))
    <2>2. /\ rest \in Seq(Line)
          /\ Len(rest) = IF n + 1 <= Len(s) THEN Len(s) - (n + 1) + 1 ELSE 0
          /\ \A i \in 1..(Len(s) - (n + 1) + 1) : rest[i] = s[(n + 1) + i - 1]
        BY <1>0, <2>1, SubSeqProperties
    <2> HIDE DEF rest
    <2>3. Len(rest) \in 0..(Len(s) - n)
        BY <1>0, <2>2
    <2>4. ASSUME NEW i \in 1..(Len(s) - n) PROVE rest[i] = s[n + i]
        <3>1. i \in 1..(Len(s) - (n + 1) + 1) /\ (n + 1) + i - 1 = n + i
            BY <1>0
        <3> QED BY <2>2, <3>1
    <2> QED BY <2>2, <2>3, <2>4 DEF rest
<1>3. FromHost(SubSeq(s, 1, n))
    BY <1>0, <1>1 DEF FromHost
<1>4. FromHost(SubSeq(s, n + 1, Len(s)))
    <2> DEFINE rest == SubSeq(s, n + 1, Len(s))
    <2>1. SUFFICES ASSUME NEW i \in 1..Len(rest) PROVE \E j \in 1..Len(lines) : lines[j] = rest[i]
        BY DEF FromHost
    <2>2. i \in 1..(Len(s) - n) /\ n + i \in 1..Len(s)
        BY <1>0, <1>2
    <2>3. rest[i] = s[n + i]
        BY <1>2, <2>2
    <2> HIDE DEF rest
    <2> QED BY <2>2, <2>3 DEF FromHost
<1> QED BY <1>1, <1>2, <1>3, <1>4

LEMMA TailFromHost ==
    ASSUME NEW s \in Seq(Line), FromHost(s), s # <<>>
    PROVE  /\ Tail(s) \in Seq(Line) /\ FromHost(Tail(s))
           /\ Head(s) \in Line /\ \E j \in 1..Len(lines) : lines[j] = Head(s)
<1>1. Len(s) \in Nat /\ Len(s) # 0
    BY LenProperties, EmptySeq
<1>2. /\ Tail(s) \in Seq(Line) /\ Head(s) \in Line /\ Len(Tail(s)) = Len(s) - 1
      /\ \A i \in 1..Len(Tail(s)) : Tail(s)[i] = s[i + 1]
    BY HeadTailProperties
<1>3. Head(s) = s[1] /\ 1 \in 1..Len(s)
    BY <1>1
<1>4. ASSUME NEW i \in 1..Len(Tail(s)) PROVE i + 1 \in 1..Len(s)
    BY <1>1, <1>2
<1> QED BY <1>2, <1>3, <1>4 DEF FromHost

LEMMA HostStart == HostInit => HostInv
<1> SUFFICES ASSUME HostInit PROVE HostInv
    OBVIOUS
<1>1. /\ stdin \in Seq(Line) /\ stdinBuffer \in Seq(Line) /\ lines \in Seq(Line)
      /\ FromHost(stdin) /\ FromHost(stdinBuffer)
      /\ piece \in Seq(Line) /\ FromHost(piece)
    BY EmptySeq DEF HostInit, FromHost
<1>2. HostTypeOK /\ asks \in 0..MaxAsks
    BY HostAssumption, EmptySeq DEF HostInit, HostTypeOK
<1>3. AllowedByItsAnswer
    BY DEF HostInit, AllowedByItsAnswer
<1> QED BY <1>1, <1>2, <1>3 DEF HostInv

(* Lines that are moved or taken: nobody is allowed anything by that.         *)
LEMMA LinesMove ==
    ASSUME HostInv, HostTypeOK', asks' \in 0..MaxAsks,
           stdin' \in Seq(Line), FromHost(stdin'),
           stdinBuffer' \in Seq(Line), FromHost(stdinBuffer'),
           piece' \in Seq(Line), FromHost(piece'),
           lines' = lines,
           \A r \in RequestNo : verdicts'[r] = "allow" => verdicts[r] = "allow"
    PROVE  HostInv'
<1>1. FromHost(stdin)' /\ FromHost(stdinBuffer)' /\ FromHost(piece)'
    BY DEF FromHost
<1>2. AllowedByItsAnswer'
    BY DEF HostInv, AllowedByItsAnswer
<1> QED BY <1>1, <1>2 DEF HostInv

(* Another line of the host, in the pipe and among those it has sent.         *)
LEMMA SendingKeeps ==
    ASSUME HostInv, NEW line \in HostLines,
           stdin' = Append(stdin, line), lines' = Append(lines, line),
           UNCHANGED <<mainLoop, piece, ahead, stdinBuffer, pendingRequests, asks,
                       waitingFor, verdicts>>
    PROVE  HostInv'
<1>0. /\ HostTypeOK /\ asks \in 0..MaxAsks /\ asks \in Nat /\ MaxAsks \in Nat
      /\ stdin \in Seq(Line) /\ stdinBuffer \in Seq(Line) /\ lines \in Seq(Line)
      /\ piece \in Seq(Line) /\ FromHost(piece)
      /\ FromHost(stdin) /\ FromHost(stdinBuffer) /\ AllowedByItsAnswer
    BY HostAssumption DEF HostInv
<1>1. line \in Line
    <2>1. \A k \in LineKinds : [kind |-> k, id |-> Nothing, allow |-> FALSE] \in Line
        BY DEF Line, Nothing
    <2>2. {"response"} \subseteq LineKinds /\ {Placeholder} \cup 1..asks \subseteq Nat
        BY <1>0 DEF LineKinds, Placeholder
    <2>3. [kind : {"response"}, id : {Placeholder} \cup 1..asks, allow : BOOLEAN] \subseteq Line
        BY <2>2 DEF Line
    <2> QED BY <2>1, <2>3 DEF HostLines
<1>2. /\ lines' \in Seq(Line) /\ Len(lines') = Len(lines) + 1 /\ Len(lines) \in Nat
      /\ \A j \in 1..Len(lines) : lines'[j] = lines[j]
      /\ lines'[Len(lines) + 1] = line
    BY <1>0, <1>1, LinesStay, LenProperties
<1>3. /\ stdin' \in Seq(Line) /\ Len(stdin') = Len(stdin) + 1 /\ Len(stdin) \in Nat
      /\ \A i \in 1..Len(stdin) : stdin'[i] = stdin[i]
      /\ stdin'[Len(stdin) + 1] = line
    BY <1>0, <1>1, LenProperties
<1>4. \A j \in 1..Len(lines) : j \in 1..Len(lines')
    BY <1>2
<1>5. FromHost(stdinBuffer)' /\ FromHost(piece)'
    BY <1>0, <1>2, <1>4 DEF FromHost
<1>6. FromHost(stdin)'
    <2>1. SUFFICES ASSUME NEW i \in 1..Len(stdin')
                   PROVE  \E j \in 1..Len(lines') : lines'[j] = stdin'[i]
        BY DEF FromHost
    <2>2. CASE i \in 1..Len(stdin)
        BY <1>0, <1>2, <1>3, <1>4, <2>2 DEF FromHost
    <2>3. CASE i = Len(stdin) + 1
        <3>1. Len(lines) + 1 \in 1..Len(lines')
            BY <1>2
        <3> QED BY <1>2, <1>3, <2>3, <3>1
    <2> QED BY <1>3, <2>2, <2>3
<1>7. DOMAIN lines = 1..Len(lines) /\ DOMAIN lines' = 1..Len(lines')
    BY <1>0, <1>2, LenProperties
<1>8. AllowedByItsAnswer'
    BY <1>0, <1>2, <1>4, <1>7 DEF AllowedByItsAnswer
<1>9. HostTypeOK' /\ asks' \in 0..MaxAsks
    BY <1>0 DEF HostTypeOK
<1> QED BY <1>0, <1>2, <1>3, <1>5, <1>6, <1>8, <1>9 DEF HostInv

(* What a drain returns are messages the loop handles.                        *)
LEMMA DrainedMessages ==
    ASSUME NEW s \in Seq(Line)
    PROVE  Drained(s) \in Seq({"user", "control"})
<1> DEFINE Messages == Seq({"user", "control"})
           first == IF prompt THEN <<"user">> ELSE <<>>
           second == IF s # <<>> /\ Head(s).kind \in {"user", "control"}
                     THEN <<Head(s).kind>> ELSE <<>>
<1>1. first \in Messages /\ second \in Messages
    <2>1. <<>> \in Messages
        BY EmptySeq
    <2>2. ASSUME NEW kind \in {"user", "control"} PROVE <<kind>> \in Messages
        OBVIOUS
    <2> HIDE DEF Messages
    <2>3. <<"user">> \in Messages
        BY <2>2
    <2>4. second \in Messages
        BY <2>1, <2>2
    <2> QED BY <2>1, <2>3, <2>4
<1>2. first \o second \in Messages
    <2> HIDE DEF first, second
    <2> QED BY <1>1, ConcatProperties
<1> QED BY <1>2 DEF Drained

LEMMA HostStep == HostInv /\ [HostNext]_hostVars => HostInv'
<1> SUFFICES ASSUME HostInv, [HostNext]_hostVars PROVE HostInv'
    OBVIOUS
<1>0. /\ HostTypeOK /\ asks \in 0..MaxAsks /\ asks \in Nat /\ MaxAsks \in Nat
      /\ stdin \in Seq(Line) /\ stdinBuffer \in Seq(Line) /\ lines \in Seq(Line)
      /\ piece \in Seq(Line) /\ FromHost(piece) /\ FromHost(<<>>) /\ <<>> \in Seq(Line)
      /\ FromHost(stdin) /\ FromHost(stdinBuffer) /\ AllowedByItsAnswer
    BY HostAssumption, EmptySeq DEF HostInv, FromHost
<1>1. ASSUME NEW line \in HostLines, HostSends(line) \/ HostClosesAfter(line) PROVE HostInv'
    BY <1>1, SendingKeeps DEF HostSends, HostClosesAfter, loopVars, requestVars, waitVars
<1>2. CASE MainReadsLine \/ MainReadsPiece
    <2>1. /\ stdin # <<>> /\ UNCHANGED <<lines, stdinBuffer, asks, waitingFor, verdicts>>
          /\ stdin' = Tail(stdin) \/ stdin' = <<>>
          /\ piece' \in {piece, stdin, <<>>}
          /\ ahead' \in {<<>>, Drained(stdin), Drained(<<>>)}
          /\ pendingRequests' \subseteq pendingRequests
          /\ mainLoop' \in {mainLoop, "over"}
        BY <1>2, EmptySeq DEF MainReadsLine, MainReadsPiece, RaiseOutOfLoop, ProcessLine,
                              ProcessResponse, requestVars, waitVars
    <2>2. stdin' \in Seq(Line) /\ FromHost(stdin')
        BY <1>0, <2>1, TailFromHost
    <2>3. piece' \in Seq(Line) /\ FromHost(piece')
        BY <1>0, <2>1
    <2>4. ahead' \in Seq({"user", "control"})
        <3>1. Drained(stdin) \in Seq({"user", "control"}) /\ Drained(<<>>) \in Seq({"user", "control"})
            BY <1>0, DrainedMessages
        <3>2. <<>> \in Seq({"user", "control"})
            BY EmptySeq
        <3> QED BY <2>1, <3>1, <3>2
    <2>5. HostTypeOK' /\ asks' \in 0..MaxAsks
        BY <1>0, <2>1, <2>4 DEF HostTypeOK
    <2>6. stdinBuffer' \in Seq(Line) /\ FromHost(stdinBuffer') /\ lines' = lines
          /\ \A r \in RequestNo : verdicts'[r] = "allow" => verdicts[r] = "allow"
        BY <1>0, <2>1
    <2> QED BY <2>2, <2>3, <2>5, <2>6, LinesMove
<1>3. CASE WaitReadsChunk
    <2> DEFINE n == IF Len(stdin) < ChunkLines THEN Len(stdin) ELSE ChunkLines
               ended == IF cut /\ n = Len(stdin) THEN n - 1 ELSE n
    <2>0. Len(stdin) \in Nat /\ Len(stdin) # 0
        BY <1>0, <1>3, LenProperties, EmptySeq DEF WaitReadsChunk
    <2>1. n \in 0..Len(stdin) /\ ended \in 0..Len(stdin)
        BY <2>0, HostAssumption
    <2>2. /\ stdinBuffer' = SubSeq(stdin, 1, ended) /\ stdin' = SubSeq(stdin, n + 1, Len(stdin))
          /\ UNCHANGED <<lines, mainLoop, piece, ahead, pendingRequests, asks, waitingFor, verdicts>>
        BY <1>3 DEF WaitReadsChunk, loopVars, requestVars
    <2> HIDE DEF n, ended
    <2>3. /\ stdin' \in Seq(Line) /\ FromHost(stdin')
          /\ stdinBuffer' \in Seq(Line) /\ FromHost(stdinBuffer')
        BY <1>0, <2>1, <2>2, PartsFromHost
    <2>4. HostTypeOK'
        BY <1>0, <2>2 DEF HostTypeOK
    <2> QED BY <1>0, <2>2, <2>3, <2>4, LinesMove
<1>4. CASE WaitTakesLine
    <2> DEFINE line == Head(stdinBuffer)
               id == AddressedTo(line)
    <2>0. waitingFor \in RequestNo /\ waitingFor \in 1..asks
        BY <1>0, <1>4 DEF WaitTakesLine, HostTypeOK, RequestNo, Nothing
    <2>1. /\ stdinBuffer' \in Seq(Line) /\ FromHost(stdinBuffer') /\ line \in Line
          /\ \E j \in 1..Len(lines) : lines[j] = line
        BY <1>0, <1>4, TailFromHost DEF WaitTakesLine
    <2>2. UNCHANGED <<stdin, lines, asks, mainLoop, piece, ahead>>
        BY <1>4 DEF WaitTakesLine, loopVars
    <2>3. CASE line.kind = "response" /\ id = waitingFor /\ id \in pendingRequests
        <3>1. /\ verdicts' = [verdicts EXCEPT ![waitingFor] = IF line.allow THEN "allow" ELSE "deny"]
              /\ waitingFor' = Nothing /\ pendingRequests' = pendingRequests \ {id}
            BY <1>4, <2>3 DEF WaitTakesLine, Decide
        <3>2. HostTypeOK'
            BY <1>0, <2>2, <3>1 DEF HostTypeOK
        <3>3. line.id \in {waitingFor, Placeholder}
            BY <2>3 DEF AddressedTo
        <3>4. DOMAIN lines = 1..Len(lines)
            BY <1>0, LenProperties
        <3> HIDE DEF line, id
        <3>5. AllowedByItsAnswer'
            <4>1. SUFFICES ASSUME NEW r \in RequestNo, verdicts'[r] = "allow"
                           PROVE  \E i \in DOMAIN lines : /\ lines[i].kind = "response" /\ lines[i].allow
                                                          /\ lines[i].id \in {r, Placeholder}
                BY <2>2 DEF AllowedByItsAnswer
            <4>2. CASE r = waitingFor
                <5>1. line.allow
                    BY <1>0, <2>0, <3>1, <4>1, <4>2 DEF HostTypeOK
                <5> QED BY <2>1, <2>3, <3>3, <3>4, <4>2, <5>1
            <4>3. CASE r # waitingFor
                <5>1. verdicts[r] = "allow"
                    BY <1>0, <3>1, <4>1, <4>3 DEF HostTypeOK
                <5> QED BY <1>0, <5>1 DEF AllowedByItsAnswer
            <4> QED BY <4>2, <4>3
        <3>6. FromHost(stdin)' /\ FromHost(stdinBuffer)' /\ FromHost(piece)'
            BY <1>0, <2>1, <2>2 DEF FromHost
        <3> QED BY <1>0, <2>1, <2>2, <3>2, <3>5, <3>6 DEF HostInv
    <2>4. CASE ~(line.kind = "response" /\ id = waitingFor /\ id \in pendingRequests)
        <3>1. UNCHANGED <<verdicts, waitingFor>> /\ pendingRequests' \subseteq pendingRequests
            BY <1>4, <2>4 DEF WaitTakesLine, ProcessResponse
        <3>2. HostTypeOK'
            BY <1>0, <2>2, <3>1 DEF HostTypeOK
        <3> QED BY <1>0, <2>1, <2>2, <3>1, <3>2, LinesMove
    <2> QED BY <2>3, <2>4
<1>5. CASE SendPermissionRequest
    <2>1. /\ asks' = asks + 1 /\ asks < MaxAsks /\ waitingFor' = asks + 1
          /\ pendingRequests' = pendingRequests \cup {asks + 1}
          /\ UNCHANGED <<stdin, lines, stdinBuffer, verdicts, mainLoop, piece, ahead>>
        BY <1>5 DEF SendPermissionRequest, loopVars
    <2>2. HostTypeOK' /\ asks' \in 0..MaxAsks
        BY <1>0, <2>1 DEF HostTypeOK
    <2> QED BY <1>0, <2>1, <2>2, LinesMove
<1>6. ASSUME UNCHANGED <<stdin, stdinBuffer, lines, asks>>, piece' \in {piece, <<>>},
             ahead' \in Seq({"user", "control"}),
             mainLoop' \in {"reading", "turn", "over"}, pendingRequests' \subseteq pendingRequests,
             \/ UNCHANGED <<verdicts, waitingFor>>
             \/ Decide("deny") /\ waitingFor # Nothing
      PROVE  HostInv'
    <2>1. CASE UNCHANGED <<verdicts, waitingFor>>
        <3>1. HostTypeOK'
            BY <1>0, <1>6, <2>1 DEF HostTypeOK
        <3> QED BY <1>0, <1>6, <2>1, <3>1, LinesMove
    <2>2. CASE Decide("deny") /\ waitingFor # Nothing
        <3>1. verdicts' = [verdicts EXCEPT ![waitingFor] = "deny"] /\ waitingFor' = Nothing
            BY <2>2 DEF Decide
        <3>2. HostTypeOK'
            BY <1>0, <1>6, <3>1 DEF HostTypeOK
        <3>3. \A r \in RequestNo : verdicts'[r] = "allow" => verdicts[r] = "allow"
            BY <1>0, <3>1 DEF HostTypeOK
        <3> QED BY <1>0, <1>6, <3>2, <3>3, LinesMove
    <2> QED BY <1>6, <2>1, <2>2
<1>7. CASE HostCloses \/ MainStops \/ TurnEnds \/ TimePasses
    BY <1>0, <1>6, <1>7 DEF HostCloses, MainStops, TurnEnds, TimePasses, HostTypeOK,
                            loopVars, requestVars, waitVars
<1>8. CASE WaitLooksAtDeadline \/ WaitReadsEof
    BY <1>0, <1>6, <1>8 DEF WaitLooksAtDeadline, WaitReadsEof, HostTypeOK, loopVars, requestVars
<1>9. CASE UNCHANGED hostVars
    BY <1>0, <1>6, <1>9 DEF hostVars, loopVars, requestVars, waitVars, HostTypeOK
<1>10. CASE MainReadsEof
    <2>1. /\ UNCHANGED <<stdin, stdinBuffer, lines, asks, verdicts, waitingFor>>
          /\ piece' = <<>> /\ pendingRequests' = {}
          /\ mainLoop' \in {mainLoop, "over"} /\ ahead' \in {<<>>, Drained(piece)}
        BY <1>10 DEF MainReadsEof, RaiseOutOfLoop, waitVars
    <2>2. ahead' \in Seq({"user", "control"})
        <3>1. Drained(piece) \in Seq({"user", "control"})
            BY <1>0, DrainedMessages
        <3>2. <<>> \in Seq({"user", "control"})
            BY EmptySeq
        <3> QED BY <2>1, <3>1, <3>2
    <2>3. mainLoop' \in {"reading", "turn", "over"} /\ pendingRequests' \subseteq pendingRequests
        BY <1>0, <2>1 DEF HostTypeOK
    <2> QED BY <1>6, <2>1, <2>2, <2>3
<1>11. CASE MainHandles
    <2>1. /\ UNCHANGED <<stdin, stdinBuffer, lines, asks, verdicts, waitingFor, piece, pendingRequests>>
          /\ mainLoop' \in {"turn", "reading"} /\ ahead # <<>> /\ ahead' = Tail(ahead)
        BY <1>11 DEF MainHandles, requestVars, waitVars
    <2>2. ahead' \in Seq({"user", "control"})
        <3>1. ahead \in Seq({"user", "control"})
            BY <1>0 DEF HostTypeOK
        <3> QED BY <2>1, <3>1, HeadTailProperties
    <2>3. mainLoop' \in {"reading", "turn", "over"} /\ pendingRequests' \subseteq pendingRequests
        BY <2>1
    <2> QED BY <1>6, <2>1, <2>2, <2>3
<1>12. CASE SendIsRefused
    <2>1. /\ asks' = asks + 1 /\ asks < MaxAsks
          /\ verdicts' = [verdicts EXCEPT ![asks + 1] = "deny"]
          /\ UNCHANGED <<stdin, lines, stdinBuffer, mainLoop, piece, ahead, pendingRequests,
                         waitingFor>>
        BY <1>12 DEF SendIsRefused, loopVars, requestVars
    <2>2. HostTypeOK' /\ asks' \in 0..MaxAsks
        <3>1. asks' \in 0..MaxAsks /\ \A r \in 1..asks : r \in 1..asks'
            BY <1>0, <2>1
        <3>2. verdicts' \in [RequestNo -> {"none", "allow", "deny"}]
            BY <1>0, <2>1 DEF HostTypeOK
        <3> QED BY <1>0, <2>1, <3>1, <3>2 DEF HostTypeOK
    <2>3. \A r \in RequestNo : verdicts'[r] = "allow" => verdicts[r] = "allow"
        BY <1>0, <2>1 DEF HostTypeOK
    <2>4. /\ stdin' \in Seq(Line) /\ FromHost(stdin') /\ stdinBuffer' \in Seq(Line)
          /\ FromHost(stdinBuffer') /\ piece' \in Seq(Line) /\ FromHost(piece') /\ lines' = lines
        BY <1>0, <2>1
    <2> QED BY <2>2, <2>3, <2>4, LinesMove
<1> QED BY <1>1, <1>2, <1>3, <1>4, <1>5, <1>7, <1>8, <1>9, <1>10, <1>11, <1>12
        DEF HostNext, HostMoves, MainMoves, WaitMoves

(* Every line in the pipe or in one of the two buffers is one the host has sent,   *)
(* and an allowed call has such a line as its answer.                              *)
THEOREM HostInvariant == HostSpec => []HostInv
<1> QED BY HostStart, HostStep, PTL DEF HostSpec

(* Fail closed: only the host's answer to this very request allows a call.    *)
THEOREM FailsClosed == HostSpec => []AllowedByItsAnswer
<1>1. HostInv => AllowedByItsAnswer
    BY DEF HostInv
<1> QED BY <1>1, HostInvariant, PTL
=============================================================================
