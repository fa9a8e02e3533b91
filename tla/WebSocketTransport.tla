-------------------------- MODULE WebSocketTransport --------------------------
(* WebSocketTransport (cli/transports/websocket.py): one state shared by      *)
(* connect(), the receive loops, send(), close() and the reconnect timer.     *)
(* Connections are numbered in the order they are established.                *)
EXTENDS Naturals

CONSTANTS
    MaxConnections, \* bound: connections established
    AutoReconnect   \* auto_reconnect

ASSUME WebSocketAssumption == MaxConnections \in Nat /\ AutoReconnect \in BOOLEAN

VARIABLES
    wsState,        \* _state
    ws,             \* _ws: the connection in use, 0 for None
    handshakes,     \* connect() calls waiting for websockets.connect
    made,           \* number of connections established so far
    up,             \* connections that are alive
    listening,      \* per connection the number of receive loops on it
    loopsStarting,  \* receive loops scheduled
    sending,        \* a send() that waits for the connection
    retryTimer,     \* _reconnect_timer sleeps
    strayTimer      \* a timer that _reconnect_timer no longer names sleeps

timers == <<retryTimer, strayTimer>>
wsVars == <<wsState, ws, handshakes, made, up, listening, loopsStarting, sending, timers>>

WsInit ==
    /\ wsState = "idle"
    /\ ws = 0
    /\ handshakes = 0
    /\ made = 0
    /\ up = {}
    /\ listening = [c \in 0..MaxConnections |-> 0]
    /\ loopsStarting = 0
    /\ sending = FALSE
    /\ retryTimer = FALSE /\ strayTimer = FALSE

(* connect() up to its first await.                                           *)
ConnectEffect ==
    IF wsState \in {"connected", "reconnecting"}
    THEN UNCHANGED <<wsState, handshakes>>
    ELSE wsState' = "connected" /\ handshakes' = handshakes + 1

Connect ==
    /\ handshakes + made < MaxConnections
    /\ ConnectEffect
    /\ UNCHANGED <<ws, made, up, listening, loopsStarting, sending, timers>>

HandshakeSucceeds ==
    /\ handshakes > 0
    /\ handshakes' = handshakes - 1
    /\ made' = made + 1
    /\ ws' = made + 1
    /\ up' = up \cup {made + 1}
    /\ wsState' = "connected"
    /\ loopsStarting' = loopsStarting + 1
    /\ UNCHANGED <<listening, sending, timers>>

(* Mutant: connect() raises and leaves the state it set before.               *)
HandshakeFailsSilently ==
    /\ handshakes > 0
    /\ handshakes' = handshakes - 1
    /\ UNCHANGED <<wsState, ws, made, up, listening, loopsStarting, sending, timers>>

HandshakeFails ==
    /\ handshakes > 0
    /\ handshakes' = handshakes - 1
    /\ wsState' = "closed"
    /\ UNCHANGED <<ws, made, up, listening, loopsStarting, sending, timers>>

(* _receive_loop reads self._ws when it starts, not when it is created.       *)
LoopStarts ==
    /\ loopsStarting > 0
    /\ loopsStarting' = loopsStarting - 1
    /\ listening' = [listening EXCEPT ![ws] = @ + 1]
    /\ UNCHANGED <<wsState, ws, handshakes, made, up, sending, timers>>

ConnectionDrops(c) ==
    /\ c \in up
    /\ up' = up \ {c}
    /\ UNCHANGED <<wsState, ws, handshakes, made, listening, loopsStarting, sending, timers>>

(* _handle_disconnect and _schedule_reconnect, whatever the state was; the    *)
(* ten minutes after which it gives up may be over.                           *)
HandleDisconnect ==
    \/ /\ AutoReconnect
       /\ wsState' = "reconnecting"
       /\ retryTimer' = TRUE
       /\ strayTimer' = (strayTimer \/ retryTimer)
    \/ wsState' = "closed" /\ UNCHANGED timers

(* The loop on c ends: the connection is gone, or another loop reads from it. *)
LoopStops(c) ==
    /\ listening[c] > 0
    /\ c \notin up \/ listening[c] > 1
    /\ listening' = [listening EXCEPT ![c] = @ - 1]
    /\ UNCHANGED <<ws, handshakes, made, up, loopsStarting, sending>>

(* Mutant: the end of the receive loop is not handled.                        *)
LoopEndsSilently(c) == LoopStops(c) /\ UNCHANGED <<wsState, timers>>

LoopEnds(c) ==
    /\ LoopStops(c)
    /\ IF wsState = "connected" THEN HandleDisconnect ELSE UNCHANGED <<wsState, timers>>

(* send() looks at the state, then waits for the connection to take the data. *)
SendStarts ==
    /\ ~sending
    /\ wsState = "connected"
    /\ sending' = TRUE
    /\ UNCHANGED <<wsState, ws, handshakes, made, up, listening, loopsStarting, timers>>

(* It ends, or raises: the connection broke or the handshake was not over.    *)
SendEnds ==
    /\ sending
    /\ sending' = FALSE
    /\ HandleDisconnect \/ UNCHANGED <<wsState, timers>>
    /\ UNCHANGED <<ws, handshakes, made, up, listening, loopsStarting>>

(* reconnect_after() calls connect() if the state is still reconnecting.      *)
RetryTimerFires ==
    /\ \/ retryTimer /\ retryTimer' = FALSE /\ UNCHANGED strayTimer
       \/ strayTimer /\ strayTimer' \in BOOLEAN /\ UNCHANGED retryTimer
    /\ IF wsState = "reconnecting" THEN ConnectEffect ELSE UNCHANGED <<wsState, handshakes>>
    /\ UNCHANGED <<ws, made, up, listening, loopsStarting, sending>>

(* close() cancels the timer it knows.                                        *)
CloseWs ==
    /\ wsState' = "closed"
    /\ retryTimer' = FALSE
    /\ UNCHANGED <<ws, handshakes, made, up, listening, loopsStarting, sending, strayTimer>>

WsNext ==
    \/ Connect \/ HandshakeSucceeds \/ HandshakeFails \/ LoopStarts
    \/ \E c \in 0..MaxConnections : ConnectionDrops(c) \/ LoopEnds(c)
    \/ SendStarts \/ SendEnds \/ RetryTimerFires \/ CloseWs

WsFairness ==
    /\ WF_wsVars(HandshakeSucceeds \/ HandshakeFails)
    /\ WF_wsVars(LoopStarts)
    /\ \A c \in 0..MaxConnections : WF_wsVars(LoopEnds(c))
    /\ WF_wsVars(RetryTimerFires)

WsSpec == WsInit /\ [][WsNext]_wsVars /\ WsFairness

(* A transport that says it is connected is listened to: once no handshake    *)
(* and no loop is starting, a receive loop is on the connection in use.       *)
ConnectedIsListening ==
    (/\ wsState = "connected" /\ handshakes = 0 /\ loopsStarting = 0)
        => listening[ws] > 0

(* The end of the connection in use does not go unnoticed: the transport      *)
(* stops calling itself connected or has a new connection.                    *)
DropIsNoticed ==
    \A c \in 1..MaxConnections :
        (wsState = "connected" /\ ws = c /\ c \notin up)
            ~> (wsState # "connected" \/ ws # c)

(* "Automatic reconnection with exponential backoff": a transport that is     *)
(* reconnecting gets out of that state.                                       *)
Reconnects == (wsState = "reconnecting") ~> (wsState # "reconnecting")
=============================================================================
