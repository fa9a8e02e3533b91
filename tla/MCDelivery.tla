------------------------------ MODULE MCDelivery ------------------------------
(* Small instances of the components that carry messages between the program  *)
(* and the other side: the hybrid transport with its uploader, the worker     *)
(* state uploader, the WebSocket transport and the host's stdin channel.      *)
(* They share no state, so a behaviour moves one of them, chosen at the start.*)
EXTENDS HybridTransport, WorkerStateUploader, WebSocketTransport, HostChannel

CONSTANT Scenes

VARIABLE scene

deliverySuiteVars == <<scene, transportVars, workerVars, wsVars, hostVars>>

DeliverySuiteInit ==
    /\ scene \in Scenes
    /\ HybridInit /\ WorkerInit /\ WsInit /\ HostInit
    /\ scene # "transport" => failureLimit = 0
    /\ scene # "host" => ~prompt

TransportScene ==
    /\ scene = "transport" /\ HybridNext
    /\ UNCHANGED <<scene, workerVars, wsVars, hostVars>>

WorkerScene ==
    /\ scene = "worker" /\ WorkerNext
    /\ UNCHANGED <<scene, transportVars, wsVars, hostVars>>

WebSocketScene ==
    /\ scene = "websocket" /\ WsNext
    /\ UNCHANGED <<scene, transportVars, workerVars, hostVars>>

HostScene ==
    /\ scene = "host" /\ HostNext
    /\ UNCHANGED <<scene, transportVars, workerVars, wsVars>>

DeliverySuiteNext == TransportScene \/ WorkerScene \/ WebSocketScene \/ HostScene

(* A component that is not in the scene stays in its initial state, where none*)
(* of its fair actions is enabled.                                            *)
DeliverySuiteSpec ==
    /\ DeliverySuiteInit
    /\ [][DeliverySuiteNext]_deliverySuiteVars
    /\ HybridFairness /\ WorkerFairness /\ WsFairness /\ HostFairness
=============================================================================
