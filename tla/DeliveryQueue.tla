----------------------------- MODULE DeliveryQueue -----------------------------
(* What the uploaders of cli/transports promise: items are delivered in the   *)
(* order in which they were put, each of them delivered for the first time    *)
(* once.  Items may be given up at the front (a batch that fails for good) or *)
(* at the back (a queue that is closed), but never in the middle.             *)
EXTENDS Naturals, Sequences, SequencesExt

VARIABLES queue, delivered

deliveryVars == <<queue, delivered>>

DeliveryInit == queue = <<>> /\ delivered = <<>>

Put == IsPrefix(queue, queue') /\ UNCHANGED delivered

DropFront(n) == SubSeq(queue, n + 1, Len(queue))

Deliver ==
    \E n \in 1..Len(queue) :
        /\ delivered' = delivered \o SubSeq(queue, 1, n)
        /\ queue' = DropFront(n)

GiveUpFront ==
    \E n \in 1..Len(queue) :
        /\ queue' = DropFront(n)
        /\ UNCHANGED delivered

ShutDown ==
    /\ IsPrefix(queue', queue)
    /\ UNCHANGED delivered

DeliveryNext == Put \/ Deliver \/ GiveUpFront \/ ShutDown

DeliverySpec == DeliveryInit /\ [][DeliveryNext]_deliveryVars
=============================================================================
