------------------------------- MODULE TxFifo -------------------------------
(***************************************************************************)
(* What a transmit queue promises the network stack: the frames it has     *)
(* accepted are released in the order in which they were accepted, each    *)
(* once, at most Capacity of them are held at a time, and each is          *)
(* released eventually.  A channel reset releases all of them at once.     *)
(***************************************************************************)
EXTENDS Naturals, Sequences

CONSTANTS Skbs, Capacity

VARIABLE queue

Init == queue = <<>>

Held == {queue[k] : k \in 1 .. Len(queue)}

Accept(s) == /\ s \notin Held /\ Len(queue) < Capacity
             /\ queue' = Append(queue, s)

Release == queue # <<>> /\ queue' = Tail(queue)

Reset == queue # <<>> /\ queue' = <<>>

Next == (\E s \in Skbs : Accept(s)) \/ Release \/ Reset

Spec == Init /\ [][Next]_queue /\ WF_queue(Release \/ Reset)
=============================================================================
