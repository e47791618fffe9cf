----------------------------- MODULE TxRingFifo -----------------------------
(***************************************************************************)
(* The descriptor ring of TxRing implements the queue of TxFifo.           *)
(***************************************************************************)
EXTENDS TxRing

\* The slots of S up to i when they are visited from d on, and the slot that
\* is visited t-th.
UpTo(S, d, i) == {m \in S : m = i \/ Between(d, i, m)}
Turn(S, d, i) == Cardinality(UpTo(S, d, i))
Nth(S, d, t) == CHOOSE i \in S : Turn(S, d, i) = t

\* The skbs of the ring in the order in which tx_clean will visit them.
Full == {i \in Slots : tx_skbuff[i] # NULL}
RingOrder == [t \in 1 .. Cardinality(Full) |-> tx_skbuff[Nth(Full, dirty_tx, t)]]

Fifo == INSTANCE TxFifo WITH queue <- RingOrder, Capacity <- N - 1

\* xmit and tx_clean together behave as a FIFO queue with eventual release:
\* no frame overtakes another, is released twice, or is forgotten.
ImplementsFifo == Fifo!Spec
=============================================================================
