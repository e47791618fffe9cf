------------------------------ MODULE MCTxRing ------------------------------
(***************************************************************************)
(* Instances of TxRing.  A shape is computed from the sizes of an skb, as  *)
(* tso_xmit and xmit lay it out: the unit of size is half a TSO descriptor *)
(* (TSO_MAX_BUFF_SIZE = 2), which is enough to tell a fragment that fits a *)
(* descriptor from one that does not.                                      *)
(***************************************************************************)
EXTENDS TxRingFifo, SequencesExt

CONSTANT Traffic  \* which of the sets below the stack sends

TSO_MAX_BUFF_SIZE == 2
Mss == {0, 1}

\* tso_allocator: the descriptors for len bytes.
Chunks(len) == (len + TSO_MAX_BUFF_SIZE - 1) \div TSO_MAX_BUFF_SIZE

Segs(len, isFrag) ==
  [k \in 1 .. Chunks(len) |-> [new |-> isFrag /\ k = 1,
                               end |-> isFrag /\ k = Chunks(len)]]

Plain(vlan, frags) ==
  [tso |-> FALSE, vlan |-> vlan, mss |-> 0, blocks |-> 0, nfrags |-> frags,
   segs |-> [k \in 1 .. frags |-> [new |-> TRUE, end |-> TRUE]]]

\* A TSO frame: payload bytes beside the headers, and the fragments' sizes.
Tso(vlan, m, pay, frags) ==
  [tso |-> TRUE, vlan |-> vlan, mss |-> m,
   blocks |-> (pay + FoldSeq(+, 0, frags)) \div TSO_MAX_BUFF_SIZE + 1,
   nfrags |-> Len(frags),
   segs |-> Segs(pay, FALSE) \o FlattenSeq([k \in 1 .. Len(frags) |-> Segs(frags[k], TRUE)])]

PlainShapes == {Plain(v, f) : v \in BOOLEAN, f \in 0 .. MaxFrags}

\* TSO frames that take no more than a plain frame with a VLAN tag does.
SmallTso == {Tso(FALSE, 1, 0, <<1>>), Tso(FALSE, 1, 1, <<>>)}

\* TSO frames as the stack may build them.
AnyTso == {Tso(v, 1, 1, <<f>>) : v \in BOOLEAN, f \in {1, 3}}

\* Frames that never take a context descriptor, one of them larger than any for
\* which an awake queue keeps room.
BareShapes == {Plain(FALSE, f) : f \in 0 .. MaxFrags} \cup {Tso(FALSE, 0, 0, <<1>>), Tso(FALSE, 0, 2, <<4>>)}

TrafficShapes == CASE Traffic = "plain" -> PlainShapes
                   [] Traffic = "tso"   -> SmallTso \cup {Plain(TRUE, 1)}
                   [] Traffic = "bare"  -> BareShapes
                   [] Traffic = "any"   -> AnyTso \cup {Plain(FALSE, 0)}
=============================================================================
