---------------------------- MODULE TxRingProofs ----------------------------
(***************************************************************************)
(* Theorems about TxRing, for every ring size, number of fragments, set of *)
(* skbs and set of frame shapes: types and bounds, the refinement of the   *)
(* FIFO, and the ownership of the descriptors and of the DMA mappings behind *)
(* them.                                                                   *)
(***************************************************************************)
EXTENDS TxRingFifo, SequenceTheorems, FiniteSetTheorems, TLAPS

\* GET_ENTRY stays on the ring.
LEMMA GetEntryType == ASSUME NEW x \in Slots PROVE GET_ENTRY(x) \in Slots
  BY RingAssumption DEF GET_ENTRY, Slots

\* 0 is a slot, and the idle shape is one of the shapes.
LEMMA Constants == /\ 0 \in Slots /\ N \in 0 .. N /\ IdleShape \in Shapes
                   /\ Shapes \subseteq ShapeType /\ 0 \in MssValues
                   /\ Slots \subseteq 0 .. N
  BY RingAssumption, ShapeAssumption DEF Slots, IdleShape

\* The head and the tail of what is left to fill.
LEMMA SegsStep == ASSUME NEW s \in Seq(SegType), s # <<>>
                  PROVE  /\ Tail(s) \in Seq(SegType) /\ Head(s) \in SegType
                         /\ Len(s) \in Nat /\ Len(Tail(s)) = Len(s) - 1
  OBVIOUS

\* Every variable keeps its type, whatever faults the environment injects.
THEOREM TypeCorrect == Spec => []TypeOK
<1> USE Constants DEF TypeOK
<1>1. Init => TypeOK
  BY DEF Init, BufType, MisuseType, PcType
<1>2. TypeOK /\ [Next]_vars => TypeOK'
  <2> SUFFICES ASSUME TypeOK, [Next]_vars PROVE TypeOK'
    OBVIOUS
  <2> USE GetEntryType
  <2>1. ASSUME NEW sh \in Shapes, XmitBusy(sh) PROVE TypeOK'
    BY <2>1 DEF XmitBusy, ring, locals
  <2>2. ASSUME NEW s \in Skbs, NEW sh \in Shapes, XmitStart(s, sh) PROVE TypeOK'
    BY <2>2 DEF XmitStart, ring, ShapeType, PcType
  <2>3. CASE XmitCtx
    <3>1. shape.mss \in MssValues
      BY DEF ShapeType
    <3> QED BY <2>3, <3>1 DEF XmitCtx, PcType
  <2>4. CASE XmitVlan
    BY <2>4 DEF XmitVlan, PcType
  <2>5. CASE XmitTsoHead
    BY <2>5 DEF XmitTsoHead, RecordMapping, locals, PcType, BufType, MisuseType
  <2>6. CASE XmitSeg
    <3>1. Tail(segs) \in Seq(SegType)
      BY <2>6, SegsStep DEF XmitSeg
    <3> QED BY <2>6, <3>1 DEF XmitSeg, RecordMapping, BufType, MisuseType
  <2>7. CASE XmitPost
    BY <2>7 DEF XmitPost, IdleLocals, locals, PcType
  <2>8. CASE XmitGrant
    BY <2>8 DEF XmitGrant, RecordMapping, IdleLocals, PcType, BufType, MisuseType
  <2>9. CASE XmitMapErr
    BY <2>9 DEF XmitMapErr, IdleLocals, ring, PcType
  <2>10. CASE CleanStart
    BY <2>10 DEF CleanStart, ring, PcType
  <2>11. CASE CleanEntry
    BY <2>11 DEF CleanEntry, Unmap, BufType, MisuseType
  <2>12. CASE CleanEnd
    BY <2>12 DEF CleanEnd, IdleLocals, PcType
  <2>13. CASE DmaStep
    BY <2>13 DEF DmaStep, locals
  <2>14. CASE TxErr
    BY <2>14 DEF TxErr, FreeTxSkbufs, Unmap, BufType, MisuseType, locals
  <2>15. CASE UNCHANGED vars
    BY <2>15 DEF vars, ring, locals
  <2> QED
    BY <2>1, <2>2, <2>3, <2>4, <2>5, <2>6, <2>7, <2>8, <2>9, <2>10, <2>11,
       <2>12, <2>13, <2>14, <2>15 DEF Next
<1> QED BY <1>1, <1>2, PTL DEF Spec

-----------------------------------------------------------------------------
(* The ring never overruns.                                                *)

\* Filling a slot takes one from the room that was left.
LEMMA RoomStep ==
  ASSUME NEW c \in Slots, NEW d \in Slots, tx_avail(c, d) >= 1
  PROVE  /\ tx_avail(GET_ENTRY(c), d) = tx_avail(c, d) - 1
         /\ GET_ENTRY(c) # d
  BY RingAssumption DEF tx_avail, GET_ENTRY, Slots

\* The room is a number below N.
LEMMA RoomType ==
  ASSUME NEW c \in Slots, NEW d \in Slots
  PROVE  tx_avail(c, d) \in Nat /\ tx_avail(c, d) <= N - 1
  BY RingAssumption DEF tx_avail, Slots

\* Moving the end of an interval up extends it by the old end.
LEMMA BetweenStep ==
  ASSUME NEW d \in Slots, NEW c \in Slots, NEW i \in Slots,
         GET_ENTRY(c) # d
  PROVE  Between(d, GET_ENTRY(c), i) <=> (Between(d, c, i) \/ i = c)
  BY RingAssumption DEF Between, GET_ENTRY, Slots

\* Moving the start of a non-empty interval up drops the old start.
LEMMA BetweenDrop ==
  ASSUME NEW d \in Slots, NEW c \in Slots, NEW i \in Slots, d # c
  PROVE  Between(GET_ENTRY(d), c, i) <=> (Between(d, c, i) /\ i # d)
  BY RingAssumption DEF Between, GET_ENTRY, Slots

\* The end of an interval is not in it, and the start is unless it is empty.
LEMMA BetweenEnds ==
  ASSUME NEW d \in Slots, NEW c \in Slots
  PROVE  /\ ~Between(d, c, c)
         /\ d # c => Between(d, c, d)
  BY RingAssumption DEF Between, Slots

\* Intervals with the same end: a later start makes the shorter one.
LEMMA BetweenSuffix ==
  ASSUME NEW d \in Slots, NEW c \in Slots, NEW e \in Slots, NEW i \in Slots,
         Between(d, c, e), Between(e, c, i)
  PROVE  Between(d, c, i)
  BY RingAssumption DEF Between, Slots

\* A slot that is neither in the interval nor followed by its start has a
\* successor outside the interval.
LEMMA OutsideStep ==
  ASSUME NEW d \in Slots, NEW c \in Slots, NEW e \in Slots,
         ~Between(d, c, e), GET_ENTRY(e) # d
  PROVE  ~Between(d, c, GET_ENTRY(e))
  BY RingAssumption DEF Between, GET_ENTRY, Slots

\* Advancing an end that is outside the interval up to e extends it.
LEMMA OutsideExtends ==
  ASSUME NEW d \in Slots, NEW c \in Slots, NEW e \in Slots, NEW i \in Slots,
         ~Between(d, c, e), GET_ENTRY(e) # d, Between(d, c, i)
  PROVE  Between(d, GET_ENTRY(e), i)
  BY RingAssumption DEF Between, GET_ENTRY, Slots

\* The number of descriptors of a shape.
LEMMA NeedType ==
  ASSUME NEW sh \in Shapes
  PROVE  /\ sh.segs \in Seq(SegType) /\ Len(sh.segs) \in Nat
         /\ sh.tso \in BOOLEAN /\ sh.vlan \in BOOLEAN
         /\ Need(sh) \in Nat
         /\ Need(sh) >= 1 + Len(sh.segs)
         /\ sh.vlan => Need(sh) >= 2 + Len(sh.segs)
         /\ sh.tso \/ OstEn => Need(sh) >= 2 + Len(sh.segs)
         /\ sh.vlan /\ (sh.tso \/ OstEn) => Need(sh) >= 3 + Len(sh.segs)
<1>1. sh.segs \in Seq(SegType) /\ sh.tso \in BOOLEAN /\ sh.vlan \in BOOLEAN
  BY ShapeAssumption DEF ShapeType
<1>2. Len(sh.segs) \in Nat
  BY <1>1, LenProperties
<1> DEFINE ctx == IF sh.tso \/ OstEn THEN 1 ELSE 0
           tag == IF sh.vlan THEN 1 ELSE 0
<1>3. Need(sh) = ctx + tag + 1 + Len(sh.segs)
  BY DEF Need
<1>4. ctx \in Nat /\ tag \in Nat
  OBVIOUS
<1>5. (sh.vlan => tag = 1) /\ (sh.tso \/ OstEn => ctx = 1)
  OBVIOUS
<1> HIDE DEF ctx, tag
<1>6. Need(sh) \in Nat /\ Need(sh) >= 1 + Len(sh.segs)
  <2>1. \A a, b, n \in Nat : a + b + 1 + n \in Nat /\ a + b + 1 + n >= 1 + n
    OBVIOUS
  <2> QED BY <1>2, <1>3, <1>4, <2>1
<1>7. ASSUME sh.vlan PROVE Need(sh) >= 2 + Len(sh.segs)
  BY <1>2, <1>3, <1>4, <1>5, <1>7
<1>8. ASSUME sh.tso \/ OstEn PROVE Need(sh) >= 2 + Len(sh.segs)
  <2>1. ctx = 1
    BY <1>5, <1>8
  <2> QED BY <1>2, <1>3, <1>4, <2>1
<1>9. ASSUME sh.vlan, sh.tso \/ OstEn PROVE Need(sh) >= 3 + Len(sh.segs)
  <2>1. ctx = 1 /\ tag = 1
    BY <1>5, <1>9
  <2> QED BY <1>2, <1>3, <2>1
<1> QED BY <1>1, <1>2, <1>6, <1>7, <1>8, <1>9

\* The initial ring is empty.
LEMMA RingInit == Init => RingInv
<1> SUFFICES ASSUME Init PROVE RingInv
  OBVIOUS
<1>1. TypeOK
  BY Constants DEF Init, TypeOK, BufType, MisuseType, PcType
<1>2. tx_avail(0, 0) = N - 1
  BY RingAssumption DEF tx_avail
<1>3. RoomInv
  BY <1>2, RingAssumption DEF Init, RoomInv, Room
<1>4. SkbWindow
  BY DEF Init, SkbWindow
<1> QED BY <1>1, <1>3, <1>4 DEF RingInv

\* Every step keeps the room and the window, as long as mapping a buffer never
\* fails and the error interrupt stays out of a running handler.
LEMMA RingNext ==
  ASSUME ShapesFit, Faults \subseteq {"tx_err"}, RingInv, TypeOK', [Next]_vars
  PROVE  RoomInv' /\ SkbWindow'
<1> USE Constants, GetEntryType DEF RingInv
<1> DEFINE RS == RoomInv' /\ SkbWindow'
<1>0. /\ cur_tx \in Slots /\ dirty_tx \in Slots /\ entry \in Slots
      /\ first_entry \in Slots /\ shape \in Shapes /\ segs \in Seq(SegType)
      /\ Len(segs) \in Nat /\ MaxFrags \in Nat /\ stopped \in BOOLEAN
      /\ tx_skbuff \in [Slots -> Skbs \cup {NULL}]
      /\ shape.tso \in BOOLEAN /\ shape.vlan \in BOOLEAN
  BY RingAssumption, NeedType, LenProperties DEF TypeOK
<1>r. /\ Room \in Nat /\ tx_avail(entry, dirty_tx) \in Nat
      /\ tx_avail(GET_ENTRY(entry), dirty_tx) \in Nat
      /\ GET_ENTRY(entry) \in Slots /\ GET_ENTRY(cur_tx) \in Slots
  BY <1>0, RoomType DEF Room
<1>1. ASSUME NEW sh \in Shapes, XmitBusy(sh) PROVE RS
  BY <1>1 DEF XmitBusy, ring, locals, RoomInv, SkbWindow, Room
<1>2. ASSUME NEW s \in Skbs, NEW sh \in Shapes, XmitStart(s, sh) PROVE RS
  <2>1. Room >= MaxFrags + 2
    BY <1>2 DEF XmitStart, RoomInv
  <2>2. Need(sh) <= MaxFrags + 2 /\ Need(sh) \in Nat
    BY NeedType DEF ShapesFit
  <2>3. Room >= Need(sh)
    BY <2>1, <2>2, <1>0, <1>r
  <2>4. RoomInv'
    BY <1>2, <2>3 DEF XmitStart, ring, RoomInv, Room
  <2>5. SkbWindow'
    BY <1>2 DEF XmitStart, ring, SkbWindow
  <2> QED BY <2>4, <2>5
<1>3. CASE XmitCtx
  <2>1. Room >= Need(shape) /\ segs = shape.segs 
    BY <1>3 DEF XmitCtx, RoomInv
  <2>2. CASE NeedsCtx(shape, mss)
    <3>1. cur_tx' = GET_ENTRY(cur_tx) /\ (shape.tso \/ OstEn)
      BY <1>3, <2>2, FlagAssumption, <1>0 DEF XmitCtx, NeedsCtx
    <3>a. /\ Need(shape) \in Nat /\ Need(shape) >= 2 + Len(segs)
          /\ shape.vlan => Need(shape) >= 3 + Len(segs)
      BY <2>1, <3>1, NeedType, <1>0
    <3>2. Room >= 2 + Len(segs) /\ (shape.vlan => Room >= 3 + Len(segs))
      BY <2>1, <3>a, <1>0, <1>r
    <3>b. tx_avail(cur_tx, dirty_tx) >= 1
      BY <3>2, <1>0, <1>r DEF Room
    <3>3. tx_avail(GET_ENTRY(cur_tx), dirty_tx) = Room - 1
          /\ GET_ENTRY(cur_tx) # dirty_tx
      BY <3>b, <1>0, RoomStep DEF Room
    <3>c. /\ tx_avail(GET_ENTRY(cur_tx), dirty_tx) >= 1 + Len(segs)
          /\ shape.vlan => tx_avail(GET_ENTRY(cur_tx), dirty_tx) >= 2 + Len(segs)
      BY <3>2, <3>3, <1>0, <1>r
    <3>4. RoomInv'
      BY <1>3, <3>1, <3>c DEF XmitCtx, RoomInv, Room
    <3>5. SkbWindow'
      BY <1>3, <3>1, <3>3, <1>0, BetweenStep DEF XmitCtx, SkbWindow
    <3> QED BY <3>4, <3>5
  <2>3. CASE ~NeedsCtx(shape, mss)
    <3>a. /\ Need(shape) \in Nat
          /\ Need(shape) >= 1 + Len(segs)
          /\ shape.vlan => Need(shape) >= 2 + Len(segs)
      BY <2>1, NeedType, <1>0
    <3>1. Room >= 1 + Len(segs) /\ (shape.vlan => Room >= 2 + Len(segs))
      BY <2>1, <3>a, <1>0, <1>r
    <3>2. RoomInv'
      BY <1>3, <2>3, <3>1 DEF XmitCtx, RoomInv, Room
    <3>3. SkbWindow'
      BY <1>3, <2>3 DEF XmitCtx, SkbWindow
    <3> QED BY <3>2, <3>3
  <2> QED BY <2>2, <2>3
<1>4. CASE XmitVlan
  <2>1. Room >= 1 + Len(segs) /\ (shape.vlan => Room >= 2 + Len(segs))
    BY <1>4 DEF XmitVlan, RoomInv
  <2>2. cur_tx' \in Slots /\ entry' = cur_tx' /\ first_entry' = cur_tx'
        /\ dirty_tx' = dirty_tx /\ tx_skbuff' = tx_skbuff
        /\ segs' = segs /\ shape' = shape
    BY <1>4, <1>0 DEF XmitVlan, NeedsVlan
  <2>3. pc' = (IF shape.tso THEN "head" ELSE "segs") /\ stopped' = stopped
    BY <1>4 DEF XmitVlan
  <2>4. tx_avail(cur_tx', dirty_tx) >= 1 + Len(segs)
    <3>1. CASE shape.vlan
      <4>1. tx_avail(cur_tx, dirty_tx) >= 1
        BY <2>1, <3>1, <1>0, <1>r DEF Room
      <4>2. tx_avail(GET_ENTRY(cur_tx), dirty_tx) = Room - 1
        BY <4>1, <1>0, RoomStep DEF Room
      <4> QED BY <1>4, <2>1, <3>1, <4>2, <1>0, <1>r DEF XmitVlan, NeedsVlan
    <3>2. CASE ~shape.vlan
      BY <1>4, <2>1, <3>2 DEF XmitVlan, NeedsVlan, Room
    <3> QED BY <3>1, <3>2, <1>0
  <2>5. \A i \in Slots : Between(dirty_tx, cur_tx, i) => Between(dirty_tx, cur_tx', i)
    <3>1. CASE shape.vlan
      <4>a. tx_avail(cur_tx, dirty_tx) >= 1
        BY <2>1, <3>1, <1>0, <1>r DEF Room
      <4>1. GET_ENTRY(cur_tx) # dirty_tx
        BY <4>a, <1>0, RoomStep
      <4> QED BY <1>4, <3>1, <4>1, <1>0, BetweenStep DEF XmitVlan, NeedsVlan
    <3>2. CASE ~shape.vlan
      BY <1>4, <3>2 DEF XmitVlan, NeedsVlan
    <3> QED BY <3>1, <3>2, <1>0
  <2>6. ~Between(dirty_tx, cur_tx', cur_tx')
    BY <2>2, <1>0, BetweenEnds
  <2>7. RoomInv'
    BY <2>2, <2>3, <2>4, <2>6, <1>0 DEF RoomInv
  <2>8. SkbWindow'
    BY <2>2, <2>3, <2>5, <2>6, <1>0 DEF SkbWindow
  <2> QED BY <2>7, <2>8
<1>5. CASE XmitTsoHead
  BY <1>5 DEF XmitTsoHead, locals, RoomInv, SkbWindow
<1>6. CASE XmitSeg
  <2>1. /\ Len(segs) >= 1 /\ Len(Tail(segs)) = Len(segs) - 1
        /\ tx_avail(entry, dirty_tx) >= 1 + Len(segs)
    BY <1>6, <1>0, SegsStep, EmptySeq DEF XmitSeg, RoomInv
  <2>a. tx_avail(entry, dirty_tx) >= 1
    BY <2>1, <1>0, <1>r
  <2>b. /\ tx_avail(GET_ENTRY(entry), dirty_tx) = tx_avail(entry, dirty_tx) - 1
        /\ GET_ENTRY(entry) # dirty_tx
    BY <2>a, <1>0, RoomStep
  <2>2. /\ tx_avail(GET_ENTRY(entry), dirty_tx) >= 1 + Len(Tail(segs))
        /\ GET_ENTRY(entry) # dirty_tx
    BY <2>1, <2>b, <1>0, <1>r
  <2>3. pc = "segs" /\ pc' = "segs" /\ entry' = GET_ENTRY(entry) /\ segs' = Tail(segs)
        /\ UNCHANGED <<dirty_tx, tx_skbuff, shape, first_entry, stopped>>
    BY <1>6 DEF XmitSeg
  <2>4. CASE shape.tso
    <3>1. entry = cur_tx /\ cur_tx' = GET_ENTRY(cur_tx)
      BY <1>6, <2>4 DEF XmitSeg, RoomInv
    <3>2. RoomInv'
      BY <2>2, <2>3, <2>4, <3>1 DEF RoomInv
    <3>3. SkbWindow'
      BY <2>2, <2>3, <3>1, <1>0, BetweenStep DEF SkbWindow
    <3> QED BY <3>2, <3>3
  <2>5. CASE ~shape.tso
    <3>1. cur_tx' = cur_tx /\ ~Between(dirty_tx, cur_tx, entry)
      BY <1>6, <2>5 DEF XmitSeg, RoomInv
    <3>2. RoomInv'
      BY <2>2, <2>3, <2>5, <3>1, <1>0, OutsideStep DEF RoomInv
    <3>3. SkbWindow'
      BY <2>3, <3>1 DEF SkbWindow
    <3> QED BY <3>2, <3>3
  <2> QED BY <2>4, <2>5
<1>7. CASE XmitPost
  <2>1. GET_ENTRY(entry) # dirty_tx
    BY <1>7, <1>0, RoomStep, RoomType DEF XmitPost, RoomInv
  <2>2. \A i \in Slots : Between(dirty_tx, cur_tx, i) \/ i = entry
                          => Between(dirty_tx, GET_ENTRY(entry), i)
    <3>1. ~Between(dirty_tx, cur_tx, entry)
      BY <1>7, <1>0, BetweenEnds DEF XmitPost, RoomInv
    <3>2. Between(dirty_tx, GET_ENTRY(entry), entry)
      BY <2>1, <1>0, BetweenStep
    <3> QED BY <2>1, <3>1, <3>2, <1>0, OutsideExtends
  <2>3. /\ cur_tx' = GET_ENTRY(entry) /\ dirty_tx' = dirty_tx
        /\ tx_skbuff' = [tx_skbuff EXCEPT ![entry] = skb]
        /\ stopped' = (stopped \/ tx_avail(GET_ENTRY(entry), dirty_tx) <= MaxFrags + 1)
        /\ pc' \in {"idle", "last"}
    BY <1>7, <1>0 DEF XmitPost, QueueMustStop
  <2>4. tx_avail(GET_ENTRY(entry), dirty_tx) \in Nat
    BY <1>0, RoomType
  <2>5. RoomInv'
    <3>1. ~(tx_avail(GET_ENTRY(entry), dirty_tx) <= MaxFrags + 1)
            => tx_avail(GET_ENTRY(entry), dirty_tx) >= MaxFrags + 2
      BY <2>4, <1>0
    <3> QED BY <2>3, <3>1 DEF RoomInv, Room
  <2>6. SkbWindow'
    BY <2>2, <2>3, <1>0 DEF SkbWindow
  <2> QED BY <2>5, <2>6
<1>8. CASE XmitGrant
  BY <1>8 DEF XmitGrant, IdleLocals, RoomInv, SkbWindow, Room
<1>9. CASE XmitMapErr
  BY <1>9 DEF XmitMapErr, MapFails
<1>10. CASE CleanStart
  <2>1. RoomInv'
    BY <1>10, <1>0, BetweenEnds DEF CleanStart, ring, RoomInv, Room
  <2>2. SkbWindow'
    BY <1>10 DEF CleanStart, ring, SkbWindow
  <2> QED BY <2>1, <2>2
<1>11. CASE CleanEntry
  <2>1. entry # cur_tx /\ Between(dirty_tx, cur_tx, entry)
    BY <1>11 DEF CleanEntry, CleanMore, RoomInv
  <2>2. /\ entry' = GET_ENTRY(entry) /\ pc' = "clean" /\ pc = "clean"
        /\ tx_skbuff' = [tx_skbuff EXCEPT ![entry] = NULL]
        /\ UNCHANGED <<cur_tx, dirty_tx, stopped>>
    BY <1>11 DEF CleanEntry
  <2>3. entry' = cur_tx \/ Between(dirty_tx, cur_tx, entry')
    <3>1. SUFFICES ASSUME GET_ENTRY(entry) # cur_tx
                   PROVE  Between(dirty_tx, cur_tx, GET_ENTRY(entry))
      BY <2>2
    <3>2. Between(GET_ENTRY(entry), cur_tx, GET_ENTRY(entry))
      BY <3>1, <1>0, BetweenEnds
    <3>3. Between(entry, cur_tx, GET_ENTRY(entry))
      BY <3>2, <2>1, <1>0, BetweenDrop
    <3> QED BY <3>3, <2>1, <1>0, BetweenSuffix
  <2>4. RoomInv'
    BY <2>2, <2>3 DEF RoomInv, Room
  <2>5. SkbWindow'
    BY <2>1, <2>2, <1>0, BetweenDrop DEF SkbWindow
  <2> QED BY <2>4, <2>5
<1>12. CASE CleanEnd
  <2>1. /\ dirty_tx' = entry /\ pc' = "idle" /\ pc = "clean"
        /\ stopped' = (stopped /\ ~(tx_avail(cur_tx, entry) > Thresh))
        /\ UNCHANGED <<cur_tx, tx_skbuff>>
    BY <1>12 DEF CleanEnd
  <2>2. tx_avail(cur_tx, entry) >= tx_avail(cur_tx, dirty_tx)
    <3>1. entry = cur_tx \/ Between(dirty_tx, cur_tx, entry)
      BY <2>1 DEF RoomInv
    <3>2. \A c, d, e \in Slots : e = c \/ Between(d, c, e)
                                => tx_avail(c, e) >= tx_avail(c, d)
      BY RingAssumption DEF Between, tx_avail, Slots
    <3> QED BY <3>1, <3>2, <1>0
  <2>3. tx_avail(cur_tx, entry) \in Nat /\ Room \in Nat /\ Thresh \in Int
    BY <1>0, RoomType, RingAssumption DEF Room, Thresh
  <2>4. RoomInv'
    BY <2>1, <2>2, <2>3, <1>0, RingAssumption DEF RoomInv, Room
  <2>5. SkbWindow'
    BY <2>1 DEF SkbWindow
  <2> QED BY <2>4, <2>5
<1>13. CASE DmaStep
  BY <1>13 DEF DmaStep, locals, RoomInv, SkbWindow, Room
<1>14. CASE TxErr
  <2>1. /\ pc = "idle" /\ pc' = "idle" /\ cur_tx' = 0 /\ dirty_tx' = 0
        /\ tx_skbuff' = [i \in Slots |-> NULL]
    BY <1>14 DEF TxErr, FreeTxSkbufs
  <2>2. tx_avail(0, 0) = N - 1
    BY RingAssumption DEF tx_avail
  <2>3. RoomInv'
    BY <2>1, <2>2, RingAssumption DEF RoomInv, Room
  <2>4. SkbWindow'
    BY <2>1 DEF SkbWindow
  <2> QED BY <2>3, <2>4
<1>15. CASE UNCHANGED vars
  BY <1>15 DEF vars, ring, locals, RoomInv, SkbWindow, Room
<1> QED
  BY <1>1, <1>2, <1>3, <1>4, <1>5, <1>6, <1>7, <1>8, <1>9, <1>10, <1>11,
     <1>12, <1>13, <1>14, <1>15 DEF Next

\* The invariant holds throughout.
LEMMA RingAlways ==
  ASSUME ShapesFit, Faults \subseteq {"tx_err"} PROVE Spec => []RingInv
<1>1. RingInv /\ TypeOK' /\ [Next]_vars => RingInv'
  BY RingNext DEF RingInv
<1>2. Init => RingInv
  BY RingInit
<1> QED BY <1>1, <1>2, TypeCorrect, PTL DEF Spec

\* A queue whose frames take at most MaxFrags + 2 descriptors never overruns
\* its ring: the test "avail <= MAX_SKB_FRAGS + 1" of xmit and the wake-up test
\* of tx_clean keep enough room, error interrupts included.
THEOREM NeverLaps ==
  ASSUME ShapesFit, Faults \subseteq {"tx_err"} PROVE Spec => []NoLap
<1>1. RingInv => NoLap
  <2> SUFFICES ASSUME RingInv PROVE NoLap
    OBVIOUS
  <2>0. /\ cur_tx \in Slots /\ dirty_tx \in Slots /\ entry \in Slots
        /\ shape \in Shapes /\ Len(segs) \in Nat
        /\ shape.segs \in Seq(SegType) /\ Len(shape.segs) \in Nat
    BY NeedType, LenProperties DEF RingInv, TypeOK
  <2>1. pc \in {"ctx", "vlan"} => Room >= 1
    <3>1. Need(shape) >= 1 + Len(shape.segs)
      BY <2>0, NeedType
    <3>2. Room \in Nat /\ Need(shape) \in Nat
      BY <2>0, RoomType, NeedType DEF Room
    <3>3. pc = "ctx" => Room >= 1
      BY <2>0, <3>1, <3>2 DEF RingInv, RoomInv
    <3>4. pc = "vlan" => Room >= 1
      BY <2>0, <3>2 DEF RingInv, RoomInv
    <3> QED BY <3>3, <3>4
  <2>2. pc = "segs" => tx_avail(entry, dirty_tx) >= 1
    BY <2>0, RoomType DEF RingInv, RoomInv
  <2> QED BY <2>0, <2>1, <2>2, RoomStep DEF NoLap, Room
<1> QED BY <1>1, RingAlways, PTL

\* Under the same conditions no WARN_ON of the transmit path fires.
THEOREM NeverWarns ==
  ASSUME ShapesFit, Faults \subseteq {"tx_err"} PROVE Spec => []WarnFree
<1>1. RingInv => WarnFree
  <2> SUFFICES ASSUME RingInv PROVE WarnFree
    OBVIOUS
  <2>0. /\ cur_tx \in Slots /\ dirty_tx \in Slots /\ entry \in Slots
        /\ Len(segs) \in Nat /\ GET_ENTRY(entry) \in Slots
        /\ shape \in Shapes /\ shape.tso \in BOOLEAN
    BY NeedType, LenProperties, GetEntryType DEF RingInv, TypeOK
  <2>1. pc = "vlan" => tx_skbuff[cur_tx] = NULL
    BY <2>0, BetweenEnds DEF RingInv, SkbWindow
  <2>2. pc \in {"head", "segs"} => tx_skbuff[first_entry] = NULL
    BY DEF RingInv, SkbWindow
  <2>3. ASSUME pc = "segs" PROVE tx_skbuff[GET_ENTRY(entry)] = NULL
    <3>1. GET_ENTRY(entry) # dirty_tx
      BY <2>0, <2>3, RoomStep, RoomType DEF RingInv, RoomInv
    <3>2. ~Between(dirty_tx, cur_tx, entry)
      BY <2>0, <2>3, BetweenEnds DEF RingInv, RoomInv
    <3> QED BY <2>0, <3>1, <3>2, OutsideStep DEF RingInv, SkbWindow
  <2> QED BY <2>1, <2>2, <2>3 DEF WarnFree
<1> QED BY <1>1, RingAlways, PTL

-----------------------------------------------------------------------------
(* Every accepted skb is freed exactly once.                               *)

\* The slot that receives the skb holds none.
LEMMA PostSlotFree ==
  ASSUME RingInv, pc = "segs" PROVE tx_skbuff[entry] = NULL
<1>1. /\ cur_tx \in Slots /\ dirty_tx \in Slots /\ entry \in Slots
      /\ shape.tso \in BOOLEAN
  BY NeedType DEF RingInv, TypeOK
<1>2. ~Between(dirty_tx, cur_tx, entry)
  BY <1>1, BetweenEnds DEF RingInv, RoomInv
<1> QED BY <1>1, <1>2 DEF RingInv, SkbWindow

\* Every step keeps the ring's skbs and the owned skbs in agreement.
LEMMA SkbNext ==
  ASSUME Faults \subseteq {"tx_err"}, RingInv, SkbInv, [Next]_vars
  PROVE  SkbInv'
<1> USE SkbAssumption DEF SkbInv, SkbSafe
<1>0. /\ tx_skbuff \in [Slots -> Skbs \cup {NULL}] /\ entry \in Slots
      /\ live \subseteq Skbs /\ NULL \notin live
  BY DEF RingInv, TypeOK
<1>1. ASSUME NEW sh \in Shapes, XmitBusy(sh) PROVE SkbInv'
  BY <1>1 DEF XmitBusy, ring, locals
<1>2. ASSUME NEW s \in Skbs, NEW sh \in Shapes, XmitStart(s, sh) PROVE SkbInv'
  <2>1. /\ pc = "idle" /\ pc' = "ctx" /\ skb' = s /\ s \notin live /\ skb = NULL
        /\ live' = live \cup {s} /\ tx_skbuff' = tx_skbuff
    BY <1>2 DEF XmitStart, ring
  <2>2. \A i \in Slots : tx_skbuff[i] # s
    BY <2>1
  <2>3. \A x \in live : \E i \in Slots : tx_skbuff[i] = x
    BY <2>1, <1>0
  <2>4. SkbSafe'
    BY <2>1, <2>3
  <2> QED BY <2>1, <2>2, <2>4
<1>3. CASE XmitCtx
  BY <1>3 DEF XmitCtx
<1>4. CASE XmitVlan
  BY <1>4 DEF XmitVlan
<1>5. CASE XmitTsoHead
  BY <1>5 DEF XmitTsoHead, locals
<1>6. CASE XmitSeg
  BY <1>6 DEF XmitSeg
<1>7. CASE XmitPost
  <2>1. /\ pc = "segs" /\ live' = live /\ pc' \in {"idle", "last"}
        /\ tx_skbuff' = [tx_skbuff EXCEPT ![entry] = skb]
        /\ skb' = (IF pc' = "idle" THEN NULL ELSE skb)
    BY <1>7 DEF XmitPost, IdleLocals, locals
  <2>2. tx_skbuff[entry] = NULL /\ skb \in live /\ skb # NULL
    BY <2>1, <1>0, PostSlotFree
  <2>3. tx_skbuff'[entry] = skb
        /\ \A i \in Slots : i # entry => tx_skbuff'[i] = tx_skbuff[i]
    BY <2>1, <1>0
  <2>4. \A i \in Slots : tx_skbuff'[i] # NULL => tx_skbuff'[i] \in live'
    BY <2>1, <2>2, <2>3
  <2>5. \A i, j \in Slots : tx_skbuff'[i] = tx_skbuff'[j] /\ i # j
                            => tx_skbuff'[i] = NULL
    BY <2>1, <2>3
  <2>6. \A s \in live' : \E i \in Slots : tx_skbuff'[i] = s
    BY <2>1, <2>2, <2>3, <1>0
  <2>7. SkbSafe'
    BY <2>4, <2>5, <2>6
  <2>8. pc' = "last" => \E i \in Slots : tx_skbuff'[i] = skb'
    BY <2>1, <2>3, <1>0
  <2>9. pc' = "idle" => skb' = NULL
    BY <2>1
  <2> QED BY <2>1, <2>7, <2>8, <2>9
<1>8. CASE XmitGrant
  BY <1>8 DEF XmitGrant, IdleLocals
<1>9. CASE XmitMapErr
  BY <1>9 DEF XmitMapErr, MapFails
<1>10. CASE CleanStart
  BY <1>10 DEF CleanStart, ring
<1>11. CASE CleanEntry
  <2>1. /\ pc = "clean" /\ pc' = "clean" /\ skb = NULL /\ skb' = NULL
        /\ live' = live \ {tx_skbuff[entry]}
        /\ tx_skbuff' = [tx_skbuff EXCEPT ![entry] = NULL]
    BY <1>11 DEF CleanEntry
  <2>2. \A i \in Slots : tx_skbuff'[i] = IF i = entry THEN NULL ELSE tx_skbuff[i]
    BY <2>1, <1>0
  <2>3. \A i \in Slots : tx_skbuff'[i] # NULL => tx_skbuff'[i] \in live'
    BY <2>1, <2>2, <1>0
  <2>4. \A i, j \in Slots : tx_skbuff'[i] = tx_skbuff'[j] /\ i # j
                            => tx_skbuff'[i] = NULL
    BY <2>2
  <2>5. \A s \in live' : \E i \in Slots : tx_skbuff'[i] = s
    BY <2>1, <2>2, <1>0
  <2> QED BY <2>1, <2>3, <2>4, <2>5
<1>12. CASE CleanEnd
  BY <1>12 DEF CleanEnd, IdleLocals
<1>13. CASE DmaStep
  BY <1>13 DEF DmaStep, locals
<1>14. CASE TxErr
  <2>1. /\ pc = "idle" /\ pc' = "idle" /\ skb = NULL /\ skb' = NULL
        /\ tx_skbuff' = [i \in Slots |-> NULL]
        /\ live' = live \ {tx_skbuff[i] : i \in Slots}
    BY <1>14 DEF TxErr, FreeTxSkbufs, locals
  <2>2. live' = {}
    BY <2>1, <1>0
  <2> QED BY <2>1, <2>2
<1>15. CASE UNCHANGED vars
  BY <1>15 DEF vars, ring, locals
<1> QED
  BY <1>1, <1>2, <1>3, <1>4, <1>5, <1>6, <1>7, <1>8, <1>9, <1>10, <1>11,
     <1>12, <1>13, <1>14, <1>15 DEF Next

\* As long as mapping never fails and the error interrupt stays out of a
\* running handler, no skb is freed twice, freed while the ring still names it,
\* or lost.
THEOREM SkbsSafe ==
  ASSUME ShapesFit, Faults \subseteq {"tx_err"} PROVE Spec => []SkbSafe
<1>1. Init => SkbInv
  BY DEF Init, SkbInv, SkbSafe
<1>2. RingInv /\ SkbInv /\ [Next]_vars => SkbInv'
  BY SkbNext
<1>3. SkbInv => SkbSafe
  BY DEF SkbInv
<1> QED BY <1>1, <1>2, <1>3, RingAlways, PTL DEF Spec

-----------------------------------------------------------------------------
(* The engine and the mappings.                                            *)

-----------------------------------------------------------------------------
(* Intervals that grow by the slot at their end, and lose their first one. *)

\* A slot of [d, e] stays inside when the interval grows.
LEMMA GrowKeeps ==
  ASSUME NEW d \in Slots, NEW e \in Slots, NEW h \in Slots,
         h = e \/ Between(d, e, h), GET_ENTRY(e) # d
  PROVE  Between(d, GET_ENTRY(e), h)
  BY RingAssumption DEF Between, GET_ENTRY, Slots

\* The part of [d, e) from h on grows with it.
LEMMA GrowAdds ==
  ASSUME NEW d \in Slots, NEW e \in Slots, NEW h \in Slots,
         h = e \/ Between(d, e, h), GET_ENTRY(e) # d
  PROVE  \A i \in Slots : Between(h, GET_ENTRY(e), i) <=> Between(h, e, i) \/ i = e
<1>1. GET_ENTRY(e) # h
  BY RingAssumption DEF Between, GET_ENTRY, Slots
<1> QED
  BY <1>1, BetweenStep

\* The slot after one of [d, e) is another of them, or e.
LEMMA NextWithin ==
  ASSUME NEW d \in Slots, NEW e \in Slots, NEW h \in Slots, Between(d, e, h)
  PROVE  GET_ENTRY(h) = e \/ Between(d, e, GET_ENTRY(h))
  BY RingAssumption DEF Between, GET_ENTRY, Slots

\* A slot of [d, e) that is not in [h, e), h in it, comes before h: h is in what
\* is left without it.
LEMMA PassedOver ==
  ASSUME NEW c \in Slots, NEW e \in Slots, NEW h \in Slots,
         h = e \/ Between(c, e, h), c # e, ~Between(h, e, c)
  PROVE  h = e \/ Between(GET_ENTRY(c), e, h)
  BY BetweenEnds, BetweenDrop

\* There is a free slot after the one about to be filled.
Ahead ==
  /\ pc \in {"ctx", "vlan"} => GET_ENTRY(cur_tx) # dirty_tx
  /\ pc \in {"head", "segs"} => GET_ENTRY(entry) # dirty_tx

LEMMA AheadAlways ==
  ASSUME ShapesFit, Faults \subseteq {"tx_err"} PROVE Spec => []Ahead
<1>1. RingInv /\ NoLap => Ahead
  <2> SUFFICES ASSUME RingInv, NoLap, pc = "head" PROVE GET_ENTRY(entry) # dirty_tx
    BY DEF Ahead, NoLap
  <2>1. /\ entry \in Slots /\ dirty_tx \in Slots /\ Len(segs) \in Nat
        /\ tx_avail(entry, dirty_tx) >= 1 + Len(segs)
    BY LenProperties DEF RingInv, RoomInv, TypeOK
  <2> QED
    BY <2>1, RoomStep, RoomType
<1> QED
  BY <1>1, RingAlways, NeverLaps, PTL

\* Where the filled part of the ring ends.
End == IF pc \in {"head", "segs"} THEN GET_ENTRY(entry) ELSE cur_tx

LEMMA EndType == ASSUME TypeOK PROVE End \in Slots
BY GetEntryType DEF TypeOK, End

-----------------------------------------------------------------------------
(* What the engine may read.                                               *)

\* The descriptors of the frame being sent that are granted last.
Withheld == {mss_desc} \cup (IF pc \in {"head", "segs", "last"} THEN {first_entry} ELSE {})

\* The engine stands between dirty_tx, or a running tx_clean, and the end of the
\* filled part; from there on all is granted except what is withheld, which is
\* still before it, and nothing else is.
EngineInv ==
  /\ hw_cur = End \/ Between(dirty_tx, End, hw_cur)
  /\ pc = "clean" => hw_cur = End \/ Between(entry, End, hw_cur)
  /\ \A i \in Slots : own[i] <=> Between(hw_cur, End, i) /\ i \notin Withheld
  /\ \A i \in Withheld : i = N \/ Between(hw_cur, End, i)
  /\ pc \notin {"vlan", "head", "segs"} \/ ~shape.tso => mss_desc = N

LEMMA EngineStart == Init => EngineInv
BY Constants, BetweenEnds DEF Init, EngineInv, End, Withheld

\* A step that fills, grants and sends nothing.
LEMMA EngineStill ==
  ASSUME EngineInv, UNCHANGED <<dirty_tx, own, hw_cur, mss_desc>>, End' = End,
         Withheld' = Withheld, pc' # "clean",
         pc' \notin {"vlan", "head", "segs"} \/ ~shape'.tso => mss_desc' = N
  PROVE  EngineInv'
BY DEF EngineInv

LEMMA EngineXmit ==
  ASSUME ~OstEn, TypeOK, EngineInv, Ahead, Ahead',
         XmitCtx \/ XmitVlan \/ XmitTsoHead \/ XmitSeg
  PROVE  EngineInv'
<1> USE GetEntryType
<1>0. /\ cur_tx \in Slots /\ dirty_tx \in Slots /\ entry \in Slots /\ hw_cur \in Slots
      /\ first_entry \in Slots /\ own \in [Slots -> BOOLEAN]
  BY DEF TypeOK
<1>n. N \notin Slots
  BY RingAssumption DEF Slots
<1>1. CASE XmitCtx
  <2>1. End = cur_tx /\ Withheld = {N} /\ mss_desc = N
    BY <1>1 DEF XmitCtx, EngineInv, End, Withheld
  <2>2. CASE ~NeedsCtx(shape, mss)
    BY <1>1, <2>1, <2>2, EngineStill DEF XmitCtx, End, Withheld
  <2>3. CASE NeedsCtx(shape, mss)
    <3>1. shape.tso /\ shape' = shape /\ mss_desc' = cur_tx
          /\ own' = [own EXCEPT ![cur_tx] = FALSE]
          /\ End' = GET_ENTRY(cur_tx) /\ Withheld' = {cur_tx} /\ pc' = "vlan"
          /\ UNCHANGED <<dirty_tx, hw_cur>>
      BY <1>1, <2>3 DEF XmitCtx, NeedsCtx, End, Withheld
    <3>2. GET_ENTRY(cur_tx) # dirty_tx
      BY <1>1 DEF XmitCtx, Ahead
    <3>3. /\ Between(dirty_tx, GET_ENTRY(cur_tx), hw_cur)
          /\ \A i \in Slots : Between(hw_cur, GET_ENTRY(cur_tx), i)
                                <=> Between(hw_cur, cur_tx, i) \/ i = cur_tx
      BY <1>0, <2>1, <3>2, GrowKeeps, GrowAdds DEF EngineInv
    <3>4. \A i \in Slots : own[i] <=> Between(hw_cur, cur_tx, i)
      BY <2>1, <1>n DEF EngineInv
    <3>5. \A i \in Slots : own'[i] <=> Between(hw_cur, GET_ENTRY(cur_tx), i) /\ i # cur_tx
      BY <1>0, <3>1, <3>3, <3>4
    <3> QED
      BY <1>0, <3>1, <3>3, <3>5 DEF EngineInv
  <2> QED
    BY <2>2, <2>3
<1>2. CASE XmitVlan
  <2>1. /\ End = cur_tx /\ Withheld = {mss_desc} /\ mss_desc' = mss_desc /\ shape' = shape
        /\ first_entry' = cur_tx' /\ End' = GET_ENTRY(cur_tx')
        /\ Withheld' = {mss_desc, cur_tx'} /\ pc' \in {"head", "segs"}
        /\ UNCHANGED <<dirty_tx, hw_cur>>
    BY <1>2 DEF XmitVlan, End, Withheld
  <2>2. GET_ENTRY(cur_tx) # dirty_tx /\ GET_ENTRY(cur_tx') # dirty_tx
    BY <1>2, <2>1 DEF XmitVlan, Ahead
  <2>3. /\ Between(dirty_tx, GET_ENTRY(cur_tx), hw_cur)
        /\ \A i \in Slots : Between(hw_cur, GET_ENTRY(cur_tx), i)
                              <=> Between(hw_cur, cur_tx, i) \/ i = cur_tx
    BY <1>0, <2>1, <2>2, GrowKeeps, GrowAdds DEF EngineInv
  <2>4. /\ \A i \in Slots : own[i] <=> Between(hw_cur, cur_tx, i) /\ i # mss_desc
        /\ mss_desc = N \/ Between(hw_cur, cur_tx, mss_desc)
        /\ ~shape.tso => mss_desc = N
        /\ mss_desc \in Slots \cup {N}
    BY <1>0, <2>1, RingAssumption DEF EngineInv, TypeOK, Slots
  <2>5. ~Between(hw_cur, cur_tx, cur_tx)
    BY <1>0, BetweenEnds
  <2>6. CASE ~NeedsVlan(shape)
    <3>1. own' = own /\ cur_tx' = cur_tx
      BY <1>2, <2>6 DEF XmitVlan
    <3>2. \A i \in Slots : own'[i] <=> /\ Between(hw_cur, GET_ENTRY(cur_tx), i)
                                       /\ i # mss_desc /\ i # cur_tx
      BY <2>3, <2>4, <2>5, <3>1
    <3>3. \A i \in {mss_desc, cur_tx} : i = N \/ Between(hw_cur, GET_ENTRY(cur_tx), i)
      BY <1>0, <2>3, <2>4
    <3> QED
      BY <2>1, <2>3, <2>4, <3>1, <3>2, <3>3 DEF EngineInv
  <2>7. CASE NeedsVlan(shape)
    <3>1. own' = [own EXCEPT ![cur_tx] = TRUE] /\ cur_tx' = GET_ENTRY(cur_tx)
      BY <1>2, <2>7 DEF XmitVlan
    <3>2. /\ Between(dirty_tx, GET_ENTRY(cur_tx'), hw_cur)
          /\ \A i \in Slots : Between(hw_cur, GET_ENTRY(cur_tx'), i)
                                <=> Between(hw_cur, cur_tx', i) \/ i = cur_tx'
      BY <1>0, <2>2, <2>3, <3>1, GrowKeeps, GrowAdds
    <3>3. ~Between(hw_cur, cur_tx', cur_tx')
      BY <1>0, <3>1, BetweenEnds
    <3>4. mss_desc # cur_tx
      BY <1>0, <1>n, <2>4, <2>5
    <3>5. \A i \in Slots : own'[i] <=> Between(hw_cur, cur_tx', i) /\ i # mss_desc
      BY <1>0, <2>3, <2>4, <3>1, <3>4
    <3>6. \A i \in Slots : own'[i] <=> /\ Between(hw_cur, GET_ENTRY(cur_tx'), i)
                                       /\ i # mss_desc /\ i # cur_tx'
      BY <3>2, <3>3, <3>5
    <3>7. \A i \in {mss_desc, cur_tx'} : i = N \/ Between(hw_cur, GET_ENTRY(cur_tx'), i)
      BY <1>0, <2>3, <2>4, <3>1, <3>2
    <3> QED
      BY <2>1, <2>4, <3>2, <3>6, <3>7 DEF EngineInv
  <2> QED
    BY <2>6, <2>7
<1>3. CASE XmitTsoHead
  BY <1>3, EngineStill DEF XmitTsoHead, locals, End, Withheld, EngineInv
<1>4. CASE XmitSeg
  <2> DEFINE e == GET_ENTRY(entry)
  <2>1. /\ End = e /\ End' = GET_ENTRY(e) /\ Withheld = {mss_desc, first_entry}
        /\ Withheld' = Withheld /\ own' = [own EXCEPT ![e] = TRUE]
        /\ pc = "segs" /\ pc' = "segs" /\ entry' = e
        /\ UNCHANGED <<dirty_tx, hw_cur, mss_desc, shape>>
    BY <1>4 DEF XmitSeg, End, Withheld
  <2>2. GET_ENTRY(e) # dirty_tx /\ e \in Slots
    BY <1>0, <2>1 DEF Ahead
  <2> HIDE DEF e
  <2>3. /\ Between(dirty_tx, GET_ENTRY(e), hw_cur)
        /\ \A i \in Slots : Between(hw_cur, GET_ENTRY(e), i)
                              <=> Between(hw_cur, e, i) \/ i = e
    BY <1>0, <2>1, <2>2, GrowKeeps, GrowAdds DEF EngineInv
  <2>4. ~Between(hw_cur, e, e)
    BY <1>0, <2>2, BetweenEnds
  <2>5. \A i \in Withheld : i \in Slots \cup {N} /\ (i = N \/ Between(hw_cur, e, i))
    <3>1. mss_desc \in Slots \cup {N}
      BY RingAssumption DEF TypeOK, Slots
    <3>2. \A i \in Withheld : i = N \/ Between(hw_cur, e, i)
      BY <2>1 DEF EngineInv
    <3> QED
      BY <1>0, <2>1, <3>1, <3>2
  <2>6. e \notin Withheld
    BY <1>n, <2>2, <2>4, <2>5
  <2>7. \A i \in Slots : own'[i] <=> Between(hw_cur, GET_ENTRY(e), i) /\ i \notin Withheld
    BY <1>0, <2>1, <2>2, <2>3, <2>6 DEF EngineInv
  <2>8. \A i \in Withheld : i = N \/ Between(hw_cur, GET_ENTRY(e), i)
    BY <2>3, <2>5
  <2> QED
    BY <2>1, <2>3, <2>7, <2>8 DEF EngineInv
<1> QED
  BY <1>1, <1>2, <1>3, <1>4

\* The frame is posted, and what was withheld is granted.
LEMMA EngineGrant ==
  ASSUME TypeOK, EngineInv, XmitPost \/ XmitGrant
  PROVE  EngineInv'
<1>0. /\ first_entry \in Slots /\ mss_desc \in Slots \cup {N} /\ N \notin Slots
      /\ own \in [Slots -> BOOLEAN]
  BY RingAssumption DEF TypeOK, Slots
<1>1. CASE XmitPost
  <2>1. pc = "segs" /\ cur_tx' = End /\ UNCHANGED <<dirty_tx, hw_cur>>
        /\ Withheld = {mss_desc, first_entry}
    BY <1>1 DEF XmitPost, End, Withheld
  <2>2. CASE shape.tso
    <3>1. /\ own' = [i \in Slots |-> own[i] \/ i = first_entry \/ i = mss_desc]
          /\ pc' = "idle" /\ mss_desc' = N
      BY <1>1, <2>2 DEF XmitPost, IdleLocals
    <3>2. End' = End /\ Withheld' = {N}
      BY <2>1, <3>1 DEF End, Withheld
    <3>3. \A i \in Slots : own'[i] <=> own[i] \/ i \in Withheld
      BY <2>1, <3>1
    <3>4. \A i \in Slots : own'[i] <=> Between(hw_cur, End, i)
      BY <1>0, <3>3 DEF EngineInv
    <3> QED
      BY <1>0, <2>1, <3>1, <3>2, <3>4 DEF EngineInv
  <2>3. CASE ~shape.tso
    <3>1. /\ pc' = "last" /\ UNCHANGED <<own, mss_desc, first_entry, shape>>
      BY <1>1, <2>3 DEF XmitPost, locals
    <3>2. End' = End /\ Withheld' = Withheld /\ mss_desc = N
      BY <2>1, <2>3, <3>1 DEF End, Withheld, EngineInv
    <3> QED
      BY <2>1, <3>1, <3>2, EngineStill
  <2> QED
    BY <2>2, <2>3
<1>2. CASE XmitGrant
  <2>1. /\ pc = "last" /\ pc' = "idle" /\ mss_desc' = N
        /\ own' = [own EXCEPT ![first_entry] = TRUE]
        /\ UNCHANGED <<cur_tx, dirty_tx, hw_cur>>
    BY <1>2 DEF XmitGrant, IdleLocals
  <2>2. /\ End = cur_tx /\ End' = End /\ mss_desc = N
        /\ Withheld = {N, first_entry} /\ Withheld' = {N}
    BY <2>1 DEF End, Withheld, EngineInv
  <2>3. \A i \in Slots : own'[i] <=> Between(hw_cur, End, i)
    BY <1>0, <2>1, <2>2 DEF EngineInv
  <2> QED
    BY <1>0, <2>1, <2>2, <2>3 DEF EngineInv
<1> QED
  BY <1>1, <1>2

LEMMA EngineClean ==
  ASSUME RingInv, EngineInv, CleanStart \/ CleanEntry \/ CleanEnd
  PROVE  EngineInv'
<1>0. /\ cur_tx \in Slots /\ dirty_tx \in Slots /\ entry \in Slots /\ hw_cur \in Slots
      /\ N \notin Slots
  BY RingAssumption DEF RingInv, TypeOK, Slots
<1>1. pc # "segs" /\ End = cur_tx /\ Withheld = {N} /\ mss_desc = N
  BY DEF CleanStart, CleanEntry, CleanEnd, EngineInv, End, Withheld
<1>2. End' = End /\ Withheld' = Withheld /\ mss_desc' = N /\ UNCHANGED <<own, hw_cur>>
      /\ pc' \in {"idle", "clean"}
  BY <1>1 DEF CleanStart, CleanEntry, CleanEnd, IdleLocals, ring, End, Withheld
<1>3. CASE CleanStart
  BY <1>1, <1>2, <1>3 DEF CleanStart, ring, EngineInv
<1>4. CASE CleanEntry
  <2>1. pc = "clean" /\ entry # cur_tx /\ ~own[entry] /\ entry' = GET_ENTRY(entry)
        /\ dirty_tx' = dirty_tx
    BY <1>4 DEF CleanEntry, CleanMore
  <2>2. ~Between(hw_cur, cur_tx, entry)
    BY <1>0, <1>1, <2>1 DEF EngineInv
  <2>3. hw_cur = cur_tx \/ Between(GET_ENTRY(entry), cur_tx, hw_cur)
    BY <1>0, <1>1, <2>1, <2>2, PassedOver DEF EngineInv
  <2> QED
    BY <1>1, <1>2, <2>1, <2>3 DEF EngineInv
<1>5. CASE CleanEnd
  BY <1>1, <1>2, <1>5 DEF CleanEnd, EngineInv
<1> QED
  BY <1>3, <1>4, <1>5

LEMMA EngineSend ==
  ASSUME TypeOK, EngineInv, DmaStep PROVE EngineInv'
<1>0. End \in Slots /\ dirty_tx \in Slots /\ entry \in Slots /\ hw_cur \in Slots
      /\ own \in [Slots -> BOOLEAN] /\ N \notin Slots
      /\ Withheld \subseteq Slots \cup {N}
  BY EndType, RingAssumption DEF TypeOK, Slots, Withheld
<1>1. /\ own[hw_cur] /\ own' = [own EXCEPT ![hw_cur] = FALSE] /\ hw_cur' = GET_ENTRY(hw_cur)
      /\ End' = End /\ Withheld' = Withheld
      /\ UNCHANGED <<pc, entry, dirty_tx, mss_desc, shape>>
  BY DEF DmaStep, locals, End, Withheld
<1>2. Between(hw_cur, End, hw_cur) /\ hw_cur \notin Withheld
  BY <1>0, <1>1 DEF EngineInv
<1>3. hw_cur # End
  BY <1>0, <1>2, BetweenEnds
<1>4. \A i \in Slots : Between(hw_cur', End, i) <=> Between(hw_cur, End, i) /\ i # hw_cur
  BY <1>0, <1>1, <1>3, BetweenDrop
<1>5. /\ hw_cur' = End \/ Between(dirty_tx, End, hw_cur')
      /\ pc = "clean" => hw_cur' = End \/ Between(entry, End, hw_cur')
  BY <1>0, <1>1, <1>3, NextWithin DEF EngineInv
<1>6. \A i \in Slots : own'[i] <=> Between(hw_cur', End, i) /\ i \notin Withheld
  BY <1>0, <1>1, <1>4 DEF EngineInv
<1>7. \A i \in Withheld : i = N \/ Between(hw_cur', End, i)
  BY <1>0, <1>2, <1>4 DEF EngineInv
<1> QED
  BY <1>1, <1>5, <1>6, <1>7 DEF EngineInv

LEMMA EngineNext ==
  ASSUME ~OstEn, Faults \subseteq {"tx_err"}, RingInv, EngineInv, Ahead, Ahead',
         [Next]_vars
  PROVE  EngineInv'
<1>0. TypeOK
  BY DEF RingInv
<1>1. ASSUME NEW sh \in Shapes, XmitBusy(sh) PROVE EngineInv'
  BY <1>1, EngineStill DEF XmitBusy, ring, locals, End, Withheld, EngineInv
<1>2. ASSUME NEW s \in Skbs, NEW sh \in Shapes, XmitStart(s, sh) PROVE EngineInv'
  <2>1. mss_desc = N
    BY <1>2 DEF XmitStart, EngineInv
  <2> QED
    BY <1>2, <2>1, EngineStill DEF XmitStart, ring, End, Withheld
<1>3. CASE XmitMapErr
  BY <1>3 DEF XmitMapErr, MapFails
<1>4. CASE TxErr
  <2>1. /\ pc = "idle" /\ pc' = "idle" /\ cur_tx' = 0 /\ dirty_tx' = 0 /\ hw_cur' = 0
        /\ own' = [i \in Slots |-> FALSE] /\ mss_desc' = mss_desc
    BY <1>4 DEF TxErr, locals
  <2>2. End' = 0 /\ Withheld' = {N} /\ mss_desc = N
    BY <2>1 DEF End, Withheld, EngineInv
  <2>3. \A i \in Slots : ~Between(0, 0, i)
    BY Constants, RingAssumption DEF Between, Slots
  <2> QED
    BY <2>1, <2>2, <2>3 DEF EngineInv
<1>5. CASE UNCHANGED vars
  BY <1>5 DEF vars, ring, locals, End, Withheld, EngineInv
<1> QED
  BY <1>0, <1>1, <1>2, <1>3, <1>4, <1>5, EngineXmit, EngineGrant, EngineClean, EngineSend
     DEF Next

\* Between calls every descriptor from the engine's up to cur_tx is granted, the
\* MSS and VLAN descriptors included, and tx_clean has not passed the engine:
\* so it is for every traffic that fits the ring, with error interrupts, on every
\* queue that puts no one-step timestamp descriptors.
THEOREM EngineAlwaysReady ==
  ASSUME ShapesFit, Faults \subseteq {"tx_err"}, ~OstEn
  PROVE  Spec => []EngineReady
<1>1. EngineInv => EngineReady
  <2> SUFFICES ASSUME EngineInv, pc = "idle"
               PROVE  /\ hw_cur = cur_tx \/ Between(dirty_tx, cur_tx, hw_cur)
                      /\ \A i \in Slots : Between(hw_cur, cur_tx, i) => own[i]
    BY DEF EngineReady
  <2>1. End = cur_tx /\ Withheld = {N} /\ N \notin Slots
    BY RingAssumption DEF EngineInv, End, Withheld, Slots
  <2> QED
    BY <2>1 DEF EngineInv
<1>2. RingInv /\ EngineInv /\ Ahead /\ Ahead' /\ [Next]_vars => EngineInv'
  BY EngineNext
<1> QED
  BY <1>1, <1>2, EngineStart, RingAlways, AheadAlways, PTL DEF Spec

-----------------------------------------------------------------------------
(* What the slots say is mapped.                                           *)

\* Mappings are recorded only in the filled part, behind a running tx_clean none
\* is left, and the slot that will record the linear part records nothing.
MapInv ==
  /\ dma_debug = {} /\ \A i \in Slots : buf[i] # "stale"
  /\ \A i \in Slots : buf[i] # "none" => Between(dirty_tx, End, i)
  /\ pc = "clean" => \A i \in Slots : buf[i] # "none" => Between(entry, End, i)
  /\ pc \in {"head", "segs", "last"} => Between(dirty_tx, End, first_entry)
  /\ pc = "head" \/ (pc = "segs" /\ ~shape.tso) \/ pc = "last" => buf[first_entry] = "none"

\* A step that maps and cleans nothing, at most moving the end up.
LEMMA MapStill ==
  ASSUME MapInv, UNCHANGED <<dirty_tx, buf, dma_debug>>,
         \A i \in Slots : Between(dirty_tx, End, i) => Between(dirty_tx, End', i),
         pc' \in {"idle", "ctx", "vlan"}
  PROVE  MapInv'
BY DEF MapInv

LEMMA MapXmit ==
  ASSUME RingInv, MapInv, Ahead, Ahead', XmitCtx \/ XmitVlan \/ XmitTsoHead \/ XmitSeg
  PROVE  MapInv'
<1> USE GetEntryType
<1>0. /\ cur_tx \in Slots /\ dirty_tx \in Slots /\ entry \in Slots /\ first_entry \in Slots
      /\ buf \in [Slots -> BufType]
  BY DEF RingInv, TypeOK
<1>1. CASE XmitCtx
  <2>1. /\ pc = "ctx" /\ pc' = "vlan" /\ End = cur_tx /\ End' = cur_tx'
        /\ UNCHANGED <<dirty_tx, buf, dma_debug>>
        /\ cur_tx' = cur_tx \/ cur_tx' = GET_ENTRY(cur_tx)
    BY <1>1 DEF XmitCtx, End
  <2>2. \A i \in Slots : Between(dirty_tx, cur_tx, i) => Between(dirty_tx, cur_tx', i)
    BY <1>0, <2>1, BetweenStep DEF Ahead
  <2> QED
    BY <2>1, <2>2, MapStill
<1>2. CASE XmitVlan
  <2>1. /\ pc = "vlan" /\ End = cur_tx /\ End' = GET_ENTRY(cur_tx') /\ pc' \in {"head", "segs"}
        /\ first_entry' = cur_tx' /\ entry' = cur_tx'
        /\ UNCHANGED <<dirty_tx, buf, dma_debug>>
        /\ cur_tx' = cur_tx \/ cur_tx' = GET_ENTRY(cur_tx)
    BY <1>2 DEF XmitVlan, End
  <2>2. cur_tx' \in Slots /\ GET_ENTRY(cur_tx) # dirty_tx /\ GET_ENTRY(cur_tx') # dirty_tx
    BY <1>0, <2>1 DEF Ahead
  <2>3. \A i \in Slots : Between(dirty_tx, cur_tx, i) => Between(dirty_tx, cur_tx', i)
    BY <1>0, <2>1, <2>2, BetweenStep
  <2>4. \A i \in Slots : Between(dirty_tx, GET_ENTRY(cur_tx'), i)
                           <=> Between(dirty_tx, cur_tx', i) \/ i = cur_tx'
    BY <1>0, <2>2, BetweenStep
  <2>5. ~Between(dirty_tx, cur_tx', cur_tx')
    BY <1>0, <2>2, BetweenEnds
  <2>6. buf[cur_tx'] = "none"
    BY <2>1, <2>2, <2>3, <2>5 DEF MapInv
  <2> QED
    BY <2>1, <2>2, <2>3, <2>4, <2>6 DEF MapInv
<1>3. CASE XmitTsoHead
  <2>1. /\ pc = "head" /\ pc' = "segs" /\ End' = End /\ buf[first_entry] = "none"
        /\ shape' = shape /\ first_entry' = first_entry /\ dirty_tx' = dirty_tx
        /\ buf' = [buf EXCEPT ![first_entry] = "mapped"] /\ dma_debug' = dma_debug
    BY <1>3 DEF XmitTsoHead, RecordMapping, locals, End, MapInv
  <2>2. shape.tso
    BY <2>1 DEF RingInv, RoomInv
  <2> QED
    BY <1>0, <2>1, <2>2 DEF MapInv
<1>4. CASE XmitSeg
  <2> DEFINE e == GET_ENTRY(entry)
  <2>1. /\ pc = "segs" /\ pc' = "segs" /\ End = e /\ End' = GET_ENTRY(e) /\ entry' = e
        /\ UNCHANGED <<dirty_tx, shape, first_entry>>
        /\ \/ UNCHANGED <<buf, dma_debug>>
           \/ /\ buf' = [buf EXCEPT ![e] = "mapped"]
              /\ buf[e] = "none" => dma_debug' = dma_debug
    BY <1>4 DEF XmitSeg, RecordMapping, End
  <2>2. GET_ENTRY(e) # dirty_tx /\ e \in Slots
    BY <1>0, <2>1 DEF Ahead
  <2> HIDE DEF e
  <2>3. \A i \in Slots : Between(dirty_tx, GET_ENTRY(e), i) <=> Between(dirty_tx, e, i) \/ i = e
    BY <1>0, <2>2, BetweenStep
  <2>4. ~Between(dirty_tx, e, e)
    BY <1>0, <2>2, BetweenEnds
  <2>5. buf[e] = "none" /\ first_entry # e
    BY <2>1, <2>2, <2>4 DEF MapInv
  <2>6. \A i \in Slots : buf'[i] = buf[i] \/ (i = e /\ buf'[i] = "mapped")
    BY <1>0, <2>1
  <2> QED
    BY <1>0, <2>1, <2>2, <2>3, <2>5, <2>6 DEF MapInv
<1> QED
  BY <1>1, <1>2, <1>3, <1>4

LEMMA MapGrant ==
  ASSUME TypeOK, MapInv, XmitPost \/ XmitGrant PROVE MapInv'
<1>0. first_entry \in Slots /\ buf \in [Slots -> BufType]
  BY DEF TypeOK
<1>1. CASE XmitPost
  <2>1. /\ pc = "segs" /\ End' = End /\ pc' = (IF shape.tso THEN "idle" ELSE "last")
        /\ ~shape.tso => first_entry' = first_entry
        /\ UNCHANGED <<dirty_tx, buf, dma_debug>>
    BY <1>1 DEF XmitPost, locals, End
  <2> QED
    BY <2>1 DEF MapInv
<1>2. CASE XmitGrant
  <2>1. /\ pc = "last" /\ pc' = "idle" /\ End' = End /\ buf[first_entry] = "none"
        /\ buf' = [buf EXCEPT ![first_entry] = "mapped"]
        /\ UNCHANGED <<dirty_tx, dma_debug>>
    BY <1>2 DEF XmitGrant, RecordMapping, End, MapInv
  <2>2. \A i \in Slots : buf'[i] = buf[i] \/ (i = first_entry /\ buf'[i] = "mapped")
    BY <1>0, <2>1
  <2> QED
    BY <2>1, <2>2 DEF MapInv
<1> QED
  BY <1>1, <1>2

LEMMA MapClean ==
  ASSUME TypeOK, MapInv, CleanStart \/ CleanEntry \/ CleanEnd PROVE MapInv'
<1>0. entry \in Slots /\ cur_tx \in Slots /\ buf \in [Slots -> BufType]
  BY DEF TypeOK
<1>1. End = cur_tx /\ End' = End /\ pc' \in {"idle", "clean"}
  BY DEF CleanStart, CleanEntry, CleanEnd, ring, End
<1>2. CASE CleanStart
  BY <1>1, <1>2 DEF CleanStart, ring, MapInv
<1>3. CASE CleanEntry
  <2>1. /\ pc = "clean" /\ pc' = "clean" /\ entry # cur_tx /\ entry' = GET_ENTRY(entry)
        /\ buf' = [buf EXCEPT ![entry] = "none"] /\ dirty_tx' = dirty_tx
        /\ dma_debug' = dma_debug \cup Unmap({entry})
    BY <1>3 DEF CleanEntry, CleanMore
  <2>2. Unmap({entry}) = {}
    BY <1>0 DEF Unmap, MapInv
  <2>3. \A i \in Slots : Between(GET_ENTRY(entry), cur_tx, i)
                           <=> Between(entry, cur_tx, i) /\ i # entry
    BY <1>0, <2>1, BetweenDrop
  <2>4. \A i \in Slots : buf'[i] = IF i = entry THEN "none" ELSE buf[i]
    BY <1>0, <2>1
  <2> QED
    BY <1>1, <2>1, <2>2, <2>3, <2>4 DEF MapInv
<1>4. CASE CleanEnd
  BY <1>1, <1>4 DEF CleanEnd, MapInv
<1> QED
  BY <1>2, <1>3, <1>4

LEMMA MapNext ==
  ASSUME Faults = {}, RingInv, MapInv, Ahead, Ahead', [Next]_vars
  PROVE  MapInv'
<1>0. TypeOK
  BY DEF RingInv
<1>1. ASSUME NEW sh \in Shapes, XmitBusy(sh) PROVE MapInv'
  BY <1>1, MapStill DEF XmitBusy, ring, locals, End
<1>2. ASSUME NEW s \in Skbs, NEW sh \in Shapes, XmitStart(s, sh) PROVE MapInv'
  BY <1>2, MapStill DEF XmitStart, ring, End
<1>3. CASE XmitMapErr \/ TxErr
  BY <1>3 DEF XmitMapErr, MapFails, TxErr
<1>4. CASE DmaStep \/ UNCHANGED vars
  BY <1>4 DEF DmaStep, vars, ring, locals, End, MapInv
<1> QED
  BY <1>0, <1>1, <1>2, <1>3, <1>4, MapXmit, MapGrant, MapClean DEF Next

\* Every DMA mapping of a frame is recorded in a slot of its own and unmapped
\* once by tx_clean, for every traffic that fits the ring and as long as nothing
\* fails.
THEOREM MappingsBalance ==
  ASSUME ShapesFit, Faults = {} PROVE Spec => []MappingBalance
<1>1. Init => MapInv
  BY DEF Init, MapInv, End
<1>2. MapInv => MappingBalance
  BY DEF MapInv, MappingBalance, End
<1>3. RingInv /\ MapInv /\ Ahead /\ Ahead' /\ [Next]_vars => MapInv'
  BY MapNext
<1>4. Faults \subseteq {"tx_err"}
  OBVIOUS
<1> QED
  BY <1>1, <1>2, <1>3, <1>4, RingAlways, AheadAlways, PTL DEF Spec

-----------------------------------------------------------------------------
(* The order of the slots that hold an skb.                                *)

\* Sets of slots are finite.
LEMMA SlotsFinite ==
  ASSUME NEW S \in SUBSET Slots
  PROVE  IsFiniteSet(S) /\ Cardinality(S) \in Nat
<1>1. IsFiniteSet(Slots)
  BY RingAssumption, FS_Interval DEF Slots
<1> QED BY <1>1, FS_Subset, FS_CardinalityType

\* Of two slots one comes before the other, and what is before it is before
\* the other too.
LEMMA OneBefore ==
  ASSUME NEW d \in Slots, NEW i \in Slots, NEW j \in Slots, i # j
  PROVE  /\ Between(d, j, i) \/ Between(d, i, j)
         /\ ~(Between(d, j, i) /\ Between(d, i, j))
         /\ \A m \in Slots : Between(d, j, i) /\ Between(d, i, m) => Between(d, j, m)
BY RingAssumption DEF Between, Slots

\* The turn of a slot is a place among all, and a later one's is greater.
LEMMA TurnType ==
  ASSUME NEW S \in SUBSET Slots, NEW d \in Slots, NEW i \in S
  PROVE  Turn(S, d, i) \in 1 .. Cardinality(S)
<1>1. UpTo(S, d, i) \in SUBSET S /\ i \in UpTo(S, d, i)
  BY DEF UpTo
<1>2. /\ IsFiniteSet(S) /\ Cardinality(S) \in Nat
      /\ IsFiniteSet(UpTo(S, d, i)) /\ Turn(S, d, i) \in Nat
      /\ Turn(S, d, i) <= Cardinality(S)
  BY <1>1, SlotsFinite, FS_Subset DEF Turn
<1>3. Turn(S, d, i) # 0
  BY <1>1, <1>2, FS_EmptySet DEF Turn
<1> QED BY <1>2, <1>3

LEMMA TurnLater ==
  ASSUME NEW S \in SUBSET Slots, NEW d \in Slots, NEW i \in S, NEW j \in S,
         i # j, Between(d, j, i)
  PROVE  Turn(S, d, i) < Turn(S, d, j)
<1>1. /\ UpTo(S, d, i) \in SUBSET UpTo(S, d, j)
      /\ j \in UpTo(S, d, j) /\ j \notin UpTo(S, d, i)
  BY OneBefore DEF UpTo
<1>2. UpTo(S, d, j) \in SUBSET S
  BY DEF UpTo
<1>3. IsFiniteSet(UpTo(S, d, j))
  BY <1>2, SlotsFinite, FS_Subset
<1>4. Turn(S, d, i) <= Turn(S, d, j) /\ Turn(S, d, i) # Turn(S, d, j)
  BY <1>1, <1>3, FS_Subset DEF Turn
<1> QED BY <1>4, TurnType

\* Every place is the turn of exactly one slot.
LEMMA TurnOne ==
  ASSUME NEW S \in SUBSET Slots, NEW d \in Slots, NEW i \in S, NEW j \in S,
         Turn(S, d, i) = Turn(S, d, j)
  PROVE  i = j
<1> SUFFICES ASSUME i # j PROVE FALSE
  OBVIOUS
<1>1. Between(d, j, i) \/ Between(d, i, j)
  BY OneBefore
<1>2. Turn(S, d, i) < Turn(S, d, j) \/ Turn(S, d, j) < Turn(S, d, i)
  BY <1>1, TurnLater
<1>3. Turn(S, d, i) \in Int /\ Turn(S, d, j) \in Int
  BY TurnType
<1> QED BY <1>2, <1>3

LEMMA NthIs ==
  ASSUME NEW S \in SUBSET Slots, NEW d \in Slots, NEW i \in S
  PROVE  Nth(S, d, Turn(S, d, i)) = i
<1>1. \A j \in S : Turn(S, d, j) = Turn(S, d, i) => j = i
  BY TurnOne
<1> QED BY <1>1 DEF Nth

LEMMA NthIn ==
  ASSUME NEW S \in SUBSET Slots, NEW d \in Slots, NEW t \in 1 .. Cardinality(S)
  PROVE  Nth(S, d, t) \in S /\ Turn(S, d, Nth(S, d, t)) = t
<1>1. \E i \in S : Turn(S, d, i) = t
  <2> SUFFICES ASSUME \A i \in S : Turn(S, d, i) # t PROVE FALSE
    OBVIOUS
  <2> DEFINE T == (1 .. Cardinality(S)) \ {t}
             f == [i \in S |-> Turn(S, d, i)]
  <2>1. IsFiniteSet(S) /\ Cardinality(S) \in Nat
    BY SlotsFinite
  <2>2. IsFiniteSet(1 .. Cardinality(S)) /\ Cardinality(1 .. Cardinality(S)) = Cardinality(S)
    <3>1. Cardinality(S) >= 1
      BY <2>1
    <3>2. /\ IsFiniteSet(1 .. Cardinality(S))
          /\ Cardinality(1 .. Cardinality(S)) =
               IF 1 > Cardinality(S) THEN 0 ELSE Cardinality(S) - 1 + 1
      BY <2>1, FS_Interval
    <3> QED BY <2>1, <3>1, <3>2
  <2>3. IsFiniteSet(T) /\ Cardinality(T) = Cardinality(S) - 1
    BY <2>2, FS_RemoveElement
  <2>4. f \in [S -> T]
    BY TurnType
  <2> HIDE DEF T
  <2>5. \E x, y \in S : x # y /\ f[x] = f[y]
    <3> HIDE DEF f
    <3> QED BY <2>1, <2>3, <2>4, FS_PigeonHole
  <2> QED BY <2>5, TurnOne
<1> QED BY <1>1 DEF Nth

\* A slot behind all others is the last.
LEMMA NthAdded ==
  ASSUME NEW S \in SUBSET Slots, NEW d \in Slots, NEW x \in Slots, x \notin S,
         \A i \in S : Between(d, x, i)
  PROVE  /\ Cardinality(S \cup {x}) = Cardinality(S) + 1
         /\ \A t \in 1 .. Cardinality(S) : Nth(S \cup {x}, d, t) = Nth(S, d, t)
         /\ Nth(S \cup {x}, d, Cardinality(S) + 1) = x
<1> DEFINE T == S \cup {x}
<1>1. T \in SUBSET Slots /\ x \in T
  OBVIOUS
<1>2. Cardinality(T) = Cardinality(S) + 1 /\ Cardinality(S) \in Nat
  BY SlotsFinite, FS_AddElement
<1>3. ASSUME NEW t \in 1 .. Cardinality(S) PROVE Nth(T, d, t) = Nth(S, d, t)
  <2> DEFINE i == Nth(S, d, t)
  <2>1. i \in S /\ Turn(S, d, i) = t
    BY NthIn
  <2>2. UpTo(T, d, i) = UpTo(S, d, i)
    BY <2>1, OneBefore DEF UpTo
  <2>3. Turn(T, d, i) = t
    BY <2>1, <2>2 DEF Turn
  <2>4. Nth(T, d, Turn(T, d, i)) = i
    BY <1>1, <2>1, NthIs
  <2> QED BY <2>3, <2>4
<1>4. Nth(T, d, Cardinality(S) + 1) = x
  <2>1. UpTo(T, d, x) = T
    BY DEF UpTo
  <2>2. Turn(T, d, x) = Cardinality(S) + 1
    BY <1>2, <2>1 DEF Turn
  <2>3. Nth(T, d, Turn(T, d, x)) = x
    BY <1>1, NthIs
  <2> QED BY <2>2, <2>3
<1> QED BY <1>2, <1>3, <1>4

\* The slot before all others is the first.
LEMMA NthDropped ==
  ASSUME NEW S \in SUBSET Slots, NEW d \in Slots, NEW x \in S,
         \A i \in S : i # x => Between(d, i, x)
  PROVE  /\ Cardinality(S) >= 1 /\ Cardinality(S \ {x}) = Cardinality(S) - 1
         /\ \A t \in 1 .. Cardinality(S) - 1 : Nth(S \ {x}, d, t) = Nth(S, d, t + 1)
<1> DEFINE T == S \ {x}
<1>1. T \in SUBSET Slots
  OBVIOUS
<1>2. Cardinality(S) \in Nat /\ Cardinality(T) = Cardinality(S) - 1 /\ Cardinality(T) \in Nat
  BY <1>1, SlotsFinite, FS_RemoveElement
<1>3. ASSUME NEW t \in 1 .. Cardinality(S) - 1 PROVE Nth(T, d, t) = Nth(S, d, t + 1)
  <2> DEFINE i == Nth(T, d, t)
  <2>1. i \in T /\ Turn(T, d, i) = t
    BY <1>1, <1>2, NthIn
  <2> HIDE DEF i
  <2>2. UpTo(S, d, i) = UpTo(T, d, i) \cup {x} /\ x \notin UpTo(T, d, i)
    BY <2>1 DEF UpTo
  <2>3. IsFiniteSet(UpTo(T, d, i))
    <3>1. UpTo(T, d, i) \in SUBSET Slots
      BY <1>1 DEF UpTo
    <3> QED BY <3>1, SlotsFinite
  <2>4. Turn(S, d, i) = t + 1
    BY <2>1, <2>2, <2>3, FS_AddElement DEF Turn
  <2>5. Nth(S, d, Turn(S, d, i)) = i
    BY <2>1, NthIs
  <2> QED BY <2>4, <2>5 DEF i
<1> QED BY <1>2, <1>3

\* Between the same slots the order is the same from wherever before them.
LEMMA NthMoved ==
  ASSUME NEW S \in SUBSET Slots, NEW d \in Slots, NEW e \in Slots,
         \A i, m \in S : Between(d, i, m) <=> Between(e, i, m), NEW t
  PROVE  Nth(S, d, t) = Nth(S, e, t)
<1>1. \A i \in S : UpTo(S, d, i) = UpTo(S, e, i)
  BY DEF UpTo
<1>2. \A i \in S : Turn(S, d, i) = Turn(S, e, i)
  BY <1>1 DEF Turn
<1> QED BY <1>2 DEF Nth

-----------------------------------------------------------------------------
(* The ring implements the queue, step by step.                            *)

\* The order is a sequence of skbs.
OrderFacts ==
  /\ Full \in SUBSET Slots
  /\ RingOrder \in Seq(Skbs) /\ Len(RingOrder) = Cardinality(Full)
  /\ \A t \in 1 .. Cardinality(Full) :
       Nth(Full, dirty_tx, t) \in Full /\ RingOrder[t] = tx_skbuff[Nth(Full, dirty_tx, t)]

LEMMA OrderIs == TypeOK => OrderFacts
<1> SUFFICES ASSUME TypeOK PROVE OrderFacts
  OBVIOUS
<1>1. Full \in SUBSET Slots /\ dirty_tx \in Slots
  BY DEF Full, TypeOK
<1>2. Cardinality(Full) \in Nat
  BY <1>1, SlotsFinite
<1>3. \A t \in 1 .. Cardinality(Full) : Nth(Full, dirty_tx, t) \in Full
  BY <1>1, NthIn
<1>4. \A i \in Full : tx_skbuff[i] \in Skbs
  BY DEF Full, TypeOK
<1>5. RingOrder \in [1 .. Cardinality(Full) -> Skbs]
  BY <1>3, <1>4 DEF RingOrder
<1>6. RingOrder \in Seq(Skbs) /\ Len(RingOrder) = Cardinality(Full)
  BY <1>2, <1>5
<1>7. \A t \in 1 .. Cardinality(Full) : RingOrder[t] = tx_skbuff[Nth(Full, dirty_tx, t)]
  BY DEF RingOrder
<1> QED BY <1>1, <1>3, <1>6, <1>7 DEF OrderFacts

\* An empty ring is the empty queue.
LEMMA OrderEmpty ==
  Full = {} => RingOrder = <<>>
<1> SUFFICES ASSUME Full = {} PROVE RingOrder = <<>>
  OBVIOUS
<1>1. Cardinality(Full) = 0
  BY FS_EmptySet
<1>2. RingOrder = [t \in 1 .. 0 |-> tx_skbuff[Nth(Full, dirty_tx, t)]]
  BY <1>1 DEF RingOrder
<1> QED BY <1>2

\* A step that leaves skbs and dirty_tx leaves the order.
LEMMA OrderStill ==
  ASSUME tx_skbuff' = tx_skbuff, dirty_tx' = dirty_tx
  PROVE  RingOrder' = RingOrder
BY DEF RingOrder, Full

\* The first slot of an interval comes before the others in it, also counted
\* from an earlier slot.
LEMMA FirstBefore ==
  ASSUME NEW d \in Slots, NEW c \in Slots, NEW e \in Slots, NEW i \in Slots,
         Between(d, c, e), Between(e, c, i), i # e
  PROVE  Between(d, i, e)
BY RingAssumption DEF Between, Slots

LEMMA SameOrder ==
  ASSUME NEW d \in Slots, NEW c \in Slots, NEW e \in Slots, NEW i \in Slots, NEW m \in Slots,
         e = c \/ Between(d, c, e), Between(e, c, i), Between(e, c, m)
  PROVE  Between(d, i, m) <=> Between(e, i, m)
BY RingAssumption DEF Between, Slots

\* A frame posted is accepted by the queue, which has room for it and does not
\* hold it yet.
LEMMA PostAccepts ==
  ASSUME RingInv, TypeOK', SkbInv, XmitPost
  PROVE  skb \in Skbs /\ Fifo!Accept(skb)
<1>1. /\ pc = "segs" /\ tx_skbuff' = [tx_skbuff EXCEPT ![entry] = skb] /\ dirty_tx' = dirty_tx
      /\ segs = <<>>
  BY DEF XmitPost
<1>2. /\ cur_tx \in Slots /\ dirty_tx \in Slots /\ entry \in Slots /\ shape.tso \in BOOLEAN
      /\ tx_skbuff \in [Slots -> Skbs \cup {NULL}] /\ live \subseteq Skbs
  BY NeedType DEF RingInv, TypeOK
<1>3. /\ skb \in Skbs /\ skb # NULL /\ tx_skbuff[entry] = NULL
      /\ \A i \in Slots : tx_skbuff[i] # skb
  BY <1>1, <1>2, PostSlotFree, SkbAssumption DEF SkbInv
<1>4. ~Between(dirty_tx, cur_tx, entry) /\ GET_ENTRY(entry) # dirty_tx
      /\ GET_ENTRY(entry) \in Slots
  <2>1. tx_avail(entry, dirty_tx) >= 1 + Len(segs) /\ Len(segs) = 0
    BY <1>1 DEF RingInv, RoomInv
  <2>2. tx_avail(entry, dirty_tx) >= 1
    BY <2>1, <1>2, RoomType
  <2>3. ~Between(dirty_tx, cur_tx, entry)
    BY <1>1, <1>2, BetweenEnds DEF RingInv, RoomInv
  <2> QED BY <1>2, <2>2, <2>3, RoomStep, GetEntryType
<1>5. \A i \in Full : Between(dirty_tx, cur_tx, i)
  BY DEF Full, RingInv, SkbWindow
<1>6. \A i \in Full : i \in Slots /\ i # entry /\ Between(dirty_tx, GET_ENTRY(entry), i)
  BY <1>2, <1>3, <1>4, <1>5, OutsideExtends DEF Full
<1>7. \A i \in Full : Between(dirty_tx, entry, i)
  BY <1>2, <1>4, <1>6, BetweenStep
<1>8. Full' = Full \cup {entry} /\ entry \notin Full
  BY <1>1, <1>2, <1>3 DEF Full
<1>9. /\ Full \in SUBSET Slots /\ RingOrder \in Seq(Skbs) /\ Len(RingOrder) = Cardinality(Full)
      /\ \A t \in 1 .. Cardinality(Full) :
           Nth(Full, dirty_tx, t) \in Full
           /\ RingOrder[t] = tx_skbuff[Nth(Full, dirty_tx, t)]
  BY OrderIs DEF RingInv, OrderFacts
<1>10. /\ RingOrder' \in Seq(Skbs) /\ Len(RingOrder') = Cardinality(Full')
       /\ \A t \in 1 .. Cardinality(Full') : RingOrder'[t] = tx_skbuff'[Nth(Full', dirty_tx', t)]
  <2>1. OrderFacts'
    BY OrderIs, PTL
  <2> QED BY <2>1 DEF OrderFacts
<1>11. /\ Cardinality(Full') = Cardinality(Full) + 1 /\ Cardinality(Full) \in Nat
       /\ \A t \in 1 .. Cardinality(Full) : Nth(Full', dirty_tx, t) = Nth(Full, dirty_tx, t)
       /\ Nth(Full', dirty_tx, Cardinality(Full) + 1) = entry
  <2>1. Cardinality(Full) \in Nat
    BY <1>9, SlotsFinite
  <2>2. /\ Cardinality(Full \cup {entry}) = Cardinality(Full) + 1
        /\ \A t \in 1 .. Cardinality(Full) :
             Nth(Full \cup {entry}, dirty_tx, t) = Nth(Full, dirty_tx, t)
        /\ Nth(Full \cup {entry}, dirty_tx, Cardinality(Full) + 1) = entry
    BY <1>2, <1>7, <1>8, <1>9, NthAdded
  <2> QED BY <1>8, <2>1, <2>2
<1>12. skb \notin Fifo!Held
  <2>1. \A t \in 1 .. Len(RingOrder) : RingOrder[t] # skb
    BY <1>3, <1>9
  <2> QED BY <2>1 DEF Fifo!Held
<1>13. Len(RingOrder) < N - 1
  <2>1. Full' \in SUBSET (Slots \ {GET_ENTRY(entry)})
    <3>1. entry # GET_ENTRY(entry)
      BY <1>2, RingAssumption DEF GET_ENTRY, Slots
    <3>2. \A i \in Full : i # GET_ENTRY(entry)
      BY <1>2, <1>4, <1>6, BetweenEnds
    <3> QED BY <1>2, <1>6, <1>8, <3>1, <3>2
  <2>2. IsFiniteSet(Slots) /\ Cardinality(Slots) = N
    <3>1. 0 \in Int /\ N - 1 \in Int /\ ~(0 > N - 1) /\ N - 1 - 0 + 1 = N
      BY RingAssumption
    <3> QED BY <3>1, FS_Interval DEF Slots
  <2>3. IsFiniteSet(Slots \ {GET_ENTRY(entry)}) /\ Cardinality(Slots \ {GET_ENTRY(entry)}) = N - 1
    BY <1>4, <2>2, FS_RemoveElement
  <2>4. Cardinality(Full') <= N - 1
    BY <2>1, <2>3, FS_Subset
  <2> QED BY <1>9, <1>11, <2>4, RingAssumption
<1>14. RingOrder' = Append(RingOrder, skb)
  <2>1. /\ Append(RingOrder, skb) \in Seq(Skbs)
        /\ Len(Append(RingOrder, skb)) = Len(RingOrder) + 1
        /\ \A t \in 1 .. Len(RingOrder) : Append(RingOrder, skb)[t] = RingOrder[t]
        /\ Append(RingOrder, skb)[Len(RingOrder) + 1] = skb
    BY <1>3, <1>9, AppendProperties
  <2>2. Len(RingOrder') = Len(Append(RingOrder, skb))
    BY <1>9, <1>10, <1>11, <2>1
  <2>3. ASSUME NEW t \in 1 .. Len(RingOrder') PROVE RingOrder'[t] = Append(RingOrder, skb)[t]
    <3>1. CASE t \in 1 .. Cardinality(Full)
      <4>1. RingOrder'[t] = tx_skbuff'[Nth(Full, dirty_tx, t)]
        BY <1>1, <1>10, <1>11, <2>3, <3>1
      <4>2. Nth(Full, dirty_tx, t) \in Slots /\ Nth(Full, dirty_tx, t) # entry
        BY <1>6, <1>9, <3>1
      <4> QED BY <1>1, <1>2, <1>9, <2>1, <3>1, <4>1, <4>2
    <3>2. CASE t = Cardinality(Full) + 1
      <4>1. RingOrder'[t] = tx_skbuff'[entry]
        BY <1>1, <1>10, <1>11, <2>3, <3>2
      <4> QED BY <1>1, <1>2, <1>9, <2>1, <3>2, <4>1
    <3>3. t \in 1 .. Cardinality(Full) + 1
      BY <1>10, <1>11, <2>3
    <3>4. t \in 1 .. Cardinality(Full) \/ t = Cardinality(Full) + 1
      BY <1>11, <3>3
    <3> QED BY <3>1, <3>2, <3>4
  <2> QED BY <1>10, <2>1, <2>2, <2>3, SeqEqual
<1> QED BY <1>3, <1>12, <1>13, <1>14 DEF Fifo!Accept

\* A turn of tx_clean releases the first frame of the queue, or none.
LEMMA CleanReleases ==
  ASSUME RingInv, TypeOK', CleanEntry
  PROVE  Fifo!Release \/ RingOrder' = RingOrder
<1>1. /\ pc = "clean" /\ entry # cur_tx
      /\ tx_skbuff' = [tx_skbuff EXCEPT ![entry] = NULL] /\ dirty_tx' = dirty_tx
  BY DEF CleanEntry, CleanMore
<1>2. /\ cur_tx \in Slots /\ dirty_tx \in Slots /\ entry \in Slots
      /\ tx_skbuff \in [Slots -> Skbs \cup {NULL}]
  BY DEF RingInv, TypeOK
<1>3. CASE tx_skbuff[entry] = NULL
  <2>1. tx_skbuff' = tx_skbuff
    BY <1>1, <1>2, <1>3
  <2> QED BY <1>1, <2>1, OrderStill
<1>4. CASE tx_skbuff[entry] # NULL
  <2>1. Full' = Full \ {entry} /\ entry \in Full
    BY <1>1, <1>2, <1>4 DEF Full
  <2>2. \A i \in Full : i # entry => Between(dirty_tx, i, entry)
    <3>1. Between(dirty_tx, cur_tx, entry)
      BY <1>1 DEF RingInv, RoomInv
    <3>2. \A i \in Full : i \in Slots /\ Between(entry, cur_tx, i)
      BY <1>1 DEF Full, RingInv, SkbWindow
    <3> QED BY <1>2, <3>1, <3>2, FirstBefore
  <2>3. /\ Full \in SUBSET Slots /\ RingOrder \in Seq(Skbs) /\ Len(RingOrder) = Cardinality(Full)
        /\ \A t \in 1 .. Cardinality(Full) : RingOrder[t] = tx_skbuff[Nth(Full, dirty_tx, t)]
    BY OrderIs DEF RingInv, OrderFacts
  <2>4. /\ Full' \in SUBSET Slots /\ RingOrder' \in Seq(Skbs) /\ Len(RingOrder') = Cardinality(Full')
        /\ \A t \in 1 .. Cardinality(Full') :
             Nth(Full', dirty_tx', t) \in Full'
             /\ RingOrder'[t] = tx_skbuff'[Nth(Full', dirty_tx', t)]
    <3>1. OrderFacts'
      BY OrderIs, PTL
    <3> QED BY <3>1 DEF OrderFacts
  <2>5. /\ Cardinality(Full) >= 1 /\ Cardinality(Full') = Cardinality(Full) - 1
        /\ Cardinality(Full) \in Nat
        /\ \A t \in 1 .. Cardinality(Full) - 1 :
             Nth(Full', dirty_tx, t) = Nth(Full, dirty_tx, t + 1)
    BY <1>2, <2>1, <2>2, <2>3, NthDropped, SlotsFinite
  <2>6. RingOrder # <<>>
    BY <2>3, <2>5, EmptySeq
  <2>7. /\ Tail(RingOrder) \in Seq(Skbs) /\ Len(Tail(RingOrder)) = Len(RingOrder) - 1
        /\ \A t \in 1 .. Len(Tail(RingOrder)) : Tail(RingOrder)[t] = RingOrder[t + 1]
    BY <2>3, <2>6, HeadTailProperties
  <2>8. Len(RingOrder') = Len(Tail(RingOrder))
    BY <2>3, <2>4, <2>5, <2>7
  <2>9. ASSUME NEW t \in 1 .. Len(RingOrder') PROVE RingOrder'[t] = Tail(RingOrder)[t]
    <3>1. t \in 1 .. Cardinality(Full) - 1 /\ t + 1 \in 1 .. Cardinality(Full)
      BY <2>4, <2>5, <2>9
    <3>2. Nth(Full', dirty_tx', t) = Nth(Full, dirty_tx, t + 1)
      BY <1>1, <2>5, <3>1
    <3>3. Nth(Full, dirty_tx, t + 1) \in Slots /\ Nth(Full, dirty_tx, t + 1) # entry
      BY <2>1, <2>4, <2>9, <3>2
    <3>4. RingOrder'[t] = tx_skbuff[Nth(Full, dirty_tx, t + 1)]
      BY <1>1, <1>2, <2>4, <2>9, <3>2, <3>3
    <3> QED BY <2>3, <2>7, <2>8, <2>9, <3>1, <3>4
  <2>10. RingOrder' = Tail(RingOrder)
    BY <2>4, <2>7, <2>8, <2>9, SeqEqual
  <2> QED BY <2>6, <2>10 DEF Fifo!Release
<1> QED BY <1>3, <1>4

\* Storing dirty_tx leaves the order: no skb is before the new one.
LEMMA CleanEndKeeps ==
  ASSUME RingInv, CleanEnd
  PROVE  RingOrder' = RingOrder
<1>1. pc = "clean" /\ tx_skbuff' = tx_skbuff /\ dirty_tx' = entry
  BY DEF CleanEnd
<1>2. cur_tx \in Slots /\ dirty_tx \in Slots /\ entry \in Slots /\ Full \in SUBSET Slots
  BY DEF RingInv, TypeOK, Full
<1>3. (entry = cur_tx \/ Between(dirty_tx, cur_tx, entry))
      /\ \A i \in Full : Between(entry, cur_tx, i)
  BY <1>1 DEF RingInv, RoomInv, SkbWindow, Full
<1>4. \A i, m \in Full : Between(dirty_tx, i, m) <=> Between(entry, i, m)
  BY <1>2, <1>3, SameOrder
<1>5. \A t \in 1 .. Cardinality(Full) : Nth(Full, dirty_tx, t) = Nth(Full, entry, t)
  BY <1>2, <1>4, NthMoved
<1>6. Full' = Full
  BY <1>1 DEF Full
<1> QED BY <1>1, <1>5, <1>6 DEF RingOrder

\* tx_err empties the queue.
LEMMA ErrEmpties ==
  ASSUME TxErr
  PROVE  Fifo!Reset \/ RingOrder' = RingOrder
<1>1. tx_skbuff' = [i \in Slots |-> NULL]
  BY DEF TxErr, FreeTxSkbufs
<1>2. (Full = {})'
  BY <1>1 DEF Full
<1>3. (RingOrder = <<>>)'
  BY <1>2, OrderEmpty, PTL
<1> QED BY <1>3 DEF Fifo!Reset

LEMMA FifoNext ==
  ASSUME ShapesFit, Faults \subseteq {"tx_err"}, RingInv, TypeOK', SkbInv, [Next]_vars
  PROVE  [Fifo!Next]_RingOrder
<1>1. ASSUME tx_skbuff' = tx_skbuff, dirty_tx' = dirty_tx PROVE [Fifo!Next]_RingOrder
  BY <1>1, OrderStill
<1>2. CASE XmitPost
  BY <1>2, PostAccepts DEF Fifo!Next
<1>3. CASE CleanEntry
  BY <1>3, CleanReleases DEF Fifo!Next
<1>4. CASE CleanEnd
  BY <1>4, CleanEndKeeps
<1>5. CASE TxErr
  BY <1>5, ErrEmpties DEF Fifo!Next
<1>6. CASE \E sh \in Shapes : XmitBusy(sh)
  BY <1>1, <1>6 DEF XmitBusy, ring
<1>7. CASE \E s \in Skbs, sh \in Shapes : XmitStart(s, sh)
  BY <1>1, <1>7 DEF XmitStart, ring
<1>8. CASE XmitCtx \/ XmitVlan \/ XmitTsoHead \/ XmitSeg
  BY <1>1, <1>8 DEF XmitCtx, XmitVlan, XmitTsoHead, XmitSeg
<1>9. CASE XmitGrant \/ XmitMapErr \/ CleanStart \/ DmaStep
  BY <1>1, <1>9 DEF XmitGrant, XmitMapErr, CleanStart, DmaStep, ring
<1>10. CASE UNCHANGED vars
  BY <1>1, <1>10 DEF vars, ring
<1> QED
  BY <1>2, <1>3, <1>4, <1>5, <1>6, <1>7, <1>8, <1>9, <1>10 DEF Next

\* The safety part of ImplementsFifo: seen through the skbs of the ring, xmit
\* accepts frames into a bounded queue, tx_clean releases them in that order,
\* each once, and tx_err empties it; nothing else the driver or the engine does
\* touches the queue.
THEOREM RingIsFifo ==
  ASSUME ShapesFit, Faults \subseteq {"tx_err"}
  PROVE  Spec => Fifo!Init /\ [][Fifo!Next]_RingOrder
<1>1. Init => SkbInv /\ Fifo!Init
  <2>1. Init => Full = {}
    BY DEF Init, Full
  <2> QED BY <2>1, OrderEmpty DEF Init, SkbInv, SkbSafe, Fifo!Init
<1>2. RingInv /\ SkbInv /\ [Next]_vars => SkbInv'
  BY SkbNext
<1>3. RingInv /\ RingInv' /\ SkbInv /\ [Next]_vars => [Fifo!Next]_RingOrder
  BY FifoNext DEF RingInv
<1> QED BY <1>1, <1>2, <1>3, RingAlways, PTL DEF Spec
=============================================================================
