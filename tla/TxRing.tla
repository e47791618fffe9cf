------------------------------- MODULE TxRing -------------------------------
(***************************************************************************)
(* One transmit queue of the TC956X driver (tc956xmac_main.c): the ring of *)
(* N descriptors shared by the CPU and the DMA engine, the parallel arrays *)
(* tx_skbuff / tx_skbuff_dma, the cursors cur_tx and dirty_tx, and the     *)
(* stop / wake state of the netdev queue.                                  *)
(*                                                                         *)
(* tc956xmac_xmit and tc956xmac_tso_xmit run under the netdev tx lock;     *)
(* tc956xmac_tx_clean takes the same lock, so pc names the lock holder and *)
(* how far it is.  The DMA engine and the hard interrupt (tx_err) do not   *)
(* take it.  One step fills one descriptor, so the engine, the interrupt   *)
(* and a failing DMA mapping can fall between any two descriptors.         *)
(*                                                                         *)
(* An skb is a model value; what the driver looks at is its shape:         *)
(*   tso    handled by tso_xmit           vlan  carries a VLAN tag         *)
(*   mss    its gso_size                  blocks (len - hdr)/16383 + 1     *)
(*   nfrags number of page fragments                                       *)
(*   segs   the descriptors after the first one, in order: new says that   *)
(*          filling it begins by mapping a fragment, end that it is the    *)
(*          one that records the mapping in tx_skbuff_dma[].buf            *)
(***************************************************************************)
EXTENDS Integers, Sequences, FiniteSets

CONSTANTS N,         \* DMA_TX_SIZE
          MaxFrags,  \* MAX_SKB_FRAGS
          Skbs,      \* socket buffers of the network stack
          NULL,      \* no skb
          Shapes,    \* shapes of the frames the stack sends
          MssValues, \* gso_size values; 0 is the one a reset ring holds
          OstEn,     \* queue is the gPTP one and priv->ost_en == 1
          Faults     \* subset of FaultKinds that the environment may inject

\* map_frag strikes before the frame has granted a descriptor, map_late after.
FaultKinds == {"map_head", "map_frag", "map_late", "tx_err", "race"}

Slots == 0 .. N - 1
SegType == [new : BOOLEAN, end : BOOLEAN]
ShapeType == [tso : BOOLEAN, vlan : BOOLEAN, mss : MssValues, blocks : Nat,
              nfrags : Nat, segs : Seq(SegType)]

\* TC956XMAC_TX_THRESH
Thresh == N \div 4

ASSUME RingAssumption == /\ N \in Nat /\ MaxFrags \in Nat
                         /\ Thresh >= MaxFrags + 1
                         /\ N >= MaxFrags + 3
ASSUME SkbAssumption  == NULL \notin Skbs
ASSUME ShapeAssumption == /\ Shapes \subseteq ShapeType /\ Shapes # {}
                          /\ 0 \in MssValues
ASSUME FlagAssumption == OstEn \in BOOLEAN /\ Faults \subseteq FaultKinds

VARIABLES cur_tx, dirty_tx,  \* tx_q cursors
          own,               \* OWN bit of each descriptor
          tx_skbuff,         \* tx_q->tx_skbuff[]
          buf,               \* tx_q->tx_skbuff_dma[].buf: what it names
          mss,               \* tx_q->mss
          stopped,           \* netif_tx_queue_stopped()
          pc,                \* what the holder of the tx lock does next
          skb, shape,        \* the frame being sent
          entry,             \* local entry of xmit and of tx_clean
          first_entry,       \* local first_entry of xmit
          mss_desc,          \* local mss_desc of tso_xmit (N: none)
          segs,              \* descriptors of the frame still to fill
          live,              \* skbs the driver has taken and not yet freed
          dma_debug,         \* misuses of the DMA mapping API so far
          hw_cur, tail       \* the engine's descriptor and its tail pointer

ring == <<cur_tx, dirty_tx, own, tx_skbuff, buf, mss>>
locals == <<skb, shape, entry, first_entry, mss_desc, segs>>
vars == <<ring, stopped, pc, locals, live, dma_debug, hw_cur, tail>>

\* What the dead locals of a returned handler hold.
IdleShape == CHOOSE sh \in Shapes : TRUE
IdleLocals == /\ skb' = NULL /\ shape' = IdleShape /\ segs' = <<>>
              /\ entry' = 0 /\ first_entry' = 0 /\ mss_desc' = N

\* .buf is clear, names a live mapping, or names one already unmapped.
BufType == {"none", "mapped", "stale"}
MisuseType == {"leak", "double_unmap"}

PcType == {"idle", "ctx", "vlan", "head", "segs", "last", "clean"}

TypeOK ==
  /\ cur_tx \in Slots /\ dirty_tx \in Slots
  /\ own \in [Slots -> BOOLEAN] /\ buf \in [Slots -> BufType]
  /\ tx_skbuff \in [Slots -> Skbs \cup {NULL}]
  /\ mss \in MssValues /\ stopped \in BOOLEAN /\ pc \in PcType
  /\ skb \in Skbs \cup {NULL} /\ shape \in Shapes
  /\ entry \in Slots /\ first_entry \in Slots /\ mss_desc \in 0 .. N
  /\ segs \in Seq(SegType)
  /\ live \subseteq Skbs /\ dma_debug \subseteq MisuseType
  /\ hw_cur \in Slots /\ tail \in Slots

-----------------------------------------------------------------------------
(* Index arithmetic.                                                       *)

\* TC956XMAC_GET_ENTRY: (x + 1) & (size - 1), size a power of two.
GET_ENTRY(x) == IF x = N - 1 THEN 0 ELSE x + 1

\* tc956xmac_tx_avail
tx_avail(cur, dirty) == IF dirty > cur THEN dirty - cur - 1
                                       ELSE N - cur + dirty - 1

\* Mutant of QueueMustStop: room for one descriptor less.
QueueMustStop_OffByOne(cur, dirty) == tx_avail(cur, dirty) <= MaxFrags

\* Mutant of QueueMustStop: only a full ring stops the queue.
QueueMustStop_Full(cur, dirty) == tx_avail(cur, dirty) = 0

\* The test after a frame is queued: a frame of MaxFrags fragments with a VLAN
\* tag would no longer fit.
QueueMustStop(cur, dirty) == tx_avail(cur, dirty) <= MaxFrags + 1

\* i lies in the circular interval [from, to).
Between(from, to, i) == IF from <= to THEN from <= i /\ i < to
                                      ELSE from <= i \/ i < to

\* tc956xmac_vlan_insert takes a descriptor (dma_cap.vlins is set on this MAC).
NeedsVlan(sh) == sh.vlan

\* Descriptors the first, context, step takes for a frame.
NeedsCtx(sh, m) == IF sh.tso THEN sh.mss # m ELSE OstEn

\* Descriptors a frame takes at worst.
Need(sh) == (IF sh.tso \/ OstEn THEN 1 ELSE 0) + (IF sh.vlan THEN 1 ELSE 0)
            + 1 + Len(sh.segs)

-----------------------------------------------------------------------------
(* The DMA mapping API (external).                                         *)

\* A new mapping is stored in an entry; one that was there is forgotten.
RecordMapping(i) ==
  /\ buf' = [buf EXCEPT ![i] = "mapped"]
  /\ dma_debug' = IF buf[i] = "mapped" THEN dma_debug \cup {"leak"} ELSE dma_debug

\* The misuse in unmapping what the entries of S name.
Unmap(S) == IF \E i \in S : buf[i] = "stale" THEN {"double_unmap"} ELSE {}

-----------------------------------------------------------------------------
\* init_dma_tx_desc_rings and init_tx_chan for an opened device.
Init ==
  /\ cur_tx = 0 /\ dirty_tx = 0 /\ mss = 0
  /\ own = [i \in Slots |-> FALSE]
  /\ buf = [i \in Slots |-> "none"]
  /\ tx_skbuff = [i \in Slots |-> NULL]
  /\ stopped = FALSE /\ pc = "idle"
  /\ skb = NULL /\ shape = IdleShape
  /\ entry = 0 /\ first_entry = 0 /\ mss_desc = N /\ segs = <<>>
  /\ live = {} /\ dma_debug = {}
  /\ hw_cur = 0 /\ tail = 0

\* The availability test at the top of xmit (nfrags + 1) and of tso_xmit.
RingFull(sh) == tx_avail(cur_tx, dirty_tx) <
                  (IF sh.tso THEN sh.blocks ELSE sh.nfrags + 1)

\* The stack offers a frame and the test fails: NETDEV_TX_BUSY, skb untouched.
XmitBusy(sh) ==
  /\ pc = "idle" /\ ~stopped /\ RingFull(sh)
  /\ stopped' = TRUE
  /\ UNCHANGED <<ring, pc, locals, live, dma_debug, hw_cur, tail>>

\* The stack hands a frame to tc956xmac_xmit, which dispatches TSO frames.
XmitStart(s, sh) ==
  /\ pc = "idle" /\ ~stopped /\ s \notin live /\ ~RingFull(sh)
  /\ skb' = s /\ shape' = sh /\ segs' = sh.segs
  /\ mss_desc' = N
  /\ live' = live \cup {s}
  /\ pc' = "ctx"
  /\ UNCHANGED <<ring, stopped, entry, first_entry, dma_debug, hw_cur, tail>>

\* tso_xmit: a new MSS takes a context descriptor, rewritten without OWN (it
\* is granted after the first descriptor).  xmit on the gPTP queue: a one-step
\* timestamp context descriptor, whose des3 is only or-ed into: OWN stays as
\* it was.
XmitCtx ==
  /\ pc = "ctx"
  /\ IF NeedsCtx(shape, mss)
       THEN /\ cur_tx' = GET_ENTRY(cur_tx)
            /\ own' = IF shape.tso THEN [own EXCEPT ![cur_tx] = FALSE] ELSE own
            /\ mss' = IF shape.tso THEN shape.mss ELSE mss
            /\ mss_desc' = IF shape.tso THEN cur_tx ELSE N
       ELSE UNCHANGED <<cur_tx, own, mss, mss_desc>>
  /\ pc' = "vlan"
  /\ UNCHANGED <<dirty_tx, tx_skbuff, buf, stopped, skb, shape, entry,
                 first_entry, segs, live, dma_debug, hw_cur, tail>>

\* tc956xmac_vlan_insert (OWN is set at once), then first_entry = cur_tx.
XmitVlan ==
  /\ pc = "vlan"
  /\ IF NeedsVlan(shape)
       THEN /\ own' = [own EXCEPT ![cur_tx] = TRUE]
            /\ cur_tx' = GET_ENTRY(cur_tx)
       ELSE UNCHANGED <<own, cur_tx>>
  /\ first_entry' = cur_tx' /\ entry' = cur_tx'
  /\ pc' = IF shape.tso THEN "head" ELSE "segs"
  /\ UNCHANGED <<dirty_tx, tx_skbuff, buf, mss, stopped, skb, shape, mss_desc,
                 segs, live, dma_debug, hw_cur, tail>>

\* tso_xmit maps the linear part first.
XmitTsoHead ==
  /\ pc = "head"
  /\ RecordMapping(first_entry)
  /\ pc' = "segs"
  /\ UNCHANGED <<cur_tx, dirty_tx, own, tx_skbuff, mss, stopped, locals, live,
                 hw_cur, tail>>

\* One turn of the fragment loop of xmit, or one descriptor filled by
\* tso_allocator for tso_xmit, which advances cur_tx itself.
XmitSeg ==
  /\ pc = "segs" /\ segs # <<>>
  /\ entry' = GET_ENTRY(entry)
  /\ cur_tx' = IF shape.tso THEN GET_ENTRY(entry) ELSE cur_tx
  /\ own' = [own EXCEPT ![GET_ENTRY(entry)] = TRUE]
  /\ IF Head(segs).end THEN RecordMapping(GET_ENTRY(entry))
                       ELSE UNCHANGED <<buf, dma_debug>>
  /\ segs' = Tail(segs)
  /\ UNCHANGED <<dirty_tx, tx_skbuff, mss, stopped, pc, skb, shape,
                 first_entry, mss_desc, live, hw_cur, tail>>

\* Mutant of XmitPost: tso_xmit forgets to grant the MSS descriptor.
XmitPost_NoMssOwner ==
  /\ pc = "segs" /\ segs = <<>>
  /\ tx_skbuff' = [tx_skbuff EXCEPT ![entry] = skb]
  /\ cur_tx' = GET_ENTRY(entry)
  /\ stopped' = (stopped \/ QueueMustStop(cur_tx', dirty_tx))
  /\ IF shape.tso
       THEN /\ own' = [own EXCEPT ![first_entry] = TRUE]
            /\ tail' = cur_tx'
            /\ pc' = "idle" /\ IdleLocals
       ELSE /\ pc' = "last"
            /\ UNCHANGED <<own, tail, locals>>
  /\ UNCHANGED <<dirty_tx, buf, mss, live, dma_debug, hw_cur>>

\* The last descriptor gets the skb and cur_tx moves past it; the queue stops
\* when the next frame might not fit.  tso_xmit then
\* grants the first descriptor and last of all the MSS one, and kicks the DMA;
\* xmit still has to map the linear part.
XmitPost ==
  /\ pc = "segs" /\ segs = <<>>
  /\ tx_skbuff' = [tx_skbuff EXCEPT ![entry] = skb]
  /\ cur_tx' = GET_ENTRY(entry)
  /\ stopped' = (stopped \/ QueueMustStop(cur_tx', dirty_tx))
  /\ IF shape.tso
       THEN /\ own' = [i \in Slots |-> own[i] \/ i = first_entry \/ i = mss_desc]
            /\ tail' = cur_tx'
            /\ pc' = "idle" /\ IdleLocals
       ELSE /\ pc' = "last"
            /\ UNCHANGED <<own, tail, locals>>
  /\ UNCHANGED <<dirty_tx, buf, mss, live, dma_debug, hw_cur>>

\* Mutant of XmitGrant: the tail pointer is not written.
XmitGrant_NoTail ==
  /\ pc = "last"
  /\ RecordMapping(first_entry)
  /\ own' = [own EXCEPT ![first_entry] = TRUE]
  /\ pc' = "idle" /\ IdleLocals
  /\ UNCHANGED <<cur_tx, dirty_tx, tx_skbuff, mss, stopped, live, hw_cur, tail>>

\* xmit maps the linear part, fills and grants the first descriptor, kicks.
XmitGrant ==
  /\ pc = "last"
  /\ RecordMapping(first_entry)
  /\ own' = [own EXCEPT ![first_entry] = TRUE]
  /\ tail' = cur_tx
  /\ pc' = "idle" /\ IdleLocals
  /\ UNCHANGED <<cur_tx, dirty_tx, tx_skbuff, mss, stopped, live, hw_cur>>

\* dma_mapping_error at one of the points that map; dma_map_err frees the skb
\* and leaves the ring as it is.
MapFails ==
  \/ pc = "head" /\ "map_head" \in Faults
  \/ pc = "last" /\ "map_head" \in Faults
  \/ /\ pc = "segs" /\ segs # <<>> /\ Head(segs).new
     /\ IF segs = shape.segs THEN "map_frag" \in Faults ELSE "map_late" \in Faults

XmitMapErr ==
  /\ MapFails
  /\ live' = live \ {skb}
  /\ pc' = "idle" /\ IdleLocals
  /\ UNCHANGED <<ring, stopped, dma_debug, hw_cur, tail>>

-----------------------------------------------------------------------------
(* tc956xmac_tx_clean, called by the tx NAPI poll.                         *)

CleanStart ==
  /\ pc = "idle"
  /\ entry' = dirty_tx
  /\ pc' = "clean"
  /\ UNCHANGED <<ring, stopped, skb, shape, first_entry, mss_desc, segs, live,
                 dma_debug, hw_cur, tail>>

CleanMore == entry # cur_tx /\ ~own[entry]

\* Mutant of CleanEntry: tx_skbuff[entry] is not cleared.
CleanEntry_KeepSkb ==
  /\ pc = "clean" /\ CleanMore
  /\ buf' = [buf EXCEPT ![entry] = "none"]
  /\ dma_debug' = dma_debug \cup Unmap({entry})
  /\ live' = live \ {tx_skbuff[entry]}
  /\ entry' = GET_ENTRY(entry)
  /\ UNCHANGED <<cur_tx, dirty_tx, own, tx_skbuff, mss, stopped, pc, skb, shape,
                 first_entry, mss_desc, segs, hw_cur, tail>>

\* Mutant of CleanEntry: tx_skbuff_dma[entry].buf is not cleared.
CleanEntry_KeepBuf ==
  /\ pc = "clean" /\ CleanMore
  /\ buf' = [buf EXCEPT ![entry] = IF @ = "none" THEN "none" ELSE "stale"]
  /\ dma_debug' = dma_debug \cup Unmap({entry})
  /\ live' = live \ {tx_skbuff[entry]}
  /\ tx_skbuff' = [tx_skbuff EXCEPT ![entry] = NULL]
  /\ entry' = GET_ENTRY(entry)
  /\ UNCHANGED <<cur_tx, dirty_tx, own, mss, stopped, pc, skb, shape,
                 first_entry, mss_desc, segs, hw_cur, tail>>

\* One turn of the loop: unmap, free the skb if there is one, release the
\* descriptor.
CleanEntry ==
  /\ pc = "clean" /\ CleanMore
  /\ buf' = [buf EXCEPT ![entry] = "none"]
  /\ dma_debug' = dma_debug \cup Unmap({entry})
  /\ live' = live \ {tx_skbuff[entry]}
  /\ tx_skbuff' = [tx_skbuff EXCEPT ![entry] = NULL]
  /\ entry' = GET_ENTRY(entry)
  /\ UNCHANGED <<cur_tx, dirty_tx, own, mss, stopped, pc, skb, shape,
                 first_entry, mss_desc, segs, hw_cur, tail>>

\* Mutant of CleanEnd: a stopped queue is not woken.
CleanEnd_NoWake ==
  /\ pc = "clean" /\ ~CleanMore
  /\ dirty_tx' = entry
  /\ pc' = "idle" /\ IdleLocals
  /\ UNCHANGED <<cur_tx, own, tx_skbuff, buf, mss, stopped, live, dma_debug, hw_cur, tail>>

\* Mutant of CleanEnd: dirty_tx jumps to cur_tx past descriptors still owned.
CleanEnd_ToCur ==
  /\ pc = "clean" /\ ~CleanMore
  /\ dirty_tx' = cur_tx
  /\ stopped' = (stopped /\ ~(tx_avail(cur_tx, dirty_tx') > Thresh))
  /\ pc' = "idle" /\ IdleLocals
  /\ UNCHANGED <<cur_tx, own, tx_skbuff, buf, mss, live, dma_debug, hw_cur, tail>>

\* dirty_tx is stored, and a stopped queue woken when enough is free.
CleanEnd ==
  /\ pc = "clean" /\ ~CleanMore
  /\ dirty_tx' = entry
  /\ stopped' = (stopped /\ ~(tx_avail(cur_tx, dirty_tx') > Thresh))
  /\ pc' = "idle" /\ IdleLocals
  /\ UNCHANGED <<cur_tx, own, tx_skbuff, buf, mss, live, dma_debug, hw_cur, tail>>

-----------------------------------------------------------------------------
(* The DMA engine (external) and the error path of the interrupt.          *)

\* The engine reads the descriptor it points at if it is granted and short of
\* the tail pointer, sends or latches it, and writes it back.
DmaStep ==
  /\ hw_cur # tail /\ own[hw_cur]
  /\ own' = [own EXCEPT ![hw_cur] = FALSE]
  /\ hw_cur' = GET_ENTRY(hw_cur)
  /\ UNCHANGED <<cur_tx, dirty_tx, tx_skbuff, buf, mss, stopped, pc, locals,
                 live, dma_debug, tail>>

\* Mutant of FreeTxSkbufs: the freed skbs stay in tx_skbuff.
FreeTxSkbufs_KeepSkb ==
  /\ dma_debug' = dma_debug \cup Unmap(Slots)
  /\ buf' = [i \in Slots |-> "none"]
  /\ live' = live \ {tx_skbuff[i] : i \in Slots}
  /\ UNCHANGED tx_skbuff

\* dma_free_tx_skbufs: free_tx_buffer unmaps whatever .buf names, and forgets
\* it only for an entry that holds an skb.
FreeTxSkbufs ==
  /\ dma_debug' = dma_debug \cup Unmap(Slots)
  /\ buf' = [i \in Slots |-> IF tx_skbuff[i] # NULL \/ buf[i] = "none"
                             THEN "none" ELSE "stale"]
  /\ live' = live \ {tx_skbuff[i] : i \in Slots}
  /\ tx_skbuff' = [i \in Slots |-> NULL]

\* Mutant of TxErr: the channel is not initialised again.
TxErr_NoInit ==
  /\ "tx_err" \in Faults
  /\ pc = "idle" \/ "race" \in Faults
  /\ FreeTxSkbufs
  /\ own' = [i \in Slots |-> FALSE]
  /\ dirty_tx' = 0 /\ cur_tx' = 0 /\ mss' = 0
  /\ stopped' = FALSE
  /\ UNCHANGED <<pc, locals, hw_cur, tail>>

\* tc956xmac_tx_err, from the hard interrupt, without the tx lock: stop, free,
\* clear, rewind, restart the channel (the tail register is not rewritten) and
\* wake.  Without "race" it is taken only while nobody holds the lock.
TxErr ==
  /\ "tx_err" \in Faults
  /\ pc = "idle" \/ "race" \in Faults
  /\ FreeTxSkbufs
  /\ own' = [i \in Slots |-> FALSE]
  /\ dirty_tx' = 0 /\ cur_tx' = 0 /\ mss' = 0
  /\ hw_cur' = 0
  /\ stopped' = FALSE
  /\ UNCHANGED <<pc, locals, tail>>

-----------------------------------------------------------------------------
Xmit == XmitCtx \/ XmitVlan \/ XmitTsoHead \/ XmitSeg \/ XmitPost \/ XmitGrant

Clean == CleanEntry \/ CleanEnd

Next ==
  \/ \E sh \in Shapes : XmitBusy(sh)
  \/ \E s \in Skbs, sh \in Shapes : XmitStart(s, sh)
  \/ XmitCtx \/ XmitVlan \/ XmitTsoHead \/ XmitSeg \/ XmitPost \/ XmitGrant
  \/ XmitMapErr
  \/ CleanStart \/ CleanEntry \/ CleanEnd
  \/ DmaStep
  \/ TxErr

Spec == Init /\ [][Next]_vars

\* A CPU inside xmit or tx_clean keeps running; the tx NAPI polls again and
\* again (IrqNapi shows that it is scheduled whenever there is work); the engine
\* works through granted descriptors.
FairSpec == /\ Spec
            /\ WF_vars(Xmit) /\ WF_vars(Clean) /\ WF_vars(CleanStart)
            /\ WF_vars(DmaStep)

-----------------------------------------------------------------------------
(* Properties.                                                             *)

\* xmit and tso_xmit never fill the last free slot, so cur_tx never catches up
\* with dirty_tx from behind: a full ring would look empty to tx_avail and to
\* tx_clean, and its frames would be overwritten.
NoLap ==
  /\ pc \in {"ctx", "vlan"} => GET_ENTRY(cur_tx) # dirty_tx
  /\ pc = "segs" => GET_ENTRY(entry) # dirty_tx

\* No WARN_ON(tx_q->tx_skbuff[...]) of xmit, tso_xmit and tso_allocator fires:
\* a slot about to be filled holds no skb.
WarnFree ==
  /\ pc = "vlan" => tx_skbuff[cur_tx] = NULL
  /\ pc \in {"head", "segs"} => tx_skbuff[first_entry] = NULL
  /\ pc = "segs" /\ segs # <<>> => tx_skbuff[GET_ENTRY(entry)] = NULL

\* Every skb in the ring is one the driver still owns and is there once, so
\* tx_clean and tx_err free each exactly once; every owned skb is in the ring
\* or in the hands of xmit, so none is leaked.
SkbSafe ==
  /\ \A i \in Slots : tx_skbuff[i] # NULL => tx_skbuff[i] \in live
  /\ \A i, j \in Slots : tx_skbuff[i] = tx_skbuff[j] /\ i # j => tx_skbuff[i] = NULL
  /\ \A s \in live : s = skb \/ \E i \in Slots : tx_skbuff[i] = s

\* Every DMA mapping made is unmapped once: an entry never forgets one or keeps
\* one that is gone, and between calls all of them are in entries that tx_clean
\* will still visit.
MappingBalance ==
  /\ dma_debug = {}
  /\ \A i \in Slots : buf[i] # "stale"
  /\ pc = "idle" => \A i \in Slots : buf[i] # "none" => Between(dirty_tx, cur_tx, i)

\* Between calls the engine stands between dirty_tx and cur_tx and every
\* descriptor from it up to cur_tx is granted: it never stalls on a descriptor
\* that nobody will grant, and tx_clean never overtakes it.
EngineReady ==
  pc = "idle" => /\ hw_cur = cur_tx \/ Between(dirty_tx, cur_tx, hw_cur)
                 /\ \A i \in Slots : Between(hw_cur, cur_tx, i) => own[i]

\* Every frame the driver accepts is eventually freed.
Delivered == \A s \in Skbs : s \in live ~> s \notin live

\* A stopped queue is eventually woken.
Woken == stopped ~> ~stopped

-----------------------------------------------------------------------------
(* The inductive invariant behind NoLap and WarnFree.                      *)

\* Every shape takes at most the MaxFrags + 2 descriptors for which an awake
\* queue keeps room.
ShapesFit == \A sh \in Shapes : Need(sh) <= MaxFrags + 2

\* Slots that may still be filled behind cur_tx, resp. behind entry.
Room == tx_avail(cur_tx, dirty_tx)

\* An awake queue has room for any frame; a frame being filled has room for
\* what is left of it, and for the entry cur_tx moves to.
RoomInv ==
  /\ pc \in {"idle", "clean", "last"} /\ ~stopped => Room >= MaxFrags + 2
  /\ pc = "ctx" => segs = shape.segs /\ Room >= Need(shape)
  /\ pc = "vlan" => /\ Room >= 1 + Len(segs)
                    /\ shape.vlan => Room >= 2 + Len(segs)
  /\ pc \in {"head", "segs"} => tx_avail(entry, dirty_tx) >= 1 + Len(segs)
  /\ pc = "head" => entry = cur_tx /\ first_entry = cur_tx /\ shape.tso
  /\ pc = "segs" => IF shape.tso THEN entry = cur_tx
                                 ELSE ~Between(dirty_tx, cur_tx, entry)
  /\ pc = "clean" => entry = cur_tx \/ Between(dirty_tx, cur_tx, entry)

\* skbs are found only between dirty_tx and cur_tx, and not in the slots that
\* a running tx_clean has passed or that a frame being filled starts with.
SkbWindow ==
  /\ \A i \in Slots : tx_skbuff[i] # NULL => Between(dirty_tx, cur_tx, i)
  /\ pc = "clean" =>
       \A i \in Slots : tx_skbuff[i] # NULL => Between(entry, cur_tx, i)
  /\ pc \in {"head", "segs"} => tx_skbuff[first_entry] = NULL

RingInv == TypeOK /\ RoomInv /\ SkbWindow

\* SkbSafe with what it takes to preserve it: a frame being filled is owned and
\* not yet in the ring, a frame posted is, and nobody else holds an skb.
SkbInv ==
  /\ SkbSafe
  /\ pc \in {"ctx", "vlan", "head", "segs"} =>
       skb \in live /\ \A i \in Slots : tx_skbuff[i] # skb
  /\ pc = "last" => \E i \in Slots : tx_skbuff[i] = skb
  /\ pc \in {"idle", "clean"} => skb = NULL
=============================================================================
