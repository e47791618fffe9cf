------------------------------- MODULE RxRing -------------------------------
(***************************************************************************)
(* One receive queue of the TC956X driver (tc956xmac_main.c): the ring of  *)
(* N descriptors, the page attached to each, the cursors cur_rx and        *)
(* dirty_rx, the poll routine tc956xmac_rx with the partial frame it saves *)
(* between polls, and tc956xmac_rx_refill.  Split header is off.           *)
(*                                                                         *)
(* rx and refill run only from the rx NAPI, one poll at a time; the engine *)
(* fills descriptors between any two of their steps.  A frame takes one or *)
(* more descriptors; what the driver reads of one is whether it is still   *)
(* the engine's, whether it is the last of its frame and whether the frame *)
(* is bad.  Whether it is the first of its frame the driver never looks at *)
(* and the model remembers to say which skbs are torn.                     *)
(***************************************************************************)
EXTENDS Naturals

CONSTANTS N,        \* DMA_RX_SIZE
          Limit,    \* NAPI budget of one poll
          MaxSegs,  \* descriptors of the longest frame
          OomSlack, \* missing pages a short shortage of memory can leave
          Faults    \* subset of FaultKinds that the environment may inject

\* oom_skb and reopen hit a frame of several descriptors that is half received.
FaultKinds == {"oom_short", "oom_long", "oom_skb", "reopen"}

Slots == 0 .. N - 1

ASSUME RxAssumption ==
  /\ N \in Nat /\ Limit \in Nat /\ MaxSegs \in Nat /\ OomSlack \in Nat
  /\ N >= 2 /\ Limit >= 2 /\ MaxSegs >= 1
  /\ Limit * MaxSegs + OomSlack < N
  /\ Faults \subseteq FaultKinds

VARIABLES cur_rx, dirty_rx,    \* rx_q cursors
          desc,                \* descriptors
          page,                \* buf_pool[].page is set
          state_saved, state_skb, \* rx_q->state_saved, rx_q->state.skb
          pc,                  \* where the poll is
          count, skb,          \* locals of rx
          entry, left,         \* locals of rx_refill
          torn,                \* a torn frame was given to the stack
          hw_rx, hw_seg,       \* the engine's descriptor and segments so far
          hw_suspended         \* it found a descriptor that is not its own

poll == <<pc, count, skb, entry, left>>
engine == <<hw_rx, hw_seg, hw_suspended>>
vars == <<cur_rx, dirty_rx, desc, page, state_saved, state_skb, poll, torn, engine>>

\* own: the engine's.  Otherwise what it wrote back: the first, a middle or
\* the last descriptor of a good frame, a good frame in one, the last of a bad
\* frame, or a context descriptor.
Good == {"first", "mid", "last", "one"}
DescType == {"own", "bad", "ctx"} \cup Good

\* An skb holds a frame from its first descriptor on, or it is torn.  "gone"
\* marks a saved pointer whose skb has been handed on or freed.
SkbType == {"none", "whole", "torn"}

TypeOK ==
  /\ cur_rx \in Slots /\ dirty_rx \in Slots
  /\ desc \in [Slots -> DescType] /\ page \in [Slots -> BOOLEAN]
  /\ state_saved \in BOOLEAN /\ state_skb \in SkbType \cup {"gone"}
  /\ pc \in {"idle", "rx", "refill"}
  /\ count \in 0 .. Limit + MaxSegs /\ skb \in SkbType \cup {"gone"}
  /\ entry \in Slots /\ left \in 0 .. N
  /\ torn \in BOOLEAN
  /\ hw_rx \in Slots /\ hw_seg \in 0 .. MaxSegs /\ hw_suspended \in BOOLEAN

-----------------------------------------------------------------------------
\* i lies in the circular interval [from, to).
Between(from, to, i) == IF from <= to THEN from <= i /\ i < to
                                      ELSE from <= i \/ i < to

\* Mutant of GET_ENTRY: the mask is forgotten.
GET_ENTRY_NoMask(x) == x + 1

\* TC956XMAC_GET_ENTRY
GET_ENTRY(x) == IF x = N - 1 THEN 0 ELSE x + 1

\* Mutant of rx_dirty: one entry too many.
rx_dirty_Long(cur, dirty) ==
  IF dirty <= cur THEN cur - dirty + 1 ELSE N - dirty + cur

\* tc956xmac_rx_dirty
rx_dirty(cur, dirty) == IF dirty <= cur THEN cur - dirty ELSE N - dirty + cur

\* tc956xmac_open: init_dma_rx_desc_rings and init_dma_engine.
FreshRing == /\ cur_rx' = 0 /\ dirty_rx' = 0
             /\ desc' = [i \in Slots |-> "own"]
             /\ page' = [i \in Slots |-> TRUE]
             /\ hw_rx' = 0 /\ hw_seg' = 0 /\ hw_suspended' = FALSE

Init ==
  /\ cur_rx = 0 /\ dirty_rx = 0
  /\ desc = [i \in Slots |-> "own"] /\ page = [i \in Slots |-> TRUE]
  /\ state_saved = FALSE /\ state_skb = "none"
  /\ pc = "idle" /\ count = 0 /\ skb = "none" /\ entry = 0 /\ left = 0
  /\ torn = FALSE
  /\ hw_rx = 0 /\ hw_seg = 0 /\ hw_suspended = FALSE

-----------------------------------------------------------------------------
(* tc956xmac_rx.                                                           *)

\* Mutant of PollStart: the saved frame is not taken up.
PollStart_Forget ==
  /\ pc = "idle"
  /\ pc' = "rx" /\ count' = 0
  /\ skb' = "none"
  /\ UNCHANGED <<cur_rx, dirty_rx, desc, page, state_saved, state_skb, entry, left,
                 torn, engine>>

\* Entry and the first turn of the loop: a saved partial frame is taken up.
PollStart ==
  /\ pc = "idle"
  /\ pc' = "rx" /\ count' = 0
  /\ skb' = IF state_saved THEN state_skb ELSE "none"
  /\ UNCHANGED <<cur_rx, dirty_rx, desc, page, state_saved, state_skb, entry, left,
                 torn, engine>>

\* Leave the loop for rx_refill.
EnterRefill ==
  /\ pc' = "refill" /\ skb' = "none"
  /\ entry' = dirty_rx
  /\ left' = rx_dirty(cur_rx', dirty_rx)

\* The saved pointer dangles once the skb taken from it is handed on.
Dangle == IF count = 0 /\ state_saved /\ state_skb # "none" THEN "gone" ELSE state_skb

\* A frame is finished with the count at c: the next turn of the loop forgets
\* the saved state, unless the budget is used up.
NextFrame(c) ==
  /\ count' = c
  /\ state_skb' = IF c < Limit THEN "none" ELSE Dangle
  /\ IF c < Limit
       THEN /\ pc' = "rx" /\ skb' = "none" /\ state_saved' = FALSE
            /\ UNCHANGED <<entry, left>>
       ELSE EnterRefill /\ UNCHANGED state_saved

IsLast(d) == d \in {"last", "one"}

\* A bad frame or a context descriptor: recycle the page, drop what there is.
RxDiscard ==
  /\ pc = "rx" /\ desc[cur_rx] \in {"bad", "ctx"}
  /\ cur_rx' = GET_ENTRY(cur_rx)
  /\ page' = [page EXCEPT ![cur_rx] = FALSE]
  /\ NextFrame(count + 1)
  /\ UNCHANGED <<dirty_rx, desc, torn, engine>>

\* The skb after the data of descriptor d.
Extend(s, d) ==
  IF s \in {"none", "whole"} /\ (s = "none") = (d \in {"first", "one"})
    THEN "whole" ELSE "torn"

\* A good descriptor whose data is copied or attached; a last one completes
\* the frame, which napi_gro_receive takes.
RxSegment ==
  /\ pc = "rx" /\ desc[cur_rx] \in Good
  /\ cur_rx' = GET_ENTRY(cur_rx)
  /\ page' = [page EXCEPT ![cur_rx] = FALSE]
  /\ IF IsLast(desc[cur_rx])
       THEN /\ torn' = (torn \/ Extend(skb, desc[cur_rx]) = "torn")
            /\ NextFrame(count + 1)
       ELSE /\ skb' = Extend(skb, desc[cur_rx])
            /\ UNCHANGED <<torn, pc, count, entry, left, state_saved, state_skb>>
  /\ UNCHANGED <<dirty_rx, desc, engine>>

\* napi_alloc_skb fails: the descriptor is drained, its page kept, and the
\* frame goes on with its next descriptor.
RxDrain ==
  /\ pc = "rx" /\ desc[cur_rx] \in Good /\ skb = "none"
  /\ desc[cur_rx] = "one" \/ "oom_skb" \in Faults
  /\ cur_rx' = GET_ENTRY(cur_rx)
  /\ IF IsLast(desc[cur_rx])
       THEN NextFrame(count + 1)
       ELSE /\ count' = count + 1
            /\ UNCHANGED <<pc, skb, entry, left, state_saved, state_skb>>
  /\ UNCHANGED <<dirty_rx, desc, page, torn, engine>>

\* The next descriptor is the engine's: a partial frame is saved.
RxBreak ==
  /\ pc = "rx" /\ desc[cur_rx] = "own"
  /\ IF skb # "none"
       THEN state_saved' = TRUE /\ state_skb' = skb
       ELSE UNCHANGED <<state_saved, state_skb>>
  /\ UNCHANGED <<cur_rx, dirty_rx, desc, page, count, torn, engine>>
  /\ EnterRefill

-----------------------------------------------------------------------------
(* tc956xmac_rx_refill.                                                    *)

\* Mutant of RefillOne: the descriptor is not granted.
RefillOne_NoOwn ==
  /\ pc = "refill" /\ left > 0
  /\ page' = [page EXCEPT ![entry] = TRUE]
  /\ entry' = GET_ENTRY(entry)
  /\ left' = left - 1
  /\ UNCHANGED <<cur_rx, dirty_rx, desc, state_saved, state_skb, pc, count, skb, torn,
                 engine>>

\* A page is there or is allocated, and the descriptor goes to the engine.
RefillOne ==
  /\ pc = "refill" /\ left > 0
  /\ page' = [page EXCEPT ![entry] = TRUE]
  /\ desc' = [desc EXCEPT ![entry] = "own"]
  /\ entry' = GET_ENTRY(entry)
  /\ left' = left - 1
  /\ UNCHANGED <<cur_rx, dirty_rx, state_saved, state_skb, pc, count, skb, torn,
                 engine>>

NoMemory == \/ "oom_long" \in Faults
            \/ "oom_short" \in Faults /\ left <= OomSlack

\* Mutant of RefillEnd: the tail pointer is not written.
RefillEnd_NoTail ==
  /\ pc = "refill"
  /\ left = 0 \/ (~page[entry] /\ NoMemory)
  /\ dirty_rx' = entry
  /\ pc' = "idle" /\ count' = 0 /\ entry' = 0 /\ left' = 0
  /\ UNCHANGED <<cur_rx, desc, page, state_saved, state_skb, skb, torn, engine>>

\* All is refilled, or the page allocation fails; the tail pointer is written,
\* which resumes the engine, and the poll returns.
RefillEnd ==
  /\ pc = "refill"
  /\ left = 0 \/ (~page[entry] /\ NoMemory)
  /\ dirty_rx' = entry
  /\ hw_suspended' = FALSE
  /\ pc' = "idle" /\ count' = 0 /\ entry' = 0 /\ left' = 0
  /\ UNCHANGED <<cur_rx, desc, page, state_saved, state_skb, skb, torn, hw_rx, hw_seg>>

-----------------------------------------------------------------------------
(* The engine (external), the overflow interrupt, and a close and reopen.  *)

\* The engine writes back one descriptor of a frame, or the context descriptor
\* with the time stamp that follows a frame.
HwFill(d) ==
  /\ desc[hw_rx] = "own" /\ ~hw_suspended
  /\ CASE d = "one"   -> hw_seg = 0 /\ hw_seg' = 0
       [] d = "first" -> hw_seg = 0 /\ MaxSegs > 1 /\ hw_seg' = 1
       [] d = "mid"   -> hw_seg > 0 /\ hw_seg + 1 < MaxSegs /\ hw_seg' = hw_seg + 1
       [] d = "last"  -> hw_seg > 0 /\ hw_seg' = 0
       [] d = "bad"   -> hw_seg' = 0
       [] d = "ctx"   -> hw_seg = 0 /\ hw_seg' = 0
  /\ desc' = [desc EXCEPT ![hw_rx] = d]
  /\ hw_rx' = GET_ENTRY(hw_rx)
  /\ UNCHANGED <<cur_rx, dirty_rx, page, state_saved, state_skb, poll, torn,
                 hw_suspended>>

HwSuspend ==
  /\ desc[hw_rx] # "own" /\ ~hw_suspended
  /\ hw_suspended' = TRUE
  /\ UNCHANGED <<cur_rx, dirty_rx, desc, page, state_saved, state_skb, poll, torn,
                 hw_rx, hw_seg>>

\* tc956xmac_interrupt on CORE_IRQ_MTL_RX_OVERFLOW writes the tail again.
IrqRxOverflow ==
  /\ hw_suspended
  /\ hw_suspended' = FALSE
  /\ UNCHANGED <<cur_rx, dirty_rx, desc, page, state_saved, state_skb, poll, torn,
                 hw_rx, hw_seg>>

\* tc956xmac_release, which waits for the poll to end and frees the pages, and
\* tc956xmac_open, which sets the ring up anew; rx_q->state is left alone.
Reopen ==
  /\ pc = "idle" /\ (state_saved => "reopen" \in Faults)
  /\ FreshRing
  /\ UNCHANGED <<state_saved, state_skb, poll, torn>>

-----------------------------------------------------------------------------
Rx == RxDiscard \/ RxSegment \/ RxDrain \/ RxBreak

Refill == RefillOne \/ RefillEnd

Next == \/ PollStart
        \/ RxDiscard \/ RxSegment \/ RxDrain \/ RxBreak
        \/ RefillOne \/ RefillEnd
        \/ \E d \in DescType \ {"own"} : HwFill(d)
        \/ HwSuspend \/ IrqRxOverflow
        \/ Reopen

Spec == Init /\ [][Next]_vars

\* A poll that runs goes on, and the rx NAPI polls again and again.
FairSpec == Spec /\ WF_vars(PollStart) /\ WF_vars(Rx) /\ WF_vars(Refill)

-----------------------------------------------------------------------------
(* Properties.                                                             *)

\* The engine never owns a descriptor without a page behind it, nor one that rx
\* has taken and refill has still to visit.
EngineOwnsPages ==
  \A i \in Slots :
    desc[i] = "own" => /\ page[i]
                       /\ ~Between(IF pc = "refill" THEN entry ELSE dirty_rx, cur_rx, i)

\* Every frame the stack gets consists of the descriptors of one frame, from
\* its first to its last, also when polls cut it in two.
WholeFrames == ~torn

\* Every descriptor the engine has written is given back to it.
Recycled == \A i \in Slots : desc[i] # "own" ~> desc[i] = "own"

\* A suspended engine is always resumed.
Resumed == hw_suspended ~> ~hw_suspended
=============================================================================
