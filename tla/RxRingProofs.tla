---------------------------- MODULE RxRingProofs ----------------------------
(***************************************************************************)
(* Ownership and pages of the receive ring, for every ring size, budget    *)
(* and frame length and with every fault: allocations that fail for as     *)
(* long as they like, and frames cut short.  The stack gets whole frames,  *)
(* also when polls cut a frame in two and when a short shortage of memory  *)
(* leaves some slots without a page.                                       *)
(***************************************************************************)
EXTENDS RxRing, TLAPS

-----------------------------------------------------------------------------
(* Cursors.                                                                *)

LEMMA EntryInRing ==
  ASSUME NEW x \in Slots PROVE GET_ENTRY(x) \in Slots
BY RxAssumption DEF Slots, GET_ENTRY

\* rx takes the slot at cur_rx: what was outside [dirty_rx, cur_rx) and is not
\* that slot is still outside.  This is so even when cur_rx reaches dirty_rx,
\* where the interval is taken for empty.
LEMMA OutsideTaken ==
  ASSUME NEW d \in Slots, NEW c \in Slots, NEW i \in Slots,
         ~Between(d, c, i), i # c
  PROVE  ~Between(d, GET_ENTRY(c), i)
BY RxAssumption DEF Slots, Between, GET_ENTRY

\* refill gives the slot at entry back: it is outside from then on, and one
\* slot less is left to visit.
LEMMA OutsideGiven ==
  ASSUME NEW e \in Slots, NEW c \in Slots, NEW i \in Slots,
         rx_dirty(c, e) > 0, ~Between(e, c, i) \/ i = e
  PROVE  ~Between(GET_ENTRY(e), c, i)
BY RxAssumption DEF Slots, Between, GET_ENTRY, rx_dirty

LEMMA LeftCounts ==
  ASSUME NEW e \in Slots, NEW c \in Slots, rx_dirty(c, e) > 0
  PROVE  rx_dirty(c, GET_ENTRY(e)) = rx_dirty(c, e) - 1
BY RxAssumption DEF Slots, GET_ENTRY, rx_dirty

LEMMA LeftNat ==
  ASSUME NEW e \in Slots, NEW c \in Slots
  PROVE  rx_dirty(c, e) \in Nat
BY RxAssumption DEF Slots, rx_dirty

-----------------------------------------------------------------------------
(* The invariant: what refill has left is the distance from its entry to   *)
(* cur_rx, so that it never gives back a slot beyond cur_rx.               *)

\* The first slot that is not refilled.
FirstDirty == IF pc = "refill" THEN entry ELSE dirty_rx

RxInv ==
  /\ cur_rx \in Slots /\ dirty_rx \in Slots /\ entry \in Slots /\ hw_rx \in Slots
  /\ left \in Nat /\ pc \in {"idle", "rx", "refill"}
  /\ desc \in [Slots -> DescType] /\ page \in [Slots -> BOOLEAN]
  /\ pc = "refill" => left = rx_dirty(cur_rx, entry)
  /\ \A i \in Slots : desc[i] = "own" => page[i] /\ ~Between(FirstDirty, cur_rx, i)

LEMMA RxInvImplies == RxInv => EngineOwnsPages
BY DEF RxInv, EngineOwnsPages, FirstDirty

LEMMA RxStart == Init => RxInv
BY RxAssumption DEF Init, RxInv, Slots, DescType, Good, Between, FirstDirty

\* How the poll goes on after a step of rx.
Onward == \/ pc' = "rx" /\ entry' = entry /\ left' = left
          \/ /\ pc' = "refill" /\ entry' = dirty_rx
             /\ left' = rx_dirty(cur_rx', dirty_rx)

LEMMA NextFrameOnward ==
  ASSUME NEW c, NextFrame(c) PROVE Onward
BY DEF NextFrame, EnterRefill, Onward

\* rx takes the slot at cur_rx, whether it keeps its page or not.
LEMMA Taken ==
  ASSUME RxInv, pc = "rx", desc[cur_rx] # "own", Onward,
         cur_rx' = GET_ENTRY(cur_rx), UNCHANGED <<dirty_rx, desc, hw_rx>>,
         page' \in [Slots -> BOOLEAN],
         \A i \in Slots : i # cur_rx => page'[i] = page[i]
  PROVE  RxInv'
<1>1. /\ cur_rx' \in Slots /\ entry' \in Slots /\ left' \in Nat
      /\ pc' \in {"idle", "rx", "refill"}
      /\ pc' = "refill" => left' = rx_dirty(cur_rx', entry')
  BY EntryInRing, LeftNat DEF RxInv, Onward
<1>2. FirstDirty = dirty_rx /\ FirstDirty' = dirty_rx
  BY DEF FirstDirty, Onward
<1>3. ASSUME NEW i \in Slots, desc'[i] = "own"
      PROVE  page'[i] /\ ~Between(FirstDirty', cur_rx', i)
  <2>1. i # cur_rx /\ page[i] /\ ~Between(dirty_rx, cur_rx, i)
    BY <1>2, <1>3 DEF RxInv
  <2>2. ~Between(dirty_rx, GET_ENTRY(cur_rx), i)
    BY <2>1, OutsideTaken DEF RxInv
  <2> QED
    BY <1>2, <2>1, <2>2
<1> QED
  BY <1>1, <1>3 DEF RxInv

\* A step that leaves the slots and what refill has left alone.
LEMMA Still ==
  ASSUME RxInv, UNCHANGED <<cur_rx, desc, page, hw_rx>>,
         dirty_rx' \in Slots, entry' \in Slots, left' \in Nat,
         pc' \in {"idle", "rx", "refill"}, FirstDirty' = FirstDirty,
         pc' = "refill" => left' = rx_dirty(cur_rx, entry')
  PROVE  RxInv'
BY DEF RxInv

-----------------------------------------------------------------------------
(* The steps.                                                              *)

LEMMA RxPollStep ==
  ASSUME RxInv, PollStart \/ RxDiscard \/ RxSegment \/ RxDrain \/ RxBreak
  PROVE  RxInv'
<1>1. CASE PollStart
  BY <1>1, Still DEF RxInv, PollStart, FirstDirty, engine
<1>2. CASE RxDiscard
  <2>1. Onward
    BY <1>2, NextFrameOnward DEF RxDiscard
  <2> QED
    BY <1>2, <2>1, Taken DEF RxInv, RxDiscard, engine
<1>3. CASE RxSegment
  <2>1. Onward
    BY <1>3, NextFrameOnward DEF RxSegment, Onward
  <2>2. desc[cur_rx] # "own"
    BY <1>3 DEF RxSegment, Good
  <2> QED
    BY <1>3, <2>1, <2>2, Taken DEF RxInv, RxSegment, engine
<1>4. CASE RxDrain
  <2>1. Onward
    BY <1>4, NextFrameOnward DEF RxDrain, Onward
  <2>2. desc[cur_rx] # "own"
    BY <1>4 DEF RxDrain, Good
  <2> QED
    BY <1>4, <2>1, <2>2, Taken DEF RxInv, RxDrain, engine
<1>5. CASE RxBreak
  <2>1. UNCHANGED <<cur_rx, dirty_rx, desc, page, hw_rx>> /\ pc = "rx"
    BY <1>5 DEF RxBreak, engine
  <2>2. pc' = "refill" /\ entry' = dirty_rx /\ left' = rx_dirty(cur_rx, dirty_rx)
    BY <1>5, <2>1 DEF RxBreak, EnterRefill
  <2>3. left' \in Nat
    BY <2>2, LeftNat DEF RxInv
  <2> QED
    BY <2>1, <2>2, <2>3, Still DEF RxInv, FirstDirty
<1> QED
  BY <1>1, <1>2, <1>3, <1>4, <1>5

LEMMA RefillStep ==
  ASSUME RxInv, RefillOne \/ RefillEnd PROVE RxInv'
<1>1. CASE RefillOne
  <2>1. /\ pc = "refill" /\ pc' = "refill" /\ rx_dirty(cur_rx, entry) > 0
        /\ entry' = GET_ENTRY(entry) /\ left' = left - 1
        /\ page' = [page EXCEPT ![entry] = TRUE]
        /\ desc' = [desc EXCEPT ![entry] = "own"]
        /\ UNCHANGED <<cur_rx, dirty_rx, hw_rx>>
    BY <1>1 DEF RxInv, RefillOne, engine
  <2>2. /\ entry' \in Slots /\ left' \in Nat
        /\ left' = rx_dirty(cur_rx, entry')
    BY <2>1, EntryInRing, LeftCounts, LeftNat DEF RxInv
  <2>3. ASSUME NEW i \in Slots, desc'[i] = "own"
        PROVE  page'[i] /\ ~Between(FirstDirty', cur_rx', i)
    <3>1. page'[i] /\ (~Between(entry, cur_rx, i) \/ i = entry)
      BY <2>1, <2>3 DEF RxInv, FirstDirty
    <3>2. ~Between(GET_ENTRY(entry), cur_rx, i)
      BY <2>1, <3>1, OutsideGiven DEF RxInv
    <3> QED
      BY <2>1, <3>1, <3>2 DEF FirstDirty
  <2>4. desc' \in [Slots -> DescType] /\ page' \in [Slots -> BOOLEAN]
    BY <2>1 DEF RxInv, DescType
  <2> QED
    BY <2>1, <2>2, <2>3, <2>4 DEF RxInv
<1>2. CASE RefillEnd
  <2>1. /\ pc = "refill" /\ pc' = "idle" /\ dirty_rx' = entry
        /\ entry' = 0 /\ left' = 0
        /\ UNCHANGED <<cur_rx, desc, page, hw_rx>>
    BY <1>2 DEF RefillEnd
  <2>2. 0 \in Slots
    BY RxAssumption DEF Slots
  <2> QED
    BY <2>1, <2>2, Still DEF RxInv, FirstDirty
<1> QED
  BY <1>1, <1>2

LEMMA EngineStep ==
  ASSUME RxInv, (\E d \in DescType \ {"own"} : HwFill(d)) \/ HwSuspend \/ IrqRxOverflow
  PROVE  RxInv'
<1>1. CASE \E d \in DescType \ {"own"} : HwFill(d)
  <2>1. PICK d \in DescType \ {"own"} : HwFill(d)
    BY <1>1
  <2>2. /\ desc' = [desc EXCEPT ![hw_rx] = d] /\ hw_rx' = GET_ENTRY(hw_rx)
        /\ UNCHANGED <<cur_rx, dirty_rx, page, pc, entry, left>>
    BY <2>1 DEF HwFill, poll
  <2>3. hw_rx' \in Slots /\ desc' \in [Slots -> DescType]
    BY <2>2, EntryInRing DEF RxInv
  <2>4. \A i \in Slots : desc'[i] = "own" => desc[i] = "own"
    BY <2>2 DEF RxInv
  <2>5. FirstDirty' = FirstDirty
    BY <2>2 DEF FirstDirty
  <2> QED
    BY <2>2, <2>3, <2>4, <2>5 DEF RxInv
<1>2. CASE HwSuspend \/ IrqRxOverflow
  BY <1>2, Still DEF RxInv, HwSuspend, IrqRxOverflow, poll, FirstDirty
<1> QED
  BY <1>1, <1>2

LEMMA ReopenStep ==
  ASSUME RxInv, Reopen PROVE RxInv'
<1>1. /\ cur_rx' = 0 /\ dirty_rx' = 0 /\ hw_rx' = 0 /\ pc' = "idle"
      /\ desc' = [i \in Slots |-> "own"] /\ page' = [i \in Slots |-> TRUE]
      /\ entry' = entry /\ left' = left
  BY DEF Reopen, FreshRing, poll
<1>2. 0 \in Slots /\ \A i \in Slots : ~Between(0, 0, i)
  BY RxAssumption DEF Slots, Between
<1> QED
  BY <1>1, <1>2 DEF RxInv, DescType, FirstDirty

LEMMA RxAlways == Spec => []RxInv
<1>1. RxInv /\ [Next]_vars => RxInv'
  <2> SUFFICES ASSUME RxInv, [Next]_vars PROVE RxInv'
    OBVIOUS
  <2>1. CASE UNCHANGED vars
    BY <2>1, Still DEF RxInv, vars, poll, engine, FirstDirty
  <2>2. CASE Next
    BY <2>2, RxPollStep, RefillStep, EngineStep, ReopenStep DEF Next
  <2> QED
    BY <2>1, <2>2
<1> QED
  BY <1>1, RxStart, PTL DEF Spec

\* The engine never owns a descriptor without a page behind it, nor one that rx
\* has taken and rx_refill has still to visit, for every ring size and budget
\* and whichever allocations fail in rx and rx_refill.
THEOREM OwnedHavePages == Spec => []EngineOwnsPages
BY RxAlways, RxInvImplies, PTL

-----------------------------------------------------------------------------
(* Whole frames.                                                           *)

\* The shortages and events that leave every frame whole.
RxCalm == Faults \subseteq {"oom_short"}

-----------------------------------------------------------------------------
(* The ring seen from cur_rx: first the descriptors the engine has filled  *)
(* and rx has not read, then those that are the engine's, last those that  *)
(* rx has taken and refill has not given back.                             *)

\* The slot k places after c.
At(c, k) == IF c + k >= N THEN c + k - N ELSE c + k

LEMMA AtInRing ==
  ASSUME NEW c \in Slots, NEW k \in 0 .. N
  PROVE  At(c, k) \in Slots /\ At(c, 0) = c /\ At(c, N) = c
BY RxAssumption DEF Slots, At

LEMMA AtNext ==
  ASSUME NEW c \in Slots, NEW k \in 0 .. N - 1
  PROVE  /\ At(GET_ENTRY(c), k) = At(c, k + 1)
         /\ GET_ENTRY(At(c, k)) = At(c, k + 1)
BY RxAssumption DEF Slots, At, GET_ENTRY

LEMMA AtOnce ==
  ASSUME NEW c \in Slots, NEW j \in 0 .. N - 1, NEW k \in 0 .. N - 1, At(c, j) = At(c, k)
  PROVE  j = k
BY RxAssumption DEF Slots, At

\* The first slot that is not refilled lies as many places before cur_rx as
\* there are such slots.
LEMMA AtDirty ==
  ASSUME NEW c \in Slots, NEW f \in Slots
  PROVE  rx_dirty(c, f) \in 0 .. N - 1 /\ At(c, N - rx_dirty(c, f)) = f
BY RxAssumption DEF Slots, At, rx_dirty

LEMMA DirtyNext ==
  ASSUME NEW c \in Slots, NEW f \in Slots, rx_dirty(c, f) + 1 < N
  PROVE  rx_dirty(GET_ENTRY(c), f) = rx_dirty(c, f) + 1
BY RxAssumption DEF Slots, GET_ENTRY, rx_dirty

\* A further frame stays within the descriptors of the budget.
LEMMA FrameFits ==
  ASSUME NEW c \in Nat, NEW b \in Nat, NEW m \in Nat, c + 1 <= b
  PROVE  c * m \in Nat /\ c * m + m <= b * m /\ (c + 1) * m = c * m + m
<1>1. PICK r \in Nat : b = c + 1 + r
  <2>1. b - (c + 1) \in Nat /\ b = c + 1 + (b - (c + 1))
    OBVIOUS
  <2> QED
    BY <2>1
<1>2. b * m = c * m + m + r * m /\ (c + 1) * m = c * m + m
  BY <1>1
<1>3. c * m \in Nat /\ r * m \in Nat
  OBVIOUS
<1> QED
  BY <1>2, <1>3

-----------------------------------------------------------------------------
(* The invariant.  F descriptors are filled, and g tells how many segments *)
(* of its frame come before each of them.                                  *)

Dirty == rx_dirty(cur_rx, FirstDirty)

Filled(F) ==
  /\ F + Dirty <= N /\ hw_rx = At(cur_rx, F)
  /\ \A k \in 0 .. N - 1 : desc[At(cur_rx, k)] = "own" <=> F <= k /\ k < N - Dirty

\* A descriptor d with b segments of its frame before it leaves a after it.
Follows(b, d, a) ==
  \/ d = "one" /\ b = 0 /\ a = 0
  \/ d = "first" /\ b = 0 /\ a = 1
  \/ d = "mid" /\ b > 0 /\ a = b + 1
  \/ d = "last" /\ b > 0 /\ a = 0
  \/ d = "bad" /\ a = 0
  \/ d = "ctx" /\ b = 0 /\ a = 0

Parsed(F, g) ==
  /\ g[F] = hw_seg
  /\ \A k \in 0 .. N - 1 : k < F => Follows(g[k], desc[At(cur_rx, k)], g[k + 1])

\* The skb that the next descriptor continues.
Partial == CASE pc = "rx" -> skb
             [] pc # "rx" /\ state_saved -> state_skb
             [] OTHER -> "none"

\* s segments of the frame at cur_rx are read.  rx never comes round to slots
\* that are not refilled: a poll takes up to Limit frames, and what is left over
\* from the polls before it is at most OomSlack and the frame they began.
Level(s) ==
  /\ Partial = (IF s = 0 THEN "none" ELSE "whole")
  /\ pc = "rx" => Dirty <= OomSlack + count * MaxSegs + s
  /\ pc = "idle" => Dirty <= OomSlack

PollInv ==
  /\ ~torn /\ count \in Nat /\ (state_saved => state_skb = "whole")
  /\ pc = "rx" => count < Limit /\ (state_saved => count = 0 /\ skb = "whole")

SegsBefore == [0 .. N -> 0 .. MaxSegs - 1]

FrameInv ==
  /\ PollInv
  /\ \E F \in 0 .. N, g \in SegsBefore : Filled(F) /\ Parsed(F, g) /\ Level(g[0])

LEMMA FrameStart == Init => FrameInv
<1> SUFFICES ASSUME Init PROVE FrameInv
  OBVIOUS
<1> DEFINE g == [k \in 0 .. N |-> 0]
<1>1. g \in SegsBefore /\ 0 \in 0 .. N /\ 0 \in Slots
  BY RxAssumption DEF SegsBefore, Slots
<1>2. FirstDirty = 0 /\ Dirty = 0
  BY DEF Init, FirstDirty, Dirty, rx_dirty
<1>3. Filled(0)
  BY <1>1, <1>2, RxAssumption, AtInRing DEF Init, Filled
<1>4. Parsed(0, g) /\ Level(g[0])
  BY <1>1, <1>2, RxAssumption DEF Init, Parsed, Level, Partial
<1>5. PollInv
  BY DEF Init, PollInv
<1> QED
  BY <1>1, <1>3, <1>4, <1>5 DEF FrameInv

\* A step that leaves the slots, the engine and the taken slots alone.
LEMMA FrameStill ==
  ASSUME FrameInv, PollInv', UNCHANGED <<cur_rx, desc, hw_rx, hw_seg>>,
         FirstDirty' = FirstDirty,
         \A n \in Nat : Level(n) => Level(n)'
  PROVE  FrameInv'
<1>1. PICK F \in 0 .. N, g \in SegsBefore : Filled(F) /\ Parsed(F, g) /\ Level(g[0])
  BY DEF FrameInv
<1>2. Filled(F)' /\ Parsed(F, g)'
  BY <1>1 DEF Filled, Parsed, Dirty
<1>3. g[0] \in Nat
  BY RxAssumption DEF SegsBefore
<1>4. Level(g[0])'
  BY <1>1, <1>3
<1> QED
  BY <1>2, <1>4 DEF FrameInv

-----------------------------------------------------------------------------
(* rx reads the descriptor at cur_rx.                                      *)

LEMMA ReadOne ==
  ASSUME RxInv, pc = "rx", desc[cur_rx] # "own",
         NEW F \in 0 .. N, NEW g \in SegsBefore, Filled(F), Parsed(F, g), Dirty + 1 < N,
         cur_rx' = GET_ENTRY(cur_rx), UNCHANGED <<desc, hw_rx, hw_seg>>,
         FirstDirty' = FirstDirty
  PROVE  /\ Follows(g[0], desc[cur_rx], g[1]) /\ Dirty' = Dirty + 1
         /\ \E h \in SegsBefore : Filled(F - 1)' /\ Parsed(F - 1, h)' /\ h[0] = g[1]
         /\ F - 1 \in 0 .. N
<1> USE DEF SegsBefore
<1>0. /\ cur_rx \in Slots /\ FirstDirty \in Slots /\ N \in Nat /\ N >= 2 /\ Dirty \in 0 .. N - 1
      /\ 0 \in 0 .. MaxSegs - 1
  BY RxAssumption, AtDirty DEF RxInv, FirstDirty, Dirty
<1>1. At(cur_rx, 0) = cur_rx /\ 0 \in 0 .. N - 1
  BY <1>0, AtInRing
<1>2. F > 0
  BY <1>0, <1>1 DEF Filled
<1>3. Follows(g[0], desc[cur_rx], g[1])
  BY <1>1, <1>2 DEF Parsed
<1>4. Dirty' = Dirty + 1
  BY <1>0, DirtyNext DEF Dirty
<1>6. PICK h \in SegsBefore : \A k \in 0 .. N - 1 : h[k] = g[k + 1]
  <2> DEFINE s == [k \in 0 .. N |-> IF k < N THEN g[k + 1] ELSE 0]
  <2>1. s \in SegsBefore /\ \A k \in 0 .. N - 1 : s[k] = g[k + 1]
    BY <1>0
  <2> QED
    BY <2>1
<1>5. h[0] = g[1]
  BY <1>1, <1>6
<1>7. h[F - 1] = g[F]
  BY <1>0, <1>2, <1>6
<1>8. \A k \in 0 .. N - 1 : At(cur_rx', k) = At(cur_rx, k + 1)
  BY <1>0, AtNext
<1>9. hw_rx = At(cur_rx', F - 1)
  BY <1>0, <1>2, <1>8 DEF Filled
<1>10. \A k \in 0 .. N - 1 : desc[At(cur_rx', k)] = "own" <=> F - 1 <= k /\ k < N - Dirty'
  <2> SUFFICES ASSUME NEW k \in 0 .. N - 1
               PROVE  desc[At(cur_rx', k)] = "own" <=> F - 1 <= k /\ k < N - Dirty'
    OBVIOUS
  <2>1. CASE k < N - 1
    <3>1. k + 1 \in 0 .. N - 1
      BY <1>0, <2>1
    <3>2. desc[At(cur_rx, k + 1)] = "own" <=> F <= k + 1 /\ k + 1 < N - Dirty
      BY <3>1 DEF Filled
    <3>3. F <= k + 1 /\ k + 1 < N - Dirty <=> F - 1 <= k /\ k < N - Dirty'
      BY <1>0, <1>4
    <3>4. At(cur_rx', k) = At(cur_rx, k + 1)
      BY <1>8
    <3> QED
      BY <3>2, <3>3, <3>4
  <2>2. CASE k = N - 1
    <3>1. At(cur_rx', k) = cur_rx
      BY <1>0, <1>8, <2>2, AtInRing
    <3> QED
      BY <1>0, <1>4, <2>2, <3>1
  <2> QED
    BY <1>0, <2>1, <2>2
<1>11. Filled(F - 1)'
  BY <1>0, <1>4, <1>9, <1>10 DEF Filled
<1>12. Parsed(F - 1, h)'
  <2>1. ASSUME NEW k \in 0 .. N - 1, k < F - 1
        PROVE  Follows(h[k], desc[At(cur_rx', k)], h[k + 1])
    <3>1. k + 1 \in 0 .. N - 1 /\ k + 1 < F
      BY <1>0, <2>1
    <3>2. Follows(g[k + 1], desc[At(cur_rx, k + 1)], g[k + 1 + 1])
      BY <3>1 DEF Parsed
    <3> QED
      BY <1>6, <1>8, <3>1, <3>2
  <2> QED
    BY <1>7, <2>1 DEF Parsed
<1>13. F - 1 \in 0 .. N
  BY <1>0, <1>2
<1>14. \E x \in SegsBefore : Filled(F - 1)' /\ Parsed(F - 1, x)' /\ x[0] = g[1]
  <2> HIDE DEF SegsBefore
  <2> QED
    BY <1>5, <1>11, <1>12
<1> QED
  BY <1>3, <1>4, <1>13, <1>14

\* The frame at cur_rx ends, well or badly, or is a context descriptor.
LEMMA FrameEnds ==
  ASSUME RxInv, FrameInv, pc = "rx", desc[cur_rx] \notin {"own", "first", "mid"},
         cur_rx' = GET_ENTRY(cur_rx), UNCHANGED <<dirty_rx, desc, engine>>,
         NextFrame(count + 1), torn' = FALSE
  PROVE  FrameInv'
<1>1. PICK F \in 0 .. N, g \in SegsBefore : Filled(F) /\ Parsed(F, g) /\ Level(g[0])
  BY DEF FrameInv
<1>2. /\ count \in Nat /\ count + 1 <= Limit /\ Limit \in Nat /\ Limit >= 2 /\ MaxSegs \in Nat
      /\ MaxSegs >= 1 /\ OomSlack \in Nat /\ N \in Nat /\ Limit * MaxSegs + OomSlack < N
      /\ g[0] \in 0 .. MaxSegs - 1 /\ g[1] \in 0 .. MaxSegs - 1
  BY RxAssumption DEF FrameInv, PollInv, SegsBefore
<1>3. Dirty \in Nat /\ Dirty <= OomSlack + count * MaxSegs + g[0]
  BY <1>1, AtDirty DEF RxInv, Dirty, FirstDirty, Level
<1>4. /\ count * MaxSegs \in Nat /\ count * MaxSegs + MaxSegs <= Limit * MaxSegs
      /\ (count + 1) * MaxSegs = count * MaxSegs + MaxSegs /\ Limit * MaxSegs \in Nat
  <2>1. Limit * MaxSegs \in Nat
    BY <1>2
  <2> QED
    BY <1>2, <2>1, FrameFits
<1>5. Dirty + 1 <= OomSlack + (count + 1) * MaxSegs /\ Dirty + 1 < N
  BY <1>2, <1>3, <1>4
<1>6. Onward /\ FirstDirty' = FirstDirty /\ UNCHANGED <<hw_rx, hw_seg>>
  BY NextFrameOnward DEF Onward, FirstDirty, engine
<1>7. /\ Follows(g[0], desc[cur_rx], g[1]) /\ Dirty' = Dirty + 1
      /\ \E h \in SegsBefore : Filled(F - 1)' /\ Parsed(F - 1, h)' /\ h[0] = g[1]
      /\ F - 1 \in 0 .. N
  BY <1>1, <1>5, <1>6, ReadOne
<1>8. g[1] = 0
  BY <1>7 DEF Follows
<1>9. count' = count + 1 /\ (pc' = "rx" => count' < Limit)
  BY DEF NextFrame, EnterRefill
<1>10. state_saved' = FALSE
  BY <1>2 DEF NextFrame, FrameInv, PollInv
<1>11. Partial' = "none" /\ pc' \in {"rx", "refill"}
  BY <1>10 DEF Partial, NextFrame, EnterRefill
<1>12. Level(0)'
  BY <1>5, <1>7, <1>9, <1>11, <1>2, <1>4 DEF Level
<1>13. PollInv'
  BY <1>2, <1>9, <1>10 DEF PollInv
<1> QED
  BY <1>7, <1>8, <1>12, <1>13 DEF FrameInv

\* A descriptor in the middle of a frame.
LEMMA FrameGoesOn ==
  ASSUME RxInv, FrameInv, pc = "rx", desc[cur_rx] \in {"first", "mid"},
         cur_rx' = GET_ENTRY(cur_rx), UNCHANGED <<dirty_rx, desc, engine>>,
         skb' = Extend(skb, desc[cur_rx]),
         UNCHANGED <<torn, pc, count, entry, left, state_saved, state_skb>>
  PROVE  FrameInv'
<1>1. PICK F \in 0 .. N, g \in SegsBefore : Filled(F) /\ Parsed(F, g) /\ Level(g[0])
  BY DEF FrameInv
<1>2. /\ count \in Nat /\ count + 1 <= Limit /\ Limit \in Nat /\ MaxSegs \in Nat
      /\ MaxSegs >= 1 /\ OomSlack \in Nat /\ N \in Nat /\ Limit * MaxSegs + OomSlack < N
      /\ g[0] \in 0 .. MaxSegs - 1 /\ g[1] \in 0 .. MaxSegs - 1
  BY RxAssumption DEF FrameInv, PollInv, SegsBefore
<1>3. Dirty \in Nat /\ Dirty <= OomSlack + count * MaxSegs + g[0]
  BY <1>1, AtDirty DEF RxInv, Dirty, FirstDirty, Level
<1>4. /\ count * MaxSegs \in Nat /\ count * MaxSegs + MaxSegs <= Limit * MaxSegs
      /\ Limit * MaxSegs \in Nat
  <2>1. Limit * MaxSegs \in Nat
    BY <1>2
  <2> QED
    BY <1>2, <2>1, FrameFits
<1>5. Dirty + 1 < N
  BY <1>2, <1>3, <1>4
<1>6. FirstDirty' = FirstDirty /\ UNCHANGED <<hw_rx, hw_seg>>
  BY DEF FirstDirty, engine
<1>7. /\ Follows(g[0], desc[cur_rx], g[1]) /\ Dirty' = Dirty + 1
      /\ \E h \in SegsBefore : Filled(F - 1)' /\ Parsed(F - 1, h)' /\ h[0] = g[1]
      /\ F - 1 \in 0 .. N
  BY <1>1, <1>5, <1>6, ReadOne
<1>8. g[1] = g[0] + 1 /\ (desc[cur_rx] = "first" <=> g[0] = 0)
  BY <1>2, <1>7 DEF Follows
<1>9. skb = (IF g[0] = 0 THEN "none" ELSE "whole")
  BY <1>1 DEF Level, Partial
<1>10. skb' = "whole"
  BY <1>8, <1>9 DEF Extend
<1>11. Partial' = "whole" /\ pc' = "rx" /\ count' = count
  BY <1>10 DEF Partial
<1>12. Level(g[1])'
  BY <1>2, <1>3, <1>4, <1>7, <1>8, <1>11 DEF Level
<1>13. PollInv'
  BY <1>10 DEF PollInv, FrameInv
<1> QED
  BY <1>7, <1>12, <1>13 DEF FrameInv

LEMMA FrameRead ==
  ASSUME RxCalm, RxInv, FrameInv, RxDiscard \/ RxSegment \/ RxDrain
  PROVE  FrameInv'
<1>1. CASE RxDiscard
  <2>1. desc[cur_rx] \notin {"own", "first", "mid"} /\ torn' = FALSE
    BY <1>1 DEF RxDiscard, FrameInv, PollInv
  <2> QED
    BY <1>1, <2>1, FrameEnds DEF RxDiscard
<1>2. CASE RxSegment
  <2>1. CASE IsLast(desc[cur_rx])
    <3>1. PICK F \in 0 .. N, g \in SegsBefore : Filled(F) /\ Parsed(F, g) /\ Level(g[0])
      BY DEF FrameInv
    <3>2. skb = (IF g[0] = 0 THEN "none" ELSE "whole")
      BY <1>2, <3>1 DEF Level, Partial, RxSegment
    <3>3. Follows(g[0], desc[cur_rx], g[1])
      <4>0. cur_rx \in Slots /\ FirstDirty \in Slots /\ 0 \in 0 .. N /\ 0 \in 0 .. N - 1 /\ N \in Nat
        BY RxAssumption DEF RxInv, FirstDirty
      <4>1. 0 \in 0 .. N - 1 /\ At(cur_rx, 0) = cur_rx /\ Dirty \in 0 .. N - 1 /\ N \in Nat
        BY <4>0, AtInRing, AtDirty DEF Dirty
      <4>2. desc[cur_rx] # "own"
        BY <1>2 DEF RxSegment, Good
      <4>3. 0 < F
        BY <3>1, <4>1, <4>2 DEF Filled
      <4> QED
        BY <3>1, <4>1, <4>3 DEF Parsed
    <3>4. g[0] \in Nat
      BY RxAssumption DEF SegsBefore
    <3>5. Extend(skb, desc[cur_rx]) = "whole"
      BY <2>1, <3>2, <3>3, <3>4 DEF Extend, IsLast, Follows
    <3>6. torn' = FALSE
      BY <1>2, <2>1, <3>5 DEF RxSegment, FrameInv, PollInv
    <3> QED
      BY <1>2, <2>1, <3>6, FrameEnds DEF RxSegment, IsLast
  <2>2. CASE ~IsLast(desc[cur_rx])
    BY <1>2, <2>2, FrameGoesOn DEF RxSegment, IsLast, Good
  <2> QED
    BY <2>1, <2>2
<1>3. CASE RxDrain
  <2>1. desc[cur_rx] = "one" /\ torn' = FALSE
    BY <1>3 DEF RxDrain, RxCalm, FrameInv, PollInv
  <2> QED
    BY <1>3, <2>1, FrameEnds DEF RxDrain, IsLast
<1> QED
  BY <1>1, <1>2, <1>3

-----------------------------------------------------------------------------
(* The other steps.                                                        *)

\* A poll begins with the frame saved by the one before, and saves its own.
LEMMA FramePoll ==
  ASSUME RxInv, FrameInv, PollStart \/ RxBreak PROVE FrameInv'
<1>1. CASE PollStart
  <2>1. /\ pc = "idle" /\ pc' = "rx" /\ count' = 0
        /\ skb' = (IF state_saved THEN state_skb ELSE "none")
        /\ UNCHANGED <<cur_rx, dirty_rx, desc, state_saved, state_skb, torn, hw_rx, hw_seg>>
    BY <1>1 DEF PollStart, engine
  <2>2. FirstDirty' = FirstDirty /\ Partial' = Partial /\ Dirty' = Dirty
    BY <2>1 DEF FirstDirty, Partial, Dirty
  <2>3. Dirty \in Nat /\ OomSlack \in Nat /\ 0 * MaxSegs = 0
    BY RxAssumption, AtDirty DEF RxInv, Dirty, FirstDirty
  <2>4. \A n \in Nat : Level(n) => Level(n)'
    BY <2>1, <2>2, <2>3 DEF Level
  <2>5. PollInv'
    BY <2>1, RxAssumption DEF FrameInv, PollInv
  <2> QED
    BY <2>1, <2>2, <2>4, <2>5, FrameStill
<1>2. CASE RxBreak
  <2>1. /\ pc = "rx" /\ pc' = "refill" /\ entry' = dirty_rx /\ UNCHANGED <<count, torn>>
        /\ UNCHANGED <<cur_rx, dirty_rx, desc, hw_rx, hw_seg>>
    BY <1>2 DEF RxBreak, EnterRefill, engine
  <2>2. FirstDirty' = FirstDirty
    BY <2>1 DEF FirstDirty
  <2>3. skb \in {"none", "whole"}
    BY <2>1 DEF FrameInv, Level, Partial
  <2>4. IF skb # "none" THEN state_saved' = TRUE /\ state_skb' = skb
                        ELSE state_saved' = FALSE
    BY <1>2, <2>1 DEF RxBreak, FrameInv, PollInv
  <2>5. Partial' = Partial
    BY <2>1, <2>4 DEF Partial
  <2>6. \A n \in Nat : Level(n) => Level(n)'
    BY <2>1, <2>5 DEF Level
  <2>7. PollInv'
    BY <2>1, <2>3, <2>4 DEF FrameInv, PollInv
  <2> QED
    BY <2>1, <2>2, <2>6, <2>7, FrameStill
<1> QED
  BY <1>1, <1>2

LEMMA FrameRefill ==
  ASSUME RxCalm, RxInv, FrameInv, RefillOne \/ RefillEnd PROVE FrameInv'
<1>0. /\ cur_rx \in Slots /\ entry \in Slots /\ N \in Nat /\ N >= 2 /\ pc = "refill"
      /\ FirstDirty = entry /\ Dirty = left /\ Dirty \in 0 .. N - 1
      /\ At(cur_rx, N - Dirty) = entry /\ OomSlack \in Nat
  BY RxAssumption, AtDirty DEF RxInv, RefillOne, RefillEnd, FirstDirty, Dirty
<1>1. CASE RefillOne
  <2>1. /\ left > 0 /\ desc' = [desc EXCEPT ![entry] = "own"] /\ entry' = GET_ENTRY(entry)
        /\ UNCHANGED <<pc, cur_rx, dirty_rx, hw_rx, hw_seg, state_saved, state_skb, count,
                       skb, torn>>
    BY <1>1 DEF RefillOne, engine
  <2>2. Dirty' = Dirty - 1
    BY <1>0, <2>1, LeftCounts DEF Dirty, FirstDirty
  <2>3. PICK F \in 0 .. N, g \in SegsBefore : Filled(F) /\ Parsed(F, g) /\ Level(g[0])
    BY DEF FrameInv
  <2>4. N - Dirty \in 0 .. N - 1 /\ F <= N - Dirty
    BY <1>0, <2>1, <2>3 DEF Filled
  <2>5. \A k \in 0 .. N - 1 : desc'[At(cur_rx, k)] = IF k = N - Dirty THEN "own"
                                                     ELSE desc[At(cur_rx, k)]
    <3> SUFFICES ASSUME NEW k \in 0 .. N - 1
                 PROVE  desc'[At(cur_rx, k)] = IF k = N - Dirty THEN "own"
                                               ELSE desc[At(cur_rx, k)]
      OBVIOUS
    <3>1. At(cur_rx, k) \in Slots
      BY <1>0, AtInRing
    <3>2. At(cur_rx, k) = entry <=> k = N - Dirty
      BY <1>0, <2>4, AtOnce
    <3> QED
      BY <2>1, <3>1, <3>2 DEF RxInv
  <2>6. Filled(F)'
    <3>1. ASSUME NEW k \in 0 .. N - 1
          PROVE  desc'[At(cur_rx', k)] = "own" <=> F <= k /\ k < N - Dirty'
      <4>1. desc[At(cur_rx, k)] = "own" <=> F <= k /\ k < N - Dirty
        BY <2>3 DEF Filled
      <4> QED
        BY <1>0, <2>1, <2>2, <2>4, <2>5, <4>1
    <3> QED
      BY <1>0, <2>1, <2>2, <2>3, <3>1 DEF Filled
  <2>7. Parsed(F, g)'
    BY <1>0, <2>1, <2>3, <2>4, <2>5 DEF Parsed
  <2>8. Level(g[0])' /\ PollInv'
    BY <1>0, <2>1, <2>3 DEF Level, Partial, PollInv, FrameInv
  <2> QED
    BY <2>6, <2>7, <2>8 DEF FrameInv
<1>2. CASE RefillEnd
  <2>1. /\ dirty_rx' = entry /\ pc' = "idle" /\ count' = 0 /\ left <= OomSlack
        /\ UNCHANGED <<cur_rx, desc, state_saved, state_skb, torn, hw_rx, hw_seg>>
    BY <1>0, <1>2 DEF RefillEnd, NoMemory, RxCalm
  <2>2. FirstDirty' = FirstDirty /\ Dirty' = Dirty /\ Partial' = Partial
    BY <1>0, <2>1 DEF FirstDirty, Dirty, Partial
  <2>3. \A n \in Nat : Level(n) => Level(n)'
    BY <1>0, <2>1, <2>2 DEF Level
  <2>4. PollInv'
    BY <2>1 DEF FrameInv, PollInv
  <2> QED
    BY <2>1, <2>2, <2>3, <2>4, FrameStill
<1> QED
  BY <1>1, <1>2

LEMMA FrameFill ==
  ASSUME RxInv, FrameInv, NEW d \in DescType \ {"own"}, HwFill(d) PROVE FrameInv'
<1> USE DEF SegsBefore
<1>1. /\ desc[hw_rx] = "own" /\ desc' = [desc EXCEPT ![hw_rx] = d] /\ hw_rx' = GET_ENTRY(hw_rx)
      /\ UNCHANGED <<cur_rx, dirty_rx, state_saved, state_skb, pc, count, skb, entry, torn>>
  BY DEF HwFill, poll
<1>2. PICK F \in 0 .. N, g \in SegsBefore : Filled(F) /\ Parsed(F, g) /\ Level(g[0])
  BY DEF FrameInv
<1>0. /\ cur_rx \in Slots /\ N \in Nat /\ N >= 2 /\ Dirty \in 0 .. N - 1 /\ MaxSegs \in Nat
      /\ MaxSegs >= 1 /\ g[F] = hw_seg /\ hw_seg \in 0 .. MaxSegs - 1
      /\ hw_rx = At(cur_rx, F) /\ F + Dirty <= N
  BY <1>2, RxAssumption, AtDirty DEF RxInv, Dirty, FirstDirty, Filled, Parsed
<1>3. Dirty' = Dirty
  BY <1>1 DEF Dirty, FirstDirty
<1>4. F < N - Dirty
  <2>1. CASE F < N
    BY <1>0, <1>1, <1>2, <2>1 DEF Filled
  <2>2. CASE F = N
    <3>1. hw_rx = At(cur_rx, 0) /\ 0 \in 0 .. N - 1
      BY <1>0, <2>2, AtInRing
    <3>2. N <= 0
      BY <1>0, <1>1, <1>2, <2>2, <3>1 DEF Filled
    <3> QED
      BY <1>0, <3>2
  <2> QED
    BY <1>0, <2>1, <2>2
<1>5. F \in 0 .. N - 1 /\ F + 1 \in 0 .. N
  BY <1>0, <1>4
<1>6. \A k \in 0 .. N - 1 : desc'[At(cur_rx, k)] = IF k = F THEN d ELSE desc[At(cur_rx, k)]
  <2> SUFFICES ASSUME NEW k \in 0 .. N - 1
               PROVE  desc'[At(cur_rx, k)] = IF k = F THEN d ELSE desc[At(cur_rx, k)]
    OBVIOUS
  <2>1. At(cur_rx, k) \in Slots
    BY <1>0, AtInRing
  <2>2. At(cur_rx, k) = hw_rx <=> k = F
    BY <1>0, <1>5, AtOnce
  <2> QED
    BY <1>1, <2>1, <2>2 DEF RxInv
<1>7. Follows(hw_seg, d, hw_seg') /\ hw_seg' \in 0 .. MaxSegs - 1
  <2>1. d \in {"one", "first", "mid", "last", "bad", "ctx"}
    BY DEF DescType, Good
  <2>2. CASE d = "one"
    BY <1>0, <2>2 DEF HwFill, Follows
  <2>3. CASE d = "first"
    BY <1>0, <2>3 DEF HwFill, Follows
  <2>4. CASE d = "mid"
    BY <1>0, <2>4 DEF HwFill, Follows
  <2>5. CASE d = "last"
    BY <1>0, <2>5 DEF HwFill, Follows
  <2>6. CASE d = "bad"
    BY <1>0, <2>6 DEF HwFill, Follows
  <2>7. CASE d = "ctx"
    BY <1>0, <2>7 DEF HwFill, Follows
  <2> QED
    BY <2>1, <2>2, <2>3, <2>4, <2>5, <2>6, <2>7
<1>8. PICK h \in SegsBefore : h[F + 1] = hw_seg' /\ \A k \in 0 .. F : h[k] = g[k]
  <2>1. PICK a \in 0 .. MaxSegs - 1 : a = hw_seg'
    BY <1>7
  <2> DEFINE s == [g EXCEPT ![F + 1] = a]
  <2>2. s \in SegsBefore /\ s[F + 1] = a /\ \A k \in 0 .. F : s[k] = g[k]
    BY <1>0, <1>5
  <2> QED
    BY <2>1, <2>2
<1>9. Filled(F + 1)'
  <2>1. hw_rx' = At(cur_rx', F + 1)
    BY <1>0, <1>1, <1>5, AtNext
  <2>2. ASSUME NEW k \in 0 .. N - 1
        PROVE  desc'[At(cur_rx', k)] = "own" <=> F + 1 <= k /\ k < N - Dirty'
    <3>1. desc[At(cur_rx, k)] = "own" <=> F <= k /\ k < N - Dirty
      BY <1>2 DEF Filled
    <3> QED
      BY <1>0, <1>1, <1>3, <1>5, <1>6, <3>1
  <2>3. F + 1 + Dirty' <= N
    BY <1>0, <1>3, <1>4
  <2> QED
    BY <2>1, <2>2, <2>3 DEF Filled
<1>10. Parsed(F + 1, h)'
  <2>1. ASSUME NEW k \in 0 .. N - 1, k < F + 1
        PROVE  Follows(h[k], desc'[At(cur_rx', k)], h[k + 1])
    <3>1. CASE k = F
      BY <1>0, <1>1, <1>5, <1>6, <1>7, <1>8, <3>1
    <3>2. CASE k < F
      <4>1. Follows(g[k], desc[At(cur_rx, k)], g[k + 1])
        BY <1>2, <3>2 DEF Parsed
      <4>2. k \in 0 .. F /\ k + 1 \in 0 .. F
        BY <1>0, <3>2
      <4> QED
        BY <1>1, <1>6, <1>8, <3>2, <4>1, <4>2
    <3> QED
      BY <1>0, <2>1, <3>1, <3>2
  <2> QED
    BY <1>8, <2>1 DEF Parsed
<1>11. h[0] = g[0]
  BY <1>0, <1>8
<1>12. Level(h[0])' /\ PollInv'
  BY <1>1, <1>2, <1>3, <1>11 DEF Level, Partial, PollInv, FrameInv
<1> QED
  BY <1>5, <1>8, <1>9, <1>10, <1>12 DEF FrameInv

LEMMA FrameReopen ==
  ASSUME RxCalm, RxInv, FrameInv, Reopen PROVE FrameInv'
<1> DEFINE g == [k \in 0 .. N |-> 0]
<1>1. /\ cur_rx' = 0 /\ dirty_rx' = 0 /\ hw_rx' = 0 /\ hw_seg' = 0 /\ pc = "idle"
      /\ desc' = [i \in Slots |-> "own"] /\ ~state_saved
      /\ UNCHANGED <<pc, count, skb, state_saved, state_skb, torn>>
  BY DEF Reopen, FreshRing, poll, RxCalm
<1>2. g \in SegsBefore /\ 0 \in 0 .. N /\ 0 \in Slots
  BY RxAssumption DEF SegsBefore, Slots
<1>3. FirstDirty' = 0 /\ Dirty' = 0
  BY <1>1 DEF FirstDirty, Dirty, rx_dirty
<1>4. Filled(0)'
  BY <1>1, <1>2, <1>3, RxAssumption, AtInRing DEF Filled
<1>5. Parsed(0, g)' /\ Level(g[0])'
  BY <1>1, <1>2, <1>3, RxAssumption DEF Parsed, Level, Partial
<1>6. PollInv'
  BY <1>1 DEF FrameInv, PollInv
<1> QED
  BY <1>2, <1>4, <1>5, <1>6 DEF FrameInv

LEMMA FrameNext ==
  ASSUME RxCalm, RxInv, FrameInv, [Next]_vars PROVE FrameInv'
<1>1. CASE HwSuspend \/ IrqRxOverflow \/ UNCHANGED vars
  <2>1. UNCHANGED <<cur_rx, dirty_rx, desc, state_saved, state_skb, pc, count, skb, entry,
                    torn, hw_rx, hw_seg>>
    BY <1>1 DEF HwSuspend, IrqRxOverflow, vars, poll, engine
  <2>2. FirstDirty' = FirstDirty /\ Dirty' = Dirty /\ Partial' = Partial
    BY <2>1 DEF FirstDirty, Dirty, Partial
  <2>3. \A n \in Nat : Level(n) => Level(n)'
    BY <2>1, <2>2 DEF Level
  <2>4. PollInv'
    BY <2>1 DEF FrameInv, PollInv
  <2> QED
    BY <2>1, <2>2, <2>3, <2>4, FrameStill
<1>2. ASSUME NEW d \in DescType \ {"own"}, HwFill(d) PROVE FrameInv'
  BY <1>2, FrameFill
<1> QED
  BY <1>1, <1>2, FramePoll, FrameRead, FrameRefill, FrameReopen DEF Next

\* Every frame the stack gets consists of the descriptors of one frame, from its
\* first to its last, whatever the ring size, the budget and the longest frame,
\* as long as shortages of memory are short, no skb fails within a frame, and the
\* queue is not closed between the two halves of one.
THEOREM FramesWhole == ASSUME RxCalm PROVE Spec => []WholeFrames
<1>1. FrameInv => WholeFrames
  BY DEF FrameInv, PollInv, WholeFrames
<1>2. RxInv /\ FrameInv /\ [Next]_vars => FrameInv'
  BY FrameNext
<1> QED
  BY <1>1, <1>2, FrameStart, RxAlways, PTL DEF Spec

-----------------------------------------------------------------------------
(* Types.  What is not obvious is the count: without a failed skb within a *)
(* frame it goes up with frames only, and a poll that begins another one   *)
(* has budget for it.                                                      *)

CountInv == count \in 0 .. Limit /\ (pc = "rx" => count < Limit)

LEMMA DirtyBounds ==
  ASSUME NEW c \in Slots, NEW f \in Slots PROVE rx_dirty(c, f) \in 0 .. N
BY RxAssumption DEF Slots, rx_dirty

\* A frame is finished.
LEMMA CountUp ==
  ASSUME TypeOK, CountInv, pc = "rx", cur_rx' \in Slots, NextFrame(count + 1)
  PROVE  /\ CountInv' /\ pc' \in {"rx", "refill"}
         /\ skb' = "none" /\ entry' \in Slots /\ left' \in 0 .. N
         /\ state_saved' \in BOOLEAN /\ state_skb' \in SkbType \cup {"gone"}
<1>1. Dangle \in SkbType \cup {"gone"}
  BY Zenon DEF Dangle, TypeOK
<1>2. CASE count + 1 < Limit
  <2>1. /\ count' = count + 1 /\ pc' = "rx" /\ skb' = "none" /\ state_skb' = "none"
        /\ state_saved' = FALSE /\ entry' = entry /\ left' = left
    BY <1>2 DEF NextFrame
  <2>2. CountInv'
    BY <1>2, <2>1, RxAssumption DEF CountInv
  <2> QED
    BY <2>1, <2>2 DEF TypeOK, SkbType
<1>3. CASE ~(count + 1 < Limit)
  <2>1. rx_dirty(cur_rx', dirty_rx) \in 0 .. N
    BY DirtyBounds DEF TypeOK
  <2> QED
    BY <1>1, <1>3, <2>1, RxAssumption DEF TypeOK, CountInv, NextFrame, EnterRefill
<1> QED
  BY <1>2, <1>3

LEMMA TypeStart == Init => TypeOK /\ CountInv
<1>1. 0 \in Slots /\ "own" \in DescType /\ "none" \in SkbType /\ 0 \in 0 .. MaxSegs
      /\ 0 \in 0 .. Limit + MaxSegs /\ 0 \in 0 .. N /\ 0 \in 0 .. Limit
  BY RxAssumption DEF Slots, DescType, SkbType
<1> QED
  BY <1>1 DEF Init, TypeOK, CountInv

LEMMA TypeRx ==
  ASSUME "oom_skb" \notin Faults, TypeOK, CountInv, Rx
  PROVE  TypeOK' /\ CountInv'
<1>1. GET_ENTRY(cur_rx) \in Slots /\ pc = "rx"
  BY EntryInRing DEF TypeOK, Rx, RxDiscard, RxSegment, RxDrain, RxBreak
<1>2. CASE RxDiscard
  <2>1. /\ cur_rx' = GET_ENTRY(cur_rx) /\ page' = [page EXCEPT ![cur_rx] = FALSE]
        /\ NextFrame(count + 1) /\ UNCHANGED <<dirty_rx, desc, torn, hw_rx, hw_seg, hw_suspended>>
    BY <1>2 DEF RxDiscard, engine
  <2>2. page' \in [Slots -> BOOLEAN]
    BY <2>1 DEF TypeOK
  <2> QED
    BY <1>1, <2>1, <2>2, CountUp, RxAssumption DEF TypeOK, CountInv, SkbType
<1>3. CASE RxSegment
  <2>1. /\ cur_rx' = GET_ENTRY(cur_rx) /\ page' = [page EXCEPT ![cur_rx] = FALSE]
        /\ UNCHANGED <<dirty_rx, desc, hw_rx, hw_seg, hw_suspended>>
    BY <1>3 DEF RxSegment, engine
  <2>2. page' \in [Slots -> BOOLEAN]
    BY <2>1 DEF TypeOK
  <2>3. CASE IsLast(desc[cur_rx])
    <3>1. torn' \in BOOLEAN /\ NextFrame(count + 1)
      BY <1>3, <2>3 DEF RxSegment, TypeOK
    <3> QED
      BY <1>1, <2>1, <2>2, <3>1, CountUp, RxAssumption DEF TypeOK, CountInv, SkbType
  <2>4. CASE ~IsLast(desc[cur_rx])
    <3>1. /\ skb' \in SkbType
          /\ UNCHANGED <<torn, pc, count, entry, left, state_saved, state_skb>>
      BY <1>3, <2>4 DEF RxSegment, Extend, SkbType
    <3> QED
      BY <1>1, <2>1, <2>2, <3>1 DEF TypeOK, CountInv
  <2> QED
    BY <2>3, <2>4
<1>4. CASE RxDrain
  <2>1. /\ cur_rx' = GET_ENTRY(cur_rx) /\ NextFrame(count + 1)
        /\ UNCHANGED <<dirty_rx, desc, page, torn, hw_rx, hw_seg, hw_suspended>>
    BY <1>4 DEF RxDrain, IsLast, engine
  <2> QED
    BY <1>1, <2>1, CountUp, RxAssumption DEF TypeOK, CountInv, SkbType
<1>5. CASE RxBreak
  <2>1. /\ UNCHANGED <<cur_rx, dirty_rx, desc, page, count, torn, hw_rx, hw_seg, hw_suspended>>
        /\ state_saved' \in BOOLEAN /\ state_skb' \in SkbType \cup {"gone"}
    BY <1>5 DEF RxBreak, engine, TypeOK
  <2>2. pc' = "refill" /\ skb' = "none" /\ entry' = dirty_rx /\ left' = rx_dirty(cur_rx', dirty_rx)
    BY <1>5 DEF RxBreak, EnterRefill
  <2>3. left' \in 0 .. N
    BY <2>1, <2>2, DirtyBounds DEF TypeOK
  <2> QED
    BY <2>1, <2>2, <2>3 DEF TypeOK, CountInv, SkbType
<1> QED
  BY <1>2, <1>3, <1>4, <1>5 DEF Rx

LEMMA TypeRefill ==
  ASSUME TypeOK, CountInv, Refill PROVE TypeOK' /\ CountInv'
<1>1. CASE RefillOne
  <2>1. /\ page' = [page EXCEPT ![entry] = TRUE] /\ desc' = [desc EXCEPT ![entry] = "own"]
        /\ entry' = GET_ENTRY(entry) /\ left' = left - 1 /\ left > 0
        /\ UNCHANGED <<cur_rx, dirty_rx, state_saved, state_skb, pc, count, skb, torn,
                       hw_rx, hw_seg, hw_suspended>>
    BY <1>1 DEF RefillOne, engine
  <2>2. page' \in [Slots -> BOOLEAN] /\ desc' \in [Slots -> DescType]
    BY <2>1 DEF TypeOK, DescType
  <2>3. left' \in 0 .. N /\ entry' \in Slots
    BY <2>1, EntryInRing, RxAssumption DEF TypeOK
  <2> QED
    BY <2>1, <2>2, <2>3 DEF TypeOK, CountInv
<1>2. CASE RefillEnd
  <2>1. 0 \in Slots /\ 0 \in 0 .. Limit + MaxSegs /\ 0 \in 0 .. N /\ 0 \in 0 .. Limit
    BY RxAssumption DEF Slots
  <2> QED
    BY <1>2, <2>1 DEF RefillEnd, TypeOK, CountInv
<1> QED
  BY <1>1, <1>2 DEF Refill

LEMMA TypeFill ==
  ASSUME TypeOK, CountInv, NEW d \in DescType \ {"own"}, HwFill(d)
  PROVE  TypeOK' /\ CountInv'
<1>1. /\ desc' = [desc EXCEPT ![hw_rx] = d] /\ hw_rx' = GET_ENTRY(hw_rx)
      /\ UNCHANGED <<cur_rx, dirty_rx, page, state_saved, state_skb, pc, count, skb, entry,
                     left, torn, hw_suspended>>
  BY DEF HwFill, poll
<1>2. desc' \in [Slots -> DescType] /\ hw_rx' \in Slots
  BY <1>1, EntryInRing DEF TypeOK
<1>3. hw_seg' = 0 \/ (MaxSegs > 1 /\ hw_seg' = 1) \/ (hw_seg + 1 < MaxSegs /\ hw_seg' = hw_seg + 1)
  <2>1. d \in {"one", "first", "mid", "last", "bad", "ctx"}
    BY DEF DescType, Good
  <2> QED
    BY <2>1 DEF HwFill
<1>4. hw_seg' \in 0 .. MaxSegs
  BY <1>3, RxAssumption DEF TypeOK
<1> QED
  BY <1>1, <1>2, <1>4 DEF TypeOK, CountInv

\* The cursors, the descriptors and the locals of the poll hold what they may, and
\* a poll never counts beyond its budget; a skb that cannot be had within a
\* frame is left out, as each descriptor drained then counts as a frame.
THEOREM RxTyped ==
  ASSUME "oom_skb" \notin Faults
  PROVE  Spec => [](TypeOK /\ count <= Limit)
<1>1. TypeOK /\ CountInv /\ [Next]_vars => TypeOK' /\ CountInv'
  <2> SUFFICES ASSUME TypeOK, CountInv, [Next]_vars PROVE TypeOK' /\ CountInv'
    OBVIOUS
  <2>1. CASE UNCHANGED vars
    BY <2>1 DEF vars, poll, engine, TypeOK, CountInv
  <2>2. CASE PollStart
    BY <2>2, RxAssumption DEF PollStart, engine, TypeOK, CountInv, SkbType
  <2>3. CASE HwSuspend \/ IrqRxOverflow
    BY <2>3 DEF HwSuspend, IrqRxOverflow, poll, TypeOK, CountInv
  <2>4. CASE Reopen
    <3>1. 0 \in Slots /\ "own" \in DescType /\ 0 \in 0 .. MaxSegs
      BY RxAssumption DEF Slots, DescType
    <3> QED
      BY <2>4, <3>1 DEF Reopen, FreshRing, poll, TypeOK, CountInv
  <2>5. CASE \E d \in DescType \ {"own"} : HwFill(d)
    BY <2>5, TypeFill
  <2> QED
    BY <2>1, <2>2, <2>3, <2>4, <2>5, TypeRx, TypeRefill DEF Next, Rx, Refill
<1>2. TypeOK /\ CountInv => TypeOK /\ count <= Limit
  BY RxAssumption DEF CountInv
<1> QED
  BY <1>1, <1>2, TypeStart, PTL DEF Spec
=============================================================================
