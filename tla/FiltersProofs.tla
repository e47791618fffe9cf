--------------------------- MODULE FiltersProofs ---------------------------
(***************************************************************************)
(* The filters, for every number of slots, addresses and ids: the software *)
(* table of MAC addresses stays in step with the stack and the registers,  *)
(* receiving all ends, every wanted address is accepted, and the table of  *)
(* VLAN ids counts the users of each.                                      *)
(***************************************************************************)
EXTENDS Filters, FiniteSetTheorems, WellFoundedInduction, TLAPS

\* The least of some slots is one of them: the intervals up to each of them are
\* finite sets, of which one is minimal.
LEMMA LeastIn ==
  ASSUME NEW n \in Nat, NEW S \in SUBSET (0 .. n - 1), S # {}
  PROVE  Least(S) \in S /\ \A j \in S : Least(S) <= j
<1> DEFINE T == {0 .. i : i \in S}
<1>1. T \subseteq SUBSET (0 .. n - 1) /\ T # {}
  <2>1. \A i \in S : 0 .. i \subseteq 0 .. n - 1
    OBVIOUS
  <2> QED
    BY <2>1, Zenon
<1>2. IsFiniteSet(0 .. n - 1)
  BY FS_Interval
<1>3. IsWellFoundedOn(StrictSubsetOrdering(0 .. n - 1), SUBSET (0 .. n - 1))
  BY <1>2, FS_StrictSubsetOrderingWellFounded, FS_FiniteSubsetsOfFinite
<1> HIDE DEF T
<1>4. PICK x \in T : \A y \in T : <<y, x>> \notin StrictSubsetOrdering(0 .. n - 1)
  BY <1>1, <1>3, WFMin, Zenon
<1>5. PICK i \in S : x = 0 .. i
  BY DEF T
<1>6. \A j \in S : i <= j
  <2> SUFFICES ASSUME NEW j \in S, j < i PROVE FALSE
    OBVIOUS
  <2>1. 0 .. j \in T
    BY DEF T
  <2>2. 0 .. j \subseteq 0 .. i /\ 0 .. j # 0 .. i
    OBVIOUS
  <2> QED
    BY <1>1, <1>4, <1>5, <2>1, <2>2 DEF StrictSubsetOrdering
<1> QED
  BY <1>6 DEF Least

-----------------------------------------------------------------------------
(* The table of MAC addresses.                                             *)

AddrInv ==
  /\ mac_table \in [MacSlots -> Macs \cup {NONE}]
  /\ synced \subseteq Macs
  /\ TableInStep

\* Neither the table nor the registers nor the stack's counts are touched.
LEMMA Untouched ==
  ASSUME AddrInv, UNCHANGED <<synced, mac_table, mac_reg>> PROVE AddrInv'
BY DEF AddrInv, TableInStep

LEMMA AddrStart == Init => AddrInv
BY FilterAssumption DEF Init, AddrInv, TableInStep, MacSlots

\* An address leaves the one slot it is in.
LEMMA UnsyncStep ==
  ASSUME AddrInv, NEW m \in Macs, Unsync(m) PROVE AddrInv'
<1>1. PICK i \in MacSlots :
        /\ mac_table[i] = m
        /\ mac_table' = [mac_table EXCEPT ![i] = NONE]
        /\ mac_reg' = [mac_reg EXCEPT ![i] = NONE]
        /\ synced' = synced \ {m}
  BY DEF Unsync, SlotsOf
<1>2. mac_table' \in [MacSlots -> Macs \cup {NONE}] /\ synced' \subseteq Macs
  BY <1>1 DEF AddrInv
<1>3. mac_reg' = mac_table'
  BY <1>1 DEF AddrInv, TableInStep
<1>4. \A j \in MacSlots : mac_table'[j] = IF j = i THEN NONE ELSE mac_table[j]
  BY <1>1 DEF AddrInv
<1>5. \A j \in MacSlots : j # i => mac_table[j] # m
  BY <1>1, FilterAssumption DEF AddrInv, TableInStep
<1>6. synced' = {mac_table'[j] : j \in MacSlots} \ {NONE}
  BY <1>1, <1>4, <1>5 DEF AddrInv, TableInStep
<1>7. \A j, k \in MacSlots : mac_table'[j] = mac_table'[k] /\ j # k => mac_table'[j] = NONE
  BY <1>4 DEF AddrInv, TableInStep
<1> QED
  BY <1>2, <1>3, <1>6, <1>7 DEF AddrInv, TableInStep

\* A new address takes a vacant slot.
LEMMA SyncAddStep ==
  ASSUME AddrInv, NEW m \in Macs, SyncAdd(m) PROVE AddrInv'
<1> DEFINE i == Least(Vacant)
<1>1. i \in Vacant
  BY LeastIn, FilterAssumption DEF SyncAdd, Vacant, SlotsOf, MacSlots
<1>2. i \in MacSlots /\ mac_table[i] = NONE
  BY <1>1 DEF Vacant, SlotsOf
<1> HIDE DEF i
<1>3. /\ mac_table' = [mac_table EXCEPT ![i] = m]
      /\ mac_reg' = [mac_reg EXCEPT ![i] = m]
      /\ synced' = synced \cup {m}
      /\ \A j \in MacSlots : mac_table[j] # m
  BY DEF SyncAdd, SlotsOf, i
<1>4. mac_table' \in [MacSlots -> Macs \cup {NONE}] /\ synced' \subseteq Macs
  BY <1>2, <1>3 DEF AddrInv
<1>5. mac_reg' = mac_table'
  BY <1>3 DEF AddrInv, TableInStep
<1>6. \A j \in MacSlots : mac_table'[j] = IF j = i THEN m ELSE mac_table[j]
  BY <1>3 DEF AddrInv
<1>7. synced' = {mac_table'[j] : j \in MacSlots} \ {NONE}
  BY <1>2, <1>3, <1>6, FilterAssumption DEF AddrInv, TableInStep
<1>8. \A j, k \in MacSlots : mac_table'[j] = mac_table'[k] /\ j # k => mac_table'[j] = NONE
  BY <1>3, <1>6 DEF AddrInv, TableInStep
<1> QED
  BY <1>4, <1>5, <1>7, <1>8 DEF AddrInv, TableInStep

\* Opening clears the registers, and finds no address installed.
LEMMA OpenStep ==
  ASSUME AddrInv, Open, "reopen" \notin Faults PROVE AddrInv'
<1>1. /\ mac_table' = mac_table /\ synced' = synced /\ synced = {}
      /\ mac_reg' = [i \in MacSlots |-> NONE]
  BY DEF Open
<1>2. \A i \in MacSlots : mac_table[i] = NONE
  BY <1>1 DEF AddrInv, TableInStep
<1>3. mac_reg' = mac_table
  BY <1>1, <1>2 DEF AddrInv
<1> QED
  BY <1>1, <1>3 DEF AddrInv, TableInStep

LEMMA AddrNext ==
  ASSUME AddrInv, [Next]_vars, "reopen" \notin Faults PROVE AddrInv'
<1>1. CASE UNCHANGED vars
  BY <1>1, Untouched DEF vars, mac
<1>2. ASSUME NEW want, NEW fl, ChangeRxMode(want, fl) PROVE AddrInv'
  BY <1>2, Untouched DEF ChangeRxMode
<1>3. ASSUME NEW m \in Macs, SyncFull(m) PROVE AddrInv'
  BY <1>3, Untouched DEF SyncFull
<1>4. CASE SyncDone
  BY <1>4, Untouched DEF SyncDone
<1>5. ASSUME NEW p, NEW v, VlanAddVid(p, v) \/ VlanKillVid(p, v) PROVE AddrInv'
  BY <1>5, Untouched DEF VlanAddVid, VlanKillVid, mac
<1>6. CASE Close
  BY <1>6, Untouched DEF Close, mac
<1> QED
  BY <1>1, <1>2, <1>3, <1>4, <1>5, <1>6, UnsyncStep, SyncAddStep, OpenStep DEF Next

\* Whatever addresses come and go, and however often an update is cut off for
\* want of a slot, the addresses the stack takes for installed are those in the
\* table, each in one slot, and the registers hold the table; so that
\* tc956x_del_sw_mac_table always finds the address it is to delete.
THEOREM TablesStay ==
  ASSUME "reopen" \notin Faults
  PROVE  Spec => []TableInStep
<1>1. AddrInv /\ [Next]_vars => AddrInv'
  BY AddrNext
<1>2. AddrInv => TableInStep
  BY DEF AddrInv
<1> QED
  BY <1>1, <1>2, AddrStart, PTL DEF Spec

-----------------------------------------------------------------------------
(* The receive-all fallback.                                               *)

\* What a step for a VLAN id leaves alone.
LEMMA VlanApart ==
  ASSUME NEW p, NEW v, VlanAddVid(p, v) \/ VlanKillVid(p, v)
  PROVE  /\ UNCHANGED <<up, flags, wanted, synced, pc>>
         /\ "RA" \in filter' <=> "RA" \in filter
         /\ "PM" \in filter' <=> "PM" \in filter
<1>1. UNCHANGED <<up, flags, mac>> /\ (filter' = filter \/ filter' = filter \cup {"VTFE"})
  BY Zenon DEF VlanAddVid, VlanKillVid
<1> QED
  BY <1>1 DEF mac

LEMMA FallbackStep ==
  ASSUME up /\ "RA" \in filter => flags = "promisc" \/ ~(wanted \subseteq synced),
         [Next]_vars
  PROVE  (up /\ "RA" \in filter => flags = "promisc" \/ ~(wanted \subseteq synced))'
<1>1. CASE UNCHANGED vars
  BY <1>1 DEF vars, mac
<1>2. ASSUME NEW want, NEW fl, ChangeRxMode(want, fl)
      PROVE  (up /\ "RA" \in filter => flags = "promisc")'
  BY <1>2 DEF ChangeRxMode, SetFilter, Base
<1>3. ASSUME NEW m \in Macs, Unsync(m)
      PROVE  (up /\ "RA" \in filter => flags = "promisc" \/ ~(wanted \subseteq synced))'
  BY <1>3 DEF Unsync, Stale
<1>4. ASSUME NEW m \in Macs, SyncFull(m) PROVE ~(wanted' \subseteq synced')
  BY <1>4 DEF SyncFull, New
<1>5. ASSUME NEW m \in Macs, SyncAdd(m) PROVE "RA" \notin filter'
  BY <1>5 DEF SyncAdd, Base
<1>6. CASE SyncDone
  BY <1>6 DEF SyncDone
<1>7. ASSUME NEW p, NEW v, VlanAddVid(p, v) \/ VlanKillVid(p, v)
      PROVE  (up /\ "RA" \in filter => flags = "promisc" \/ ~(wanted \subseteq synced))'
  BY <1>7, VlanApart
<1>8. CASE Open
  BY <1>8 DEF Open, SetFilter, Base
<1>9. CASE Close
  BY <1>9 DEF Close
<1> QED
  BY <1>1, <1>2, <1>3, <1>4, <1>5, <1>6, <1>7, <1>8, <1>9 DEF Next

\* Receiving all is given up again as soon as every address has its slot,
\* whatever comes and goes and with every fault.
THEOREM FallbackGivenUp == Spec => []FallbackEnds
<1> DEFINE Inv == up /\ "RA" \in filter => flags = "promisc" \/ ~(wanted \subseteq synced)
<1>1. Init => Inv
  BY DEF Init
<1>2. Inv /\ [Next]_vars => Inv'
  BY FallbackStep
<1>3. Inv => FallbackEnds
  BY DEF FallbackEnds
<1> QED
  BY <1>1, <1>2, <1>3, PTL DEF Spec

-----------------------------------------------------------------------------
(* Every wanted address is accepted.                                       *)

\* A full table leaves no room for an address that is wanted and not in it.
LEMMA RoomLeft ==
  ASSUME AddrInv, wanted \subseteq Macs, Cardinality(wanted \cup synced) <= NMac,
         NEW m \in wanted, m \notin synced
  PROVE  Vacant # {}
<1> SUFFICES ASSUME Vacant = {} PROVE FALSE
  OBVIOUS
<1> DEFINE All == wanted \cup synced  Rest == All \ {m}
<1>1. IsFiniteSet(All) /\ m \in All
  BY FS_Subset, FilterAssumption DEF AddrInv
<1>2. IsFiniteSet(Rest) /\ Cardinality(Rest) = Cardinality(All) - 1
  BY <1>1, FS_RemoveElement
<1>3. IsFiniteSet(MacSlots) /\ Cardinality(MacSlots) = NMac
  BY FS_Interval, FilterAssumption DEF MacSlots
<1>4. Cardinality(All) \in Nat
  BY <1>1, FS_CardinalityType
<1>5. Cardinality(Rest) < Cardinality(MacSlots)
  BY <1>2, <1>3, <1>4, FilterAssumption
<1>6. \A i \in MacSlots : mac_table[i] # NONE
  BY DEF Vacant, SlotsOf
<1>7. mac_table \in [MacSlots -> Rest]
  BY <1>6 DEF AddrInv, TableInStep
<1>8. PICK i, j \in MacSlots : i # j /\ mac_table[i] = mac_table[j]
  BY <1>2, <1>3, <1>5, <1>7, FS_PigeonHole, Zenon
<1> QED
  BY <1>6, <1>8 DEF AddrInv, TableInStep

\* A synchronisation that runs is that of an open device with neither flag; the
\* multicast list comes when the unicast list is done.
ModeInv ==
  /\ flags \in {"none", "promisc", "allmulti"} /\ wanted \subseteq Macs
  /\ pc \in {"idle", "uc", "mc"} /\ (pc # "idle" => up /\ flags = "none")
  /\ wanted \cap Uc = {} \/ Cardinality(wanted \cup synced) <= NMac
  /\ flags = "allmulti" \/ pc = "mc" => wanted \cap Uc \subseteq synced
  /\ up /\ pc = "idle" =>
       /\ flags = "promisc" => "RA" \in filter
       /\ flags = "allmulti" => "PM" \in filter
       /\ flags = "none" => "RA" \in filter \/ wanted \subseteq synced

\* The environment keeps within the table, and gives no new unicast address
\* while IFF_ALLMULTI is set.
AddrCalm == Faults \subseteq {"vlan_overflow"}

LEMMA ModeAccepts == AddrInv /\ ModeInv => AddrAccepted
BY DEF AddrInv, ModeInv, TableInStep, AddrAccepted, Macs

\* The bound on addresses survives when there are fewer.
LEMMA Fewer ==
  ASSUME AddrInv, wanted \subseteq Macs, Cardinality(wanted \cup synced) <= NMac,
         NEW T \in SUBSET (wanted \cup synced)
  PROVE  Cardinality(T) <= NMac
<1>1. IsFiniteSet(wanted \cup synced)
  BY FS_Subset, FilterAssumption DEF AddrInv
<1>2. Cardinality(T) <= Cardinality(wanted \cup synced) /\ IsFiniteSet(T)
  BY <1>1, FS_Subset
<1> QED
  BY <1>1, <1>2, FS_CardinalityType, FilterAssumption

\* What set_rx_mode does with the flags.
LEMMA FlagsSet ==
  ASSUME NEW fl \in {"none", "promisc", "allmulti"}, NEW f, SetFilter(fl, f)
  PROVE  /\ fl = "promisc" => pc' = "idle" /\ "RA" \in filter'
         /\ fl = "allmulti" => pc' = "idle" /\ "PM" \in filter'
         /\ fl = "none" => pc' = "uc"
BY DEF SetFilter

LEMMA ModeStart == Init => ModeInv
BY DEF Init, ModeInv

LEMMA ModeChange ==
  ASSUME AddrInv, ModeInv, AddrCalm, NEW want \in SUBSET Macs,
         NEW fl \in {"none", "promisc", "allmulti"}, ChangeRxMode(want, fl)
  PROVE  ModeInv'
<1>1. /\ wanted' = want /\ flags' = fl /\ UNCHANGED <<up, synced>>
      /\ pc = "idle" /\ Calm(want, fl)
  BY DEF ChangeRxMode
<1>2. CASE up
  <2>1. SetFilter(fl, filter)
    BY <1>2 DEF ChangeRxMode
  <2> QED
    BY <1>1, <1>2, <2>1, FlagsSet DEF ModeInv, Calm, AddrCalm
<1>3. CASE ~up
  <2>1. pc' = "idle"
    BY <1>1, <1>3 DEF ChangeRxMode
  <2> QED
    BY <1>1, <1>3, <2>1 DEF ModeInv, Calm, AddrCalm
<1> QED
  BY <1>2, <1>3

LEMMA ModeUnsync ==
  ASSUME AddrInv, ModeInv, NEW m \in Macs, Unsync(m) PROVE ModeInv'
<1>1. /\ pc # "idle" /\ m \notin wanted /\ synced' = synced \ {m}
      /\ UNCHANGED <<up, flags, wanted, pc, filter>>
  BY DEF Unsync, Stale
<1>2. wanted' \cup synced' \subseteq wanted \cup synced
  BY <1>1
<1>3. wanted' \cap Uc = {} \/ Cardinality(wanted' \cup synced') <= NMac
  BY <1>1, <1>2, Fewer DEF ModeInv
<1> QED
  BY <1>1, <1>3 DEF ModeInv

LEMMA ModeSyncAdd ==
  ASSUME AddrInv, ModeInv, NEW m \in Macs, SyncAdd(m) PROVE ModeInv'
<1>1. /\ pc # "idle" /\ m \in wanted /\ synced' = synced \cup {m}
      /\ UNCHANGED <<up, flags, wanted, pc>>
  BY DEF SyncAdd, New
<1>2. wanted' \cup synced' = wanted \cup synced
  BY <1>1
<1> QED
  BY <1>1, <1>2 DEF ModeInv

\* An address that finds no slot: at the unicast list the bound leaves one, at
\* the multicast list the MAC receives all.
LEMMA ModeSyncFull ==
  ASSUME AddrInv, ModeInv, NEW m \in Macs, SyncFull(m) PROVE ModeInv'
<1>1. /\ pc # "idle" /\ m \in wanted /\ m \notin synced /\ m \in Kind
      /\ Vacant = {} \/ SlotsOf(m) # {}
      /\ filter' = IF SlotsOf(m) = {} THEN Base(filter) \cup {"RA"} ELSE Base(filter)
      /\ UNCHANGED <<up, flags, wanted, synced>> /\ NextKind
  BY DEF SyncFull, New
<1>2. SlotsOf(m) = {}
  BY <1>1, FilterAssumption DEF AddrInv, TableInStep, SlotsOf
<1>3. pc = "mc"
  <2> SUFFICES ASSUME pc = "uc" PROVE FALSE
    BY <1>1 DEF ModeInv
  <2>1. m \in Uc
    BY <1>1 DEF Kind
  <2> QED
    BY <1>1, <1>2, <2>1, RoomLeft DEF ModeInv
<1>4. pc' = "idle" /\ "RA" \in filter'
  BY <1>1, <1>2, <1>3 DEF NextKind
<1> QED
  BY <1>1, <1>3, <1>4 DEF ModeInv

LEMMA ModeSyncDone ==
  ASSUME AddrInv, ModeInv, SyncDone PROVE ModeInv'
<1>1. /\ pc # "idle" /\ Kind \cap wanted \subseteq synced
      /\ pc' = IF pc = "uc" THEN "mc" ELSE "idle"
      /\ UNCHANGED <<up, flags, wanted, synced, filter>>
  BY DEF SyncDone, New, NextKind
<1> QED
  BY <1>1 DEF ModeInv, Kind, Macs

LEMMA ModeOpen ==
  ASSUME ModeInv, AddrCalm, Open PROVE ModeInv'
<1>1. /\ pc = "idle" /\ synced = {} /\ up' = TRUE
      /\ SetFilter(flags, {}) /\ UNCHANGED <<flags, wanted, synced>>
  BY DEF Open, AddrCalm
<1> QED
  BY <1>1, FlagsSet DEF ModeInv

LEMMA ModeNext ==
  ASSUME AddrInv, ModeInv, AddrCalm, [Next]_vars PROVE ModeInv'
<1>1. CASE UNCHANGED vars
  BY <1>1 DEF ModeInv, vars, mac
<1>2. ASSUME NEW p, NEW v, VlanAddVid(p, v) \/ VlanKillVid(p, v) PROVE ModeInv'
  BY <1>2, VlanApart DEF ModeInv
<1>3. CASE Close
  BY <1>3 DEF ModeInv, Close, mac
<1> QED
  BY <1>1, <1>2, <1>3, ModeChange, ModeUnsync, ModeSyncAdd, ModeSyncFull, ModeSyncDone,
     ModeOpen DEF Next

\* Whenever set_rx_mode has returned, every address the stack wants is accepted,
\* for any lists and tables, provided that unicast addresses find room and come
\* outside IFF_ALLMULTI, and that opening finds none installed.
THEOREM AddressesAccepted == ASSUME AddrCalm PROVE Spec => []AddrAccepted
<1>1. AddrInv /\ ModeInv /\ [Next]_vars => AddrInv' /\ ModeInv'
  BY AddrNext, ModeNext DEF AddrCalm
<1> QED
  BY <1>1, AddrStart, ModeStart, ModeAccepts, PTL DEF Spec

-----------------------------------------------------------------------------
(* VLAN ids.                                                               *)

\* The users of an id.
UsersOf(v) == {u \in vlan_users : u[2] = v}

\* The last slot stays vacant, as it is what a new id is let in by.
VlanInv ==
  /\ vlan_users \subseteq Protos \X Vids
  /\ vlan_table \in [VlanSlots -> [vid : Vids, glo_counter : Nat]]
  /\ LastVacant
  /\ \A i \in VlanSlots : vlan_table[i].glo_counter > 0 => vlan_table[i].vid # Zero
  /\ VlanCounted

LEMMA UsersFinite ==
  ASSUME vlan_users \subseteq Protos \X Vids, NEW v
  PROVE  IsFiniteSet(UsersOf(v)) /\ Cardinality(UsersOf(v)) \in Nat
<1>1. IsFiniteSet({<<"8021Q", v>>})
  BY FS_Singleton
<1>2. IsFiniteSet({<<"8021Q", v>>} \cup {<<"8021AD", v>>})
  BY <1>1, FS_AddElement
<1>3. UsersOf(v) \subseteq {<<"8021Q", v>>} \cup {<<"8021AD", v>>}
  BY DEF UsersOf, Protos
<1> QED
  BY <1>2, <1>3, FS_Subset, FS_CardinalityType

\* An occupied slot has users, so that its id is one the stack has added.
LEMMA OccupiedUsed ==
  ASSUME VlanInv, NEW i \in VlanSlots, vlan_table[i].glo_counter > 0
  PROVE  vlan_table[i].vid \in UserVids
<1> DEFINE v == vlan_table[i].vid
<1>1. Cardinality(UsersOf(v)) > 0 /\ v # Zero
  BY DEF VlanInv, VlanCounted, UsersOf
<1>2. UsersOf(v) # {}
  BY <1>1, FS_EmptySet
<1> QED
  BY <1>1, <1>2 DEF UsersOf, UserVids

\* Fewer ids than slots leave a slot before the last for a new one.
LEMMA SlotLeft ==
  ASSUME VlanInv, NEW v \in Vids, v \notin UserVids,
         Cardinality(UserVids \cup {v}) < NVlan
  PROVE  \E i \in 0 .. NVlan - 2 : vlan_table[i].glo_counter = 0
<1> SUFFICES ASSUME \A i \in 0 .. NVlan - 2 : vlan_table[i].glo_counter # 0
             PROVE  FALSE
  OBVIOUS
<1> DEFINE f == [i \in 0 .. NVlan - 2 |-> vlan_table[i].vid]
<1>1. \A i \in 0 .. NVlan - 2 : i \in VlanSlots /\ vlan_table[i].glo_counter > 0
  BY FilterAssumption DEF VlanInv, VlanSlots
<1>2. f \in [0 .. NVlan - 2 -> UserVids]
  BY <1>1, OccupiedUsed
<1>3. UserVids \subseteq Vids
  BY DEF VlanInv, UserVids
<1>4. IsFiniteSet(Vids)
  BY FS_SUBSET, FilterAssumption DEF Vids
<1>5. IsFiniteSet(UserVids) /\ Cardinality(UserVids) \in Nat
  BY <1>3, <1>4, FS_Subset, FS_CardinalityType
<1>6. Cardinality(UserVids \cup {v}) = Cardinality(UserVids) + 1
  BY <1>5, FS_AddElement
<1>7. /\ IsFiniteSet(0 .. NVlan - 2)
      /\ Cardinality(0 .. NVlan - 2) = NVlan - 1
  <2>1. NVlan - 2 \in Int /\ (0 > NVlan - 2 => NVlan - 1 = 0)
    BY FilterAssumption
  <2>2. /\ IsFiniteSet(0 .. NVlan - 2)
        /\ Cardinality(0 .. NVlan - 2) = IF 0 > NVlan - 2 THEN 0 ELSE NVlan - 2 - 0 + 1
    BY <2>1, FS_Interval
  <2> QED
    BY <2>1, <2>2, FilterAssumption
<1>8. Cardinality(UserVids) < Cardinality(0 .. NVlan - 2)
  BY <1>5, <1>6, <1>7, FilterAssumption
<1> HIDE DEF f
<1>9. PICK i, j \in 0 .. NVlan - 2 : i # j /\ f[i] = f[j]
  BY <1>2, <1>5, <1>7, <1>8, FS_PigeonHole, Zenon
<1> QED
  BY <1>1, <1>9 DEF f, VlanInv, VlanCounted, Holds

LEMMA VlanStart == Init => VlanInv
<1> SUFFICES ASSUME Init PROVE VlanInv
  OBVIOUS
<1>1. /\ vlan_users = {} /\ Zero \in Vids /\ NVlan - 1 \in VlanSlots
      /\ vlan_table = [i \in VlanSlots |-> [vid |-> Zero, glo_counter |-> 0]]
  BY FilterAssumption DEF Init, Zero, Vids, VlanSlots
<1>2. UserVids = {}
  BY <1>1 DEF UserVids
<1> QED
  BY <1>1, <1>2 DEF VlanInv, VlanCounted, LastVacant

\* A step that touches neither the users nor the table.
LEMMA VlanUntouched ==
  ASSUME VlanInv, UNCHANGED <<vlan_users, vlan_table>> PROVE VlanInv'
BY DEF VlanInv, VlanCounted, LastVacant, Holds, UserVids

\* The table follows the users: it is enough that each occupied slot counts the
\* users of its id, no id has two slots, and each id of a user has one.
LEMMA VlanKept ==
  ASSUME vlan_users' \subseteq Protos \X Vids,
         vlan_table' \in [VlanSlots -> [vid : Vids, glo_counter : Nat]],
         LastVacant',
         \A i \in VlanSlots : vlan_table'[i].glo_counter > 0 =>
           /\ vlan_table'[i].vid # Zero
           /\ vlan_table'[i].glo_counter = Cardinality(UsersOf(vlan_table[i].vid))'
           /\ \A j \in VlanSlots \ {i} : ~Holds(j, vlan_table[i].vid)',
         \A v \in UserVids' : \E i \in VlanSlots : Holds(i, v)'
  PROVE  VlanInv'
BY DEF VlanInv, VlanCounted, UsersOf

\* A user comes or goes: the other ids keep theirs.
LEMMA UserComes ==
  ASSUME vlan_users \subseteq Protos \X Vids, NEW p \in Protos, NEW v \in Vids,
         <<p, v>> \notin vlan_users, vlan_users' = vlan_users \cup {<<p, v>>}
  PROVE  /\ \A w : w # v => UsersOf(w)' = UsersOf(w)
         /\ Cardinality(UsersOf(v)') = Cardinality(UsersOf(v)) + 1
         /\ UserVids' = UserVids \cup ({v} \ {Zero})
         /\ vlan_users' \subseteq Protos \X Vids
<1>1. UsersOf(v)' = UsersOf(v) \cup {<<p, v>>} /\ <<p, v>> \notin UsersOf(v)
  BY DEF UsersOf
<1>2. Cardinality(UsersOf(v)') = Cardinality(UsersOf(v)) + 1
  BY <1>1, UsersFinite, FS_AddElement
<1> QED
  BY <1>2 DEF UsersOf, UserVids

LEMMA UserGoes ==
  ASSUME vlan_users \subseteq Protos \X Vids, NEW p \in Protos, NEW v \in Vids,
         <<p, v>> \in vlan_users, vlan_users' = vlan_users \ {<<p, v>>}
  PROVE  /\ \A w : w # v => UsersOf(w)' = UsersOf(w)
         /\ Cardinality(UsersOf(v)') = Cardinality(UsersOf(v)) - 1
         /\ UserVids' \subseteq UserVids
         /\ v \in UserVids' => Cardinality(UsersOf(v)') > 0
         /\ vlan_users' \subseteq Protos \X Vids
<1>1. UsersOf(v)' = UsersOf(v) \ {<<p, v>>} /\ <<p, v>> \in UsersOf(v)
  BY DEF UsersOf
<1>2. Cardinality(UsersOf(v)') = Cardinality(UsersOf(v)) - 1
  BY <1>1, UsersFinite, FS_RemoveElement
<1>3. IsFiniteSet(UsersOf(v)') /\ Cardinality(UsersOf(v)') \in Nat
  BY <1>1, UsersFinite, FS_RemoveElement, FS_CardinalityType
<1>4. ASSUME v \in UserVids' PROVE Cardinality(UsersOf(v)') > 0
  <2>1. UsersOf(v)' # {}
    BY <1>4 DEF UsersOf, UserVids
  <2> QED
    BY <1>3, <2>1, FS_EmptySet
<1> QED
  BY <1>2, <1>4 DEF UsersOf, UserVids

LEMMA SlotOccupied ==
  ASSUME VlanInv, NEW i \in VlanSlots, vlan_table[i].glo_counter > 0
  PROVE  /\ vlan_table[i].vid # Zero /\ vlan_table[i].vid \in Vids
         /\ vlan_table[i].glo_counter = Cardinality(UsersOf(vlan_table[i].vid))
         /\ \A j \in VlanSlots \ {i} : ~Holds(j, vlan_table[i].vid)
BY DEF VlanInv, VlanCounted, UsersOf

\* tc956xmac_vlan_rx_add_vid: id 0 gets no entry, an id that is there is counted
\* once more, another gets the least vacant slot.
LEMMA VlanAddStep ==
  ASSUME VlanInv, "vlan_overflow" \notin Faults,
         NEW p \in Protos, NEW v \in Vids, VlanAddVid(p, v)
  PROVE  VlanInv'
<1>1. /\ <<p, v>> \notin vlan_users /\ vlan_users' = vlan_users \cup {<<p, v>>}
      /\ Cardinality(UserVids \cup ({v} \ {Zero})) < NVlan
  BY DEF VlanAddVid
<1>2. /\ \A w : w # v => UsersOf(w)' = UsersOf(w)
      /\ Cardinality(UsersOf(v)') = Cardinality(UsersOf(v)) + 1
      /\ UserVids' = UserVids \cup ({v} \ {Zero})
      /\ vlan_users' \subseteq Protos \X Vids
  BY <1>1, UserComes DEF VlanInv
<1>3. /\ vlan_table \in [VlanSlots -> [vid : Vids, glo_counter : Nat]] /\ LastVacant
      /\ NVlan - 1 \in VlanSlots
      /\ \A w \in UserVids : \E i \in VlanSlots : Holds(i, w)
  BY FilterAssumption DEF VlanInv, VlanCounted, VlanSlots
<1>4. CASE v = Zero
  <2>1. ~ \E i \in VlanSlots : Holds(i, v)
    BY <1>4 DEF VlanInv, Holds
  <2>2. vlan_table' = vlan_table
    BY <1>4, <2>1, Zenon DEF VlanAddVid
  <2>3. ASSUME NEW i \in VlanSlots, vlan_table'[i].glo_counter > 0
        PROVE  /\ vlan_table'[i].vid # Zero
               /\ vlan_table'[i].glo_counter = Cardinality(UsersOf(vlan_table[i].vid))'
               /\ \A j \in VlanSlots \ {i} : ~Holds(j, vlan_table[i].vid)'
    BY <1>2, <1>4, <2>2, <2>3, SlotOccupied DEF Holds
  <2>4. UserVids' = UserVids
    BY <1>2, <1>4
  <2> QED
    BY <1>2, <1>3, <2>2, <2>3, <2>4, VlanKept DEF LastVacant, Holds
<1>5. CASE \E i \in VlanSlots : Holds(i, v)
  <2>1. v # Zero
    BY <1>5 DEF VlanInv, Holds
  <2>2. vlan_table' = [i \in VlanSlots |->
          IF Holds(i, v) THEN [vlan_table[i] EXCEPT !.glo_counter = @ + 1] ELSE vlan_table[i]]
    <3>1. VlanAgain(v)
      BY <1>5, <2>1, Zenon DEF VlanAddVid
    <3> QED
      BY <3>1 DEF VlanAgain
  <2>3. vlan_table' \in [VlanSlots -> [vid : Vids, glo_counter : Nat]]
    BY <1>3, <2>2
  <2>4. \A i \in VlanSlots :
          /\ vlan_table'[i].vid = vlan_table[i].vid
          /\ vlan_table'[i].glo_counter =
               IF Holds(i, v) THEN vlan_table[i].glo_counter + 1 ELSE vlan_table[i].glo_counter
    BY <1>3, <2>2
  <2>5. \A i \in VlanSlots : /\ vlan_table'[i].glo_counter > 0 <=> vlan_table[i].glo_counter > 0
                             /\ vlan_table[i].glo_counter \in Nat
    BY <1>3, <2>4 DEF Holds
  <2>6. ASSUME NEW i \in VlanSlots, vlan_table'[i].glo_counter > 0
        PROVE  /\ vlan_table'[i].vid # Zero
               /\ vlan_table'[i].glo_counter = Cardinality(UsersOf(vlan_table[i].vid))'
               /\ \A j \in VlanSlots \ {i} : ~Holds(j, vlan_table[i].vid)'
    <3>1. vlan_table[i].glo_counter > 0
      BY <2>5, <2>6
    <3>2. CASE vlan_table[i].vid = v
      BY <1>2, <2>4, <2>5, <3>1, <3>2, SlotOccupied DEF Holds
    <3>3. CASE vlan_table[i].vid # v
      BY <1>2, <2>4, <2>5, <3>1, <3>3, SlotOccupied DEF Holds
    <3> QED
      BY <3>2, <3>3
  <2>7. \A w \in UserVids' : \E i \in VlanSlots : Holds(i, w)'
    BY <1>2, <1>3, <1>5, <2>4, <2>5 DEF Holds
  <2>8. LastVacant'
    BY <1>3, <2>4 DEF LastVacant, Holds
  <2> QED
    BY <1>2, <2>3, <2>6, <2>7, <2>8, VlanKept
<1>6. CASE v # Zero /\ ~ \E i \in VlanSlots : Holds(i, v)
  <2> DEFINE free == {j \in VlanSlots : vlan_table[j].glo_counter = 0}
             i == Least(free)
  <2>1. vlan_table' = [vlan_table EXCEPT ![i] = [vid |-> v, glo_counter |-> 1]]
    <3>1. VlanNew(v)
      BY <1>3, <1>6, Zenon DEF VlanAddVid
    <3> QED
      BY <3>1 DEF VlanNew
  <2>2. v \notin UserVids /\ Cardinality(UsersOf(v)) = 0
    <3>1. v \notin UserVids
      BY <1>3, <1>6
    <3>2. UsersOf(v) = {}
      BY <1>6, <3>1 DEF UsersOf, UserVids
    <3> QED
      BY <3>1, <3>2, FS_EmptySet
  <2>3. i \in VlanSlots /\ vlan_table[i].glo_counter = 0 /\ i # NVlan - 1
    <3>1. PICK k \in 0 .. NVlan - 2 : vlan_table[k].glo_counter = 0
      <4>1. UserVids \cup ({v} \ {Zero}) = UserVids \cup {v}
        BY <1>6
      <4> QED
        BY <1>1, <2>2, <4>1, SlotLeft
    <3>2. k \in free /\ k < NVlan - 1
      BY <3>1, FilterAssumption DEF VlanSlots
    <3>3. free \in SUBSET (0 .. NVlan - 1) /\ NVlan \in Nat
      BY FilterAssumption DEF VlanSlots
    <3> HIDE DEF free
    <3>4. i \in free /\ i <= k
      BY <3>2, <3>3, LeastIn
    <3> USE DEF free
    <3>5. i \in VlanSlots /\ vlan_table[i].glo_counter = 0
      BY <3>4
    <3> HIDE DEF i, free
    <3> QED
      BY <3>1, <3>2, <3>4, <3>5, FilterAssumption DEF VlanSlots
  <2> HIDE DEF free, i
  <2>4. \A j \in VlanSlots :
          vlan_table'[j] = IF j = i THEN [vid |-> v, glo_counter |-> 1] ELSE vlan_table[j]
    BY <1>3, <2>1
  <2>5. /\ vlan_table' \in [VlanSlots -> [vid : Vids, glo_counter : Nat]]
        /\ LastVacant'
    BY <1>3, <2>1, <2>3, <2>4 DEF LastVacant
  <2>6. ASSUME NEW j \in VlanSlots, vlan_table'[j].glo_counter > 0
        PROVE  /\ vlan_table'[j].vid # Zero
               /\ vlan_table'[j].glo_counter = Cardinality(UsersOf(vlan_table[j].vid))'
               /\ \A k \in VlanSlots \ {j} : ~Holds(k, vlan_table[j].vid)'
    <3>1. CASE j = i
      <4>1. vlan_table'[j] = [vid |-> v, glo_counter |-> 1]
        BY <2>4, <3>1
      <4>2. \A k \in VlanSlots \ {i} : vlan_table'[k] = vlan_table[k] /\ ~Holds(k, v)
        BY <1>6, <2>4
      <4> QED
        BY <1>2, <1>6, <2>2, <3>1, <4>1, <4>2 DEF Holds
    <3>2. CASE j # i
      <4>1. vlan_table'[j] = vlan_table[j] /\ vlan_table[j].vid # v
        BY <1>6, <2>4, <2>6, <3>2 DEF Holds
      <4>2. /\ vlan_table[j].vid # Zero
            /\ vlan_table[j].glo_counter = Cardinality(UsersOf(vlan_table[j].vid))
            /\ \A k \in VlanSlots \ {j} : ~Holds(k, vlan_table[j].vid)
        BY <2>6, <4>1, SlotOccupied
      <4>3. \A k \in VlanSlots : Holds(k, vlan_table[j].vid)' => Holds(k, vlan_table[j].vid)
        BY <2>4, <4>1 DEF Holds
      <4> QED
        BY <1>2, <4>1, <4>2, <4>3
    <3> QED
      BY <3>1, <3>2
  <2>7. \A w \in UserVids' : \E j \in VlanSlots : Holds(j, w)'
    <3>1. \A j \in VlanSlots : j = i => Holds(j, v)'
      BY <2>4 DEF Holds
    <3>2. \A j \in VlanSlots : \A w : Holds(j, w) => Holds(j, w)'
      BY <2>3, <2>4 DEF Holds
    <3> QED
      BY <1>2, <1>3, <2>3, <3>1, <3>2
  <2> QED
    BY <1>2, <2>5, <2>6, <2>7, VlanKept
<1> QED
  BY <1>4, <1>5, <1>6

\* tc956xmac_vlan_rx_kill_vid: the one slot of the id loses a user, and with the
\* last of them the id.
LEMMA VlanKillStep ==
  ASSUME VlanInv, NEW p \in Protos, NEW v \in Vids, VlanKillVid(p, v)
  PROVE  VlanInv'
<1>1. <<p, v>> \in vlan_users /\ vlan_users' = vlan_users \ {<<p, v>>}
  BY DEF VlanKillVid
<1>2. /\ \A w : w # v => UsersOf(w)' = UsersOf(w)
      /\ Cardinality(UsersOf(v)') = Cardinality(UsersOf(v)) - 1
      /\ UserVids' \subseteq UserVids
      /\ v \in UserVids' => Cardinality(UsersOf(v)') > 0
      /\ vlan_users' \subseteq Protos \X Vids
  BY <1>1, UserGoes DEF VlanInv
<1>3. /\ vlan_table \in [VlanSlots -> [vid : Vids, glo_counter : Nat]] /\ LastVacant
      /\ NVlan - 1 \in VlanSlots
      /\ \A w \in UserVids : \E i \in VlanSlots : Holds(i, w)
  BY FilterAssumption DEF VlanInv, VlanCounted, VlanSlots
<1>4. CASE ~ \E i \in VlanSlots : Holds(i, v)
  <2>1. v = Zero
    BY <1>1, <1>3, <1>4 DEF UserVids
  <2>2. vlan_table' = vlan_table
    BY <1>4 DEF VlanKillVid
  <2>3. ASSUME NEW i \in VlanSlots, vlan_table'[i].glo_counter > 0
        PROVE  /\ vlan_table'[i].vid # Zero
               /\ vlan_table'[i].glo_counter = Cardinality(UsersOf(vlan_table[i].vid))'
               /\ \A j \in VlanSlots \ {i} : ~Holds(j, vlan_table[i].vid)'
    BY <1>2, <2>1, <2>2, <2>3, SlotOccupied DEF Holds
  <2> QED
    BY <1>2, <1>3, <2>2, <2>3, VlanKept DEF LastVacant, Holds
<1>5. CASE \E i \in VlanSlots : Holds(i, v)
  <2> DEFINE held == {j \in VlanSlots : Holds(j, v)}
             i == Least(held)
  <2>1. vlan_table' = [vlan_table EXCEPT ![i].glo_counter = @ - 1]
    BY <1>5 DEF VlanKillVid
  <2>2. i \in VlanSlots /\ Holds(i, v)
    <3>1. held \in SUBSET (0 .. NVlan - 1) /\ held # {} /\ NVlan \in Nat
      BY <1>5, FilterAssumption DEF VlanSlots
    <3> HIDE DEF held
    <3>2. i \in held
      BY <3>1, LeastIn
    <3> QED
      BY <3>2 DEF held
  <2> HIDE DEF held, i
  <2>3. /\ vlan_table[i].vid = v /\ vlan_table[i].glo_counter \in Nat \ {0} /\ v # Zero
        /\ vlan_table[i].glo_counter = Cardinality(UsersOf(v))
        /\ \A j \in VlanSlots \ {i} : ~Holds(j, v)
    BY <1>3, <2>2, SlotOccupied DEF Holds
  <2>4. \A j \in VlanSlots :
          /\ vlan_table'[j].vid = vlan_table[j].vid
          /\ vlan_table'[j].glo_counter =
               IF j = i THEN vlan_table[j].glo_counter - 1 ELSE vlan_table[j].glo_counter
    BY <1>3, <2>1, <2>2
  <2>5. vlan_table' \in [VlanSlots -> [vid : Vids, glo_counter : Nat]]
    BY <1>3, <2>1, <2>2, <2>3
  <2>6. LastVacant'
    BY <1>3, <2>3, <2>4 DEF LastVacant
  <2>7. ASSUME NEW j \in VlanSlots, vlan_table'[j].glo_counter > 0
        PROVE  /\ vlan_table'[j].vid # Zero
               /\ vlan_table'[j].glo_counter = Cardinality(UsersOf(vlan_table[j].vid))'
               /\ \A k \in VlanSlots \ {j} : ~Holds(k, vlan_table[j].vid)'
    <3>1. CASE j = i
      BY <1>2, <2>3, <2>4, <3>1 DEF Holds
    <3>2. CASE j # i
      <4>1. vlan_table[j].glo_counter > 0 /\ vlan_table[j].vid # v
        BY <2>3, <2>4, <2>7, <3>2 DEF Holds
      <4>2. \A k \in VlanSlots : \A w : w # v => (Holds(k, w)' <=> Holds(k, w))
        BY <2>3, <2>4 DEF Holds
      <4> QED
        BY <1>2, <2>4, <3>2, <4>1, <4>2, SlotOccupied
    <3> QED
      BY <3>1, <3>2
  <2>8. ASSUME NEW w \in UserVids' PROVE \E j \in VlanSlots : Holds(j, w)'
    <3>1. CASE w = v
      BY <1>2, <2>2, <2>3, <2>4, <3>1, <2>8 DEF Holds
    <3>2. CASE w # v
      BY <1>2, <1>3, <2>3, <2>4, <3>2, <2>8 DEF Holds
    <3> QED
      BY <3>1, <3>2
  <2> QED
    BY <1>2, <2>5, <2>6, <2>7, <2>8, VlanKept
<1> QED
  BY <1>4, <1>5

LEMMA VlanNext ==
  ASSUME VlanInv, [Next]_vars, "vlan_overflow" \notin Faults PROVE VlanInv'
<1>1. CASE UNCHANGED vars
  BY <1>1, VlanUntouched DEF vars, vlan
<1>2. ASSUME NEW want, NEW fl, ChangeRxMode(want, fl) PROVE VlanInv'
  BY <1>2, VlanUntouched DEF ChangeRxMode, vlan
<1>3. ASSUME NEW m \in Macs, Unsync(m) \/ SyncFull(m) \/ SyncAdd(m) PROVE VlanInv'
  BY <1>3, VlanUntouched DEF Unsync, SyncFull, SyncAdd, vlan
<1>4. CASE SyncDone \/ Close
  BY <1>4, VlanUntouched DEF SyncDone, Close, vlan
<1>5. CASE Open
  BY <1>5, VlanUntouched DEF Open
<1> QED
  BY <1>1, <1>2, <1>3, <1>4, <1>5, VlanAddStep, VlanKillStep DEF Next

\* Every VLAN id in use has one slot of the table, which counts its users, and no
\* other slot is occupied, as long as fewer ids are in use than there are slots:
\* an id goes with its last user and not before.
THEOREM UsersCounted ==
  ASSUME "vlan_overflow" \notin Faults PROVE Spec => []VlanCounted
<1>1. VlanInv /\ [Next]_vars => VlanInv'
  BY VlanNext
<1>2. VlanInv => VlanCounted
  BY DEF VlanInv
<1> QED
  BY <1>1, <1>2, VlanStart, PTL DEF Spec

-----------------------------------------------------------------------------
(* Types, with every fault.  A slot never counts more users than its id    *)
(* has, also when ids that found no slot are removed; so it never counts   *)
(* more than there are protocols.                                          *)

\* The registers and lists.
RegTypes ==
  /\ up \in BOOLEAN /\ flags \in {"none", "promisc", "allmulti"}
  /\ wanted \subseteq Macs /\ synced \subseteq Macs /\ pc \in {"idle", "uc", "mc"}
  /\ mac_table \in [MacSlots -> Macs \cup {NONE}]
  /\ mac_reg \in [MacSlots -> Macs \cup {NONE}]
  /\ filter \subseteq {"RA", "PM", "HPF", "VTFE"}
  /\ vlan_reg \in [VlanSlots -> VlanReg] /\ vlan_data \in VlanReg

CountInv ==
  /\ vlan_users \subseteq Protos \X Vids
  /\ vlan_table \in [VlanSlots -> [vid : Vids, glo_counter : Nat]]
  /\ \A i \in VlanSlots, v \in Vids :
       vlan_table[i].vid = v => vlan_table[i].glo_counter <= Cardinality(UsersOf(v))
  /\ \A i, j \in VlanSlots :
       /\ vlan_table[i].glo_counter > 0 /\ vlan_table[j].glo_counter > 0
       /\ vlan_table[i].vid = vlan_table[j].vid
       => i = j

LEMMA FewUsers ==
  ASSUME vlan_users \subseteq Protos \X Vids, NEW v
  PROVE  Cardinality(UsersOf(v)) <= Cardinality(Protos)
<1> DEFINE a == {<<"8021Q", v>>}
           b == a \cup {<<"8021AD", v>>}
           c == {"8021Q"}
           d == c \cup {"8021AD"}
<1>1. IsFiniteSet(a) /\ Cardinality(a) = 1 /\ IsFiniteSet(c) /\ Cardinality(c) = 1
  BY FS_Singleton
<1>2. <<"8021AD", v>> \notin a /\ "8021AD" \notin c
  OBVIOUS
<1>3. IsFiniteSet(b) /\ Cardinality(b) = 2
  <2>1. IsFiniteSet(b) /\ Cardinality(b) = Cardinality(a) + 1
    BY <1>1, <1>2, FS_AddElement, Zenon
  <2> QED
    BY <1>1, <2>1
<1>4. IsFiniteSet(d) /\ Cardinality(d) = 2
  <2>1. IsFiniteSet(d) /\ Cardinality(d) = Cardinality(c) + 1
    BY <1>1, <1>2, FS_AddElement, Zenon
  <2> QED
    BY <1>1, <2>1
<1>5. d = Protos
  BY DEF Protos
<1>6. UsersOf(v) \subseteq b
  BY DEF UsersOf, Protos
<1>7. Cardinality(UsersOf(v)) <= Cardinality(b)
  BY <1>3, <1>6, FS_Subset
<1> QED
  BY <1>3, <1>4, <1>5, <1>7

LEMMA CountsTyped == RegTypes /\ CountInv => TypeOK
<1> SUFFICES ASSUME RegTypes, CountInv PROVE TypeOK
  OBVIOUS
<1>1. ASSUME NEW i \in VlanSlots
      PROVE  vlan_table[i] \in [vid : Vids, glo_counter : 0 .. Cardinality(Protos)]
  <2>1. vlan_table[i] \in [vid : Vids, glo_counter : Nat]
    BY DEF CountInv
  <2>2. /\ vlan_table[i].glo_counter <= Cardinality(UsersOf(vlan_table[i].vid))
        /\ Cardinality(UsersOf(vlan_table[i].vid)) <= Cardinality(Protos)
        /\ Cardinality(UsersOf(vlan_table[i].vid)) \in Nat
    <3>1. PICK v \in Vids : v = vlan_table[i].vid
      BY <2>1
    <3> QED
      BY <3>1, FewUsers, UsersFinite DEF CountInv
  <2>3. Cardinality(Protos) \in Nat
    <3>1. Protos = {"8021Q"} \cup {"8021AD"}
      BY DEF Protos
    <3> QED
      BY <3>1, FS_Singleton, FS_AddElement, FS_CardinalityType
  <2>4. vlan_table[i].glo_counter \in 0 .. Cardinality(Protos)
    BY <2>1, <2>2, <2>3
  <2> QED
    BY <2>1, <2>4
<1>2. vlan_table \in [VlanSlots -> [vid : Vids, glo_counter : 0 .. Cardinality(Protos)]]
  BY <1>1 DEF CountInv
<1> QED
  BY <1>2 DEF RegTypes, CountInv, TypeOK

LEMMA TypesStart == Init => RegTypes /\ CountInv
<1> SUFFICES ASSUME Init PROVE RegTypes /\ CountInv
  OBVIOUS
<1>1. Zero \in Vids /\ vlan_users = {}
  BY DEF Init, Zero, Vids
<1>2. RegTypes
  BY <1>1 DEF Init, RegTypes, VlanReg, Clear
<1>3. /\ vlan_users \subseteq Protos \X Vids
      /\ vlan_table \in [VlanSlots -> [vid : Vids, glo_counter : Nat]]
      /\ \A i \in VlanSlots : vlan_table[i].glo_counter = 0
  BY <1>1 DEF Init
<1>4. \A v : Cardinality(UsersOf(v)) >= 0
  BY <1>3, UsersFinite
<1> QED
  BY <1>2, <1>3, <1>4 DEF CountInv

LEMMA FilterTyped ==
  ASSUME NEW fl \in {"none", "promisc", "allmulti"},
         NEW f \in SUBSET {"RA", "PM", "HPF", "VTFE"}
  PROVE  /\ Base(f) \subseteq {"RA", "PM", "HPF", "VTFE"}
         /\ SetFilter(fl, f) => /\ filter' \subseteq {"RA", "PM", "HPF", "VTFE"}
                                /\ pc' \in {"idle", "uc"}
<1>1. Base(f) \subseteq {"RA", "PM", "HPF", "VTFE"}
  BY DEF Base
<1>2. CASE fl = "promisc"
  BY <1>1, <1>2 DEF SetFilter
<1>3. CASE fl = "allmulti"
  BY <1>1, <1>3 DEF SetFilter
<1>4. CASE fl = "none"
  BY <1>1, <1>4 DEF SetFilter
<1> QED
  BY <1>1, <1>2, <1>3, <1>4

\* The VLAN filters written through the data register.
LEMMA RegsTyped ==
  ASSUME RegTypes, NEW i, NEW v \in Vids,
         VlanAddrReg(i, v) \/ DelVlanAddr(i) \/ UNCHANGED <<vlan_reg, vlan_data>>
  PROVE  vlan_reg' \in [VlanSlots -> VlanReg] /\ vlan_data' \in VlanReg
<1>1. vlan_data.vid \cup v \in Vids /\ Zero \in Vids /\ vlan_data.en \in BOOLEAN
  BY DEF RegTypes, VlanReg, Vids, Zero
<1>2. vlan_data' \in VlanReg
  <2>1. CASE VlanAddrReg(i, v)
    BY <1>1, <2>1 DEF VlanReg, VlanAddrReg
  <2>2. CASE DelVlanAddr(i)
    <3>1. vlan_data' = [en |-> vlan_data.en, vid |-> Zero]
      BY <2>2 DEF DelVlanAddr, RegTypes, VlanReg
    <3> QED
      BY <1>1, <3>1 DEF VlanReg
  <2>3. CASE UNCHANGED <<vlan_reg, vlan_data>>
    BY <2>3 DEF RegTypes
  <2> QED
    BY <2>1, <2>2, <2>3
<1> QED
  BY <1>2 DEF RegTypes, VlanAddrReg, DelVlanAddr

LEMMA TypesNext ==
  ASSUME RegTypes, [Next]_vars PROVE RegTypes'
<1>1. CASE UNCHANGED vars
  BY <1>1 DEF vars, mac, vlan, RegTypes
<1>2. ASSUME NEW want \in SUBSET Macs, NEW fl \in {"none", "promisc", "allmulti"},
             ChangeRxMode(want, fl)
      PROVE  RegTypes'
  <2>1. filter' \subseteq {"RA", "PM", "HPF", "VTFE"} /\ pc' \in {"idle", "uc", "mc"}
    BY <1>2, FilterTyped DEF ChangeRxMode, RegTypes
  <2> QED
    BY <1>2, <2>1 DEF ChangeRxMode, RegTypes, vlan
<1>3. ASSUME NEW m \in Macs, Unsync(m) PROVE RegTypes'
  BY <1>3 DEF Unsync, RegTypes, vlan
<1>4. ASSUME NEW m \in Macs, SyncFull(m) PROVE RegTypes'
  <2>1. filter' \subseteq {"RA", "PM", "HPF", "VTFE"} /\ pc' \in {"mc", "idle"}
    BY <1>4, FilterTyped DEF SyncFull, RegTypes, NextKind
  <2> QED
    BY <1>4, <2>1 DEF SyncFull, RegTypes, vlan
<1>5. ASSUME NEW m \in Macs, SyncAdd(m) PROVE RegTypes'
  <2>1. filter' \subseteq {"RA", "PM", "HPF", "VTFE"}
    BY <1>5, FilterTyped DEF SyncAdd, RegTypes
  <2> QED
    BY <1>5, <2>1 DEF SyncAdd, RegTypes, vlan
<1>6. CASE SyncDone
  BY <1>6 DEF SyncDone, NextKind, RegTypes, vlan
<1>7. ASSUME NEW p \in Protos, NEW v \in Vids, VlanAddVid(p, v) \/ VlanKillVid(p, v)
      PROVE  RegTypes'
  <2>1. /\ UNCHANGED <<up, flags, wanted, synced, pc, mac_table, mac_reg>>
        /\ filter' = filter \/ filter' = filter \cup {"VTFE"}
    BY <1>7 DEF VlanAddVid, VlanKillVid, mac
  <2>2. \/ \E i : VlanAddrReg(i, v) \/ DelVlanAddr(i)
        \/ UNCHANGED <<vlan_reg, vlan_data>>
    BY <1>7, Zenon DEF VlanAddVid, VlanKillVid, VlanAgain, VlanNew
  <2>3. vlan_reg' \in [VlanSlots -> VlanReg] /\ vlan_data' \in VlanReg
    BY <2>2, RegsTyped
  <2> QED
    BY <2>1, <2>3 DEF RegTypes
<1>8. CASE Open
  <2>1. filter' \subseteq {"RA", "PM", "HPF", "VTFE"} /\ pc' \in {"idle", "uc", "mc"}
    BY <1>8, FilterTyped DEF Open, RegTypes
  <2>2. Clear \in VlanReg
    BY DEF Clear, VlanReg, Vids, Zero
  <2> QED
    BY <1>8, <2>1, <2>2 DEF Open, RegTypes
<1>9. CASE Close
  BY <1>9 DEF Close, RegTypes, mac, vlan
<1> QED
  BY <1>1, <1>2, <1>3, <1>4, <1>5, <1>6, <1>7, <1>8, <1>9 DEF Next

LEMMA CountUntouched ==
  ASSUME CountInv, UNCHANGED <<vlan_users, vlan_table>> PROVE CountInv'
BY DEF CountInv, UsersOf

LEMMA CountAdd ==
  ASSUME CountInv, NEW p \in Protos, NEW v \in Vids, VlanAddVid(p, v)
  PROVE  CountInv'
<1>1. /\ \A w : w # v => UsersOf(w)' = UsersOf(w)
      /\ Cardinality(UsersOf(v)') = Cardinality(UsersOf(v)) + 1
      /\ vlan_users' \subseteq Protos \X Vids
  BY UserComes DEF CountInv, VlanAddVid
<1>2. \A w : Cardinality(UsersOf(w)) \in Nat
  BY UsersFinite DEF CountInv
<1>3. ASSUME NEW w, NEW n \in Nat, n <= Cardinality(UsersOf(w))
      PROVE  n <= Cardinality(UsersOf(w)')
  <2>1. Cardinality(UsersOf(w)) \in Nat
    BY <1>2
  <2>2. CASE w = v
    BY <1>1, <1>3, <2>1, <2>2
  <2>3. CASE w # v
    <3>1. UsersOf(w)' = UsersOf(w)
      BY <1>1, <2>3
    <3> QED
      BY <1>3, <3>1
  <2> QED
    BY <2>2, <2>3
<1>4. CASE vlan_table' = vlan_table
  BY <1>1, <1>2, <1>3, <1>4 DEF CountInv
<1>5. CASE VlanAgain(v)
  <2>1. vlan_table' = [i \in VlanSlots |->
          IF Holds(i, v) THEN [vlan_table[i] EXCEPT !.glo_counter = @ + 1] ELSE vlan_table[i]]
    BY <1>5 DEF VlanAgain
  <2>2. ASSUME NEW i \in VlanSlots
        PROVE  /\ vlan_table'[i] \in [vid : Vids, glo_counter : Nat]
               /\ vlan_table'[i].vid = vlan_table[i].vid
               /\ vlan_table'[i].glo_counter > 0 <=> vlan_table[i].glo_counter > 0
               /\ \A w \in Vids : vlan_table[i].vid = w =>
                    vlan_table'[i].glo_counter <= Cardinality(UsersOf(w)')
    <3>1. vlan_table[i] \in [vid : Vids, glo_counter : Nat]
      BY DEF CountInv
    <3>2. \A w \in Vids : vlan_table[i].vid = w =>
            vlan_table[i].glo_counter <= Cardinality(UsersOf(w))
      BY DEF CountInv
    <3>3. CASE Holds(i, v)
      <4>1. /\ vlan_table'[i] = [vlan_table[i] EXCEPT !.glo_counter = @ + 1]
            /\ vlan_table[i].vid = v /\ vlan_table[i].glo_counter > 0
        BY <2>1, <3>3 DEF Holds
      <4> QED
        BY <1>1, <1>2, <3>1, <3>2, <4>1
    <3>4. CASE ~Holds(i, v)
      <4>1. vlan_table'[i] = vlan_table[i]
        BY <2>1, <3>4
      <4>2. \A w \in Vids : vlan_table[i].vid = w =>
              vlan_table[i].glo_counter <= Cardinality(UsersOf(w)')
        BY <1>3, <3>1, <3>2
      <4> QED
        BY <3>1, <4>1, <4>2
    <3> QED
      BY <3>3, <3>4
  <2>3. vlan_table' \in [VlanSlots -> [vid : Vids, glo_counter : Nat]]
    BY <2>1, <2>2
  <2> QED
    BY <1>1, <2>2, <2>3 DEF CountInv
<1>6. CASE VlanNew(v) /\ \A i \in VlanSlots : ~Holds(i, v)
  <2> DEFINE i == Least({j \in VlanSlots : vlan_table[j].glo_counter = 0})
             n == [vid |-> v, glo_counter |-> 1]
  <2>1. vlan_table' = [vlan_table EXCEPT ![i] = n]
    BY <1>6 DEF VlanNew
  <2> HIDE DEF i
  <2>2. n \in [vid : Vids, glo_counter : Nat] /\ n.vid = v /\ n.glo_counter = 1
    OBVIOUS
  <2>3. /\ vlan_table' \in [VlanSlots -> [vid : Vids, glo_counter : Nat]]
        /\ \A j \in VlanSlots : vlan_table'[j] = IF j = i THEN n ELSE vlan_table[j]
    BY <2>1, <2>2 DEF CountInv
  <2> HIDE DEF n
  <2>4. \A j \in VlanSlots : vlan_table[j].glo_counter > 0 => vlan_table[j].vid # v
    BY <1>6 DEF Holds
  <2>5. ASSUME NEW j \in VlanSlots, NEW w \in Vids, vlan_table'[j].vid = w
        PROVE  vlan_table'[j].glo_counter <= Cardinality(UsersOf(w)')
    <3>1. CASE j = i
      <4>1. vlan_table'[j].glo_counter = 1 /\ w = v
        BY <2>2, <2>3, <2>5, <3>1
      <4>2. Cardinality(UsersOf(v)) \in Nat
        BY <1>2
      <4> QED
        BY <1>1, <4>1, <4>2
    <3>2. CASE j # i
      <4>1. vlan_table'[j] = vlan_table[j]
        BY <2>3, <3>2
      <4>2. vlan_table[j] \in [vid : Vids, glo_counter : Nat]
        BY DEF CountInv
      <4>3. vlan_table[j].glo_counter <= Cardinality(UsersOf(w))
        BY <2>5, <4>1 DEF CountInv
      <4> QED
        BY <1>3, <4>1, <4>2, <4>3
    <3> QED
      BY <3>1, <3>2
  <2>6. ASSUME NEW j \in VlanSlots, NEW k \in VlanSlots,
               vlan_table'[j].glo_counter > 0, vlan_table'[k].glo_counter > 0,
               vlan_table'[j].vid = vlan_table'[k].vid
        PROVE  j = k
    <3>1. CASE j # i /\ k # i
      <4>1. vlan_table'[j] = vlan_table[j] /\ vlan_table'[k] = vlan_table[k]
        BY <2>3, <3>1
      <4> QED
        BY <2>6, <4>1 DEF CountInv
    <3>2. CASE j = i \/ k = i
      BY <2>2, <2>3, <2>4, <2>6, <3>2
    <3> QED
      BY <3>1, <3>2
  <2> QED
    BY <1>1, <2>3, <2>5, <2>6 DEF CountInv
<1>7. \/ vlan_table' = vlan_table \/ VlanAgain(v)
      \/ VlanNew(v) /\ \A i \in VlanSlots : ~Holds(i, v)
  BY Zenon DEF VlanAddVid
<1> QED
  BY <1>4, <1>5, <1>6, <1>7

LEMMA CountKill ==
  ASSUME CountInv, NEW p \in Protos, NEW v \in Vids, VlanKillVid(p, v)
  PROVE  CountInv'
<1>1. /\ \A w : w # v => UsersOf(w)' = UsersOf(w)
      /\ Cardinality(UsersOf(v)') = Cardinality(UsersOf(v)) - 1
      /\ vlan_users' \subseteq Protos \X Vids
  BY UserGoes DEF CountInv, VlanKillVid
<1>2. \A w : Cardinality(UsersOf(w)) \in Nat
  BY UsersFinite DEF CountInv
<1>3. Cardinality(UsersOf(v)') \in Nat
  <2>1. IsFiniteSet(UsersOf(v)) /\ UsersOf(v)' \subseteq UsersOf(v)
    BY UsersFinite DEF CountInv, VlanKillVid, UsersOf
  <2> QED
    BY <2>1, FS_Subset, FS_CardinalityType
<1>4. CASE \A i \in VlanSlots : ~Holds(i, v)
  <2>1. vlan_table' = vlan_table
    BY <1>4, Zenon DEF VlanKillVid
  <2>2. ASSUME NEW j \in VlanSlots, NEW w \in Vids, vlan_table[j].vid = w
        PROVE  vlan_table[j].glo_counter <= Cardinality(UsersOf(w)')
    <3>1. /\ vlan_table[j] \in [vid : Vids, glo_counter : Nat]
          /\ vlan_table[j].glo_counter <= Cardinality(UsersOf(w))
      BY <2>2 DEF CountInv
    <3>2. CASE w = v
      <4>1. ~(vlan_table[j].glo_counter > 0)
        BY <1>4, <2>2, <3>2 DEF Holds
      <4> QED
        BY <1>3, <3>1, <3>2, <4>1
    <3>3. CASE w # v
      <4>1. UsersOf(w)' = UsersOf(w)
        BY <1>1, <3>3
      <4> QED
        BY <3>1, <4>1
    <3> QED
      BY <3>2, <3>3
  <2> QED
    BY <1>1, <2>1, <2>2 DEF CountInv
<1>5. CASE \E i \in VlanSlots : Holds(i, v)
  <2> DEFINE i == Least({j \in VlanSlots : Holds(j, v)})
  <2>1. i \in {j \in VlanSlots : Holds(j, v)}
    <3>1. {j \in VlanSlots : Holds(j, v)} \in SUBSET (0 .. NVlan - 1)
      BY DEF VlanSlots
    <3>2. {j \in VlanSlots : Holds(j, v)} # {} /\ NVlan \in Nat
      BY <1>5, FilterAssumption
    <3> QED
      BY <3>1, <3>2, LeastIn
  <2>2. vlan_table' = [vlan_table EXCEPT ![i].glo_counter = @ - 1]
    BY <1>5, Zenon DEF VlanKillVid
  <2> HIDE DEF i
  <2>3. i \in VlanSlots /\ vlan_table[i].glo_counter > 0 /\ vlan_table[i].vid = v
    BY <2>1 DEF Holds
  <2>4. vlan_table[i] \in [vid : Vids, glo_counter : Nat]
    BY <2>3 DEF CountInv
  <2>5. /\ vlan_table'[i].vid = v /\ vlan_table'[i].glo_counter = vlan_table[i].glo_counter - 1
        /\ vlan_table'[i] \in [vid : Vids, glo_counter : Nat]
        /\ \A j \in VlanSlots : j # i => vlan_table'[j] = vlan_table[j]
    BY <2>2, <2>3, <2>4 DEF CountInv
  <2>6. vlan_table' \in [VlanSlots -> [vid : Vids, glo_counter : Nat]]
    BY <2>2, <2>5 DEF CountInv
  <2>7. ASSUME NEW j \in VlanSlots, NEW w \in Vids, vlan_table'[j].vid = w
        PROVE  vlan_table'[j].glo_counter <= Cardinality(UsersOf(w)')
    <3>1. vlan_table[j].vid = w
      BY <2>3, <2>5, <2>7
    <3>a. /\ vlan_table[j] \in [vid : Vids, glo_counter : Nat]
          /\ vlan_table[j].glo_counter <= Cardinality(UsersOf(w))
      BY <3>1 DEF CountInv
    <3>2. CASE j = i
      <4>1. /\ w = v /\ vlan_table[j].glo_counter \in Nat
            /\ vlan_table'[j].glo_counter = vlan_table[j].glo_counter - 1
        BY <2>3, <2>5, <3>1, <3>a, <3>2
      <4>2. Cardinality(UsersOf(v)) \in Nat
        BY <1>2
      <4> QED
        BY <1>1, <3>a, <4>1, <4>2
    <3>3. CASE j # i /\ w = v
      <4>1. vlan_table'[j] = vlan_table[j]
        BY <2>5, <3>3
      <4>2. ~(vlan_table[j].glo_counter > 0)
        BY <2>3, <3>1, <3>3 DEF CountInv
      <4> QED
        BY <1>3, <3>a, <3>3, <4>1, <4>2
    <3>4. CASE j # i /\ w # v
      <4>1. vlan_table'[j] = vlan_table[j] /\ UsersOf(w)' = UsersOf(w)
        BY <1>1, <2>5, <3>4
      <4> QED
        BY <3>a, <4>1
    <3> QED
      BY <3>2, <3>3, <3>4
  <2>8. ASSUME NEW j \in VlanSlots, NEW k \in VlanSlots,
               vlan_table'[j].glo_counter > 0, vlan_table'[k].glo_counter > 0,
               vlan_table'[j].vid = vlan_table'[k].vid
        PROVE  j = k
    <3>1. ASSUME NEW x \in VlanSlots, vlan_table'[x].glo_counter > 0
          PROVE  vlan_table[x].glo_counter > 0 /\ vlan_table'[x].vid = vlan_table[x].vid
      <4>1. CASE x = i
        BY <2>3, <2>5, <4>1
      <4>2. CASE x # i
        BY <2>5, <3>1, <4>2
      <4> QED
        BY <4>1, <4>2
    <3>2. /\ vlan_table[j].glo_counter > 0 /\ vlan_table[k].glo_counter > 0
          /\ vlan_table[j].vid = vlan_table[k].vid
      BY <2>8, <3>1
    <3> QED
      BY <3>2 DEF CountInv
  <2> QED
    BY <1>1, <2>6, <2>7, <2>8 DEF CountInv
<1> QED
  BY <1>4, <1>5

LEMMA CountNext ==
  ASSUME CountInv, [Next]_vars PROVE CountInv'
<1>1. CASE UNCHANGED vars
  BY <1>1, CountUntouched DEF vars, vlan
<1>2. ASSUME NEW want, NEW fl, ChangeRxMode(want, fl) PROVE CountInv'
  BY <1>2, CountUntouched DEF ChangeRxMode, vlan
<1>3. ASSUME NEW m \in Macs, Unsync(m) \/ SyncFull(m) \/ SyncAdd(m) PROVE CountInv'
  BY <1>3, CountUntouched DEF Unsync, SyncFull, SyncAdd, vlan
<1>4. CASE SyncDone \/ Close
  BY <1>4, CountUntouched DEF SyncDone, Close, vlan
<1>5. CASE Open
  BY <1>5, CountUntouched DEF Open
<1> QED
  BY <1>1, <1>2, <1>3, <1>4, <1>5, CountAdd, CountKill DEF Next

\* The lists, tables and registers hold what they may, and no slot of the VLAN
\* table counts more users than there are protocols, also when there are more
\* ids than slots and over a close and open that keeps the table.
THEOREM FiltersTyped == Spec => []TypeOK
<1>1. RegTypes /\ CountInv /\ [Next]_vars => RegTypes' /\ CountInv'
  BY TypesNext, CountNext
<1> QED
  BY <1>1, TypesStart, CountsTyped, PTL DEF Spec
=============================================================================
