------------------------------ MODULE Filters ------------------------------
(***************************************************************************)
(* The receive filters of the TC956X MAC (dwxgmac2_core.c, used by         *)
(* tc956xmac_main.c): the table of perfect MAC addresses, synchronised     *)
(* with the address lists of the network stack by set_rx_mode, and the     *)
(* table of VLAN ids.  Both share XGMAC_PACKET_FILTER, and both live in    *)
(* software tables beside the registers they stand for.                    *)
(*                                                                         *)
(* set_rx_mode runs under the stack's address lock; its calls to the       *)
(* driver for single addresses are steps.  The driver is the only VF       *)
(* (PF_DRIVER), so a table entry needs no owner.  The hash filters, which  *)
(* only add to the perfect ones (HPF is set), are left out.                *)
(***************************************************************************)
EXTENDS Naturals, FiniteSets

CONSTANTS Uc, Mc,   \* unicast, multicast addresses
          NMac,     \* TC956X_MAX_PERFECT_ADDRESSES - XGMAC_ADDR_ADD_SKIP_OFST
          NVlan,    \* TC956X_MAX_PERFECT_VLAN
          VidBits,  \* bits of a VLAN id; an id is the set of its one bits
          NONE,     \* no address
          Faults    \* subset of FaultKinds: what the environment may do

\* More addresses than slots with unicast among them; a new unicast address
\* while IFF_ALLMULTI is set; more VLAN ids than NVlan - 1; close and open with
\* filters installed.
FaultKinds == {"uc_overflow", "uc_allmulti", "vlan_overflow", "reopen"}

Macs == Uc \cup Mc
MacSlots == 0 .. NMac - 1
VlanSlots == 0 .. NVlan - 1
Vids == SUBSET VidBits
Zero == {}
Protos == {"8021Q", "8021AD"}

ASSUME FilterAssumption == /\ Uc \cap Mc = {} /\ NONE \notin Macs /\ IsFiniteSet(Macs)
                           /\ IsFiniteSet(VidBits)
                           /\ NMac \in Nat \ {0} /\ NVlan \in Nat \ {0}
                           /\ Faults \subseteq FaultKinds

VARIABLES
  up,          \* IFF_UP
  flags,       \* IFF_PROMISC, IFF_ALLMULTI or neither
  wanted,      \* addresses the stack wants received
  synced,      \* addresses the stack takes for installed (ha->sync_cnt)
  pc,          \* set_rx_mode: not running, at the unicast, the multicast list
  mac_table,   \* priv->mac_table: the address of an occupied slot
  mac_reg,     \* XGMAC_ADDRx_HIGH / LOW
  filter,      \* XGMAC_PACKET_FILTER
  vlan_users,  \* <<protocol, id>> pairs the stack has added
  vlan_table,  \* priv->vlan_table: id and glo_counter, which is 0 when vacant
  vlan_reg,    \* the VLAN filters: enabled, and for which id
  vlan_data    \* XGMAC_VLAN_TAG_DATA, the window to them

mac == <<wanted, synced, pc, mac_table, mac_reg>>
vlan == <<vlan_users, vlan_table, vlan_reg, vlan_data>>
vars == <<up, flags, mac, filter, vlan>>

VlanReg == [en : BOOLEAN, vid : Vids]

TypeOK ==
  /\ up \in BOOLEAN /\ flags \in {"none", "promisc", "allmulti"}
  /\ wanted \subseteq Macs /\ synced \subseteq Macs
  /\ pc \in {"idle", "uc", "mc"}
  /\ mac_table \in [MacSlots -> Macs \cup {NONE}]
  /\ mac_reg \in [MacSlots -> Macs \cup {NONE}]
  /\ filter \subseteq {"RA", "PM", "HPF", "VTFE"}
  /\ vlan_users \subseteq Protos \X Vids
  /\ vlan_table \in [VlanSlots -> [vid : Vids, glo_counter : 0 .. Cardinality(Protos)]]
  /\ vlan_reg \in [VlanSlots -> VlanReg] /\ vlan_data \in VlanReg

Clear == [en |-> FALSE, vid |-> Zero]

\* After probe: the tables are allocated, the device is down.
Init ==
  /\ up = FALSE /\ flags = "none" /\ wanted = {} /\ synced = {} /\ pc = "idle"
  /\ mac_table = [i \in MacSlots |-> NONE] /\ mac_reg = [i \in MacSlots |-> NONE]
  /\ filter = {} /\ vlan_users = {}
  /\ vlan_table = [i \in VlanSlots |-> [vid |-> Zero, glo_counter |-> 0]]
  /\ vlan_reg = [i \in VlanSlots |-> Clear] /\ vlan_data = Clear

Least(S) == CHOOSE i \in S : \A j \in S : i <= j

-----------------------------------------------------------------------------
(* MAC addresses.                                                          *)

\* What both set_filter and add_sw_mac_table write first.
Base(f) == (f \ {"RA", "PM"}) \cup {"HPF"}

\* Mutant of SetFilter: the register is only added to.
SetFilter_KeepRa(fl, f) ==
  CASE fl = "promisc"  -> filter' = f \cup {"RA", "HPF"} /\ pc' = "idle"
    [] fl = "allmulti" -> filter' = f \cup {"PM", "HPF"} /\ pc' = "idle"
    [] OTHER           -> filter' = f \cup {"HPF"} /\ pc' = "uc"

\* dwxgmac2_set_filter with the flags fl, on a register that holds f: only
\* with neither flag are the address lists looked at.
SetFilter(fl, f) ==
  CASE fl = "promisc"  -> filter' = Base(f) \cup {"RA"} /\ pc' = "idle"
    [] fl = "allmulti" -> filter' = Base(f) \cup {"PM"} /\ pc' = "idle"
    [] OTHER           -> filter' = Base(f) /\ pc' = "uc"

\* Bound: what the environment does not do unless Faults says so.
Calm(want, fl) ==
  /\ "uc_overflow" \in Faults \/ want \cap Uc = {} \/ Cardinality(want \cup synced) <= NMac
  /\ "uc_allmulti" \in Faults \/ fl # "allmulti" \/ want \cap Uc \subseteq synced

\* The stack changes its lists or the flags of the device, and calls
\* tc956xmac_set_rx_mode if it is up.
ChangeRxMode(want, fl) ==
  /\ pc = "idle" /\ Calm(want, fl)
  /\ wanted' = want /\ flags' = fl
  /\ IF up THEN SetFilter(fl, filter) ELSE UNCHANGED <<pc, filter>>
  /\ UNCHANGED <<up, synced, mac_table, mac_reg, vlan>>

Kind == IF pc = "uc" THEN Uc ELSE Mc
Stale == Kind \cap (synced \ wanted)
New == Kind \cap (wanted \ synced)
NextKind == pc' = IF pc = "uc" THEN "mc" ELSE "idle"

SlotsOf(m) == {i \in MacSlots : mac_table[i] = m}
Vacant == SlotsOf(NONE)

\* Mutant of Unsync: the table entry is not vacated.
Unsync_KeepEntry(m) ==
  /\ pc # "idle" /\ m \in Stale
  /\ \E i \in SlotsOf(m) : mac_reg' = [mac_reg EXCEPT ![i] = NONE]
  /\ synced' = synced \ {m}
  /\ UNCHANGED <<up, flags, wanted, pc, mac_table, filter, vlan>>

\* __dev_uc_sync and __dev_mc_sync first drop addresses nobody wants any more:
\* tc956x_delete_mac_addr.  It has no case for an address not in the table.
Unsync(m) ==
  /\ pc # "idle" /\ m \in Stale
  /\ \E i \in SlotsOf(m) : /\ mac_table' = [mac_table EXCEPT ![i] = NONE]
                           /\ mac_reg' = [mac_reg EXCEPT ![i] = NONE]
  /\ synced' = synced \ {m}
  /\ UNCHANGED <<up, flags, wanted, pc, filter, vlan>>

\* Mutant of SyncFull: the MAC is not made to receive all.
SyncFull_NoRa(m) ==
  /\ pc # "idle" /\ Stale = {} /\ m \in New
  /\ Vacant = {} \/ SlotsOf(m) # {}
  /\ filter' = Base(filter)
  /\ NextKind
  /\ UNCHANGED <<up, flags, wanted, synced, mac_table, mac_reg, vlan>>

\* Then they add the new ones, in the order of the list, until one fails.
\* tc956x_add_mac_addr fails for an address it has already, and when the table
\* is full, which also makes the MAC receive all.
SyncFull(m) ==
  /\ pc # "idle" /\ Stale = {} /\ m \in New
  /\ Vacant = {} \/ SlotsOf(m) # {}
  /\ filter' = IF SlotsOf(m) = {} THEN Base(filter) \cup {"RA"} ELSE Base(filter)
  /\ NextKind
  /\ UNCHANGED <<up, flags, wanted, synced, mac_table, mac_reg, vlan>>

SyncAdd(m) ==
  /\ pc # "idle" /\ Stale = {} /\ m \in New
  /\ Vacant # {} /\ SlotsOf(m) = {}
  /\ mac_table' = [mac_table EXCEPT ![Least(Vacant)] = m]
  /\ mac_reg' = [mac_reg EXCEPT ![Least(Vacant)] = m]
  /\ filter' = Base(filter)
  /\ synced' = synced \cup {m}
  /\ UNCHANGED <<up, flags, wanted, pc, vlan>>

SyncDone ==
  /\ pc # "idle" /\ Stale = {} /\ New = {}
  /\ NextKind
  /\ UNCHANGED <<up, flags, wanted, synced, mac_table, mac_reg, filter, vlan>>

-----------------------------------------------------------------------------
(* VLAN ids.                                                               *)

Holds(i, v) == vlan_table[i].glo_counter > 0 /\ vlan_table[i].vid = v

\* tc956x_vlan_addr_reg writes filter i through the data register, into which
\* it ors the id.
VlanAddrReg(i, v) ==
  /\ vlan_data' = [en |-> TRUE, vid |-> vlan_data.vid \cup v]
  /\ vlan_reg' = [vlan_reg EXCEPT ![i] = vlan_data']

\* tc956x_del_vlan_addr: no id, but the enable as it is.
DelVlanAddr(i) ==
  /\ vlan_data' = [vlan_data EXCEPT !.vid = Zero]
  /\ vlan_reg' = [vlan_reg EXCEPT ![i] = vlan_data']

\* Mutant of VlanAgain: the user is counted where it is found and once more.
VlanAgain_Twice(v) ==
  /\ vlan_table' = [i \in VlanSlots |->
       IF Holds(i, v) THEN [vlan_table[i] EXCEPT !.glo_counter = @ + 2] ELSE vlan_table[i]]
  /\ UNCHANGED <<vlan_reg, vlan_data>>

\* tc956x_check_vlan_duplication counts a further user of an id.
VlanAgain(v) ==
  /\ vlan_table' = [i \in VlanSlots |->
       IF Holds(i, v) THEN [vlan_table[i] EXCEPT !.glo_counter = @ + 1] ELSE vlan_table[i]]
  /\ UNCHANGED <<vlan_reg, vlan_data>>

\* tc956x_add_actual_vlan_table.
VlanNew(v) ==
  LET i == Least({j \in VlanSlots : vlan_table[j].glo_counter = 0}) IN
  /\ vlan_table' = [vlan_table EXCEPT ![i] = [vid |-> v, glo_counter |-> 1]]
  /\ VlanAddrReg(i, v)

\* A new id is taken for one only if the last slot is vacant: the loop of
\* tc956x_check_vlan_duplication returns what it finds there.
LastVacant == vlan_table[NVlan - 1].glo_counter = 0

UserVids == {u[2] : u \in vlan_users} \ {Zero}

\* Mutant of VlanAddVid: an id that is there already is entered once more.
VlanAddVid_Twice(p, v) ==
  /\ <<p, v>> \notin vlan_users
  /\ "vlan_overflow" \in Faults \/ Cardinality(UserVids \cup ({v} \ {Zero})) < NVlan
  /\ vlan_users' = vlan_users \cup {<<p, v>>}
  /\ filter' = filter \cup {"VTFE"}
  /\ IF v # Zero /\ LastVacant THEN VlanNew(v) ELSE UNCHANGED <<vlan_table, vlan_reg, vlan_data>>
  /\ UNCHANGED <<up, flags, mac>>

\* tc956xmac_vlan_rx_add_vid, which never fails; id 0 gets no entry.
VlanAddVid(p, v) ==
  /\ <<p, v>> \notin vlan_users
  /\ "vlan_overflow" \in Faults \/ Cardinality(UserVids \cup ({v} \ {Zero})) < NVlan
  /\ vlan_users' = vlan_users \cup {<<p, v>>}
  /\ filter' = filter \cup {"VTFE"}
  /\ CASE v = Zero                           -> UNCHANGED <<vlan_table, vlan_reg, vlan_data>>
       [] \E i \in VlanSlots : Holds(i, v)   -> VlanAgain(v)
       [] OTHER -> IF LastVacant THEN VlanNew(v)
                                 ELSE UNCHANGED <<vlan_table, vlan_reg, vlan_data>>
  /\ UNCHANGED <<up, flags, mac>>

\* tc956xmac_vlan_rx_kill_vid
VlanKillVid(p, v) ==
  /\ <<p, v>> \in vlan_users
  /\ vlan_users' = vlan_users \ {<<p, v>>}
  /\ IF \E i \in VlanSlots : Holds(i, v)
       THEN LET i == Least({j \in VlanSlots : Holds(j, v)}) IN
            /\ vlan_table' = [vlan_table EXCEPT ![i].glo_counter = @ - 1]
            /\ IF vlan_table[i].glo_counter = 1 THEN DelVlanAddr(i)
                                                ELSE UNCHANGED <<vlan_reg, vlan_data>>
       ELSE UNCHANGED <<vlan_table, vlan_reg, vlan_data>>
  /\ UNCHANGED <<up, flags, mac, filter>>

-----------------------------------------------------------------------------
\* tc956xmac_open resets the MAC and with it all registers, but not the tables,
\* and the stack calls set_rx_mode when it has opened the device.
Open ==
  /\ ~up /\ pc = "idle"
  /\ "reopen" \in Faults \/ (synced = {} /\ vlan_users = {})
  /\ up' = TRUE
  /\ mac_reg' = [i \in MacSlots |-> NONE]
  /\ vlan_reg' = [i \in VlanSlots |-> Clear] /\ vlan_data' = Clear
  /\ SetFilter(flags, {})
  /\ UNCHANGED <<flags, wanted, synced, mac_table, vlan_users, vlan_table>>

Close ==
  /\ up /\ pc = "idle"
  /\ up' = FALSE
  /\ UNCHANGED <<flags, mac, filter, vlan>>

Next ==
  \/ \E want \in SUBSET Macs, fl \in {"none", "promisc", "allmulti"} : ChangeRxMode(want, fl)
  \/ \E m \in Macs : Unsync(m) \/ SyncFull(m) \/ SyncAdd(m)
  \/ SyncDone
  \/ \E p \in Protos, v \in Vids : VlanAddVid(p, v) \/ VlanKillVid(p, v)
  \/ Open \/ Close

Spec == Init /\ [][Next]_vars

-----------------------------------------------------------------------------
(* Properties.                                                             *)

\* Whenever set_rx_mode has returned, the MAC accepts every address the stack
\* wants: by a slot, as any multicast, or because it receives all.
AddrAccepted ==
  up /\ pc = "idle" =>
    \A m \in wanted : \/ "RA" \in filter
                      \/ m \in Mc /\ "PM" \in filter
                      \/ \E i \in MacSlots : mac_reg[i] = m

\* The stack, the software table and the registers agree: an address the stack
\* takes for installed is in exactly one slot and in that slot's registers, and
\* nothing else is.  tc956x_del_sw_mac_table relies on it, as it goes on with
\* the entry behind the table for an address it does not find.
TableInStep ==
  /\ synced = {mac_table[i] : i \in MacSlots} \ {NONE}
  /\ \A i, j \in MacSlots : mac_table[i] = mac_table[j] /\ i # j => mac_table[i] = NONE
  /\ mac_reg = mac_table

\* Receiving all is a fallback that ends: it is on only while the device is
\* promiscuous or an address is still waiting for a slot.
FallbackEnds ==
  up /\ pc = "idle" /\ "RA" \in filter => flags = "promisc" \/ ~(wanted \subseteq synced)

\* Every id in use has exactly one slot, which counts its users, and no other
\* slot is occupied: the id is removed with its last user and not before.
VlanCounted ==
  /\ \A i \in VlanSlots : vlan_table[i].glo_counter > 0 =>
       /\ vlan_table[i].glo_counter = Cardinality({u \in vlan_users : u[2] = vlan_table[i].vid})
       /\ \A j \in VlanSlots \ {i} : ~Holds(j, vlan_table[i].vid)
  /\ \A v \in UserVids : \E i \in VlanSlots : Holds(i, v)

\* The MAC accepts every VLAN id the stack has added.
VlanAccepted ==
  up /\ "VTFE" \in filter =>
    \A v \in UserVids : \E i \in VlanSlots : vlan_reg[i].en /\ vlan_reg[i].vid \in {v, Zero}
=============================================================================
