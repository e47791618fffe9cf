------------------------------ MODULE Selftests ------------------------------
(***************************************************************************)
(* The self-tests ethtool runs offline: each sends frames to itself        *)
(* through a loopback, some with an address or a VLAN id of their own      *)
(* added to the filters, and reports whether a feature of the device       *)
(* works.  The RTNL lock is held all along, so no ioctl and no change of   *)
(* the lists comes between the steps of a run.                             *)
(***************************************************************************)
EXTENDS Integers, Sequences, FiniteSets

CONSTANTS PerfectSlots,    \* TC956X_MAX_PERFECT_ADDRESSES - XGMAC_ADDR_ADD_SKIP_OFST
          SelftestFaults   \* "phy", "nophy", "ioctl", "reopen", "allmulti",
                           \* "vlan", "oom": see the guards that name them
ASSUME SelftestAssumption == PerfectSlots \in Nat

VARIABLES phydev, vlhash,     \* is there a PHY, hardware VLAN hash
          faulty,             \* features of the device that do not work
          macLb, phyLb,       \* loopbacks in force
          macMode, phyMode,   \* priv->mac_loopback_mode, phy_loopback_mode
          refs, listed,       \* uses of a filter entry, and those of the stack
          vidData, vidReg,    \* ids in XGMAC_VLAN_TAG_DATA, in the filter of 0x123
          netFlags,           \* "none", "allmulti" or "promisc"
          handler, hashOn,    \* a packet handler is left; dma_cap.vlhash
          testNo, testPc,     \* number of the test, 0 for none, and its step
          frameNo,            \* frame of the test
          phyOn,              \* phy_loopback_enabled
          verdict             \* feature and result of the last test, from buf

entryVars == <<refs, vidData, vidReg>>
bodyVars == <<entryVars, handler, hashOn, frameNo>>
deviceVars == <<phydev, vlhash, faulty, macMode, phyMode, listed, netFlags>>
selfVars == <<deviceVars, macLb, phyLb, bodyVars, testNo, testPc, phyOn, verdict>>

SelfFault(class) == class \in SelftestFaults
Features == {"mac", "phy", "mmc", "mc", "uc", "vlan", "ins", "jumbo"}

(***************************************************************************)
(* Filter entries: unicast, multicast addresses, and VLAN id 0x123 with    *)
(* each protocol.  "g" entries are those the tests add, "b" those they     *)
(* expect to be rejected; "x" has the hash of "bm", "vid2" is another id.  *)
(***************************************************************************)
Uc == {"gu", "bu"}
Mc == {"gm", "bm", "x"}
Vids == {"8021Q", "8021AD"}
Entries == Uc \cup Mc \cup Vids \cup {"vid2"}
HashOf == [a \in Mc |-> IF a = "gm" THEN 1 ELSE 2]
HashCheck(a) == \A m \in Mc : refs[m] > 0 => HashOf[m] # HashOf[a]
PerfectCheck(a) == refs[a] = 0
FilterCheck == netFlags # "promisc"

\* An entry is used once more, or once less.  A further user of an id is only
\* counted; the id of the first goes, or'ed to what it holds, through the data
\* register, and with the last user the register and the filter lose their ids.
CountUse(e, n) == refs' = [refs EXCEPT ![e] = @ + n]
IdUses == refs["8021Q"] + refs["8021AD"]
AddEntry(e) ==
  /\ CountUse(e, 1)
  /\ vidData' = CASE e \in Vids /\ IdUses = 0 -> vidData \cup {"0x123"}
                  [] e = "vid2" /\ refs[e] = 0 -> vidData \cup {"vid2"}
                  [] OTHER -> vidData
  /\ vidReg' = IF e \in Vids /\ IdUses = 0 THEN vidData' ELSE vidReg
DropEntry(e) ==
  /\ CountUse(e, -1)
  /\ IF e \in Vids /\ IdUses = 1 THEN vidData' = {} /\ vidReg' = {}
     ELSE UNCHANGED <<vidData, vidReg>>

(***************************************************************************)
(* The tests                                                               *)
(***************************************************************************)
Frame(dst, vid, good) == [dst |-> dst, vid |-> vid, good |-> good]
Own == Frame("own", "none", TRUE)
Test(lb, feature, entry, frames) ==
  [lb |-> lb, feature |-> feature, entry |-> entry, frames |-> frames]
MacLoopback == Test("mac", "mac", "none", <<Own>>)
PhyLoopback == Test("none", "phy", "none", <<Own>>)
Mmc == Test("phy", "mmc", "none", <<Own>>)
Addresses(feature, good, bad) ==
  Test("phy", feature, good, <<Frame(good, "none", TRUE), Frame(bad, "none", FALSE)>>)
Hfilt == Addresses("mc", "gm", "bm")
Pfilt == Addresses("uc", "gu", "bu")
Mcfilt == Addresses("mc", "gu", "bm")
Ucfilt == Addresses("uc", "gm", "bu")
\* One frame with the id, three with the ids above it.
VlanTest(proto) ==
  Test("phy", "vlan", proto,
       <<Frame("own", proto, TRUE)>> \o [i \in 1..3 |-> Frame("own", "other", FALSE)])
Vlanfilt == VlanTest("8021Q")
Dvlanfilt == VlanTest("8021AD")
Vlanoff == Test("phy", "ins", "8021Q", <<Frame("own", "8021Q", TRUE)>>)
Jumbo == Test("phy", "jumbo", "none", <<Own>>)
\* The VLAN tests come twice, for the hash and for the perfect filter.
SelftestList ==
  <<MacLoopback, PhyLoopback, Mmc, Hfilt, Pfilt, Mcfilt, Ucfilt, Vlanfilt, Vlanfilt,
    Dvlanfilt, Dvlanfilt, Vlanoff, Jumbo>>
Perfect == {9, 11}
This == SelftestList[testNo]

(***************************************************************************)
(* A frame comes back (the loopback and the filters are the device's)      *)
(***************************************************************************)
\* More addresses than slots make the MAC receive all.
Overflow == Cardinality({a \in Uc \cup Mc : refs[a] > 0}) > PerfectSlots
ReceivesAll == netFlags = "promisc" \/ (netFlags = "none" /\ Overflow)
AddrPasses(dst) ==
  \/ dst = "own" \/ ReceivesAll
  \/ IF dst \in Mc
     THEN netFlags = "allmulti" \/ refs[dst] > 0 \/ "mc" \in faulty
     ELSE \* the lists are not looked at while all multicast passes
          (refs[dst] > 0 /\ netFlags = "none") \/ listed[dst] > 0 \/ "uc" \in faulty
\* A filter with the ids of two in it lets neither pass.
VidPasses(vid) == \/ vid = "none" \/ ReceivesAll \/ "vlan" \in faulty
                  \/ vid \in Vids /\ vidReg = {"0x123"}
Carried == This.feature \in {"ins", "jumbo"} => This.feature \notin faulty
Arrives(f) ==
  (macLb \/ phyLb) /\ AddrPasses(f.dst) /\ VidPasses(f.vid) /\ Carried
\* The handler that awaits the frame.  The one of the VLAN tests takes a frame
\* with another id than the first for one that did not arrive.
Received(f) ==
  IF This.entry \in Vids THEN Arrives(f) /\ f.good ELSE Arrives(f)

(***************************************************************************)
(* A run                                                                   *)
(***************************************************************************)
\* What the loop does after a test, whose result is r.  Of the loopbacks only
\* the MAC's is ended here, and only after a test that asked for it.
AfterTest(r) ==
  /\ verdict' = <<This.feature, r>>
  /\ macLb' = (macLb /\ This.lb # "mac")
  /\ IF testNo < Len(SelftestList)
     THEN testNo' = testNo + 1 /\ testPc' = "loopback" /\ UNCHANGED phyLb
     ELSE testNo' = 0 /\ testPc' = "idle" /\ phyLb' = (phyLb /\ ~phydev)

\* A loopback the user has set by ioctl is not known to the tests ("ioctl").
SelftestRun ==
  /\ testNo = 0 /\ (macMode \/ phyMode => SelfFault("ioctl"))
  /\ testNo' = 1 /\ testPc' = "loopback" /\ phyOn' = FALSE
  /\ verdict' = <<"mac", "none">>
  /\ UNCHANGED <<deviceVars, macLb, phyLb, bodyVars>>
\* The PHY is asked once; when it refuses ("phy") the MAC's loopback serves,
\* and nothing ends it.  Without a PHY ("nophy") there is no loopback.
SetLoopback ==
  /\ testPc = "loopback" /\ testPc' = "check"
  /\ IF This.lb = "phy" /\ phydev /\ ~phyOn
     THEN /\ phyOn' = TRUE
          /\ \/ phyLb' = TRUE /\ UNCHANGED macLb
             \/ SelfFault("phy") /\ macLb' = TRUE /\ UNCHANGED phyLb
     ELSE macLb' = (macLb \/ This.lb = "mac") /\ UNCHANGED <<phyLb, phyOn>>
  /\ UNCHANGED <<deviceVars, bodyVars, testNo, verdict>>

\* The entry a test expects to be rejected must not be on the lists; it stands
\* for the 255 candidates tried.
Supported ==
  /\ This.feature \in {"mc", "uc"} =>
       /\ FilterCheck
       /\ This.feature = "mc" => HashCheck("bm")
       /\ This.feature = "uc" => PerfectCheck("bu")
  /\ This.feature = "vlan" => vlhash
\* Also when a list is full, or the device has no counters or insertion.
Unsupported ==
  /\ testPc = "check"
  /\ ~Supported \/ This.feature \in {"mc", "uc", "mmc", "ins"}
  /\ AfterTest("unsupported")
  /\ UNCHANGED <<deviceVars, bodyVars, phyOn>>
\* No PHY, it refuses, or there is no memory for the entry.
Refused ==
  /\ testPc = "check" /\ Supported
  /\ \/ This.feature = "phy" /\ (~phydev \/ SelfFault("phy"))
     \/ This.entry # "none"
  /\ AfterTest("error") /\ UNCHANGED <<deviceVars, bodyVars, phyOn>>
BeginTest ==
  /\ testPc = "check" /\ Supported /\ (This.feature = "phy" => phydev)
  /\ testPc' = "send" /\ frameNo' = 1
  /\ IF This.entry = "none" THEN UNCHANGED entryVars ELSE AddEntry(This.entry)
  /\ handler' = (This.entry \in Vids) /\ hashOn' = (hashOn /\ testNo \notin Perfect)
  /\ phyLb' = (phyLb \/ This.feature = "phy")
  /\ UNCHANGED <<deviceVars, macLb, testNo, phyOn, verdict>>

\* What a test does in the end, whether it has passed or not.
Cleanup ==
  /\ IF This.entry = "none" THEN UNCHANGED entryVars ELSE DropEntry(This.entry)
  /\ handler' = FALSE /\ hashOn' = vlhash /\ frameNo' = 0
\* Mutant: an error leaves the entry in the list.
TestEnds_Leaks(r) ==
  IF This.feature = "phy"
  THEN Cleanup /\ testPc' = "phy_off" /\ verdict' = <<This.feature, r>>
         /\ UNCHANGED <<macLb, phyLb, testNo>>
  ELSE AfterTest(r)
         /\ IF r = "pass" THEN Cleanup ELSE UNCHANGED bodyVars
\* The test of the PHY ends its loopback before it returns.
TestEnds(r) ==
  IF This.feature = "phy"
  THEN Cleanup /\ testPc' = "phy_off" /\ verdict' = <<This.feature, r>>
         /\ UNCHANGED <<macLb, phyLb, testNo>>
  ELSE AfterTest(r) /\ Cleanup
PhyOff ==
  /\ testPc = "phy_off" /\ phyLb' = FALSE
  /\ testNo' = testNo + 1 /\ testPc' = "loopback"
  /\ UNCHANGED <<deviceVars, macLb, bodyVars, phyOn, verdict>>

\* After the last frame; the counters are read by the test that is about them.
Passed == IF This.feature = "mmc" /\ "mmc" \in faulty THEN TestEnds("fail") ELSE TestEnds("pass")
Continue ==
  IF frameNo = Len(This.frames) THEN Passed
  ELSE frameNo' = frameNo + 1 /\ UNCHANGED <<entryVars, handler, hashOn, macLb, phyLb,
                                             testNo, testPc, verdict>>
\* Mutant: the frame that must be rejected is not looked at.
SendFrame_AnyBad ==
  /\ testPc = "send"
  /\ LET f == This.frames[frameNo]
     IN IF f.good /\ ~Received(f) THEN TestEnds("fail") ELSE Continue
  /\ UNCHANGED <<deviceVars, phyOn>>
\* A good frame must arrive in time, another one must not.
SendFrame ==
  /\ testPc = "send"
  /\ LET f == This.frames[frameNo]
     IN IF f.good = Received(f) THEN Continue ELSE TestEnds("fail")
  /\ UNCHANGED <<deviceVars, phyOn>>
\* No memory for a frame.  The address tests take that for a frame that did not
\* arrive, which is right by luck of one that must not ("oom").
SendFails ==
  /\ testPc = "send"
  /\ IF This.feature \in {"mc", "uc"} /\ frameNo = 2 THEN SelfFault("oom") /\ Continue
     ELSE TestEnds("error")
  /\ UNCHANGED <<deviceVars, phyOn>>

(***************************************************************************)
(* The user and the stack between runs                                     *)
(***************************************************************************)
IdleVars == <<phydev, vlhash, faulty, handler, hashOn, testNo, testPc, frameNo, phyOn,
              verdict>>
IoctlSetMacLoopback(b) ==
  /\ testNo = 0 /\ macMode' = b
  /\ macLb' = IF b = macMode THEN macLb ELSE b
  /\ UNCHANGED <<IdleVars, phyLb, phyMode, entryVars, listed, netFlags>>
\* The mode is recorded before the PHY is asked.
IoctlSetPhyLoopback(b) ==
  /\ testNo = 0 /\ phydev /\ phyMode' = b
  /\ phyLb' \in {IF b = phyMode THEN phyLb ELSE b}
                  \cup (IF SelfFault("phy") THEN {phyLb} ELSE {})
  /\ UNCHANGED <<IdleVars, macLb, macMode, entryVars, listed, netFlags>>
\* The reset at open ends the MAC's loopback and not the record of it ("reopen");
\* entries in use, of which it does the same, are the matter of Filters.
SelfOpen ==
  /\ testNo = 0 /\ (macMode => SelfFault("reopen"))
  /\ \A e \in Entries : listed[e] = 0
  /\ macLb' = FALSE
  /\ UNCHANGED <<IdleVars, phyLb, macMode, phyMode, entryVars, listed, netFlags>>
\* The stack puts an entry on a list; what it takes off is left to Filters.
StackAdds(e) ==
  /\ testNo = 0 /\ listed[e] = 0 /\ netFlags = "none"
  /\ listed' = [listed EXCEPT ![e] = 1] /\ AddEntry(e)
  /\ UNCHANGED <<IdleVars, macLb, phyLb, macMode, phyMode, netFlags>>
StackFlags(f) ==
  /\ testNo = 0 /\ netFlags' = f
  /\ UNCHANGED <<IdleVars, macLb, phyLb, macMode, phyMode, entryVars, listed>>

\* At most one feature is faulty.  Excluded unless SelftestFaults has them: no
\* PHY ("nophy"), all multicast on ("allmulti"), VLAN filters that do not filter
\* ("vlan").
SelfInit ==
  /\ phydev \in {TRUE} \cup (IF SelfFault("nophy") THEN {FALSE} ELSE {})
  /\ vlhash \in BOOLEAN /\ hashOn = vlhash
  /\ faulty \in {{}} \cup {{f} : f \in {"mmc", "mc", "uc", "ins", "jumbo"}
                                \cup IF SelfFault("vlan") THEN {"vlan"} ELSE {}}
  /\ macLb = FALSE /\ phyLb = FALSE /\ macMode = FALSE /\ phyMode = FALSE
  /\ refs = [e \in Entries |-> 0] /\ listed = refs /\ netFlags = "none"
  /\ vidData = {} /\ vidReg = {}
  /\ handler = FALSE /\ testNo = 0 /\ testPc = "idle" /\ frameNo = 0 /\ phyOn = FALSE
  /\ verdict = <<"mac", "none">>
SelfNext ==
  \/ SelftestRun \/ SetLoopback \/ Unsupported \/ Refused \/ BeginTest
  \/ SendFrame \/ SendFails \/ PhyOff \/ SelfOpen
  \/ \E b \in BOOLEAN : IoctlSetMacLoopback(b) \/ IoctlSetPhyLoopback(b)
  \/ \E e \in {"gm", "x", "bu", "8021Q", "vid2"} : StackAdds(e)
  \/ \E f \in {"none", "promisc"} \cup (IF SelfFault("allmulti") THEN {"allmulti"} ELSE {}) :
       StackFlags(f)

(***************************************************************************)
(* Properties                                                              *)
(***************************************************************************)
SelfTypeOK ==
  /\ testNo \in 0..Len(SelftestList) /\ frameNo \in 0..4
  /\ faulty \subseteq Features /\ \A e \in Entries : refs[e] \in 0..2
  /\ vidReg \subseteq {"0x123", "vid2"}

\* After a run, whichever tests have failed and wherever, the interface is as
\* the user left it: the loopbacks the ioctls asked for and no other, the
\* addresses and ids of the stack, no handler, and the hash as before.
SelftestRestores ==
  testNo = 0 => /\ macLb = macMode /\ phyLb = phyMode
                /\ refs = listed /\ ~handler /\ hashOn = vlhash

\* The stack's addresses leave no slot for a test's, or it has another id in use.
Full == Cardinality({a \in Uc \cup Mc : listed[a] > 0}) >= PerfectSlots
Excused(feature) ==
  \/ feature \in {"mc", "uc"} /\ Full
  \/ feature \in {"vlan", "ins"} /\ listed["vid2"] > 0
\* A test that passes shows that what it is about works, a test that fails
\* that it does not, but for the address tests when the stack has filled the
\* perfect table and those with an id when the stack has put on another.
SelftestTells ==
  /\ verdict[2] = "pass" => verdict[1] \notin faulty
  /\ verdict[2] = "fail" => verdict[1] \in faulty \/ Excused(verdict[1])
=============================================================================
