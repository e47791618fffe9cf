------------------------------ MODULE PcieLane ------------------------------
(***************************************************************************)
(* The PCIe switch settings behind the ioctls of port 0: width of a link,  *)
(* transmit margin and de-emphasis, equalizer (DFE, CTLE) and link speed.  *)
(*                                                                         *)
(* The four PHY cores answer at one address.  A write reaches the cores    *)
(* selected in GLUE_PHY_REG_ACCESS_CTRL and, for a lane register, the      *)
(* lanes enabled in GL_LANE_ACCESS of each of them, so what a write does   *)
(* depends on the writes before it.  An ioctl is therefore the sequence of *)
(* its register writes, performed one by one while the switch goes on.     *)
(*                                                                         *)
(* Strapping A: the upstream port has cores 0 and 1, the downstream ports  *)
(* have cores 2 and 3.  Strapping B: cores 0, 1 and 3.                     *)
(***************************************************************************)
EXTENDS Integers, Sequences, FiniteSets

CONSTANTS Presets,     \* transmit presets and margins an ioctl may ask for
          Speeds,      \* link speeds an ioctl may ask for
          MaxSpeed,    \* fastest speed of each link
          AspmOf,      \* ASPM setting of each device below the switch
          MaxOps,      \* ioctls
          Faults       \* "hasty": a lane change does not await the last one

Cores == 0..3
Port == {"usp", "dsp1", "dsp2"}
Link == {"usp", "dsp1", "dsp2", "vdsp"}
Device == DOMAIN AspmOf
Lane == ((0..1) \X (0..1)) \cup {<<2, 0>>, <<3, 0>>}

ASSUME SpeedAssumption == Speeds \subseteq 1..3 /\ MaxSpeed \in [Link -> 1..3]
ASSUME OpsAssumption == MaxOps \in Nat
ASSUME DeviceAssumption == IsFiniteSet(Device) /\ AspmOf \in [Device -> Nat]

VARIABLES mode,        \* strapping, "A" or "B"
          sel, acc,    \* selected cores, enabled lanes of each core
          lane,        \* lane registers
          core,        \* core registers: margin, dfe power down
          req, width,  \* requested (0: none) and monitored width of a port
          speed, aspm, savedAspm,
          todo,        \* writes the running ioctl has still to do
          ops,         \* ioctls done
          asked        \* what the last ioctls asked of each port

hw == <<sel, acc, lane, core, req, width, speed, aspm, savedAspm>>
laneVars == <<mode, hw, todo, ops, asked>>

\* The lanes of a port in the order of the link.
LanesOf(m, p) ==
  CASE p = "usp" /\ m = "A" -> <<<<0, 0>>, <<0, 1>>, <<1, 0>>, <<1, 1>>>>
    [] p = "usp" /\ m = "B" -> <<<<0, 0>>, <<0, 1>>>>
    [] p = "dsp1" /\ m = "A" -> <<<<2, 0>>>>
    [] p = "dsp1" /\ m = "B" -> <<<<1, 0>>, <<1, 1>>>>
    [] p = "dsp2" -> <<<<3, 0>>>>
FirstLanes(p, w) == {LanesOf(mode, p)[i] : i \in 1..w}
AllLanes(p) == FirstLanes(p, Len(LanesOf(mode, p)))
CoresOf(m, p) == {LanesOf(m, p)[i][1] : i \in 1..Len(LanesOf(m, p))}

(***************************************************************************)
(* Register writes                                                         *)
(***************************************************************************)
W(reg, val) == [reg |-> reg, val |-> val]
Core(cs) == W("core", cs)
Access(ls) == W("access", ls)
LowPower == W("low_power", 0)
WakeUp == W("wake", 0)
\* rsvd_rw0 holds the requests of both ports and is cleared first.
Request(p, w) == <<W("clear", 0), W("request", <<p, w>>)>>

\* Lane registers within reach, and the lanes' new registers when each one
\* within reach becomes F of itself.
Reach == {l \in Lane : l[1] \in sel /\ l[2] \in acc[l[1]]}
Lanes(F(_)) == lane' = [l \in Lane |-> IF l \in Reach THEN F(l) ELSE lane[l]]
Own(kind, l) == IF kind = "best" THEN <<kind, l[1], l[2]>> ELSE <<kind, 0, 0>>

WriteSelect(w) ==
  \/ /\ w.reg = "core"
     /\ sel' = w.val
     /\ UNCHANGED <<acc, lane, core, req, width, speed, aspm, savedAspm>>
  \/ /\ w.reg = "access"
     /\ acc' = [c \in Cores |-> IF c \in sel THEN w.val ELSE acc[c]]
     /\ UNCHANGED <<sel, lane, core, req, width, speed, aspm, savedAspm>>

\* pcs2pma_power_ctrl and its override; the rising p1_toggle of the three
\* rates wakes the lanes whose override is cleared.
WriteLane(w) ==
  /\ \/ /\ w.reg = "low_power"
        /\ Lanes(LAMBDA l : [lane[l] EXCEPT !.asleep = TRUE])
     \/ /\ w.reg = "wake"
        /\ Lanes(LAMBDA l : [lane[l] EXCEPT !.asleep = FALSE])
     \/ /\ w.reg \in {"deemph", "eq", "eq1"}
        /\ Lanes(LAMBDA l : [lane[l] EXCEPT ![w.reg] = w.val])
     \/ /\ w.reg = "ctle"
        /\ Lanes(LAMBDA l : [lane[l] EXCEPT !.ctle = Own(w.val, l)])
     \/ /\ w.reg = "copy"      \* the result read is that of one lane
        /\ LET from == CHOOSE l \in Reach : TRUE
           IN Lanes(LAMBDA l : [lane[l] EXCEPT !.ctle = Own("best", from)])
  /\ UNCHANGED <<sel, acc, core, req, width, speed, aspm, savedAspm>>

\* DFE_PD_CTRL of core 1 is at an offset of its own.
WriteCore(w) ==
  /\ \/ /\ w.reg = "margin"
        /\ core' = [c \in Cores |-> IF c \in sel
                                    THEN [core[c] EXCEPT !.margin = w.val]
                                    ELSE core[c]]
     \/ /\ w.reg = "pd"
        /\ core' = [c \in Cores |-> IF c \in sel /\ (c = 1 <=> w.val[1] = 1)
                                    THEN [core[c] EXCEPT !.pd = w.val[2]]
                                    ELSE core[c]]
  /\ UNCHANGED <<sel, acc, lane, req, width, speed, aspm, savedAspm>>

WriteRequest(w) ==
  /\ \/ w.reg = "clear" /\ req' = [p \in Port |-> 0]
     \/ w.reg = "request" /\ req' = [req EXCEPT ![w.val[1]] = w.val[2]]
  /\ UNCHANGED <<sel, acc, lane, core, width, speed, aspm, savedAspm>>

LesserOf(a, b) == IF a < b THEN a ELSE b
\* Configuration space: target speed and retrain; ASPM off and back.
WriteConfig(w) ==
  /\ \/ /\ w.reg = "speed"
        /\ speed' = [speed EXCEPT ![w.val[1]] =
                       LesserOf(w.val[2], MaxSpeed[w.val[1]])]
        /\ UNCHANGED <<aspm, savedAspm>>
     \/ /\ w.reg = "aspm_off"
        /\ savedAspm' = [savedAspm EXCEPT ![w.val] = aspm[w.val]]
        /\ aspm' = [aspm EXCEPT ![w.val] = 0]
        /\ UNCHANGED speed
     \/ /\ w.reg = "aspm_back"
        /\ aspm' = [aspm EXCEPT ![w.val] = savedAspm[w.val]]
        /\ UNCHANGED <<speed, savedAspm>>
  /\ UNCHANGED <<sel, acc, lane, core, req, width>>

(***************************************************************************)
(* Width of a link                                                         *)
(***************************************************************************)
Mode1Usp4To1 ==
  Request("usp", 1) \o <<Core({0}), Access({1}), LowPower,
                         Core({1}), Access({0, 1}), LowPower>>
Mode1Usp4To2 ==
  Request("usp", 2) \o <<Core({1}), Access({0, 1}), LowPower>>
\* Mutant: the width is asked for before the lanes are awake.
Mode1UspTo4_AskFirst ==
  Request("usp", 4) \o
  <<Core({1}), Access({0, 1}), WakeUp, Core({0}), Access({0, 1}), WakeUp>>
Mode1UspTo4 ==
  <<Core({1}), Access({0, 1}), WakeUp, Core({0}), Access({0, 1}), WakeUp>>
    \o Request("usp", 4)
Mode2Usp2To1 == Request("usp", 1) \o <<Core({0}), Access({1}), LowPower>>
Mode2Usp1To2 == <<Core({0}), Access({0, 1}), WakeUp>> \o Request("usp", 2)
Mode2Dsp2To1 == Request("dsp1", 1) \o <<Core({1}), Access({1}), LowPower>>
Mode2Dsp1To2 == <<Core({1}), Access({0, 1}), WakeUp>> \o Request("dsp1", 2)

\* The width is that of the monitor when the ioctl begins.
LaneChange(p, w) ==
  LET now == width[p]
  IN CASE mode = "A" /\ p = "usp" /\ now = 4 /\ w = 1 -> Mode1Usp4To1
       [] mode = "A" /\ p = "usp" /\ now = 4 /\ w = 2 -> Mode1Usp4To2
       [] mode = "A" /\ p = "usp" /\ now # 4 /\ w = 4 -> Mode1UspTo4
       [] mode = "B" /\ p = "usp" /\ now = 2 /\ w = 1 -> Mode2Usp2To1
       [] mode = "B" /\ p = "usp" /\ now = 1 /\ w = 2 -> Mode2Usp1To2
       [] mode = "B" /\ p = "dsp1" /\ now = 2 /\ w = 1 -> Mode2Dsp2To1
       [] mode = "B" /\ p = "dsp1" /\ now = 1 /\ w = 2 -> Mode2Dsp1To2
       [] OTHER -> <<>>

(***************************************************************************)
(* Transmitter                                                             *)
(***************************************************************************)
\* Lane access is written for the ports of two lanes and more.
SelectPort(p) ==
  <<Core(CoresOf(mode, p))>>
    \o (IF Len(LanesOf(mode, p)) > 1 THEN <<Access({0, 1})>> ELSE <<>>)
SetTxMargin(p, m) == SelectPort(p) \o <<W("margin", m)>>
Gen3Deemphasis(preset) == <<W("deemph", preset)>>
SetTxDeemphasis(p, preset) == SelectPort(p) \o Gen3Deemphasis(preset)

(***************************************************************************)
(* Equalizer                                                               *)
(***************************************************************************)
CopyCtle == W("copy", 0)
DfeDisable(c) == <<W("eq", "off"), W("eq1", "off"), W("pd", <<c, "off">>)>>
DfeEnable(c) == <<W("eq", "on"), W("pd", <<c, "on">>)>>
PllReset(on) == IF on THEN <<W("eq1", "on")>> ELSE <<>>

CopyEachLane(c) ==
  <<Core({c}), Access({0}), CopyCtle, Core({c}), Access({1}), CopyCtle>>

\* Strapping A, upstream port.
DfeUsp4(on) ==
  IF ~on
  THEN CopyEachLane(0) \o CopyEachLane(1)
         \o <<Core({0}), Access({0, 1})>> \o DfeDisable(0)
         \o <<Core({1}), Access({0, 1})>> \o DfeDisable(1)
         \o <<Core({0, 1})>> \o PllReset(on)
  ELSE <<Core({0, 1}), Access({0, 1}), W("ctle", "init")>>
         \o <<Core({0})>> \o DfeEnable(0) \o <<Core({1})>> \o DfeEnable(1)
         \o <<Core({0, 1})>> \o PllReset(on)
\* The ports of one lane: the lane access of their core is left alone.
DfeX1(c, on) ==
  <<Core({c})>>
    \o (IF ~on THEN <<CopyCtle>> \o DfeDisable(c)
               ELSE <<W("ctle", "init")>> \o DfeEnable(c))
    \o PllReset(on)
\* Mutant: lane access is not widened again after the lane by lane copy.
DfeX2_AccessLeft(c, on) ==
  (IF ~on
   THEN CopyEachLane(c) \o <<Core({c})>> \o DfeDisable(c)
   ELSE <<Core({c}), Access({0, 1}), W("ctle", "init")>> \o DfeEnable(c))
    \o PllReset(on)
\* Strapping B, the ports of two lanes.
DfeX2(c, on) ==
  (IF ~on
   THEN CopyEachLane(c) \o <<Core({c}), Access({0, 1})>> \o DfeDisable(c)
   ELSE <<Core({c}), Access({0, 1}), W("ctle", "init")>> \o DfeEnable(c))
    \o PllReset(on)

OneCore(p) == LanesOf(mode, p)[1][1]
\* A port not in Gen 3 is refused.
SetDfe(p, on) ==
  IF speed[p] # 3 THEN <<>>
  ELSE CASE Len(LanesOf(mode, p)) = 4 -> DfeUsp4(on)
         [] Len(LanesOf(mode, p)) = 2 -> DfeX2(OneCore(p), on)
         [] Len(LanesOf(mode, p)) = 1 -> DfeX1(OneCore(p), on)

CtleUsp4 ==
  <<Core({0}), Access({0, 1}), W("ctle", "fixed"),
    Core({1}), Access({0, 1}), W("ctle", "fixed"),
    Core({0}), Access({0, 1})>> \o DfeDisable(0)
    \o <<Core({1}), Access({0, 1})>> \o DfeDisable(1)
    \o <<Core({0, 1})>> \o PllReset(FALSE)
CtleX1(c) ==
  <<Core({c}), W("ctle", "fixed")>> \o DfeDisable(c) \o PllReset(FALSE)
CtleX2(c) ==
  <<Core({c}), Access({0, 1}), W("ctle", "fixed"), Core({c}), Access({0, 1})>>
    \o DfeDisable(c) \o PllReset(FALSE)
SetCtleFixed(p) ==
  IF speed[p] # 3 THEN <<>>
  ELSE CASE Len(LanesOf(mode, p)) = 4 -> CtleUsp4
         [] Len(LanesOf(mode, p)) = 2 -> CtleX2(OneCore(p))
         [] Len(LanesOf(mode, p)) = 1 -> CtleX1(OneCore(p))

(***************************************************************************)
(* Speed: ASPM of every device below the switch is off while the links     *)
(* retrain.  Nothing is done when the link of the root port already has    *)
(* the speed.                                                              *)
(***************************************************************************)
EachDevice(reg) ==
  LET order == CHOOSE s \in [1..Cardinality(Device) -> Device] :
                 \A d \in Device : \E i \in DOMAIN s : s[i] = d
  IN [i \in DOMAIN order |-> W(reg, order[i])]
\* Mutant: ASPM is not restored.
SetPciSpeed_NotBack(s) ==
  IF speed["usp"] = s THEN <<>>
  ELSE EachDevice("aspm_off")
         \o <<W("speed", <<"usp", s>>), W("speed", <<"dsp1", s>>)>>
SetPciSpeed(s) ==
  IF speed["usp"] = s THEN <<>>
  ELSE EachDevice("aspm_off")
         \o <<W("speed", <<"usp", s>>), W("speed", <<"dsp1", s>>),
              W("speed", <<"dsp2", s>>), W("speed", <<"vdsp", s>>),
              W("speed", <<"usp", s>>)>>
         \o EachDevice("aspm_back")

(***************************************************************************)
(* Actions                                                                 *)
(***************************************************************************)
\* The switch brings a link to the requested width.
LinkRetrains ==
  \E p \in Port :
    /\ req[p] # 0 /\ width[p] # req[p]
    /\ width' = [width EXCEPT ![p] = req[p]]
    /\ UNCHANGED <<mode, sel, acc, lane, core, req, speed, aspm, savedAspm,
                   todo, ops, asked>>

\* The ioctl does its next write.
DoWrite ==
  /\ todo # <<>>
  /\ LET w == Head(todo)
     IN WriteSelect(w) \/ WriteLane(w) \/ WriteCore(w) \/ WriteRequest(w)
          \/ WriteConfig(w)
  /\ todo' = Tail(todo)
  /\ UNCHANGED <<mode, ops, asked>>

Settled == \A p \in Port : req[p] # 0 => width[p] = req[p]

\* Entry of an ioctl; rtnl keeps the next one out until its writes are done.
\* A refused request has no writes and leaves what was asked before.
Begin(program, note) ==
  /\ todo = <<>> /\ ops < MaxOps
  /\ ops' = ops + 1
  /\ todo' = program
  /\ asked' = IF program = <<>> THEN asked ELSE note
  /\ UNCHANGED <<mode, hw>>
IoctlLaneChange ==
  \E p \in Port, w \in {1, 2, 4} :
    /\ Settled \/ "hasty" \in Faults
    /\ Begin(LaneChange(p, w), asked)
IoctlTxMargin ==
  \E p \in Port, m \in Presets :
    Begin(SetTxMargin(p, m), [asked EXCEPT ![p].margin = m])
IoctlTxDeemphasis ==
  \E p \in Port, e \in Presets \cup {"off"} :
    Begin(SetTxDeemphasis(p, e), [asked EXCEPT ![p].deemph = e])
IoctlDfe ==
  \E p \in Port, on \in BOOLEAN :
    Begin(SetDfe(p, on),
          [asked EXCEPT ![p].dfe = IF on THEN "on" ELSE "off",
                        ![p].ctle = IF on THEN "init" ELSE "best"])
IoctlCtleFixed ==
  \E p \in Port :
    Begin(SetCtleFixed(p), [asked EXCEPT ![p].dfe = "off", ![p].ctle = "fixed"])
IoctlSpeedChange == \E s \in Speeds : Begin(SetPciSpeed(s), asked)

NoSetting == [margin |-> "reset", deemph |-> "off", dfe |-> "reset",
              ctle |-> "reset"]
LaneInit ==
  /\ mode \in {"A", "B"}
  /\ sel = {}
  /\ acc = [c \in Cores |-> {0, 1}]
  /\ lane = [l \in Lane |-> [asleep |-> FALSE, deemph |-> "off", eq |-> "reset",
                             eq1 |-> "reset", ctle |-> Own("reset", l)]]
  /\ core = [c \in Cores |-> [margin |-> "reset", pd |-> "reset"]]
  /\ req = [p \in Port |-> 0]
  /\ width = [p \in Port |-> Len(LanesOf(mode, p))]
  /\ speed = MaxSpeed
  /\ aspm = AspmOf /\ savedAspm = [d \in Device |-> 0]
  /\ todo = <<>> /\ ops = 0
  /\ asked = [p \in Port |-> NoSetting]
LaneNext ==
  \/ LinkRetrains \/ DoWrite \/ IoctlLaneChange \/ IoctlTxMargin
  \/ IoctlTxDeemphasis \/ IoctlDfe \/ IoctlCtleFixed \/ IoctlSpeedChange
LaneSpec == LaneInit /\ [][LaneNext]_laneVars

(***************************************************************************)
(* Properties                                                              *)
(***************************************************************************)

\* A lane that a link has been told to use is not asleep, from before the
\* switch sees the request of tc956xmac_pcie_lane_change until the next one:
\* widening wakes first and asks then, narrowing spares the lanes it keeps.
LanesReady ==
  \A p \in Port : req[p] # 0 => \A l \in FirstLanes(p, req[p]) : ~lane[l].asleep

\* Between ioctls every lane and core of a port holds what the last ioctls
\* for that port asked, whatever was asked for other ports in between: no
\* write went to a lane or core left selected, and none missed its own.  A
\* lane whose DFE was turned off keeps the CTLE found best for itself.
AsAsked ==
  todo = <<>> =>
    \A p \in Port :
      /\ \A l \in AllLanes(p) :
           /\ lane[l].deemph = asked[p].deemph
           /\ lane[l].eq = asked[p].dfe /\ lane[l].eq1 = asked[p].dfe
           /\ lane[l].ctle = Own(asked[p].ctle, l)
      /\ \A c \in CoresOf(mode, p) : /\ core[c].margin = asked[p].margin
                                     /\ core[c].pd = asked[p].dfe

\* A link retrains for tc956x_set_pci_speed with ASPM off below the switch,
\* and every device gets back the ASPM it had.
AspmSafe ==
  /\ todo = <<>> => aspm = AspmOf
  /\ (todo # <<>> /\ Head(todo).reg = "speed") => \A d \in Device : aspm[d] = 0
=============================================================================
