--------------------------- MODULE PcieLaneProofs ---------------------------
(***************************************************************************)
(* The PCIe ioctls, on either strapping and for any presets, speeds, ASPM  *)
(* settings and finite number of devices: links find the lanes they have   *)
(* been told to use awake, ASPM is off while links retrain and back        *)
(* afterwards, and every lane and core keeps the settings last asked for   *)
(* its port.                                                               *)
(*                                                                         *)
(* An ioctl is a list of register writes, each with an effect that depends *)
(* on the writes before it.  So the invariants speak of the writes still   *)
(* to come: which of them reach which lanes, which device's ASPM they will *)
(* save, clear or restore, and what they will leave in the registers.      *)
(***************************************************************************)
EXTENDS PcieLane, SequenceTheorems, FiniteSetTheorems, TLAPS

-----------------------------------------------------------------------------
(* The programs of the ioctls.                                             *)

SettingRegs == {"core", "access", "margin", "deemph", "eq", "eq1", "pd", "ctle", "copy"}
LaneRegs == {"core", "access", "low_power", "wake", "clear", "request"}
ConfigRegs == {"speed", "aspm_off", "aspm_back"}
Regs == SettingRegs \cup LaneRegs \cup ConfigRegs

Modes == {"A", "B"}
PortCores == {CoresOf(m, p) : m \in Modes, p \in Port}
CoreSets == SUBSET Cores
PortWidths == Port \X {1, 2, 4}
Settings == Presets \cup {"off", "on", "init", "fixed"}
CorePds == Cores \X {"off", "on"}
LinkSpeeds == Link \X Speeds
Vals == {0} \cup CoreSets \cup PortCores \cup PortWidths \cup Settings \cup CorePds
          \cup LinkSpeeds \cup Device
Writes == [reg : Regs, val : Vals]

\* The writes of a program are among those of some registers.
Only(s, regs) == s \in Seq(Writes) /\ \A i \in 1 .. Len(s) : s[i].reg \in regs

LEMMA OnlyEmpty ==
  ASSUME NEW regs PROVE Only(<<>>, regs)
BY DEF Only

LEMMA OnlyWider ==
  ASSUME NEW s, NEW regs, NEW more, regs \subseteq more, Only(s, regs) PROVE Only(s, more)
BY DEF Only

LEMMA OnlyConcat ==
  ASSUME NEW regs, NEW s, NEW t, Only(s, regs), Only(t, regs)
  PROVE  Only(s \o t, regs)
<1>1. s \in Seq(Writes) /\ t \in Seq(Writes)
  BY DEF Only
<1>2. /\ s \o t \in Seq(Writes) /\ Len(s \o t) = Len(s) + Len(t)
      /\ \A i \in 1 .. Len(s) + Len(t) : (s \o t)[i] = IF i <= Len(s) THEN s[i] ELSE t[i - Len(s)]
  BY <1>1, ConcatProperties
<1> SUFFICES ASSUME NEW i \in 1 .. Len(s \o t) PROVE (s \o t)[i].reg \in regs
  BY <1>2 DEF Only
<1>3. CASE i <= Len(s)
  BY <1>1, <1>2, <1>3 DEF Only
<1>4. CASE i > Len(s)
  <2>1. i - Len(s) \in 1 .. Len(t) /\ (s \o t)[i] = t[i - Len(s)]
    BY <1>1, <1>2, <1>4
  <2> QED BY <2>1 DEF Only
<1> QED BY <1>1, <1>2, <1>3, <1>4

\* A write of a register with a value, and programs of few writes.
LEMMA WriteType ==
  ASSUME NEW r \in Regs, NEW v \in Vals
  PROVE  W(r, v) \in Writes /\ W(r, v).reg = r /\ W(r, v).val = v
BY DEF W, Writes

LEMMA WriteTypes ==
  /\ \A cs \in SUBSET Cores : Core(cs) \in Writes /\ Core(cs).reg = "core" /\ Core(cs).val = cs
  /\ \A m \in Modes, p \in Port :
       Core(CoresOf(m, p)) \in Writes /\ Core(CoresOf(m, p)).reg = "core"
  /\ \A ls \in SUBSET {0, 1} : Access(ls) \in Writes /\ Access(ls).reg = "access" /\ Access(ls).val = ls
  /\ LowPower \in Writes /\ LowPower.reg = "low_power"
  /\ WakeUp \in Writes /\ WakeUp.reg = "wake"
  /\ CopyCtle \in Writes /\ CopyCtle.reg = "copy"
<1>1. 0 \in Vals
  BY DEF Vals
<1>2. \A cs \in SUBSET Cores : cs \in Vals
  BY DEF Vals, CoreSets
<1>3. \A m \in Modes, p \in Port : CoresOf(m, p) \in Vals
  <2> SUFFICES ASSUME NEW m \in Modes, NEW p \in Port PROVE CoresOf(m, p) \in Vals
    OBVIOUS
  <2>1. CoresOf(m, p) \in PortCores
    BY DEF PortCores
  <2> QED BY <2>1 DEF Vals
<1>4. \A ls \in SUBSET {0, 1} : ls \in SUBSET Cores
  BY DEF Cores
<1>5. \A cs \in Vals : Core(cs) \in Writes /\ Core(cs).reg = "core" /\ Core(cs).val = cs
  BY DEF Core, W, Writes, Regs, SettingRegs, LaneRegs, ConfigRegs
<1>6. \A ls \in Vals : Access(ls) \in Writes /\ Access(ls).reg = "access" /\ Access(ls).val = ls
  BY DEF Access, W, Writes, Regs, SettingRegs, LaneRegs, ConfigRegs
<1>7. /\ LowPower \in Writes /\ LowPower.reg = "low_power"
      /\ WakeUp \in Writes /\ WakeUp.reg = "wake"
      /\ CopyCtle \in Writes /\ CopyCtle.reg = "copy"
  BY <1>1 DEF LowPower, WakeUp, CopyCtle, W, Writes, Regs, SettingRegs, LaneRegs, ConfigRegs
<1> QED BY <1>2, <1>3, <1>4, <1>5, <1>6, <1>7

LEMMA OnlyOne ==
  ASSUME NEW regs, NEW a \in Writes, a.reg \in regs
  PROVE  Only(<<a>>, regs)
BY DEF Only

LEMMA OnlyTwo ==
  ASSUME NEW regs, NEW a \in Writes, NEW b \in Writes, a.reg \in regs, b.reg \in regs
  PROVE  Only(<<a, b>>, regs)
BY DEF Only

LEMMA OnlyThree ==
  ASSUME NEW regs, NEW a \in Writes, NEW b \in Writes, NEW c \in Writes,
         a.reg \in regs, b.reg \in regs, c.reg \in regs
  PROVE  Only(<<a, b, c>>, regs)
BY DEF Only

LEMMA OnlySix ==
  ASSUME NEW regs,
         NEW a \in Writes, NEW b \in Writes, NEW c \in Writes, NEW d \in Writes,
         NEW e \in Writes, NEW f \in Writes,
         a.reg \in regs, b.reg \in regs, c.reg \in regs,
         d.reg \in regs, e.reg \in regs, f.reg \in regs
  PROVE  Only(<<a, b, c, d, e, f>>, regs)
BY DEF Only

\* A program of the transmitter and the equalizer sets what it names.
LEMMA SelectPortIs ==
  ASSUME mode \in Modes, NEW p \in Port PROVE Only(SelectPort(p), SettingRegs)
<1>1. Only(<<Core(CoresOf(mode, p))>>, SettingRegs)
  BY WriteTypes, OnlyOne DEF SettingRegs
<1>2. Only(<<Access({0, 1})>>, SettingRegs)
  BY WriteTypes, OnlyOne DEF SettingRegs
<1> QED BY <1>1, <1>2, OnlyEmpty, OnlyConcat DEF SelectPort

LEMMA TxMarginIs ==
  ASSUME mode \in Modes, NEW p \in Port, NEW m \in Presets
  PROVE  Only(SetTxMargin(p, m), SettingRegs)
<1>1. W("margin", m) \in Writes /\ W("margin", m).reg \in SettingRegs
  BY DEF W, Writes, Vals, Settings, Regs, SettingRegs
<1>2. Only(<<W("margin", m)>>, SettingRegs)
  BY <1>1, OnlyOne
<1> QED BY <1>2, SelectPortIs, OnlyConcat DEF SetTxMargin

LEMMA TxDeemphasisIs ==
  ASSUME mode \in Modes, NEW p \in Port, NEW e \in Presets \cup {"off"}
  PROVE  Only(SetTxDeemphasis(p, e), SettingRegs)
<1>1. W("deemph", e) \in Writes /\ W("deemph", e).reg \in SettingRegs
  BY DEF W, Writes, Vals, Settings, Regs, SettingRegs
<1>2. Only(Gen3Deemphasis(e), SettingRegs)
  BY <1>1, OnlyOne DEF Gen3Deemphasis
<1> QED BY <1>2, SelectPortIs, OnlyConcat DEF SetTxDeemphasis

LEMMA DfeParts ==
  ASSUME NEW c \in Cores, NEW on \in BOOLEAN
  PROVE  /\ Only(DfeDisable(c), SettingRegs) /\ Only(DfeEnable(c), SettingRegs)
         /\ Only(PllReset(on), SettingRegs) /\ Only(CopyEachLane(c), SettingRegs)
         /\ Only(<<Core({c})>>, SettingRegs) /\ Only(<<Core({c}), Access({0, 1})>>, SettingRegs)
         /\ Only(<<CopyCtle>>, SettingRegs)
         /\ W("ctle", "init") \in Writes /\ W("ctle", "fixed") \in Writes
         /\ W("ctle", "init").reg \in SettingRegs /\ W("ctle", "fixed").reg \in SettingRegs
<1>1. \A r \in {"eq", "eq1", "ctle"} : \A v \in {"off", "on", "init", "fixed"} :
        W(r, v) \in Writes /\ W(r, v).reg \in SettingRegs
  BY DEF W, Writes, Vals, Settings, Regs, SettingRegs
<1>2. \A v \in {"off", "on"} : W("pd", <<c, v>>) \in Writes /\ W("pd", <<c, v>>).reg \in SettingRegs
  <2> SUFFICES ASSUME NEW v \in {"off", "on"}
               PROVE  W("pd", <<c, v>>) \in Writes /\ W("pd", <<c, v>>).reg \in SettingRegs
    OBVIOUS
  <2>1. <<c, v>> \in CorePds
    BY DEF CorePds
  <2>2. <<c, v>> \in Vals
    BY <2>1 DEF Vals
  <2> QED BY <2>2 DEF W, Writes, Regs, SettingRegs
<1>3. {c} \in SUBSET Cores
  OBVIOUS
<1>4. /\ Core({c}) \in Writes /\ Core({c}).reg \in SettingRegs
      /\ \A ls \in SUBSET {0, 1} : Access(ls) \in Writes /\ Access(ls).reg \in SettingRegs
      /\ CopyCtle \in Writes /\ CopyCtle.reg \in SettingRegs
  BY <1>3, WriteTypes DEF SettingRegs
<1>5. Only(DfeDisable(c), SettingRegs) /\ Only(DfeEnable(c), SettingRegs)
  BY <1>1, <1>2, OnlyTwo, OnlyThree DEF DfeDisable, DfeEnable
<1>6. Only(PllReset(on), SettingRegs)
  BY <1>1, OnlyOne, OnlyEmpty DEF PllReset
<1>7. Only(CopyEachLane(c), SettingRegs)
  BY <1>4, OnlySix DEF CopyEachLane
<1>8. /\ Only(<<Core({c})>>, SettingRegs) /\ Only(<<Core({c}), Access({0, 1})>>, SettingRegs)
      /\ Only(<<CopyCtle>>, SettingRegs)
  BY <1>4, OnlyOne, OnlyTwo
<1> QED BY <1>1, <1>4, <1>5, <1>6, <1>7, <1>8

LEMMA LanesAre ==
  /\ Len(LanesOf("A", "usp")) = 4
  /\ LanesOf("A", "usp")[1] = <<0, 0>> /\ LanesOf("A", "usp")[2] = <<0, 1>>
  /\ LanesOf("A", "usp")[3] = <<1, 0>> /\ LanesOf("A", "usp")[4] = <<1, 1>>
  /\ Len(LanesOf("B", "usp")) = 2
  /\ LanesOf("B", "usp")[1] = <<0, 0>> /\ LanesOf("B", "usp")[2] = <<0, 1>>
  /\ Len(LanesOf("A", "dsp1")) = 1
  /\ LanesOf("A", "dsp1")[1] = <<2, 0>>
  /\ Len(LanesOf("B", "dsp1")) = 2
  /\ LanesOf("B", "dsp1")[1] = <<1, 0>> /\ LanesOf("B", "dsp1")[2] = <<1, 1>>
  /\ Len(LanesOf("A", "dsp2")) = 1
  /\ LanesOf("A", "dsp2")[1] = <<3, 0>>
  /\ Len(LanesOf("B", "dsp2")) = 1
  /\ LanesOf("B", "dsp2")[1] = <<3, 0>>
BY DEF LanesOf

LEMMA LanesOfIs ==
  ASSUME NEW m \in Modes, NEW p \in Port
  PROVE  /\ Len(LanesOf(m, p)) \in {1, 2, 4}
         /\ LanesOf(m, p)[1][1] \in Cores
<1>1. /\ m = "A" \/ m = "B"
      /\ p = "usp" \/ p = "dsp1" \/ p = "dsp2"
  BY DEF Modes, Port
<1>2. 0 \in Cores /\ 1 \in Cores /\ 2 \in Cores /\ 3 \in Cores
  BY DEF Cores
<1>3. CASE p = "usp"
  BY <1>1, <1>2, <1>3, LanesAre
<1>4. CASE p = "dsp1"
  BY <1>1, <1>2, <1>4, LanesAre
<1>5. CASE p = "dsp2"
  BY <1>1, <1>2, <1>5, LanesAre
<1> QED BY <1>1, <1>3, <1>4, <1>5

LEMMA DfeIs ==
  ASSUME mode \in Modes, NEW p \in Port, NEW on \in BOOLEAN
  PROVE  Only(SetDfe(p, on), SettingRegs)
<1> DEFINE c == OneCore(p)
<1>1. c \in Cores
  BY LanesOfIs DEF OneCore
<1> HIDE DEF c
<1>2. {0, 1} \in SUBSET Cores /\ {c} \in SUBSET Cores /\ 0 \in Cores /\ 1 \in Cores
  BY <1>1 DEF Cores
<1>3. Only(DfeUsp4(on), SettingRegs)
  <2>1. /\ Core({0, 1}) \in Writes /\ Core({0, 1}).reg \in SettingRegs
        /\ Access({0, 1}) \in Writes /\ Access({0, 1}).reg \in SettingRegs
    BY <1>2, WriteTypes DEF SettingRegs
  <2>2. /\ Only(<<Core({0, 1})>>, SettingRegs)
        /\ Only(<<Core({0, 1}), Access({0, 1}), W("ctle", "init")>>, SettingRegs)
    BY <2>1, <1>2, DfeParts, OnlyOne, OnlyThree
  <2>3. CASE on
    <3> QED BY <1>2, <2>2, <2>3, DfeParts, OnlyConcat DEF DfeUsp4
  <2>4. CASE ~on
    <3> QED BY <1>2, <2>2, <2>4, DfeParts, OnlyConcat DEF DfeUsp4
  <2> QED BY <2>3, <2>4
<1>4. Only(DfeX1(c, on), SettingRegs)
  <2>1. Only(<<W("ctle", "init")>>, SettingRegs)
    BY <1>1, DfeParts, OnlyOne
  <2>2. CASE on
    BY <1>1, <2>1, <2>2, DfeParts, OnlyConcat DEF DfeX1
  <2>3. CASE ~on
    BY <1>1, <2>1, <2>3, DfeParts, OnlyConcat DEF DfeX1
  <2> QED BY <2>2, <2>3
<1>5. Only(DfeX2(c, on), SettingRegs)
  <2>1. /\ Core({c}) \in Writes /\ Core({c}).reg \in SettingRegs
        /\ Access({0, 1}) \in Writes /\ Access({0, 1}).reg \in SettingRegs
    BY <1>2, WriteTypes DEF SettingRegs
  <2>2. Only(<<Core({c}), Access({0, 1}), W("ctle", "init")>>, SettingRegs)
    BY <1>1, <2>1, DfeParts, OnlyThree
  <2>3. CASE on
    BY <1>1, <2>2, <2>3, DfeParts, OnlyConcat DEF DfeX2
  <2>4. CASE ~on
    BY <1>1, <2>2, <2>4, DfeParts, OnlyConcat DEF DfeX2
  <2> QED BY <2>3, <2>4
<1> QED BY <1>3, <1>4, <1>5, OnlyEmpty, LanesOfIs DEF SetDfe, c

LEMMA CtleIs ==
  ASSUME mode \in Modes, NEW p \in Port
  PROVE  Only(SetCtleFixed(p), SettingRegs)
<1> DEFINE c == OneCore(p)
<1>1. c \in Cores
  BY LanesOfIs DEF OneCore
<1> HIDE DEF c
<1>2. {0, 1} \in SUBSET Cores /\ {c} \in SUBSET Cores /\ 0 \in Cores /\ 1 \in Cores
      /\ {0} \in SUBSET Cores /\ {1} \in SUBSET Cores /\ {0, 1} \in SUBSET {0, 1}
  BY <1>1 DEF Cores
<1>3. /\ \A cs \in SUBSET Cores : Core(cs) \in Writes /\ Core(cs).reg \in SettingRegs
      /\ Access({0, 1}) \in Writes /\ Access({0, 1}).reg \in SettingRegs
      /\ W("ctle", "fixed") \in Writes /\ W("ctle", "fixed").reg \in SettingRegs
  BY <1>2, WriteTypes, DfeParts DEF SettingRegs
<1>4. Only(CtleUsp4, SettingRegs)
  <2>1. /\ Only(<<Core({0, 1})>>, SettingRegs)
        /\ Only(<<Core({1}), Access({0, 1})>>, SettingRegs)
        /\ Only(PllReset(FALSE), SettingRegs)
    BY <1>2, <1>3, DfeParts, OnlyOne
  <2> DEFINE long == <<Core({0}), Access({0, 1}), W("ctle", "fixed"),
                         Core({1}), Access({0, 1}), W("ctle", "fixed"),
                         Core({0}), Access({0, 1})>>
  <2>3. Only(long, SettingRegs)
    BY <1>2, <1>3 DEF Only
  <2> HIDE DEF long
  <2>4. CtleUsp4 = long \o DfeDisable(0) \o <<Core({1}), Access({0, 1})>> \o DfeDisable(1)
                     \o <<Core({0, 1})>> \o PllReset(FALSE)
    BY DEF CtleUsp4, long
  <2> QED BY <1>2, <2>1, <2>3, <2>4, DfeParts, OnlyConcat
<1>5. Only(CtleX1(c), SettingRegs)
  <2>1. Only(<<Core({c}), W("ctle", "fixed")>>, SettingRegs)
    BY <1>2, <1>3, OnlyTwo
  <2> QED BY <1>1, <2>1, DfeParts, OnlyConcat DEF CtleX1
<1>6. Only(CtleX2(c), SettingRegs)
  <2>1. Only(<<Core({c}), Access({0, 1}), W("ctle", "fixed"), Core({c}), Access({0, 1})>>, SettingRegs)
    BY <1>2, <1>3 DEF Only
  <2> QED BY <1>1, <2>1, DfeParts, OnlyConcat DEF CtleX2
<1> QED BY <1>4, <1>5, <1>6, OnlyEmpty, LanesOfIs DEF SetCtleFixed, c

-----------------------------------------------------------------------------
(* Widths: what is asleep, and what a lane change has still to do.         *)

Widths == {1, 2, 4}
MoveRegs == {"low_power", "wake", "clear", "request"}

\* The width port p has been told to have, or has.
Wanted(p) == IF req[p] # 0 THEN req[p] ELSE width[p]
Awake == \A p \in Port : \A l \in FirstLanes(p, Wanted(p)) : ~lane[l].asleep

HwOK ==
  /\ mode \in Modes /\ todo \in Seq(Writes)
  /\ DOMAIN lane = Lane /\ \A l \in Lane : "asleep" \in DOMAIN lane[l]
  /\ req \in [Port -> {0} \cup Widths] /\ width \in [Port -> Widths]
  /\ \A p \in Port : Wanted(p) <= Len(LanesOf(mode, p))
  /\ \A p \in Port : width[p] <= Len(LanesOf(mode, p))

\* Write i will reach the lanes a of core c.
Reaches(i, c, a) ==
  /\ i > 2 => todo[i - 2] = Core({c})
  /\ i > 1 => todo[i - 1] = Access(a)
  /\ i <= 2 => sel = {c}
  /\ i = 1 => acc[c] = a

\* The rest of a change of port p to width w: first the lanes of that width
\* are awake, then they are asked for, and then the others may sleep.
Goal(p, w, q) == IF q = p THEN w ELSE Wanted(q)
Asks(p, w) ==
  \A i \in 1 .. Len(todo) :
    /\ todo[i].reg = "clear" =>
         Settled /\ i < Len(todo) /\ todo[i + 1].reg = "request"
    /\ todo[i].reg = "request" =>
         /\ todo[i].val = <<p, w>>
         /\ IF i = 1 THEN \A q \in Port : req[q] = 0 ELSE todo[i - 1].reg = "clear"
         /\ \A j \in 1 .. Len(todo) :
              /\ todo[j].reg = "request" => j = i
              /\ todo[j].reg = "wake" => j < i
              /\ todo[j].reg = "low_power" => j > i
Sleeps(p, w) ==
  \A i \in 1 .. Len(todo) :
    todo[i].reg = "low_power" =>
      \E c \in Cores, a \in SUBSET {0, 1} :
        /\ Reaches(i, c, a)
        /\ \A x \in a : \A q \in Port : <<c, x>> \notin FirstLanes(q, Goal(p, w, q))
Wakes(p, w) ==
  \A i \in 1 .. Len(todo) :
    todo[i].reg = "request" =>
      \A l \in FirstLanes(p, w) :
        \/ ~lane[l].asleep
        \/ \E j \in 1 .. i - 1 : todo[j].reg = "wake" /\ Reaches(j, l[1], {0, 1})
Moving(p, w) ==
  /\ w <= Len(LanesOf(mode, p))
  /\ Asks(p, w) /\ Sleeps(p, w) /\ Wakes(p, w)
  /\ (\A i \in 1 .. Len(todo) : todo[i].reg # "request") => req[p] = w
Still == \A i \in 1 .. Len(todo) : todo[i].reg \notin MoveRegs

LaneInv ==
  /\ HwOK /\ Awake
  /\ Still \/ \E p \in Port, w \in Widths : Moving(p, w)

\* Lanes are lanes.
LEMMA FirstLanesIn ==
  ASSUME mode \in Modes, NEW p \in Port, NEW w \in Widths, w <= Len(LanesOf(mode, p))
  PROVE  FirstLanes(p, w) \subseteq Lane
<1>1. /\ mode = "A" \/ mode = "B"
      /\ p = "usp" \/ p = "dsp1" \/ p = "dsp2"
      /\ w = 1 \/ w = 2 \/ w = 4
  BY DEF Modes, Port, Widths
<1>2. /\ <<0, 0>> \in Lane /\ <<0, 1>> \in Lane /\ <<1, 0>> \in Lane /\ <<1, 1>> \in Lane
      /\ <<2, 0>> \in Lane /\ <<3, 0>> \in Lane
  BY DEF Lane
<1>3. \A i \in 1 .. Len(LanesOf(mode, p)) : LanesOf(mode, p)[i] \in Lane
  <2>1. CASE mode = "A" /\ p = "usp"
    <3>1. Len(LanesOf(mode, p)) = 4
      BY <2>1, LanesAre
    <3>2. LanesOf(mode, p)[1] \in Lane /\ LanesOf(mode, p)[2] \in Lane
          /\ LanesOf(mode, p)[3] \in Lane /\ LanesOf(mode, p)[4] \in Lane
      BY <1>2, <2>1, LanesAre
    <3>3. \A i \in 1 .. 4 : i = 1 \/ i = 2 \/ i = 3 \/ i = 4
      OBVIOUS
    <3> QED BY <3>1, <3>2, <3>3
  <2>2. CASE mode = "B" /\ p = "usp"
    <3>1. Len(LanesOf(mode, p)) = 2
      BY <2>2, LanesAre
    <3>2. LanesOf(mode, p)[1] \in Lane /\ LanesOf(mode, p)[2] \in Lane
      BY <1>2, <2>2, LanesAre
    <3>3. \A i \in 1 .. 2 : i = 1 \/ i = 2
      OBVIOUS
    <3> QED BY <3>1, <3>2, <3>3
  <2>3. CASE mode = "A" /\ p = "dsp1"
    <3>1. Len(LanesOf(mode, p)) = 1
      BY <2>3, LanesAre
    <3>2. LanesOf(mode, p)[1] \in Lane
      BY <1>2, <2>3, LanesAre
    <3>3. \A i \in 1 .. 1 : i = 1
      OBVIOUS
    <3> QED BY <3>1, <3>2, <3>3
  <2>4. CASE mode = "B" /\ p = "dsp1"
    <3>1. Len(LanesOf(mode, p)) = 2
      BY <2>4, LanesAre
    <3>2. LanesOf(mode, p)[1] \in Lane /\ LanesOf(mode, p)[2] \in Lane
      BY <1>2, <2>4, LanesAre
    <3>3. \A i \in 1 .. 2 : i = 1 \/ i = 2
      OBVIOUS
    <3> QED BY <3>1, <3>2, <3>3
  <2>5. CASE p = "dsp2"
    BY <1>1, <1>2, <2>5, LanesAre
  <2> QED BY <1>1, <2>1, <2>2, <2>3, <2>4, <2>5
<1>4. \A i \in 1 .. w : i \in 1 .. Len(LanesOf(mode, p))
  BY <1>1, LanesOfIs
<1> QED BY <1>3, <1>4 DEF FirstLanes

LEMMA AwakeReady == LaneInv => LanesReady
BY DEF LaneInv, Awake, Wanted, LanesReady

\* The rest of a program.
LEMMA RestIs ==
  ASSUME todo \in Seq(Writes), todo # <<>>, todo' = Tail(todo)
  PROVE  /\ Head(todo) = todo[1] /\ todo[1] \in Writes /\ Len(todo) \in Nat \ {0}
         /\ todo' \in Seq(Writes) /\ Len(todo') = Len(todo) - 1
         /\ \A i \in 1 .. Len(todo') : todo'[i] = todo[i + 1] /\ i + 1 \in 1 .. Len(todo)
BY HeadTailProperties

\* What a write does to the lanes.
SameLanes == \A l \in Lane : "asleep" \in DOMAIN lane'[l] /\ lane'[l].asleep = lane[l].asleep
LEMMA WriteDoes ==
  ASSUME HwOK, DoWrite, NEW w, w = Head(todo)
  PROVE  /\ DOMAIN lane' = Lane /\ \A l \in Lane : "asleep" \in DOMAIN lane'[l]
         /\ mode' = mode /\ width' = width /\ todo # <<>> /\ todo' = Tail(todo)
         /\ w.reg # "low_power" /\ w.reg # "wake" => SameLanes
         /\ w.reg = "low_power" =>
              \A l \in Lane : lane'[l].asleep = IF l \in Reach THEN TRUE ELSE lane[l].asleep
         /\ w.reg = "wake" =>
              \A l \in Lane : lane'[l].asleep = IF l \in Reach THEN FALSE ELSE lane[l].asleep
         /\ w.reg \notin {"clear", "request"} => req' = req
         /\ w.reg = "clear" => req' = [p \in Port |-> 0]
         /\ w.reg = "request" => req' = [req EXCEPT ![w.val[1]] = w.val[2]]
         /\ w.reg # "core" => sel' = sel
         /\ w.reg = "core" => sel' = w.val
         /\ w.reg # "access" => acc' = acc
         /\ w.reg = "access" => acc' = [c \in Cores |-> IF c \in sel THEN w.val ELSE acc[c]]
<1>0. todo # <<>> /\ todo' = Tail(todo) /\ mode' = mode
  BY DEF DoWrite
<1>1. CASE WriteSelect(w)
  BY <1>0, <1>1 DEF WriteSelect, HwOK, SameLanes
<1>2. CASE WriteCore(w)
  BY <1>0, <1>2 DEF WriteCore, HwOK, SameLanes
<1>3. CASE WriteRequest(w)
  BY <1>0, <1>3 DEF WriteRequest, HwOK, SameLanes
<1>4. CASE WriteConfig(w)
  BY <1>0, <1>4 DEF WriteConfig, HwOK, SameLanes
<1>5. CASE WriteLane(w)
  <2>1. w.reg \in {"low_power", "wake", "deemph", "eq", "eq1", "ctle", "copy"}
        /\ UNCHANGED <<sel, acc, req, width>>
    BY <1>5 DEF WriteLane
  <2>2. DOMAIN lane' = Lane /\ \A l \in Lane : "asleep" \in DOMAIN lane'[l]
    BY <1>5 DEF WriteLane, Lanes, HwOK
  <2>3. CASE w.reg = "low_power"
    BY <1>0, <1>5, <2>1, <2>2, <2>3 DEF WriteLane, Lanes, HwOK
  <2>4. CASE w.reg = "wake"
    BY <1>0, <1>5, <2>1, <2>2, <2>4 DEF WriteLane, Lanes, HwOK
  <2>5. CASE w.reg \in {"deemph", "eq", "eq1"}
    BY <1>0, <1>5, <2>1, <2>2, <2>5 DEF WriteLane, Lanes, HwOK, SameLanes
  <2>6. CASE w.reg \in {"ctle", "copy"}
    BY <1>0, <1>5, <2>1, <2>2, <2>6 DEF WriteLane, Lanes, HwOK, SameLanes
  <2> QED BY <2>1, <2>3, <2>4, <2>5, <2>6
<1> QED BY <1>1, <1>2, <1>3, <1>4, <1>5 DEF DoWrite

\* What a write reaches is kept by the writes before it.
LEMMA ReachesNext ==
  ASSUME HwOK, DoWrite, NEW c \in Cores, NEW a \in SUBSET {0, 1},
         NEW i \in 1 .. Len(todo'), Reaches(i + 1, c, a)
  PROVE  Reaches(i, c, a)'
<1> DEFINE w == Head(todo)
<1>1. /\ Head(todo) = todo[1] /\ todo \in Seq(Writes) /\ todo # <<>> /\ todo' = Tail(todo)
      /\ Len(todo') = Len(todo) - 1 /\ Len(todo) \in Nat \ {0}
      /\ \A k \in 1 .. Len(todo') : todo'[k] = todo[k + 1]
  BY RestIs DEF HwOK, DoWrite
<1>2. /\ w.reg # "core" => sel' = sel
      /\ w.reg = "core" => sel' = w.val
      /\ w.reg # "access" => acc' = acc
      /\ w.reg = "access" => acc' = [d \in Cores |-> IF d \in sel THEN w.val ELSE acc[d]]
  BY WriteDoes
<1>3. /\ {c} \in SUBSET Cores
      /\ Core({c}).reg = "core" /\ Core({c}).val = {c}
      /\ Access(a).reg = "access" /\ Access(a).val = a
  BY WriteTypes
<1>4. CASE i = 1
  <2>1. w = Access(a) /\ sel = {c}
    BY <1>1, <1>4 DEF Reaches
  <2>2. sel' = {c} /\ acc'[c] = a
    BY <1>2, <1>3, <2>1
  <2> QED BY <1>4, <2>2 DEF Reaches
<1>5. CASE i = 2
  <2>1. w = Core({c}) /\ todo[2] = Access(a)
    BY <1>1, <1>5 DEF Reaches
  <2>2. sel' = {c}
    BY <1>2, <1>3, <2>1
  <2>3. todo'[1] = Access(a)
    BY <1>1, <1>5, <2>1
  <2> QED BY <1>5, <2>2, <2>3 DEF Reaches
<1>6. CASE i > 2
  <2>1. todo[i - 1] = Core({c}) /\ todo[i] = Access(a)
    BY <1>6 DEF Reaches
  <2>2. todo'[i - 2] = todo[i - 1] /\ todo'[i - 1] = todo[i]
    BY <1>1, <1>6
  <2> QED BY <1>6, <2>1, <2>2 DEF Reaches
<1> QED BY <1>4, <1>5, <1>6

LEMMA ReachesNow ==
  ASSUME NEW c, NEW a \in SUBSET {0, 1}, Reaches(1, c, a), NEW x, <<c, x>> \in Lane
  PROVE  <<c, x>> \in Reach <=> x \in a
BY DEF Reaches, Reach

\* A program that changes no width.
LEMMA StillNext ==
  ASSUME HwOK, Awake, Still, DoWrite
  PROVE  LaneInv'
<1> DEFINE w == Head(todo)
<1>1. /\ w = todo[1] /\ todo \in Seq(Writes) /\ todo # <<>> /\ todo' = Tail(todo)
      /\ todo' \in Seq(Writes) /\ Len(todo) \in Nat \ {0}
      /\ \A i \in 1 .. Len(todo') : todo'[i] = todo[i + 1] /\ i + 1 \in 1 .. Len(todo)
  BY RestIs DEF HwOK, DoWrite
<1>2. w.reg \notin MoveRegs
  BY <1>1 DEF Still
<1>3. /\ DOMAIN lane' = Lane /\ \A l \in Lane : "asleep" \in DOMAIN lane'[l]
      /\ mode' = mode /\ width' = width /\ req' = req /\ SameLanes
  BY <1>2, WriteDoes DEF MoveRegs
<1>4. \A p \in Port : Wanted(p)' = Wanted(p) /\ FirstLanes(p, Wanted(p))' = FirstLanes(p, Wanted(p))
  BY <1>3 DEF Wanted, FirstLanes
<1>5. HwOK'
  BY <1>1, <1>3, <1>4 DEF HwOK
<1>6. Awake'
  <2> SUFFICES ASSUME NEW p \in Port, NEW l \in FirstLanes(p, Wanted(p)) PROVE ~lane'[l].asleep
    BY <1>4 DEF Awake
  <2>1. Wanted(p) \in Widths /\ Wanted(p) <= Len(LanesOf(mode, p))
    BY DEF HwOK, Wanted
  <2>2. l \in Lane
    BY <2>1, FirstLanesIn DEF HwOK
  <2> QED BY <1>3, <2>2 DEF Awake, SameLanes
<1>7. Still'
  BY <1>1 DEF Still
<1> QED BY <1>5, <1>6, <1>7 DEF LaneInv

\* The steps of a lane change.  First what is left to sleep, then what is left
\* to wake, then the requests, and the lanes.
LEMMA SleepsNext ==
  ASSUME HwOK, DoWrite, NEW p \in Port, NEW w \in Widths, Sleeps(p, w),
         \A q \in Port : q # p => Wanted(q)' = Wanted(q)
  PROVE  Sleeps(p, w)'
<1>1. /\ todo \in Seq(Writes) /\ todo # <<>> /\ todo' = Tail(todo) /\ mode' = mode
      /\ \A i \in 1 .. Len(todo') : todo'[i] = todo[i + 1] /\ i + 1 \in 1 .. Len(todo)
  BY RestIs DEF HwOK, DoWrite
<1>2. \A q \in Port : Goal(p, w, q)' = Goal(p, w, q)
  BY DEF Goal
<1>3. \A q \in Port : FirstLanes(q, Goal(p, w, q))' = FirstLanes(q, Goal(p, w, q))
  BY <1>1, <1>2 DEF FirstLanes
<1> SUFFICES ASSUME NEW i \in 1 .. Len(todo'), todo'[i].reg = "low_power"
             PROVE  \E c \in Cores, a \in SUBSET {0, 1} :
                      /\ Reaches(i, c, a)'
                      /\ \A x \in a : \A q \in Port : <<c, x>> \notin FirstLanes(q, Goal(p, w, q))'
  BY DEF Sleeps
<1>4. PICK c \in Cores, a \in SUBSET {0, 1} :
        /\ Reaches(i + 1, c, a)
        /\ \A x \in a : \A q \in Port : <<c, x>> \notin FirstLanes(q, Goal(p, w, q))
  BY <1>1 DEF Sleeps
<1>5. Reaches(i, c, a)'
  BY <1>4, ReachesNext
<1> QED BY <1>3, <1>4, <1>5

LEMMA WakesNext ==
  ASSUME HwOK, DoWrite, NEW p \in Port, NEW w \in Widths, Wakes(p, w), w <= Len(LanesOf(mode, p)),
         Head(todo).reg # "low_power"
  PROVE  Wakes(p, w)'
<1>1. /\ todo \in Seq(Writes) /\ todo # <<>> /\ todo' = Tail(todo) /\ mode' = mode
      /\ Head(todo) = todo[1] /\ Len(todo) \in Nat /\ Len(todo') = Len(todo) - 1
      /\ \A i \in 1 .. Len(todo') : todo'[i] = todo[i + 1] /\ i + 1 \in 1 .. Len(todo)
  BY RestIs DEF HwOK, DoWrite
<1>2. FirstLanes(p, w)' = FirstLanes(p, w) /\ FirstLanes(p, w) \subseteq Lane
  BY <1>1, FirstLanesIn DEF FirstLanes, HwOK
<1>3. \A l \in Lane : ~lane[l].asleep => ~lane'[l].asleep
  <2>1. /\ Head(todo).reg # "wake" => SameLanes
        /\ Head(todo).reg = "wake" =>
              \A l \in Lane : lane'[l].asleep = IF l \in Reach THEN FALSE ELSE lane[l].asleep
    BY WriteDoes
  <2> QED BY <2>1 DEF SameLanes
<1>4. Head(todo).reg = "wake" => \A l \in Lane : l \in Reach => ~lane'[l].asleep
  BY WriteDoes
<1> SUFFICES ASSUME NEW i \in 1 .. Len(todo'), todo'[i].reg = "request",
                    NEW l \in FirstLanes(p, w), lane'[l].asleep
             PROVE  \E j \in 1 .. i - 1 : todo'[j].reg = "wake" /\ Reaches(j, l[1], {0, 1})'
  BY <1>2 DEF Wakes
<1>5. PICK j \in 1 .. (i + 1) - 1 : todo[j].reg = "wake" /\ Reaches(j, l[1], {0, 1})
  BY <1>1, <1>2, <1>3 DEF Wakes
<1>6. l \in Lane /\ l = <<l[1], l[2]>> /\ l[1] \in Cores /\ l[2] \in {0, 1}
  BY <1>2 DEF Lane, Cores
<1>7. j # 1
  <2> SUFFICES ASSUME j = 1 PROVE FALSE
    OBVIOUS
  <2>1. Reaches(1, l[1], {0, 1}) /\ Head(todo).reg = "wake"
    BY <1>1, <1>5
  <2>2. l \in Reach
    BY <1>6, <2>1 DEF Reaches, Reach
  <2> QED BY <1>4, <1>6, <2>1, <2>2
<1>8. /\ j - 1 \in 1 .. i - 1 /\ j - 1 \in 1 .. Len(todo')
      /\ todo'[j - 1] = todo[(j - 1) + 1] /\ (j - 1) + 1 = j
  BY <1>1, <1>5, <1>7
<1>9. Reaches(j - 1, l[1], {0, 1})'
  <2>1. {0, 1} \in SUBSET {0, 1} /\ Reaches((j - 1) + 1, l[1], {0, 1})
    BY <1>5, <1>8
  <2> QED BY <1>6, <1>8, <2>1, ReachesNext
<1> QED BY <1>5, <1>8, <1>9

LEMMA AsksNext ==
  ASSUME HwOK, DoWrite, NEW p \in Port, NEW w \in Widths, Asks(p, w)
  PROVE  Asks(p, w)'
<1> DEFINE h == Head(todo)
<1>1. /\ todo \in Seq(Writes) /\ todo # <<>> /\ todo' = Tail(todo)
      /\ h = todo[1] /\ Len(todo) \in Nat \ {0} /\ Len(todo') = Len(todo) - 1
      /\ \A i \in 1 .. Len(todo') : todo'[i] = todo[i + 1] /\ i + 1 \in 1 .. Len(todo)
  BY RestIs DEF HwOK, DoWrite
<1> HIDE DEF h
<1>2. /\ width' = width
      /\ h.reg \notin {"clear", "request"} => req' = req
      /\ h.reg = "clear" => req' = [q \in Port |-> 0]
  BY WriteDoes DEF h
<1>3. ASSUME NEW i \in 1 .. Len(todo'), todo'[i].reg = "clear"
      PROVE  Settled' /\ i < Len(todo') /\ todo'[i + 1].reg = "request"
  <2>1. /\ i + 1 \in 1 .. Len(todo) /\ todo[i + 1].reg = "clear"
        /\ Settled /\ i + 1 < Len(todo) /\ todo[i + 2].reg = "request"
    BY <1>1, <1>3 DEF Asks
  <2>2. i + 2 \in 1 .. Len(todo) /\ i + 2 # 1 /\ i + 2 # 2
    BY <1>1, <2>1
  <2>3. h.reg # "request"
    BY <1>1, <2>1, <2>2 DEF Asks
  <2>4. h.reg # "clear"
    <3> SUFFICES ASSUME h.reg = "clear" PROVE FALSE
      OBVIOUS
    <3>1. todo[2].reg = "request" /\ 2 \in 1 .. Len(todo)
      BY <1>1, <2>2 DEF Asks
    <3> QED BY <2>1, <2>2, <3>1 DEF Asks
  <2>5. req' = req
    BY <1>2, <2>3, <2>4
  <2>6. i + 1 \in 1 .. Len(todo') /\ todo'[i + 1] = todo[i + 2]
    BY <1>1, <2>1
  <2> QED BY <1>1, <1>2, <2>1, <2>5, <2>6 DEF Settled
<1>4. ASSUME NEW i \in 1 .. Len(todo'), todo'[i].reg = "request"
      PROVE  /\ todo'[i].val = <<p, w>>
             /\ IF i = 1 THEN \A q \in Port : req'[q] = 0 ELSE todo'[i - 1].reg = "clear"
             /\ \A j \in 1 .. Len(todo') :
                  /\ todo'[j].reg = "request" => j = i
                  /\ todo'[j].reg = "wake" => j < i
                  /\ todo'[j].reg = "low_power" => j > i
  <2>1. /\ i + 1 \in 1 .. Len(todo) /\ todo[i + 1].reg = "request" /\ i + 1 # 1
        /\ todo'[i] = todo[i + 1]
    BY <1>1, <1>4
  <2>2. /\ todo[i + 1].val = <<p, w>> /\ todo[(i + 1) - 1].reg = "clear"
        /\ \A j \in 1 .. Len(todo) :
             /\ todo[j].reg = "request" => j = i + 1
             /\ todo[j].reg = "wake" => j < i + 1
             /\ todo[j].reg = "low_power" => j > i + 1
    BY <2>1 DEF Asks
  <2>3. CASE i = 1
    <3>1. \A q \in Port : req'[q] = 0
      BY <1>1, <1>2, <2>2, <2>3
    <3> QED BY <1>1, <2>1, <2>2, <2>3, <3>1
  <2>4. CASE i > 1
    <3>1. todo'[i - 1].reg = "clear"
      BY <1>1, <2>2, <2>4
    <3> QED BY <1>1, <2>1, <2>2, <2>4, <3>1
  <2> QED BY <2>3, <2>4
<1> QED BY <1>3, <1>4 DEF Asks

LEMMA MovingNext ==
  ASSUME HwOK, Awake, DoWrite, NEW p \in Port, NEW w \in Widths, Moving(p, w)
  PROVE  LaneInv'
<1> DEFINE h == Head(todo)
<1>1. /\ todo \in Seq(Writes) /\ todo # <<>> /\ todo' = Tail(todo) /\ todo' \in Seq(Writes)
      /\ h = todo[1] /\ Len(todo) \in Nat \ {0} /\ 1 \in 1 .. Len(todo)
      /\ \A i \in 1 .. Len(todo') : todo'[i] = todo[i + 1] /\ i + 1 \in 1 .. Len(todo)
  BY RestIs DEF HwOK, DoWrite
<1> HIDE DEF h
<1>2. /\ DOMAIN lane' = Lane /\ \A l \in Lane : "asleep" \in DOMAIN lane'[l]
      /\ mode' = mode /\ width' = width
      /\ h.reg # "low_power" /\ h.reg # "wake" => SameLanes
      /\ h.reg = "low_power" =>
           \A l \in Lane : lane'[l].asleep = IF l \in Reach THEN TRUE ELSE lane[l].asleep
      /\ h.reg = "wake" =>
           \A l \in Lane : lane'[l].asleep = IF l \in Reach THEN FALSE ELSE lane[l].asleep
      /\ h.reg \notin {"clear", "request"} => req' = req
      /\ h.reg = "clear" => req' = [q \in Port |-> 0]
      /\ h.reg = "request" => req' = [req EXCEPT ![h.val[1]] = h.val[2]]
  BY WriteDoes DEF h
<1>3. /\ mode \in Modes /\ w <= Len(LanesOf(mode, p))
      /\ req \in [Port -> {0} \cup Widths] /\ width \in [Port -> Widths]
      /\ \A q \in Port : /\ Wanted(q) \in Widths /\ Wanted(q) <= Len(LanesOf(mode, q))
                         /\ width[q] <= Len(LanesOf(mode, q))
  BY DEF HwOK, Moving, Wanted
<1>4. Asks(p, w)'
  BY AsksNext DEF Moving
<1>5. h.reg = "request" => /\ h.val = <<p, w>> /\ \A q \in Port : req[q] = 0
                           /\ \A l \in FirstLanes(p, w) : ~lane[l].asleep
  <2> SUFFICES ASSUME h.reg = "request"
               PROVE  /\ h.val = <<p, w>> /\ \A q \in Port : req[q] = 0
                      /\ \A l \in FirstLanes(p, w) : ~lane[l].asleep
    OBVIOUS
  <2>1. h.val = <<p, w>> /\ \A q \in Port : req[q] = 0
    BY <1>1 DEF Moving, Asks
  <2>2. \A l \in FirstLanes(p, w) : ~lane[l].asleep
    BY <1>1 DEF Moving, Wakes
  <2> QED BY <2>1, <2>2
<1>6. h.reg = "clear" => Settled
  BY <1>1 DEF Moving, Asks
<1>7. \A q \in Port : (q # p \/ h.reg # "request") => Wanted(q)' = Wanted(q)
  <2>1. CASE h.reg = "request"
    <3>1. req' = [req EXCEPT ![p] = w]
      BY <1>2, <1>5, <2>1
    <3> QED BY <1>2, <1>3, <2>1, <3>1 DEF Wanted
  <2>2. CASE h.reg = "clear"
    <3>1. \A q \in Port : req'[q] = 0 /\ (req[q] # 0 => width[q] = req[q])
      BY <1>2, <1>6, <2>2 DEF Settled
    <3> QED BY <1>2, <3>1 DEF Wanted
  <2>3. CASE h.reg \notin {"clear", "request"}
    BY <1>2, <2>3 DEF Wanted
  <2> QED BY <2>1, <2>2, <2>3
<1>8. h.reg = "request" => Wanted(p)' = w /\ req'[p] = w
  BY <1>2, <1>3, <1>5 DEF Wanted, Widths
<1>9. HwOK'
  <2>1. req' \in [Port -> {0} \cup Widths]
    <3>1. CASE h.reg = "request"
      BY <1>2, <1>3, <1>5, <3>1
    <3>2. CASE h.reg = "clear"
      BY <1>2, <3>2
    <3>3. CASE h.reg \notin {"clear", "request"}
      BY <1>2, <1>3, <3>3
    <3> QED BY <3>1, <3>2, <3>3
  <2>2. \A q \in Port : Wanted(q)' <= Len(LanesOf(mode, q))
    BY <1>3, <1>7, <1>8
  <2> QED BY <1>1, <1>2, <1>3, <2>1, <2>2 DEF HwOK
<1>10. Sleeps(p, w)'
  BY <1>7, SleepsNext DEF Moving
<1>11. (\A i \in 1 .. Len(todo') : todo'[i].reg # "request") => req'[p] = w
  <2> SUFFICES ASSUME \A i \in 1 .. Len(todo') : todo'[i].reg # "request", h.reg # "request"
               PROVE  req'[p] = w
    BY <1>8
  <2>1. \A i \in 1 .. Len(todo) : i > 1 => i - 1 \in 1 .. Len(todo') /\ todo[i] = todo'[i - 1]
    BY RestIs DEF HwOK, DoWrite
  <2>2. \A i \in 1 .. Len(todo) : todo[i].reg # "request"
    BY <1>1, <2>1
  <2>3. h.reg # "clear"
    <3>1. h.reg = "clear" => 1 < Len(todo) /\ todo[2].reg = "request"
      BY <1>1 DEF Moving, Asks
    <3> QED BY <1>1, <2>2, <3>1
  <2> QED BY <1>2, <2>2, <2>3 DEF Moving
<1>12. Awake' /\ Wakes(p, w)'
  <2>0. \A q \in Port, n \in Widths : n <= Len(LanesOf(mode, q)) =>
          FirstLanes(q, n) \subseteq Lane
    BY <1>3, FirstLanesIn
  <2>1. CASE h.reg = "low_power"
    <3>1. \A i \in 1 .. Len(todo) : todo[i].reg # "request"
      <4> SUFFICES ASSUME NEW i \in 1 .. Len(todo), todo[i].reg = "request" PROVE FALSE
        OBVIOUS
      <4>1. 1 > i
        BY <1>1, <2>1 DEF Moving, Asks
      <4> QED BY <4>1
    <3>2. Wakes(p, w)'
      BY <1>1, <3>1 DEF Wakes
    <3>3. req[p] = w /\ w # 0
      BY <3>1 DEF Moving, Widths
    <3>4. \A q \in Port : Goal(p, w, q) = Wanted(q)
      BY <3>3 DEF Goal, Wanted
    <3>5. PICK c \in Cores, a \in SUBSET {0, 1} :
            /\ Reaches(1, c, a)
            /\ \A x \in a : \A q \in Port : <<c, x>> \notin FirstLanes(q, Goal(p, w, q))
      BY <1>1, <2>1 DEF Moving, Sleeps
    <3>6. \A l \in Reach : \A q \in Port : l \notin FirstLanes(q, Wanted(q))
      <4> SUFFICES ASSUME NEW l \in Reach PROVE \A q \in Port : l \notin FirstLanes(q, Wanted(q))
        OBVIOUS
      <4>1. l = <<c, l[2]>> /\ l[2] \in a
        BY <3>5 DEF Reach, Reaches, Lane
      <4> QED BY <3>4, <3>5, <4>1
    <3>7. Awake'
      <4> SUFFICES ASSUME NEW q \in Port, NEW l \in FirstLanes(q, Wanted(q))
                   PROVE  ~lane'[l].asleep
        BY <1>2, <1>7, <2>1 DEF Awake, FirstLanes
      <4>1. l \in Lane /\ l \notin Reach /\ ~lane[l].asleep
        BY <1>3, <2>0, <3>6 DEF Awake
      <4> QED BY <1>2, <2>1, <4>1
    <3> QED BY <3>2, <3>7
  <2>2. CASE h.reg # "low_power"
    <3>1. Wakes(p, w)'
      BY <2>2, WakesNext DEF Moving, h
    <3>2. \A l \in Lane : ~lane[l].asleep => ~lane'[l].asleep
      <4>1. CASE h.reg = "wake"
        BY <1>2, <4>1
      <4>2. CASE h.reg # "wake"
        BY <1>2, <2>2, <4>2 DEF SameLanes
      <4> QED BY <4>1, <4>2
    <3>3. \A q \in Port : \A l \in FirstLanes(q, Wanted(q)') : l \in Lane /\ ~lane[l].asleep
      <4> SUFFICES ASSUME NEW q \in Port, NEW l \in FirstLanes(q, Wanted(q)')
                   PROVE  l \in Lane /\ ~lane[l].asleep
        OBVIOUS
      <4>1. CASE q = p /\ h.reg = "request"
        BY <1>3, <1>5, <1>8, <2>0, <4>1
      <4>2. CASE q # p \/ h.reg # "request"
        BY <1>3, <1>7, <2>0, <4>2 DEF Awake
      <4> QED BY <4>1, <4>2
    <3>4. Awake'
      BY <1>2, <3>2, <3>3 DEF Awake, FirstLanes
    <3> QED BY <3>1, <3>4
  <2> QED BY <2>1, <2>2
<1>13. Moving(p, w)'
  BY <1>2, <1>3, <1>4, <1>10, <1>11, <1>12 DEF Moving
<1> QED BY <1>9, <1>12, <1>13 DEF LaneInv

-----------------------------------------------------------------------------
(* What tc956xmac_pcie_lane_change begins.                                 *)

Before(s, i, c, a) == i > 2 /\ s[i - 2] = Core({c}) /\ s[i - 1] = Access(a)
Spared(p, w, c, a) ==
  \A x \in a : <<c, x>> \notin FirstLanes(p, w) /\ \A q \in Port : q # p => <<c, x>> \notin AllLanes(q)
\* Write r asks for width w of port p, the lanes it needs have been woken
\* unless they are in use, and only others go to sleep.
Moves(s, p, w, r) ==
  /\ Only(s, LaneRegs) /\ w <= Len(LanesOf(mode, p))
  /\ r \in 2 .. Len(s) /\ s[r].reg = "request" /\ s[r].val = <<p, w>> /\ s[r - 1].reg = "clear"
  /\ \A i \in 1 .. Len(s) :
       /\ s[i].reg = "clear" => i = r - 1
       /\ s[i].reg = "request" => i = r
       /\ s[i].reg = "wake" => i < r
       /\ s[i].reg = "low_power" =>
            i > r /\ \E c \in Cores, a \in SUBSET {0, 1} : Before(s, i, c, a) /\ Spared(p, w, c, a)
  /\ \A l \in FirstLanes(p, w) :
       \/ l \in FirstLanes(p, width[p])
       \/ \E j \in 1 .. r - 1 : s[j].reg = "wake" /\ Before(s, j, l[1], {0, 1})

LEMMA MovesBegin ==
  ASSUME HwOK, Awake, Settled, UNCHANGED <<mode, hw>>,
         NEW p \in Port, NEW w \in Widths, NEW r, Moves(todo', p, w, r)
  PROVE  LaneInv'
<1>1. /\ mode' = mode /\ lane' = lane /\ req' = req /\ width' = width
      /\ mode \in Modes /\ width \in [Port -> Widths]
      /\ \A q \in Port : /\ width[q] <= Len(LanesOf(mode, q)) /\ Wanted(q) = width[q]
                         /\ Wanted(q)' = Wanted(q)
  BY DEF hw, HwOK, Settled, Wanted
<1>2. HwOK' /\ Awake'
  BY <1>1 DEF HwOK, Awake, Moves, FirstLanes, Only
<1>3. Settled'
  BY <1>1 DEF Settled
<1>4. /\ todo' \in Seq(Writes) /\ r \in 2 .. Len(todo') /\ Len(todo') \in Nat
      /\ todo'[r].reg = "request" /\ todo'[r].val = <<p, w>> /\ todo'[r - 1].reg = "clear"
      /\ \A i \in 1 .. Len(todo') :
           /\ todo'[i].reg = "clear" => i = r - 1
           /\ todo'[i].reg = "request" => i = r
           /\ todo'[i].reg = "wake" => i < r
           /\ todo'[i].reg = "low_power" => i > r
  BY DEF Moves, Only
<1>5. Asks(p, w)'
  BY <1>3, <1>4 DEF Asks
<1>6. Sleeps(p, w)'
  <2> SUFFICES ASSUME NEW i \in 1 .. Len(todo'), todo'[i].reg = "low_power"
               PROVE  \E c \in Cores, a \in SUBSET {0, 1} :
                        /\ Reaches(i, c, a)'
                        /\ \A x \in a : \A q \in Port : <<c, x>> \notin FirstLanes(q, Goal(p, w, q))'
    BY DEF Sleeps
  <2>1. PICK c \in Cores, a \in SUBSET {0, 1} : Before(todo', i, c, a) /\ Spared(p, w, c, a)
    BY DEF Moves
  <2>2. Reaches(i, c, a)'
    BY <2>1 DEF Before, Reaches
  <2>3. \A q \in Port : FirstLanes(q, Goal(p, w, q))' = FirstLanes(q, Goal(p, w, q))
    BY <1>1 DEF Goal, FirstLanes
  <2>4. \A q \in Port : q # p => FirstLanes(q, Goal(p, w, q)) \subseteq AllLanes(q)
    <3> SUFFICES ASSUME NEW q \in Port, q # p PROVE FirstLanes(q, width[q]) \subseteq AllLanes(q)
      BY <1>1 DEF Goal
    <3>1. \A n \in 1 .. width[q] : n \in 1 .. Len(LanesOf(mode, q))
      BY <1>1, LanesOfIs DEF Widths
    <3> QED BY <3>1 DEF FirstLanes, AllLanes
  <2>5. FirstLanes(p, Goal(p, w, p)) = FirstLanes(p, w)
    BY DEF Goal
  <2>6. \A x \in a : \A q \in Port : <<c, x>> \notin FirstLanes(q, Goal(p, w, q))'
    BY <2>1, <2>3, <2>4, <2>5 DEF Spared
  <2> QED BY <2>2, <2>6
<1>7. Wakes(p, w)'
  <2> SUFFICES ASSUME NEW i \in 1 .. Len(todo'), todo'[i].reg = "request", NEW l \in FirstLanes(p, w),
                      lane'[l].asleep
               PROVE  \E j \in 1 .. i - 1 : todo'[j].reg = "wake" /\ Reaches(j, l[1], {0, 1})'
    BY <1>1 DEF Wakes, FirstLanes
  <2>1. i = r /\ l \notin FirstLanes(p, width[p])
    BY <1>1, <1>4 DEF Awake
  <2>2. PICK j \in 1 .. r - 1 : todo'[j].reg = "wake" /\ Before(todo', j, l[1], {0, 1})
    BY <2>1 DEF Moves
  <2>3. Reaches(j, l[1], {0, 1})'
    BY <2>2 DEF Before, Reaches
  <2> QED BY <2>1, <2>2, <2>3
<1>8. Moving(p, w)'
  BY <1>1, <1>4, <1>5, <1>6, <1>7 DEF Moving, Moves
<1> QED BY <1>2, <1>8 DEF LaneInv

\* The request, and a group of lanes put to sleep or woken.
LEMMA RequestIs ==
  ASSUME NEW p \in Port, NEW w \in Widths
  PROVE  /\ Request(p, w) \in Seq(Writes) /\ Len(Request(p, w)) = 2
         /\ Request(p, w)[1].reg = "clear" /\ Request(p, w)[2].reg = "request"
         /\ Request(p, w)[2].val = <<p, w>>
<1>1. <<p, w>> \in PortWidths
  BY DEF PortWidths, Widths
<1>2. <<p, w>> \in Vals /\ 0 \in Vals
  BY <1>1 DEF Vals
<1> QED BY <1>2 DEF Request, W, Writes, Regs, LaneRegs

LEMMA GroupIs ==
  ASSUME NEW c \in Cores, NEW a \in SUBSET {0, 1}
  PROVE  /\ Core({c}) \in Writes /\ Access(a) \in Writes /\ LowPower \in Writes /\ WakeUp \in Writes
         /\ Core({c}).reg = "core" /\ Access(a).reg = "access"
         /\ LowPower.reg = "low_power" /\ WakeUp.reg = "wake"
<1>1. {c} \in SUBSET Cores
  OBVIOUS
<1> QED BY <1>1, WriteTypes

LEMMA SleepOne ==
  ASSUME NEW p \in Port, NEW w \in Widths, w <= Len(LanesOf(mode, p)),
         NEW c \in Cores, NEW a \in SUBSET {0, 1}, Spared(p, w, c, a),
         FirstLanes(p, w) \subseteq FirstLanes(p, width[p])
  PROVE  Moves(Request(p, w) \o <<Core({c}), Access(a), LowPower>>, p, w, 2)
<1> DEFINE t == <<Core({c}), Access(a), LowPower>>
           s == Request(p, w) \o t
<1>1. /\ t \in Seq(Writes) /\ Len(t) = 3 /\ t[1] = Core({c}) /\ t[2] = Access(a) /\ t[3] = LowPower
  <2>1. Core({c}) \in Writes /\ Access(a) \in Writes /\ LowPower \in Writes
    BY GroupIs
  <2> QED BY <2>1
<1> HIDE DEF t
<1>2. /\ s \in Seq(Writes) /\ Len(s) = 5
      /\ s[1] = Request(p, w)[1] /\ s[2] = Request(p, w)[2]
      /\ s[3] = Core({c}) /\ s[4] = Access(a) /\ s[5] = LowPower
  <2>1. Request(p, w) \in Seq(Writes) /\ Len(Request(p, w)) = 2
    BY RequestIs
  <2>2. /\ s \in Seq(Writes) /\ Len(s) = Len(Request(p, w)) + Len(t)
        /\ \A i \in 1 .. Len(Request(p, w)) + Len(t)  :
             s[i] = IF i <= Len(Request(p, w)) THEN Request(p, w)[i] ELSE t[i - Len(Request(p, w))]
    BY <1>1, <2>1, ConcatProperties
  <2> HIDE DEF s
  <2>3. /\ s \in Seq(Writes) /\ Len(s) = 5
        /\ \A i \in 1 .. 5 : s[i] = IF i <= 2 THEN Request(p, w)[i] ELSE t[i - 2]
    BY <1>1, <2>1, <2>2
  <2> QED BY <1>1, <2>3
<1> HIDE DEF s
<1>3. Before(s, 5, c, a)
  BY <1>2 DEF Before
<1>4. Moves(s, p, w, 2)
  BY <1>2, <1>3, RequestIs, GroupIs DEF Moves, Only, LaneRegs
<1> QED BY <1>4 DEF s, t

LEMMA WakeOne ==
  ASSUME NEW p \in Port, NEW w \in Widths, w <= Len(LanesOf(mode, p)), NEW c \in Cores,
         \A l \in FirstLanes(p, w) : l[1] = c
  PROVE  Moves(<<Core({c}), Access({0, 1}), WakeUp>> \o Request(p, w), p, w, 5)
<1> DEFINE t == <<Core({c}), Access({0, 1}), WakeUp>>
           s == t \o Request(p, w)
<1>1. /\ t \in Seq(Writes) /\ Len(t) = 3 /\ t[1] = Core({c}) /\ t[2] = Access({0, 1}) /\ t[3] = WakeUp
  <2>1. Core({c}) \in Writes /\ Access({0, 1}) \in Writes /\ WakeUp \in Writes
    BY GroupIs
  <2> QED BY <2>1
<1> HIDE DEF t
<1>2. /\ s \in Seq(Writes) /\ Len(s) = 5
      /\ s[1] = Core({c}) /\ s[2] = Access({0, 1}) /\ s[3] = WakeUp
      /\ s[4] = Request(p, w)[1] /\ s[5] = Request(p, w)[2]
  <2>1. Request(p, w) \in Seq(Writes) /\ Len(Request(p, w)) = 2
    BY RequestIs
  <2>2. /\ s \in Seq(Writes) /\ Len(s) = Len(t) + Len(Request(p, w))
        /\ \A i \in 1 .. Len(t) + Len(Request(p, w))  :
             s[i] = IF i <= Len(t) THEN t[i] ELSE Request(p, w)[i - Len(t)]
    BY <1>1, <2>1, ConcatProperties
  <2> HIDE DEF s
  <2>3. /\ s \in Seq(Writes) /\ Len(s) = 5
        /\ \A i \in 1 .. 5 : s[i] = IF i <= 3 THEN t[i] ELSE Request(p, w)[i - 3]
    BY <1>1, <2>1, <2>2
  <2> QED BY <1>1, <2>3
<1> HIDE DEF s
<1>3. Before(s, 3, c, {0, 1})
  BY <1>2 DEF Before
<1>4. {0, 1} \in SUBSET {0, 1}
  OBVIOUS
<1>5. Moves(s, p, w, 5)
  BY <1>2, <1>3, <1>4, RequestIs, GroupIs DEF Moves, Only, LaneRegs
<1> QED BY <1>5 DEF s, t

LEMMA SleepTwo ==
  ASSUME NEW p \in Port, NEW w \in Widths, w <= Len(LanesOf(mode, p)),
         NEW c \in Cores, NEW a \in SUBSET {0, 1}, Spared(p, w, c, a),
         NEW d \in Cores, NEW b \in SUBSET {0, 1}, Spared(p, w, d, b),
         FirstLanes(p, w) \subseteq FirstLanes(p, width[p])
  PROVE  Moves(Request(p, w) \o <<Core({c}), Access(a), LowPower, Core({d}), Access(b), LowPower>>,
               p, w, 2)
<1> DEFINE t == <<Core({c}), Access(a), LowPower, Core({d}), Access(b), LowPower>>
           s == Request(p, w) \o t
<1>1. /\ t \in Seq(Writes) /\ Len(t) = 6
      /\ t[1] = Core({c}) /\ t[2] = Access(a) /\ t[3] = LowPower
      /\ t[4] = Core({d}) /\ t[5] = Access(b) /\ t[6] = LowPower
  <2>1. /\ Core({c}) \in Writes /\ Access(a) \in Writes /\ LowPower \in Writes
        /\ Core({d}) \in Writes /\ Access(b) \in Writes
    BY GroupIs
  <2> QED BY <2>1
<1> HIDE DEF t
<1>2. /\ s \in Seq(Writes) /\ Len(s) = 8
      /\ s[1] = Request(p, w)[1] /\ s[2] = Request(p, w)[2]
      /\ s[3] = Core({c}) /\ s[4] = Access(a) /\ s[5] = LowPower
      /\ s[6] = Core({d}) /\ s[7] = Access(b) /\ s[8] = LowPower
  <2>1. Request(p, w) \in Seq(Writes) /\ Len(Request(p, w)) = 2
    BY RequestIs
  <2>2. /\ s \in Seq(Writes) /\ Len(s) = Len(Request(p, w)) + Len(t)
        /\ \A i \in 1 .. Len(Request(p, w)) + Len(t)  :
             s[i] = IF i <= Len(Request(p, w)) THEN Request(p, w)[i] ELSE t[i - Len(Request(p, w))]
    BY <1>1, <2>1, ConcatProperties
  <2> HIDE DEF s
  <2>3. /\ s \in Seq(Writes) /\ Len(s) = 8
        /\ \A i \in 1 .. 8 : s[i] = IF i <= 2 THEN Request(p, w)[i] ELSE t[i - 2]
    BY <1>1, <2>1, <2>2
  <2> QED BY <1>1, <2>3
<1> HIDE DEF s
<1>3. Before(s, 5, c, a) /\ Before(s, 8, d, b)
  BY <1>2 DEF Before
<1>4. Moves(s, p, w, 2)
  BY <1>2, <1>3, RequestIs, GroupIs DEF Moves, Only, LaneRegs
<1> QED BY <1>4 DEF s, t

LEMMA WakeTwo ==
  ASSUME NEW p \in Port, NEW w \in Widths, w <= Len(LanesOf(mode, p)),
         NEW c \in Cores, NEW d \in Cores, \A l \in FirstLanes(p, w) : l[1] = c \/ l[1] = d
  PROVE  Moves(<<Core({c}), Access({0, 1}), WakeUp, Core({d}), Access({0, 1}), WakeUp>>
                 \o Request(p, w), p, w, 8)
<1> DEFINE t == <<Core({c}), Access({0, 1}), WakeUp, Core({d}), Access({0, 1}), WakeUp>>
           s == t \o Request(p, w)
<1>1. /\ t \in Seq(Writes) /\ Len(t) = 6
      /\ t[1] = Core({c}) /\ t[2] = Access({0, 1}) /\ t[3] = WakeUp
      /\ t[4] = Core({d}) /\ t[5] = Access({0, 1}) /\ t[6] = WakeUp
  <2>1. Core({c}) \in Writes /\ Access({0, 1}) \in Writes /\ WakeUp \in Writes /\ Core({d}) \in Writes
    BY GroupIs
  <2> QED BY <2>1
<1> HIDE DEF t
<1>2. /\ s \in Seq(Writes) /\ Len(s) = 8
      /\ s[1] = Core({c}) /\ s[2] = Access({0, 1}) /\ s[3] = WakeUp
      /\ s[4] = Core({d}) /\ s[5] = Access({0, 1}) /\ s[6] = WakeUp
      /\ s[7] = Request(p, w)[1] /\ s[8] = Request(p, w)[2]
  <2>1. Request(p, w) \in Seq(Writes) /\ Len(Request(p, w)) = 2
    BY RequestIs
  <2>2. /\ s \in Seq(Writes) /\ Len(s) = Len(t) + Len(Request(p, w))
        /\ \A i \in 1 .. Len(t) + Len(Request(p, w))  :
             s[i] = IF i <= Len(t) THEN t[i] ELSE Request(p, w)[i - Len(t)]
    BY <1>1, <2>1, ConcatProperties
  <2> HIDE DEF s
  <2>3. /\ s \in Seq(Writes) /\ Len(s) = 8
        /\ \A i \in 1 .. 8 : s[i] = IF i <= 6 THEN t[i] ELSE Request(p, w)[i - 6]
    BY <1>1, <2>1, <2>2
  <2> QED BY <1>1, <2>3
<1> HIDE DEF s
<1>3. Before(s, 3, c, {0, 1}) /\ Before(s, 6, d, {0, 1})
  BY <1>2 DEF Before
<1>4. {0, 1} \in SUBSET {0, 1}
  OBVIOUS
<1>5. \A l \in FirstLanes(p, w) :
        \E j \in 1 .. 7 : s[j].reg = "wake" /\ Before(s, j, l[1], {0, 1})
  <2> SUFFICES ASSUME NEW l \in FirstLanes(p, w)
               PROVE  \E j \in 1 .. 7 : s[j].reg = "wake" /\ Before(s, j, l[1], {0, 1})
    OBVIOUS
  <2>1. s[3].reg = "wake" /\ s[6].reg = "wake"
    BY <1>2, GroupIs
  <2>2. CASE l[1] = c
    BY <1>3, <2>1, <2>2
  <2>3. CASE l[1] = d
    BY <1>3, <2>1, <2>3
  <2> QED BY <2>2, <2>3
<1>6. /\ s[1].reg = "core" /\ s[2].reg = "access" /\ s[3].reg = "wake" /\ s[4].reg = "core"
      /\ s[5].reg = "access" /\ s[6].reg = "wake" /\ s[7].reg = "clear" /\ s[8].reg = "request"
      /\ s[8].val = <<p, w>>
  BY <1>2, <1>4, RequestIs, GroupIs
<1>7. \A i \in 1 .. 8 : i = 1 \/ i = 2 \/ i = 3 \/ i = 4 \/ i = 5 \/ i = 6 \/ i = 7 \/ i = 8
  OBVIOUS
<1>8. Moves(s, p, w, 8)
  BY <1>2, <1>5, <1>6, <1>7 DEF Moves, Only, LaneRegs
<1> QED BY <1>8 DEF s, t

\* The lanes of each port.
LEMMA LaneSets ==
  /\ mode = "A" =>
       /\ Len(LanesOf(mode, "usp")) = 4
       /\ FirstLanes("usp", 1) = {<<0, 0>>} /\ FirstLanes("usp", 2) = {<<0, 0>>, <<0, 1>>}
       /\ FirstLanes("usp", 4) = {<<0, 0>>, <<0, 1>>, <<1, 0>>, <<1, 1>>}
       /\ AllLanes("dsp1") = {<<2, 0>>} /\ AllLanes("dsp2") = {<<3, 0>>}
  /\ mode = "B" =>
       /\ Len(LanesOf(mode, "usp")) = 2 /\ Len(LanesOf(mode, "dsp1")) = 2
       /\ FirstLanes("usp", 1) = {<<0, 0>>} /\ FirstLanes("usp", 2) = {<<0, 0>>, <<0, 1>>}
       /\ FirstLanes("dsp1", 1) = {<<1, 0>>} /\ FirstLanes("dsp1", 2) = {<<1, 0>>, <<1, 1>>}
       /\ AllLanes("usp") = {<<0, 0>>, <<0, 1>>} /\ AllLanes("dsp1") = {<<1, 0>>, <<1, 1>>}
       /\ AllLanes("dsp2") = {<<3, 0>>}
<1>1. /\ 1 .. 1 = {1} /\ 1 .. 2 = {1, 2} /\ 1 .. 4 = {1, 2, 3, 4}
  OBVIOUS
<1>2. ASSUME mode = "A"
      PROVE  /\ Len(LanesOf(mode, "usp")) = 4
             /\ FirstLanes("usp", 1) = {<<0, 0>>} /\ FirstLanes("usp", 2) = {<<0, 0>>, <<0, 1>>}
             /\ FirstLanes("usp", 4) = {<<0, 0>>, <<0, 1>>, <<1, 0>>, <<1, 1>>}
             /\ AllLanes("dsp1") = {<<2, 0>>} /\ AllLanes("dsp2") = {<<3, 0>>}
  <2>1. \A p \in Port : FirstLanes(p, 1) = {LanesOf("A", p)[1]}
    BY <1>1, <1>2 DEF FirstLanes
  <2>2. \A p \in Port : FirstLanes(p, 2) = {LanesOf("A", p)[1], LanesOf("A", p)[2]}
    BY <1>1, <1>2 DEF FirstLanes
  <2>3. FirstLanes("usp", 4) = {LanesOf("A", "usp")[1], LanesOf("A", "usp")[2],
                                LanesOf("A", "usp")[3], LanesOf("A", "usp")[4]}
    BY <1>1, <1>2 DEF FirstLanes
  <2>4. "usp" \in Port /\ "dsp1" \in Port /\ "dsp2" \in Port
    BY DEF Port
  <2> QED BY <1>2, <2>1, <2>2, <2>3, <2>4, LanesAre DEF AllLanes
<1>3. ASSUME mode = "B"
      PROVE  /\ Len(LanesOf(mode, "usp")) = 2 /\ Len(LanesOf(mode, "dsp1")) = 2
             /\ FirstLanes("usp", 1) = {<<0, 0>>} /\ FirstLanes("usp", 2) = {<<0, 0>>, <<0, 1>>}
             /\ FirstLanes("dsp1", 1) = {<<1, 0>>} /\ FirstLanes("dsp1", 2) = {<<1, 0>>, <<1, 1>>}
             /\ AllLanes("usp") = {<<0, 0>>, <<0, 1>>} /\ AllLanes("dsp1") = {<<1, 0>>, <<1, 1>>}
             /\ AllLanes("dsp2") = {<<3, 0>>}
  <2>1. \A p \in Port : FirstLanes(p, 1) = {LanesOf("B", p)[1]}
    BY <1>1, <1>3 DEF FirstLanes
  <2>2. \A p \in Port : FirstLanes(p, 2) = {LanesOf("B", p)[1], LanesOf("B", p)[2]}
    BY <1>1, <1>3 DEF FirstLanes
  <2>4. "usp" \in Port /\ "dsp1" \in Port /\ "dsp2" \in Port
    BY DEF Port
  <2> QED BY <1>3, <2>1, <2>2, <2>4, LanesAre DEF AllLanes
<1> QED BY <1>2, <1>3

LEMMA LaneChangeMoves ==
  ASSUME mode \in Modes, NEW p \in Port, NEW w \in Widths,
         LaneChange(p, w) # <<>>
  PROVE  \E r : Moves(LaneChange(p, w), p, w, r)
<1>1. /\ 0 \in Cores /\ 1 \in Cores /\ {1} \in SUBSET {0, 1} /\ {0, 1} \in SUBSET {0, 1}
      /\ 1 \in Widths /\ 2 \in Widths /\ 4 \in Widths
      /\ "usp" \in Port /\ "dsp1" \in Port
      /\ \A q \in Port : q # "usp" => q = "dsp1" \/ q = "dsp2"
      /\ \A q \in Port : q # "dsp1" => q = "usp" \/ q = "dsp2"
  BY DEF Cores, Widths, Port
<1>2. CASE mode = "A" /\ p = "usp" /\ width[p] = 4 /\ w = 1
  <2>1. Spared("usp", 1, 0, {1}) /\ Spared("usp", 1, 1, {0, 1})
    BY <1>1, <1>2, LaneSets DEF Spared
  <2>2. FirstLanes("usp", 1) \subseteq FirstLanes("usp", width["usp"])
        /\ 1 <= Len(LanesOf(mode, "usp"))
    BY <1>2, LaneSets
  <2>3. Moves(Mode1Usp4To1, "usp", 1, 2)
    BY <1>1, <2>1, <2>2, SleepTwo DEF Mode1Usp4To1
  <2>4. LaneChange(p, w) = Mode1Usp4To1
    BY <1>2 DEF LaneChange
  <2> QED BY <1>2, <2>3, <2>4
<1>3. CASE mode = "A" /\ p = "usp" /\ width[p] = 4 /\ w = 2
  <2>1. Spared("usp", 2, 1, {0, 1})
    BY <1>1, <1>3, LaneSets DEF Spared
  <2>2. FirstLanes("usp", 2) \subseteq FirstLanes("usp", width["usp"])
        /\ 2 <= Len(LanesOf(mode, "usp"))
    BY <1>3, LaneSets
  <2>3. Moves(Mode1Usp4To2, "usp", 2, 2)
    BY <1>1, <2>1, <2>2, SleepOne DEF Mode1Usp4To2
  <2>4. LaneChange(p, w) = Mode1Usp4To2
    BY <1>3 DEF LaneChange
  <2> QED BY <1>3, <2>3, <2>4
<1>4. CASE mode = "A" /\ p = "usp" /\ width[p] # 4 /\ w = 4
  <2>1. 4 <= Len(LanesOf(mode, "usp")) /\ \A l \in FirstLanes("usp", 4) : l[1] = 1 \/ l[1] = 0
    <3>1. FirstLanes("usp", 4) = {<<0, 0>>, <<0, 1>>, <<1, 0>>, <<1, 1>>}
          /\ Len(LanesOf(mode, "usp")) = 4
      BY <1>4, LaneSets
    <3>2. ASSUME NEW l \in {<<0, 0>>, <<0, 1>>, <<1, 0>>, <<1, 1>>} PROVE l[1] = 1 \/ l[1] = 0
      OBVIOUS
    <3>3. ASSUME NEW l \in FirstLanes("usp", 4) PROVE l[1] = 1 \/ l[1] = 0
      <4>1. l \in {<<0, 0>>, <<0, 1>>, <<1, 0>>, <<1, 1>>}
        BY <3>1, Zenon
      <4> QED BY <3>2, <4>1, Zenon
    <3>4. Len(LanesOf(mode, "usp")) = 4
      BY <3>1, Zenon
    <3>5. \A n : n = 4 => 4 <= n
      OBVIOUS
    <3>6. 4 <= Len(LanesOf(mode, "usp"))
      BY <3>4, <3>5, Zenon
    <3> QED BY <3>3, <3>6
  <2>2. Moves(Mode1UspTo4, "usp", 4, 8)
    BY <1>1, <2>1, WakeTwo DEF Mode1UspTo4
  <2>3. LaneChange(p, w) = Mode1UspTo4
    BY <1>4 DEF LaneChange
  <2> QED BY <1>4, <2>2, <2>3
<1>5. CASE mode = "B" /\ p = "usp" /\ width[p] = 2 /\ w = 1
  <2>1. Spared("usp", 1, 0, {1})
    BY <1>1, <1>5, LaneSets DEF Spared
  <2>2. FirstLanes("usp", 1) \subseteq FirstLanes("usp", width["usp"])
        /\ 1 <= Len(LanesOf(mode, "usp"))
    BY <1>5, LaneSets
  <2>3. Moves(Mode2Usp2To1, "usp", 1, 2)
    BY <1>1, <2>1, <2>2, SleepOne DEF Mode2Usp2To1
  <2>4. LaneChange(p, w) = Mode2Usp2To1
    BY <1>5 DEF LaneChange
  <2> QED BY <1>5, <2>3, <2>4
<1>6. CASE mode = "B" /\ p = "usp" /\ width[p] = 1 /\ w = 2
  <2>1. 2 <= Len(LanesOf(mode, "usp")) /\ \A l \in FirstLanes("usp", 2) : l[1] = 0
    BY <1>6, LaneSets
  <2>2. Moves(Mode2Usp1To2, "usp", 2, 5)
    BY <1>1, <2>1, WakeOne DEF Mode2Usp1To2
  <2>3. LaneChange(p, w) = Mode2Usp1To2
    BY <1>6 DEF LaneChange
  <2> QED BY <1>6, <2>2, <2>3
<1>7. CASE mode = "B" /\ p = "dsp1" /\ width[p] = 2 /\ w = 1
  <2>1. Spared("dsp1", 1, 1, {1})
    BY <1>1, <1>7, LaneSets DEF Spared
  <2>2. FirstLanes("dsp1", 1) \subseteq FirstLanes("dsp1", width["dsp1"])
        /\ 1 <= Len(LanesOf(mode, "dsp1"))
    BY <1>7, LaneSets
  <2>3. Moves(Mode2Dsp2To1, "dsp1", 1, 2)
    BY <1>1, <2>1, <2>2, SleepOne DEF Mode2Dsp2To1
  <2>4. LaneChange(p, w) = Mode2Dsp2To1
    BY <1>7 DEF LaneChange
  <2> QED BY <1>7, <2>3, <2>4
<1>8. CASE mode = "B" /\ p = "dsp1" /\ width[p] = 1 /\ w = 2
  <2>1. 2 <= Len(LanesOf(mode, "dsp1")) /\ \A l \in FirstLanes("dsp1", 2) : l[1] = 1
    BY <1>8, LaneSets
  <2>2. Moves(Mode2Dsp1To2, "dsp1", 2, 5)
    BY <1>1, <2>1, WakeOne DEF Mode2Dsp1To2
  <2>3. LaneChange(p, w) = Mode2Dsp1To2
    BY <1>8 DEF LaneChange
  <2> QED BY <1>8, <2>2, <2>3
<1> QED BY <1>2, <1>3, <1>4, <1>5, <1>6, <1>7, <1>8 DEF LaneChange

-----------------------------------------------------------------------------
(* ASPM: the devices in the order in which tc956x_replace_aspm meets them. *)

LEMMA EachDeviceIs ==
  ASSUME NEW r \in ConfigRegs
  PROVE  /\ EachDevice(r) \in Seq(Writes)
         /\ \A i \in 1 .. Len(EachDevice(r)) :
              EachDevice(r)[i].reg = r /\ EachDevice(r)[i].val \in Device
         /\ \A d \in Device : \E i \in 1 .. Len(EachDevice(r)) : EachDevice(r)[i].val = d
         /\ \A i, j \in 1 .. Len(EachDevice(r)) :
              i # j => EachDevice(r)[i].val # EachDevice(r)[j].val
<1> DEFINE n == Cardinality(Device)
           Orders == {s \in [1 .. n -> Device] : \A d \in Device : \E i \in DOMAIN s : s[i] = d}
           order == CHOOSE s \in [1 .. n -> Device] : \A d \in Device : \E i \in DOMAIN s : s[i] = d
<1>1. n \in Nat /\ \E s \in [1 .. n -> Device] : \A d \in Device : \E i \in DOMAIN s : s[i] = d
  <2>1. PICK m \in Nat : ExistsBijection(1 .. m, Device)
    BY DeviceAssumption, FS_NatBijection
  <2>2. n = m
    BY <2>1, FS_CountingElements
  <2>3. PICK s : s \in Bijection(1 .. m, Device)
    BY <2>1 DEF ExistsBijection
  <2>4. s \in [1 .. m -> Device] /\ \A d \in Device : \E i \in 1 .. m : s[i] = d
    BY <2>3 DEF Bijection, Surjection, Injection
  <2> QED BY <2>1, <2>2, <2>4
<1>2. order \in [1 .. n -> Device] /\ \A d \in Device : \E i \in 1 .. n : order[i] = d
  BY <1>1
<1>3. EachDevice(r) = [i \in 1 .. n |-> W(r, order[i])]
  BY <1>2 DEF EachDevice
<1> HIDE DEF order, n
<1>4. \A i, j \in 1 .. n : i # j => order[i] # order[j]
  <2>1. IsFiniteSet(1 .. n) /\ Cardinality(1 .. n) = n
    <3>1. n = 0 \/ n >= 1
      BY <1>1
    <3>2. /\ IsFiniteSet(1 .. n)
          /\ Cardinality(1 .. n) = IF 1 > n THEN 0 ELSE n - 1 + 1
      BY <1>1, FS_Interval
    <3> QED BY <1>1, <3>1, <3>2
  <2>2. order \in Surjection(1 .. n, Device)
    BY <1>2 DEF Surjection
  <2>3. Cardinality(1 .. n) = Cardinality(Device)
    BY <2>1 DEF n
  <2>4. order \in Injection(1 .. n, Device)
    BY <2>1, <2>2, <2>3, FS_SurjSameCardinalityImpliesInj
  <2> QED BY <2>4 DEF Injection, IsInjective
<1>5. \A d \in Device : W(r, d) \in Writes /\ W(r, d).reg = r /\ W(r, d).val = d
  BY DEF W, Writes, Regs, Vals
<1>6. /\ EachDevice(r) \in Seq(Writes) /\ Len(EachDevice(r)) = n
      /\ \A i \in 1 .. n : EachDevice(r)[i] = W(r, order[i])
  BY <1>1, <1>2, <1>3, <1>5
<1> QED BY <1>2, <1>4, <1>5, <1>6

\* ASPM goes off everywhere, the links retrain, and each device gets it back.
Has(s, r, d) == \E i \in 1 .. Len(s) : s[i].reg = r /\ s[i].val = d
AspmOrder(s) ==
  \A i, j \in 1 .. Len(s) : i < j =>
    /\ s[j].reg = "aspm_off" => s[i].reg = "aspm_off"
    /\ s[i].reg = "aspm_back" => s[j].reg = "aspm_back"
    /\ s[i].reg = s[j].reg /\ s[i].reg \in {"aspm_off", "aspm_back"} => s[i].val # s[j].val
AspmPairs(s) ==
  \A i \in 1 .. Len(s) :
    /\ s[i].reg \in {"aspm_off", "aspm_back"} => s[i].val \in Device
    /\ s[i].reg \in {"aspm_off", "speed"} => \A d \in Device : Has(s, "aspm_back", d)

LEMMA SpeedIs ==
  ASSUME NEW v \in Speeds, SetPciSpeed(v) # <<>>
  PROVE  /\ Only(SetPciSpeed(v), ConfigRegs)
         /\ AspmOrder(SetPciSpeed(v)) /\ AspmPairs(SetPciSpeed(v))
         /\ \A d \in Device : Has(SetPciSpeed(v), "aspm_off", d)
<1> DEFINE f == EachDevice("aspm_off")
           b == EachDevice("aspm_back")
           t == <<W("speed", <<"usp", v>>), W("speed", <<"dsp1", v>>),
                  W("speed", <<"dsp2", v>>), W("speed", <<"vdsp", v>>),
                  W("speed", <<"usp", v>>)>>
           s == SetPciSpeed(v)
<1>1. \A l \in Link : W("speed", <<l, v>>) \in Writes /\ W("speed", <<l, v>>).reg = "speed"
  <2> SUFFICES ASSUME NEW l \in Link
               PROVE  W("speed", <<l, v>>) \in Writes /\ W("speed", <<l, v>>).reg = "speed"
    OBVIOUS
  <2>1. <<l, v>> \in LinkSpeeds
    BY DEF LinkSpeeds
  <2>2. <<l, v>> \in Vals
    BY <2>1 DEF Vals
  <2> QED BY <2>2 DEF W, Writes, Regs, ConfigRegs
<1>2. t \in Seq(Writes) /\ Len(t) = 5 /\ \A i \in 1 .. 5 : t[i].reg = "speed"
  <2>1. "usp" \in Link /\ "dsp1" \in Link /\ "dsp2" \in Link /\ "vdsp" \in Link
    BY DEF Link
  <2> QED BY <1>1, <2>1
<1>3. /\ f \in Seq(Writes) /\ Len(f) \in Nat
      /\ \A i \in 1 .. Len(f) : f[i].reg = "aspm_off" /\ f[i].val \in Device
      /\ \A d \in Device : \E i \in 1 .. Len(f) : f[i].val = d
      /\ \A i, j \in 1 .. Len(f) : i # j => f[i].val # f[j].val
  <2>1. "aspm_off" \in ConfigRegs
    BY DEF ConfigRegs
  <2> HIDE DEF f
  <2>2. f = EachDevice("aspm_off")
    BY DEF f
  <2> QED BY <2>1, <2>2, EachDeviceIs
<1>4. /\ b \in Seq(Writes) /\ Len(b) \in Nat
      /\ \A i \in 1 .. Len(b) : b[i].reg = "aspm_back" /\ b[i].val \in Device
      /\ \A d \in Device : \E i \in 1 .. Len(b) : b[i].val = d
      /\ \A i, j \in 1 .. Len(b) : i # j => b[i].val # b[j].val
  <2>1. "aspm_back" \in ConfigRegs
    BY DEF ConfigRegs
  <2> HIDE DEF b
  <2>2. b = EachDevice("aspm_back")
    BY DEF b
  <2> QED BY <2>1, <2>2, EachDeviceIs
<1>5. s = (f \o t) \o b
  BY DEF SetPciSpeed
<1> HIDE DEF f, t, b, s
<1> DEFINE m == Len(f)
           e == Len(b)
<1>6. /\ f \o t \in Seq(Writes) /\ Len(f \o t) = m + 5
      /\ \A i \in 1 .. m + 5 : (f \o t)[i] = IF i <= m THEN f[i] ELSE t[i - m]
  <2>1. /\ f \o t \in Seq(Writes) /\ Len(f \o t) = Len(f) + Len(t)
        /\ \A i \in 1 .. Len(f) + Len(t) : (f \o t)[i] = IF i <= Len(f) THEN f[i] ELSE t[i - Len(f)]
    <3>1. f \in Seq(Writes) /\ t \in Seq(Writes)
      BY <1>2, <1>3
    <3> QED BY <3>1, ConcatProperties
  <2> QED BY <1>2, <2>1
<1>7. /\ s \in Seq(Writes) /\ Len(s) = m + 5 + e
      /\ \A i \in 1 .. m + 5 + e : s[i] = IF i <= m + 5 THEN (f \o t)[i] ELSE b[i - (m + 5)]
  <2> DEFINE g == f \o t
  <2>1. g \in Seq(Writes) /\ Len(g) = m + 5
    BY <1>6
  <2>2. s = g \o b
    BY <1>5
  <2> HIDE DEF g
  <2>3. /\ s \in Seq(Writes) /\ Len(s) = Len(g) + Len(b)
        /\ \A i \in 1 .. Len(g) + Len(b) : s[i] = IF i <= Len(g) THEN g[i] ELSE b[i - Len(g)]
    <3>1. g \in Seq(Writes) /\ b \in Seq(Writes)
      BY <1>4, <2>1
    <3> QED BY <2>2, <3>1, ConcatProperties
  <2> QED BY <2>1, <2>3 DEF g
<1>8. /\ \A i \in 1 .. m : s[i] = f[i]
      /\ \A i \in m + 1 .. m + 5 : s[i].reg = "speed"
      /\ \A i \in m + 6 .. m + 5 + e : s[i] = b[i - (m + 5)] /\ i - (m + 5) \in 1 .. e
  <2>1. \A i \in 1 .. m : s[i] = f[i]
    BY <1>3, <1>4, <1>6, <1>7
  <2>2. ASSUME NEW i \in m + 1 .. m + 5 PROVE s[i].reg = "speed"
    <3>1. m \in Nat /\ e \in Nat
      BY <1>3, <1>4
    <3>2. i \in 1 .. m + 5 + e /\ i <= m + 5 /\ i \in 1 .. m + 5 /\ i > m /\ i - m \in 1 .. 5
      <4> HIDE DEF m, e
      <4> QED BY <2>2, <3>1
    <3>3. s[i] = t[i - m]
      BY <1>6, <1>7, <3>1, <3>2
    <3> QED BY <1>2, <3>2, <3>3
  <2>3. \A i \in m + 6 .. m + 5 + e : s[i] = b[i - (m + 5)] /\ i - (m + 5) \in 1 .. e
    BY <1>3, <1>4, <1>7
  <2> QED BY <2>1, <2>2, <2>3
<1>9. \A i \in 1 .. Len(s) : /\ i \in Int
                             /\ i \in 1 .. m \/ i \in m + 1 .. m + 5 \/ i \in m + 6 .. m + 5 + e
  BY <1>3, <1>4, <1>7
<1>10. \A i \in 1 .. Len(s) :
         /\ i \in 1 .. m => s[i].reg = "aspm_off" /\ s[i].val \in Device
         /\ i \in m + 1 .. m + 5 => s[i].reg = "speed"
         /\ i \in m + 6 .. m + 5 + e => s[i].reg = "aspm_back" /\ s[i].val \in Device
  <2>1. \A i \in 1 .. m : s[i].reg = "aspm_off" /\ s[i].val \in Device
    BY <1>3, <1>8
  <2>2. ASSUME NEW i \in m + 6 .. m + 5 + e PROVE s[i].reg = "aspm_back" /\ s[i].val \in Device
    <3>1. s[i] = b[i - (m + 5)] /\ i - (m + 5) \in 1 .. e
      BY <1>8
    <3> QED BY <1>4, <3>1
  <2> QED BY <1>8, <2>1, <2>2
<1>11. Only(s, ConfigRegs)
  BY <1>7, <1>9, <1>10 DEF Only, ConfigRegs
<1>12. AspmOrder(s)
  <2> SUFFICES ASSUME NEW i \in 1 .. Len(s), NEW j \in 1 .. Len(s), i < j
               PROVE  /\ s[j].reg = "aspm_off" => s[i].reg = "aspm_off"
                      /\ s[i].reg = "aspm_back" => s[j].reg = "aspm_back"
                      /\ s[i].reg = s[j].reg /\ s[i].reg \in {"aspm_off", "aspm_back"}
                           => s[i].val # s[j].val
    BY DEF AspmOrder
  <2>1. s[j].reg = "aspm_off" => j \in 1 .. m /\ i \in 1 .. m
    BY <1>3, <1>9, <1>10
  <2>2. s[i].reg = "aspm_back" => i \in m + 6 .. m + 5 + e /\ j \in m + 6 .. m + 5 + e
    <3> SUFFICES ASSUME s[i].reg = "aspm_back"
                 PROVE  i \in m + 6 .. m + 5 + e /\ j \in m + 6 .. m + 5 + e
      OBVIOUS
    <3>1. i \in m + 6 .. m + 5 + e
      BY <1>9, <1>10
    <3>2. m \in Nat /\ e \in Nat /\ Len(s) = m + 5 + e
      BY <1>3, <1>4, <1>7
    <3> HIDE DEF m, e
    <3> QED BY <3>1, <3>2
  <2>3. s[i].reg = "aspm_off" /\ s[j].reg = "aspm_off" => s[i].val # s[j].val
    BY <1>3, <1>8, <2>1
  <2>4. s[i].reg = "aspm_back" => s[i].val # s[j].val
    <3> SUFFICES ASSUME s[i].reg = "aspm_back" PROVE s[i].val # s[j].val
      OBVIOUS
    <3>1. /\ s[i] = b[i - (m + 5)] /\ i - (m + 5) \in 1 .. e
          /\ s[j] = b[j - (m + 5)] /\ j - (m + 5) \in 1 .. e
      BY <1>8, <2>2
    <3>2. i - (m + 5) # j - (m + 5)
      BY <1>3
    <3> QED BY <1>4, <3>1, <3>2
  <2> QED BY <1>10, <2>1, <2>2, <2>3, <2>4
<1>13. \A d \in Device : Has(s, "aspm_back", d)
  <2> SUFFICES ASSUME NEW d \in Device PROVE Has(s, "aspm_back", d)
    OBVIOUS
  <2>1. PICK k \in 1 .. e : b[k].val = d
    BY <1>4
  <2>2. /\ k + m + 5 \in 1 .. Len(s) /\ k + m + 5 \in m + 6 .. m + 5 + e
        /\ (k + m + 5) - (m + 5) = k
    BY <1>3, <1>4, <1>7
  <2>3. s[k + m + 5].reg = "aspm_back" /\ s[k + m + 5].val = d
    BY <1>8, <1>10, <2>1, <2>2
  <2> QED BY <2>2, <2>3 DEF Has
<1>14. \A d \in Device : Has(s, "aspm_off", d)
  <2> SUFFICES ASSUME NEW d \in Device PROVE Has(s, "aspm_off", d)
    OBVIOUS
  <2>1. PICK k \in 1 .. m : f[k].val = d
    BY <1>3
  <2>2. k \in 1 .. Len(s)
    BY <1>3, <1>4, <1>7
  <2>3. s[k].reg = "aspm_off" /\ s[k].val = d
    BY <1>8, <1>10, <2>1, <2>2
  <2> QED BY <2>2, <2>3 DEF Has
<1>15. AspmPairs(s)
  BY <1>9, <1>10, <1>13 DEF AspmPairs
<1> QED BY <1>11, <1>12, <1>14, <1>15 DEF s

LEMMA LaneNextInv ==
  ASSUME "hasty" \notin Faults, LaneInv, [LaneNext]_laneVars
  PROVE  LaneInv'
<1>0. HwOK /\ Awake /\ mode \in Modes /\ width \in [Port -> Widths]
  BY DEF LaneInv, HwOK
<1>1. ASSUME UNCHANGED <<mode, hw>>, todo' \in Seq(Writes), Still' PROVE LaneInv'
  <2>1. /\ mode' = mode /\ lane' = lane /\ req' = req /\ width' = width
    BY <1>1 DEF hw
  <2>2. \A q \in Port : Wanted(q)' = Wanted(q)
    BY <2>1 DEF Wanted
  <2> QED BY <1>0, <1>1, <2>1, <2>2 DEF LaneInv, HwOK, Awake, FirstLanes
<1>2. ASSUME UNCHANGED <<mode, hw>>, Only(todo', SettingRegs) \/ Only(todo', ConfigRegs) PROVE LaneInv'
  <2>1. todo' \in Seq(Writes) /\ Still'
    BY <1>2 DEF Only, Still, SettingRegs, ConfigRegs, MoveRegs
  <2> QED BY <1>1, <1>2, <2>1
<1>3. CASE DoWrite
  BY <1>0, <1>3, StillNext, MovingNext DEF LaneInv
<1>4. CASE LinkRetrains
  <2>1. PICK q \in Port : /\ req[q] # 0 /\ width[q] # req[q]
                          /\ width' = [width EXCEPT ![q] = req[q]]
                          /\ UNCHANGED <<mode, sel, acc, lane, req, todo>>
    BY <1>4 DEF LinkRetrains
  <2>2. \A p \in Port : Wanted(p)' = Wanted(p)
    BY <1>0, <2>1 DEF Wanted
  <2>3. ~Settled
    BY <2>1 DEF Settled
  <2>4. HwOK'
    <3>1. req[q] \in Widths /\ req[q] <= Len(LanesOf(mode, q))
      BY <1>0, <2>1 DEF HwOK, Wanted
    <3>2. width' \in [Port -> Widths]
      BY <1>0, <2>1, <3>1
    <3>3. \A p \in Port : width'[p] <= Len(LanesOf(mode, p))
      BY <1>0, <2>1, <3>1 DEF HwOK
    <3> QED BY <1>0, <2>1, <2>2, <3>2, <3>3 DEF HwOK
  <2>5. Awake'
    BY <1>0, <2>1, <2>2 DEF Awake, FirstLanes
  <2>6. CASE Still
    BY <2>1, <2>4, <2>5, <2>6 DEF LaneInv, Still
  <2>7. ASSUME NEW p \in Port, NEW w \in Widths, Moving(p, w) PROVE LaneInv'
    <3>1. Asks(p, w)'
      BY <2>1, <2>3, <2>7 DEF Moving, Asks
    <3>2. \A r \in Port : FirstLanes(r, Goal(p, w, r))' = FirstLanes(r, Goal(p, w, r))
      BY <2>1, <2>2 DEF Goal, FirstLanes
    <3>3. \A i, c, a : Reaches(i, c, a)' = Reaches(i, c, a)
      BY <2>1 DEF Reaches
    <3>4. Sleeps(p, w)'
      BY <2>1, <2>7, <3>2, <3>3 DEF Moving, Sleeps
    <3>5. Wakes(p, w)'
      BY <2>1, <2>7, <3>3 DEF Moving, Wakes, FirstLanes
    <3>6. Moving(p, w)'
      BY <2>1, <2>7, <3>1, <3>4, <3>5 DEF Moving
    <3> QED BY <2>4, <2>5, <3>6 DEF LaneInv
  <2> QED BY <2>6, <2>7 DEF LaneInv
<1>5. CASE IoctlLaneChange
  <2>1. PICK p \in Port, w \in {1, 2, 4} : Settled /\ Begin(LaneChange(p, w), asked)
    BY <1>5 DEF IoctlLaneChange
  <2>2. todo' = LaneChange(p, w) /\ UNCHANGED <<mode, hw>> /\ w \in Widths
    BY <2>1 DEF Begin, Widths
  <2>3. CASE LaneChange(p, w) = <<>>
    BY <1>2, <2>2, <2>3, OnlyEmpty
  <2>4. CASE LaneChange(p, w) # <<>>
    <3>1. PICK r : Moves(LaneChange(p, w), p, w, r)
      BY <1>0, <2>2, <2>4, LaneChangeMoves
    <3>2. Moves(todo', p, w, r)
      BY <2>2, <3>1
    <3> QED BY <1>0, <2>1, <2>2, <3>2, MovesBegin
  <2> QED BY <2>3, <2>4
<1>6. CASE IoctlTxMargin
  BY <1>0, <1>2, <1>6, TxMarginIs DEF IoctlTxMargin, Begin
<1>7. CASE IoctlTxDeemphasis
  BY <1>0, <1>2, <1>7, TxDeemphasisIs DEF IoctlTxDeemphasis, Begin
<1>8. CASE IoctlDfe
  BY <1>0, <1>2, <1>8, DfeIs DEF IoctlDfe, Begin
<1>9. CASE IoctlCtleFixed
  BY <1>0, <1>2, <1>9, CtleIs DEF IoctlCtleFixed, Begin
<1>10. CASE IoctlSpeedChange
  <2>1. PICK v \in Speeds : Begin(SetPciSpeed(v), asked)
    BY <1>10 DEF IoctlSpeedChange
  <2>2. Only(SetPciSpeed(v), ConfigRegs)
    BY SpeedIs, OnlyEmpty
  <2> QED BY <1>2, <2>1, <2>2 DEF Begin
<1>11. CASE UNCHANGED laneVars
  <2>1. UNCHANGED <<mode, sel, acc, lane, req, width, todo>>
    BY <1>11 DEF laneVars, hw
  <2>2. /\ mode' = mode /\ sel' = sel /\ acc' = acc /\ lane' = lane
         /\ req' = req /\ width' = width /\ todo' = todo
    BY <2>1
  <2>3. HwOK' /\ Awake'
    BY <1>0, <2>2 DEF HwOK, Awake, FirstLanes, Wanted
  <2>4. Still => Still'
    BY <2>2 DEF Still
  <2>5. ASSUME NEW p \in Port, NEW w \in Widths, Moving(p, w) PROVE Moving(p, w)'
    <3>1. \A r \in Port : FirstLanes(r, Goal(p, w, r))' = FirstLanes(r, Goal(p, w, r))
      BY <2>2 DEF Goal, FirstLanes, Wanted
    <3>2. \A i, c, a : Reaches(i, c, a)' = Reaches(i, c, a)
      BY <2>2 DEF Reaches
    <3>3. Asks(p, w)'
      BY <2>2, <2>5 DEF Moving, Asks, Settled
    <3>4. Sleeps(p, w)'
      <4>1. Sleeps(p, w)
        BY <2>5 DEF Moving
      <4>2. \A i \in 1 .. Len(todo') : todo'[i] = todo[i] /\ i \in 1 .. Len(todo)
        BY <2>2
      <4> SUFFICES ASSUME NEW i \in 1 .. Len(todo'), todo'[i].reg = "low_power"
                   PROVE  \E c \in Cores, a \in SUBSET {0, 1} :
                            /\ Reaches(i, c, a)'
                            /\ \A x \in a : \A q \in Port : <<c, x>> \notin FirstLanes(q, Goal(p, w, q))'
        BY DEF Sleeps
      <4>3. PICK c \in Cores, a \in SUBSET {0, 1} :
              /\ Reaches(i, c, a)
              /\ \A x \in a : \A q \in Port : <<c, x>> \notin FirstLanes(q, Goal(p, w, q))
        BY <4>1, <4>2 DEF Sleeps
      <4>4. \A x \in a : \A q \in Port : <<c, x>> \notin FirstLanes(q, Goal(p, w, q))'
        BY <3>1, <4>3
      <4>5. Reaches(i, c, a)'
        BY <3>2, <4>3
      <4> QED BY <4>4, <4>5
    <3>5. Wakes(p, w)'
      BY <2>2, <2>5, <3>2 DEF Moving, Wakes, FirstLanes
    <3> QED BY <2>2, <2>5, <3>3, <3>4, <3>5 DEF Moving
  <2> QED BY <2>3, <2>4, <2>5 DEF LaneInv
<1> QED BY <1>3, <1>4, <1>5, <1>6, <1>7, <1>8, <1>9, <1>10, <1>11 DEF LaneNext

\* A link that has been told a width has the lanes of that width awake, from
\* before the switch sees the request until the next one: on either strapping,
\* whatever the ioctls, as long as a lane change begins when the last has
\* taken effect.
THEOREM LanesAlwaysReady ==
  ASSUME "hasty" \notin Faults PROVE LaneSpec => []LanesReady
<1>1. LaneInit => LaneInv
  <2> SUFFICES ASSUME LaneInit PROVE LaneInv
    OBVIOUS
  <2>1. mode \in Modes /\ todo = <<>> /\ req = [p \in Port |-> 0]
        /\ width = [p \in Port |-> Len(LanesOf(mode, p))]
    BY DEF LaneInit, Modes
  <2>2. \A p \in Port : /\ Len(LanesOf(mode, p)) \in Widths
                        /\ FirstLanes(p, Len(LanesOf(mode, p))) \subseteq Lane
    <3> SUFFICES ASSUME NEW p \in Port
                 PROVE  /\ Len(LanesOf(mode, p)) \in Widths
                        /\ FirstLanes(p, Len(LanesOf(mode, p))) \subseteq Lane
      OBVIOUS
    <3>1. Len(LanesOf(mode, p)) \in Widths
      BY <2>1, LanesOfIs DEF Widths
    <3>2. Len(LanesOf(mode, p)) <= Len(LanesOf(mode, p))
      BY <3>1 DEF Widths
    <3> QED BY <2>1, <3>1, <3>2, FirstLanesIn
  <2>3. \A p \in Port : Wanted(p) = Len(LanesOf(mode, p))
    BY <2>1 DEF Wanted
  <2>4. DOMAIN lane = Lane /\ \A l \in Lane : "asleep" \in DOMAIN lane[l] /\ ~lane[l].asleep
    BY DEF LaneInit
  <2>5. \A p \in Port : Len(LanesOf(mode, p)) <= Len(LanesOf(mode, p))
    BY <2>2 DEF Widths
  <2>6. HwOK
    BY <2>1, <2>2, <2>3, <2>4, <2>5 DEF HwOK
  <2>7. Awake
    BY <2>2, <2>3, <2>4 DEF Awake
  <2>8. Still
    BY <2>1 DEF Still
  <2> QED BY <2>6, <2>7, <2>8 DEF LaneInv
<1> QED BY <1>1, LaneNextInv, AwakeReady, PTL DEF LaneSpec

\* How far each device is in what tc956x_replace_aspm does to it.
AspmInv ==
  /\ mode \in Modes
  /\ aspm \in [Device -> Nat] /\ savedAspm \in [Device -> Nat] /\ todo \in Seq(Writes)
  /\ AspmOrder(todo) /\ AspmPairs(todo)
  /\ \A d \in Device :
       /\ Has(todo, "aspm_off", d) => aspm[d] = AspmOf[d]
       /\ ~Has(todo, "aspm_off", d) /\ Has(todo, "aspm_back", d) =>
            aspm[d] = 0 /\ savedAspm[d] = AspmOf[d]
       /\ ~Has(todo, "aspm_back", d) => aspm[d] = AspmOf[d]

LEMMA AspmRest ==
  ASSUME todo \in Seq(Writes), todo # <<>>, todo' = Tail(todo), AspmOrder(todo), AspmPairs(todo)
  PROVE  /\ AspmOrder(todo') /\ AspmPairs(todo')
         /\ \A r, d : Has(todo', r, d) => Has(todo, r, d)
         /\ \A r, d : Has(todo, r, d) => Has(todo', r, d) \/ (Head(todo).reg = r /\ Head(todo).val = d)
         /\ Head(todo).reg \in {"aspm_off", "aspm_back"} =>
              Head(todo).val \in Device /\ ~Has(todo', Head(todo).reg, Head(todo).val)
         /\ Head(todo).reg # "aspm_off" => \A d : ~Has(todo, "aspm_off", d)
<1>1. /\ Head(todo) = todo[1] /\ Len(todo) \in Nat \ {0} /\ Len(todo') = Len(todo) - 1
      /\ \A i \in 1 .. Len(todo') : todo'[i] = todo[i + 1] /\ i + 1 \in 1 .. Len(todo)
  BY RestIs
<1>2. /\ 1 \in 1 .. Len(todo) /\ \A i \in 1 .. Len(todo) : i = 1 \/ i - 1 \in 1 .. Len(todo')
      /\ \A i \in 1 .. Len(todo) : i # 1 => 1 < i /\ todo[i] = todo'[i - 1]
  BY <1>1
<1>3. \A r, d : Has(todo', r, d) => Has(todo, r, d)
  BY <1>1 DEF Has
<1>4. \A r, d : Has(todo, r, d) => Has(todo', r, d) \/ (Head(todo).reg = r /\ Head(todo).val = d)
  BY <1>1, <1>2 DEF Has
<1>5. AspmOrder(todo')
  <2> SUFFICES ASSUME NEW i \in 1 .. Len(todo'), NEW j \in 1 .. Len(todo'), i < j
               PROVE  /\ todo'[j].reg = "aspm_off" => todo'[i].reg = "aspm_off"
                      /\ todo'[i].reg = "aspm_back" => todo'[j].reg = "aspm_back"
                      /\ todo'[i].reg = todo'[j].reg /\ todo'[i].reg \in {"aspm_off", "aspm_back"}
                           => todo'[i].val # todo'[j].val
    BY DEF AspmOrder
  <2>1. /\ i + 1 \in 1 .. Len(todo) /\ j + 1 \in 1 .. Len(todo) /\ i + 1 < j + 1
        /\ todo'[i] = todo[i + 1] /\ todo'[j] = todo[j + 1]
    BY <1>1
  <2> QED BY <2>1 DEF AspmOrder
<1>6. \A i \in 1 .. Len(todo) : i # 1 /\ todo[1].reg \in {"aspm_off", "aspm_back"} =>
        ~(todo[i].reg = todo[1].reg /\ todo[i].val = todo[1].val)
  BY <1>2 DEF AspmOrder
<1>7. Head(todo).reg \in {"aspm_off", "aspm_back"} =>
        Head(todo).val \in Device /\ ~Has(todo', Head(todo).reg, Head(todo).val)
  <2>1. todo[1].reg \in {"aspm_off", "aspm_back"} => todo[1].val \in Device
    BY <1>2 DEF AspmPairs
  <2>2. \A i \in 1 .. Len(todo') : i + 1 # 1
    BY <1>1
  <2> QED BY <1>1, <1>6, <2>1, <2>2 DEF Has
<1>8. Head(todo).reg # "aspm_off" => \A d : ~Has(todo, "aspm_off", d)
  <2> SUFFICES ASSUME NEW i \in 1 .. Len(todo), todo[i].reg = "aspm_off" PROVE todo[1].reg = "aspm_off"
    BY <1>1 DEF Has
  <2> QED BY <1>2 DEF AspmOrder
<1>9. AspmPairs(todo')
  <2> SUFFICES ASSUME NEW i \in 1 .. Len(todo')
               PROVE  /\ todo'[i].reg \in {"aspm_off", "aspm_back"} => todo'[i].val \in Device
                      /\ todo'[i].reg \in {"aspm_off", "speed"} =>
                           \A d \in Device : Has(todo', "aspm_back", d)
    BY DEF AspmPairs
  <2>1. i + 1 \in 1 .. Len(todo) /\ todo'[i] = todo[i + 1] /\ i + 1 # 1 /\ 1 < i + 1
    BY <1>1
  <2>2. todo[i + 1].reg \in {"aspm_off", "speed"} => todo[1].reg # "aspm_back"
    BY <1>2, <2>1 DEF AspmOrder
  <2>3. todo[i + 1].reg \in {"aspm_off", "speed"} => \A d \in Device : Has(todo, "aspm_back", d)
    BY <2>1 DEF AspmPairs
  <2>4. todo[i + 1].reg \in {"aspm_off", "aspm_back"} => todo[i + 1].val \in Device
    BY <2>1 DEF AspmPairs
  <2> QED BY <1>1, <1>4, <2>1, <2>2, <2>3, <2>4
<1> QED BY <1>3, <1>4, <1>5, <1>7, <1>8, <1>9

LEMMA AspmWrite ==
  ASSUME AspmInv, DoWrite PROVE AspmInv'
<1> DEFINE h == Head(todo)
<1>1. todo \in Seq(Writes) /\ todo # <<>> /\ todo' = Tail(todo) /\ mode' = mode /\ todo' \in Seq(Writes)
  BY RestIs DEF AspmInv, DoWrite
<1>2. /\ AspmOrder(todo') /\ AspmPairs(todo')
      /\ \A r, d : Has(todo', r, d) => Has(todo, r, d)
      /\ \A r, d : Has(todo, r, d) => Has(todo', r, d) \/ (h.reg = r /\ h.val = d)
      /\ h.reg \in {"aspm_off", "aspm_back"} => h.val \in Device /\ ~Has(todo', h.reg, h.val)
      /\ h.reg # "aspm_off" => \A d : ~Has(todo, "aspm_off", d)
  BY <1>1, AspmRest DEF AspmInv
<1>3. \A d \in Device : Has(todo, "aspm_off", d) => Has(todo, "aspm_back", d)
  BY DEF AspmInv, AspmPairs, Has
<1>4. Has(todo, h.reg, h.val)
  BY <1>1, RestIs DEF Has
<1>5. /\ h.reg \notin {"aspm_off", "aspm_back"} => aspm' = aspm /\ savedAspm' = savedAspm
      /\ h.reg = "aspm_off" => /\ savedAspm' = [savedAspm EXCEPT ![h.val] = aspm[h.val]]
                               /\ aspm' = [aspm EXCEPT ![h.val] = 0]
      /\ h.reg = "aspm_back" => /\ aspm' = [aspm EXCEPT ![h.val] = savedAspm[h.val]]
                                /\ savedAspm' = savedAspm
  BY DEF DoWrite, WriteSelect, WriteLane, WriteCore, WriteRequest, WriteConfig
<1> HIDE DEF h
<1>6. CASE h.reg \notin {"aspm_off", "aspm_back"}
  <2>1. \A d \in Device : /\ Has(todo', "aspm_off", d) <=> Has(todo, "aspm_off", d)
                          /\ Has(todo', "aspm_back", d) <=> Has(todo, "aspm_back", d)
    BY <1>2, <1>6
  <2> QED BY <1>1, <1>2, <1>5, <1>6, <2>1 DEF AspmInv
<1>7. CASE h.reg = "aspm_off"
  <2>1. h.val \in Device /\ ~Has(todo', "aspm_off", h.val) /\ Has(todo', "aspm_back", h.val)
        /\ aspm[h.val] = AspmOf[h.val]
    BY <1>2, <1>3, <1>4, <1>7 DEF AspmInv
  <2>2. \A d \in Device : d # h.val =>
          /\ Has(todo', "aspm_off", d) <=> Has(todo, "aspm_off", d)
          /\ Has(todo', "aspm_back", d) <=> Has(todo, "aspm_back", d)
    BY <1>2
  <2>3. \A d \in Device : /\ aspm'[d] = IF d = h.val THEN 0 ELSE aspm[d]
                          /\ savedAspm'[d] = IF d = h.val THEN AspmOf[d] ELSE savedAspm[d]
    BY <1>5, <1>7, <2>1 DEF AspmInv
  <2>4. aspm' \in [Device -> Nat] /\ savedAspm' \in [Device -> Nat]
    <3>1. aspm \in [Device -> Nat] /\ savedAspm \in [Device -> Nat] /\ aspm[h.val] \in Nat /\ 0 \in Nat
      BY <2>1 DEF AspmInv
    <3>2. aspm' = [aspm EXCEPT ![h.val] = 0] /\ savedAspm' = [savedAspm EXCEPT ![h.val] = aspm[h.val]]
      BY <1>5, <1>7
    <3> QED BY <3>1, <3>2
  <2> QED BY <1>1, <1>2, <1>5, <2>1, <2>2, <2>3, <2>4 DEF AspmInv
<1>8. CASE h.reg = "aspm_back"
  <2>1. /\ h.val \in Device /\ ~Has(todo', "aspm_back", h.val)
        /\ \A d \in Device : ~Has(todo, "aspm_off", d) /\ ~Has(todo', "aspm_off", d)
        /\ savedAspm[h.val] = AspmOf[h.val]
    BY <1>2, <1>4, <1>8 DEF AspmInv
  <2>2. \A d \in Device : d # h.val => (Has(todo', "aspm_back", d) <=> Has(todo, "aspm_back", d))
    BY <1>2
  <2>3. /\ \A d \in Device : aspm'[d] = IF d = h.val THEN AspmOf[d] ELSE aspm[d]
        /\ savedAspm' = savedAspm
    BY <1>5, <1>8, <2>1 DEF AspmInv
  <2>4. aspm' \in [Device -> Nat]
    BY <1>5, <1>8, <2>1 DEF AspmInv
  <2> QED BY <1>1, <1>2, <1>5, <2>1, <2>2, <2>3, <2>4 DEF AspmInv
<1> QED BY <1>6, <1>7, <1>8

LEMMA AspmNext ==
  ASSUME AspmInv, [LaneNext]_laneVars
  PROVE  AspmInv'
<1>1. ASSUME UNCHANGED <<mode, aspm, savedAspm, todo>> PROVE AspmInv'
  BY <1>1 DEF AspmInv
<1>2. ASSUME UNCHANGED <<mode, hw>>, todo = <<>>, NEW regs, Only(todo', regs),
             regs \cap ConfigRegs = {}
      PROVE  AspmInv'
  <2>1. mode' = mode /\ aspm' = aspm /\ savedAspm' = savedAspm
    BY <1>2 DEF hw
  <2>2. \A i \in 1 .. Len(todo') : todo'[i].reg \notin {"aspm_off", "aspm_back", "speed"}
    BY <1>2 DEF Only, ConfigRegs
  <2>3. \A d : /\ ~Has(todo', "aspm_off", d) /\ ~Has(todo', "aspm_back", d)
               /\ ~Has(todo, "aspm_off", d) /\ ~Has(todo, "aspm_back", d)
    BY <1>2, <2>2 DEF Has
  <2>4. AspmOrder(todo') /\ AspmPairs(todo')
    BY <2>2 DEF AspmOrder, AspmPairs
  <2> QED BY <1>2, <2>1, <2>3, <2>4 DEF AspmInv, Only
<1>3. SettingRegs \cap ConfigRegs = {} /\ LaneRegs \cap ConfigRegs = {}
  BY DEF SettingRegs, LaneRegs, ConfigRegs
<1>4. mode \in Modes
  BY DEF AspmInv
<1>5. CASE DoWrite
  BY <1>5, AspmWrite
<1>6. CASE LinkRetrains
  <2>1. mode' = mode /\ aspm' = aspm /\ savedAspm' = savedAspm /\ todo' = todo
    BY <1>6 DEF LinkRetrains
  <2> QED BY <2>1 DEF AspmInv
<1>7. CASE IoctlLaneChange
  <2>1. PICK p \in Port, w \in {1, 2, 4} : Begin(LaneChange(p, w), asked)
    BY <1>7 DEF IoctlLaneChange
  <2>2. todo' = LaneChange(p, w) /\ UNCHANGED <<mode, hw>> /\ w \in Widths /\ todo = <<>>
    BY <2>1 DEF Begin, Widths
  <2>3. Only(LaneChange(p, w), LaneRegs)
    <3>1. CASE LaneChange(p, w) = <<>>
      BY <3>1, OnlyEmpty
    <3>2. CASE LaneChange(p, w) # <<>>
      BY <1>4, <2>2, <3>2, LaneChangeMoves DEF Moves
    <3> QED BY <3>1, <3>2
  <2> QED BY <1>2, <1>3, <2>2, <2>3
<1>8. CASE IoctlTxMargin
  BY <1>2, <1>3, <1>4, <1>8, TxMarginIs DEF IoctlTxMargin, Begin
<1>9. CASE IoctlTxDeemphasis
  BY <1>2, <1>3, <1>4, <1>9, TxDeemphasisIs DEF IoctlTxDeemphasis, Begin
<1>10. CASE IoctlDfe
  BY <1>2, <1>3, <1>4, <1>10, DfeIs DEF IoctlDfe, Begin
<1>11. CASE IoctlCtleFixed
  BY <1>2, <1>3, <1>4, <1>11, CtleIs DEF IoctlCtleFixed, Begin
<1>12. CASE IoctlSpeedChange
  <2>1. PICK v \in Speeds : Begin(SetPciSpeed(v), asked)
    BY <1>12 DEF IoctlSpeedChange
  <2>2. todo' = SetPciSpeed(v) /\ UNCHANGED <<mode, hw>> /\ todo = <<>>
    BY <2>1 DEF Begin
  <2>3. CASE SetPciSpeed(v) = <<>>
    BY <1>2, <1>3, <2>2, <2>3, OnlyEmpty
  <2>4. CASE SetPciSpeed(v) # <<>>
    <3>1. /\ Only(todo', ConfigRegs) /\ AspmOrder(todo') /\ AspmPairs(todo')
          /\ \A d \in Device : Has(todo', "aspm_off", d)
      BY <2>2, <2>4, SpeedIs
    <3>2. \A d \in Device : Has(todo', "aspm_back", d)
      BY <3>1 DEF AspmPairs, Has
    <3>3. \A d \in Device : ~Has(todo, "aspm_back", d)
      BY <2>2 DEF Has
    <3>4. mode' = mode /\ aspm' = aspm /\ savedAspm' = savedAspm
      BY <2>2 DEF hw
    <3> QED BY <3>1, <3>2, <3>3, <3>4 DEF AspmInv, Only
  <2> QED BY <2>3, <2>4
<1>13. CASE UNCHANGED laneVars
  BY <1>1, <1>13 DEF laneVars, hw
<1> QED BY <1>5, <1>6, <1>7, <1>8, <1>9, <1>10, <1>11, <1>12, <1>13 DEF LaneNext

\* While the links retrain for tc956x_set_pci_speed no device below the switch
\* has ASPM on, and afterwards each has the ASPM it had: for any finite set of
\* devices and any settings of theirs.
THEOREM AspmAlwaysSafe ==
  LaneSpec => []AspmSafe
<1>1. LaneInit => AspmInv
  <2> SUFFICES ASSUME LaneInit PROVE AspmInv
    OBVIOUS
  <2>1. /\ mode \in Modes /\ todo = <<>> /\ aspm = AspmOf /\ savedAspm = [d \in Device |-> 0]
    BY DEF LaneInit, Modes
  <2>2. \A r, d : ~Has(todo, r, d)
    BY <2>1 DEF Has
  <2>3. AspmOrder(todo) /\ AspmPairs(todo)
    BY <2>1 DEF AspmOrder, AspmPairs
  <2> QED BY <2>1, <2>2, <2>3, DeviceAssumption DEF AspmInv
<1>2. AspmInv => AspmSafe
  <2> SUFFICES ASSUME AspmInv PROVE AspmSafe
    OBVIOUS
  <2>1. todo = <<>> => aspm = AspmOf
    <3>1. todo = <<>> => \A d \in Device : ~Has(todo, "aspm_back", d)
      BY DEF Has
    <3> QED BY <3>1, DeviceAssumption DEF AspmInv
  <2>2. ASSUME todo # <<>>, Head(todo).reg = "speed" PROVE \A d \in Device : aspm[d] = 0
    <3>1. todo[1].reg = "speed" /\ 1 \in 1 .. Len(todo) /\ Len(todo) \in Nat
      BY <2>2, HeadTailProperties DEF AspmInv
    <3>2. \A i \in 1 .. Len(todo) : i = 1 \/ 1 < i
      BY <3>1
    <3>3. \A d : ~Has(todo, "aspm_off", d)
      BY <3>1, <3>2 DEF Has, AspmInv, AspmOrder
    <3>4. \A d \in Device : Has(todo, "aspm_back", d)
      BY <3>1 DEF AspmInv, AspmPairs
    <3> QED BY <3>3, <3>4 DEF AspmInv
  <2> QED BY <2>1, <2>2 DEF AspmSafe
<1> QED BY <1>1, <1>2, AspmNext, PTL DEF LaneSpec

-----------------------------------------------------------------------------
(* Settings: what the writes still to come will leave in the registers.    *)

LanesIn(C) == {l \in Lane : l[1] \in C}
PutLanes(f, X, v) == [l \in Lane |-> IF l \in X THEN v ELSE f[l]]
PutCores(f, X, v) == [c \in Cores |-> IF c \in X THEN v ELSE f[c]]
PutOwn(f, X, v) == [l \in Lane |-> IF l \in X THEN Own(v, l) ELSE f[l]]

\* The registers of the settings, and what they are after a write.
Now == [sel |-> sel, acc |-> acc,
        deemph |-> [l \in Lane |-> lane[l].deemph], eq |-> [l \in Lane |-> lane[l].eq],
        eq1 |-> [l \in Lane |-> lane[l].eq1], ctle |-> [l \in Lane |-> lane[l].ctle],
        margin |-> [c \in Cores |-> core[c].margin], pd |-> [c \in Cores |-> core[c].pd]]
Hit(h) == {l \in Lane : l[1] \in h.sel /\ l[2] \in h.acc[l[1]]}
Copied(f, X) == [l \in Lane |-> IF l \in X THEN Own("best", CHOOSE x \in X : TRUE) ELSE f[l]]
After(h, w) ==
  IF w.reg \notin SettingRegs THEN h
  ELSE [sel    |-> IF w.reg = "core" THEN w.val ELSE h.sel,
        acc    |-> IF w.reg = "access" THEN PutCores(h.acc, h.sel, w.val) ELSE h.acc,
        deemph |-> IF w.reg = "deemph" THEN PutLanes(h.deemph, Hit(h), w.val) ELSE h.deemph,
        eq     |-> IF w.reg = "eq" THEN PutLanes(h.eq, Hit(h), w.val) ELSE h.eq,
        eq1    |-> IF w.reg = "eq1" THEN PutLanes(h.eq1, Hit(h), w.val) ELSE h.eq1,
        ctle   |-> IF w.reg = "ctle" THEN PutOwn(h.ctle, Hit(h), w.val)
                   ELSE IF w.reg = "copy" THEN Copied(h.ctle, Hit(h)) ELSE h.ctle,
        margin |-> IF w.reg = "margin" THEN PutCores(h.margin, h.sel, w.val) ELSE h.margin,
        pd     |-> IF w.reg = "pd"
                   THEN PutCores(h.pd, {c \in h.sel : c = 1 <=> w.val[1] = 1}, w.val[2])
                   ELSE h.pd]

\* The writes of s, one after the other, lead from registers h to k.
Leads(s, h, k) ==
  /\ s \in Seq(Writes)
  /\ \E g : /\ g[0] = h /\ g[Len(s)] = k
            /\ \A i \in 1 .. Len(s) : g[i] = After(g[i - 1], s[i])

LEMMA LeadsNone ==
  ASSUME NEW h, NEW k
  PROVE  Leads(<<>>, h, h) /\ (Leads(<<>>, h, k) => k = h)
<1> DEFINE g == [i \in {0} |-> h]
<1>1. g[0] = h /\ Len(<<>>) = 0 /\ <<>> \in Seq(Writes) /\ \A i \in 1 .. 0 : FALSE
  OBVIOUS
<1> HIDE DEF g
<1> QED BY <1>1 DEF Leads

LEMMA LeadsOne ==
  ASSUME NEW w \in Writes, NEW h
  PROVE  Leads(<<w>>, h, After(h, w))
<1> DEFINE g == [i \in {0, 1} |-> IF i = 0 THEN h ELSE After(h, w)]
<1>1. /\ g[0] = h /\ g[1] = After(h, w) /\ Len(<<w>>) = 1 /\ <<w>> \in Seq(Writes)
      /\ <<w>>[1] = w /\ \A i \in 1 .. 1 : i = 1 /\ i - 1 = 0
  OBVIOUS
<1> HIDE DEF g
<1> QED BY <1>1 DEF Leads

LEMMA LeadsOn ==
  ASSUME NEW s, NEW t, NEW h, NEW k, NEW m, Leads(s, h, k), Leads(t, k, m)
  PROVE  Leads(s \o t, h, m)
<1>1. s \in Seq(Writes) /\ t \in Seq(Writes) /\ Len(s) \in Nat /\ Len(t) \in Nat
  BY DEF Leads
<1>2. PICK f : /\ f[0] = h /\ f[Len(s)] = k
               /\ \A i \in 1 .. Len(s) : f[i] = After(f[i - 1], s[i])
  BY DEF Leads
<1>3. PICK e : /\ e[0] = k /\ e[Len(t)] = m
               /\ \A i \in 1 .. Len(t) : e[i] = After(e[i - 1], t[i])
  BY DEF Leads
<1>4. /\ s \o t \in Seq(Writes) /\ Len(s \o t) = Len(s) + Len(t)
      /\ \A i \in 1 .. Len(s) + Len(t) : (s \o t)[i] = IF i <= Len(s) THEN s[i] ELSE t[i - Len(s)]
  BY <1>1, ConcatProperties
<1> DEFINE g == [i \in 0 .. Len(s) + Len(t) |-> IF i <= Len(s) THEN f[i] ELSE e[i - Len(s)]]
<1>5. /\ \A i \in 0 .. Len(s) : g[i] = f[i]
      /\ \A i \in 0 .. Len(s) + Len(t) : i > Len(s) => g[i] = e[i - Len(s)]
  BY <1>1
<1> HIDE DEF g
<1>6. g[0] = h
  BY <1>1, <1>2, <1>5
<1>7. g[Len(s) + Len(t)] = m
  <2>1. CASE Len(t) = 0
    BY <1>1, <1>2, <1>3, <1>5, <2>1
  <2>2. CASE Len(t) > 0
    BY <1>1, <1>3, <1>5, <2>2
  <2> QED BY <1>1, <2>1, <2>2
<1>8. ASSUME NEW i \in 1 .. Len(s) + Len(t) PROVE g[i] = After(g[i - 1], (s \o t)[i])
  <2>1. CASE i <= Len(s)
    <3>1. i \in 1 .. Len(s) /\ g[i] = f[i] /\ g[i - 1] = f[i - 1] /\ (s \o t)[i] = s[i]
      BY <1>1, <1>4, <1>5, <2>1
    <3> QED BY <1>2, <3>1
  <2>2. CASE i > Len(s)
    <3>1. /\ i - Len(s) \in 1 .. Len(t) /\ g[i] = e[i - Len(s)] /\ (s \o t)[i] = t[i - Len(s)]
      BY <1>1, <1>4, <1>5, <2>2
    <3>2. g[i - 1] = e[(i - Len(s)) - 1]
      <4>1. CASE i - 1 = Len(s)
        BY <1>1, <1>2, <1>3, <1>5, <4>1
      <4>2. CASE i - 1 > Len(s)
        <5>1. i - 1 \in 0 .. Len(s) + Len(t) /\ (i - 1) - Len(s) = (i - Len(s)) - 1
          BY <1>1, <2>2
        <5> QED BY <1>5, <4>2, <5>1
      <4> QED BY <1>1, <2>2, <4>1, <4>2
    <3> QED BY <1>3, <3>1, <3>2
  <2> QED BY <1>1, <2>1, <2>2
<1> QED BY <1>4, <1>6, <1>7, <1>8 DEF Leads

LEMMA LeadsRest ==
  ASSUME NEW s, NEW h, NEW k, Leads(s, h, k), s # <<>>
  PROVE  Leads(Tail(s), After(h, Head(s)), k)
<1>1. /\ s \in Seq(Writes) /\ Len(s) \in Nat \ {0} /\ Head(s) = s[1] /\ Tail(s) \in Seq(Writes)
      /\ Len(Tail(s)) = Len(s) - 1 /\ \A i \in 1 .. Len(Tail(s)) : Tail(s)[i] = s[i + 1]
  BY HeadTailProperties DEF Leads
<1>2. PICK f : /\ f[0] = h /\ f[Len(s)] = k
               /\ \A i \in 1 .. Len(s) : f[i] = After(f[i - 1], s[i])
  BY DEF Leads
<1> DEFINE g == [i \in 0 .. Len(s) - 1 |-> f[i + 1]]
<1>3. \A i \in 0 .. Len(s) - 1 : g[i] = f[i + 1]
  OBVIOUS
<1> HIDE DEF g
<1>4. g[0] = After(h, Head(s)) /\ g[Len(s) - 1] = k
  BY <1>1, <1>2, <1>3
<1>5. ASSUME NEW i \in 1 .. Len(s) - 1 PROVE g[i] = After(g[i - 1], Tail(s)[i])
  <2>1. i + 1 \in 1 .. Len(s) /\ i - 1 \in 0 .. Len(s) - 1 /\ (i + 1) - 1 = i /\ (i - 1) + 1 = i
    BY <1>1
  <2> QED BY <1>1, <1>2, <1>3, <2>1
<1> QED BY <1>1, <1>4, <1>5 DEF Leads

\* Writes of other registers lead nowhere.
LEMMA LeadsNowhere ==
  ASSUME NEW s, NEW regs, Only(s, regs), regs \cap SettingRegs = {}, NEW h
  PROVE  Leads(s, h, h)
<1> DEFINE g == [i \in 0 .. Len(s) |-> h]
<1>1. s \in Seq(Writes) /\ Len(s) \in Nat /\ \A i \in 0 .. Len(s) : g[i] = h
  BY DEF Only
<1> HIDE DEF g
<1>2. \A i \in 1 .. Len(s) : After(h, s[i]) = h
  BY DEF Only, After
<1>3. \A i \in 1 .. Len(s) : g[i] = After(g[i - 1], s[i])
  BY <1>1, <1>2
<1> QED BY <1>1, <1>3 DEF Leads

\* Nothing but the selection differs.
SameSettings(h, k) ==
  /\ k.deemph = h.deemph /\ k.eq = h.eq /\ k.eq1 = h.eq1 /\ k.ctle = h.ctle
  /\ k.margin = h.margin /\ k.pd = h.pd
SameSelection(h, k) == k.sel = h.sel /\ k.acc = h.acc
\* Cores C are selected, with every lane within reach.
Open(h, C) == h.sel = C /\ C \subseteq Cores /\ \A c \in C : h.acc[c] = {0, 1}
\* The cores of one lane are always open.
Wide(h) == h.acc[2] = {0, 1} /\ h.acc[3] = {0, 1}

LEMMA OpenHits ==
  ASSUME NEW h, NEW C, Open(h, C) PROVE Hit(h) = LanesIn(C)
<1>1. \A l \in Lane : l[2] \in {0, 1}
  BY DEF Lane
<1> QED BY <1>1 DEF Open, Hit, LanesIn

LEMMA SelectCore ==
  ASSUME NEW h, NEW C \in SUBSET Cores
  PROVE  \E k : /\ Leads(<<Core(C)>>, h, k)
                /\ k.sel = C /\ k.acc = h.acc /\ SameSettings(h, k)
<1> DEFINE w == Core(C)
           k == After(h, w)
<1>1. w \in Writes /\ w.reg = "core" /\ w.val = C
  BY WriteTypes
<1> HIDE DEF w
<1>2. Leads(<<w>>, h, k)
  BY <1>1, LeadsOne
<1>3. k.sel = C /\ k.acc = h.acc /\ SameSettings(h, k)
  BY <1>1 DEF After, SameSettings, SettingRegs
<1> QED BY <1>2, <1>3 DEF w

\* Cores C are selected, and their lanes A, for the writes to come.
Selected(h, k, C, A) ==
  /\ k.sel = C /\ \A c \in Cores : k.acc[c] = IF c \in C THEN A ELSE h.acc[c]
  /\ Wide(h) => Wide(k)
  /\ SameSettings(h, k)

LEMMA TwoWrites ==
  ASSUME NEW a \in Writes, NEW b \in Writes
  PROVE  <<a>> \o <<b>> = <<a, b>>
<1>1. <<a>> \in Seq(Writes) /\ <<b>> \in Seq(Writes) /\ <<a, b>> \in Seq(Writes)
      /\ Len(<<a>>) = 1 /\ Len(<<b>>) = 1 /\ Len(<<a, b>>) = 2
      /\ <<a, b>>[1] = a /\ <<a, b>>[2] = b
  OBVIOUS
<1>2. /\ <<a>> \o <<b>> \in Seq(Writes) /\ Len(<<a>> \o <<b>>) = 2
      /\ (<<a>> \o <<b>>)[1] = a /\ (<<a>> \o <<b>>)[2] = b
  <2> DEFINE s == <<a>>
             t == <<b>>
  <2>1. /\ s \o t \in Seq(Writes) /\ Len(s \o t) = Len(s) + Len(t)
        /\ \A i \in 1 .. Len(s) + Len(t) : (s \o t)[i] = IF i <= Len(s) THEN s[i] ELSE t[i - Len(s)]
    BY <1>1, ConcatProperties
  <2>2. s[1] = a /\ t[1] = b
    OBVIOUS
  <2> HIDE DEF s, t
  <2>3. (s \o t)[1] = s[1] /\ (s \o t)[2] = t[1] /\ Len(s \o t) = 2
    <3>1. Len(s) = 1 /\ Len(t) = 1
      BY <1>1 DEF s, t
    <3> QED BY <2>1, <3>1
  <2> QED BY <2>1, <2>2, <2>3 DEF s, t
<1>3. \A i \in 1 .. 2 : (<<a>> \o <<b>>)[i] = <<a, b>>[i]
  BY <1>1, <1>2
<1> QED BY <1>1, <1>2, <1>3, SeqEqual

LEMMA SelectLanes ==
  ASSUME NEW h, NEW C \in SUBSET {0, 1}, NEW A \in SUBSET {0, 1}
  PROVE  \E k : Leads(<<Core(C), Access(A)>>, h, k) /\ Selected(h, k, C, A)
<1> DEFINE w == Access(A)
<1>1. C \in SUBSET Cores
  BY DEF Cores
<1>2. PICK m : /\ Leads(<<Core(C)>>, h, m)
               /\ m.sel = C /\ m.acc = h.acc /\ SameSettings(h, m)
  BY <1>1, SelectCore
<1>3. w \in Writes /\ w.reg = "access" /\ w.val = A
  BY WriteTypes
<1> HIDE DEF w
<1> DEFINE k == After(m, w)
<1>4. Leads(<<w>>, m, k)
  BY <1>3, LeadsOne
<1>5. k.sel = C /\ k.acc = PutCores(h.acc, C, A) /\ SameSettings(h, k)
  BY <1>2, <1>3 DEF After, SameSettings, SettingRegs
<1> HIDE DEF k
<1>6. \A c \in Cores : k.acc[c] = IF c \in C THEN A ELSE h.acc[c]
  BY <1>5 DEF PutCores
<1>7. Wide(h) => Wide(k)
  BY <1>6 DEF Wide, Cores
<1>8. <<Core(C)>> \o <<w>> = <<Core(C), w>>
  BY <1>1, <1>3, WriteTypes, TwoWrites
<1>9. Leads(<<Core(C), w>>, h, k)
  BY <1>2, <1>4, <1>8, LeadsOn
<1> QED BY <1>5, <1>6, <1>7, <1>9 DEF w, Selected

\* One setting written to the lanes, or cores, of open cores C.
LEMMA WriteSetting ==
  ASSUME NEW h, NEW C, Open(h, C), NEW r \in {"deemph", "eq", "eq1", "ctle"}, NEW v \in Settings
  PROVE  \E k : /\ Leads(<<W(r, v)>>, h, k) /\ SameSelection(h, k)
                /\ k.deemph = (IF r = "deemph" THEN PutLanes(h.deemph, LanesIn(C), v) ELSE h.deemph)
                /\ k.eq = (IF r = "eq" THEN PutLanes(h.eq, LanesIn(C), v) ELSE h.eq)
                /\ k.eq1 = (IF r = "eq1" THEN PutLanes(h.eq1, LanesIn(C), v) ELSE h.eq1)
                /\ k.ctle = (IF r = "ctle" THEN PutOwn(h.ctle, LanesIn(C), v) ELSE h.ctle)
                /\ k.margin = h.margin /\ k.pd = h.pd
<1> DEFINE w == W(r, v)
           k == After(h, w)
<1>1. w \in Writes /\ w.reg = r /\ w.val = v /\ r \in SettingRegs
  BY DEF W, Writes, Vals, Regs, SettingRegs
<1> HIDE DEF w
<1>2. Leads(<<w>>, h, k)
  BY <1>1, LeadsOne
<1>3. Hit(h) = LanesIn(C)
  BY OpenHits
<1> QED BY <1>1, <1>2, <1>3 DEF After, SameSelection, w

LEMMA WriteMargin ==
  ASSUME NEW h, NEW m \in Presets
  PROVE  \E k : /\ Leads(<<W("margin", m)>>, h, k) /\ SameSelection(h, k)
                /\ k.deemph = h.deemph /\ k.eq = h.eq /\ k.eq1 = h.eq1 /\ k.ctle = h.ctle
                /\ k.margin = PutCores(h.margin, h.sel, m) /\ k.pd = h.pd
<1> DEFINE w == W("margin", m)
           k == After(h, w)
<1>1. w \in Writes /\ w.reg = "margin" /\ w.val = m
  BY DEF W, Writes, Vals, Settings, Regs, SettingRegs
<1> HIDE DEF w
<1>2. Leads(<<w>>, h, k)
  BY <1>1, LeadsOne
<1> QED BY <1>1, <1>2 DEF After, SameSelection, SettingRegs, w

LEMMA WritePd ==
  ASSUME NEW h, NEW c \in Cores, h.sel = {c}, NEW v \in {"off", "on"}
  PROVE  \E k : /\ Leads(<<W("pd", <<c, v>>)>>, h, k) /\ SameSelection(h, k)
                /\ k.deemph = h.deemph /\ k.eq = h.eq /\ k.eq1 = h.eq1 /\ k.ctle = h.ctle
                /\ k.margin = h.margin /\ k.pd = PutCores(h.pd, {c}, v)
<1> DEFINE w == W("pd", <<c, v>>)
           k == After(h, w)
<1>1. w \in Writes /\ w.reg = "pd" /\ w.val = <<c, v>>
  <2>1. <<c, v>> \in CorePds
    BY DEF CorePds
  <2>2. <<c, v>> \in Vals
    BY <2>1 DEF Vals
  <2> QED BY <2>2 DEF W, Writes, Regs, SettingRegs
<1> HIDE DEF w
<1>2. Leads(<<w>>, h, k)
  BY <1>1, LeadsOne
<1>3. {x \in h.sel : x = 1 <=> w.val[1] = 1} = {c} /\ w.val[2] = v
  BY <1>1
<1>4. /\ SameSelection(h, k) /\ k.deemph = h.deemph /\ k.eq = h.eq /\ k.eq1 = h.eq1
      /\ k.ctle = h.ctle /\ k.margin = h.margin
      /\ k.pd = PutCores(h.pd, {x \in h.sel : x = 1 <=> w.val[1] = 1}, w.val[2])
  BY <1>1 DEF After, SameSelection, SettingRegs
<1> HIDE DEF k
<1> QED BY <1>2, <1>3, <1>4 DEF w

\* The result copied is that of the one lane within reach.
LEMMA WriteCopy ==
  ASSUME NEW h, NEW x \in Lane, Hit(h) = {x}
  PROVE  \E k : /\ Leads(<<CopyCtle>>, h, k) /\ SameSelection(h, k)
                /\ k.deemph = h.deemph /\ k.eq = h.eq /\ k.eq1 = h.eq1
                /\ k.ctle = PutOwn(h.ctle, {x}, "best")
                /\ k.margin = h.margin /\ k.pd = h.pd
<1> DEFINE w == CopyCtle
           k == After(h, w)
<1>1. w \in Writes /\ w.reg = "copy"
  BY WriteTypes
<1> HIDE DEF w
<1>2. Leads(<<w>>, h, k)
  BY <1>1, LeadsOne
<1>3. /\ SameSelection(h, k) /\ k.deemph = h.deemph /\ k.eq = h.eq /\ k.eq1 = h.eq1
      /\ k.ctle = Copied(h.ctle, Hit(h)) /\ k.margin = h.margin /\ k.pd = h.pd
  BY <1>1 DEF After, SameSelection, SettingRegs
<1> HIDE DEF k
<1>4. (CHOOSE y \in {x} : TRUE) = x
  OBVIOUS
<1>5. Copied(h.ctle, {x}) = PutOwn(h.ctle, {x}, "best")
  BY <1>4 DEF Copied, PutOwn
<1> QED BY <1>2, <1>3, <1>5 DEF w

\* Programs written as lists of writes, in two parts.
LEMMA LeadsJoin ==
  ASSUME NEW s, NEW t, NEW u \in Seq(Writes), NEW h, NEW k, NEW m,
         Leads(s, h, k), Leads(t, k, m), Len(u) = Len(s) + Len(t),
         \A i \in 1 .. Len(s) : u[i] = s[i],
         \A i \in 1 .. Len(t) : u[Len(s) + i] = t[i]
  PROVE  Leads(u, h, m)
<1>1. s \in Seq(Writes) /\ t \in Seq(Writes) /\ Len(s) \in Nat /\ Len(t) \in Nat
  BY DEF Leads
<1>2. /\ s \o t \in Seq(Writes) /\ Len(s \o t) = Len(s) + Len(t)
      /\ \A i \in 1 .. Len(s) + Len(t) : (s \o t)[i] = IF i <= Len(s) THEN s[i] ELSE t[i - Len(s)]
  BY <1>1, ConcatProperties
<1>3. ASSUME NEW i \in 1 .. Len(u) PROVE u[i] = (s \o t)[i]
  <2>1. CASE i <= Len(s)
    BY <1>1, <1>2, <2>1
  <2>2. CASE i > Len(s)
    <3>1. i - Len(s) \in 1 .. Len(t) /\ Len(s) + (i - Len(s)) = i
      BY <1>1, <2>2
    <3>2. u[Len(s) + (i - Len(s))] = t[i - Len(s)]
      BY <3>1
    <3> QED BY <1>2, <2>2, <3>1, <3>2
  <2> QED BY <1>1, <2>1, <2>2
<1>4. u = s \o t
  BY <1>2, <1>3, SeqEqual
<1> QED BY <1>4, LeadsOn

LEMMA LeadsTwo ==
  ASSUME NEW a \in Writes, NEW b \in Writes, NEW h, NEW k, NEW m,
         Leads(<<a>>, h, k), Leads(<<b>>, k, m)
  PROVE  Leads(<<a, b>>, h, m)
BY LeadsOn, TwoWrites

LEMMA LeadsThree ==
  ASSUME NEW a \in Writes, NEW b \in Writes, NEW c \in Writes, NEW h, NEW k, NEW m,
         Leads(<<a, b>>, h, k), Leads(<<c>>, k, m)
  PROVE  Leads(<<a, b, c>>, h, m)
<1> DEFINE u == <<a, b, c>>
           s == <<a, b>>
           t == <<c>>
<1>1. u \in Seq(Writes) /\ Len(u) = 3 /\ Len(s) = 2 /\ Len(t) = 1
  OBVIOUS
<1>2. /\ u[1] = a /\ u[2] = b /\ u[3] = c
      /\ s[1] = a /\ s[2] = b
      /\ t[1] = c
  OBVIOUS
<1>3. Leads(s, h, k) /\ Leads(t, k, m)
  OBVIOUS
<1> HIDE DEF u, s, t
<1>4. /\ \A i \in 1 .. Len(s) : u[i] = s[i]
      /\ \A i \in 1 .. Len(t) : u[Len(s) + i] = t[i]
  <2>1. /\ \A i \in 1 .. 2 : i = 1 \/ i = 2
        /\ \A i \in 1 .. 1 : i = 1
    OBVIOUS
  <2> QED BY <1>1, <1>2, <2>1
<1>5. Len(u) = Len(s) + Len(t)
  BY <1>1
<1>6. Leads(u, h, m)
  BY <1>1, <1>3, <1>4, <1>5, LeadsJoin
<1> QED BY <1>6 DEF u

LEMMA LeadsFive ==
  ASSUME NEW a \in Writes, NEW b \in Writes, NEW c \in Writes, NEW d \in Writes, NEW e \in Writes,
         NEW h, NEW k, NEW m, Leads(<<a, b, c>>, h, k), Leads(<<d, e>>, k, m)
  PROVE  Leads(<<a, b, c, d, e>>, h, m)
<1> DEFINE u == <<a, b, c, d, e>>
           s == <<a, b, c>>
           t == <<d, e>>
<1>1. u \in Seq(Writes) /\ Len(u) = 5 /\ Len(s) = 3 /\ Len(t) = 2
  OBVIOUS
<1>2. /\ u[1] = a /\ u[2] = b /\ u[3] = c /\ u[4] = d /\ u[5] = e
      /\ s[1] = a /\ s[2] = b /\ s[3] = c
      /\ t[1] = d /\ t[2] = e
  OBVIOUS
<1>3. Leads(s, h, k) /\ Leads(t, k, m)
  OBVIOUS
<1> HIDE DEF u, s, t
<1>4. /\ \A i \in 1 .. Len(s) : u[i] = s[i]
      /\ \A i \in 1 .. Len(t) : u[Len(s) + i] = t[i]
  <2>1. /\ \A i \in 1 .. 3 : i = 1 \/ i = 2 \/ i = 3
        /\ \A i \in 1 .. 2 : i = 1 \/ i = 2
    OBVIOUS
  <2> QED BY <1>1, <1>2, <2>1
<1>5. Len(u) = Len(s) + Len(t)
  BY <1>1
<1>6. Leads(u, h, m)
  BY <1>1, <1>3, <1>4, <1>5, LeadsJoin
<1> QED BY <1>6 DEF u

LEMMA LeadsSix ==
  ASSUME NEW a \in Writes, NEW b \in Writes, NEW c \in Writes,
         NEW d \in Writes, NEW e \in Writes, NEW f \in Writes,
         NEW h, NEW k, NEW m, Leads(<<a, b, c>>, h, k), Leads(<<d, e, f>>, k, m)
  PROVE  Leads(<<a, b, c, d, e, f>>, h, m)
<1> DEFINE u == <<a, b, c, d, e, f>>
           s == <<a, b, c>>
           t == <<d, e, f>>
<1>1. u \in Seq(Writes) /\ Len(u) = 6 /\ Len(s) = 3 /\ Len(t) = 3
  OBVIOUS
<1>2. /\ u[1] = a /\ u[2] = b /\ u[3] = c /\ u[4] = d /\ u[5] = e /\ u[6] = f
      /\ s[1] = a /\ s[2] = b /\ s[3] = c
      /\ t[1] = d /\ t[2] = e /\ t[3] = f
  OBVIOUS
<1>3. Leads(s, h, k) /\ Leads(t, k, m)
  OBVIOUS
<1> HIDE DEF u, s, t
<1>4. /\ \A i \in 1 .. Len(s) : u[i] = s[i]
      /\ \A i \in 1 .. Len(t) : u[Len(s) + i] = t[i]
  <2>1. /\ \A i \in 1 .. 3 : i = 1 \/ i = 2 \/ i = 3
        /\ \A i \in 1 .. 3 : i = 1 \/ i = 2 \/ i = 3
    OBVIOUS
  <2> QED BY <1>1, <1>2, <2>1
<1>5. Len(u) = Len(s) + Len(t)
  BY <1>1
<1>6. Leads(u, h, m)
  BY <1>1, <1>3, <1>4, <1>5, LeadsJoin
<1> QED BY <1>6 DEF u

LEMMA JoinAgain ==
  ASSUME NEW a \in Seq(Writes), NEW b \in Seq(Writes), NEW c \in Seq(Writes)
  PROVE  (a \o b) \o c = a \o (b \o c)
BY ConcatAssociative

LEMMA LeadsEight ==
  ASSUME NEW a \in Writes, NEW b \in Writes, NEW c \in Writes, NEW d \in Writes,
         NEW e \in Writes, NEW f \in Writes, NEW x \in Writes, NEW y \in Writes,
         NEW r \in Seq(Writes), NEW h, NEW k, NEW m,
         Leads(<<a, b, c, d, e, f>>, h, k), Leads(<<x, y>> \o r, k, m)
  PROVE  Leads(<<a, b, c, d, e, f, x, y>> \o r, h, m)
<1> DEFINE u == <<a, b, c, d, e, f, x, y>>
           s == <<a, b, c, d, e, f>>
           t == <<x, y>>
<1>1. /\ u \in Seq(Writes) /\ s \in Seq(Writes) /\ t \in Seq(Writes)
      /\ Len(u) = 8 /\ Len(s) = 6 /\ Len(t) = 2
  OBVIOUS
<1>2. /\ u[1] = a /\ u[2] = b /\ u[3] = c /\ u[4] = d /\ u[5] = e /\ u[6] = f
      /\ u[7] = x /\ u[8] = y
      /\ s[1] = a /\ s[2] = b /\ s[3] = c /\ s[4] = d /\ s[5] = e /\ s[6] = f
      /\ t[1] = x /\ t[2] = y
  OBVIOUS
<1> HIDE DEF u, s, t
<1> DEFINE v == s \o t
<1>3. /\ v \in Seq(Writes) /\ Len(v) = Len(s) + Len(t)
      /\ \A n \in 1 .. Len(s) + Len(t) :
           v[n] = IF n <= Len(s) THEN s[n] ELSE t[n - Len(s)]
  BY <1>1, ConcatProperties
<1> HIDE DEF v
<1>4. \A n \in 1 .. 8 : n = 1 \/ n = 2 \/ n = 3 \/ n = 4 \/ n = 5 \/ n = 6 \/ n = 7 \/ n = 8
  OBVIOUS
<1>5. /\ v[1] = s[1] /\ v[2] = s[2] /\ v[3] = s[3] /\ v[4] = s[4]
      /\ v[5] = s[5] /\ v[6] = s[6] /\ v[7] = t[1] /\ v[8] = t[2]
  <2>1. \A n \in 1 .. 6 : v[n] = s[n]
    BY <1>1, <1>3
  <2>2. \A n \in 1 .. 2 : v[6 + n] = t[n]
    <3> SUFFICES ASSUME NEW n \in 1 .. 2 PROVE v[6 + n] = t[n]
      OBVIOUS
    <3>1. 6 + n \in 1 .. Len(s) + Len(t) /\ ~(6 + n <= Len(s)) /\ (6 + n) - Len(s) = n
      BY <1>1
    <3> QED BY <1>3, <3>1
  <2>3. v[6 + 1] = t[1] /\ v[6 + 2] = t[2]
    BY <2>2
  <2>4. 6 + 1 = 7 /\ 6 + 2 = 8
    OBVIOUS
  <2>5. v[7] = t[1] /\ v[8] = t[2]
    BY <2>3, <2>4
  <2> QED BY <2>1, <2>5
<1>6. \A n \in 1 .. 8 : u[n] = v[n]
  BY <1>2, <1>4, <1>5
<1>7. u = v
  <2>1. Len(u) = Len(v) /\ \A n \in 1 .. Len(u) : u[n] = v[n]
    BY <1>1, <1>3, <1>6
  <2> QED BY <1>1, <1>3, <2>1, SeqEqual
<1>8. u \o r = s \o (t \o r)
  BY <1>1, <1>7, JoinAgain DEF v
<1>9. Leads(s, h, k) /\ Leads(t \o r, k, m)
  BY DEF s, t
<1>10. Leads(u \o r, h, m)
  BY <1>8, <1>9, LeadsOn
<1> QED BY <1>10 DEF u

\* The parts of the equalizer programs.
LEMMA SettingWrites ==
  /\ \A r \in {"deemph", "eq", "eq1", "ctle"}, v \in Settings : W(r, v) \in Writes
  /\ \A c \in Cores, v \in {"off", "on"} : W("pd", <<c, v>>) \in Writes
<1>1. \A r \in {"deemph", "eq", "eq1", "ctle"}, v \in Settings : W(r, v) \in Writes
  BY DEF W, Writes, Vals, Regs, SettingRegs
<1>2. ASSUME NEW c \in Cores, NEW v \in {"off", "on"} PROVE W("pd", <<c, v>>) \in Writes
  <2>1. <<c, v>> \in CorePds
    BY DEF CorePds
  <2>2. <<c, v>> \in Vals
    BY <2>1 DEF Vals
  <2> QED BY <2>2 DEF W, Writes, Regs, SettingRegs
<1> QED BY <1>1, <1>2

LEMMA DisableLeads ==
  ASSUME NEW h, NEW c \in Cores, Open(h, {c})
  PROVE  \E k : /\ Leads(DfeDisable(c), h, k) /\ SameSelection(h, k)
                /\ k.deemph = h.deemph /\ k.ctle = h.ctle /\ k.margin = h.margin
                /\ k.eq = PutLanes(h.eq, LanesIn({c}), "off")
                /\ k.eq1 = PutLanes(h.eq1, LanesIn({c}), "off")
                /\ k.pd = PutCores(h.pd, {c}, "off")
<1> DEFINE D == {c}
<1>1. "off" \in Settings
  BY DEF Settings
<1>2. PICK i : /\ Leads(<<W("eq", "off")>>, h, i) /\ SameSelection(h, i)
               /\ i.deemph = h.deemph /\ i.eq = PutLanes(h.eq, LanesIn(D), "off")
               /\ i.eq1 = h.eq1 /\ i.ctle = h.ctle /\ i.margin = h.margin /\ i.pd = h.pd
  BY <1>1, WriteSetting
<1>3. Open(i, D)
  BY <1>2 DEF Open, SameSelection
<1>4. PICK j : /\ Leads(<<W("eq1", "off")>>, i, j) /\ SameSelection(i, j)
               /\ j.deemph = i.deemph /\ j.eq1 = PutLanes(i.eq1, LanesIn(D), "off")
               /\ j.eq = i.eq /\ j.ctle = i.ctle /\ j.margin = i.margin /\ j.pd = i.pd
  BY <1>1, <1>3, WriteSetting
<1>5. j.sel = {c}
  BY <1>3, <1>4 DEF Open, SameSelection
<1>6. PICK k : /\ Leads(<<W("pd", <<c, "off">>)>>, j, k) /\ SameSelection(j, k)
               /\ k.deemph = j.deemph /\ k.eq = j.eq /\ k.eq1 = j.eq1 /\ k.ctle = j.ctle
               /\ k.margin = j.margin /\ k.pd = PutCores(j.pd, {c}, "off")
  BY <1>5, WritePd
<1>7. /\ W("eq", "off") \in Writes /\ W("eq1", "off") \in Writes
      /\ W("pd", <<c, "off">>) \in Writes
  BY <1>1, SettingWrites
<1>8. Leads(<<W("eq", "off"), W("eq1", "off")>>, h, j)
  BY <1>2, <1>4, <1>7, LeadsTwo
<1>9. Leads(DfeDisable(c), h, k)
  BY <1>6, <1>7, <1>8, LeadsThree DEF DfeDisable
<1> QED BY <1>2, <1>4, <1>6, <1>9 DEF SameSelection

LEMMA EnableLeads ==
  ASSUME NEW h, NEW c \in Cores, Open(h, {c})
  PROVE  \E k : /\ Leads(DfeEnable(c), h, k) /\ SameSelection(h, k)
                /\ k.deemph = h.deemph /\ k.ctle = h.ctle /\ k.margin = h.margin
                /\ k.eq = PutLanes(h.eq, LanesIn({c}), "on") /\ k.eq1 = h.eq1
                /\ k.pd = PutCores(h.pd, {c}, "on")
<1> DEFINE D == {c}
<1>1. "on" \in Settings
  BY DEF Settings
<1>2. PICK i : /\ Leads(<<W("eq", "on")>>, h, i) /\ SameSelection(h, i)
               /\ i.deemph = h.deemph /\ i.eq = PutLanes(h.eq, LanesIn(D), "on")
               /\ i.eq1 = h.eq1 /\ i.ctle = h.ctle /\ i.margin = h.margin /\ i.pd = h.pd
  BY <1>1, WriteSetting
<1>3. i.sel = {c}
  BY <1>2 DEF Open, SameSelection
<1>4. PICK k : /\ Leads(<<W("pd", <<c, "on">>)>>, i, k) /\ SameSelection(i, k)
               /\ k.deemph = i.deemph /\ k.eq = i.eq /\ k.eq1 = i.eq1 /\ k.ctle = i.ctle
               /\ k.margin = i.margin /\ k.pd = PutCores(i.pd, {c}, "on")
  BY <1>3, WritePd
<1>5. W("eq", "on") \in Writes /\ W("pd", <<c, "on">>) \in Writes
  BY <1>1, SettingWrites
<1>6. Leads(DfeEnable(c), h, k)
  BY <1>2, <1>4, <1>5, LeadsTwo DEF DfeEnable
<1> QED BY <1>2, <1>4, <1>6 DEF SameSelection

LEMMA PllLeads ==
  ASSUME NEW h, NEW C, Open(h, C), NEW on \in BOOLEAN
  PROVE  \E k : /\ Leads(PllReset(on), h, k) /\ SameSelection(h, k)
                /\ k.deemph = h.deemph /\ k.ctle = h.ctle /\ k.margin = h.margin
                /\ k.eq = h.eq /\ k.pd = h.pd
                /\ k.eq1 = IF on THEN PutLanes(h.eq1, LanesIn(C), "on") ELSE h.eq1
<1>1. CASE ~on
  <2>1. Leads(PllReset(on), h, h)
    BY <1>1, LeadsNone DEF PllReset
  <2> QED BY <1>1, <2>1 DEF SameSelection
<1>2. CASE on
  <2>1. "on" \in Settings
    BY DEF Settings
  <2>2. PICK k : /\ Leads(<<W("eq1", "on")>>, h, k) /\ SameSelection(h, k)
                 /\ k.deemph = h.deemph /\ k.eq1 = PutLanes(h.eq1, LanesIn(C), "on")
                 /\ k.eq = h.eq /\ k.ctle = h.ctle /\ k.margin = h.margin /\ k.pd = h.pd
    BY <2>1, WriteSetting
  <2>3. PllReset(on) = <<W("eq1", "on")>>
    BY <1>2 DEF PllReset
  <2> QED BY <1>2, <2>2, <2>3
<1> QED BY <1>1, <1>2

LEMMA CtleLeads ==
  ASSUME NEW h, NEW C, Open(h, C), NEW v \in {"init", "fixed"}
  PROVE  \E k : /\ Leads(<<W("ctle", v)>>, h, k) /\ SameSelection(h, k)
                /\ k.deemph = h.deemph /\ k.ctle = PutOwn(h.ctle, LanesIn(C), v)
                /\ k.eq = h.eq /\ k.eq1 = h.eq1 /\ k.margin = h.margin /\ k.pd = h.pd
<1>1. v \in Settings
  BY DEF Settings
<1> QED BY <1>1, WriteSetting

LEMMA CopyLeads ==
  ASSUME NEW h, NEW c \in {0, 1}
  PROVE  \E k : /\ Leads(CopyEachLane(c), h, k) /\ (Wide(h) => Wide(k))
                /\ k.deemph = h.deemph /\ k.eq = h.eq /\ k.eq1 = h.eq1
                /\ k.margin = h.margin /\ k.pd = h.pd
                /\ \A l \in Lane : k.ctle[l] = IF l[1] = c THEN Own("best", l) ELSE h.ctle[l]
<1>1. {c} \in SUBSET {0, 1} /\ {0} \in SUBSET {0, 1} /\ {1} \in SUBSET {0, 1} /\ c \in Cores
  BY DEF Cores
<1>2. ASSUME NEW i, NEW a \in {0, 1}
      PROVE  \E j : /\ Leads(<<Core({c}), Access({a}), CopyCtle>>, i, j) /\ (Wide(i) => Wide(j))
                    /\ j.deemph = i.deemph /\ j.eq = i.eq /\ j.eq1 = i.eq1
                    /\ j.margin = i.margin /\ j.pd = i.pd
                    /\ j.ctle = PutOwn(i.ctle, {<<c, a>>}, "best")
  <2> DEFINE C == {c}
             A == {a}
  <2>1. C \in SUBSET {0, 1} /\ A \in SUBSET {0, 1}
    OBVIOUS
  <2> HIDE DEF C, A
  <2>0. PICK x : /\ Leads(<<Core(C), Access(A)>>, i, x)
                 /\ Selected(i, x, C, A)
    BY <2>1, SelectLanes
  <2>2. /\ Leads(<<Core({c}), Access({a})>>, i, x) /\ x.sel = {c} /\ (Wide(i) => Wide(x))
        /\ \A d \in Cores : x.acc[d] = IF d = c THEN {a} ELSE i.acc[d]
        /\ SameSettings(i, x)
    BY <2>0 DEF C, A, Selected
  <2>3. x.acc[c] = {a}
    BY <1>1, <2>2
  <2>4. Hit(x) = {<<c, a>>} /\ <<c, a>> \in Lane
    <3>1. <<c, a>> \in Lane
      BY DEF Lane
    <3>2. \A l \in Lane : l[1] = c /\ l[2] = a => l = <<c, a>>
      BY DEF Lane
    <3> QED BY <2>2, <2>3, <3>1, <3>2 DEF Hit
  <2>5. PICK j : /\ Leads(<<CopyCtle>>, x, j) /\ SameSelection(x, j)
                 /\ j.deemph = x.deemph /\ j.eq = x.eq /\ j.eq1 = x.eq1
                 /\ j.ctle = PutOwn(x.ctle, {<<c, a>>}, "best")
                 /\ j.margin = x.margin /\ j.pd = x.pd
    BY <2>4, WriteCopy
  <2>6. Core({c}) \in Writes /\ Access({a}) \in Writes /\ CopyCtle \in Writes
    BY <1>1, WriteTypes
  <2>7. Leads(<<Core({c}), Access({a}), CopyCtle>>, i, j)
    BY <2>2, <2>5, <2>6, LeadsThree
  <2>8. /\ j.deemph = i.deemph /\ j.eq = i.eq /\ j.eq1 = i.eq1
        /\ j.margin = i.margin /\ j.pd = i.pd /\ j.ctle = PutOwn(i.ctle, {<<c, a>>}, "best")
    BY <2>2, <2>5 DEF SameSettings
  <2>9. Wide(i) => Wide(j)
    BY <2>2, <2>5 DEF Wide, SameSelection
  <2> QED BY <2>7, <2>8, <2>9
<1>3. PICK i : /\ Leads(<<Core({c}), Access({0}), CopyCtle>>, h, i) /\ (Wide(h) => Wide(i))
               /\ i.deemph = h.deemph /\ i.eq = h.eq /\ i.eq1 = h.eq1
               /\ i.margin = h.margin /\ i.pd = h.pd
               /\ i.ctle = PutOwn(h.ctle, {<<c, 0>>}, "best")
  BY <1>2
<1>4. PICK k : /\ Leads(<<Core({c}), Access({1}), CopyCtle>>, i, k) /\ (Wide(i) => Wide(k))
               /\ k.deemph = i.deemph /\ k.eq = i.eq /\ k.eq1 = i.eq1
               /\ k.margin = i.margin /\ k.pd = i.pd
               /\ k.ctle = PutOwn(i.ctle, {<<c, 1>>}, "best")
  BY <1>2
<1>5. Leads(CopyEachLane(c), h, k)
  <2>1. /\ Core({c}) \in Writes /\ Access({0}) \in Writes /\ Access({1}) \in Writes
        /\ CopyCtle \in Writes
    BY <1>1, WriteTypes
  <2> QED BY <1>3, <1>4, <2>1, LeadsSix DEF CopyEachLane
<1>6. ASSUME NEW l \in Lane
      PROVE  k.ctle[l] = IF l[1] = c THEN Own("best", l) ELSE h.ctle[l]
  <2>1. l \in {<<c, 0>>, <<c, 1>>} <=> l[1] = c
    BY DEF Lane
  <2>2. k.ctle[l] = IF l = <<c, 1>> THEN Own("best", l) ELSE i.ctle[l]
    BY <1>4 DEF PutOwn
  <2>3. i.ctle[l] = IF l = <<c, 0>> THEN Own("best", l) ELSE h.ctle[l]
    BY <1>3 DEF PutOwn
  <2> QED BY <2>1, <2>2, <2>3
<1>7. /\ Wide(h) => Wide(k)
      /\ k.deemph = h.deemph /\ k.eq = h.eq /\ k.eq1 = h.eq1
      /\ k.margin = h.margin /\ k.pd = h.pd
  BY <1>3, <1>4
<1> QED BY <1>5, <1>6, <1>7

\* The cores C have equalizer setting v, and their lanes the CTLE w.
Equalized(h, k, C, v, w) ==
  /\ Wide(k) /\ k.deemph = h.deemph /\ k.margin = h.margin
  /\ \A l \in Lane :
       /\ k.eq[l] = IF l[1] \in C THEN v ELSE h.eq[l]
       /\ k.eq1[l] = IF l[1] \in C THEN v ELSE h.eq1[l]
       /\ k.ctle[l] = IF l[1] \in C THEN Own(w, l) ELSE h.ctle[l]
  /\ \A c \in Cores : k.pd[c] = IF c \in C THEN v ELSE h.pd[c]

\* Core c alone is selected, open, and its DFE turned off or on.
Turned(h, k, c, v) ==
  /\ Open(k, {c}) /\ (Wide(h) => Wide(k)) /\ k.deemph = h.deemph /\ k.margin = h.margin
  /\ k.ctle = h.ctle
  /\ \A l \in Lane :
       /\ k.eq[l] = IF l[1] = c THEN v ELSE h.eq[l]
       /\ k.eq1[l] = IF l[1] = c /\ v = "off" THEN v ELSE h.eq1[l]
  /\ \A d \in Cores : k.pd[d] = IF d = c THEN v ELSE h.pd[d]
  /\ \A d \in Cores \ {c} : k.acc[d] = h.acc[d]

LEMMA TurnOff ==
  ASSUME NEW h, NEW c \in Cores, Open(h, {c})
  PROVE  \E k : Leads(DfeDisable(c), h, k) /\ Turned(h, k, c, "off")
<1>1. PICK k : /\ Leads(DfeDisable(c), h, k) /\ SameSelection(h, k)
               /\ k.deemph = h.deemph /\ k.ctle = h.ctle /\ k.margin = h.margin
               /\ k.eq = PutLanes(h.eq, LanesIn({c}), "off")
               /\ k.eq1 = PutLanes(h.eq1, LanesIn({c}), "off")
               /\ k.pd = PutCores(h.pd, {c}, "off")
  BY DisableLeads
<1>2. Open(k, {c}) /\ (Wide(h) => Wide(k)) /\ \A d \in Cores \ {c} : k.acc[d] = h.acc[d]
  BY <1>1 DEF SameSelection, Open, Wide
<1>3. \A l \in Lane : /\ k.eq[l] = IF l[1] = c THEN "off" ELSE h.eq[l]
                      /\ k.eq1[l] = IF l[1] = c THEN "off" ELSE h.eq1[l]
  BY <1>1 DEF PutLanes, LanesIn
<1>4. \A d \in Cores : k.pd[d] = IF d = c THEN "off" ELSE h.pd[d]
  BY <1>1 DEF PutCores
<1> QED BY <1>1, <1>2, <1>3, <1>4 DEF Turned

LEMMA TurnOn ==
  ASSUME NEW h, NEW c \in Cores, Open(h, {c})
  PROVE  \E k : Leads(DfeEnable(c), h, k) /\ Turned(h, k, c, "on")
<1>1. PICK k : /\ Leads(DfeEnable(c), h, k) /\ SameSelection(h, k)
               /\ k.deemph = h.deemph /\ k.ctle = h.ctle /\ k.margin = h.margin
               /\ k.eq = PutLanes(h.eq, LanesIn({c}), "on") /\ k.eq1 = h.eq1
               /\ k.pd = PutCores(h.pd, {c}, "on")
  BY EnableLeads
<1>2. Open(k, {c}) /\ (Wide(h) => Wide(k)) /\ \A d \in Cores \ {c} : k.acc[d] = h.acc[d]
  BY <1>1 DEF SameSelection, Open, Wide
<1>3. \A l \in Lane : k.eq[l] = IF l[1] = c THEN "on" ELSE h.eq[l]
  BY <1>1 DEF PutLanes, LanesIn
<1>4. \A d \in Cores : k.pd[d] = IF d = c THEN "on" ELSE h.pd[d]
  BY <1>1 DEF PutCores
<1> QED BY <1>1, <1>2, <1>3, <1>4 DEF Turned

\* Cores C are selected with every lane.
LEMMA SelectOpen ==
  ASSUME NEW h, NEW C \in SUBSET {0, 1}
  PROVE  \E k : /\ Leads(<<Core(C), Access({0, 1})>>, h, k) /\ Open(k, C)
                /\ (Wide(h) => Wide(k)) /\ SameSettings(h, k)
                /\ \A c \in Cores \ C : k.acc[c] = h.acc[c]
<1> DEFINE A == {0, 1}
<1>1. A \in SUBSET {0, 1} /\ C \subseteq Cores
  BY DEF Cores
<1> HIDE DEF A
<1>2. PICK k : Leads(<<Core(C), Access(A)>>, h, k) /\ Selected(h, k, C, A)
  BY <1>1, SelectLanes
<1>3. Open(k, C)
  BY <1>1, <1>2 DEF Open, Selected, A
<1> QED BY <1>2, <1>3 DEF Selected, A

LEMMA DfeX1Leads ==
  ASSUME NEW h, NEW c \in {2, 3}, NEW on \in BOOLEAN, Wide(h)
  PROVE  \E k : /\ Leads(DfeX1(c, on), h, k)
                /\ Equalized(h, k, {c}, IF on THEN "on" ELSE "off",
                             IF on THEN "init" ELSE "best")
<1> DEFINE D == {c}
<1>1. c \in Cores /\ D \in SUBSET Cores
  BY DEF Cores
<1>2. PICK i : Leads(<<Core(D)>>, h, i) /\ i.sel = D /\ i.acc = h.acc /\ SameSettings(h, i)
  BY <1>1, SelectCore
<1>3. Open(i, D) /\ Wide(i)
  BY <1>1, <1>2 DEF Open, Wide
<1>4. CASE on
  <2>1. PICK j : /\ Leads(<<W("ctle", "init")>>, i, j) /\ SameSelection(i, j)
                 /\ j.deemph = i.deemph /\ j.ctle = PutOwn(i.ctle, LanesIn(D), "init")
                 /\ j.eq = i.eq /\ j.eq1 = i.eq1 /\ j.margin = i.margin /\ j.pd = i.pd
    BY <1>3, CtleLeads
  <2>2. Open(j, D) /\ Wide(j)
    BY <1>3, <2>1 DEF Open, Wide, SameSelection
  <2>3. PICK x : Leads(DfeEnable(c), j, x) /\ Turned(j, x, c, "on")
    BY <1>1, <2>2, TurnOn
  <2>4. Open(x, D) /\ Wide(x)
    BY <2>2, <2>3 DEF Turned
  <2>5. PICK k : /\ Leads(PllReset(on), x, k) /\ SameSelection(x, k)
                 /\ k.deemph = x.deemph /\ k.ctle = x.ctle /\ k.margin = x.margin
                 /\ k.eq = x.eq /\ k.pd = x.pd
                 /\ k.eq1 = IF on THEN PutLanes(x.eq1, LanesIn(D), "on") ELSE x.eq1
    BY <2>4, PllLeads
  <2>6. Leads(DfeX1(c, on), h, k)
    <3>1. Leads(<<W("ctle", "init")>> \o DfeEnable(c), i, x)
      BY <2>1, <2>3, LeadsOn
    <3>2. DfeX1(c, on) = <<Core(D)>> \o (<<W("ctle", "init")>> \o DfeEnable(c)) \o PllReset(on)
      BY <1>4 DEF DfeX1
    <3> QED BY <1>2, <2>5, <3>1, <3>2, LeadsOn
  <2>7. Wide(k)
    BY <2>4, <2>5 DEF Wide, SameSelection
  <2>8. ASSUME NEW l \in Lane
        PROVE  /\ k.eq[l] = IF l[1] \in D THEN "on" ELSE h.eq[l]
               /\ k.eq1[l] = IF l[1] \in D THEN "on" ELSE h.eq1[l]
               /\ k.ctle[l] = IF l[1] \in D THEN Own("init", l) ELSE h.ctle[l]
    BY <1>2, <1>4, <2>1, <2>3, <2>5 DEF SameSettings, Turned, PutOwn, PutLanes, LanesIn
  <2>9. \A d \in Cores : k.pd[d] = IF d \in D THEN "on" ELSE h.pd[d]
    BY <1>2, <2>1, <2>3, <2>5 DEF SameSettings, Turned
  <2>10. k.deemph = h.deemph /\ k.margin = h.margin
    BY <1>2, <2>1, <2>3, <2>5 DEF SameSettings, Turned
  <2>11. Equalized(h, k, D, "on", "init")
    BY <2>7, <2>8, <2>9, <2>10 DEF Equalized
  <2> QED BY <1>4, <2>6, <2>11
<1>5. CASE ~on
  <2>1. Hit(i) = LanesIn(D)
    BY <1>3, OpenHits
  <2>2. PICK y \in Lane : LanesIn(D) = {y}
    <3>1. <<c, 0>> \in Lane /\ \A l \in Lane : l[1] = c <=> l = <<c, 0>>
      BY DEF Lane
    <3> QED BY <3>1 DEF LanesIn
  <2>3. PICK j : /\ Leads(<<CopyCtle>>, i, j) /\ SameSelection(i, j)
                 /\ j.deemph = i.deemph /\ j.eq = i.eq /\ j.eq1 = i.eq1
                 /\ j.ctle = PutOwn(i.ctle, {y}, "best")
                 /\ j.margin = i.margin /\ j.pd = i.pd
    BY <2>1, <2>2, WriteCopy
  <2>4. Open(j, D) /\ Wide(j)
    BY <1>3, <2>3 DEF Open, Wide, SameSelection
  <2>5. PICK x : Leads(DfeDisable(c), j, x) /\ Turned(j, x, c, "off")
    BY <1>1, <2>4, TurnOff
  <2>6. Open(x, D) /\ Wide(x)
    BY <2>4, <2>5 DEF Turned
  <2>7. PllReset(on) = <<>>
    BY <1>5 DEF PllReset
  <2>8. Leads(DfeX1(c, on), h, x)
    <3>1. Leads(<<CopyCtle>> \o DfeDisable(c), i, x)
      BY <2>3, <2>5, LeadsOn
    <3>2. DfeX1(c, on) = <<Core(D)>> \o (<<CopyCtle>> \o DfeDisable(c)) \o PllReset(on)
      BY <1>5 DEF DfeX1
    <3>3. Leads(PllReset(on), x, x)
      BY <2>7, LeadsNone
    <3> QED BY <1>2, <3>1, <3>2, <3>3, LeadsOn
  <2>9. ASSUME NEW l \in Lane
        PROVE  /\ x.eq[l] = IF l[1] \in D THEN "off" ELSE h.eq[l]
               /\ x.eq1[l] = IF l[1] \in D THEN "off" ELSE h.eq1[l]
               /\ x.ctle[l] = IF l[1] \in D THEN Own("best", l) ELSE h.ctle[l]
    <3>1. l \in {y} <=> l[1] \in D
      BY <2>2 DEF LanesIn
    <3>2. x.ctle[l] = IF l \in {y} THEN Own("best", l) ELSE h.ctle[l]
      BY <1>2, <2>3, <2>5 DEF SameSettings, Turned, PutOwn
    <3>3. /\ x.eq[l] = IF l[1] = c THEN "off" ELSE h.eq[l]
          /\ x.eq1[l] = IF l[1] = c THEN "off" ELSE h.eq1[l]
      BY <1>2, <2>3, <2>5 DEF SameSettings, Turned
    <3> QED BY <3>1, <3>2, <3>3
  <2>10. \A d \in Cores : x.pd[d] = IF d \in D THEN "off" ELSE h.pd[d]
    BY <1>2, <2>3, <2>5 DEF SameSettings, Turned
  <2>11. x.deemph = h.deemph /\ x.margin = h.margin
    BY <1>2, <2>3, <2>5 DEF SameSettings, Turned
  <2>12. Equalized(h, x, D, "off", "best")
    BY <2>6, <2>9, <2>10, <2>11 DEF Equalized
  <2> QED BY <1>5, <2>8, <2>12
<1> QED BY <1>4, <1>5

LEMMA DfeX2Leads ==
  ASSUME NEW h, NEW c \in {0, 1}, NEW on \in BOOLEAN, Wide(h)
  PROVE  \E k : /\ Leads(DfeX2(c, on), h, k)
                /\ Equalized(h, k, {c}, IF on THEN "on" ELSE "off",
                             IF on THEN "init" ELSE "best")
<1> DEFINE D == {c}
<1>1. c \in Cores /\ D \in SUBSET {0, 1}
  BY DEF Cores
<1>2. /\ Core(D) \in Writes /\ Access({0, 1}) \in Writes /\ W("ctle", "init") \in Writes
  <2>1. D \in SUBSET Cores /\ {0, 1} \in SUBSET {0, 1} /\ "init" \in Settings
    BY <1>1 DEF Settings
  <2> QED BY <2>1, WriteTypes, SettingWrites
<1>4. CASE on
  <2>1. PICK i : /\ Leads(<<Core(D), Access({0, 1})>>, h, i) /\ Open(i, D)
                 /\ (Wide(h) => Wide(i)) /\ SameSettings(h, i)
    BY <1>1, SelectOpen
  <2>2. PICK j : /\ Leads(<<W("ctle", "init")>>, i, j) /\ SameSelection(i, j)
                 /\ j.deemph = i.deemph /\ j.ctle = PutOwn(i.ctle, LanesIn(D), "init")
                 /\ j.eq = i.eq /\ j.eq1 = i.eq1 /\ j.margin = i.margin /\ j.pd = i.pd
    BY <2>1, CtleLeads
  <2>3. Open(j, D) /\ Wide(j)
    BY <2>1, <2>2 DEF Open, Wide, SameSelection
  <2>4. PICK x : Leads(DfeEnable(c), j, x) /\ Turned(j, x, c, "on")
    BY <1>1, <2>3, TurnOn
  <2>5. Open(x, D) /\ Wide(x)
    BY <2>3, <2>4 DEF Turned
  <2>6. PICK k : /\ Leads(PllReset(on), x, k) /\ SameSelection(x, k)
                 /\ k.deemph = x.deemph /\ k.ctle = x.ctle /\ k.margin = x.margin
                 /\ k.eq = x.eq /\ k.pd = x.pd
                 /\ k.eq1 = IF on THEN PutLanes(x.eq1, LanesIn(D), "on") ELSE x.eq1
    BY <2>5, PllLeads
  <2>7. Leads(DfeX2(c, on), h, k)
    <3>1. Leads(<<Core(D), Access({0, 1}), W("ctle", "init")>>, h, j)
      BY <1>2, <2>1, <2>2, LeadsThree
    <3>2. DfeX2(c, on) = (<<Core(D), Access({0, 1}), W("ctle", "init")>> \o DfeEnable(c))
                           \o PllReset(on)
      BY <1>4 DEF DfeX2
    <3> QED BY <2>4, <2>6, <3>1, <3>2, LeadsOn
  <2>8. Wide(k)
    BY <2>5, <2>6 DEF Wide, SameSelection
  <2>9. ASSUME NEW l \in Lane
        PROVE  /\ k.eq[l] = IF l[1] \in D THEN "on" ELSE h.eq[l]
               /\ k.eq1[l] = IF l[1] \in D THEN "on" ELSE h.eq1[l]
               /\ k.ctle[l] = IF l[1] \in D THEN Own("init", l) ELSE h.ctle[l]
    BY <1>4, <2>1, <2>2, <2>4, <2>6 DEF SameSettings, Turned, PutOwn, PutLanes, LanesIn
  <2>10. \A d \in Cores : k.pd[d] = IF d \in D THEN "on" ELSE h.pd[d]
    BY <2>1, <2>2, <2>4, <2>6 DEF SameSettings, Turned
  <2>11. k.deemph = h.deemph /\ k.margin = h.margin
    BY <2>1, <2>2, <2>4, <2>6 DEF SameSettings, Turned
  <2>12. Equalized(h, k, D, "on", "init")
    BY <2>8, <2>9, <2>10, <2>11 DEF Equalized
  <2> QED BY <1>4, <2>7, <2>12
<1>5. CASE ~on
  <2>1. PICK i : /\ Leads(CopyEachLane(c), h, i) /\ (Wide(h) => Wide(i))
                 /\ i.deemph = h.deemph /\ i.eq = h.eq /\ i.eq1 = h.eq1
                 /\ i.margin = h.margin /\ i.pd = h.pd
                 /\ \A l \in Lane : i.ctle[l] = IF l[1] = c THEN Own("best", l) ELSE h.ctle[l]
    BY CopyLeads
  <2>2. PICK j : /\ Leads(<<Core(D), Access({0, 1})>>, i, j) /\ Open(j, D)
                 /\ (Wide(i) => Wide(j)) /\ SameSettings(i, j)
    BY <1>1, SelectOpen
  <2>3. PICK x : Leads(DfeDisable(c), j, x) /\ Turned(j, x, c, "off")
    BY <1>1, <2>2, TurnOff
  <2>4. Leads(DfeX2(c, on), h, x)
    <3>1. Leads((CopyEachLane(c) \o <<Core(D), Access({0, 1})>>) \o DfeDisable(c), h, x)
      BY <2>1, <2>2, <2>3, LeadsOn
    <3>2. DfeX2(c, on) = ((CopyEachLane(c) \o <<Core(D), Access({0, 1})>>) \o DfeDisable(c))
                           \o PllReset(on)
      BY <1>5 DEF DfeX2
    <3>3. Leads(PllReset(on), x, x)
      BY <1>5, LeadsNone DEF PllReset
    <3> QED BY <3>1, <3>2, <3>3, LeadsOn
  <2>5. Wide(x)
    BY <2>1, <2>2, <2>3 DEF Turned
  <2>6. ASSUME NEW l \in Lane
        PROVE  /\ x.eq[l] = IF l[1] \in D THEN "off" ELSE h.eq[l]
               /\ x.eq1[l] = IF l[1] \in D THEN "off" ELSE h.eq1[l]
               /\ x.ctle[l] = IF l[1] \in D THEN Own("best", l) ELSE h.ctle[l]
    BY <2>1, <2>2, <2>3 DEF SameSettings, Turned
  <2>7. \A d \in Cores : x.pd[d] = IF d \in D THEN "off" ELSE h.pd[d]
    BY <2>1, <2>2, <2>3 DEF SameSettings, Turned
  <2>8. x.deemph = h.deemph /\ x.margin = h.margin
    BY <2>1, <2>2, <2>3 DEF SameSettings, Turned
  <2>9. Equalized(h, x, D, "off", "best")
    BY <2>5, <2>6, <2>7, <2>8 DEF Equalized
  <2> QED BY <1>5, <2>4, <2>9
<1> QED BY <1>4, <1>5

\* Core c, whose lanes are those asked for, is selected, opened and turned off.
LEMMA OpenAndTurnOff ==
  ASSUME NEW h, NEW c \in {0, 1}
  PROVE  \E k : /\ Leads(<<Core({c}), Access({0, 1})>> \o DfeDisable(c), h, k)
                /\ Turned(h, k, c, "off")
<1> DEFINE D == {c}
<1>1. D \in SUBSET {0, 1} /\ c \in Cores
  BY DEF Cores
<1>2. PICK i : /\ Leads(<<Core(D), Access({0, 1})>>, h, i) /\ Open(i, D)
               /\ (Wide(h) => Wide(i)) /\ SameSettings(h, i)
               /\ \A d \in Cores \ D : i.acc[d] = h.acc[d]
  BY <1>1, SelectOpen
<1>3. PICK k : Leads(DfeDisable(c), i, k) /\ Turned(i, k, c, "off")
  BY <1>1, <1>2, TurnOff
<1>4. Leads(<<Core(D), Access({0, 1})>> \o DfeDisable(c), h, k)
  BY <1>2, <1>3, LeadsOn
<1>5. Turned(h, k, c, "off")
  BY <1>2, <1>3 DEF Turned, SameSettings
<1> QED BY <1>4, <1>5

LEMMA BothOpen ==
  ASSUME NEW h, h.acc[0] = {0, 1}, h.acc[1] = {0, 1}
  PROVE  \E k : /\ Leads(<<Core({0, 1})>>, h, k) /\ Open(k, {0, 1})
                /\ k.acc = h.acc /\ SameSettings(h, k)
<1>1. {0, 1} \in SUBSET Cores
  BY DEF Cores
<1>2. PICK k : /\ Leads(<<Core({0, 1})>>, h, k)
               /\ k.sel = {0, 1} /\ k.acc = h.acc /\ SameSettings(h, k)
  BY <1>1, SelectCore
<1>3. Open(k, {0, 1})
  BY <1>1, <1>2 DEF Open
<1> QED BY <1>2, <1>3

\* Both cores of the wide upstream port, turned off one after the other.
BothOff(h, k) ==
  /\ Wide(k) /\ k.deemph = h.deemph /\ k.margin = h.margin /\ k.ctle = h.ctle
  /\ \A l \in Lane : /\ k.eq[l] = IF l[1] \in {0, 1} THEN "off" ELSE h.eq[l]
                     /\ k.eq1[l] = IF l[1] \in {0, 1} THEN "off" ELSE h.eq1[l]
  /\ \A d \in Cores : k.pd[d] = IF d \in {0, 1} THEN "off" ELSE h.pd[d]
LEMMA BothTurnedOff ==
  ASSUME NEW h, Wide(h)
  PROVE  \E k : /\ Leads(<<Core({0}), Access({0, 1})>> \o DfeDisable(0), h, k[1])
                /\ Leads(<<Core({1}), Access({0, 1})>> \o DfeDisable(1), k[1], k[2])
                /\ Leads(<<Core({0, 1})>>, k[2], k[3])
                /\ BothOff(h, k[3])
<1>1. PICK i : /\ Leads(<<Core({0}), Access({0, 1})>> \o DfeDisable(0), h, i)
               /\ Turned(h, i, 0, "off")
  BY OpenAndTurnOff
<1>2. PICK j : /\ Leads(<<Core({1}), Access({0, 1})>> \o DfeDisable(1), i, j)
               /\ Turned(i, j, 1, "off")
  BY OpenAndTurnOff
<1>3. j.acc[0] = {0, 1} /\ j.acc[1] = {0, 1}
  <2>1. i.acc[0] = {0, 1} /\ j.acc[1] = {0, 1}
    BY <1>1, <1>2 DEF Turned, Open
  <2>2. j.acc[0] = i.acc[0]
    BY <1>2 DEF Turned, Cores
  <2> QED BY <2>1, <2>2
<1>4. PICK x : /\ Leads(<<Core({0, 1})>>, j, x) /\ Open(x, {0, 1})
               /\ x.acc = j.acc /\ SameSettings(j, x)
  BY <1>3, BothOpen
<1>5. Wide(x)
  BY <1>1, <1>2, <1>4 DEF Turned, Wide
<1>6. x.deemph = h.deemph /\ x.margin = h.margin /\ x.ctle = h.ctle
  BY <1>1, <1>2, <1>4 DEF Turned, SameSettings
<1>7. \A l \in Lane : /\ x.eq[l] = IF l[1] \in {0, 1} THEN "off" ELSE h.eq[l]
                      /\ x.eq1[l] = IF l[1] \in {0, 1} THEN "off" ELSE h.eq1[l]
  BY <1>1, <1>2, <1>4 DEF Turned, SameSettings
<1>8. \A d \in Cores : x.pd[d] = IF d \in {0, 1} THEN "off" ELSE h.pd[d]
  BY <1>1, <1>2, <1>4 DEF Turned, SameSettings
<1> DEFINE k == <<i, j, x>>
<1>9. k[1] = i /\ k[2] = j /\ k[3] = x
  OBVIOUS
<1> HIDE DEF k
<1> QED BY <1>1, <1>2, <1>4, <1>5, <1>6, <1>7, <1>8, <1>9 DEF BothOff

LEMMA DfeUsp4OffLeads ==
  ASSUME NEW h, Wide(h)
  PROVE  \E k : /\ Leads(DfeUsp4(FALSE), h, k)
                /\ Equalized(h, k, {0, 1}, "off", "best")
<1>1. PICK i : /\ Leads(CopyEachLane(0), h, i) /\ (Wide(h) => Wide(i))
               /\ i.deemph = h.deemph /\ i.eq = h.eq /\ i.eq1 = h.eq1
               /\ i.margin = h.margin /\ i.pd = h.pd
               /\ \A l \in Lane : i.ctle[l] = IF l[1] = 0 THEN Own("best", l) ELSE h.ctle[l]
  BY CopyLeads
<1>2. PICK j : /\ Leads(CopyEachLane(1), i, j) /\ (Wide(i) => Wide(j))
               /\ j.deemph = i.deemph /\ j.eq = i.eq /\ j.eq1 = i.eq1
               /\ j.margin = i.margin /\ j.pd = i.pd
               /\ \A l \in Lane : j.ctle[l] = IF l[1] = 1 THEN Own("best", l) ELSE i.ctle[l]
  BY CopyLeads
<1>3. Wide(j)
  BY <1>1, <1>2
<1> DEFINE a0 == <<Core({0}), Access({0, 1})>>
           a1 == <<Core({1}), Access({0, 1})>>
           b == <<Core({0, 1})>>
<1>4. PICK k : /\ Leads(a0 \o DfeDisable(0), j, k[1])
               /\ Leads(a1 \o DfeDisable(1), k[1], k[2])
               /\ Leads(b, k[2], k[3])
               /\ BothOff(j, k[3])
  BY <1>3, BothTurnedOff
<1>5. Equalized(h, k[3], {0, 1}, "off", "best")
  BY <1>1, <1>2, <1>4 DEF Equalized, BothOff
<1>6. Leads(DfeUsp4(FALSE), h, k[3])
  <2>1. /\ a0 \in Seq(Writes) /\ a1 \in Seq(Writes)
        /\ DfeDisable(0) \in Seq(Writes) /\ DfeDisable(1) \in Seq(Writes)
    <3>1. 0 \in Cores /\ 1 \in Cores
      BY DEF Cores
    <3> QED BY <3>1, DfeParts DEF Only
  <2> DEFINE c == CopyEachLane(0) \o CopyEachLane(1)
  <2>2. Leads(c, h, j)
    BY <1>1, <1>2, LeadsOn
  <2>3. c \in Seq(Writes)
    BY <2>2 DEF Leads
  <2>4. PllReset(FALSE) = <<>>
    BY DEF PllReset
  <2>5. DfeUsp4(FALSE) = ((((c \o a0) \o DfeDisable(0)) \o a1) \o DfeDisable(1)) \o b \o <<>>
    BY <2>4 DEF DfeUsp4
  <2> HIDE DEF a0, a1, b, c
  <2>6. (c \o a0) \o DfeDisable(0) = c \o (a0 \o DfeDisable(0))
    BY <2>1, <2>3, JoinAgain
  <2> DEFINE e == c \o (a0 \o DfeDisable(0))
  <2>7. Leads(e, h, k[1])
    BY <1>4, <2>2, LeadsOn
  <2>8. (e \o a1) \o DfeDisable(1) = e \o (a1 \o DfeDisable(1))
    <3>1. e \in Seq(Writes)
      BY <2>7 DEF Leads
    <3> QED BY <2>1, <3>1, JoinAgain
  <2>9. Leads((e \o (a1 \o DfeDisable(1))) \o b, h, k[3])
    BY <1>4, <2>7, LeadsOn
  <2>10. Leads((e \o (a1 \o DfeDisable(1))) \o b \o <<>>, h, k[3])
    BY <2>9, LeadsNone, LeadsOn
  <2> QED BY <2>5, <2>6, <2>8, <2>10
<1> QED BY <1>5, <1>6

LEMMA DfeUsp4OnLeads ==
  ASSUME NEW h, Wide(h)
  PROVE  \E k : /\ Leads(DfeUsp4(TRUE), h, k)
                /\ Equalized(h, k, {0, 1}, "on", "init")
<1> DEFINE D == {0, 1}
<1>1. D \in SUBSET {0, 1} /\ {0, 1} \subseteq Cores /\ "init" \in Settings
  BY DEF Cores, Settings
<1>2. PICK i : /\ Leads(<<Core(D), Access({0, 1})>>, h, i) /\ Open(i, D)
               /\ (Wide(h) => Wide(i)) /\ SameSettings(h, i)
  BY <1>1, SelectOpen
<1>3. PICK j : /\ Leads(<<W("ctle", "init")>>, i, j) /\ SameSelection(i, j)
               /\ j.deemph = i.deemph /\ j.ctle = PutOwn(i.ctle, LanesIn(D), "init")
               /\ j.eq = i.eq /\ j.eq1 = i.eq1 /\ j.margin = i.margin /\ j.pd = i.pd
  BY <1>2, CtleLeads
<1>4. Wide(j) /\ j.acc[0] = {0, 1} /\ j.acc[1] = {0, 1}
  BY <1>2, <1>3 DEF Open, Wide, SameSelection
<1>5. PICK x : Leads(<<Core({0})>>, j, x) /\ x.sel = {0} /\ x.acc = j.acc /\ SameSettings(j, x)
  <2>1. {0} \in SUBSET Cores
    BY DEF Cores
  <2> QED BY <2>1, SelectCore
<1>6. Open(x, {0}) /\ 0 \in Cores /\ 1 \in Cores
  BY <1>4, <1>5 DEF Open, Cores
<1>7. PICK y : Leads(DfeEnable(0), x, y) /\ Turned(x, y, 0, "on")
  BY <1>6, TurnOn
<1>8. y.acc[0] = {0, 1} /\ y.acc[1] = {0, 1}
  <2>1. y.acc[0] = {0, 1} /\ y.acc[1] = x.acc[1]
    BY <1>6, <1>7 DEF Turned, Open
  <2> QED BY <1>4, <1>5, <2>1
<1>9. PICK z : Leads(<<Core({1})>>, y, z) /\ z.sel = {1} /\ z.acc = y.acc /\ SameSettings(y, z)
  <2>1. {1} \in SUBSET Cores
    BY DEF Cores
  <2> QED BY <2>1, SelectCore
<1>10. Open(z, {1})
  BY <1>6, <1>8, <1>9 DEF Open
<1>11. PICK t : Leads(DfeEnable(1), z, t) /\ Turned(z, t, 1, "on")
  BY <1>6, <1>10, TurnOn
<1>12. t.acc[0] = {0, 1} /\ t.acc[1] = {0, 1}
  <2>1. t.acc[1] = {0, 1} /\ t.acc[0] = z.acc[0]
    BY <1>6, <1>11 DEF Turned, Open
  <2> QED BY <1>8, <1>9, <2>1
<1>13. PICK u : /\ Leads(<<Core({0, 1})>>, t, u) /\ Open(u, {0, 1})
                /\ u.acc = t.acc /\ SameSettings(t, u)
  BY <1>12, BothOpen
<1>14. PICK k : /\ Leads(PllReset(TRUE), u, k) /\ SameSelection(u, k)
                /\ k.deemph = u.deemph /\ k.ctle = u.ctle /\ k.margin = u.margin
                /\ k.eq = u.eq /\ k.pd = u.pd
                /\ k.eq1 = IF TRUE THEN PutLanes(u.eq1, LanesIn(D), "on") ELSE u.eq1
  BY <1>13, PllLeads
<1>15. Wide(k)
  BY <1>4, <1>5, <1>7, <1>9, <1>11, <1>13, <1>14 DEF Wide, SameSelection, Turned
<1>16. k.deemph = h.deemph /\ k.margin = h.margin
  BY <1>2, <1>3, <1>5, <1>7, <1>9, <1>11, <1>13, <1>14 DEF SameSettings, Turned
<1>17. ASSUME NEW l \in Lane PROVE k.eq[l] = IF l[1] \in D THEN "on" ELSE h.eq[l]
  BY <1>2, <1>3, <1>5, <1>7, <1>9, <1>11, <1>13, <1>14 DEF SameSettings, Turned
<1>18. ASSUME NEW l \in Lane PROVE k.eq1[l] = IF l[1] \in D THEN "on" ELSE h.eq1[l]
  <2>1. u.eq1[l] = h.eq1[l]
    BY <1>2, <1>3, <1>5, <1>7, <1>9, <1>11, <1>13 DEF SameSettings, Turned
  <2> QED BY <1>14, <2>1 DEF PutLanes, LanesIn
<1>19. ASSUME NEW l \in Lane PROVE k.ctle[l] = IF l[1] \in D THEN Own("init", l) ELSE h.ctle[l]
  <2>1. k.ctle[l] = j.ctle[l]
    BY <1>5, <1>7, <1>9, <1>11, <1>13, <1>14 DEF SameSettings, Turned
  <2> QED BY <1>2, <1>3, <2>1 DEF SameSettings, PutOwn, LanesIn
<1>20. \A d \in Cores : k.pd[d] = IF d \in D THEN "on" ELSE h.pd[d]
  BY <1>2, <1>3, <1>5, <1>7, <1>9, <1>11, <1>13, <1>14 DEF SameSettings, Turned
<1>21. Equalized(h, k, D, "on", "init")
  BY <1>15, <1>16, <1>17, <1>18, <1>19, <1>20 DEF Equalized
<1>22. Leads(DfeUsp4(TRUE), h, k)
  <2>1. Core(D) \in Writes /\ Access({0, 1}) \in Writes /\ W("ctle", "init") \in Writes
    <3>1. D \in SUBSET Cores /\ {0, 1} \in SUBSET {0, 1}
      BY <1>1
    <3> QED BY <1>1, <3>1, WriteTypes, SettingWrites
  <2>2. Leads(<<Core(D), Access({0, 1}), W("ctle", "init")>>, h, j)
    BY <1>2, <1>3, <2>1, LeadsThree
  <2>3. DfeUsp4(TRUE) = (((((<<Core(D), Access({0, 1}), W("ctle", "init")>> \o <<Core({0})>>)
                              \o DfeEnable(0)) \o <<Core({1})>>) \o DfeEnable(1)) \o <<Core(D)>>)
                          \o PllReset(TRUE)
    BY DEF DfeUsp4
  <2>4. Leads((<<Core(D), Access({0, 1}), W("ctle", "init")>> \o <<Core({0})>>) \o DfeEnable(0),
              h, y)
    BY <1>5, <1>7, <2>2, LeadsOn
  <2>5. Leads((((<<Core(D), Access({0, 1}), W("ctle", "init")>> \o <<Core({0})>>) \o DfeEnable(0))
                 \o <<Core({1})>>) \o DfeEnable(1), h, t)
    BY <1>9, <1>11, <2>4, LeadsOn
  <2> QED BY <1>13, <1>14, <2>3, <2>5, LeadsOn
<1> QED BY <1>21, <1>22

LEMMA DfeUsp4Leads ==
  ASSUME NEW h, NEW on \in BOOLEAN, Wide(h)
  PROVE  \E k : /\ Leads(DfeUsp4(on), h, k)
                /\ Equalized(h, k, {0, 1}, IF on THEN "on" ELSE "off",
                             IF on THEN "init" ELSE "best")
<1>1. on = TRUE \/ on = FALSE
  OBVIOUS
<1> QED BY <1>1, DfeUsp4OnLeads, DfeUsp4OffLeads

\* A fixed CTLE written to open cores.
LEMMA FixedLeads ==
  ASSUME NEW h, NEW C, Open(h, C), Wide(h)
  PROVE  \E k : /\ Leads(<<W("ctle", "fixed")>>, h, k) /\ Open(k, C) /\ Wide(k)
                /\ k.deemph = h.deemph /\ k.eq = h.eq /\ k.eq1 = h.eq1
                /\ k.margin = h.margin /\ k.pd = h.pd /\ k.acc = h.acc
                /\ \A l \in Lane : k.ctle[l] = IF l[1] \in C THEN Own("fixed", l) ELSE h.ctle[l]
<1>1. PICK k : /\ Leads(<<W("ctle", "fixed")>>, h, k) /\ SameSelection(h, k)
               /\ k.deemph = h.deemph /\ k.ctle = PutOwn(h.ctle, LanesIn(C), "fixed")
               /\ k.eq = h.eq /\ k.eq1 = h.eq1 /\ k.margin = h.margin /\ k.pd = h.pd
  BY CtleLeads
<1>2. Open(k, C) /\ Wide(k) /\ k.acc = h.acc
  BY <1>1 DEF Open, Wide, SameSelection
<1>3. \A l \in Lane : k.ctle[l] = IF l[1] \in C THEN Own("fixed", l) ELSE h.ctle[l]
  BY <1>1 DEF PutOwn, LanesIn
<1> QED BY <1>1, <1>2, <1>3

LEMMA CtleX1Leads ==
  ASSUME NEW h, NEW c \in {2, 3}, Wide(h)
  PROVE  \E k : Leads(CtleX1(c), h, k) /\ Equalized(h, k, {c}, "off", "fixed")
<1> DEFINE D == {c}
<1>1. c \in Cores /\ D \in SUBSET Cores /\ "fixed" \in Settings
  BY DEF Cores, Settings
<1>2. PICK i : Leads(<<Core(D)>>, h, i) /\ i.sel = D /\ i.acc = h.acc /\ SameSettings(h, i)
  BY <1>1, SelectCore
<1>3. Open(i, D) /\ Wide(i)
  BY <1>1, <1>2 DEF Open, Wide
<1>4. PICK j : /\ Leads(<<W("ctle", "fixed")>>, i, j) /\ Open(j, D) /\ Wide(j)
               /\ j.deemph = i.deemph /\ j.eq = i.eq /\ j.eq1 = i.eq1
               /\ j.margin = i.margin /\ j.pd = i.pd /\ j.acc = i.acc
               /\ \A l \in Lane : j.ctle[l] = IF l[1] \in D THEN Own("fixed", l) ELSE i.ctle[l]
  BY <1>3, FixedLeads
<1>5. PICK k : Leads(DfeDisable(c), j, k) /\ Turned(j, k, c, "off")
  BY <1>1, <1>4, TurnOff
<1>6. Leads(CtleX1(c), h, k)
  <2>1. Core(D) \in Writes /\ W("ctle", "fixed") \in Writes
    BY <1>1, WriteTypes, SettingWrites
  <2>2. Leads(<<Core(D), W("ctle", "fixed")>>, h, j)
    BY <1>2, <1>4, <2>1, LeadsTwo
  <2>3. Leads(<<Core(D), W("ctle", "fixed")>> \o DfeDisable(c), h, k)
    BY <1>5, <2>2, LeadsOn
  <2>4. Leads(PllReset(FALSE), k, k)
    BY LeadsNone DEF PllReset
  <2> QED BY <2>3, <2>4, LeadsOn DEF CtleX1
<1>7. Equalized(h, k, D, "off", "fixed")
  BY <1>2, <1>4, <1>5 DEF Equalized, SameSettings, Turned
<1> QED BY <1>6, <1>7

LEMMA CtleX2Leads ==
  ASSUME NEW h, NEW c \in {0, 1}, Wide(h)
  PROVE  \E k : Leads(CtleX2(c), h, k) /\ Equalized(h, k, {c}, "off", "fixed")
<1> DEFINE D == {c}
<1>1. c \in Cores /\ D \in SUBSET {0, 1} /\ "fixed" \in Settings
  BY DEF Cores, Settings
<1>2. PICK i : /\ Leads(<<Core(D), Access({0, 1})>>, h, i) /\ Open(i, D)
               /\ (Wide(h) => Wide(i)) /\ SameSettings(h, i)
  BY <1>1, SelectOpen
<1>3. PICK j : /\ Leads(<<W("ctle", "fixed")>>, i, j) /\ Open(j, D) /\ Wide(j)
               /\ j.deemph = i.deemph /\ j.eq = i.eq /\ j.eq1 = i.eq1
               /\ j.margin = i.margin /\ j.pd = i.pd /\ j.acc = i.acc
               /\ \A l \in Lane : j.ctle[l] = IF l[1] \in D THEN Own("fixed", l) ELSE i.ctle[l]
  BY <1>2, FixedLeads
<1>4. PICK x : /\ Leads(<<Core(D), Access({0, 1})>>, j, x) /\ Open(x, D)
               /\ (Wide(j) => Wide(x)) /\ SameSettings(j, x)
  BY <1>1, SelectOpen
<1>5. PICK k : Leads(DfeDisable(c), x, k) /\ Turned(x, k, c, "off")
  BY <1>1, <1>4, TurnOff
<1>6. Leads(CtleX2(c), h, k)
  <2>1. Core(D) \in Writes /\ Access({0, 1}) \in Writes /\ W("ctle", "fixed") \in Writes
    <3>1. D \in SUBSET Cores /\ {0, 1} \in SUBSET {0, 1}
      BY <1>1 DEF Cores
    <3> QED BY <1>1, <3>1, WriteTypes, SettingWrites
  <2>2. Leads(<<Core(D), Access({0, 1}), W("ctle", "fixed")>>, h, j)
    BY <1>2, <1>3, <2>1, LeadsThree
  <2>3. Leads(<<Core(D), Access({0, 1}), W("ctle", "fixed"), Core(D), Access({0, 1})>>, h, x)
    BY <1>4, <2>1, <2>2, LeadsFive
  <2>4. Leads(<<Core(D), Access({0, 1}), W("ctle", "fixed"), Core(D), Access({0, 1})>>
                \o DfeDisable(c), h, k)
    BY <1>5, <2>3, LeadsOn
  <2>5. Leads(PllReset(FALSE), k, k)
    BY LeadsNone DEF PllReset
  <2> QED BY <2>4, <2>5, LeadsOn DEF CtleX2
<1>7. Equalized(h, k, D, "off", "fixed")
  BY <1>2, <1>3, <1>4, <1>5 DEF Equalized, SameSettings, Turned
<1> QED BY <1>6, <1>7

LEMMA CtleUsp4Leads ==
  ASSUME NEW h, Wide(h)
  PROVE  \E k : Leads(CtleUsp4, h, k) /\ Equalized(h, k, {0, 1}, "off", "fixed")
<1>1. /\ {0} \in SUBSET {0, 1} /\ {1} \in SUBSET {0, 1} /\ {0} \in SUBSET Cores
      /\ {1} \in SUBSET Cores /\ {0, 1} \in SUBSET {0, 1} /\ "fixed" \in Settings
  BY DEF Cores, Settings
<1> DEFINE A == Access({0, 1})
           F == W("ctle", "fixed")
           a0 == <<Core({0}), A>>
           a1 == <<Core({1}), A>>
           b == <<Core({0, 1})>>
<1>2. /\ Core({0}) \in Writes /\ Core({1}) \in Writes /\ A \in Writes /\ F \in Writes
  BY <1>1, WriteTypes, SettingWrites
<1>3. PICK i : Leads(a0, h, i) /\ Open(i, {0}) /\ (Wide(h) => Wide(i)) /\ SameSettings(h, i)
  BY <1>1, SelectOpen
<1>4. PICK j : /\ Leads(<<F>>, i, j) /\ Open(j, {0}) /\ Wide(j)
               /\ j.deemph = i.deemph /\ j.eq = i.eq /\ j.eq1 = i.eq1
               /\ j.margin = i.margin /\ j.pd = i.pd /\ j.acc = i.acc
               /\ \A l \in Lane : j.ctle[l] = IF l[1] \in {0} THEN Own("fixed", l) ELSE i.ctle[l]
  BY <1>3, FixedLeads
<1>5. PICK x : Leads(a1, j, x) /\ Open(x, {1}) /\ (Wide(j) => Wide(x)) /\ SameSettings(j, x)
  BY <1>1, SelectOpen
<1>6. PICK y : /\ Leads(<<F>>, x, y) /\ Open(y, {1}) /\ Wide(y)
               /\ y.deemph = x.deemph /\ y.eq = x.eq /\ y.eq1 = x.eq1
               /\ y.margin = x.margin /\ y.pd = x.pd /\ y.acc = x.acc
               /\ \A l \in Lane : y.ctle[l] = IF l[1] \in {1} THEN Own("fixed", l) ELSE x.ctle[l]
  BY <1>4, <1>5, FixedLeads
<1>7. PICK k : /\ Leads(a0 \o DfeDisable(0), y, k[1])
               /\ Leads(a1 \o DfeDisable(1), k[1], k[2])
               /\ Leads(b, k[2], k[3])
               /\ BothOff(y, k[3])
  BY <1>6, BothTurnedOff
<1>8. Equalized(h, k[3], {0, 1}, "off", "fixed")
  BY <1>3, <1>4, <1>5, <1>6, <1>7 DEF Equalized, SameSettings, BothOff
<1>9. Leads(CtleUsp4, h, k[3])
  <2> DEFINE s == <<Core({0}), A, F, Core({1}), A, F>>
             t == <<Core({0}), A, F, Core({1}), A, F, Core({0}), A>>
  <2>1. Leads(<<Core({0}), A, F>>, h, j) /\ Leads(<<Core({1}), A, F>>, j, y)
    BY <1>2, <1>3, <1>4, <1>5, <1>6, LeadsThree
  <2>2. Leads(s, h, y)
    BY <1>2, <2>1, LeadsSix
  <2>3. /\ a0 \in Seq(Writes) /\ a1 \in Seq(Writes)
        /\ DfeDisable(0) \in Seq(Writes) /\ DfeDisable(1) \in Seq(Writes)
    <3>1. 0 \in Cores /\ 1 \in Cores
      BY DEF Cores
    <3> QED BY <1>3, <1>5, <3>1, DfeParts DEF Only, Leads
  <2> HIDE DEF A, F
  <2>4. Leads(t \o DfeDisable(0), h, k[1])
    BY <1>2, <1>7, <2>2, <2>3, LeadsEight
  <2> HIDE DEF s, t, a0, a1, b
  <2>5. CtleUsp4 = ((((t \o DfeDisable(0)) \o a1) \o DfeDisable(1)) \o b) \o <<>>
    BY DEF CtleUsp4, PllReset, t, a1, b, A, F
  <2> DEFINE e == t \o DfeDisable(0)
  <2>6. (e \o a1) \o DfeDisable(1) = e \o (a1 \o DfeDisable(1))
    <3>1. e \in Seq(Writes)
      BY <2>4 DEF Leads
    <3> QED BY <2>3, <3>1, JoinAgain
  <2>7. Leads((e \o (a1 \o DfeDisable(1))) \o b, h, k[3])
    BY <1>7, <2>4, LeadsOn
  <2>8. Leads(((e \o (a1 \o DfeDisable(1))) \o b) \o <<>>, h, k[3])
    BY <2>7, LeadsNone, LeadsOn
  <2> QED BY <2>5, <2>6, <2>8
<1> QED BY <1>8, <1>9

\* The cores of the ports, and their lanes.
LEMMA CoresAre ==
  ASSUME mode \in Modes, NEW p \in Port
  PROVE  /\ CoresOf(mode, p) \subseteq Cores /\ AllLanes(p) = LanesIn(CoresOf(mode, p))
         /\ Len(LanesOf(mode, p)) = 4 => CoresOf(mode, p) = {0, 1}
         /\ Len(LanesOf(mode, p)) = 2 =>
              OneCore(p) \in {0, 1} /\ CoresOf(mode, p) = {OneCore(p)}
         /\ Len(LanesOf(mode, p)) = 1 =>
              OneCore(p) \in {2, 3} /\ CoresOf(mode, p) = {OneCore(p)}
         /\ \A q \in Port : q # p => CoresOf(mode, p) \cap CoresOf(mode, q) = {}
<1> DEFINE C(m, r) == CoresOf(m, r)
<1>0. /\ 1 .. 1 = {1} /\ 1 .. 2 = {1, 2} /\ 1 .. 4 = {1, 2, 3, 4}
      /\ mode = "A" \/ mode = "B"
      /\ \A r \in Port : r = "usp" \/ r = "dsp1" \/ r = "dsp2"
      /\ "usp" \in Port /\ "dsp1" \in Port /\ "dsp2" \in Port
  BY DEF Modes, Port
<1>1. /\ C("A", "usp") = {0, 1} /\ C("B", "usp") = {0}
      /\ C("A", "dsp1") = {2} /\ C("B", "dsp1") = {1}
      /\ C("A", "dsp2") = {3} /\ C("B", "dsp2") = {3}
  <2>1. ASSUME NEW m, NEW r
        PROVE  /\ Len(LanesOf(m, r)) = 4 =>
                    C(m, r) = {LanesOf(m, r)[1][1], LanesOf(m, r)[2][1],
                               LanesOf(m, r)[3][1], LanesOf(m, r)[4][1]}
               /\ Len(LanesOf(m, r)) = 2 => C(m, r) = {LanesOf(m, r)[1][1], LanesOf(m, r)[2][1]}
               /\ Len(LanesOf(m, r)) = 1 => C(m, r) = {LanesOf(m, r)[1][1]}
    BY <1>0 DEF CoresOf
  <2> HIDE DEF C
  <2> QED BY <2>1, LanesAre
<1> HIDE DEF C
<1>2. \A q \in Port : q # p => C(mode, p) \cap C(mode, q) = {}
  BY <1>0, <1>1
<1>3. C(mode, p) \subseteq Cores
  BY <1>0, <1>1 DEF Cores
<1>4. /\ Len(LanesOf(mode, p)) = 4 => C(mode, p) = {0, 1}
      /\ Len(LanesOf(mode, p)) = 2 => OneCore(p) \in {0, 1} /\ C(mode, p) = {OneCore(p)}
      /\ Len(LanesOf(mode, p)) = 1 => OneCore(p) \in {2, 3} /\ C(mode, p) = {OneCore(p)}
  <2>1. CASE p = "usp"
    BY <1>0, <1>1, <2>1, LanesAre DEF OneCore
  <2>2. CASE p = "dsp1"
    BY <1>0, <1>1, <2>2, LanesAre DEF OneCore
  <2>3. CASE p = "dsp2"
    BY <1>0, <1>1, <2>3, LanesAre DEF OneCore
  <2> QED BY <1>0, <2>1, <2>2, <2>3
<1>5. AllLanes(p) = LanesIn(C(mode, p))
  <2>1. /\ mode = "A" => /\ AllLanes("usp") = {<<0, 0>>, <<0, 1>>, <<1, 0>>, <<1, 1>>}
                         /\ AllLanes("dsp1") = {<<2, 0>>} /\ AllLanes("dsp2") = {<<3, 0>>}
        /\ mode = "B" => /\ AllLanes("usp") = {<<0, 0>>, <<0, 1>>}
                         /\ AllLanes("dsp1") = {<<1, 0>>, <<1, 1>>}
                         /\ AllLanes("dsp2") = {<<3, 0>>}
    BY LaneSets DEF AllLanes
  <2>2. /\ LanesIn({0, 1}) = {<<0, 0>>, <<0, 1>>, <<1, 0>>, <<1, 1>>}
        /\ LanesIn({0}) = {<<0, 0>>, <<0, 1>>} /\ LanesIn({1}) = {<<1, 0>>, <<1, 1>>}
        /\ LanesIn({2}) = {<<2, 0>>} /\ LanesIn({3}) = {<<3, 0>>}
    <3>1. \A l \in Lane : l \in {<<0, 0>>, <<0, 1>>, <<1, 0>>, <<1, 1>>, <<2, 0>>, <<3, 0>>}
      BY DEF Lane
    <3>2. {<<0, 0>>, <<0, 1>>, <<1, 0>>, <<1, 1>>, <<2, 0>>, <<3, 0>>} \subseteq Lane
      BY DEF Lane
    <3> QED BY <3>1, <3>2 DEF LanesIn
  <2> QED BY <1>0, <1>1, <2>1, <2>2
<1> QED BY <1>2, <1>3, <1>4, <1>5 DEF C

\* A program that leaves the settings as they are, whatever they are.
Keeps(s) ==
  \A h : Wide(h) => \E k : Leads(s, h, k) /\ Wide(k) /\ SameSettings(h, k)

LEMMA KeepsNone == Keeps(<<>>)
BY LeadsNone DEF Keeps, SameSettings

LEMMA KeepsOther ==
  ASSUME NEW s, NEW regs, Only(s, regs), regs \cap SettingRegs = {} PROVE Keeps(s)
BY LeadsNowhere DEF Keeps, SameSettings

LEMMA KeepsOn ==
  ASSUME NEW s, NEW t, Keeps(s), Keeps(t) PROVE Keeps(s \o t)
<1> SUFFICES ASSUME NEW h, Wide(h)
             PROVE  \E k : Leads(s \o t, h, k) /\ Wide(k) /\ SameSettings(h, k)
  BY DEF Keeps
<1>1. PICK i : Leads(s, h, i) /\ Wide(i) /\ SameSettings(h, i)
  BY DEF Keeps
<1>2. PICK k : Leads(t, i, k) /\ Wide(k) /\ SameSettings(i, k)
  BY <1>1 DEF Keeps
<1>3. Leads(s \o t, h, k) /\ SameSettings(h, k)
  BY <1>1, <1>2, LeadsOn DEF SameSettings
<1> QED BY <1>2, <1>3

LEMMA KeepsGroup ==
  ASSUME NEW c \in {0, 1}, NEW A \in SUBSET {0, 1}, NEW w \in {LowPower, WakeUp}
  PROVE  Keeps(<<Core({c}), Access(A), w>>)
<1> SUFFICES ASSUME NEW h, Wide(h)
             PROVE  \E k : /\ Leads(<<Core({c}), Access(A), w>>, h, k)
                           /\ Wide(k) /\ SameSettings(h, k)
  BY DEF Keeps
<1> DEFINE D == {c}
<1>1. D \in SUBSET {0, 1} /\ D \in SUBSET Cores
  BY DEF Cores
<1>2. /\ Core(D) \in Writes /\ Access(A) \in Writes /\ w \in Writes
      /\ w.reg \notin SettingRegs
  BY <1>1, WriteTypes DEF SettingRegs
<1> HIDE DEF D
<1>3. PICK k : Leads(<<Core(D), Access(A)>>, h, k) /\ Selected(h, k, D, A)
  BY <1>1, SelectLanes
<1>4. Leads(<<w>>, k, After(k, w)) /\ After(k, w) = k
  BY <1>2, LeadsOne DEF After
<1>5. Leads(<<Core(D), Access(A), w>>, h, k)
  BY <1>2, <1>3, <1>4, LeadsThree
<1> QED BY <1>3, <1>5 DEF Selected, D

LEMMA KeepsSix ==
  ASSUME NEW a \in Writes, NEW b \in Writes, NEW c \in Writes,
         NEW d \in Writes, NEW e \in Writes, NEW f \in Writes,
         Keeps(<<a, b, c>>), Keeps(<<d, e, f>>)
  PROVE  Keeps(<<a, b, c, d, e, f>>)
<1> SUFFICES ASSUME NEW h, Wide(h)
             PROVE  \E k : /\ Leads(<<a, b, c, d, e, f>>, h, k)
                           /\ Wide(k) /\ SameSettings(h, k)
  BY DEF Keeps
<1>1. PICK i : Leads(<<a, b, c>>, h, i) /\ Wide(i) /\ SameSettings(h, i)
  BY DEF Keeps
<1>2. PICK k : Leads(<<d, e, f>>, i, k) /\ Wide(k) /\ SameSettings(i, k)
  BY <1>1 DEF Keeps
<1>3. Leads(<<a, b, c, d, e, f>>, h, k)
  BY <1>1, <1>2, LeadsSix
<1> QED BY <1>1, <1>2, <1>3 DEF SameSettings

\* A change of width leaves the settings alone.
LEMMA LaneChangeKeeps ==
  ASSUME mode \in Modes, NEW p \in Port, NEW w \in Widths
  PROVE  Keeps(LaneChange(p, w))
<1>1. ASSUME NEW q \in Port, NEW v \in Widths PROVE Keeps(Request(q, v))
  <2>1. Request(q, v) \in Seq(Writes) /\ Len(Request(q, v)) = 2
        /\ Request(q, v)[1].reg = "clear" /\ Request(q, v)[2].reg = "request"
    BY <1>1, RequestIs
  <2>2. \A i \in 1 .. 2 : i = 1 \/ i = 2
    OBVIOUS
  <2>3. Only(Request(q, v), {"clear", "request"})
    BY <2>1, <2>2 DEF Only
  <2>4. {"clear", "request"} \cap SettingRegs = {}
    BY DEF SettingRegs
  <2> QED BY <2>3, <2>4, KeepsOther
<1>2. /\ "usp" \in Port /\ "dsp1" \in Port /\ 1 \in Widths /\ 2 \in Widths /\ 4 \in Widths
      /\ {1} \in SUBSET {0, 1} /\ {0, 1} \in SUBSET {0, 1}
      /\ LowPower \in {LowPower, WakeUp} /\ WakeUp \in {LowPower, WakeUp}
  BY DEF Port, Widths
<1>3. /\ Keeps(<<Core({0}), Access({1}), LowPower>>)
      /\ Keeps(<<Core({1}), Access({1}), LowPower>>)
      /\ Keeps(<<Core({1}), Access({0, 1}), LowPower>>)
      /\ Keeps(<<Core({0}), Access({0, 1}), WakeUp>>)
      /\ Keeps(<<Core({1}), Access({0, 1}), WakeUp>>)
  BY <1>2, KeepsGroup
<1>4. /\ Core({0}) \in Writes /\ Core({1}) \in Writes /\ Access({1}) \in Writes
      /\ Access({0, 1}) \in Writes /\ LowPower \in Writes /\ WakeUp \in Writes
  <2>1. {0} \in SUBSET Cores /\ {1} \in SUBSET Cores
    BY DEF Cores
  <2> QED BY <1>2, <2>1, WriteTypes
<1>5. Keeps(Mode1Usp4To1) /\ Keeps(Mode1Usp4To2) /\ Keeps(Mode1UspTo4)
  <2>1. /\ Keeps(<<Core({0}), Access({1}), LowPower, Core({1}), Access({0, 1}), LowPower>>)
        /\ Keeps(<<Core({1}), Access({0, 1}), WakeUp, Core({0}), Access({0, 1}), WakeUp>>)
    BY <1>3, <1>4, KeepsSix
  <2>2. Keeps(Mode1Usp4To1)
    BY <1>1, <1>2, <2>1, KeepsOn DEF Mode1Usp4To1
  <2>3. Keeps(Mode1Usp4To2)
    BY <1>1, <1>2, <1>3, KeepsOn DEF Mode1Usp4To2
  <2>4. Keeps(Mode1UspTo4)
    BY <1>1, <1>2, <2>1, KeepsOn DEF Mode1UspTo4
  <2> QED BY <2>2, <2>3, <2>4
<1>6. Keeps(Mode2Usp2To1) /\ Keeps(Mode2Usp1To2) /\ Keeps(Mode2Dsp2To1) /\ Keeps(Mode2Dsp1To2)
  <2>1. Keeps(Mode2Usp2To1)
    BY <1>1, <1>2, <1>3, KeepsOn DEF Mode2Usp2To1
  <2>2. Keeps(Mode2Usp1To2)
    BY <1>1, <1>2, <1>3, KeepsOn DEF Mode2Usp1To2
  <2>3. Keeps(Mode2Dsp2To1)
    BY <1>1, <1>2, <1>3, KeepsOn DEF Mode2Dsp2To1
  <2>4. Keeps(Mode2Dsp1To2)
    BY <1>1, <1>2, <1>3, KeepsOn DEF Mode2Dsp1To2
  <2> QED BY <2>1, <2>2, <2>3, <2>4
<1>7. LaneChange(p, w) \in {<<>>, Mode1Usp4To1, Mode1Usp4To2, Mode1UspTo4, Mode2Usp2To1,
                            Mode2Usp1To2, Mode2Dsp2To1, Mode2Dsp1To2}
  <2> USE DEF LaneChange
  <2> HIDE DEF Mode1Usp4To1, Mode1Usp4To2, Mode1UspTo4, Mode2Usp2To1, Mode2Usp1To2,
               Mode2Dsp2To1, Mode2Dsp1To2
  <2> QED OBVIOUS
<1> QED BY <1>5, <1>6, <1>7, KeepsNone

\* The selection of a port.
LEMMA SelectPortLeads ==
  ASSUME mode \in Modes, NEW p \in Port, NEW h, Wide(h)
  PROVE  \E k : /\ Leads(SelectPort(p), h, k) /\ Open(k, CoresOf(mode, p)) /\ Wide(k)
                /\ SameSettings(h, k)
<1> DEFINE C == CoresOf(mode, p)
           n == Len(LanesOf(mode, p))
<1>1. /\ C \subseteq Cores /\ n \in {1, 2, 4}
      /\ n = 4 => C = {0, 1}
      /\ n = 2 => OneCore(p) \in {0, 1} /\ C = {OneCore(p)}
      /\ n = 1 => OneCore(p) \in {2, 3} /\ C = {OneCore(p)}
  BY CoresAre, LanesOfIs
<1>2. SelectPort(p) = <<Core(C)>> \o (IF n > 1 THEN <<Access({0, 1})>> ELSE <<>>)
  BY DEF SelectPort
<1> HIDE DEF C, n
<1>3. CASE n = 1
  <2>1. PICK k : Leads(<<Core(C)>>, h, k) /\ k.sel = C /\ k.acc = h.acc /\ SameSettings(h, k)
    BY <1>1, SelectCore
  <2>2. Open(k, C) /\ Wide(k)
    BY <1>1, <1>3, <2>1 DEF Open, Wide
  <2>3. SelectPort(p) = <<Core(C)>> \o <<>>
    BY <1>2, <1>3
  <2>4. Leads(SelectPort(p), h, k)
    BY <2>1, <2>3, LeadsNone, LeadsOn
  <2> QED BY <2>1, <2>2, <2>4 DEF C
<1>4. CASE n > 1
  <2>1. C \in SUBSET {0, 1}
    BY <1>1, <1>4
  <2>2. PICK k : /\ Leads(<<Core(C), Access({0, 1})>>, h, k) /\ Open(k, C)
                 /\ (Wide(h) => Wide(k)) /\ SameSettings(h, k)
    BY <2>1, SelectOpen
  <2>3. SelectPort(p) = <<Core(C)>> \o <<Access({0, 1})>>
    BY <1>2, <1>4
  <2>4. <<Core(C)>> \o <<Access({0, 1})>> = <<Core(C), Access({0, 1})>>
    <3>1. Core(C) \in Writes /\ Access({0, 1}) \in Writes
      <4>1. {0, 1} \in SUBSET {0, 1}
        OBVIOUS
      <4> QED BY <1>1, <4>1, WriteTypes
    <3> QED BY <3>1, TwoWrites
  <2>5. Leads(SelectPort(p), h, k)
    BY <2>2, <2>3, <2>4
  <2> QED BY <2>2, <2>5 DEF C
<1>5. n = 1 \/ n > 1
  BY <1>1
<1> QED BY <1>3, <1>4, <1>5

\* Registers h hold what a asks for.
Agree(h, a) ==
  \A p \in Port :
    /\ \A l \in LanesIn(CoresOf(mode, p)) :
         /\ h.deemph[l] = a[p].deemph
         /\ h.eq[l] = a[p].dfe /\ h.eq1[l] = a[p].dfe
         /\ h.ctle[l] = Own(a[p].ctle, l)
    /\ \A c \in CoresOf(mode, p) : h.margin[c] = a[p].margin /\ h.pd[c] = a[p].dfe
NoteFields == {"margin", "deemph", "dfe", "ctle"}
NotesOK(a) == DOMAIN a = Port /\ \A p \in Port : DOMAIN a[p] = NoteFields

\* What an ioctl for one port sets does not show in the others.
LEMMA PortsApart ==
  ASSUME mode \in Modes, NEW p \in Port, NEW q \in Port, q # p
  PROVE  /\ \A c \in CoresOf(mode, q) : c \in Cores /\ c \notin CoresOf(mode, p)
         /\ \A l \in LanesIn(CoresOf(mode, q)) : l \in Lane /\ l[1] \notin CoresOf(mode, p)
<1>1. CoresOf(mode, p) \cap CoresOf(mode, q) = {} /\ CoresOf(mode, q) \subseteq Cores
  BY CoresAre
<1> QED BY <1>1 DEF LanesIn

LEMMA TxMarginLeads ==
  ASSUME mode \in Modes, NEW p \in Port, NEW m \in Presets, NEW a, NotesOK(a),
         NEW h, Wide(h), Agree(h, a)
  PROVE  \E k : /\ Leads(SetTxMargin(p, m), h, k) /\ Wide(k)
                /\ Agree(k, [a EXCEPT ![p].margin = m])
<1> DEFINE C == CoresOf(mode, p)
           b == [a EXCEPT ![p].margin = m]
<1>1. PICK i : Leads(SelectPort(p), h, i) /\ Open(i, C) /\ Wide(i) /\ SameSettings(h, i)
  BY SelectPortLeads
<1>2. PICK k : /\ Leads(<<W("margin", m)>>, i, k) /\ SameSelection(i, k)
               /\ k.deemph = i.deemph /\ k.eq = i.eq /\ k.eq1 = i.eq1 /\ k.ctle = i.ctle
               /\ k.margin = PutCores(i.margin, i.sel, m) /\ k.pd = i.pd
  BY WriteMargin
<1>3. Leads(SetTxMargin(p, m), h, k)
  BY <1>1, <1>2, LeadsOn DEF SetTxMargin
<1>4. Wide(k)
  BY <1>1, <1>2 DEF Wide, SameSelection
<1>5. /\ b[p].margin = m /\ b[p].deemph = a[p].deemph /\ b[p].dfe = a[p].dfe
      /\ b[p].ctle = a[p].ctle /\ \A q \in Port : q # p => b[q] = a[q]
  BY DEF NotesOK, NoteFields
<1>6. /\ C \subseteq Cores
      /\ \A q \in Port : q # p => \A c \in CoresOf(mode, q) : c \in Cores /\ c \notin C
  BY CoresAre, PortsApart
<1>7. /\ k.deemph = h.deemph /\ k.eq = h.eq /\ k.eq1 = h.eq1 /\ k.ctle = h.ctle /\ k.pd = h.pd
      /\ \A c \in Cores : k.margin[c] = IF c \in C THEN m ELSE h.margin[c]
  BY <1>1, <1>2 DEF SameSettings, PutCores, Open
<1> HIDE DEF b, C
<1>8. ASSUME NEW q \in Port
      PROVE  /\ \A l \in LanesIn(CoresOf(mode, q)) :
                  /\ k.deemph[l] = b[q].deemph
                  /\ k.eq[l] = b[q].dfe /\ k.eq1[l] = b[q].dfe
                  /\ k.ctle[l] = Own(b[q].ctle, l)
             /\ \A c \in CoresOf(mode, q) : k.margin[c] = b[q].margin /\ k.pd[c] = b[q].dfe
  <2>1. CASE q = p
    <3>1. CoresOf(mode, q) = C
      BY <2>1 DEF C
    <3> QED BY <1>5, <1>6, <1>7, <2>1, <3>1 DEF Agree
  <2>2. CASE q # p
    BY <1>5, <1>6, <1>7, <2>2 DEF Agree
  <2> QED BY <2>1, <2>2
<1>9. Agree(k, b)
  BY <1>8 DEF Agree
<1> QED BY <1>3, <1>4, <1>9 DEF b

LEMMA TxDeemphasisLeads ==
  ASSUME mode \in Modes, NEW p \in Port, NEW e \in Presets \cup {"off"}, NEW a, NotesOK(a),
         NEW h, Wide(h), Agree(h, a)
  PROVE  \E k : /\ Leads(SetTxDeemphasis(p, e), h, k) /\ Wide(k)
                /\ Agree(k, [a EXCEPT ![p].deemph = e])
<1> DEFINE C == CoresOf(mode, p)
           b == [a EXCEPT ![p].deemph = e]
<1>1. PICK i : Leads(SelectPort(p), h, i) /\ Open(i, C) /\ Wide(i) /\ SameSettings(h, i)
  BY SelectPortLeads
<1>2. PICK k : /\ Leads(<<W("deemph", e)>>, i, k) /\ SameSelection(i, k)
               /\ k.deemph = PutLanes(i.deemph, LanesIn(C), e)
               /\ k.eq = i.eq /\ k.eq1 = i.eq1 /\ k.ctle = i.ctle
               /\ k.margin = i.margin /\ k.pd = i.pd
  <2>1. e \in Settings
    BY DEF Settings
  <2> QED BY <1>1, <2>1, WriteSetting
<1>3. Leads(SetTxDeemphasis(p, e), h, k)
  BY <1>1, <1>2, LeadsOn DEF SetTxDeemphasis, Gen3Deemphasis
<1>4. Wide(k)
  BY <1>1, <1>2 DEF Wide, SameSelection
<1>5. /\ b[p].deemph = e /\ b[p].margin = a[p].margin /\ b[p].dfe = a[p].dfe
      /\ b[p].ctle = a[p].ctle /\ \A q \in Port : q # p => b[q] = a[q]
  BY DEF NotesOK, NoteFields
<1>6. /\ \A l \in LanesIn(C) : l \in Lane /\ l[1] \in C
      /\ \A q \in Port : q # p => \A l \in LanesIn(CoresOf(mode, q)) : l \in Lane /\ l[1] \notin C
  BY PortsApart DEF LanesIn
<1>7. /\ k.margin = h.margin /\ k.eq = h.eq /\ k.eq1 = h.eq1 /\ k.ctle = h.ctle /\ k.pd = h.pd
      /\ \A l \in Lane : k.deemph[l] = IF l[1] \in C THEN e ELSE h.deemph[l]
  BY <1>1, <1>2 DEF SameSettings, PutLanes, LanesIn
<1> HIDE DEF b, C
<1>8. ASSUME NEW q \in Port
      PROVE  /\ \A l \in LanesIn(CoresOf(mode, q)) :
                  /\ k.deemph[l] = b[q].deemph
                  /\ k.eq[l] = b[q].dfe /\ k.eq1[l] = b[q].dfe
                  /\ k.ctle[l] = Own(b[q].ctle, l)
             /\ \A c \in CoresOf(mode, q) : k.margin[c] = b[q].margin /\ k.pd[c] = b[q].dfe
  <2>1. CASE q = p
    <3>1. CoresOf(mode, q) = C
      BY <2>1 DEF C
    <3> QED BY <1>5, <1>6, <1>7, <2>1, <3>1 DEF Agree
  <2>2. CASE q # p
    BY <1>5, <1>6, <1>7, <2>2 DEF Agree
  <2> QED BY <2>1, <2>2
<1>9. Agree(k, b)
  BY <1>8 DEF Agree
<1> QED BY <1>3, <1>4, <1>9 DEF b

LEMMA EqualizedAgree ==
  ASSUME mode \in Modes, NEW p \in Port, NEW v, NEW w, NEW a, NotesOK(a),
         NEW h, NEW k, Agree(h, a), Equalized(h, k, CoresOf(mode, p), v, w)
  PROVE  Agree(k, [a EXCEPT ![p].dfe = v, ![p].ctle = w])
<1> DEFINE C == CoresOf(mode, p)
           b == [a EXCEPT ![p].dfe = v, ![p].ctle = w]
<1>1. /\ b[p].dfe = v /\ b[p].ctle = w /\ b[p].margin = a[p].margin
      /\ b[p].deemph = a[p].deemph /\ \A q \in Port : q # p => b[q] = a[q]
  BY DEF NotesOK, NoteFields
<1>2. /\ C \subseteq Cores /\ \A l \in LanesIn(C) : l \in Lane /\ l[1] \in C
      /\ \A q \in Port : q # p =>
           /\ \A c \in CoresOf(mode, q) : c \in Cores /\ c \notin C
           /\ \A l \in LanesIn(CoresOf(mode, q)) : l \in Lane /\ l[1] \notin C
  BY CoresAre, PortsApart DEF LanesIn
<1>3. /\ k.deemph = h.deemph /\ k.margin = h.margin
      /\ \A l \in Lane :
           /\ k.eq[l] = IF l[1] \in C THEN v ELSE h.eq[l]
           /\ k.eq1[l] = IF l[1] \in C THEN v ELSE h.eq1[l]
           /\ k.ctle[l] = IF l[1] \in C THEN Own(w, l) ELSE h.ctle[l]
      /\ \A c \in Cores : k.pd[c] = IF c \in C THEN v ELSE h.pd[c]
  BY DEF Equalized
<1> HIDE DEF b, C
<1>4. ASSUME NEW q \in Port
      PROVE  /\ \A l \in LanesIn(CoresOf(mode, q)) :
                  /\ k.deemph[l] = b[q].deemph
                  /\ k.eq[l] = b[q].dfe /\ k.eq1[l] = b[q].dfe
                  /\ k.ctle[l] = Own(b[q].ctle, l)
             /\ \A c \in CoresOf(mode, q) : k.margin[c] = b[q].margin /\ k.pd[c] = b[q].dfe
  <2>1. CASE q = p
    <3>1. CoresOf(mode, q) = C
      BY <2>1 DEF C
    <3> QED BY <1>1, <1>2, <1>3, <2>1, <3>1 DEF Agree
  <2>2. CASE q # p
    BY <1>1, <1>2, <1>3, <2>2 DEF Agree
  <2> QED BY <2>1, <2>2
<1>5. Agree(k, b)
  BY <1>4 DEF Agree
<1> QED BY <1>5 DEF b

LEMMA DfeProgram ==
  ASSUME NEW p \in Port, NEW on \in BOOLEAN, SetDfe(p, on) # <<>>
  PROVE  /\ Len(LanesOf(mode, p)) = 4 => SetDfe(p, on) = DfeUsp4(on)
         /\ Len(LanesOf(mode, p)) = 2 => SetDfe(p, on) = DfeX2(OneCore(p), on)
         /\ Len(LanesOf(mode, p)) = 1 => SetDfe(p, on) = DfeX1(OneCore(p), on)
<1> DEFINE x == DfeUsp4(on)
           y == DfeX2(OneCore(p), on)
           z == DfeX1(OneCore(p), on)
           n == Len(LanesOf(mode, p))
<1>1. SetDfe(p, on) = IF speed[p] # 3 THEN <<>>
                      ELSE CASE n = 4 -> x [] n = 2 -> y [] n = 1 -> z
  BY DEF SetDfe
<1> HIDE DEF x, y, z, n
<1>2. CASE n = 4
  BY <1>1, <1>2 DEF x, n
<1>3. CASE n = 2
  BY <1>1, <1>3 DEF y, n
<1>4. CASE n = 1
  BY <1>1, <1>4 DEF z, n
<1> QED BY <1>2, <1>3, <1>4 DEF x, y, z, n

LEMMA DfeLeads ==
  ASSUME mode \in Modes, NEW p \in Port, NEW on \in BOOLEAN, SetDfe(p, on) # <<>>,
         NEW a, NotesOK(a), NEW h, Wide(h), Agree(h, a)
  PROVE  \E k : /\ Leads(SetDfe(p, on), h, k) /\ Wide(k)
                /\ Agree(k, [a EXCEPT ![p].dfe = IF on THEN "on" ELSE "off",
                                      ![p].ctle = IF on THEN "init" ELSE "best"])
<1> DEFINE C == CoresOf(mode, p)
           n == Len(LanesOf(mode, p))
           v == IF on THEN "on" ELSE "off"
           w == IF on THEN "init" ELSE "best"
<1>1. /\ n \in {1, 2, 4}
      /\ n = 4 => C = {0, 1}
      /\ n = 2 => OneCore(p) \in {0, 1} /\ C = {OneCore(p)}
      /\ n = 1 => OneCore(p) \in {2, 3} /\ C = {OneCore(p)}
  BY CoresAre, LanesOfIs
<1>2. /\ n = 4 => SetDfe(p, on) = DfeUsp4(on)
      /\ n = 2 => SetDfe(p, on) = DfeX2(OneCore(p), on)
      /\ n = 1 => SetDfe(p, on) = DfeX1(OneCore(p), on)
  BY DfeProgram
<1> HIDE DEF C, n
<1>3. PICK k : Leads(SetDfe(p, on), h, k) /\ Equalized(h, k, C, v, w)
  <2>1. CASE n = 4
    BY <1>1, <1>2, <2>1, DfeUsp4Leads
  <2>2. CASE n = 2
    BY <1>1, <1>2, <2>2, DfeX2Leads
  <2>3. CASE n = 1
    BY <1>1, <1>2, <2>3, DfeX1Leads
  <2> QED BY <1>1, <2>1, <2>2, <2>3
<1> HIDE DEF v, w
<1>4. Agree(k, [a EXCEPT ![p].dfe = v, ![p].ctle = w])
  BY <1>3, EqualizedAgree DEF C
<1> QED BY <1>3, <1>4 DEF Equalized, v, w

LEMMA CtleFixedLeads ==
  ASSUME mode \in Modes, NEW p \in Port, SetCtleFixed(p) # <<>>,
         NEW a, NotesOK(a), NEW h, Wide(h), Agree(h, a)
  PROVE  \E k : /\ Leads(SetCtleFixed(p), h, k) /\ Wide(k)
                /\ Agree(k, [a EXCEPT ![p].dfe = "off", ![p].ctle = "fixed"])
<1> DEFINE C == CoresOf(mode, p)
           n == Len(LanesOf(mode, p))
<1>1. /\ n \in {1, 2, 4}
      /\ n = 4 => C = {0, 1}
      /\ n = 2 => OneCore(p) \in {0, 1} /\ C = {OneCore(p)}
      /\ n = 1 => OneCore(p) \in {2, 3} /\ C = {OneCore(p)}
  BY CoresAre, LanesOfIs
<1>2. /\ n = 4 => SetCtleFixed(p) = CtleUsp4
      /\ n = 2 => SetCtleFixed(p) = CtleX2(OneCore(p))
      /\ n = 1 => SetCtleFixed(p) = CtleX1(OneCore(p))
  BY DEF SetCtleFixed
<1> HIDE DEF C, n
<1>3. PICK k : Leads(SetCtleFixed(p), h, k) /\ Equalized(h, k, C, "off", "fixed")
  <2>1. CASE n = 4
    BY <1>1, <1>2, <2>1, CtleUsp4Leads
  <2>2. CASE n = 2
    BY <1>1, <1>2, <2>2, CtleX2Leads
  <2>3. CASE n = 1
    BY <1>1, <1>2, <2>3, CtleX1Leads
  <2> QED BY <1>1, <2>1, <2>2, <2>3
<1>4. Agree(k, [a EXCEPT ![p].dfe = "off", ![p].ctle = "fixed"])
  BY <1>3, EqualizedAgree DEF C
<1> QED BY <1>3, <1>4 DEF Equalized

\* The registers, each with its fields.
LaneFields == {"asleep", "deemph", "eq", "eq1", "ctle"}
CoreFields == {"margin", "pd"}
LanesWhole(f) == DOMAIN f = Lane /\ \A l \in Lane : DOMAIN f[l] = LaneFields
CoresWhole(f) == DOMAIN f = Cores /\ \A c \in Cores : DOMAIN f[c] = CoreFields
RegsOK == LanesWhole(lane) /\ CoresWhole(core)

\* The fields of the registers as functions of the lanes and the cores.
LEMMA NowIs ==
  /\ Now.sel = sel /\ Now.acc = acc /\ Hit(Now) = Reach
  /\ \A l \in Lane : /\ Now.deemph[l] = lane[l].deemph /\ Now.eq[l] = lane[l].eq
                     /\ Now.eq1[l] = lane[l].eq1 /\ Now.ctle[l] = lane[l].ctle
  /\ \A c \in Cores : Now.margin[c] = core[c].margin /\ Now.pd[c] = core[c].pd
<1>1. Now.sel = sel /\ Now.acc = acc
  BY DEF Now
<1>2. Hit(Now) = Reach
  BY <1>1 DEF Hit, Reach
<1> QED BY <1>1, <1>2 DEF Now

SameLaneSettings == \A l \in Lane : /\ lane'[l].deemph = lane[l].deemph /\ lane'[l].eq = lane[l].eq
                                    /\ lane'[l].eq1 = lane[l].eq1 /\ lane'[l].ctle = lane[l].ctle
SameCores == \A c \in Cores : core'[c].margin = core[c].margin /\ core'[c].pd = core[c].pd

\* What is written to no setting.
LEMMA NowStays ==
  ASSUME sel' = sel, acc' = acc, SameLaneSettings, SameCores
  PROVE  Now' = Now
BY DEF Now, SameLaneSettings, SameCores

LEMMA SelectAfter ==
  ASSUME RegsOK, NEW w \in Writes, WriteSelect(w)
  PROVE  RegsOK' /\ Now' = After(Now, w)
<1>1. lane' = lane /\ core' = core
  BY DEF WriteSelect
<1>2. RegsOK'
  BY <1>1 DEF RegsOK, LanesWhole, CoresWhole
<1>3. CASE w.reg = "core"
  <2>1. sel' = w.val /\ acc' = acc
    BY <1>3 DEF WriteSelect
  <2> QED BY <1>1, <1>2, <1>3, <2>1 DEF Now, After, SettingRegs
<1>4. CASE w.reg = "access"
  <2>1. sel' = sel /\ acc' = PutCores(acc, sel, w.val)
    BY <1>4 DEF WriteSelect, PutCores
  <2> QED BY <1>1, <1>2, <1>4, <2>1 DEF Now, After, SettingRegs
<1> QED BY <1>3, <1>4 DEF WriteSelect

\* A write to the lanes within reach, of one of their settings or of none.
LEMMA LaneAfter ==
  ASSUME RegsOK, NEW w \in Writes, WriteLane(w)
  PROVE  RegsOK' /\ Now' = After(Now, w)
<1>1. sel' = sel /\ acc' = acc /\ core' = core
  BY DEF WriteLane
<1>2. CoresWhole(core)' /\ SameCores
  BY <1>1 DEF RegsOK, CoresWhole, SameCores
<1>3. LanesWhole(lane)
  BY DEF RegsOK
<1>4. CASE w.reg \in {"low_power", "wake"}
  <2>1. PICK b \in BOOLEAN :
          lane' = [l \in Lane |-> IF l \in Reach THEN [lane[l] EXCEPT !.asleep = b] ELSE lane[l]]
    BY <1>4 DEF WriteLane, Lanes
  <2>2. LanesWhole(lane)'
    BY <1>3, <2>1 DEF LanesWhole
  <2>3. SameLaneSettings
    BY <1>3, <2>1 DEF LanesWhole, LaneFields, SameLaneSettings
  <2>4. Now' = Now
    BY <1>1, <1>2, <2>3, NowStays
  <2> QED BY <1>2, <1>4, <2>2, <2>4 DEF After, SettingRegs, RegsOK
<1>5. CASE w.reg \in {"deemph", "eq", "eq1"}
  <2>1. lane' = [l \in Lane |-> IF l \in Reach THEN [lane[l] EXCEPT ![w.reg] = w.val] ELSE lane[l]]
    BY <1>5 DEF WriteLane, Lanes
  <2>2. LanesWhole(lane)'
    BY <1>3, <2>1 DEF LanesWhole
  <2>3. \A l \in Lane :
          /\ lane'[l].ctle = lane[l].ctle
          /\ lane'[l].deemph = IF w.reg = "deemph" /\ l \in Reach THEN w.val ELSE lane[l].deemph
          /\ lane'[l].eq = IF w.reg = "eq" /\ l \in Reach THEN w.val ELSE lane[l].eq
          /\ lane'[l].eq1 = IF w.reg = "eq1" /\ l \in Reach THEN w.val ELSE lane[l].eq1
    BY <1>3, <1>5, <2>1 DEF LanesWhole, LaneFields
  <2>4. /\ (Now.ctle)' = Now.ctle
        /\ (Now.deemph)' = IF w.reg = "deemph" THEN PutLanes(Now.deemph, Reach, w.val) ELSE Now.deemph
        /\ (Now.eq)' = IF w.reg = "eq" THEN PutLanes(Now.eq, Reach, w.val) ELSE Now.eq
        /\ (Now.eq1)' = IF w.reg = "eq1" THEN PutLanes(Now.eq1, Reach, w.val) ELSE Now.eq1
    BY <2>3 DEF Now, PutLanes
  <2>5. (Now.margin)' = Now.margin /\ (Now.pd)' = Now.pd /\ (Now.sel)' = sel /\ (Now.acc)' = acc
    BY <1>1 DEF Now
  <2> QED BY <1>2, <1>5, <2>2, <2>4, <2>5, NowIs DEF After, SettingRegs, RegsOK, Now
<1>6. CASE w.reg = "ctle"
  <2>1. lane' = [l \in Lane |-> IF l \in Reach THEN [lane[l] EXCEPT !.ctle = Own(w.val, l)]
                                ELSE lane[l]]
    BY <1>6 DEF WriteLane, Lanes
  <2>2. LanesWhole(lane)'
    BY <1>3, <2>1 DEF LanesWhole
  <2>3. \A l \in Lane :
          /\ lane'[l].ctle = IF l \in Reach THEN Own(w.val, l) ELSE lane[l].ctle
          /\ lane'[l].deemph = lane[l].deemph /\ lane'[l].eq = lane[l].eq
          /\ lane'[l].eq1 = lane[l].eq1
    BY <1>3, <1>6, <2>1 DEF LanesWhole, LaneFields
  <2> QED BY <1>1, <1>2, <1>6, <2>2, <2>3, NowIs DEF After, SettingRegs, RegsOK, Now, PutOwn
<1>7. CASE w.reg = "copy"
  <2>1. lane' = [l \in Lane |-> IF l \in Reach
                                THEN [lane[l] EXCEPT !.ctle = Own("best", CHOOSE x \in Reach : TRUE)]
                                ELSE lane[l]]
    BY <1>7 DEF WriteLane, Lanes
  <2> DEFINE best == Own("best", CHOOSE x \in Reach : TRUE)
  <2>2. Copied(Now.ctle, Reach) = [l \in Lane |-> IF l \in Reach THEN best ELSE Now.ctle[l]]
    BY DEF Copied
  <2> HIDE DEF best
  <2>3. lane' = [l \in Lane |-> IF l \in Reach THEN [lane[l] EXCEPT !.ctle = best] ELSE lane[l]]
    BY <2>1 DEF best
  <2>4. LanesWhole(lane)'
    BY <1>3, <2>3 DEF LanesWhole
  <2>5. \A l \in Lane :
          /\ lane'[l].ctle = IF l \in Reach THEN best ELSE lane[l].ctle
          /\ lane'[l].deemph = lane[l].deemph /\ lane'[l].eq = lane[l].eq
          /\ lane'[l].eq1 = lane[l].eq1
    BY <1>3, <2>3 DEF LanesWhole, LaneFields
  <2>6. (Now.ctle)' = Copied(Now.ctle, Reach)
    BY <2>2, <2>5 DEF Now
  <2>7. /\ (Now.deemph)' = Now.deemph /\ (Now.eq)' = Now.eq /\ (Now.eq1)' = Now.eq1
        /\ (Now.margin)' = Now.margin /\ (Now.pd)' = Now.pd
        /\ (Now.sel)' = Now.sel /\ (Now.acc)' = Now.acc
    BY <1>1, <2>5 DEF Now
  <2> QED BY <1>2, <1>7, <2>4, <2>6, <2>7, NowIs DEF After, SettingRegs, RegsOK, Now
<1> QED BY <1>4, <1>5, <1>6, <1>7 DEF WriteLane

LEMMA CoreAfter ==
  ASSUME RegsOK, NEW w \in Writes, WriteCore(w)
  PROVE  RegsOK' /\ Now' = After(Now, w)
<1>1. sel' = sel /\ acc' = acc /\ lane' = lane
  BY DEF WriteCore
<1>2. LanesWhole(lane)'
  BY <1>1 DEF RegsOK, LanesWhole
<1>3. CoresWhole(core)
  BY DEF RegsOK
<1>4. CASE w.reg = "margin"
  <2>1. core' = [c \in Cores |-> IF c \in sel THEN [core[c] EXCEPT !.margin = w.val] ELSE core[c]]
    BY <1>4 DEF WriteCore
  <2>2. /\ CoresWhole(core)'
        /\ \A c \in Cores : /\ core'[c].margin = IF c \in sel THEN w.val ELSE core[c].margin
                            /\ core'[c].pd = core[c].pd
    BY <1>3, <2>1 DEF CoresWhole, CoreFields
  <2> QED BY <1>1, <1>2, <1>4, <2>2 DEF After, SettingRegs, RegsOK, Now, PutCores
<1>5. CASE w.reg = "pd"
  <2> DEFINE X == {c \in sel : c = 1 <=> w.val[1] = 1}
  <2>1. core' = [c \in Cores |-> IF c \in X THEN [core[c] EXCEPT !.pd = w.val[2]] ELSE core[c]]
    BY <1>5 DEF WriteCore
  <2>2. PutCores(Now.pd, {c \in Now.sel : c = 1 <=> w.val[1] = 1}, w.val[2])
          = PutCores(Now.pd, X, w.val[2])
    BY NowIs
  <2> HIDE DEF X
  <2>3. /\ CoresWhole(core)'
        /\ \A c \in Cores : /\ core'[c].pd = IF c \in X THEN w.val[2] ELSE core[c].pd
                            /\ core'[c].margin = core[c].margin
    BY <1>3, <2>1 DEF CoresWhole, CoreFields
  <2>4. /\ (Now.pd)' = PutCores(Now.pd, X, w.val[2]) /\ (Now.margin)' = Now.margin
    BY <2>3 DEF Now, PutCores
  <2>5. /\ (Now.deemph)' = Now.deemph /\ (Now.eq)' = Now.eq /\ (Now.eq1)' = Now.eq1
        /\ (Now.ctle)' = Now.ctle /\ (Now.sel)' = Now.sel /\ (Now.acc)' = Now.acc
    BY <1>1 DEF Now
  <2> QED BY <1>2, <1>5, <2>2, <2>3, <2>4, <2>5 DEF After, SettingRegs, RegsOK, Now
<1> QED BY <1>4, <1>5 DEF WriteCore

LEMMA OtherAfter ==
  ASSUME RegsOK, NEW w \in Writes, WriteRequest(w) \/ WriteConfig(w)
  PROVE  RegsOK' /\ Now' = After(Now, w)
<1>1. /\ sel' = sel /\ acc' = acc /\ lane' = lane /\ core' = core
      /\ w.reg \notin SettingRegs
  BY DEF WriteRequest, WriteConfig, SettingRegs
<1>2. Now' = Now
  BY <1>1 DEF Now
<1> QED BY <1>1, <1>2 DEF After, RegsOK, LanesWhole, CoresWhole

\* From where the registers are, the writes still to come lead to settings
\* that are those asked for.
Leading == \E k : Leads(todo, Now, k) /\ Wide(k) /\ Agree(k, asked)
AskInv == mode \in Modes /\ RegsOK /\ NotesOK(asked) /\ Leading

LEMMA WriteLeads ==
  ASSUME AskInv, DoWrite PROVE AskInv'
<1>1. PICK k : Leads(todo, Now, k) /\ Wide(k) /\ Agree(k, asked)
  BY DEF AskInv, Leading
<1> DEFINE w == Head(todo)
<1>2. todo \in Seq(Writes) /\ todo # <<>> /\ todo' = Tail(todo) /\ mode' = mode /\ asked' = asked
  BY <1>1 DEF Leads, DoWrite
<1>3. w \in Writes
  BY <1>2, HeadTailProperties
<1>4. WriteSelect(w) \/ WriteLane(w) \/ WriteCore(w) \/ WriteRequest(w) \/ WriteConfig(w)
  BY DEF DoWrite
<1> HIDE DEF w
<1>5. RegsOK' /\ Now' = After(Now, w)
  BY <1>3, <1>4, SelectAfter, LaneAfter, CoreAfter, OtherAfter DEF AskInv
<1>6. Leads(Tail(todo), After(Now, w), k)
  BY <1>1, <1>2, LeadsRest DEF w
<1>7. Leads(todo', Now', k)
  BY <1>2, <1>5, <1>6
<1>8. Agree(k, asked)'
  BY <1>1, <1>2 DEF Agree
<1>9. Leading'
  BY <1>1, <1>7, <1>8 DEF Leading
<1> QED BY <1>2, <1>5, <1>9 DEF AskInv, NotesOK

LEMMA AskedOf ==
  ASSUME AskInv PROVE AsAsked
<1> SUFFICES ASSUME todo = <<>>, NEW p \in Port
             PROVE  /\ \A l \in AllLanes(p) :
                         /\ lane[l].deemph = asked[p].deemph
                         /\ lane[l].eq = asked[p].dfe /\ lane[l].eq1 = asked[p].dfe
                         /\ lane[l].ctle = Own(asked[p].ctle, l)
                    /\ \A c \in CoresOf(mode, p) : /\ core[c].margin = asked[p].margin
                                                   /\ core[c].pd = asked[p].dfe
  BY DEF AsAsked
<1>1. Agree(Now, asked)
  BY LeadsNone DEF AskInv, Leading
<1>2. AllLanes(p) = LanesIn(CoresOf(mode, p)) /\ CoresOf(mode, p) \subseteq Cores
  BY CoresAre DEF AskInv
<1>3. LanesIn(CoresOf(mode, p)) \subseteq Lane
  BY DEF LanesIn
<1> QED BY <1>1, <1>2, <1>3, NowIs DEF Agree

\* Between ioctls the registers are what was asked for.
LEMMA SettledNow ==
  ASSUME AskInv, todo = <<>> PROVE Wide(Now) /\ Agree(Now, asked)
BY LeadsNone DEF AskInv, Leading

\* An ioctl whose writes lead to what it was asked for.
LEMMA BeginLeads ==
  ASSUME AskInv, NEW s, NEW note, Begin(s, note), NotesOK(note),
         s # <<>> => \E k : Leads(s, Now, k) /\ Wide(k) /\ Agree(k, note)
  PROVE  AskInv'
<1>1. /\ mode' = mode /\ lane' = lane /\ core' = core /\ sel' = sel /\ acc' = acc
      /\ todo = <<>> /\ todo' = s /\ asked' = IF s = <<>> THEN asked ELSE note
  BY DEF Begin, hw
<1>2. Now' = Now /\ RegsOK' /\ mode' \in Modes
  BY <1>1 DEF Now, RegsOK, LanesWhole, CoresWhole, AskInv
<1>3. CASE s = <<>>
  <2>1. Leads(todo', Now', Now) /\ Wide(Now) /\ Agree(Now, asked) /\ asked' = asked
    BY <1>1, <1>2, <1>3, SettledNow, LeadsNone
  <2>2. Now' = Now /\ Leads(todo', Now', Now') /\ Wide(Now')
    BY <1>2, <2>1
  <2>3. Agree(Now, asked)'
    BY <1>1, <2>1, <2>2 DEF Agree
  <2>4. Leading'
    BY <2>2, <2>3 DEF Leading
  <2> QED BY <1>1, <1>2, <2>1, <2>4 DEF AskInv, NotesOK
<1>4. CASE s # <<>>
  <2>1. PICK k : Leads(s, Now, k) /\ Wide(k) /\ Agree(k, note)
    BY <1>4
  <2>2. Leads(todo', Now', k) /\ asked' = note
    BY <1>1, <1>2, <1>4, <2>1
  <2>3. Agree(k, asked)'
    BY <1>1, <2>1, <2>2 DEF Agree
  <2>4. Leading'
    BY <2>1, <2>2, <2>3 DEF Leading
  <2> QED BY <1>2, <2>2, <2>4 DEF AskInv, NotesOK
<1> QED BY <1>3, <1>4

\* One that leaves the settings alone.
LEMMA BeginKeeps ==
  ASSUME AskInv, NEW s, Begin(s, asked), s # <<>> => Keeps(s)
  PROVE  AskInv'
<1>1. todo = <<>> /\ NotesOK(asked)
  BY DEF Begin, AskInv
<1>2. Wide(Now) /\ Agree(Now, asked)
  BY <1>1, SettledNow
<1>3. ASSUME s # <<>> PROVE \E k : Leads(s, Now, k) /\ Wide(k) /\ Agree(k, asked)
  <2>1. PICK k : Leads(s, Now, k) /\ Wide(k) /\ SameSettings(Now, k)
    BY <1>2, <1>3 DEF Keeps
  <2>2. Agree(k, asked)
    BY <1>2, <2>1 DEF Agree, SameSettings
  <2> QED BY <2>1, <2>2
<1> QED BY <1>1, <1>3, BeginLeads

LEMMA NotesStay ==
  ASSUME NEW a, NotesOK(a), NEW p \in Port, NEW v, NEW w
  PROVE  /\ NotesOK([a EXCEPT ![p].margin = v]) /\ NotesOK([a EXCEPT ![p].deemph = v])
         /\ NotesOK([a EXCEPT ![p].dfe = v, ![p].ctle = w])
BY DEF NotesOK, NoteFields

LEMMA AskInit == LaneInit => AskInv
<1> SUFFICES ASSUME LaneInit PROVE AskInv
  OBVIOUS
<1>1. mode \in Modes /\ RegsOK /\ NotesOK(asked)
  BY DEF LaneInit, Modes, RegsOK, LanesWhole, CoresWhole, LaneFields, CoreFields, NotesOK,
         NoteFields, NoSetting
<1>2. todo = <<>> /\ Leads(todo, Now, Now)
  BY LeadsNone DEF LaneInit
<1>3. Wide(Now)
  BY NowIs DEF LaneInit, Wide, Cores
<1>4. ASSUME NEW p \in Port
      PROVE  /\ \A l \in LanesIn(CoresOf(mode, p)) :
                  /\ Now.deemph[l] = asked[p].deemph
                  /\ Now.eq[l] = asked[p].dfe /\ Now.eq1[l] = asked[p].dfe
                  /\ Now.ctle[l] = Own(asked[p].ctle, l)
             /\ \A c \in CoresOf(mode, p) : /\ Now.margin[c] = asked[p].margin
                                            /\ Now.pd[c] = asked[p].dfe
  <2>1. /\ asked[p].deemph = "off" /\ asked[p].dfe = "reset" /\ asked[p].ctle = "reset"
        /\ asked[p].margin = "reset"
    BY DEF LaneInit, NoSetting
  <2>2. /\ \A l \in Lane : /\ lane[l].deemph = "off" /\ lane[l].eq = "reset"
                           /\ lane[l].eq1 = "reset" /\ lane[l].ctle = Own("reset", l)
        /\ \A c \in Cores : core[c].margin = "reset" /\ core[c].pd = "reset"
    BY DEF LaneInit
  <2>3. CoresOf(mode, p) \subseteq Cores /\ LanesIn(CoresOf(mode, p)) \subseteq Lane
    BY <1>1, CoresAre DEF LanesIn
  <2> QED BY <2>1, <2>2, <2>3, NowIs
<1>5. Agree(Now, asked)
  BY <1>4 DEF Agree
<1> QED BY <1>1, <1>2, <1>3, <1>5 DEF AskInv, Leading

LEMMA AskNext == AskInv /\ [LaneNext]_laneVars => AskInv'
<1> SUFFICES ASSUME AskInv, [LaneNext]_laneVars PROVE AskInv'
  OBVIOUS
<1>0. mode \in Modes /\ NotesOK(asked)
  BY DEF AskInv
<1>1. ASSUME UNCHANGED <<mode, sel, acc, lane, core, todo, asked>> PROVE AskInv'
  <2>1. PICK k : Leads(todo, Now, k) /\ Wide(k) /\ Agree(k, asked)
    BY DEF AskInv, Leading
  <2>2. Now' = Now /\ RegsOK' /\ mode' \in Modes
    BY <1>1 DEF Now, RegsOK, LanesWhole, CoresWhole, AskInv
  <2>3. Leads(todo', Now', k)
    BY <1>1, <2>1, <2>2
  <2>4. Agree(k, asked)'
    BY <1>1, <2>1 DEF Agree
  <2>5. Leading'
    BY <2>1, <2>3, <2>4 DEF Leading
  <2> QED BY <1>0, <1>1, <2>2, <2>5 DEF AskInv, NotesOK
<1>2. CASE UNCHANGED laneVars
  BY <1>1, <1>2 DEF laneVars, hw
<1>3. CASE LinkRetrains
  BY <1>1, <1>3 DEF LinkRetrains
<1>4. CASE DoWrite
  BY <1>4, WriteLeads
<1>5. CASE IoctlLaneChange
  <2>1. PICK p \in Port, w \in {1, 2, 4} : Begin(LaneChange(p, w), asked)
    BY <1>5 DEF IoctlLaneChange
  <2>2. Keeps(LaneChange(p, w))
    BY <1>0, LaneChangeKeeps DEF Widths
  <2> QED BY <2>1, <2>2, BeginKeeps
<1>6. CASE IoctlTxMargin
  <2>1. PICK p \in Port, m \in Presets : Begin(SetTxMargin(p, m), [asked EXCEPT ![p].margin = m])
    BY <1>6 DEF IoctlTxMargin
  <2> DEFINE s == SetTxMargin(p, m)
             note == [asked EXCEPT ![p].margin = m]
  <2>2. Wide(Now) /\ Agree(Now, asked)
    BY <2>1, SettledNow DEF Begin
  <2>3. NotesOK(note) /\ \E k : Leads(s, Now, k) /\ Wide(k) /\ Agree(k, note)
    BY <1>0, <2>2, NotesStay, TxMarginLeads
  <2> HIDE DEF s, note
  <2>4. Begin(s, note)
    BY <2>1 DEF s, note
  <2> QED BY <2>3, <2>4, BeginLeads
<1>7. CASE IoctlTxDeemphasis
  <2>1. PICK p \in Port, e \in Presets \cup {"off"} :
          Begin(SetTxDeemphasis(p, e), [asked EXCEPT ![p].deemph = e])
    BY <1>7 DEF IoctlTxDeemphasis
  <2> DEFINE s == SetTxDeemphasis(p, e)
             note == [asked EXCEPT ![p].deemph = e]
  <2>2. Wide(Now) /\ Agree(Now, asked)
    BY <2>1, SettledNow DEF Begin
  <2>3. NotesOK(note) /\ \E k : Leads(s, Now, k) /\ Wide(k) /\ Agree(k, note)
    BY <1>0, <2>2, NotesStay, TxDeemphasisLeads
  <2> HIDE DEF s, note
  <2>4. Begin(s, note)
    BY <2>1 DEF s, note
  <2> QED BY <2>3, <2>4, BeginLeads
<1>8. CASE IoctlDfe
  <2>1. PICK p \in Port, on \in BOOLEAN :
          Begin(SetDfe(p, on), [asked EXCEPT ![p].dfe = IF on THEN "on" ELSE "off",
                                             ![p].ctle = IF on THEN "init" ELSE "best"])
    BY <1>8 DEF IoctlDfe
  <2> DEFINE s == SetDfe(p, on)
             note == [asked EXCEPT ![p].dfe = IF on THEN "on" ELSE "off",
                                   ![p].ctle = IF on THEN "init" ELSE "best"]
  <2>2. Wide(Now) /\ Agree(Now, asked)
    BY <2>1, SettledNow DEF Begin
  <2>3. s # <<>> => \E k : Leads(s, Now, k) /\ Wide(k) /\ Agree(k, note)
    BY <1>0, <2>2, DfeLeads
  <2>4. NotesOK(note)
    BY <1>0, NotesStay
  <2> HIDE DEF s, note
  <2>5. Begin(s, note)
    BY <2>1 DEF s, note
  <2> QED BY <2>3, <2>4, <2>5, BeginLeads
<1>9. CASE IoctlCtleFixed
  <2>1. PICK p \in Port :
          Begin(SetCtleFixed(p), [asked EXCEPT ![p].dfe = "off", ![p].ctle = "fixed"])
    BY <1>9 DEF IoctlCtleFixed
  <2> DEFINE s == SetCtleFixed(p)
             note == [asked EXCEPT ![p].dfe = "off", ![p].ctle = "fixed"]
  <2>2. Wide(Now) /\ Agree(Now, asked)
    BY <2>1, SettledNow DEF Begin
  <2>3. s # <<>> => \E k : Leads(s, Now, k) /\ Wide(k) /\ Agree(k, note)
    BY <1>0, <2>2, CtleFixedLeads
  <2>4. NotesOK(note)
    BY <1>0, NotesStay
  <2> HIDE DEF s, note
  <2>5. Begin(s, note)
    BY <2>1 DEF s, note
  <2> QED BY <2>3, <2>4, <2>5, BeginLeads
<1>10. CASE IoctlSpeedChange
  <2>1. PICK v \in Speeds : Begin(SetPciSpeed(v), asked)
    BY <1>10 DEF IoctlSpeedChange
  <2>2. ConfigRegs \cap SettingRegs = {}
    BY DEF ConfigRegs, SettingRegs
  <2>3. SetPciSpeed(v) # <<>> => Keeps(SetPciSpeed(v))
    BY <2>2, SpeedIs, KeepsOther
  <2> QED BY <2>1, <2>3, BeginKeeps
<1> QED BY <1>2, <1>3, <1>4, <1>5, <1>6, <1>7, <1>8, <1>9, <1>10 DEF LaneNext

\* Between ioctls every lane and every core of a port holds the transmitter
\* and equalizer settings last asked for it, whatever was asked for the other
\* ports in between and whether or not lane changes wait for each other: no
\* write of tc956xmac_pcie_set_tx_margin, _set_tx_deemphasis, _set_dfe or
\* _set_ctle_fixed reaches a lane or core left selected, and none misses its own.
THEOREM SettingsAsAsked == LaneSpec => []AsAsked
<1>1. LaneSpec => []AskInv
  BY AskInit, AskNext, PTL DEF LaneSpec
<1>2. AskInv => AsAsked
  BY AskedOf
<1> QED BY <1>1, <1>2, PTL
=============================================================================
