----------------------------- MODULE Lifecycle -----------------------------
(***************************************************************************)
(* Probe, open, release, suspend, resume and remove of one port: what each *)
(* of them acquires and releases, in which order, and what is undone when  *)
(* a step fails.                                                           *)
(*                                                                         *)
(* A function of the driver is the sequence of its steps, and the stack    *)
(* holds what the running functions have still to do.  A step that can     *)
(* fail carries the steps that its goto label leads to.                    *)
(***************************************************************************)
EXTENDS Integers, Sequences

CONSTANTS Queues,   \* DMA channels of each direction
          MaxCalls,   \* calls from the bus, the user and the PM core
          Lost,     \* register settings that D3 loses
          LifeFaults    \* classes of failure that may occur besides "any"

ASSUME QueuesAssumption == Queues \in Nat \ {0}
ASSUME BoundAssumption == MaxCalls \in Nat

VARIABLES ptr,      \* what the driver's pointer to a resource is
          regs,     \* settings the chip holds
          stack, ret,
          bound, up, present, powered,
          dma,      \* the DMA channels run
          port, calls

lifeVars == <<ptr, regs, stack, ret, bound, up, present, powered, dma, port, calls>>

R(name) == <<name, 0>>
Bars == {R("bar0"), R("bar2"), R("bar4")}
PciRes == Bars \cup {R("device"), R("regions"), R("msi")}
DvrRes == {R("mac_table"), R("vlan_table"), R("napi"), R("mdio"),
           R("phylink"), R("netdev")}
RingRes == {"pool", "bufs", "rx_desc", "pages", "skb_dma", "skb", "tx_desc"}
             \X (1..Queues)
OpenRes == RingRes \cup {R("phy"), R("irq"), R("polling")}
Res == PciRes \cup DvrRes \cup OpenRes \cup {R("ptp")}
Live == {r \in Res : ptr[r] = "live"}

(***************************************************************************)
(* Steps                                                                   *)
(***************************************************************************)
Step(op, r, class, alt) == [op |-> op, res |-> r, class |-> class, alt |-> alt]
\* Acquire; a failure of the class leads to alt and makes the result an error.
Get(r, class, alt) == Step("get", r, class, alt)
\* A failed acquisition that is reported as success, or not at all.
GetQuiet(r, class) == Step("quiet", r, class, <<>>)
GetOptional(r) == Step("optional", r, "any", <<>>)
\* Release what is held; release if the pointer is not NULL.
Put(r) == Step("put", r, "", <<>>)
Drop(r) == Step("drop", r, "", <<>>)
Do(what) == Step(what, R("none"), "", <<>>)
May(what, class, alt) == Step(what, R("none"), class, alt)
Set(setting) == Step("set", R(setting), "", <<>>)
\* A setting whose failure is not looked at.
SetQuiet(setting, class) == Step("set", R(setting), class, <<>>)
Hold(setting) == Step("unset", R(setting), "", <<>>)

\* F(1) \o ... \o F(Queues), where all have the length of F(1).
PerQueue(F(_)) ==
  LET k == Len(F(1))
  IN [i \in 1..k * Queues |-> F(((i - 1) \div k) + 1)[((i - 1) % k) + 1]]

(***************************************************************************)
(* Rings                                                                   *)
(***************************************************************************)
FreePages(q) == Step("free_pages", <<"pages", q>>, "", <<>>)
FreeRxDesc ==
  PerQueue(LAMBDA q : <<FreePages(q), Drop(<<"rx_desc", q>>),
                        Drop(<<"bufs", q>>), Drop(<<"pool", q>>)>>)
FreeSkbs(q) == Step("free_skbs", <<"skb", q>>, "", <<>>)
FreeTxDesc ==
  PerQueue(LAMBDA q : <<FreeSkbs(q), Drop(<<"tx_desc", q>>),
                        Drop(<<"skb_dma", q>>), Drop(<<"skb", q>>)>>)
FreeDesc == FreeRxDesc \o FreeTxDesc

DmaDescError == <<Put(R("phy"))>>
InitError == FreeDesc \o DmaDescError
AllocRxDesc ==
  LET Or(r) == Get(r, "alloc", FreeRxDesc \o DmaDescError)
  IN PerQueue(LAMBDA q : <<Or(<<"pool", q>>), Or(<<"bufs", q>>),
                           Or(<<"rx_desc", q>>)>>)
\* What was allocated for reception is not given back.
AllocTxDesc ==
  LET Or(r) == Get(r, "alloc", FreeTxDesc \o DmaDescError)
  IN PerQueue(LAMBDA q : <<Or(<<"skb_dma", q>>), Or(<<"skb", q>>),
                           Or(<<"tx_desc", q>>)>>)
\* A slot gets no page: the slots before it are freed, in every queue, but
\* the first page of a slot whose second could not be had stays.
FillFails(q, kept) ==
  [r \in Res |-> IF r = <<"pages", q>> THEN kept
                 ELSE IF r[1] = "pages" /\ r[2] < q THEN "null" ELSE ptr[r]]
Fill(q) == Step("fill", <<"pages", q>>, "any", InitError)
InitRings == PerQueue(LAMBDA q : <<Fill(q)>>) \o <<Do("clear_tx")>>

(***************************************************************************)
(* Open and release                                                        *)
(***************************************************************************)
HwSetup ==
  <<May("reset_dma", "any", InitError), Do("setup_mac"),
    GetOptional(R("ptp")), Do("start_dma")>>
IrqError == <<Do("phylink_stop"), Do("del_timers")>> \o InitError
Open ==
  <<Get(R("phy"), "any", <<>>)>> \o AllocRxDesc \o AllocTxDesc \o InitRings
    \o HwSetup
    \o <<Do("setup_msi"), Do("phylink_start"), Get(R("irq"), "irq", IrqError),
         Get(R("polling"), "never", <<>>)>>
\* Mutant: the rings are freed before the channels are stopped.
Release_FreeFirst ==
  <<Do("phylink_stop"), Put(R("phy")), Put(R("polling")), Do("del_timers"),
    Put(R("irq"))>>
    \o FreeDesc \o <<Do("stop_dma"), Do("mac_off"), Drop(R("ptp"))>>
Release ==
  <<Do("phylink_stop"), Put(R("phy")), Put(R("polling")), Do("del_timers"),
    Put(R("irq")), Do("stop_dma")>>
    \o FreeDesc \o <<Do("mac_off"), Drop(R("ptp"))>>
\* dev_open of the stack, in frames of their own, and dev_close.
DevOpen == <<Open, <<Do("opened")>>>>
DevClose == <<Do("closing")>> \o Release

(***************************************************************************)
(* Probe and remove                                                        *)
(***************************************************************************)
IfPort0(steps) == IF port = 0 THEN steps ELSE <<>>
LoadFirmware == <<Set("firmware")>>
ConfigTamap == <<Set("tamap")>>
\* The MAC is held in reset while its clocks and its interface are set.
StartEmac == <<Hold("emac"), Set("clocks"), Set("emac")>>
\* The PMA is set up in reset; INIT_DONE is awaited without an end.
SetupPcs == <<Hold("pcs"), Do("pma_setup"), Set("pcs"), Do("xpcs_init")>>

MdioError == <<Put(R("napi"))>>
PhyError == <<Put(R("mdio"))>> \o MdioError
NetdevError == <<Put(R("phylink"))>> \o PhyError
\* hw_init, the features and the DMA mask; the tables.
DvrProbeSetup ==
  <<May("hw_init", "any", <<>>), GetQuiet(R("mac_table"), "table"),
    GetQuiet(R("vlan_table"), "table"), Get(R("napi"), "never", <<>>)>>
DvrProbeRegister ==
  SetupPcs
    \o <<Get(R("mdio"), "late", MdioError), Get(R("phylink"), "late", PhyError),
         Get(R("netdev"), "late", NetdevError)>>
DvrProbe == DvrProbeSetup \o DvrProbeRegister

\* unregister_netdev closes the device first.
DvrRemove ==
  <<Do("stop_dma"), Do("mac_off"), Do("close_if_up"), Put(R("netdev")),
    Put(R("phylink")), Put(R("mac_table")), Put(R("vlan_table")),
    Put(R("mdio")), Do("firmware_exit")>>

ReqRegFailed == <<Put(R("device"))>>
MapFailed == <<Put(R("regions"))>> \o ReqRegFailed
Unmap == <<Put(R("bar4")), Put(R("bar2")), Put(R("bar0"))>> \o MapFailed
DvrProbeFailed == <<Drop(R("msi"))>> \o Unmap
PciProbeMap ==
  <<Get(R("device"), "any", <<>>), Get(R("regions"), "any", ReqRegFailed),
    Get(R("bar0"), "any", MapFailed),
    Get(R("bar2"), "any", <<Put(R("bar0"))>> \o MapFailed),
    Get(R("bar4"), "any", <<Put(R("bar0")), Put(R("bar2"))>> \o MapFailed)>>
\* The platform data cannot be allocated: nothing is undone.  Probe succeeds
\* also when the firmware cannot be loaded ("firmware").
PciProbeSetup ==
  <<May("platform_data", "setup", <<>>)>>
    \o IfPort0(<<Set("intc")>> \o ConfigTamap)
    \o <<Get(R("msi"), "any", DvrProbeFailed)>> \o IfPort0(<<SetQuiet("firmware", "firmware")>>)
PciProbe ==
  PciProbeMap \o PciProbeSetup \o StartEmac
    \o <<Step("call_probe", R("none"), "", DvrProbeFailed), Set("delays"),
         Do("probed")>>

\* devm frees the NAPI contexts with the net device.
PciRemove ==
  DvrRemove \o <<Put(R("msi"))>> \o Unmap \o <<Drop(R("napi")), Do("removed")>>

(***************************************************************************)
(* Suspend and resume                                                      *)
(***************************************************************************)
Suspend ==
  <<Do("eee_off"), Do("close_if_up"), Do("phylink_stop"), Do("detach"),
    Do("stop_dma")>>
PcieSuspend ==
  Suspend \o <<May("save_state", "pm", <<>>), May("power_off", "pm", <<>>)>>
\* Mutant: the PMA and the XPCS are left to the probe.
ResumeConfig_NoPcs == StartEmac
ResumeConfig == StartEmac \o SetupPcs
Resume ==
  IfPort0(<<May("load_firmware", "firmware", <<Set("delays")>>)>> \o LoadFirmware)
    \o <<Do("attach"), Do("reset_cursors"), Do("phylink_start"),
         Do("open_if_down")>>
PcieResume ==
  <<May("power_on", "pm", <<>>)>> \o IfPort0(ConfigTamap) \o ResumeConfig
    \o Resume \o <<Set("delays")>>

(***************************************************************************)
(* Execution                                                               *)
(***************************************************************************)
Top == Head(stack)[1]
Without(frame, below) == IF frame = <<>> THEN below ELSE <<frame>> \o below
Continue == Without(Tail(Head(stack)), Tail(stack))
Enter(program) == <<program>> \o Continue
Abandon(alt) == Without(alt, Tail(stack))

Uncleared == (RingRes \ {<<"pages", q>> : q \in 1..Queues})
               \cup {R("mac_table"), R("vlan_table")}
Freed(r) == IF r \in Uncleared THEN "stale" ELSE "null"

StepGet ==
  /\ Top.op \in {"get", "quiet", "optional"}
  /\ ptr' = [ptr EXCEPT ![Top.res] = "live"]
  /\ stack' = Continue
  /\ UNCHANGED <<regs, ret, bound, up, present, powered, dma>>
MayFail(class) == class = "any" \/ class \in LifeFaults
\* The quiet failure of the second table frees the first.
StepGetFails ==
  /\ Top.op \in {"get", "quiet", "optional"} /\ MayFail(Top.class)
  /\ ptr' = [r \in Res |-> IF r = Top.res THEN "null"
                          ELSE IF r = R("mac_table") /\ Top.res = R("vlan_table")
                               THEN "stale" ELSE ptr[r]]
  /\ stack' = IF Top.op = "optional" THEN Continue ELSE Abandon(Top.alt)
  /\ ret' = IF Top.op = "get" THEN "err" ELSE ret
  /\ UNCHANGED <<regs, bound, up, present, powered, dma>>
StepFails ==
  /\ Top.op \notin {"get", "quiet", "optional", "fill", "set"} /\ MayFail(Top.class)
  /\ stack' = Abandon(Top.alt) /\ ret' = "err"
  /\ UNCHANGED <<ptr, regs, bound, up, present, powered, dma>>
StepRelease ==
  /\ Top.op \in {"put", "drop"}
  /\ ptr' = [ptr EXCEPT ![Top.res] = IF @ = "live" THEN Freed(Top.res) ELSE @]
  /\ stack' = Continue
  /\ UNCHANGED <<regs, ret, bound, up, present, powered, dma>>
StepPages ==
  /\ stack' = Continue
  /\ \/ Top.op = "free_pages" /\ ptr' = [ptr EXCEPT ![Top.res] = "null"]
     \/ Top.op \in {"free_skbs", "clear_tx"} /\ UNCHANGED ptr
     \/ Top.op = "fill" /\ ptr' = [ptr EXCEPT ![Top.res] = "live"]
  /\ UNCHANGED <<regs, ret, bound, up, present, powered, dma>>
StepFillFails ==
  /\ Top.op = "fill"
  /\ \E kept \in {"null", "live"} : ptr' = FillFails(Top.res[2], kept)
  /\ stack' = Abandon(Top.alt) /\ ret' = "err"
  /\ UNCHANGED <<regs, bound, up, present, powered, dma>>
StepChip ==
  /\ stack' = Continue
  /\ \/ /\ Top.op = "set"
        /\ \/ regs' = regs \cup {Top.res[1]}
           \/ Top.class \in LifeFaults /\ regs' = regs
        /\ UNCHANGED <<powered, dma>>
     \/ /\ Top.op = "unset" /\ regs' = regs \ {Top.res[1]}
        /\ UNCHANGED <<powered, dma>>
     \/ /\ Top.op = "start_dma" /\ dma' = TRUE /\ UNCHANGED <<regs, powered>>
     \/ /\ Top.op = "stop_dma" /\ dma' = FALSE /\ UNCHANGED <<regs, powered>>
     \/ /\ Top.op = "power_off" /\ powered' = FALSE /\ regs' = regs \ Lost
        /\ UNCHANGED dma
     \/ /\ Top.op = "power_on" /\ powered' = TRUE /\ UNCHANGED <<regs, dma>>
  /\ UNCHANGED <<ptr, ret, bound, up, present>>
\* Settings of a step that no other step here depends on.
ChipOnly == {"reset_dma", "setup_mac", "mac_off", "setup_msi", "hw_init",
             "pma_setup", "xpcs_init", "eee_off", "load_firmware",
             "firmware_exit"}
StepOther ==
  /\ Top.op \in ChipOnly \cup {"phylink_start", "phylink_stop", "del_timers",
                              "reset_cursors", "platform_data", "save_state"}
  /\ stack' = Continue
  /\ UNCHANGED <<ptr, regs, ret, bound, up, present, powered, dma>>
\* The flags of the net device and of the driver core.
StepFlags ==
  /\ stack' = Continue
  /\ \/ Top.op = "opened" /\ up' = (ret = "ok") /\ UNCHANGED <<bound, present>>
     \/ Top.op = "closing" /\ up' = FALSE /\ UNCHANGED <<bound, present>>
     \/ Top.op = "detach" /\ present' = FALSE /\ UNCHANGED <<bound, up>>
     \/ Top.op = "attach" /\ present' = TRUE /\ UNCHANGED <<bound, up>>
     \/ Top.op = "probed" /\ bound' = TRUE /\ UNCHANGED <<up, present>>
     \/ Top.op = "removed" /\ bound' = FALSE /\ UNCHANGED <<up, present>>
  /\ UNCHANGED <<ptr, regs, ret, powered, dma>>
StepCall ==
  /\ \/ /\ Top.op = "close_if_up"
        /\ stack' = IF up THEN Enter(DevClose) ELSE Continue
        /\ UNCHANGED ret
     \/ /\ Top.op = "open_if_down"
        /\ stack' = IF up THEN Continue
                    ELSE DevOpen \o Continue
        /\ ret' = "ok"
     \/ /\ Top.op = "call_probe"
        /\ stack' = <<DvrProbe, <<[Top EXCEPT !.op = "probe_returned"]>>
                                   \o Tail(Head(stack))>>
        /\ ret' = "ok"
     \/ /\ Top.op = "probe_returned"
        /\ stack' = IF ret = "ok" THEN Continue ELSE Abandon(Top.alt)
        /\ UNCHANGED ret
  /\ UNCHANGED <<ptr, regs, bound, up, present, powered, dma>>
Run ==
  /\ stack # <<>>
  /\ \/ StepGet \/ StepGetFails \/ StepFails \/ StepRelease \/ StepPages
     \/ StepFillFails \/ StepChip \/ StepOther \/ StepFlags \/ StepCall
  /\ UNCHANGED <<port, calls>>

(***************************************************************************)
(* Calls from outside, one at a time                                       *)
(***************************************************************************)
Call(frames) ==
  /\ stack = <<>> /\ calls < MaxCalls
  /\ calls' = calls + 1 /\ stack' = frames /\ ret' = "ok"
  /\ UNCHANGED <<regs, bound, up, present, powered, dma, port>>
\* The private data is new and zero.
CallProbe ==
  /\ ~bound /\ Call(<<PciProbe>>)
  /\ ptr' = [r \in Res |-> IF ptr[r] = "stale" THEN "null" ELSE ptr[r]]
CallRemove == bound /\ powered /\ Call(<<PciRemove>>) /\ UNCHANGED ptr
CallOpen ==
  /\ bound /\ ~up /\ present
  /\ Call(DevOpen) /\ UNCHANGED ptr
CallClose == bound /\ up /\ present /\ Call(<<DevClose>>) /\ UNCHANGED ptr
CallSuspend == bound /\ powered /\ Call(<<PcieSuspend>>) /\ UNCHANGED ptr
CallResume == bound /\ ~powered /\ Call(<<PcieResume>>) /\ UNCHANGED ptr

LifeInit ==
  /\ ptr = [r \in Res |-> "null"] /\ regs = {}
  /\ stack = <<>> /\ ret = "ok"
  /\ bound = FALSE /\ up = FALSE /\ present = TRUE /\ powered = TRUE
  /\ dma = FALSE /\ port \in {0, 1} /\ calls = 0
LifeNext ==
  \/ Run \/ CallProbe \/ CallRemove \/ CallOpen \/ CallClose
  \/ CallSuspend \/ CallResume
LifeSpec == LifeInit /\ [][LifeNext]_lifeVars

(***************************************************************************)
(* Properties                                                              *)
(***************************************************************************)

Needed == {"clocks", "emac", "pcs", "delays"}
            \cup (IF port = 0 THEN {"tamap", "firmware"} ELSE {})
\* Between calls the driver holds exactly what its state says, whichever
\* steps of probe, open, suspend or resume failed on the way: nothing when
\* it is not bound, the rings, the PHY and the interrupt only while the
\* interface is up; the channels run only then; and a device that has
\* power has back all the settings that probe made.
AtRest ==
  stack = <<>> =>
    /\ ~bound => Live = {} /\ ~dma
    /\ (bound /\ ~up) => Live = PciRes \cup DvrRes /\ ~dma
    /\ (bound /\ up) => Live \ {R("ptp")} = PciRes \cup DvrRes \cup OpenRes /\ dma
    /\ bound => /\ present = powered
                /\ powered => Needed \subseteq regs

Rings(names) == names \X (1..Queues)
\* What the release of a resource goes through.
Behind(r) ==
  CASE r[1] \in {"phy", "netdev"} -> {R("phylink"), R("mdio")}
    [] r = R("msi") -> {R("device")}
    [] r \in Bars -> {R("regions")}
    [] OTHER -> {}
\* What a step dereferences, unregisters or writes to.
Uses(s) ==
  CASE s.op = "put" -> {s.res} \cup Behind(s.res)
    [] s.op = "get" /\ s.res[1] = "phy" -> {R("phylink"), R("mdio"), R("netdev")}
    [] s.op \in {"free_pages", "fill"} -> {<<"bufs", s.res[2]>>}
    [] s.op = "free_skbs" -> {<<"skb_dma", s.res[2]>>, <<"skb", s.res[2]>>}
    [] s.op = "clear_tx" -> Rings({"skb_dma", "skb", "tx_desc"})
    [] s.op = "start_dma" -> Bars \cup RingRes
    [] s.op \in ChipOnly \cup {"set", "unset", "stop_dma"} -> Bars
    [] s.op \in {"phylink_start", "phylink_stop"} -> {R("phylink")}
    [] OTHER -> {}

\* No step uses what is not there yet or any more: a register while the
\* BARs are unmapped or the power is off, the MAC while it or its PCS is in
\* reset, a page or an skb through a table that was freed; and nothing is
\* freed twice.  The rings stay while the DMA channels, the interrupt
\* handler or the polls can reach them.
StepSafe ==
  /\ stack # <<>> =>
       /\ Uses(Top) \subseteq Live
       /\ Top.op = "drop" => ptr[Top.res] # "stale"
       /\ Top.op \in ChipOnly \cup {"set", "unset", "start_dma", "stop_dma"} => powered
       /\ Top.op \in {"reset_dma", "setup_mac", "start_dma"} => Needed \ {"delays"} \subseteq regs
  /\ (dma \/ {R("irq"), R("polling")} \cap Live # {}) => RingRes \subseteq Live
  /\ ~powered => ~dma
============================================================================
