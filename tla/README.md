# TLA+ models of the TC956X Ethernet driver

This directory holds TLA+ specifications of the Linux driver for Toshiba's TC956X
PCIe Ethernet bridge (`src/`, derived from stmmac / DWXGMAC), TLC configurations
that check them on small instances, and TLAPS proofs of the central ones for
every instance. The build modelled is the default one: `TC956X` and
`TC956X_UNSUPPORTED_UNTESTED_FEATURE` defined, `TC956X_UNSUPPORTED_UNTESTED`
not (so there is no service task and no reset subtask), `DMA_OFFLOAD_ENABLE`
off, split header off. `Selftests` and the two IPA calls in `Parser` are the
exceptions: they are compiled only when the build asks for them
(`TC956XMAC_SELFTESTS=1`, `DMA_OFFLOAD=1`).

    tlc -workers 2 -config MCTxRing.cfg MCTxRing.tla     # one of the runs below
    tlapm TxRingProofs.tla                               # and each *Proofs module

`PROJECT.json` lists the runs, the mutants that show each property can fail,
the source lines every definition stands for, the hazards and the theorems.

## 1. The system

### Components

| Component | State it keeps | Operations | Correct when |
|---|---|---|---|
| TX ring (`tc956xmac_main.c`: xmit, tso_xmit, tx_clean, tx_err) | descriptors with OWN, `tx_skbuff[]`, `tx_skbuff_dma[]`, `cur_tx`, `dirty_tx`, `mss`, queue stop state | send a plain or TSO frame, clean, reset a channel, unwind a failed DMA mapping | cursors never lap; every skb is freed once, in order; every mapping is undone once; the engine never waits for a descriptor nobody will grant; a stopped queue is woken |
| RX ring (rx, rx_refill) | descriptors, pages, `cur_rx`, `dirty_rx`, frame saved between polls | poll, refill, close and open | frames reach the stack whole; a descriptor is the engine's only with a page; every descriptor is recycled, also when memory runs short |
| Interrupt, NAPI, TX timer (interrupt, napi_check, napi_poll_rx/tx, tx_timer, dma_interrupt) | DMA status and enable registers, NAPI state, timer, MSI mask | handler, poll, timer, enable and disable under `ch->lock` | no interrupt stays off, no work is forgotten, nothing runs after release |
| Filters (`dwxgmac2_core.c`, set_rx_mode, vlan_rx_add/kill_vid) | `mac_table`, `vlan_table`, filter registers; the stack's lists with their sync counts | synchronise, add, delete | every wanted address or id is accepted; stack, table and registers agree |
| Open / release, DMA resources | rings, buffers, IRQ, timers, phylink, clocks | open with three error labels, release, alloc / free of rings | whatever was taken is given back once on every path; nothing is reached through a table that is gone |
| Probe / remove, suspend / resume (main, `tc956x_pci.c`) | BARs, MSI, tables, MDIO, phylink, net device; settings of the chip | probe, remove, PCI power callbacks | the driver holds what its state says; what D3 loses is set again before it is needed |
| PCIe links (`tc956xmac_main.c` 6537 - 8308, `tc956x_pci.c` 1550 - 1695) | PHY cores and lanes, access masks, width requests, ASPM | seven kinds of ioctl | a write reaches the cores and lanes it is meant for; a lane is awake before it is used; links retrain with ASPM off |
| RX parser (`tc956xmac_tc.c`, `dwxgmac2_core.c`) | `tc_entries`, parser table, `rxp_cfg` | replace / delete a u32 rule, whole table by ioctl or IPA, open | the parser's verdict on every frame is that of the rules; no entry is leaked |
| Flower rules | `flow_entries`, layer 3 and 4 filters | add, delete, open | one filter per rule, with its matches and no others |
| CBS, taprio, ETF, EST, FPE | `plat->est`, slopes, registers | set by tc or ioctl, link speed, open | the hardware does what was asked for last; the ioctls report it, but for shapers tc has set since |
| Link and EEE (phylink callbacks, XPCS) | speed in MAC, bus and XPCS, page register, eee timer, LPI | mac_config, link up / down, open, release, set_eee, tx_clean, xmit | every place has the speed of the link once autonegotiation has completed; the timer has one owner |
| Self-tests (`tc956xmac_selftests.c`) | loopbacks, filter entries, handler | a run of thirteen tests | the verdicts are true and nothing is left behind |
| PTP clock (`tc956xmac_ptp.c`, `tc956xmac_hwtstamp.c`) | control word, update, addend and increment registers, `default_addend`, time stamping flags, `ptp_lock` | adjfreq, adjtime, set / get time, launch time in xmit, open, hwtstamp_set, PPS and clock ioctls | no adjustment is lost or made twice; rate and increment belong together; a reading is true across a rollover |
| PHY, PMA; MDIO; remaining ioctls; ethtool; MMC; safety; IPA channels; PCIe log | registers mostly | see `PROJECT.json` | - |

### How they interact

* The stack calls **xmit** under the netdev tx lock. xmit fills descriptors,
  grants them with OWN, writes the tail register and arms the **tx timer**.
* The **engine** walks granted descriptors on its own and raises TI only for
  frames with IC set (one in 64), RI through its watchdog.
* The single MSI vector runs the **interrupt handler**, which for each channel
  reads and clears the status, turns the direction's interrupt off under
  `ch->lock` and schedules its **NAPI**. The timer does the same without an
  interrupt. The poll turns the interrupt on again after `napi_complete_done`.
  INT_EN of a channel is one register for both directions.
* **tx_clean** takes the same tx lock as xmit; **tx_err**, called by the handler,
  does not.
* **open / release** order all of these; the interrupt is requested before NAPI
  is enabled and with the DMA running.
* The stack's address lists are synchronised by callbacks into **Filters**, which
  outlive the registers: the MAC is reset at open, the tables are not. The same
  holds of the parser's entries, the flow entries, the schedule and the shapers;
  open writes some of them again (`hw_setup`) and not others.
* The **PTP clock** callbacks and xmit take `ptp_lock` around the clock's registers;
  open, which is also what a resume comes to, and the ioctls program the same
  registers under RTNL alone.
* tc, ioctls, ethtool, open and release are serialised by the **RTNL lock**; the
  link worker of phylink, the polls and the timers are not.
* **suspend / resume** go through close and open of the net device, with the chip
  losing its registers in between.

### What is hard

Interleaving of the engine, the handler (no tx lock), the polls, the timer and
xmit; cursor arithmetic modulo the ring with frames of variable size; failures
half-way (DMA mapping, page and skb allocation, full tables); a frame that
straddles two polls; interrupts turned off by one party and on by another; the
order of teardown; registers lost at reset while software state survives; two
users of one table or schedule; registers that are windows on others (the
access masks of the PCIe PHY, the page register of the XPCS); a control word whose
command bits the hardware clears while callers write it back; goto chains that
must undo what was done and no more.
`PROJECT.json` lists these as hazards with their lines and properties.

## 2. Modules

| Module | Models | Used by |
|---|---|---|
| `TxRing` | one transmit queue, descriptor by descriptor | `TxRingFifo` |
| `TxFifo` | abstract: what a transmit queue promises the stack | `TxRingFifo` |
| `TxRingFifo` | refinement mapping of `TxRing` to `TxFifo` | `MCTxRing`, `TxRingProofs` |
| `MCTxRing` | instances: frame shapes computed from sizes | runs `tx_*` |
| `TxRingProofs` | TLAPS proofs about `TxRing` and `TxRingFifo` | - |
| `RxRing`, `MCRxRing` | one receive queue | runs `rx_*`, `RxRingProofs` |
| `RxRingProofs` | TLAPS proofs about `RxRing` | - |
| `IrqNapi`, `MCIrqNapi` | handler, NAPI, timer, open and release | runs `irq_*`, `IrqNapiProofs` |
| `IrqNapiProofs` | TLAPS proofs about `IrqNapi` | - |
| `Filters`, `MCFilters` | MAC address and VLAN filters | runs `filters*`, `FiltersProofs` |
| `FiltersProofs` | TLAPS proofs about `Filters` | - |
| `PcieLane` | the PCIe ioctls, register write by register write | `MCPower`, `PcieLaneProofs` |
| `PcieLaneProofs` | TLAPS proofs about `PcieLane` | - |
| `Lifecycle` | probe, open, release, suspend, resume, remove, step by step | `MCPower`, `LifecycleProofs` |
| `LifecycleProofs` | TLAPS proofs about `Lifecycle` | - |
| `MCPower` | `PcieLane` and `Lifecycle` side by side | run `power` |
| `Parser` | u32 rules, whole tables and the receive parser | `MCControl`, `ControlProofs` |
| `Flows` | flower rules and the layer 3 and 4 filters | `MCControl`, `ControlProofs` |
| `Gates` | gate lists, preemption, shapers, launch times | `MCControl`, `ControlProofs` |
| `Link` | phylink callbacks, XPCS, EEE | `MCControl`, `LinkProofs` |
| `Selftests` | the self-tests, loopbacks and filter entries | `MCControl`, `ControlProofs` |
| `ControlProofs` | TLAPS proofs about `Parser`, `Flows`, `Gates`, `Selftests` and `Ptp`, and about `MCControl` as a whole | - |
| `LinkProofs` | TLAPS proofs about `Link` | - |
| `Ptp` | the PTP clock, access by access, and launch times | `MCControl`, `ControlProofs` |
| `MCControl` | the six above side by side | run `control` |

The parts of `MCPower`, and those of `MCControl`, share no variable, and no
property speaks of two of them: a behaviour picks one part (`part`) and moves only
that, so that one run checks each on its own without multiplying their states.

### TxRing and the code

A step fills one descriptor, so that the engine (`DmaStep`), the hard interrupt
(`TxErr`) and a failing mapping (`XmitMapErr`) fall between any two. `pc` says
what the holder of the tx lock does next. `XmitStart`, `XmitCtx`, `XmitVlan`,
`XmitTsoHead`, `XmitSeg`, `XmitPost` and `XmitGrant` follow xmit and tso_xmit
from the availability test to the tail write; `CleanStart`, `CleanEntry`,
`CleanEnd` follow tx_clean. An skb is a model value; the frame has a *shape*
(TSO or not, VLAN tag, gso_size, fragments, descriptors). `buf` says what
`tx_skbuff_dma[].buf` names: nothing, a live mapping, or one already undone.
`live` and `dma_debug` are history: which skbs the driver owns, and which
misuses of the mapping API have happened.

### RxRing and the code

`RxDiscard`, `RxSegment`, `RxDrain` and `RxBreak` are the ways through one
iteration of rx's loop; `RefillOne` is one of rx_refill's. `state_saved` and
`state_skb` are `rx_q->state`. `HwFill` writes back one descriptor of a frame;
`HwSuspend` stops at a descriptor it does not own and `IrqRxOverflow` writes the
tail as the MTL overflow interrupt does. `Reopen` is release followed by open,
which leaves `rx_q->state` alone.

### IrqNapi and the code

Rings are counters here: `inflight`, `done`, `received`. A read-modify-write of
DMA_CH_INT_EN is two steps with the lock in between (`LockRead`, `DisableIrq`,
`EnableIrq`). The handler is a sequence over channels and directions (`IsrStatus`
to `IsrUnmask`), a poll is its work, `napi_complete_done` and the tail that turns
the interrupt on, the timer is `TimerFire` to `TimerWrite`. `dev` follows open and
release step by step. `owned` and `faults` are chosen in the initial state and
never change, so one run covers several platforms.

### Filters and the code

`ChangeRxMode` is a change of the lists or flags with the call of set_rx_mode;
`Unsync`, `SyncAdd`, `SyncFull` and `SyncDone` are the callbacks of `__dev_uc_sync`
and `__dev_mc_sync` (external: modelled from the kernel's contract: stale entries
first, then new ones until one fails; uc, then mc). `mac_table` is the software
table, `mac_reg` the registers, `synced` the stack's `sync_cnt`. `VlanAddVid` and
`VlanKillVid` go through the table and the data register `vlan_data`, into which
`tc956x_vlan_addr_reg` ors. A VLAN id is the set of its one bits, so that "or" is
union.

### PcieLane and the code

An ioctl is the sequence of its register writes (`W`), taken one by one by
`DoWrite`; `sel` and `acc` are the core select and lane access registers, and a
write acts on the cores and lanes they hold at that moment. `LinkRetrains` lets the
switch act on a width request between any two writes. Both lane accesses are
assumed open at reset. `asked` is history: the last setting asked of each port.

### Lifecycle and the code

A function is the sequence of its steps; `stack` holds what the running
functions still have to do, `dev_open` included. `Get` acquires a resource, and
carries the steps of the goto label its failure leads to; `Put` and `Drop` release;
`Set` and `Hold` are settings of the chip, of which `power_off` loses `Lost`. A pointer
is null, live, or stale when the code frees without clearing it, which is what the
next error path trips over. `GetQuiet` and `SetQuiet` may fail without telling: the tables,
and the firmware at probe, where the result of the load is only logged. Either port, one per behaviour; `port = 0` also
has the firmware and the translation table.

### Parser and the code

`ent` is `priv->tc_entries`, `frp` the hardware: on, receiver on, the instructions.
`FillEntry`, `UnfillEntry` and `RxpConfig` translate tc_fill_entry, tc_unfill_entry
and dwxgmac3_rxp_config. The table is given by positions: `Place` counts the
instructions of the entries dwxgmac3_rxp_get_next_entry returns `Sooner`, two
(`Halves`) for one with a fragment. A frame is the set of match halves it meets, so that
`Verdict` runs the instruction table on every possible frame and the property
compares it with the rules. That a frame that misses an inverted instruction goes
to `ok_index` is taken from the layout the code writes. With the code's comparison
of `frpes` (tc.c:309) only the field value 3 gives u32 entries; `field` takes all
four.

### Flows and the code

Entry i owns filter i. A filter access is up to two waits and a write; `State`
counts the accesses left before the filter stays busy, so that a call may stop
after any of them. `Layer3`, `Layer4` keep the bits the code keeps. `MCRules` leaves
out rules with one address and a port and SCTP rules, which take the same
branches. A rule that gives no protocol ("none") leaves the entry's as it is, one that
gives protocol 0 ("any") writes it and is a rule the code accepts (tc.c:448-453).

### Gates and the code

A gate list, a slope and a time are values; `hwEst`, `hwFpe`, `hwCbs` are what the
registers do, `estAsked`, `fpeAsked`, `cbsAsked` what the last call that succeeded
asked for. `EstConfigure` stands for the list write, the bank switch and the
enable bit. tc and the ioctl share the slopes in force, not the table by speed the
ioctl keeps and reports: `tcShaped` names the queues tc was the last to shape. For
those IoctlGetCbs reports what the ioctl was given before (tc.c:382 admits as much),
so that `GatesInStep` compares its report with the registers for all others.
`ShaperFits` is what a change of speed must leave right: tc scales its slopes for 100
and for any other speed.

### Link and the code

Three actors, each a list of steps still to take: the worker of phylink, holders
of the RTNL lock, and the poll. An XPCS access is two steps, the page and the
register in its window. In the run the actors do not overlap, since `race` breaks
both properties (section 5); every order of whole calls is taken.

Behind an XPCS, mac_config first reads whether autonegotiation has completed
(`StepTest`, main.c:1293). If it has, the mark is cleared and the speed goes to the XPCS
(USXGMII only), priv->speed, the MAC and NEMACCTL (`AnTested`, `XpcsSpeed`, `Speeds`);
if not, only priv->speed is set and the hardware stays at the last speed. `AnCompletes`
may come at any time while autonegotiation is on, and nothing else of the driver clears
the mark. `early` remembers a report that came before, for which `LinkAgrees` asks no more
of the hardware: phylink does not call mac_config again until the speed changes.
hw_setup sets the port's speed and turns the MAC on at open, before there is a link.
The mac_config with which phylink_start begins has no speed known yet and is left out, as
are duplex and flow control.

### Ptp and the code

A call is the list of register accesses it has still to make, taken one by one by
any caller (`todo`); `Command` is the read-modify-write and the polling that
init_systime, config_addend and adjust_systime share. `tcr` is PTP_TCR: enable,
filter and the three command bits, which only `Obey`, the hardware, clears. `asked`
is history: the time the calls made so far ask for, ticks included. PTP_STSUR and
PTP_STNSUR are one value, and so are the parts of the reading: a second has
`SecLen` ticks and a presentation time repeats after `Turn` of them. Setting the
clock takes no time, reading it less than a second, and the hardware obeys a
command whether or not the clock is enabled. A suspend closes the interface
(main.c:9835), which unregisters the clock, and the resume opens it again, so that a
sleep is `PtpRelease` and `PtpOpen`. `LaunchTime` is xmit's arithmetic, in two
parts: `LaunchLt` completes the presentation time, with the comparison of a 64-bit long (on a
32-bit build the subtraction at main.c:4405 may wrap), and `Launch` is what the
descriptor is given, which keeps the seconds modulo `SecTurn` = 256 (main.c:4413).
`ClockKept` speaks of the moments when no call is under way; `PtpFaults` says
whether a caller without the lock may meet one with it (section 5).

### Selftests and the code

`SelftestList` is the list of tests ethtool runs. `SetLoopback`, `BeginTest`,
`SendFrame`, `TestEnds`, `AfterTest` follow a test through its loopback, filter
entries, frames and cleanup, each of which may fail. `faulty` is the feature of
the device that does not work (at most one); `AddrPasses`, `VidPasses` and
`Carried` say what such a device does to a frame. Frames are not lost, and one
candidate stands for the 255 addresses a test tries.

The filters are the driver's. The perfect table has `PerfectSlots` slots (29, common.h:161);
with more addresses on the lists the MAC receives all (`Overflow`), and the address
tests, which look only at the counts of the device (selftests.c:500), fail although
nothing is wrong. `vidData` is the data register of the VLAN filter, into which an id is
ored, and `vidReg` what the filter of the tests' id was given: when another id came
first it is the two merged, and neither passes (run `filters_vlan` shows the same of the
driver alone). `SelftestTells` excuses just these two (`Excused`). The stack's entries are
the test's own address and id, one with the hash of the address that must be rejected,
that address itself, and another id. Hash filtering, which only an ioctl turns on, and
what the stack takes off its lists between runs are left out (`Filters` has the latter).

## 3. Runs

| Run | Instance | What it shows |
|---|---|---|
| `tx_ring` | N = 8, one fragment, 3 skbs, TSO and VLAN frames, fairness | no lap, skbs safe, mappings balanced, engine ready, delivery, wake-up, refinement of `TxFifo` |
| `tx_err` | N = 8, 2 skbs, plain frames and a TSO frame too large for an awake queue, tx_err between calls, failing mappings of a frame's first fragment | the cursors, skbs and the engine survive a channel reset |
| `tx_tso_overrun` | any TSO frame | **violation**: tso_xmit's test lets a frame run over `dirty_tx` |
| `rx_ring` | N = 5, budget 2, frames of up to 2 descriptors, fairness | frames whole, every descriptor recycled, a suspended engine resumed |
| `rx_short` | N = 6, one page missing | the engine owns only descriptors with a page, also when memory is short for a while |
| `irq_safety` | one channel with both directions; rx alone with a full ring and close / open; tx alone with bus errors, watchdog, safety interrupts, close / open | no lost interrupt, no unwatched frame, quiet after release, no spurious reset |
| `irq_live` | rx or tx with close / open, or rx with a full ring, beside a channel that is not the host's, fairness | received and sent frames are served |
| `irq_reset` | tx with a watchdog timeout | **violation**: a requested reset never happens |
| `filters` | 2 slots, 1 unicast and 3 multicast addresses, 3 VLAN slots and ids, close / open | addresses accepted, tables in step, fallback ends, ids counted |
| `filters_vlan` | as above | **violation**: the second VLAN id is merged with the first |
| `power` | PCIe: 4 ioctls, both strappings, links of unequal speed, two devices with ASPM; life: 2 queues, 8 calls, either port, every failure that is unwound right | writes reach what they are meant for, lanes awake in time, ASPM off and back; nothing leaked, freed twice or used when gone |
| `control` | parser: 3 handles, 2 priorities, up to 6 entries; flows: 3 rules, 2 filters; gates: 2 lists, 2 queues, 2 speeds; link: 3 interfaces, 4 speeds; self-tests: all; clock: 2 callers with 2 calls, 3 calls under RTNL, 1 tick | the hardware holds what was asked for last; the EEE timer has one owner; self-tests tell the truth, but with a full table or merged ids, and leave no trace; the clock keeps every shift and is read true |

`tx_err`, `rx_short` check only what their faults could break and the first run of
the module does not already show. That no WARN_ON fires and that a descriptor the
engine owns has a page follow from `SkbSafe` and `EngineOwnsPages`; the former is
a theorem.

### Bounds and why they are enough

* **Ring sizes.** xmit compares free descriptors with MAX_SKB_FRAGS + 1 and N / 4.
  N = 8 with one fragment keeps those proportions (threshold 2 = MaxFrags + 1,
  full ring, wrap-around, several frames in flight). The proofs remove the bound for
  every safety property of the two rings except the types of RxRing. For RX, N exceeds budget × longest frame, as 512
  exceeds 64 × 2; wrap-around and frames cut by a poll occur.
* **MaxWork = 1, Budget 1 or 2** in `IrqNapi`: what counts is zero, some, and as
  much as the budget.
* **Filters.** Two slots and four addresses give vacant, full and waiting; three
  ids over two bits give two ids whose union is a third. Constraint `Apart` (in
  `MCFilters`) keeps long address lists and used VLAN ids from being combined;
  both share only the VTFE bit, which no property of addresses reads. `Alike`
  makes multicast addresses interchangeable: nothing orders them.
* **Power.** Four ioctls are two settings of one port with one of each other port
  between or around them; the masks left by one show in the next. Two queues make
  a loop over queues fail in the first and in the second. Eight calls hold probe,
  open, suspend, resume, close, open, close, remove.
* **Control.** Two perfect slots are left full by two of the stack's addresses and
  overflow with a third or a test's. Three handles in four to six entries fill the table with and without
  fragments and leave holes; frames are all combinations of match halves. Three
  rules on two filters reuse a filter; each address alone, both, and a port
  beside an address occur. Two lists and two slopes tell old from new. Each
  interface has two of the speeds mac_config knows, in any order. Two callbacks are
  what a lost or doubled adjustment takes, with three calls under RTNL before,
  between and after: open, an ioctl, release. A second of two ticks and a turn
  of four, with the clock set to 3 and moved by -1, put both rollovers within one
  tick. The callers are interchangeable (`MCSymmetry`).
* `Calm` and the `Faults` constants name what the environment does not do in a
  run; see the table of section 5.

### Fairness

`TxRing!FairSpec`: whoever is inside xmit or tx_clean goes on; tx_clean is started
again and again, which `TxWatched` and `TxServed` of `IrqNapi` justify; the engine
works on granted descriptors. Nothing makes the stack send. `RxRing!FairSpec`: a
running poll goes on and polls come again and again (`RxServed`); the engine is
under no obligation, and the overflow interrupt is not assumed: `Resumed` follows
from refill's tail write. `IrqNapi!FairSpec`: weak fairness of handlers, polls
and timers that are due (they are kernel work items); strong fairness for those
that wait for `ch->lock`, a ticket lock; the engine sends and its receive
watchdog expires. Traffic, faults, open and close are never obliged to happen.
The other modules have safety properties only: their calls run to the end under a
lock, and nothing obliges a user to make them.

## 4. Proofs

`TxRingProofs` proves, for every ring size, number of fragments, set of skbs and
shapes that satisfy the ASSUMEs of `TxRing`:

* `TypeCorrect`: `Spec => []TypeOK`, with every fault.
* `NeverLaps`, `NeverWarns`, `SkbsSafe`: `NoLap`, `WarnFree`, `SkbSafe` are
  invariants, assuming `ShapesFit` (no frame takes more than MaxFrags + 2
  descriptors; `tx_tso_overrun` shows what happens without) and
  `Faults \subseteq {"tx_err"}` (no failed mapping).

The argument: `NoLap` speaks of the moment before a slot is filled and is not
inductive. `RingInv` strengthens it with `RoomInv` (an awake queue has room for
any frame; a frame under way has room for what is left of it) and `SkbWindow`
(skbs sit between `dirty_tx` and `cur_tx`, and ahead of a running tx_clean). The
circular intervals are handled once, in the lemmas `RoomStep` to `OutsideExtends`;
`RingNext` has a step per action. `SkbInv` adds who holds the frame being filled.

It builds on `RingInv`:

* `EngineAlwaysReady`, `[]EngineReady`, under the same assumptions and without one-step
  time stamps (`~OstEn`). `EngineInv` says at every step, not only between calls,
  which descriptors the engine owns: all from its own to the end of the filled part,
  except those xmit withholds to the end (the first one and the MSS descriptor).
  So the engine stops at the first of them, whatever the tail register says, which
  tx_err leaves as it was.
* `MappingsBalance`, `[]MappingBalance`, with no faults at all: a failed mapping or
  a tx_err can unbalance them (section 5).
* `RingIsFifo`, the safety part of `ImplementsFifo`: `Spec => Fifo!Init /\
  [][Fifo!Next]_RingOrder`, under the assumptions of `RingInv`. `RingOrder` lists the
  slots with an skb by their turn from `dirty_tx`; the lemmas `OneBefore` to `NthMoved`
  say that every turn is that of one slot (the pigeonhole principle), and what a slot
  behind all others, a slot before all others, and another start do to the turns.
  XmitPost then is Accept, CleanEntry is Release or a stutter, TxErr is Reset or a
  stutter, CleanEnd moves `dirty_tx` but not the order, and nothing else touches either.

`RxRingProofs` proves `OwnedHavePages`, `Spec => []EngineOwnsPages`, for every
ring size, budget and page pool and with every fault, a page that cannot be
allocated and a ring opened again included. `EngineOwnsPages` alone is not
inductive: `rx_refill` gives back `rx_dirty` slots counted once at its start, so
`RxInv` adds that the count left is the distance from `entry` to `cur_rx`; refill
then never reaches a slot the stack or the engine still holds.

`RxTyped` proves `TypeOK`, and that a poll never counts beyond its budget, as long as
no skb fails within a frame (`"oom_skb"`): each descriptor drained after that counts as
a frame, and what bounds the count is then the ring, which the proof does not
follow. `count < Limit` while rx runs is the strengthening it needs.

`FramesWhole` proves `[]WholeFrames`, as long as shortages of memory
are short (`RxCalm`). `FrameInv` reads the ring from `cur_rx`: F descriptors the
engine has filled, then its own, then those refill has not given back; g counts
the segments of a frame before each filled descriptor, and the skb rx holds, or
has saved, is whole just when the first of them is not the start of a frame. That
rx never comes round to a descriptor it has read already is the bound in `Level`:
`count` frames of `MaxSegs` descriptors in a poll, `OomSlack` from the polls before,
less than N in all by `RxAssumption`.

`IrqNapiProofs` proves type correctness, `NoLostIrq`, `FreedQuiet`, `TxWatched` and
`NoSpuriousReset` of IrqNapi for every number of channels, budget, platform and
set of faults; `irq_safety` checks the last four on one channel, and bus errors and
exhausted rx rings only on platforms apart. None of the four is inductive:

* `TokenInv`: NAPI_STATE_SCHED is a token. A NAPI is in the hands of at most one of
  poll list, handler and timer, it is then scheduled and enabled, and a disabled
  NAPI stays scheduled. With `PhaseInv` (what rests before open and after release)
  this gives `FreedQuiet`.
* `LockInv` and `EnableInv`: `ch->lock` is held by who is between the two steps of an
  access to `DMA_CH_INT_EN`, and a NAPI nobody owns has its interrupt on in the
  register *and* in what the holder has read and will write back. The release
  does not wait for a poll's last `EnableIrq`: it may write after the next open,
  and `EnableInv` covers that write.
* `WatchInv` adds to `TxWatched` that nothing is sent before open has finished.
* `CauseInv`, `ResetInv`: FBE is never cleared (its enable bit is off), so a stale one
  must not meet a new AIS. AIS always has RBU or a stopped channel beside it, also
  between the handler's read and its write of the status; RBU puts handle_rx
  beside tx_hard_error, and the second loop then skips the channel.

`ControlProofs` proves `GatesFollow`, `[]GatesInStep`, for every number of queues,
gate list and slope, assuming `GateFaults = {}`: with a fault the property is
false (section 5). Opening programs the registers from what the software
remembers, so `GatesInv` adds that the memory, the registers and the settings last
accepted agree, for the list and for every AVB queue's shaper, closed or open, and that
the ioctl's table has the slopes in force, at the present speed, of every queue outside
`tcShaped`.

It also proves `FlowsMatch`, `[]FlowsInForce`, for every number of filters and set of
rules, assuming `FlowFaults = {}` for the same reason. `FlowInv` adds that an entry in
use carries the cookie of exactly one rule accepted, and that an entry given up has no
cookie a search could find and a filter that matches nothing: without that, the
delete of one rule could turn off the filter of another.

`FiltersProofs` proves five properties of Filters for every number of slots, addresses
and VLAN ids (finitely many of each):

* `TablesStay`, `[]TableInStep`, unless the device is opened with addresses
  installed. With the types of the table it is inductive; that the slot taken is a
  vacant one rests on `LeastIn`.
* `AddressesAccepted`, `[]AddrAccepted`, under `AddrCalm` (section 5 has what happens
  otherwise). `ModeInv` says what holds while the lists are walked: unicast before
  multicast, and all wanted unicast addresses installed when the multicast list
  begins. That a unicast address finds a slot is the pigeonhole principle, since the table
  holds only wanted or installed addresses, each once.
* `FallbackGivenUp`, `[]FallbackEnds`, with every fault.
* `UsersCounted`, `[]VlanCounted`, while fewer ids are in use than there are slots.
  `VlanInv` adds that the last slot stays vacant, which is what lets a new id in
  (tc956x_check_vlan_duplication returns what it finds there).
* `FiltersTyped`, `[]TypeOK`, with every fault. The bound on the users of a slot is not
  inductive, since with more ids than slots an id may be entered twice: `CountInv`
  relates the count to the protocols that hold the id.

`ControlProofs` also has two theorems about the run of the self-tests, each without the
faults that break it and with all the others. Both rest on `SelfBase`: an address or id
a test has added is on the lists exactly while its frames are sent.

* `SelftestsRestore`, `[]SelftestRestores`, when no PHY refuses, and no ioctl or opening
  comes between runs. `LoopsInv` says how far the run has come: the third test puts
  the PHY's loopback on for all that follow, and the end of the run takes it off.
* `SelftestsTell`, `[]SelftestTells`, with a PHY and memory, without IFF_ALLMULTI and
  with VLAN filtering that works, for every `PerfectSlots`. `TellsInv` adds that each frame
  meets a loopback and that the address to be rejected is on no list. `VidInv` says that,
  while the stack has no other id in use, the data register holds at most the tests' id
  and their filter has it as long as it has a user. That an overflow means a table the
  stack has filled is a matter of cardinality, since a test adds at most one address
  (`OverflowFull`); what excuses a verdict lasts until the next (`ExcusedStays`).

`ControlProofs` also proves `ClockIsKept`, `[]ClockKept`, and `TimeIsRead`, `[]TimeRead`, for any
number of callers, any times and any lengths of a second and of a turn of the 32 bits
of a launch time, assuming `PtpFaults = {}`: callers that hold `ptp_lock` and those
that hold RTNL alone do not meet, and the hardware takes a command before the
driver gives up polling (section 5 has what happens otherwise). A call is the list of
its register accesses, so the invariant speaks of what every caller has still to do:

* `Chained`, kept by taking the first access away: which access comes before and
  after which. `AloneInv`: a caller is between lock and unlock just when it holds the
  lock, and nobody else is when an RTNL caller works.
* `CommandInv`: a command the hardware has not taken yet is being waited for, and what a
  caller read of the control register before it gives a command is what is there.
  `OperandInv`: the update register holds the operand of the command to come, across the
  accesses between them.
* `TimeInv`, `RateInv`, `FlagInv`: how far time, increment, addend and flags differ from
  what was asked for while commands are pending. `ClockKept` follows when none is.
* `ReadSo` says what each of the four reads of get_systime has seen; a reading shorter
  than a second then cannot mix two of them.

`LinkProofs` proves `LinkIsAgreed`, `[](LinkTypeOK /\ LinkAgrees)`, and `TimerIsOwned`,
`[]EeeTimerOwned`, for any set of speeds and whenever autonegotiation completes, assuming `LinkFaults = {}`: calls are not
interleaved, phylink reports speeds mac_config knows and refuses no EEE setting (section 5
has what happens otherwise). Both properties speak of the moments between calls, and a
call is the list of its steps, so `LinkInv` speaks of the one actor at work and of
what it has left to do:

* `Shape`: which step comes before and after which, kept by taking the first one away
  and by phylink_stop, which puts link_down in front of what is left of release.
* `SpeedInv`, `MacInv`, `UpInv`: each place has the speed of the link, the MAC is on, and
  autonegotiation is, or a step to come sees to it, and none before undoes it; or the report
  was `early`. Until the step that reads the mark, that step stands for all that follow.
* `HeadInv`: what the next step relies on. An access to the XPCS finds its own page, and
  the register as it was read; eee_init's result still says whether the timer runs.
* `PendInv`: the timer is pending only with EEE enabled or about to be, between
  eee_init and the step that records its result.

`PcieLaneProofs` has three theorems, for either strapping, any presets, speeds and maximum
speeds. An ioctl is the list of its register writes, and what a write reaches depends on
the cores and lanes selected before it, so the invariants speak of the list that is left:

* `LanesAlwaysReady`, `[]LanesReady`, when a lane change does not start before the last one
  has taken effect (`"hasty"` is not in `Faults`; section 5 has what happens otherwise).
  `Awake` says that the lanes of the width each port has been asked for, or has, are
  awake. While a change of a port is under way, `Moving` adds for each write to come
  which lanes it will reach (`Reaches`, two writes back): a lane put to sleep
  (`Sleeps`) belongs to no width wanted after the change, a lane asked for is awake or
  woken before the request (`Wakes`), and sleep comes after the request, waking before
  (`Asks`). `LaneChangeMoves` shows this of each of the programs, `StillNext` that
  the programs of the other ioctls leave the lanes alone.
* `AspmAlwaysSafe`, `[]AspmSafe`, with every fault, for any finite set of devices
  (`DeviceAssumption`). `AspmInv` says of each device that its save is to come and its
  setting untouched, or its restore is to come, its setting saved and its ASPM off, or
  both are past and it has its setting. `AspmOrder` has every save before the links
  retrain, every restore after, and no device twice; that the list the bus is walked in
  names every device rests on a count.
* `SettingsAsAsked`, `[]AsAsked`, with every fault. `Now` is the registers of the settings,
  `After(h, w)` what write w makes of registers h, and `Leads(s, h, k)` says that the
  writes of s lead from h to k. `AskInv` is that the writes still to come lead from
  `Now` to registers that hold what was asked (`Agree`): with none left they are `Now`
  itself, which is `AsAsked`. A write keeps this because it does to the registers what
  `After` says (`SelectAfter`, `LaneAfter`, `CoreAfter`, `OtherAfter`). That an ioctl
  begins so is shown of each program by composing its parts (`LeadsOn`): `Open` cores
  are selected with all their lanes, `Turned` and `Equalized` are what a part does to
  every lane and core, its own or not. The cores of one lane never have their lane
  access written by these programs, so the invariant keeps it open (`Wide`), also
  through changes of width (`Keeps`).

`LifecycleProofs` proves `LifeAtRest`, `[]AtRest`, and `LifeStepsSafe`, `[]StepSafe`, for
any number of queues, on either port, whatever settings D3 loses and however many
calls are made, assuming `LifeFaults = {}`: every step of class "any" may fail, the steps
whose failure the code does not undo do not (section 5 has what happens otherwise). Both
rest on one inductive invariant, `LifeInv`. The state is seen as the set `Things` of what is
there: resources held, settings of the chip, up, present, powered, channels running. A step
`Needs` some things and `Adds` (or `MayAdd`, when it is optional) and `Dels` others, so
that `There` and `Gone` follow things along a list from what is there at its start. `LifeInv`
says of the lists on the stack:

* `Guarded`: what holds whatever the driver is doing. Channels, handler and polls are
  stopped or have their rings, and the channels are stopped while power is off.
* `StepsOK`: each step of a list finds what it needs and, when it takes something,
  not a stale pointer; `Ends`: the list ends in a state between two calls.
* `AltOK`: the same of the steps a failure leads to, from what is there at that step.
  This makes every goto label a case of its own: what is taken before the step that
  fails is what the label gives back.
* `One`, `Closes`, `Opens`, `Resumes`, `Probes`: the shapes a stack may have, since
  suspend, resume and remove call close or open in the middle of their own steps.

`LifeInv` says nothing of the driver's own lists; the first half of the module proves that
each step keeps it for any lists (`NextLife`). The second half is `Entries`: close, open,
probe, remove, suspend and resume start with lists that have `StepsOK` and `Ends`. The steps for each
queue make lists of any length, whose position 4(q - 1) + r or 3(q - 1) + r is step r of
queue q, so what is there before it is a matter of arithmetic and not of an induction
(`Lifecycle` writes `PerQueue` by position for this reason).

`ControlProofs` proves `ParserAlwaysInStep`, `[](ParserTypeOK /\ ParserInStep)`, for any
handles, priorities and sizes of the table, assuming `RxpFaults = {}`. `ParserInv` has two
halves:

* `EntriesInv`: entries and rules are in accord (`Sound`). Each rule has one entry in turn with
  its handle, priority, action and, if it is a split one, its fragment, and each entry in
  turn has its rule; a fragment belongs to an entry in turn, and what a search by the
  handle of a rule can find is that rule's entry. Nothing is said of slots that are free:
  they keep what they held (`FillEntry` overwrites what it needs, except the fragment
  a slot once named). That this could be kept by `DeleteKnode` only with the guard
  `StaleFragment` is how the fault `stale` of section 5 was found; TLC with the three handles
  of `control` does not reach it. `AddsRule` and `RemovesRule` are the two changes of
  a sound pair, `Fills` and `UnfillsRule` that the code's entries go through them.
* `TableInv`: while on, the table gives every frame, of whatever halves, the verdict of the rules.

That a programming of sound entries has this (`TableTells`) takes three arguments. `Place` puts
the halves one to one on the positions of the table, since entries that are sooner come
as an unbroken run (`NextInTurn`, `PlacesDiffer`, `TableHas`). `Run` is a recursion over the
positions; it has a solution, since the solutions from position n - k exist for
every k by a least counterexample (`RunSolves`), and one equation of it per entry is all
that is used (`EntryDecides`). What the table says from an entry on (`Tells`) is then that
of the rules from there on, again by a least counterexample, from the last entry to the first.
The entries in use are as many as those needed by a bijection (`UsedAreNeeded`).

`ControlTyped` puts the parts of `MCControl` together: `Spec => []ControlTypeOK`, since a
behaviour of the whole is one of each part and the theorem about each part has its type
invariant.

Only model-checked: the liveness properties (`WF_` and `ENABLED` are beyond the prover), and
with them the fairness of `ImplementsFifo`, and the three violation runs.

## 5. What the code does not stand up to

Found while modelling; each of the three violation runs is one. The others are
conditions under which a property fails, so the passing runs leave them out:

| Switch on | fails | because |
|---|---|---|
| TX `race` | EngineReady | tx_err takes no lock and rewinds the ring under xmit or tx_clean |
| TX `tx_err` | MappingBalance | free_tx_buffer forgets mappings of slots without an skb |
| TX `map_frag` | MappingBalance | dma_map_err leaves earlier fragments mapped; with VLAN frames also NoLap and Delivered, through the orphaned VLAN descriptor |
| TX `map_late` | EngineReady | the descriptors already granted stay the engine's, beyond `cur_tx` |
| TX `map_head` | SkbSafe | dma_map_err frees an skb the ring names |
| TX `OstEn` | EngineReady | the one-step context descriptor is never granted |
| RX `oom_long` | WholeFrames | refill gives up until rx has run round the ring |
| RX `oom_skb` | WholeFrames | the rest of a frame without skb is taken for a frame |
| RX `reopen` | WholeFrames | `rx_q->state` survives release |
| IRQ `early_rx` | RxServed | an interrupt before napi_enable is consumed |
| IRQ `fbe` | HardErrorHandled | the return value is compared with, not tested for, tx_hard_error |
| Filters `uc_overflow` | AddrAccepted | syncing mc clears the receive-all fallback of uc |
| Filters `uc_allmulti` | AddrAccepted | uc is not synchronised under IFF_ALLMULTI |
| Filters `vlan_overflow` | VlanCounted | the last slot decides whether a new id is entered |
| Filters `reopen` | TableInStep, AddrAccepted | the reset clears registers the stack counts as set |
| PcieLane `hasty` | LanesReady | the lane change is decided on the width monitor, which still shows the old width |
| Life `alloc` | StepSafe | an error label walks tables that are not allocated yet, or frees again what the last close freed; receive rings are not freed when a transmit ring fails |
| Life `irq` | StepSafe | the rings are freed under running channels |
| Life `table` | AtRest | probe reports success without its tables |
| Life `late` | AtRest | mdio, phylink or net device fail: the tables are leaked |
| Life `setup` | AtRest | without platform data nothing is unmapped |
| Life `firmware` | AtRest | resume returns with the device detached; probe goes on without the firmware |
| Life `pm` | AtRest | suspend or resume returns half-way |
| Rxp `reuse` | ParserInStep | an entry given up is found again by its handle, with its fragment |
| Rxp `action` | ParserInStep | a refused action leaves the fragment mark on a free entry |
| Rxp `stale` | ParserInStep | a slot keeps the fragment it once named when it is taken as a fragment itself; deleting a rule that was refused gives up the entry another rule has there by now (five rules: the proof showed it, and TLC finds it with five handles) |
| Rxp `shared` | ParserInStep | ioctl and tc write the same table |
| Rxp `timeout`, `range` | ParserInStep | the receiver stays off when the parser stays busy; a table that is too long leaves the old one on while the ioctl reports it off |
| Flow `stale` | FlowsInForce | drop bit and protocol of an entry are never cleared |
| Flow `both_ports` | FlowsInForce | the second port overwrites the register of the first |
| Flow `sctp` | FlowsInForce | the ports are left out and the rule is accepted |
| Flow `busy` | FlowsInForce | a rule is accepted when one of its parsers succeeds |
| Flow `reopen` | FlowsInForce | the filters are reset, the entries are not |
| Gate `entries` | GatesInStep | the schedule is cleared and marked enabled before it is checked |
| Gate `busy` | GatesInStep | a list that cannot be written leaves the switch or the old list on |
| Gate `fpe` | GatesInStep | preemption is not turned off with taprio, nor on again at open |
| Gate `speed` | GatesInStep | the shapers are not set for a new speed |
| Gate `cbs_off` | GatesInStep | tc's request to turn a shaper off leaves the slopes |
| Link `race` | LinkAgrees, EeeTimerOwned | page register and EEE state have no lock |
| Link `slow` | LinkAgrees | mac_config leaves a speed it does not know half set |
| Link `refuse` | EeeTimerOwned | EEE is set up before phylink has accepted it |
| Ptp `met` | ClockKept | the ioctls and open take no `ptp_lock`: a pending TSUPDT is written back and the shift made twice, a setting is overtaken by another |
| Ptp `late` | ClockKept | -EBUSY of the polling is ignored, and the next command meets the last one |
| Self `phy` | SelftestRestores | a PHY that refuses has its mode recorded |
| Self `ioctl` | SelftestRestores | a run ends the loopback an ioctl asked for |
| Self `reopen` | SelftestRestores | the reset ends a loopback the driver still records |
| Self `allmulti`, `nophy`, `vlan`, `oom` | SelftestTells | the flag lets the frame in that must not come, a test without a PHY sends into nowhere, a stray frame counts for none received, a frame that was never sent for one filtered |

Two disagreements need no switch, since the properties say what holds instead: the
report of a shaper tc has set since (`GatesInStep`), and the hardware's speed after a report
that came before autonegotiation had completed (`LinkAgrees`). Two more are excused in
`SelftestTells`: a full address table, and merged VLAN ids.

Of the clock no property says, because the code does not mean it (main.c:982-984):
hwtstamp_set never programs a filter while the clock is enabled, and the
configuration turns both flags on, so that the settings hwtstamp_get reports are
not those in force. And a launch time that has just passed when the 32 bits
roll over is taken for the next turn, 4.29 seconds later: main.c:4405-4408 knows
only the rollover ahead, and `TimeRead` leaves the other out.

## 6. Not modelled, and what remains

* **PTP outputs**: the periodic output of `enable`, the registers pps_configuration
  writes after it has started the clock, auxiliary time stamps; the arithmetic of
  the addend and the time stamps in descriptors.
* **hw_setup's queue settings, xpcs_init, the PMA, MMC, PCIe log, register dump,
  AER, config.ini, hwif**: register sequences or queries with hardly any state of
  their own. The wait for the PMA's INIT_DONE has no end in the code.
* **PHY and phylink** are outside the repository: modelled as what may call the
  driver. The LTSSM result probe reads is taken as "link up".
* **Both ports at once**: the read-modify-writes of the clock and reset registers
  by both functions are not interleaved.
* **A failing read of LNKCTL** in the ASPM save, timer values, the sizes of the
  ioctl arguments, hash filters (they only widen the perfect ones), GRO,
  checksums and statistics.
* **IPA channels**: not built by default and driven by an offload engine.

Of the theorems, the one worth widening is `LifeStepsSafe`: `LifeFaults` could hold the
classes that do not break a property (section 5); `AltOK` is then wanted for their labels
too.
