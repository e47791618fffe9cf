------------------------------ MODULE IrqNapi ------------------------------
(***************************************************************************)
(* How work reaches the TC956X driver (tc956xmac_main.c): the interrupt    *)
(* handler of the one MSI vector, the rx and tx NAPI of every DMA channel, *)
(* the tx coalescing timer, the interrupt enables they share under         *)
(* ch->lock, and tc956xmac_open / tc956xmac_release around them.           *)
(*                                                                         *)
(* The rings are abstracted to counters (TxRing and RxRing have the        *)
(* detail): tx_clean and rx are one step each here, because the tx lock,   *)
(* and NAPI for rx, make them so for everybody else.  The handler runs on  *)
(* one CPU at a time; each poll, the timer and the handler run             *)
(* concurrently.  A read-modify-write of DMA_CH_INT_EN is two steps.       *)
(***************************************************************************)
EXTENDS Naturals

CONSTANTS NChan,    \* channels_to_check of tc956xmac_dma_interrupt
          MaxWork,  \* bound on frames in flight, completed or received
          Budget,   \* NAPI weight
          Settings  \* platforms and environments to consider

\* Besides faults proper: release, frames before NAPI is enabled, and frames
\* that find no descriptor.
FaultKinds == {"close", "early_rx", "rx_full", "fbe", "timeout", "safety"}

Chans == 0 .. NChan - 1
Dirs == {"rx", "tx"}
Napis == Chans \X Dirs

ASSUME IrqAssumption == /\ NChan \in Nat /\ NChan >= 1
                        /\ MaxWork \in Nat /\ Budget \in Nat /\ Budget >= 1
                        /\ Settings \subseteq [owned : SUBSET Napis,
                                               faults : SUBSET FaultKinds]

VARIABLES
  owned,     \* <<channel, direction>> pairs with USE_IN_TC956X_SW; never changes
  faults,    \* what the environment may do; never changes
  dev,       \* how far open or release is
  inflight, done,   \* tx frames: with the engine; completed, to be cleaned
  received,         \* rx frames to be taken
  riwt,             \* a received frame whose interrupt is still to come
  status,           \* DMA_CH_STATUS
  int_en,           \* DMA_CH_INT_EN: the directions that are enabled
  enabled,          \* napi_enable has been called, napi_disable has not
  scheduled, missed, \* NAPI_STATE_SCHED and NAPI_STATE_MISSED
  poll,             \* per NAPI: on the poll list, or between its two steps
  tail,             \* per NAPI: its enabling of the interrupt, still to do
  lock, tmp,        \* holder of ch->lock; the INT_EN each context has read
  armed, timer,     \* txtimer is pending; how far its handler is
  masked, irq,      \* the MSI vector is masked; the handler is requested
  isr, ich, dir,    \* how far the handler is, at which channel and direction
  seen, ret,        \* status read; results of dma_interrupt per channel
  tx_stopped,       \* the engine has stopped tx after a bus error
  reset_requested   \* TC956XMAC_RESET_REQUESTED (and carrier off)

plat == <<owned, faults>>
work == <<inflight, done, received, riwt>>
regs == <<status, int_en>>
napi == <<enabled, scheduled, missed, poll, tail>>
spin == <<lock, tmp>>
tmr == <<armed, timer>>
handler == <<isr, ich, dir, seen, ret>>
errors == <<tx_stopped, reset_requested>>
vars == <<plat, dev, work, regs, napi, spin, tmr, masked, irq, handler, errors>>

StatusBits == {"RI", "TI", "TBU", "RBU", "FBE", "AIS"}
RetBits == {"handle_rx", "handle_tx", "tx_hard_error"}

\* open: rings and registers set up, irq requested, NAPI enabled; release:
\* tx queues stopped, NAPI disabled, timer deleted, irq freed.
Phases == {"down", "irq_on", "up", "closing", "timer_off", "irq_off"}

\* The channels whose tx, rx side is the host's.
TxChans == {c \in Chans : <<c, "tx">> \in owned}
RxChans == {c \in Chans : <<c, "rx">> \in owned}

\* Who takes ch->lock: the two polls, the handler and the timer.
Contexts == Dirs \cup {"isr", "timer"}

TypeOK ==
  /\ owned \subseteq Napis /\ faults \subseteq FaultKinds
  /\ dev \in Phases
  /\ inflight \in [Chans -> 0 .. MaxWork] /\ done \in [Chans -> 0 .. MaxWork]
  /\ received \in [Chans -> 0 .. MaxWork] /\ riwt \in [Chans -> BOOLEAN]
  /\ status \in [Chans -> SUBSET StatusBits] /\ int_en \in [Chans -> SUBSET Dirs]
  /\ enabled \subseteq owned /\ scheduled \subseteq Napis /\ missed \subseteq Napis
  /\ poll \in [Napis -> {"off", "listed", "complete"}]
  /\ tail \in [Napis -> {"no", "read", "write"}]
  /\ lock \in [Chans -> Contexts \cup {"free"}] /\ tmp \in [Chans \X Contexts -> SUBSET Dirs]
  /\ armed \subseteq Chans
  /\ timer \in [Chans -> {"idle", "prep", "read", "write"}]
  /\ masked \in BOOLEAN /\ irq \in BOOLEAN
  /\ isr \in {"idle", "status", "clear", "prep", "read", "write", "err", "unmask"}
  /\ ich \in Chans /\ dir \in Dirs
  /\ seen \subseteq StatusBits /\ ret \in [Chans -> SUBSET RetBits]
  /\ tx_stopped \subseteq Chans /\ reset_requested \in BOOLEAN

Init ==
  /\ \E s \in Settings : owned = s.owned /\ faults = s.faults
  /\ dev = "down"
  /\ inflight = [c \in Chans |-> 0] /\ done = [c \in Chans |-> 0]
  /\ received = [c \in Chans |-> 0] /\ riwt = [c \in Chans |-> FALSE]
  /\ status = [c \in Chans |-> {}] /\ int_en = [c \in Chans |-> {}]
  /\ enabled = {} /\ scheduled = Napis /\ missed = {}
  /\ poll = [n \in Napis |-> "off"] /\ tail = [n \in Napis |-> "no"]
  /\ lock = [c \in Chans |-> "free"] /\ tmp = [h \in Chans \X Contexts |-> {}]
  /\ armed = {} /\ timer = [c \in Chans |-> "idle"]
  /\ masked = FALSE /\ irq = FALSE
  /\ isr = "idle" /\ ich = 0 /\ dir = "rx" /\ seen = {}
  /\ ret = [c \in Chans |-> {}]
  /\ tx_stopped = {} /\ reset_requested = FALSE

-----------------------------------------------------------------------------
(* NAPI of the kernel (external).                                          *)

\* napi_schedule_prep: the caller may schedule n unless somebody has.
Prep(n, ok) ==
  /\ ok = (n \notin scheduled)
  /\ scheduled' = scheduled \cup {n}
  /\ missed' = IF ok THEN missed ELSE missed \cup {n}

\* __napi_schedule
List(n) == poll' = [poll EXCEPT ![n] = "listed"]

\* napi_complete_done with a missed schedule puts n back on the list.
CompleteDone(n) ==
  IF n \in missed
    THEN /\ missed' = missed \ {n} /\ List(n)
         /\ UNCHANGED <<scheduled, tail>>
    ELSE /\ scheduled' = scheduled \ {n}
         /\ poll' = [poll EXCEPT ![n] = "off"]
         /\ tail' = [tail EXCEPT ![n] = "read"]
         /\ UNCHANGED missed

-----------------------------------------------------------------------------
(* Read-modify-write of INT_EN under ch->lock.                             *)

\* Mutant of LockRead: ch->lock is not taken.
LockRead_NoLock(c, who) ==
  /\ tmp' = [tmp EXCEPT ![<<c, who>>] = int_en[c]]
  /\ UNCHANGED lock

LockRead(c, who) ==
  /\ lock[c] = "free"
  /\ lock' = [lock EXCEPT ![c] = who]
  /\ tmp' = [tmp EXCEPT ![<<c, who>>] = int_en[c]]

Unlock(c, who) ==
  /\ lock' = [lock EXCEPT ![c] = "free"]
  /\ tmp' = [tmp EXCEPT ![<<c, who>>] = {}]

\* dwxgmac2_disable_dma_irq and dwxgmac2_enable_dma_irq, the write.
DisableIrq(c, who, d) ==
  int_en' = [int_en EXCEPT ![c] = tmp[<<c, who>>] \ {d}] /\ Unlock(c, who)
EnableIrq(c, who, d) ==
  int_en' = [int_en EXCEPT ![c] = tmp[<<c, who>>] \cup {d}] /\ Unlock(c, who)

-----------------------------------------------------------------------------
(* The interrupt handler.                                                  *)

\* The status bits enabled under en: AIE is set once and stays, TBUE and FBEE
\* never are.
EnabledBits(en) == (IF "rx" \in en THEN {"RI", "RBU"} ELSE {})
                     \cup (IF "tx" \in en THEN {"TI"} ELSE {}) \cup {"AIS"}

\* A channel of the host asks for the MSI.
Pending == \E n \in owned :
             status[n[1]] \cap EnabledBits(int_en[n[1]] \cap {n[2]}) # {}

\* tc956xmac_interrupt starts; the MSI generator has masked the vector.
IsrEnter ==
  /\ irq /\ isr = "idle" /\ Pending /\ ~masked
  /\ masked' = TRUE
  /\ isr' = "status" /\ ich' = 0 /\ ret' = [c \in Chans |-> {}]
  /\ UNCHANGED <<plat, dev, work, regs, napi, spin, tmr, irq, dir, seen, errors>>

\* tc956xmac_safety_feat_interrupt reports an error: global_err, and the
\* handler returns at once.
IsrSafety ==
  /\ "safety" \in faults
  /\ irq /\ isr = "idle" /\ ~masked
  /\ masked' = TRUE
  /\ reset_requested' = TRUE
  /\ UNCHANGED <<plat, dev, work, regs, napi, spin, tmr, irq, handler, tx_stopped>>

\* dwxgmac2_dma_interrupt reads the status of the channel ...
IsrStatus ==
  /\ isr = "status"
  /\ seen' = status[ich]
  /\ isr' = "clear"
  /\ UNCHANGED <<plat, dev, work, regs, napi, spin, tmr, masked, irq, ich, dir, ret, errors>>

\* What it returns for a status.
Handle(st) ==
  (IF "RI" \in st \/ {"AIS", "RBU"} \subseteq st THEN {"handle_rx"} ELSE {})
    \cup (IF st \cap {"TI", "TBU"} # {} THEN {"handle_tx"} ELSE {})
    \cup (IF {"AIS", "FBE"} \subseteq st THEN {"tx_hard_error"} ELSE {})

\* Mutant of IsrClear: only enabled bits are reported, all seen ones cleared.
IsrClear_AllSeen ==
  /\ isr = "clear"
  /\ status' = [status EXCEPT ![ich] = @ \ seen]
  /\ ret' = [ret EXCEPT ![ich] = Handle(seen \cap EnabledBits(int_en[ich]))]
  /\ isr' = "prep" /\ dir' = "rx" /\ seen' = {}
  /\ UNCHANGED <<plat, dev, work, int_en, napi, spin, tmr, masked, irq, ich, errors>>

\* Mutant of IsrClear: the summary bit AIS is not cleared.
IsrClear_KeepAis ==
  /\ isr = "clear"
  /\ status' = [status EXCEPT ![ich] = @ \ ((seen \cap EnabledBits(int_en[ich])) \ {"AIS"})]
  /\ ret' = [ret EXCEPT ![ich] = Handle(seen)]
  /\ isr' = "prep" /\ dir' = "rx" /\ seen' = {}
  /\ UNCHANGED <<plat, dev, work, int_en, napi, spin, tmr, masked, irq, ich, errors>>

\* ... then the enables, and clears the bits that are both set and enabled.
IsrClear ==
  /\ isr = "clear"
  /\ status' = [status EXCEPT ![ich] = @ \ (seen \cap EnabledBits(int_en[ich]))]
  /\ ret' = [ret EXCEPT ![ich] = Handle(seen)]
  /\ isr' = "prep" /\ dir' = "rx" /\ seen' = {}
  /\ UNCHANGED <<plat, dev, work, int_en, napi, spin, tmr, masked, irq, ich, errors>>

\* rx is followed by tx, tx by the next channel, the last by the error checks.
NextDir ==
  CASE dir = "rx" -> isr' = "prep" /\ dir' = "tx" /\ UNCHANGED ich
    [] dir = "tx" /\ ich + 1 < NChan -> isr' = "status" /\ ich' = ich + 1 /\ dir' = "rx"
    [] OTHER -> isr' = "err" /\ ich' = 0 /\ dir' = "rx"

Asked == /\ <<ich, dir>> \in owned
         /\ (IF dir = "rx" THEN "handle_rx" ELSE "handle_tx") \in ret[ich]

\* tc956xmac_napi_check for one direction: nothing to do, or somebody else has
\* scheduled the NAPI ...
IsrSkip ==
  /\ isr = "prep"
  /\ IF Asked THEN Prep(<<ich, dir>>, FALSE) ELSE UNCHANGED <<scheduled, missed>>
  /\ NextDir
  /\ UNCHANGED <<plat, dev, work, regs, enabled, poll, tail, spin, tmr, masked, irq, seen, ret, errors>>

\* ... or the handler will: it turns the interrupt off and schedules.
IsrPrep ==
  /\ isr = "prep" /\ Asked
  /\ Prep(<<ich, dir>>, TRUE)
  /\ isr' = "read"
  /\ UNCHANGED <<plat, dev, work, regs, enabled, poll, tail, spin, tmr, masked, irq,
                 ich, dir, seen, ret, errors>>

IsrRead ==
  /\ isr = "read"
  /\ LockRead(ich, "isr")
  /\ isr' = "write"
  /\ UNCHANGED <<plat, dev, work, regs, napi, tmr, masked, irq, ich, dir, seen, ret, errors>>

IsrWrite ==
  /\ isr = "write"
  /\ DisableIrq(ich, "isr", dir)
  /\ List(<<ich, dir>>)
  /\ NextDir
  /\ UNCHANGED <<plat, dev, work, status, enabled, scheduled, missed, tail, tmr, masked, irq,
                 seen, ret, errors>>

\* The second loop of tc956xmac_dma_interrupt: tc956xmac_tx_err for a channel
\* whose result is tx_hard_error and nothing else.
TxErrDue == ret[ich] = {"tx_hard_error"}

IsrErr ==
  /\ isr = "err"
  /\ IF TxErrDue
       THEN /\ inflight' = [inflight EXCEPT ![ich] = 0]
            /\ done' = [done EXCEPT ![ich] = 0]
            /\ tx_stopped' = tx_stopped \ {ich}
       ELSE UNCHANGED <<inflight, done, tx_stopped>>
  /\ IF ich + 1 < NChan THEN ich' = ich + 1 /\ UNCHANGED isr
                        ELSE ich' = 0 /\ isr' = "unmask"
  /\ UNCHANGED <<plat, dev, received, riwt, regs, napi, spin, tmr, masked, irq, dir, seen, ret,
                 reset_requested>>

\* MSI_MASK_CLR as the last thing the handler does.
IsrUnmask ==
  /\ isr = "unmask"
  /\ masked' = FALSE
  /\ isr' = "idle" /\ ret' = [c \in Chans |-> {}]
  /\ UNCHANGED <<plat, dev, work, regs, napi, spin, tmr, irq, ich, dir, seen, errors>>

-----------------------------------------------------------------------------
(* tc956xmac_napi_poll_rx and tc956xmac_napi_poll_tx.                      *)

Least(a, b) == IF a <= b THEN a ELSE b

\* A poll that used its budget stays on the list.
AfterWork(n, k) ==
  IF k < Budget THEN poll' = [poll EXCEPT ![n] = "complete"] ELSE UNCHANGED poll

PollRx(c) ==
  /\ poll[<<c, "rx">>] = "listed"
  /\ received' = [received EXCEPT ![c] = @ - Least(@, Budget)]
  /\ AfterWork(<<c, "rx">>, received[c])
  /\ UNCHANGED <<plat, dev, inflight, done, riwt, regs, enabled, scheduled, missed, tail, spin,
                 tmr, masked, irq, handler, errors>>

\* Mutant of PollTx: tx_clean does not arm the timer.
PollTx_NoTimer(c) ==
  /\ poll[<<c, "tx">>] = "listed"
  /\ done' = [done EXCEPT ![c] = 0]
  /\ AfterWork(<<c, "tx">>, done[c])
  /\ UNCHANGED <<plat, dev, inflight, received, riwt, regs, enabled, scheduled, missed, tail, spin,
                 tmr, masked, irq, handler, errors>>

\* tx_clean takes all that is completed, and arms the timer for the rest.
PollTx(c) ==
  /\ poll[<<c, "tx">>] = "listed"
  /\ done' = [done EXCEPT ![c] = 0]
  /\ armed' = IF inflight[c] > 0 THEN armed \cup {c} ELSE armed
  /\ AfterWork(<<c, "tx">>, done[c])
  /\ UNCHANGED <<plat, dev, inflight, received, riwt, regs, enabled, scheduled, missed, tail, spin,
                 timer, masked, irq, handler, errors>>

\* Bound: the enabling of an earlier poll of n is over before the next is.
PollComplete(n) ==
  /\ poll[n] = "complete" /\ tail[n] = "no"
  /\ CompleteDone(n)
  /\ UNCHANGED <<plat, dev, work, regs, enabled, spin, tmr, masked, irq, handler, errors>>

\* The poll routine turns its interrupt on again, after napi_complete_done.
TailRead(n) ==
  /\ tail[n] = "read"
  /\ LockRead(n[1], n[2])
  /\ tail' = [tail EXCEPT ![n] = "write"]
  /\ UNCHANGED <<plat, dev, work, regs, enabled, scheduled, missed, poll, tmr, masked, irq,
                 handler, errors>>

TailWrite(n) ==
  /\ tail[n] = "write"
  /\ EnableIrq(n[1], n[2], n[2])
  /\ tail' = [tail EXCEPT ![n] = "no"]
  /\ UNCHANGED <<plat, dev, work, status, enabled, scheduled, missed, poll, tmr, masked, irq,
                 handler, errors>>

-----------------------------------------------------------------------------
(* tc956xmac_tx_timer.                                                     *)

TimerFire(c) ==
  /\ c \in armed /\ timer[c] = "idle"
  /\ armed' = armed \ {c}
  /\ timer' = [timer EXCEPT ![c] = "prep"]
  /\ UNCHANGED <<plat, dev, work, regs, napi, spin, masked, irq, handler, errors>>

TimerPrep(c) ==
  /\ timer[c] = "prep"
  /\ \E ok \in BOOLEAN :
       /\ Prep(<<c, "tx">>, ok)
       /\ timer' = [timer EXCEPT ![c] = IF ok THEN "read" ELSE "idle"]
  /\ UNCHANGED <<plat, dev, work, regs, enabled, poll, tail, spin, armed, masked, irq, handler,
                 errors>>

TimerRead(c) ==
  /\ timer[c] = "read"
  /\ LockRead(c, "timer")
  /\ timer' = [timer EXCEPT ![c] = "write"]
  /\ UNCHANGED <<plat, dev, work, regs, napi, armed, masked, irq, handler, errors>>

TimerWrite(c) ==
  /\ timer[c] = "write"
  /\ DisableIrq(c, "timer", "tx")
  /\ List(<<c, "tx">>)
  /\ timer' = [timer EXCEPT ![c] = "idle"]
  /\ UNCHANGED <<plat, dev, work, status, enabled, scheduled, missed, tail, armed, masked, irq,
                 handler, errors>>

-----------------------------------------------------------------------------
(* tc956xmac_open and tc956xmac_release.                                   *)

\* Rings, registers and MSI are set up, and the handler is requested.
Open ==
  /\ dev = "down"
  /\ dev' = "irq_on"
  /\ status' = [c \in Chans |-> {}] /\ int_en' = [c \in Chans |-> Dirs]
  /\ tx_stopped' = {}
  /\ masked' = FALSE /\ irq' = TRUE
  /\ UNCHANGED <<plat, work, napi, spin, tmr, handler, reset_requested>>

\* enable_all_queues, start_all_queues, and the vector is unmasked.
OpenNapi ==
  /\ dev = "irq_on"
  /\ dev' = "up"
  /\ enabled' = owned
  /\ scheduled' = scheduled \ owned
  /\ masked' = FALSE
  /\ UNCHANGED <<plat, work, regs, missed, poll, tail, spin, tmr, irq, handler, errors>>

\* The stack has stopped sending; stop_all_queues.
Close ==
  /\ "close" \in faults
  /\ dev = "up"
  /\ dev' = "closing"
  /\ UNCHANGED <<plat, work, regs, napi, spin, tmr, masked, irq, handler, errors>>

\* napi_disable waits until n is not scheduled and takes it for good.  The
\* DISABLE bit, which only keeps others from scheduling meanwhile, is left out.
NapiDisable(n) ==
  /\ dev = "closing" /\ n \in enabled /\ n \notin scheduled
  /\ enabled' = enabled \ {n}
  /\ scheduled' = scheduled \cup {n}
  /\ UNCHANGED <<plat, dev, work, regs, missed, poll, tail, spin, tmr, masked, irq, handler,
                 errors>>

\* Mutant of DelTimers: del_timer instead of del_timer_sync.
DelTimers_NoSync ==
  /\ dev = "closing" /\ enabled = {}
  /\ dev' = "timer_off" /\ armed' = {}
  /\ UNCHANGED <<plat, work, regs, napi, spin, timer, masked, irq, handler, errors>>

\* del_timer_sync waits for a handler that runs.
DelTimers ==
  /\ dev = "closing" /\ enabled = {} /\ \A c \in Chans : timer[c] = "idle"
  /\ dev' = "timer_off" /\ armed' = {}
  /\ UNCHANGED <<plat, work, regs, napi, spin, timer, masked, irq, handler, errors>>

FreeIrq ==
  /\ dev = "timer_off" /\ isr = "idle"
  /\ dev' = "irq_off" /\ irq' = FALSE
  /\ UNCHANGED <<plat, work, regs, napi, spin, tmr, masked, handler, errors>>

\* stop_all_dma and free_dma_desc_resources.
FreeRings ==
  /\ dev = "irq_off"
  /\ dev' = "down"
  /\ inflight' = [c \in Chans |-> 0] /\ done' = [c \in Chans |-> 0]
  /\ received' = [c \in Chans |-> 0] /\ riwt' = [c \in Chans |-> FALSE]
  /\ UNCHANGED <<plat, regs, napi, spin, tmr, masked, irq, handler, errors>>

-----------------------------------------------------------------------------
(* The stack, the network and the engine (external but for xmit).          *)

\* tc956xmac_xmit, as far as it concerns this module: a frame for the engine,
\* and tc956xmac_tx_timer_arm.
Xmit(c) ==
  /\ dev = "up" /\ inflight[c] + done[c] < MaxWork
  /\ inflight' = [inflight EXCEPT ![c] = @ + 1]
  /\ armed' = armed \cup {c}
  /\ UNCHANGED <<plat, dev, done, received, riwt, regs, napi, spin, timer, masked, irq, handler,
                 errors>>

\* A frame is sent.  Only those with the IC bit raise TI; an engine with
\* nothing left reports TBU.
HwTx(c, ic) ==
  /\ inflight[c] > 0 /\ c \notin tx_stopped
  /\ inflight' = [inflight EXCEPT ![c] = @ - 1]
  /\ done' = [done EXCEPT ![c] = @ + 1]
  /\ status' = [status EXCEPT ![c] = @ \cup (IF ic THEN {"TI"} ELSE {})
                                       \cup (IF inflight[c] = 1 THEN {"TBU"} ELSE {})]
  /\ UNCHANGED <<plat, dev, received, riwt, int_en, napi, spin, tmr, masked, irq, handler, errors>>

\* A frame is received; its interrupt comes when the watchdog expires.
HwRx(c) ==
  /\ dev # "down" /\ (dev = "irq_on" => "early_rx" \in faults)
  /\ received[c] < MaxWork
  /\ received' = [received EXCEPT ![c] = @ + 1]
  /\ riwt' = [riwt EXCEPT ![c] = TRUE]
  /\ UNCHANGED <<plat, dev, inflight, done, regs, napi, spin, tmr, masked, irq, handler, errors>>

HwRiwt(c) ==
  /\ riwt[c]
  /\ riwt' = [riwt EXCEPT ![c] = FALSE]
  /\ status' = [status EXCEPT ![c] = @ \cup {"RI"}]
  /\ UNCHANGED <<plat, dev, inflight, done, received, int_en, napi, spin, tmr, masked, irq,
                 handler, errors>>

\* A frame finds no descriptor.
HwRxFull(c) ==
  /\ "rx_full" \in faults
  /\ dev # "down" /\ received[c] = MaxWork /\ "RBU" \notin status[c]
  /\ status' = [status EXCEPT ![c] = @ \cup {"RBU", "AIS"}]
  /\ UNCHANGED <<plat, dev, work, int_en, napi, spin, tmr, masked, irq, handler, errors>>

\* A fatal bus error stops the channel's transmission.
HwFbe(c) ==
  /\ "fbe" \in faults
  /\ dev # "down" /\ c \notin tx_stopped
  /\ status' = [status EXCEPT ![c] = @ \cup {"FBE", "AIS"}]
  /\ tx_stopped' = tx_stopped \cup {c}
  /\ UNCHANGED <<plat, dev, work, int_en, napi, spin, tmr, masked, irq, handler, reset_requested>>

\* tc956xmac_tx_timeout, from the stack's watchdog: global_err.
TxTimeout ==
  /\ "timeout" \in faults
  /\ dev = "up"
  /\ reset_requested' = TRUE
  /\ UNCHANGED <<plat, dev, work, regs, napi, spin, tmr, masked, irq, handler, tx_stopped>>

-----------------------------------------------------------------------------
Isr == \/ IsrStatus \/ IsrClear \/ IsrSkip \/ IsrPrep \/ IsrWrite
       \/ IsrErr \/ IsrUnmask

Next ==
  \/ IsrEnter \/ IsrSafety
  \/ IsrStatus \/ IsrClear \/ IsrSkip \/ IsrPrep \/ IsrRead \/ IsrWrite
  \/ IsrErr \/ IsrUnmask
  \/ \E c \in RxChans : PollRx(c) \/ HwRx(c) \/ HwRiwt(c) \/ HwRxFull(c)
  \/ \E c \in TxChans : \/ PollTx(c) \/ Xmit(c) \/ HwTx(c, TRUE) \/ HwTx(c, FALSE)
                        \/ TimerFire(c) \/ TimerPrep(c) \/ TimerRead(c) \/ TimerWrite(c)
                        \/ HwFbe(c)
  \/ \E n \in owned : PollComplete(n) \/ TailRead(n) \/ TailWrite(n) \/ NapiDisable(n)
  \/ Open \/ OpenNapi \/ Close \/ DelTimers \/ FreeIrq \/ FreeRings
  \/ TxTimeout

Spec == Init /\ [][Next]_vars

\* Handlers, polls and timers that have begun or are due run on; waiters for
\* ch->lock get it in turn; the engine sends what it has and its watchdog
\* expires.  open, once begun, goes on.
FairSpec ==
  /\ Spec
  /\ WF_vars(IsrEnter) /\ WF_vars(Isr) /\ SF_vars(IsrRead)
  /\ \A c \in Chans :
       /\ WF_vars(PollRx(c) \/ PollComplete(<<c, "rx">>)) /\ WF_vars(HwRiwt(c))
       /\ WF_vars(PollTx(c) \/ PollComplete(<<c, "tx">>))
       /\ WF_vars(HwTx(c, TRUE) \/ HwTx(c, FALSE))
       /\ WF_vars(TimerFire(c) \/ TimerPrep(c) \/ TimerWrite(c)) /\ SF_vars(TimerRead(c))
  /\ \A n \in Napis : SF_vars(TailRead(n)) /\ WF_vars(TailWrite(n))

-----------------------------------------------------------------------------
(* Properties.                                                             *)

\* An interrupt is off only while somebody is bound to turn it on again: a
\* NAPI that is neither scheduled nor on its way out has its interrupt on.
\* The enables of the two directions share a register, so this needs ch->lock.
NoLostIrq ==
  \A n \in enabled : n \notin scheduled /\ tail[n] = "no" => n[2] \in int_en[n[1]]

\* A scheduled NAPI will run (again): it is on the list, about to be put there,
\* or will be put there when the present poll completes.
WillRun(n) == n \in scheduled /\ (poll[n] # "complete" \/ n \in missed)

\* Sent frames raise no interrupt each, so as long as some are not cleaned a
\* timer is pending, its handler is running, or a poll is still to come.
TxWatched ==
  dev = "up" =>
    \A c \in TxChans : inflight[c] + done[c] > 0 =>
      c \in armed \/ timer[c] = "prep" \/ WillRun(<<c, "tx">>)

\* When release has freed the rings neither handler, poll nor timer runs or is
\* due: nothing of them can touch freed memory.
FreedQuiet ==
  dev = "down" => /\ isr = "idle" /\ armed = {}
                  /\ \A c \in Chans : timer[c] = "idle"
                  /\ \A n \in Napis : poll[n] = "off"

\* Received frames are taken by a poll, unless the device is closed.
RxServed ==
  \A c \in Chans : dev = "up" /\ received[c] > 0 ~> dev # "up" \/ received[c] = 0

\* Sent frames are cleaned, unless the device is closed.
TxServed == \A c \in Chans : dev = "up" /\ done[c] > 0 ~> dev # "up" \/ done[c] = 0

\* A channel the handler has found stopped by a bus error has been restarted
\* when the handler returns.
HardErrorHandled ==
  isr = "unmask" => \A c \in TxChans : "tx_hard_error" \in ret[c] => c \notin tx_stopped

\* tc956xmac_tx_err, which throws away all frames in flight, is called only for
\* a channel that has stopped.
NoSpuriousReset == isr = "err" /\ TxErrDue => ich \in tx_stopped

\* A device whose reset is requested is reset.
ResetServed == reset_requested ~> ~reset_requested
=============================================================================
