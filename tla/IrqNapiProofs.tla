--------------------------- MODULE IrqNapiProofs ---------------------------
(***************************************************************************)
(* Interrupt enables, NAPI and the order of open and release, for every    *)
(* number of channels, budget, platform and environment.                   *)
(***************************************************************************)
EXTENDS IrqNapi, TLAPS

-----------------------------------------------------------------------------
(* Types.                                                                  *)

\* Frames sent and not cleaned are at most MaxWork together, which bounds both.
IrqTypeInv ==
  /\ TypeOK
  /\ \A c \in Chans : inflight[c] + done[c] <= MaxWork

LEMMA ChansNat == 0 \in Chans /\ Chans \subseteq Nat
BY IrqAssumption DEF Chans

LEMMA IrqTypeStart == Init => IrqTypeInv
<1> SUFFICES ASSUME Init PROVE IrqTypeInv
  OBVIOUS
<1>1. owned \subseteq Napis /\ faults \subseteq FaultKinds
  BY IrqAssumption DEF Init
<1>2. /\ 0 \in 0 .. MaxWork /\ 0 + 0 <= MaxWork
      /\ inflight \in [Chans -> 0 .. MaxWork] /\ done \in [Chans -> 0 .. MaxWork]
      /\ received \in [Chans -> 0 .. MaxWork] /\ riwt \in [Chans -> BOOLEAN]
      /\ \A c \in Chans : inflight[c] + done[c] <= MaxWork
  BY IrqAssumption DEF Init
<1>3. /\ status \in [Chans -> SUBSET StatusBits] /\ int_en \in [Chans -> SUBSET Dirs]
      /\ ret \in [Chans -> SUBSET RetBits]
  BY DEF Init
<1>4. /\ poll \in [Napis -> {"off", "listed", "complete"}]
      /\ tail \in [Napis -> {"no", "read", "write"}]
      /\ timer \in [Chans -> {"idle", "prep", "read", "write"}]
  BY DEF Init
<1>5. /\ lock \in [Chans -> Contexts \cup {"free"}]
      /\ tmp \in [Chans \X Contexts -> SUBSET Dirs]
  BY DEF Init
<1> QED
  BY <1>1, <1>2, <1>3, <1>4, <1>5, ChansNat DEF Init, IrqTypeInv, TypeOK, Dirs, Phases

\* The next channel of the handler's loops is a channel.
LEMMA NextChan ==
  ASSUME NEW c \in Chans, c + 1 < NChan PROVE c + 1 \in Chans
BY IrqAssumption DEF Chans

LEMMA NextDirType ==
  ASSUME TypeOK, NextDir
  PROVE  isr' \in {"prep", "status", "err"} /\ ich' \in Chans /\ dir' \in Dirs
BY NextChan, ChansNat DEF NextDir, TypeOK, Dirs

LEMMA IrqTypeIsr ==
  ASSUME IrqTypeInv,
         IsrEnter \/ IsrSafety \/ Isr \/ IsrRead
  PROVE  IrqTypeInv'
<1> USE DEF plat, work, regs, napi, spin, tmr, handler, errors
<1>1. CASE IsrEnter \/ IsrSafety
  BY <1>1, ChansNat DEF IsrEnter, IsrSafety, IrqTypeInv, TypeOK
<1>2. CASE IsrStatus
  BY <1>2 DEF IsrStatus, IrqTypeInv, TypeOK
<1>3. CASE IsrClear
  BY <1>3 DEF IsrClear, IrqTypeInv, TypeOK, Handle, RetBits, Dirs
<1>4. CASE IsrSkip
  BY <1>4, NextDirType DEF IsrSkip, IrqTypeInv, TypeOK, Prep, Napis
<1>5. CASE IsrPrep
  BY <1>5 DEF IsrPrep, Asked, IrqTypeInv, TypeOK, Prep
<1>6. CASE IsrRead
  BY <1>6 DEF IsrRead, LockRead, IrqTypeInv, TypeOK, Contexts
<1>7. CASE IsrWrite
  <2>1. /\ int_en' \in [Chans -> SUBSET Dirs]
        /\ lock' \in [Chans -> Contexts \cup {"free"}]
        /\ tmp' \in [Chans \X Contexts -> SUBSET Dirs]
    BY <1>7 DEF IsrWrite, DisableIrq, Unlock, IrqTypeInv, TypeOK, Contexts
  <2>2. poll' \in [Napis -> {"off", "listed", "complete"}]
    BY <1>7 DEF IsrWrite, List, IrqTypeInv, TypeOK, Napis
  <2> QED
    BY <1>7, <2>1, <2>2, NextDirType DEF IsrWrite, IrqTypeInv, TypeOK
<1>8. CASE IsrErr
  <2>1. /\ ich' \in Chans /\ isr' \in {"err", "unmask"}
    BY <1>8, NextChan, ChansNat DEF IsrErr, IrqTypeInv, TypeOK
  <2>3. inflight' \in [Chans -> 0 .. MaxWork] /\ done' \in [Chans -> 0 .. MaxWork]
    BY <1>8, IrqAssumption DEF IsrErr, IrqTypeInv, TypeOK
  <2>4. tx_stopped' \subseteq Chans
    BY <1>8 DEF IsrErr, IrqTypeInv, TypeOK
  <2>2. \A c \in Chans : inflight'[c] + done'[c] <= MaxWork
    BY <1>8, IrqAssumption DEF IsrErr, IrqTypeInv, TypeOK
  <2> QED
    BY <1>8, <2>1, <2>2, <2>3, <2>4 DEF IsrErr, IrqTypeInv, TypeOK
<1>9. CASE IsrUnmask
  BY <1>9 DEF IsrUnmask, IrqTypeInv, TypeOK
<1> QED
  BY <1>1, <1>2, <1>3, <1>4, <1>5, <1>6, <1>7, <1>8, <1>9 DEF Isr

LEMMA IrqTypePoll ==
  ASSUME IrqTypeInv, NEW c \in Chans, NEW n \in Napis,
         PollRx(c) \/ PollTx(c) \/ PollComplete(n) \/ TailRead(n) \/ TailWrite(n)
  PROVE  IrqTypeInv'
<1> USE DEF plat, work, regs, napi, spin, tmr, handler, errors
<1>n. /\ n[1] \in Chans /\ n[2] \in Dirs /\ n[2] \in Contexts
      /\ <<c, "rx">> \in Napis /\ <<c, "tx">> \in Napis
  BY DEF Napis, Dirs, Contexts
<1>1. CASE PollRx(c)
  <2>1. received' \in [Chans -> 0 .. MaxWork]
    BY <1>1, IrqAssumption DEF PollRx, Least, IrqTypeInv, TypeOK
  <2>2. poll' \in [Napis -> {"off", "listed", "complete"}]
    BY <1>1, <1>n DEF PollRx, AfterWork, IrqTypeInv, TypeOK
  <2> QED
    BY <1>1, <2>1, <2>2 DEF PollRx, IrqTypeInv, TypeOK
<1>2. CASE PollTx(c)
  <2>1. done' \in [Chans -> 0 .. MaxWork] /\ \A x \in Chans : done'[x] <= done[x]
    BY <1>2, IrqAssumption DEF PollTx, IrqTypeInv, TypeOK
  <2>2. \A x \in Chans : inflight'[x] + done'[x] <= MaxWork
    BY <1>2, <2>1, IrqAssumption DEF PollTx, IrqTypeInv, TypeOK
  <2>3. poll' \in [Napis -> {"off", "listed", "complete"}] /\ armed' \subseteq Chans
    BY <1>2, <1>n DEF PollTx, AfterWork, IrqTypeInv, TypeOK
  <2> QED
    BY <1>2, <2>1, <2>2, <2>3 DEF PollTx, IrqTypeInv, TypeOK
<1>3. CASE PollComplete(n)
  BY <1>3 DEF PollComplete, CompleteDone, List, IrqTypeInv, TypeOK
<1>4. CASE TailRead(n)
  BY <1>4, <1>n DEF TailRead, LockRead, IrqTypeInv, TypeOK
<1>5. CASE TailWrite(n)
  BY <1>5, <1>n DEF TailWrite, EnableIrq, Unlock, IrqTypeInv, TypeOK
<1> QED
  BY <1>1, <1>2, <1>3, <1>4, <1>5

LEMMA IrqTypeTimer ==
  ASSUME IrqTypeInv, NEW c \in Chans,
         TimerFire(c) \/ TimerPrep(c) \/ TimerRead(c) \/ TimerWrite(c)
  PROVE  IrqTypeInv'
<1> USE DEF plat, work, regs, napi, spin, tmr, handler, errors
<1>n. <<c, "tx">> \in Napis /\ "timer" \in Contexts /\ "tx" \in Dirs
  BY DEF Napis, Dirs, Contexts
<1>1. CASE TimerFire(c)
  BY <1>1 DEF TimerFire, IrqTypeInv, TypeOK
<1>2. CASE TimerPrep(c)
  BY <1>2, <1>n DEF TimerPrep, Prep, IrqTypeInv, TypeOK
<1>3. CASE TimerRead(c)
  BY <1>3, <1>n DEF TimerRead, LockRead, IrqTypeInv, TypeOK
<1>4. CASE TimerWrite(c)
  BY <1>4, <1>n DEF TimerWrite, DisableIrq, Unlock, List, IrqTypeInv, TypeOK
<1> QED
  BY <1>1, <1>2, <1>3, <1>4

LEMMA IrqTypeDevice ==
  ASSUME IrqTypeInv, NEW c \in Chans, NEW n \in Napis,
         \/ Open \/ OpenNapi \/ Close \/ NapiDisable(n) \/ DelTimers \/ FreeIrq
         \/ FreeRings \/ TxTimeout \/ Xmit(c) \/ HwTx(c, TRUE) \/ HwTx(c, FALSE)
         \/ HwRx(c) \/ HwRiwt(c) \/ HwRxFull(c) \/ HwFbe(c)
  PROVE  IrqTypeInv'
<1> USE DEF plat, work, regs, napi, spin, tmr, handler, errors
<1>1. CASE Open \/ OpenNapi \/ Close \/ NapiDisable(n) \/ DelTimers \/ FreeIrq \/ TxTimeout
  <2>1. CASE Open \/ OpenNapi
    BY <2>1 DEF Open, OpenNapi, IrqTypeInv, TypeOK, Phases
  <2>2. CASE Close \/ NapiDisable(n)
    BY <2>2 DEF Close, NapiDisable, IrqTypeInv, TypeOK, Phases
  <2>3. CASE DelTimers \/ FreeIrq \/ TxTimeout
    BY <2>3 DEF DelTimers, FreeIrq, TxTimeout, IrqTypeInv, TypeOK, Phases
  <2> QED
    BY <1>1, <2>1, <2>2, <2>3
<1>2. CASE FreeRings
  <2>1. /\ inflight' \in [Chans -> 0 .. MaxWork] /\ done' \in [Chans -> 0 .. MaxWork]
        /\ received' \in [Chans -> 0 .. MaxWork] /\ riwt' \in [Chans -> BOOLEAN]
        /\ \A x \in Chans : inflight'[x] + done'[x] <= MaxWork
    BY <1>2, IrqAssumption DEF FreeRings
  <2> QED
    BY <1>2, <2>1 DEF FreeRings, IrqTypeInv, TypeOK, Phases
<1>3. CASE Xmit(c)
  <2>1. /\ inflight' \in [Chans -> 0 .. MaxWork]
        /\ \A x \in Chans : inflight'[x] + done[x] <= MaxWork
    BY <1>3, IrqAssumption DEF Xmit, IrqTypeInv, TypeOK
  <2> QED
    BY <1>3, <2>1 DEF Xmit, IrqTypeInv, TypeOK
<1>4. CASE HwTx(c, TRUE) \/ HwTx(c, FALSE)
  <2>1. /\ inflight' \in [Chans -> 0 .. MaxWork] /\ done' \in [Chans -> 0 .. MaxWork]
        /\ \A x \in Chans : inflight'[x] + done'[x] <= MaxWork
    BY <1>4, IrqAssumption DEF HwTx, IrqTypeInv, TypeOK
  <2>2. status' \in [Chans -> SUBSET StatusBits]
    BY <1>4 DEF HwTx, IrqTypeInv, TypeOK, StatusBits
  <2> QED
    BY <1>4, <2>1, <2>2 DEF HwTx, IrqTypeInv, TypeOK
<1>5. CASE HwRx(c)
  <2>1. received' \in [Chans -> 0 .. MaxWork] /\ riwt' \in [Chans -> BOOLEAN]
    BY <1>5, IrqAssumption DEF HwRx, IrqTypeInv, TypeOK
  <2> QED
    BY <1>5, <2>1 DEF HwRx, IrqTypeInv, TypeOK
<1>6. CASE HwRiwt(c) \/ HwRxFull(c) \/ HwFbe(c)
  <2>1. status' \in [Chans -> SUBSET StatusBits]
    BY <1>6 DEF HwRiwt, HwRxFull, HwFbe, IrqTypeInv, TypeOK, StatusBits
  <2>2. riwt' \in [Chans -> BOOLEAN] /\ tx_stopped' \subseteq Chans
    BY <1>6 DEF HwRiwt, HwRxFull, HwFbe, IrqTypeInv, TypeOK
  <2> QED
    BY <1>6, <2>1, <2>2 DEF HwRiwt, HwRxFull, HwFbe, IrqTypeInv, TypeOK
<1> QED
  BY <1>1, <1>2, <1>3, <1>4, <1>5, <1>6

\* Type correctness, for every number of channels, platform and environment;
\* the frames sent and not cleaned never exceed their bound together.
THEOREM IrqTypeCorrect == Spec => []TypeOK
<1>1. IrqTypeInv /\ [Next]_vars => IrqTypeInv'
  <2> SUFFICES ASSUME IrqTypeInv, [Next]_vars PROVE IrqTypeInv'
    OBVIOUS
  <2>1. CASE UNCHANGED vars
    BY <2>1 DEF vars, plat, work, regs, napi, spin, tmr, handler, errors, IrqTypeInv, TypeOK
  <2>2. CASE Next
    <3>1. owned \subseteq Napis /\ RxChans \subseteq Chans /\ TxChans \subseteq Chans
      BY DEF IrqTypeInv, TypeOK, RxChans, TxChans
    <3>2. 0 \in Chans /\ <<0, "rx">> \in Napis
      BY ChansNat DEF Napis, Dirs
    <3>3. CASE IsrEnter \/ IsrSafety \/ Isr \/ IsrRead
      BY <3>3, IrqTypeIsr
    <3>4. CASE \E c \in RxChans : PollRx(c) \/ HwRx(c) \/ HwRiwt(c) \/ HwRxFull(c)
      BY <3>4, <3>1, <3>2, IrqTypePoll, IrqTypeDevice
    <3>5. CASE \E c \in TxChans : \/ PollTx(c) \/ Xmit(c) \/ HwTx(c, TRUE) \/ HwTx(c, FALSE)
                                  \/ HwFbe(c)
      BY <3>5, <3>1, <3>2, IrqTypePoll, IrqTypeDevice
    <3>6. CASE \E c \in TxChans : \/ TimerFire(c) \/ TimerPrep(c)
                                  \/ TimerRead(c) \/ TimerWrite(c)
      BY <3>6, <3>1, IrqTypeTimer
    <3>7. CASE \E n \in owned : \/ PollComplete(n) \/ TailRead(n) \/ TailWrite(n)
                                \/ NapiDisable(n)
      BY <3>7, <3>1, <3>2, IrqTypePoll, IrqTypeDevice
    <3>8. CASE Open \/ OpenNapi \/ Close \/ DelTimers \/ FreeIrq \/ FreeRings \/ TxTimeout
      BY <3>8, <3>2, IrqTypeDevice
    <3> QED
      BY <2>2, <3>3, <3>4, <3>5, <3>6, <3>7, <3>8 DEF Next, Isr
  <2> QED
    BY <2>1, <2>2
<1>2. IrqTypeInv => TypeOK
  BY DEF IrqTypeInv
<1> QED
  BY <1>1, <1>2, IrqTypeStart, PTL DEF Spec

-----------------------------------------------------------------------------
(* The invariant.  SCHED is a token: who set it owns the NAPI until a poll   *)
(* completes, and only the owner turns the NAPI's interrupt off.             *)

ByPoll(n) == poll[n] # "off"
ByIsr(n) == isr \in {"read", "write"} /\ n = <<ich, dir>>
ByTimer(n) == n[2] = "tx" /\ timer[n[1]] \in {"read", "write"}
Held(n) == ByPoll(n) \/ ByIsr(n) \/ ByTimer(n)

\* Only a NAPI that is enabled and scheduled is held, by one context; a NAPI
\* that is not enabled stays scheduled.
TokenInv ==
  \A n \in Napis :
    /\ Held(n) => n \in scheduled /\ n \in enabled
    /\ ~(ByPoll(n) /\ ByIsr(n)) /\ ~(ByPoll(n) /\ ByTimer(n)) /\ ~(ByIsr(n) /\ ByTimer(n))
    /\ n \in owned /\ n \notin enabled => n \in scheduled

\* What open has not started, and release has stopped, is at rest.
PhaseInv ==
  /\ dev \in {"down", "irq_on", "timer_off", "irq_off"} =>
       enabled = {} /\ armed = {} /\ \A c \in Chans : timer[c] = "idle"
  /\ dev \in {"down", "irq_off"} => isr = "idle" /\ ~irq

\* ch->lock is held by who is between the two steps of its access to INT_EN.
LockInv ==
  \A c \in Chans :
    /\ \A d \in Dirs : lock[c] = d <=> tail[<<c, d>>] = "write"
    /\ lock[c] = "isr" <=> isr = "write" /\ ich = c
    /\ lock[c] = "timer" <=> timer[c] = "write"

\* Nobody has the interrupt of n off, nor is about to turn it on.
Quiet(n) == (n \notin enabled \/ n \notin scheduled) /\ tail[n] = "no"

\* INT_EN is set up: the device is open, or a poll that outlived it has still
\* to write the register.
InUse(c) == dev # "down" \/ \E d \in Dirs : tail[<<c, d>>] # "no"

\* A quiet NAPI has its interrupt on in the register, and in what the holder of
\* the lock has read and will write back.
EnableInv ==
  \A n \in owned : Quiet(n) =>
    /\ InUse(n[1]) => n[2] \in int_en[n[1]]
    /\ \A w \in Contexts : lock[n[1]] = w => n[2] \in tmp[<<n[1], w>>]

IrqInv == TypeOK /\ TokenInv /\ PhaseInv /\ LockInv /\ EnableInv

LEMMA IrqInvImplies == IrqInv => NoLostIrq /\ FreedQuiet
<1> SUFFICES ASSUME IrqInv PROVE NoLostIrq /\ FreedQuiet
  OBVIOUS
<1>1. NoLostIrq
  <2> SUFFICES ASSUME NEW n \in enabled, n \notin scheduled, tail[n] = "no"
               PROVE  n[2] \in int_en[n[1]]
    BY DEF NoLostIrq
  <2>1. n \in owned /\ Quiet(n)
    BY DEF Quiet, IrqInv, TypeOK
  <2>2. InUse(n[1])
    BY DEF InUse, IrqInv, PhaseInv
  <2> QED
    BY <2>1, <2>2 DEF IrqInv, EnableInv
<1>2. FreedQuiet
  BY DEF FreedQuiet, IrqInv, PhaseInv, TokenInv, Held, ByPoll
<1> QED
  BY <1>1, <1>2

LEMMA IrqStart == Init => IrqInv
<1> SUFFICES ASSUME Init PROVE IrqInv
  OBVIOUS
<1>1. TypeOK
  BY IrqTypeStart DEF IrqTypeInv
<1>2. \A n \in Napis : n[1] \in Chans /\ n[2] \in Dirs
  BY DEF Napis
<1>3. \A n \in Napis : ~Held(n)
  BY <1>2 DEF Init, Held, ByPoll, ByIsr, ByTimer
<1>4. TokenInv
  BY <1>3 DEF Init, TokenInv, Held
<1>5. PhaseInv
  BY DEF Init, PhaseInv
<1>6. \A c \in Chans : lock[c] = "free" /\ \A d \in Dirs : tail[<<c, d>>] = "no"
  BY DEF Init, Napis
<1>7. LockInv
  BY <1>6 DEF Init, LockInv, Dirs
<1>8. \A c \in Chans : ~InUse(c) /\ lock[c] \notin Contexts
  BY <1>6 DEF Init, InUse, Contexts, Dirs
<1>9. EnableInv
  BY <1>1, <1>2, <1>8 DEF EnableInv, TypeOK
<1> QED
  BY <1>1, <1>4, <1>5, <1>7, <1>9 DEF IrqInv

LEMMA NapiPair ==
  /\ \A n \in Napis : n[1] \in Chans /\ n[2] \in Dirs /\ n = <<n[1], n[2]>>
  /\ \A c \in Chans, d \in Dirs : <<c, d>> \in Napis
BY DEF Napis

\* What the four parts of the invariant speak of, but for the handler.
core == <<owned, dev, enabled, scheduled, poll, tail, lock, tmp, int_en, armed, timer, irq>>

\* Steps of the handler that neither take nor give back a NAPI, and steps of
\* others that change nothing the invariant speaks of.
LEMMA IrqElsewhere ==
  ASSUME IrqInv, UNCHANGED core,
         \/ UNCHANGED <<isr, ich, dir>>
         \/ /\ isr \notin {"read", "write"} /\ isr' \notin {"read", "write"}
            /\ irq \/ isr # "idle"
  PROVE  TokenInv' /\ PhaseInv' /\ LockInv' /\ EnableInv'
<1>1. \A n \in Napis : /\ ByPoll(n)' <=> ByPoll(n)
                       /\ ByIsr(n)' <=> ByIsr(n)
                       /\ ByTimer(n)' <=> ByTimer(n)
  BY DEF ByPoll, ByIsr, ByTimer, core
<1>2. TokenInv'
  BY <1>1 DEF IrqInv, TokenInv, Held, core
<1>3. PhaseInv'
  BY DEF IrqInv, PhaseInv, core
<1>4. LockInv'
  BY DEF IrqInv, LockInv, core
<1>5. EnableInv'
  BY DEF IrqInv, EnableInv, Quiet, InUse, core
<1> QED
  BY <1>2, <1>3, <1>4, <1>5

LEMMA IrqIsrPrep ==
  ASSUME IrqInv, IsrPrep
  PROVE  TokenInv' /\ PhaseInv' /\ LockInv' /\ EnableInv'
<1> DEFINE n == <<ich, dir>>
<1>1. /\ n \in owned /\ n \notin scheduled /\ scheduled' = scheduled \cup {n}
      /\ isr = "prep" /\ isr' = "read" /\ ich' = ich /\ dir' = dir
      /\ UNCHANGED <<owned, dev, enabled, poll, tail, lock, tmp, int_en, armed, timer, irq>>
  BY DEF IsrPrep, Asked, Prep, plat, regs, spin, tmr
<1>2. n \in Napis /\ n \in enabled /\ ~Held(n)
  BY <1>1 DEF IrqInv, TypeOK, TokenInv
<1>3. \A m \in Napis : /\ ByPoll(m)' <=> ByPoll(m)
                       /\ ByIsr(m)' <=> m = n
                       /\ ByTimer(m)' <=> ByTimer(m)
                       /\ ~ByIsr(m)
  BY <1>1 DEF ByPoll, ByIsr, ByTimer
<1>4. TokenInv'
  BY <1>1, <1>2, <1>3 DEF IrqInv, TokenInv, Held
<1>5. PhaseInv'
  BY <1>1 DEF IrqInv, PhaseInv
<1>6. LockInv'
  BY <1>1 DEF IrqInv, LockInv
<1>7. EnableInv'
  BY <1>1 DEF IrqInv, EnableInv, Quiet, InUse
<1> QED
  BY <1>4, <1>5, <1>6, <1>7

\* Taking ch->lock and reading INT_EN, whoever does it.
LEMMA EnableRead ==
  ASSUME IrqInv, NEW c \in Chans, NEW who \in Contexts, InUse(c), LockRead(c, who),
         UNCHANGED <<owned, dev, enabled, scheduled, int_en>>,
         tail' \in [Napis -> {"no", "read", "write"}],
         \A n \in Napis : tail'[n] = "no" <=> tail[n] = "no"
  PROVE  EnableInv'
<1> SUFFICES ASSUME NEW n \in owned, Quiet(n)'
             PROVE  /\ InUse(n[1])' => n[2] \in int_en[n[1]]
                    /\ \A w \in Contexts : lock'[n[1]] = w => n[2] \in tmp'[<<n[1], w>>]
  BY DEF EnableInv
<1>1. n \in Napis /\ n[1] \in Chans /\ Quiet(n)
  BY NapiPair DEF IrqInv, TypeOK, Quiet
<1>2. InUse(n[1])' <=> InUse(n[1])
  BY <1>1, NapiPair DEF InUse
<1>3. InUse(n[1]) => n[2] \in int_en[n[1]]
  BY <1>1 DEF IrqInv, EnableInv
<1>4. ASSUME NEW w \in Contexts, lock'[n[1]] = w PROVE n[2] \in tmp'[<<n[1], w>>]
  <2>1. CASE n[1] = c
    BY <1>1, <1>3, <1>4, <2>1 DEF LockRead, IrqInv, TypeOK
  <2>2. CASE n[1] # c
    <3>1. lock'[n[1]] = lock[n[1]] /\ tmp'[<<n[1], w>>] = tmp[<<n[1], w>>]
      BY <1>1, <2>2 DEF LockRead, IrqInv, TypeOK
    <3> QED
      BY <3>1, <1>1, <1>4 DEF IrqInv, EnableInv
  <2> QED
    BY <2>1, <2>2
<1> QED
  BY <1>2, <1>3, <1>4

LEMMA IrqIsrRead ==
  ASSUME IrqInv, IsrRead
  PROVE  TokenInv' /\ PhaseInv' /\ LockInv' /\ EnableInv'
<1>1. /\ LockRead(ich, "isr") /\ isr = "read" /\ isr' = "write" /\ ich' = ich /\ dir' = dir
      /\ ich \in Chans /\ "isr" \in Contexts
      /\ UNCHANGED <<owned, dev, enabled, scheduled, poll, tail, int_en, armed, timer, irq>>
  BY DEF IsrRead, plat, work, regs, napi, tmr, IrqInv, TypeOK, Contexts
<1>2. \A n \in Napis : /\ ByPoll(n)' <=> ByPoll(n)
                       /\ ByIsr(n)' <=> ByIsr(n)
                       /\ ByTimer(n)' <=> ByTimer(n)
  BY <1>1 DEF ByPoll, ByIsr, ByTimer
<1>3. TokenInv'
  BY <1>1, <1>2 DEF IrqInv, TokenInv, Held
<1>4. PhaseInv'
  BY <1>1 DEF IrqInv, PhaseInv
<1>5. LockInv'
  <2>1. \A c \in Chans : /\ c = ich => lock[c] = "free" /\ lock'[c] = "isr"
                         /\ c # ich => lock'[c] = lock[c]
    BY <1>1 DEF LockRead, IrqInv, TypeOK
  <2> SUFFICES ASSUME NEW c \in Chans
               PROVE  /\ \A d \in Dirs : lock'[c] = d <=> tail'[<<c, d>>] = "write"
                      /\ lock'[c] = "isr" <=> isr' = "write" /\ ich' = c
                      /\ lock'[c] = "timer" <=> timer'[c] = "write"
    BY DEF LockInv
  <2>2. /\ \A d \in Dirs : lock[c] = d <=> tail[<<c, d>>] = "write"
        /\ lock[c] = "isr" <=> isr = "write" /\ ich = c
        /\ lock[c] = "timer" <=> timer[c] = "write"
    BY DEF IrqInv, LockInv
  <2>3. \A d \in Dirs : d # "isr" /\ d # "free"
    BY DEF Dirs
  <2> QED
    BY <1>1, <2>1, <2>2, <2>3
<1>6. InUse(ich)
  BY <1>1 DEF IrqInv, PhaseInv, InUse
<1>7. EnableInv'
  BY <1>1, <1>6, EnableRead DEF IrqInv, TypeOK
<1> QED
  BY <1>3, <1>4, <1>5, <1>7

LEMMA IrqTailRead ==
  ASSUME IrqInv, NEW n \in owned, TailRead(n)
  PROVE  TokenInv' /\ PhaseInv' /\ LockInv' /\ EnableInv'
<1> DEFINE c == n[1]
           d == n[2]
<1>1. /\ n \in Napis /\ c \in Chans /\ d \in Dirs /\ d \in Contexts /\ n = <<c, d>>
      /\ LockRead(c, d) /\ tail[n] = "read" /\ tail' = [tail EXCEPT ![n] = "write"]
      /\ UNCHANGED <<owned, dev, enabled, scheduled, poll, int_en, armed, timer, irq,
                     isr, ich, dir>>
  BY NapiPair DEF TailRead, plat, work, regs, tmr, handler, IrqInv, TypeOK, Contexts
<1>2. \A m \in Napis : /\ ByPoll(m)' <=> ByPoll(m)
                       /\ ByIsr(m)' <=> ByIsr(m)
                       /\ ByTimer(m)' <=> ByTimer(m)
  BY <1>1 DEF ByPoll, ByIsr, ByTimer
<1>3. TokenInv'
  BY <1>1, <1>2 DEF IrqInv, TokenInv, Held
<1>4. PhaseInv'
  BY <1>1 DEF IrqInv, PhaseInv
<1>5. /\ tail' \in [Napis -> {"no", "read", "write"}] /\ tail'[n] = "write"
      /\ \A m \in Napis : m # n => tail'[m] = tail[m]
  BY <1>1 DEF IrqInv, TypeOK
<1>6. LockInv'
  <2>1. \A x \in Chans : /\ x = c => lock[x] = "free" /\ lock'[x] = d
                         /\ x # c => lock'[x] = lock[x]
    BY <1>1 DEF LockRead, IrqInv, TypeOK
  <2>2. ASSUME NEW x \in Chans, NEW e \in Dirs
        PROVE  lock'[x] = e <=> tail'[<<x, e>>] = "write"
    <3>1. CASE x = c /\ e = d
      BY <1>1, <1>5, <2>1, <3>1
    <3>2. CASE ~(x = c /\ e = d)
      <4>1. <<x, e>> # n /\ <<x, e>> \in Napis
        BY <1>1, <3>2, NapiPair
      <4>2. tail'[<<x, e>>] = tail[<<x, e>>]
        BY <4>1, <1>5
      <4>3. lock[x] = e <=> tail[<<x, e>>] = "write"
        BY DEF IrqInv, LockInv
      <4> QED
        BY <1>1, <2>1, <4>2, <4>3, <3>2 DEF Dirs
    <3> QED
      BY <3>1, <3>2
  <2>3. ASSUME NEW x \in Chans
        PROVE  /\ lock'[x] = "isr" <=> isr' = "write" /\ ich' = x
               /\ lock'[x] = "timer" <=> timer'[x] = "write"
    <3>1. /\ lock[x] = "isr" <=> isr = "write" /\ ich = x
          /\ lock[x] = "timer" <=> timer[x] = "write"
      BY DEF IrqInv, LockInv
    <3>2. isr' = isr /\ ich' = ich /\ timer' = timer /\ d # "isr" /\ d # "timer"
      BY <1>1 DEF Dirs
    <3> QED
      BY <2>1, <3>1, <3>2
  <2> QED
    BY <2>2, <2>3 DEF LockInv
<1>7. InUse(c)
  BY <1>1 DEF InUse
<1>8. EnableInv'
  BY <1>1, <1>5, <1>7, EnableRead
<1> QED
  BY <1>3, <1>4, <1>6, <1>8

LEMMA IrqTimerRead ==
  ASSUME IrqInv, NEW c \in Chans, TimerRead(c)
  PROVE  TokenInv' /\ PhaseInv' /\ LockInv' /\ EnableInv'
<1>1. /\ LockRead(c, "timer") /\ timer[c] = "read" /\ timer' = [timer EXCEPT ![c] = "write"]
      /\ "timer" \in Contexts
      /\ UNCHANGED <<owned, dev, enabled, scheduled, poll, tail, int_en, armed, irq,
                     isr, ich, dir>>
  BY DEF TimerRead, plat, work, regs, napi, handler, Contexts
<1>2. timer'[c] = "write" /\ \A x \in Chans : x # c => timer'[x] = timer[x]
  BY <1>1 DEF IrqInv, TypeOK
<1>3. \A m \in Napis : /\ ByPoll(m)' <=> ByPoll(m)
                       /\ ByIsr(m)' <=> ByIsr(m)
                       /\ ByTimer(m)' <=> ByTimer(m)
  BY <1>1, <1>2, NapiPair DEF ByPoll, ByIsr, ByTimer
<1>4. TokenInv'
  BY <1>1, <1>3 DEF IrqInv, TokenInv, Held
<1>5. dev \notin {"down", "irq_on", "timer_off", "irq_off"}
  BY <1>1 DEF IrqInv, PhaseInv
<1>6. PhaseInv'
  BY <1>1, <1>5 DEF PhaseInv
<1>7. LockInv'
  <2>1. \A x \in Chans : /\ x = c => lock[x] = "free" /\ lock'[x] = "timer"
                         /\ x # c => lock'[x] = lock[x]
    BY <1>1 DEF LockRead, IrqInv, TypeOK
  <2> SUFFICES ASSUME NEW x \in Chans
               PROVE  /\ \A d \in Dirs : lock'[x] = d <=> tail'[<<x, d>>] = "write"
                      /\ lock'[x] = "isr" <=> isr' = "write" /\ ich' = x
                      /\ lock'[x] = "timer" <=> timer'[x] = "write"
    BY DEF LockInv
  <2>2. /\ \A d \in Dirs : lock[x] = d <=> tail[<<x, d>>] = "write"
        /\ lock[x] = "isr" <=> isr = "write" /\ ich = x
        /\ lock[x] = "timer" <=> timer[x] = "write"
    BY DEF IrqInv, LockInv
  <2>3. isr' = isr /\ ich' = ich /\ tail' = tail
    BY <1>1
  <2>4. \A d \in Dirs : d # "timer" /\ d # "free"
    BY DEF Dirs
  <2> QED
    BY <1>2, <2>1, <2>2, <2>3, <2>4
<1>8. InUse(c)
  BY <1>5 DEF InUse
<1>9. EnableInv'
  BY <1>1, <1>8, EnableRead DEF IrqInv, TypeOK
<1> QED
  BY <1>4, <1>6, <1>7, <1>9

\* Writing INT_EN back and giving ch->lock up: the bits of the other direction
\* are what they were when the register was read.  The holder turns off only
\* the interrupt of a NAPI it holds.
LEMMA EnableWrite ==
  ASSUME IrqInv, NEW c \in Chans, NEW who \in Contexts, NEW d \in Dirs,
         lock[c] = who, Unlock(c, who),
         \/ int_en' = [int_en EXCEPT ![c] = tmp[<<c, who>>] \cup {d}]
         \/ /\ int_en' = [int_en EXCEPT ![c] = tmp[<<c, who>>] \ {d}]
            /\ ~Quiet(<<c, d>>)'
         ,
         UNCHANGED <<owned, dev, enabled, scheduled>>,
         \A n \in Napis : n # <<c, d>> => tail'[n] = tail[n],
         \A n \in Napis : tail[n] = "no" => tail'[n] = "no"
  PROVE  EnableInv'
<1> SUFFICES ASSUME NEW n \in owned, Quiet(n)'
             PROVE  /\ InUse(n[1])' => n[2] \in int_en'[n[1]]
                    /\ \A w \in Contexts : lock'[n[1]] = w => n[2] \in tmp'[<<n[1], w>>]
  BY DEF EnableInv
<1>1. n \in Napis /\ n[1] \in Chans /\ n[2] \in Dirs /\ n = <<n[1], n[2]>>
  BY NapiPair DEF IrqInv, TypeOK
<1>2. CASE n[1] = c
  <2>1. \A w \in Contexts : lock'[c] # w
    BY DEF Unlock, IrqInv, TypeOK, Contexts, Dirs
  <2>2. n[2] \in int_en'[c]
    <3>1. CASE n[2] = d
      <4>1. Quiet(<<c, d>>)'
        <5>1. n = <<c, d>>
          BY <1>1, <1>2, <3>1
        <5> QED
          BY <5>1
      <4>2. int_en' = [int_en EXCEPT ![c] = tmp[<<c, who>>] \cup {d}]
        BY <4>1
      <4>3. int_en'[c] = tmp[<<c, who>>] \cup {d}
        BY <4>2 DEF IrqInv, TypeOK
      <4> QED
        BY <4>3, <3>1
    <3>2. CASE n[2] # d
      <4>1. Quiet(n)
        BY <1>1, <3>2 DEF Quiet
      <4>2. n[2] \in tmp[<<c, who>>]
        BY <4>1, <1>2 DEF IrqInv, EnableInv
      <4>3. \/ int_en'[c] = tmp[<<c, who>>] \cup {d}
            \/ int_en'[c] = tmp[<<c, who>>] \ {d}
        BY DEF IrqInv, TypeOK
      <4> QED
        BY <4>2, <4>3, <3>2
    <3> QED
      BY <3>1, <3>2
  <2> QED
    BY <1>2, <2>1, <2>2
<1>3. CASE n[1] # c
  <2>1. tail'[n] = tail[n] /\ Quiet(n)
    BY <1>1, <1>3 DEF Quiet
  <2>2. InUse(n[1])' <=> InUse(n[1])
    BY <1>1, <1>3, NapiPair DEF InUse
  <2>3. int_en'[n[1]] = int_en[n[1]] /\ lock'[n[1]] = lock[n[1]]
    BY <1>1, <1>3 DEF Unlock, IrqInv, TypeOK
  <2>4. \A w \in Contexts : tmp'[<<n[1], w>>] = tmp[<<n[1], w>>]
    BY <1>1, <1>3 DEF Unlock, IrqInv, TypeOK
  <2> QED
    BY <2>1, <2>2, <2>3, <2>4 DEF IrqInv, EnableInv
<1> QED
  BY <1>2, <1>3

\* The token passes from the handler or the timer to the poll list.
LEMMA TokenListed ==
  ASSUME IrqInv, NEW n \in Napis, ByIsr(n) \/ ByTimer(n), List(n),
         UNCHANGED <<owned, enabled, scheduled>>,
         ~ByIsr(n)', ~ByTimer(n)',
         \A m \in Napis : m # n => /\ ByIsr(m)' => ByIsr(m)
                                   /\ ByTimer(m)' => ByTimer(m)
  PROVE  TokenInv'
<1>1. /\ \A m \in Napis : m # n => (ByPoll(m)' <=> ByPoll(m))
      /\ n \in scheduled /\ n \in enabled
  BY DEF List, ByPoll, Held, IrqInv, TypeOK, TokenInv
<1>2. ASSUME NEW m \in Napis, Held(m)' PROVE Held(m)
  <2>1. CASE m = n
    BY <2>1 DEF Held
  <2>2. CASE m # n
    BY <1>1, <1>2, <2>2 DEF Held
  <2> QED
    BY <2>1, <2>2
<1>3. TokenInv
  BY DEF IrqInv
<1>4. \A m \in Napis : Held(m)' => m \in scheduled' /\ m \in enabled'
  BY <1>2, <1>3 DEF TokenInv
<1>5. \A m \in Napis : m \in owned' /\ m \notin enabled' => m \in scheduled'
  BY <1>3 DEF TokenInv
<1>6. ASSUME NEW m \in Napis
      PROVE  /\ ~(ByPoll(m)' /\ ByIsr(m)') /\ ~(ByPoll(m)' /\ ByTimer(m)')
             /\ ~(ByIsr(m)' /\ ByTimer(m)')
  <2>1. CASE m = n
    BY <2>1
  <2>2. CASE m # n
    <3>1. /\ ~(ByPoll(m) /\ ByIsr(m)) /\ ~(ByPoll(m) /\ ByTimer(m))
          /\ ~(ByIsr(m) /\ ByTimer(m))
      BY <1>3 DEF TokenInv
    <3> QED
      BY <1>1, <2>2, <3>1
  <2> QED
    BY <2>1, <2>2
<1> QED
  BY <1>4, <1>5, <1>6 DEF TokenInv

LEMMA IrqIsrWrite ==
  ASSUME IrqInv, IsrWrite
  PROVE  TokenInv' /\ PhaseInv' /\ LockInv' /\ EnableInv'
<1>c. PICK c \in Chans, d \in Dirs : c = ich /\ d = dir
  BY DEF IrqInv, TypeOK
<1> DEFINE n == <<c, d>>
<1>1. /\ n \in Napis /\ c = ich /\ d = dir /\ "isr" \in Contexts
      /\ isr = "write" /\ DisableIrq(c, "isr", d) /\ List(n) /\ NextDir
      /\ UNCHANGED <<owned, dev, enabled, scheduled, tail, armed, timer, irq>>
  BY <1>c, NapiPair DEF IsrWrite, plat, work, tmr, IrqInv, TypeOK, Contexts
<1>2. isr' \in {"prep", "status", "err"}
  BY <1>1, NextDirType DEF IrqInv
<1>3. ByIsr(n) /\ n \in scheduled /\ n \in enabled /\ ~ByTimer(n)
  BY <1>1 DEF ByIsr, Held, IrqInv, TokenInv
<1>4. \A m \in Napis : ~ByIsr(m)' /\ (ByTimer(m)' <=> ByTimer(m))
  BY <1>1, <1>2 DEF ByIsr, ByTimer
<1>5. TokenInv'
  BY <1>1, <1>3, <1>4, TokenListed
<1>6. PhaseInv'
  BY <1>1 DEF IrqInv, PhaseInv
<1>7. lock[c] = "isr"
  BY <1>1 DEF IrqInv, LockInv
<1>8. LockInv'
  <2>1. \A x \in Chans : /\ x = c => lock'[x] = "free"
                         /\ x # c => lock'[x] = lock[x]
    BY <1>1 DEF DisableIrq, Unlock, IrqInv, TypeOK
  <2> QED
    BY <1>1, <1>2, <1>7, <2>1 DEF IrqInv, LockInv, Dirs
<1>9. EnableInv'
  <2>1. ~Quiet(n)'
    BY <1>1, <1>3 DEF Quiet
  <2> QED
    BY <1>1, <1>7, <2>1, EnableWrite DEF DisableIrq
<1> QED
  BY <1>5, <1>6, <1>8, <1>9

LEMMA IrqTimerWrite ==
  ASSUME IrqInv, NEW c \in Chans, TimerWrite(c)
  PROVE  TokenInv' /\ PhaseInv' /\ LockInv' /\ EnableInv'
<1> DEFINE n == <<c, "tx">>
<1>1. /\ n \in Napis /\ "tx" \in Dirs /\ "timer" \in Contexts
      /\ timer[c] = "write" /\ timer' = [timer EXCEPT ![c] = "idle"]
      /\ DisableIrq(c, "timer", "tx") /\ List(n)
      /\ UNCHANGED <<owned, dev, enabled, scheduled, tail, armed, irq, isr, ich, dir>>
  BY NapiPair DEF TimerWrite, plat, work, handler, Contexts, Dirs
<1>2. timer'[c] = "idle" /\ \A x \in Chans : x # c => timer'[x] = timer[x]
  BY <1>1 DEF IrqInv, TypeOK
<1>3. ByTimer(n) /\ n \in scheduled /\ n \in enabled /\ ~ByIsr(n)
  BY <1>1 DEF ByTimer, Held, IrqInv, TokenInv
<1>4. /\ ~ByTimer(n)'
      /\ \A m \in Napis : (ByIsr(m)' <=> ByIsr(m)) /\ (ByTimer(m)' => ByTimer(m))
  BY <1>1, <1>2, NapiPair DEF ByIsr, ByTimer
<1>5. TokenInv'
  BY <1>1, <1>3, <1>4, TokenListed
<1>6. PhaseInv'
  BY <1>1, <1>2 DEF IrqInv, PhaseInv
<1>7. lock[c] = "timer"
  BY <1>1 DEF IrqInv, LockInv
<1>8. LockInv'
  <2>1. \A x \in Chans : /\ x = c => lock'[x] = "free"
                         /\ x # c => lock'[x] = lock[x]
    BY <1>1 DEF DisableIrq, Unlock, IrqInv, TypeOK
  <2> SUFFICES ASSUME NEW x \in Chans
               PROVE  /\ \A d \in Dirs : lock'[x] = d <=> tail'[<<x, d>>] = "write"
                      /\ lock'[x] = "isr" <=> isr' = "write" /\ ich' = x
                      /\ lock'[x] = "timer" <=> timer'[x] = "write"
    BY DEF LockInv
  <2>2. /\ \A d \in Dirs : lock[x] = d <=> tail[<<x, d>>] = "write"
        /\ lock[x] = "isr" <=> isr = "write" /\ ich = x
        /\ lock[x] = "timer" <=> timer[x] = "write"
    BY DEF IrqInv, LockInv
  <2>3. isr' = isr /\ ich' = ich /\ tail' = tail
    BY <1>1
  <2>4. \A d \in Dirs : d # "timer" /\ d # "free"
    BY DEF Dirs
  <2> QED
    BY <1>2, <1>7, <2>1, <2>2, <2>3, <2>4
<1>9. EnableInv'
  <2>1. ~Quiet(n)'
    BY <1>1, <1>3 DEF Quiet
  <2> QED
    BY <1>1, <1>7, <2>1, EnableWrite DEF DisableIrq
<1> QED
  BY <1>5, <1>6, <1>8, <1>9

LEMMA IrqTailWrite ==
  ASSUME IrqInv, NEW n \in owned, TailWrite(n)
  PROVE  TokenInv' /\ PhaseInv' /\ LockInv' /\ EnableInv'
<1> DEFINE c == n[1]
           d == n[2]
<1>1. /\ n \in Napis /\ c \in Chans /\ d \in Dirs /\ d \in Contexts /\ n = <<c, d>>
      /\ EnableIrq(c, d, d) /\ tail[n] = "write" /\ tail' = [tail EXCEPT ![n] = "no"]
      /\ UNCHANGED <<owned, dev, enabled, scheduled, poll, armed, timer, irq, isr, ich, dir>>
  BY NapiPair DEF TailWrite, plat, work, tmr, handler, IrqInv, TypeOK, Contexts
<1>2. \A m \in Napis : /\ ByPoll(m)' <=> ByPoll(m)
                       /\ ByIsr(m)' <=> ByIsr(m)
                       /\ ByTimer(m)' <=> ByTimer(m)
  BY <1>1 DEF ByPoll, ByIsr, ByTimer
<1>3. TokenInv'
  BY <1>1, <1>2 DEF IrqInv, TokenInv, Held
<1>4. PhaseInv'
  BY <1>1 DEF IrqInv, PhaseInv
<1>5. tail'[n] = "no" /\ \A m \in Napis : m # n => tail'[m] = tail[m]
  BY <1>1 DEF IrqInv, TypeOK
<1>6. lock[c] = d
  BY <1>1 DEF IrqInv, LockInv
<1>7. \A x \in Chans : /\ x = c => lock'[x] = "free"
                       /\ x # c => lock'[x] = lock[x]
  BY <1>1 DEF EnableIrq, Unlock, IrqInv, TypeOK
<1>8. LockInv'
  <2>1. ASSUME NEW x \in Chans, NEW e \in Dirs
        PROVE  lock'[x] = e <=> tail'[<<x, e>>] = "write"
    <3>1. CASE x = c /\ e = d
      BY <1>1, <1>5, <1>7, <3>1 DEF Dirs
    <3>2. CASE ~(x = c /\ e = d)
      <4>1. <<x, e>> # n /\ <<x, e>> \in Napis
        BY <1>1, <3>2, NapiPair
      <4>2. tail'[<<x, e>>] = tail[<<x, e>>]
        BY <4>1, <1>5
      <4>3. lock[x] = e <=> tail[<<x, e>>] = "write"
        BY DEF IrqInv, LockInv
      <4>4. e # "free"
        BY DEF Dirs
      <4> QED
        BY <1>6, <1>7, <4>2, <4>3, <4>4, <3>2
    <3> QED
      BY <3>1, <3>2
  <2>2. ASSUME NEW x \in Chans
        PROVE  /\ lock'[x] = "isr" <=> isr' = "write" /\ ich' = x
               /\ lock'[x] = "timer" <=> timer'[x] = "write"
    <3>1. /\ lock[x] = "isr" <=> isr = "write" /\ ich = x
          /\ lock[x] = "timer" <=> timer[x] = "write"
      BY DEF IrqInv, LockInv
    <3>2. isr' = isr /\ ich' = ich /\ timer' = timer /\ d # "isr" /\ d # "timer"
      BY <1>1 DEF Dirs
    <3> QED
      BY <1>6, <1>7, <3>1, <3>2
  <2> QED
    BY <2>1, <2>2 DEF LockInv
<1>9. EnableInv'
  BY <1>1, <1>5, <1>6, EnableWrite DEF EnableIrq
<1> QED
  BY <1>3, <1>4, <1>8, <1>9

Resting == dev \in {"down", "irq_on", "timer_off", "irq_off"}

\* A timer handler that starts or gives up.
LEMMA IrqTimerFire ==
  ASSUME IrqInv, NEW c \in Chans, timer[c] \in {"idle", "prep"},
         \E to \in {"idle", "prep"} : timer' = [timer EXCEPT ![c] = to],
         armed' \subseteq armed, ~Resting,
         UNCHANGED <<owned, dev, enabled, scheduled, poll, tail, lock, tmp, int_en, irq,
                     isr, ich, dir>>
  PROVE  TokenInv' /\ PhaseInv' /\ LockInv' /\ EnableInv'
<1>1. timer'[c] \in {"idle", "prep"} /\ \A x \in Chans : x # c => timer'[x] = timer[x]
  BY DEF IrqInv, TypeOK
<1>2. \A m \in Napis : /\ ByPoll(m)' <=> ByPoll(m)
                       /\ ByIsr(m)' <=> ByIsr(m)
                       /\ ByTimer(m)' <=> ByTimer(m)
  BY <1>1, NapiPair DEF ByPoll, ByIsr, ByTimer
<1>3. TokenInv'
  BY <1>2 DEF IrqInv, TokenInv, Held
<1>4. PhaseInv'
  BY DEF IrqInv, PhaseInv, Resting
<1>5. \A x \in Chans : timer'[x] = "write" <=> timer[x] = "write"
  BY <1>1
<1>6. LockInv'
  BY <1>5 DEF IrqInv, LockInv
<1>7. EnableInv'
  BY DEF IrqInv, EnableInv, Quiet, InUse
<1> QED
  BY <1>3, <1>4, <1>6, <1>7

\* The timer takes the NAPI.
LEMMA IrqTimerPrep ==
  ASSUME IrqInv, NEW c \in TxChans, TimerPrep(c), timer'[c] = "read"
  PROVE  TokenInv' /\ PhaseInv' /\ LockInv' /\ EnableInv'
<1> DEFINE n == <<c, "tx">>
<1>1. /\ c \in Chans /\ n \in owned /\ n \in Napis
      /\ UNCHANGED <<owned, dev, enabled, poll, tail, lock, tmp, int_en, armed, irq,
                     isr, ich, dir>>
  BY NapiPair DEF TxChans, TimerPrep, plat, work, regs, spin, handler, Dirs
<1>2. /\ timer[c] = "prep" /\ timer' = [timer EXCEPT ![c] = "read"]
      /\ n \notin scheduled /\ scheduled' = scheduled \cup {n}
  BY <1>1 DEF TimerPrep, Prep, IrqInv, TypeOK
<1>3. \A x \in Chans : x # c => timer'[x] = timer[x]
  BY <1>2 DEF IrqInv, TypeOK
<1>4. n \in enabled /\ ~Held(n)
  BY <1>1, <1>2 DEF IrqInv, TokenInv
<1>5. \A m \in Napis : m # n => m[2] # "tx" \/ m[1] # c
  BY NapiPair
<1>6. \A m \in Napis : /\ ByPoll(m)' <=> ByPoll(m)
                       /\ ByIsr(m)' <=> ByIsr(m)
                       /\ m # n => (ByTimer(m)' <=> ByTimer(m))
  BY <1>1, <1>3, <1>5, NapiPair DEF ByPoll, ByIsr, ByTimer
<1>7. TokenInv'
  BY <1>1, <1>2, <1>4, <1>6 DEF IrqInv, TokenInv, Held
<1>8. PhaseInv'
  BY <1>1, <1>4 DEF IrqInv, PhaseInv
<1>9. LockInv'
  <2>1. \A x \in Chans : timer'[x] = "write" <=> timer[x] = "write"
    BY <1>1, <1>2, <1>3
  <2> QED
    BY <1>1, <2>1 DEF IrqInv, LockInv
<1>10. EnableInv'
  BY <1>1, <1>2 DEF IrqInv, EnableInv, Quiet, InUse
<1> QED
  BY <1>7, <1>8, <1>9, <1>10

LEMMA IrqTimerStep ==
  ASSUME IrqInv, NEW c \in TxChans, TimerFire(c) \/ TimerPrep(c)
  PROVE  TokenInv' /\ PhaseInv' /\ LockInv' /\ EnableInv'
<1>c. c \in Chans
  BY DEF TxChans
<1>1. ~Resting
  BY <1>c DEF TimerFire, TimerPrep, Resting, IrqInv, PhaseInv
<1>2. CASE TimerFire(c)
  BY <1>c, <1>1, <1>2, IrqTimerFire
     DEF TimerFire, plat, work, regs, napi, spin, handler
<1>3. CASE TimerPrep(c)
  <2>1. PICK ok \in BOOLEAN :
          /\ Prep(<<c, "tx">>, ok)
          /\ timer' = [timer EXCEPT ![c] = IF ok THEN "read" ELSE "idle"]
    BY <1>3 DEF TimerPrep
  <2>2. CASE ok
    BY <1>c, <1>3, <2>1, <2>2, IrqTimerPrep DEF IrqInv, TypeOK
  <2>3. CASE ~ok
    <3>1. scheduled' = scheduled
      BY <2>1, <2>3 DEF Prep
    <3> QED
      BY <1>c, <1>1, <1>3, <2>1, <2>3, <3>1, IrqTimerFire
         DEF TimerPrep, plat, work, regs, spin, handler
  <2> QED
    BY <2>2, <2>3
<1> QED
  BY <1>2, <1>3

\* The work of a poll, and xmit: only the timer may become pending.
LEMMA IrqArmed ==
  ASSUME IrqInv, ~Resting, NEW n \in Napis,
         poll' = poll \/ (poll[n] = "listed" /\ poll' = [poll EXCEPT ![n] = "complete"]),
         UNCHANGED <<owned, dev, enabled, scheduled, tail, lock, tmp, int_en, timer, irq,
                     isr, ich, dir>>
  PROVE  TokenInv' /\ PhaseInv' /\ LockInv' /\ EnableInv'
<1>1. \A m \in Napis : /\ ByPoll(m)' <=> ByPoll(m)
                       /\ ByIsr(m)' <=> ByIsr(m)
                       /\ ByTimer(m)' <=> ByTimer(m)
  BY DEF ByPoll, ByIsr, ByTimer, IrqInv, TypeOK
<1>2. TokenInv'
  BY <1>1 DEF IrqInv, TokenInv, Held
<1>3. PhaseInv'
  BY DEF IrqInv, PhaseInv, Resting
<1>4. LockInv'
  BY DEF IrqInv, LockInv
<1>5. EnableInv'
  BY DEF IrqInv, EnableInv, Quiet, InUse
<1> QED
  BY <1>2, <1>3, <1>4, <1>5

LEMMA IrqPollWork ==
  ASSUME IrqInv, NEW c \in Chans, PollRx(c) \/ PollTx(c) \/ Xmit(c)
  PROVE  TokenInv' /\ PhaseInv' /\ LockInv' /\ EnableInv'
<1>n. <<c, "rx">> \in Napis /\ <<c, "tx">> \in Napis
  BY NapiPair DEF Dirs
<1>1. CASE PollRx(c)
  <2>1. <<c, "rx">> \in enabled
    BY <1>1, <1>n DEF PollRx, IrqInv, TokenInv, Held, ByPoll
  <2>2. ~Resting
    BY <2>1 DEF Resting, IrqInv, PhaseInv
  <2> QED
    BY <1>1, <1>n, <2>2, IrqArmed
       DEF PollRx, AfterWork, plat, regs, spin, tmr, handler
<1>2. CASE PollTx(c)
  <2>1. <<c, "tx">> \in enabled
    BY <1>2, <1>n DEF PollTx, IrqInv, TokenInv, Held, ByPoll
  <2>2. ~Resting
    BY <2>1 DEF Resting, IrqInv, PhaseInv
  <2> QED
    BY <1>2, <1>n, <2>2, IrqArmed
       DEF PollTx, AfterWork, plat, regs, spin, handler
<1>3. CASE Xmit(c)
  BY <1>3, <1>n, IrqArmed DEF Xmit, Resting, plat, regs, napi, spin, handler
<1> QED
  BY <1>1, <1>2, <1>3

\* A poll completes: it gives the NAPI back, with the interrupt still to be
\* turned on, or goes back on the list for a schedule it has missed.
LEMMA IrqPollComplete ==
  ASSUME IrqInv, NEW n \in owned, PollComplete(n)
  PROVE  TokenInv' /\ PhaseInv' /\ LockInv' /\ EnableInv'
<1>1. /\ n \in Napis /\ n \in enabled /\ poll[n] = "complete" /\ tail[n] = "no"
      /\ ~ByIsr(n) /\ ~ByTimer(n)
      /\ UNCHANGED <<owned, dev, enabled, lock, tmp, int_en, armed, timer, irq, isr, ich, dir>>
  BY DEF PollComplete, plat, work, regs, spin, tmr, handler, IrqInv, TypeOK, TokenInv,
         Held, ByPoll
<1>2. ~Resting
  BY <1>1 DEF IrqInv, PhaseInv, Resting
<1>3. PhaseInv'
  BY <1>1, <1>2 DEF IrqInv, PhaseInv, Resting
<1>4. \A m \in Napis : (ByIsr(m)' <=> ByIsr(m)) /\ (ByTimer(m)' <=> ByTimer(m))
  BY <1>1 DEF ByIsr, ByTimer
<1>5. CASE n \in missed
  <2>1. poll' = [poll EXCEPT ![n] = "listed"] /\ UNCHANGED <<scheduled, tail>>
    BY <1>5 DEF PollComplete, CompleteDone, List
  <2>2. \A m \in Napis : ByPoll(m)' <=> ByPoll(m)
    BY <1>1, <2>1 DEF ByPoll, IrqInv, TypeOK
  <2>3. TokenInv'
    BY <1>1, <1>4, <2>1, <2>2 DEF IrqInv, TokenInv, Held
  <2>4. LockInv' /\ EnableInv'
    BY <1>1, <2>1 DEF IrqInv, LockInv, EnableInv, Quiet, InUse
  <2> QED
    BY <1>3, <2>3, <2>4
<1>6. CASE n \notin missed
  <2>1. /\ poll' = [poll EXCEPT ![n] = "off"] /\ tail' = [tail EXCEPT ![n] = "read"]
        /\ scheduled' = scheduled \ {n}
    BY <1>6 DEF PollComplete, CompleteDone
  <2>2. \A m \in Napis : /\ m # n => (ByPoll(m)' <=> ByPoll(m)) /\ tail'[m] = tail[m]
                         /\ m = n => ~ByPoll(m)' /\ tail'[m] = "read"
    BY <1>1, <2>1 DEF ByPoll, IrqInv, TypeOK
  <2>3. TokenInv'
    BY <1>1, <1>4, <2>1, <2>2 DEF IrqInv, TokenInv, Held
  <2>4. LockInv'
    <3>1. \A c \in Chans, d \in Dirs :
            tail'[<<c, d>>] = "write" <=> tail[<<c, d>>] = "write"
      BY <1>1, <2>2, NapiPair
    <3> QED
      BY <1>1, <3>1 DEF IrqInv, LockInv
  <2>5. EnableInv'
    <3>1. \A m \in owned : Quiet(m)' => Quiet(m)
      BY <1>1, <2>1, <2>2 DEF Quiet, IrqInv, TypeOK
    <3>2. \A c \in Chans : InUse(c)' => InUse(c)
      BY <1>1, <1>2 DEF InUse, Resting
    <3>3. \A m \in owned : m[1] \in Chans
      BY NapiPair DEF IrqInv, TypeOK
    <3> QED
      BY <1>1, <3>1, <3>2, <3>3 DEF IrqInv, EnableInv
  <2> QED
    BY <1>3, <2>3, <2>4, <2>5
<1> QED
  BY <1>5, <1>6

\* Opening: every interrupt is turned on, and nobody holds the lock but a poll
\* that has outlived the last release.
LEMMA IrqOpen ==
  ASSUME IrqInv, Open
  PROVE  TokenInv' /\ PhaseInv' /\ LockInv' /\ EnableInv'
<1>1. /\ dev = "down" /\ dev' = "irq_on" /\ int_en' = [c \in Chans |-> Dirs]
      /\ UNCHANGED <<owned, enabled, scheduled, poll, tail, lock, tmp, armed, timer,
                     isr, ich, dir>>
  BY DEF Open, plat, work, napi, spin, tmr, handler
<1>2. \A m \in Napis : /\ ByPoll(m)' <=> ByPoll(m)
                       /\ ByIsr(m)' <=> ByIsr(m)
                       /\ ByTimer(m)' <=> ByTimer(m)
  BY <1>1 DEF ByPoll, ByIsr, ByTimer
<1>3. TokenInv'
  BY <1>1, <1>2 DEF IrqInv, TokenInv, Held
<1>4. PhaseInv'
  BY <1>1 DEF IrqInv, PhaseInv
<1>5. LockInv'
  BY <1>1 DEF IrqInv, LockInv
<1>6. EnableInv'
  BY <1>1, NapiPair DEF IrqInv, TypeOK, EnableInv, Quiet
<1> QED
  BY <1>3, <1>4, <1>5, <1>6

LEMMA IrqOpenNapi ==
  ASSUME IrqInv, OpenNapi
  PROVE  TokenInv' /\ PhaseInv' /\ LockInv' /\ EnableInv'
<1>1. /\ dev = "irq_on" /\ dev' = "up" /\ enabled' = owned /\ scheduled' = scheduled \ owned
      /\ UNCHANGED <<owned, poll, tail, lock, tmp, int_en, armed, timer, irq, isr, ich, dir>>
  BY DEF OpenNapi, plat, work, regs, spin, tmr, handler
<1>2. enabled = {} /\ \A m \in Napis : ~Held(m)
  BY <1>1 DEF IrqInv, PhaseInv, TokenInv
<1>3. \A m \in Napis : ~Held(m)'
  BY <1>1, <1>2 DEF Held, ByPoll, ByIsr, ByTimer
<1>4. TokenInv'
  BY <1>1, <1>3 DEF TokenInv, Held
<1>5. PhaseInv'
  BY <1>1 DEF PhaseInv
<1>6. LockInv'
  BY <1>1 DEF IrqInv, LockInv
<1>7. EnableInv'
  BY <1>1, <1>2 DEF IrqInv, EnableInv, Quiet, InUse
<1> QED
  BY <1>4, <1>5, <1>6, <1>7

LEMMA IrqRelease ==
  ASSUME IrqInv,
         Close \/ (\E n \in owned : NapiDisable(n)) \/ DelTimers \/ FreeIrq \/ FreeRings
  PROVE  TokenInv' /\ PhaseInv' /\ LockInv' /\ EnableInv'
<1>1. /\ UNCHANGED <<owned, poll, tail, lock, tmp, int_en, timer, isr, ich, dir>>
      /\ dev # "down"
  BY DEF Close, NapiDisable, DelTimers, FreeIrq, FreeRings, plat, work, regs, napi, spin, tmr,
         handler
<1>2. \A m \in Napis : /\ ByPoll(m)' <=> ByPoll(m)
                       /\ ByIsr(m)' <=> ByIsr(m)
                       /\ ByTimer(m)' <=> ByTimer(m)
  BY <1>1 DEF ByPoll, ByIsr, ByTimer
<1>3. LockInv'
  BY <1>1 DEF IrqInv, LockInv
<1>4. PhaseInv'
  BY DEF IrqInv, PhaseInv, Close, NapiDisable, DelTimers, FreeIrq, FreeRings, plat, work, regs,
         napi, spin, tmr, handler
<1>5. \A c \in Chans : InUse(c)
  BY <1>1 DEF InUse
<1>6. CASE \E n \in owned : NapiDisable(n)
  <2>1. PICK n \in owned : NapiDisable(n)
    BY <1>6
  <2>2. /\ n \in Napis /\ n \notin scheduled /\ ~Held(n)
        /\ enabled' = enabled \ {n} /\ scheduled' = scheduled \cup {n}
    BY <2>1 DEF NapiDisable, IrqInv, TypeOK, TokenInv
  <2>3. TokenInv'
    BY <1>1, <1>2, <2>2 DEF IrqInv, TokenInv, Held
  <2>4. \A m \in owned : Quiet(m)' => Quiet(m)
    BY <1>1, <2>2 DEF Quiet
  <2>5. EnableInv'
    BY <1>1, <1>5, <2>4, NapiPair DEF IrqInv, TypeOK, EnableInv
  <2> QED
    BY <1>3, <1>4, <2>3, <2>5
<1>7. CASE Close \/ DelTimers \/ FreeIrq \/ FreeRings
  <2>1. UNCHANGED <<enabled, scheduled>>
    BY <1>7 DEF Close, DelTimers, FreeIrq, FreeRings, napi
  <2>2. TokenInv'
    BY <1>1, <1>2, <2>1 DEF IrqInv, TokenInv, Held
  <2>3. \A m \in owned : Quiet(m)' => Quiet(m)
    BY <1>1, <2>1 DEF Quiet
  <2>4. EnableInv'
    BY <1>1, <1>5, <2>3, NapiPair DEF IrqInv, TypeOK, EnableInv
  <2> QED
    BY <1>3, <1>4, <2>2, <2>4
<1> QED
  BY <1>6, <1>7

LEMMA IrqIsrElsewhere ==
  ASSUME IrqInv, IsrEnter \/ IsrStatus \/ IsrClear \/ IsrSkip \/ IsrErr \/ IsrUnmask
  PROVE  TokenInv' /\ PhaseInv' /\ LockInv' /\ EnableInv'
<1>1. CASE IsrSkip
  <2>1. scheduled' = scheduled
    BY <1>1 DEF IsrSkip, Prep
  <2>2. isr = "prep" /\ isr' \in {"prep", "status", "err"}
    BY <1>1, NextDirType DEF IsrSkip, IrqInv
  <2>3. UNCHANGED core
    BY <1>1, <2>1 DEF IsrSkip, core, plat, work, regs, spin, tmr
  <2> QED
    BY <2>2, <2>3, IrqElsewhere
<1>2. CASE IsrEnter \/ IsrStatus \/ IsrClear \/ IsrErr \/ IsrUnmask
  <2>1. UNCHANGED core
    BY <1>2 DEF IsrEnter, IsrStatus, IsrClear, IsrErr, IsrUnmask, core, plat, work, regs,
                napi, spin, tmr, handler
  <2>2. /\ isr \notin {"read", "write"} /\ isr' \notin {"read", "write"}
        /\ irq \/ isr # "idle"
    BY <1>2 DEF IsrEnter, IsrStatus, IsrClear, IsrErr, IsrUnmask
  <2> QED
    BY <2>1, <2>2, IrqElsewhere
<1> QED
  BY <1>1, <1>2

LEMMA IrqDevice ==
  ASSUME IrqInv, NEW c \in Chans,
         \/ IsrSafety \/ TxTimeout \/ HwTx(c, TRUE) \/ HwTx(c, FALSE)
         \/ HwRx(c) \/ HwRiwt(c) \/ HwRxFull(c) \/ HwFbe(c) \/ UNCHANGED vars
  PROVE  TokenInv' /\ PhaseInv' /\ LockInv' /\ EnableInv'
<1>1. UNCHANGED core /\ UNCHANGED <<isr, ich, dir>>
  BY DEF IsrSafety, TxTimeout, HwTx, HwRx, HwRiwt, HwRxFull, HwFbe, vars, core, plat, work,
         regs, napi, spin, tmr, handler
<1> QED
  BY <1>1, IrqElsewhere

LEMMA IrqInvStep == IrqInv /\ TypeOK' /\ [Next]_vars => IrqInv'
<1> SUFFICES ASSUME IrqInv, [Next]_vars
             PROVE  TokenInv' /\ PhaseInv' /\ LockInv' /\ EnableInv'
  BY DEF IrqInv
<1>1. RxChans \subseteq Chans /\ TxChans \subseteq Chans
  BY DEF RxChans, TxChans
<1>2. CASE IsrEnter \/ IsrStatus \/ IsrClear \/ IsrSkip \/ IsrErr \/ IsrUnmask
  BY <1>2, IrqIsrElsewhere
<1>3. CASE IsrPrep \/ IsrRead \/ IsrWrite
  BY <1>3, IrqIsrPrep, IrqIsrRead, IrqIsrWrite
<1>4. CASE \E c \in RxChans : PollRx(c) \/ HwRx(c) \/ HwRiwt(c) \/ HwRxFull(c)
  BY <1>1, <1>4, IrqPollWork, IrqDevice
<1>5. CASE \E c \in TxChans : \/ PollTx(c) \/ Xmit(c) \/ HwTx(c, TRUE) \/ HwTx(c, FALSE)
                              \/ HwFbe(c)
  BY <1>1, <1>5, IrqPollWork, IrqDevice
<1>6. CASE \E c \in TxChans : \/ TimerFire(c) \/ TimerPrep(c)
                              \/ TimerRead(c) \/ TimerWrite(c)
  BY <1>1, <1>6, IrqTimerStep, IrqTimerRead, IrqTimerWrite
<1>7. CASE \E n \in owned : PollComplete(n) \/ TailRead(n) \/ TailWrite(n)
  BY <1>7, IrqPollComplete, IrqTailRead, IrqTailWrite
<1>8. CASE \/ Open \/ OpenNapi \/ Close \/ DelTimers \/ FreeIrq \/ FreeRings
           \/ \E n \in owned : NapiDisable(n)
  BY <1>8, IrqOpen, IrqOpenNapi, IrqRelease
<1>9. CASE IsrSafety \/ TxTimeout \/ UNCHANGED vars
  BY <1>9, IrqDevice, ChansNat
<1> QED
  BY <1>2, <1>3, <1>4, <1>5, <1>6, <1>7, <1>8, <1>9 DEF Next

\* No interrupt is left off with nobody to turn it on again: for every number
\* of channels and every interleaving of the handler, the polls and the timers
\* in their read-modify-writes of DMA_CH_INT_EN under ch->lock, open and release
\* included.
THEOREM IrqNeverLost == Spec => []NoLostIrq
<1>1. IrqInv => NoLostIrq
  BY IrqInvImplies
<1> QED
  BY <1>1, IrqStart, IrqInvStep, IrqTypeCorrect, PTL DEF Spec

\* When release has freed the rings, no handler, poll or timer runs or is due.
THEOREM IrqFreedQuiet == Spec => []FreedQuiet
<1>1. IrqInv => FreedQuiet
  BY IrqInvImplies
<1> QED
  BY <1>1, IrqStart, IrqInvStep, IrqTypeCorrect, PTL DEF Spec

-----------------------------------------------------------------------------
(* Watching the sent frames, and restarting a stopped channel.               *)

\* Nothing is sent before open has finished.
WatchInv ==
  /\ dev \in {"down", "irq_on"} => \A c \in Chans : inflight[c] = 0 /\ done[c] = 0
  /\ TxWatched

\* AIS has a cause: RBU beside it, or a bus error that has stopped the channel.
\* The handler may lose sight of neither between its two reads of the status.
CauseInv ==
  /\ \A c \in Chans : "AIS" \in status[c] => "RBU" \in status[c] \/ c \in tx_stopped
  /\ isr = "clear" =>
       /\ seen \subseteq status[ich]
       /\ "AIS" \in seen => "RBU" \in seen \/ ich \in tx_stopped
       /\ "RBU" \in seen /\ "AIS" \in status[ich] \ seen => ich \in tx_stopped

\* The handler has still to run tx_err for the channels it has found stopped.
Due(c) == /\ ret[c] = {"tx_hard_error"} /\ isr \notin {"idle", "unmask"}
          /\ isr = "err" => c >= ich

ResetInv ==
  \A c \in Chans : Due(c) =>
    c \in tx_stopped /\ ("AIS" \in status[c] => "RBU" \in status[c])

ErrInv == WatchInv /\ CauseInv /\ ResetInv

LEMMA ErrStart == Init => ErrInv
BY DEF Init, ErrInv, WatchInv, CauseInv, ResetInv, Due, TxWatched

LEMMA ErrInvImplies == TypeOK /\ ErrInv => TxWatched /\ NoSpuriousReset
<1> SUFFICES ASSUME TypeOK, ErrInv PROVE TxWatched /\ NoSpuriousReset
  OBVIOUS
<1>1. TxWatched
  BY DEF ErrInv, WatchInv
<1>2. NoSpuriousReset
  <2> SUFFICES ASSUME isr = "err", TxErrDue PROVE ich \in tx_stopped
    BY DEF NoSpuriousReset
  <2>1. ich \in Chans /\ ich >= ich
    BY ChansNat DEF TypeOK
  <2>2. Due(ich)
    BY <2>1 DEF Due, TxErrDue
  <2> QED
    BY <2>1, <2>2 DEF ErrInv, ResetInv
<1> QED
  BY <1>1, <1>2

\* A frame stays watched as long as nobody disarms its timer and its NAPI, if
\* it is going to run, still is.
LEMMA WatchKept ==
  ASSUME IrqInv, WatchInv, UNCHANGED <<owned, dev>>,
         \A c \in Chans : /\ inflight[c] = 0 /\ done[c] = 0 => inflight'[c] = 0 /\ done'[c] = 0
                          /\ inflight'[c] + done'[c] > 0 => inflight[c] + done[c] > 0
                          /\ timer[c] = "prep" => timer'[c] = "prep"
                          /\ WillRun(<<c, "tx">>) => WillRun(<<c, "tx">>)',
         armed \subseteq armed'
  PROVE  WatchInv'
<1>1. dev' \in {"down", "irq_on"} => \A c \in Chans : inflight'[c] = 0 /\ done'[c] = 0
  BY DEF WatchInv
<1>2. TxWatched'
  <2> SUFFICES ASSUME dev = "up", NEW c \in TxChans, inflight'[c] + done'[c] > 0
               PROVE  c \in armed' \/ timer'[c] = "prep" \/ WillRun(<<c, "tx">>)'
    BY DEF TxWatched, TxChans
  <2>1. c \in Chans /\ inflight[c] + done[c] > 0
    BY DEF TxChans
  <2>2. c \in armed \/ timer[c] = "prep" \/ WillRun(<<c, "tx">>)
    BY <2>1 DEF WatchInv, TxWatched
  <2> QED
    BY <2>1, <2>2
<1> QED
  BY <1>1, <1>2 DEF WatchInv

LEMMA WatchIsr ==
  ASSUME IrqInv, WatchInv, IsrEnter \/ IsrSafety \/ Isr \/ IsrRead
  PROVE  WatchInv'
<1> USE DEF plat, work, regs, napi, spin, tmr, handler, errors
<1>n. \A c \in Chans : <<c, "tx">> \in Napis
  BY NapiPair DEF Dirs
<1>1. CASE IsrEnter \/ IsrSafety \/ IsrStatus \/ IsrClear \/ IsrRead \/ IsrUnmask
  BY <1>1, WatchKept
     DEF IsrEnter, IsrSafety, IsrStatus, IsrClear, IsrRead, IsrUnmask, WillRun
<1>2. CASE IsrSkip \/ IsrPrep
  <2>1. scheduled \subseteq scheduled' /\ missed \subseteq missed'
    BY <1>2 DEF IsrSkip, IsrPrep, Prep
  <2>2. UNCHANGED <<owned, dev, inflight, done, poll, armed, timer>>
    BY <1>2 DEF IsrSkip, IsrPrep
  <2>3. \A c \in Chans : WillRun(<<c, "tx">>) => WillRun(<<c, "tx">>)'
    BY <2>1, <2>2 DEF WillRun
  <2> QED
    BY <2>2, <2>3, WatchKept
<1>3. CASE IsrWrite
  <2>1. PICK n \in Napis : n = <<ich, dir>>
    BY NapiPair DEF IrqInv, TypeOK
  <2>2. /\ UNCHANGED <<owned, dev, inflight, done, scheduled, missed, armed, timer>>
        /\ poll' = [poll EXCEPT ![n] = "listed"]
    BY <1>3, <2>1 DEF IsrWrite, List
  <2>3. \A c \in Chans : WillRun(<<c, "tx">>) => WillRun(<<c, "tx">>)'
    BY <1>n, <2>2 DEF WillRun, IrqInv, TypeOK
  <2> QED
    BY <2>2, <2>3, WatchKept
<1>4. CASE IsrErr
  <2>1. /\ UNCHANGED <<owned, dev, scheduled, missed, poll, armed, timer>>
        /\ \A c \in Chans : /\ inflight'[c] = inflight[c] \/ inflight'[c] = 0
                            /\ done'[c] = done[c] \/ done'[c] = 0
                            /\ inflight[c] \in Nat /\ done[c] \in Nat
    BY <1>4, IrqAssumption DEF IsrErr, IrqInv, TypeOK
  <2>2. \A c \in Chans : WillRun(<<c, "tx">>) => WillRun(<<c, "tx">>)'
    BY <2>1 DEF WillRun
  <2> QED
    BY <2>1, <2>2, WatchKept
<1> QED
  BY <1>1, <1>2, <1>3, <1>4 DEF Isr

LEMMA WatchPoll ==
  ASSUME IrqInv, WatchInv, NEW c \in Chans, NEW n \in Napis,
         PollRx(c) \/ PollTx(c) \/ PollComplete(n) \/ TailRead(n) \/ TailWrite(n)
  PROVE  WatchInv'
<1> USE DEF plat, work, regs, napi, spin, tmr, handler, errors
<1>n. \A x \in Chans : <<x, "tx">> \in Napis /\ <<x, "tx">> # <<c, "rx">> /\ <<c, "rx">> \in Napis
  BY NapiPair DEF Dirs
<1>1. CASE PollRx(c)
  <2>1. UNCHANGED <<owned, dev, inflight, done, scheduled, missed, armed, timer>>
    BY <1>1 DEF PollRx
  <2>2. \A x \in Chans : poll'[<<x, "tx">>] = poll[<<x, "tx">>]
    BY <1>1, <1>n DEF PollRx, AfterWork, IrqInv, TypeOK
  <2>3. \A x \in Chans : WillRun(<<x, "tx">>) => WillRun(<<x, "tx">>)'
    BY <2>1, <2>2 DEF WillRun
  <2> QED
    BY <2>1, <2>3, WatchKept
<1>2. CASE PollTx(c)
  <2>1. /\ UNCHANGED <<owned, dev, inflight, scheduled, missed, timer>>
        /\ armed \subseteq armed' /\ (inflight[c] > 0 => c \in armed')
        /\ poll' = poll \/ poll' = [poll EXCEPT ![<<c, "tx">>] = "complete"]
        /\ done' = [done EXCEPT ![c] = 0]
    BY <1>2 DEF PollTx, AfterWork
  <2>2. \A x \in Chans : x # c => poll'[<<x, "tx">>] = poll[<<x, "tx">>] /\ done'[x] = done[x]
    BY <2>1, <1>n DEF IrqInv, TypeOK
  <2>3. done'[c] = 0 /\ inflight[c] \in Nat
    BY <2>1, IrqAssumption DEF IrqInv, TypeOK
  <2>4. dev' \in {"down", "irq_on"} => \A x \in Chans : inflight'[x] = 0 /\ done'[x] = 0
    BY <2>1, <2>2, <2>3 DEF WatchInv
  <2>5. TxWatched'
    <3> SUFFICES ASSUME dev = "up", NEW x \in TxChans, inflight'[x] + done'[x] > 0
                 PROVE  x \in armed' \/ timer'[x] = "prep" \/ WillRun(<<x, "tx">>)'
      BY <2>1 DEF TxWatched, TxChans
    <3>x. x \in Chans
      BY DEF TxChans
    <3>1. CASE x = c
      BY <3>1, <2>1, <2>3
    <3>2. CASE x # c
      <4>1. x \in armed \/ timer[x] = "prep" \/ WillRun(<<x, "tx">>)
        BY <3>x, <3>2, <2>1, <2>2 DEF WatchInv, TxWatched
      <4>2. WillRun(<<x, "tx">>) => WillRun(<<x, "tx">>)'
        BY <3>x, <3>2, <2>1, <2>2 DEF WillRun
      <4> QED
        BY <4>1, <4>2, <2>1
    <3> QED
      BY <3>1, <3>2
  <2> QED
    BY <2>4, <2>5 DEF WatchInv
<1>3. CASE PollComplete(n)
  <2>1. UNCHANGED <<owned, dev, inflight, done, armed, timer>>
    BY <1>3 DEF PollComplete
  <2>2. ASSUME NEW x \in Chans, WillRun(<<x, "tx">>) PROVE WillRun(<<x, "tx">>)'
    <3>1. CASE n \in missed
      BY <1>3, <1>n, <2>2, <3>1 DEF PollComplete, CompleteDone, List, WillRun, IrqInv, TypeOK
    <3>2. CASE n \notin missed
      <4>1. <<x, "tx">> # n
        BY <1>3, <2>2, <3>2 DEF PollComplete, WillRun
      <4> QED
        BY <1>3, <1>n, <2>2, <3>2, <4>1
           DEF PollComplete, CompleteDone, WillRun, IrqInv, TypeOK
    <3> QED
      BY <3>1, <3>2
  <2> QED
    BY <2>1, <2>2, WatchKept
<1>4. CASE TailRead(n) \/ TailWrite(n)
  BY <1>4, WatchKept DEF TailRead, TailWrite, WillRun
<1> QED
  BY <1>1, <1>2, <1>3, <1>4

LEMMA WatchTimer ==
  ASSUME IrqInv, WatchInv, NEW c \in TxChans,
         TimerFire(c) \/ TimerPrep(c) \/ TimerRead(c) \/ TimerWrite(c)
  PROVE  WatchInv'
<1> USE DEF plat, work, regs, napi, spin, tmr, handler, errors
<1>n. c \in Chans /\ \A x \in Chans : <<x, "tx">> \in Napis
  BY NapiPair DEF Dirs, TxChans
<1>1. CASE TimerFire(c) \/ TimerPrep(c)
  <2>1. /\ UNCHANGED <<owned, dev, inflight, done, poll>>
        /\ scheduled \subseteq scheduled' /\ missed \subseteq missed'
    BY <1>1 DEF TimerFire, TimerPrep, Prep
  <2>2. \A x \in Chans : WillRun(<<x, "tx">>) => WillRun(<<x, "tx">>)'
    BY <2>1 DEF WillRun
  <2>3. \A x \in Chans : x # c => /\ timer'[x] = timer[x]
                                  /\ x \in armed => x \in armed'
    BY <1>1, <1>n DEF TimerFire, TimerPrep, IrqInv, TypeOK
  <2>4. timer'[c] = "prep" \/ WillRun(<<c, "tx">>)'
    <3>1. CASE TimerFire(c)
      BY <3>1, <1>n DEF TimerFire, IrqInv, TypeOK
    <3>2. CASE TimerPrep(c)
      <4>1. PICK ok \in BOOLEAN : Prep(<<c, "tx">>, ok)
        BY <3>2 DEF TimerPrep
      <4>2. CASE ok
        <5>1. <<c, "tx">> \notin scheduled /\ <<c, "tx">> \in scheduled'
          BY <4>1, <4>2 DEF Prep
        <5>2. poll[<<c, "tx">>] = "off"
          BY <5>1, <1>n DEF IrqInv, TokenInv, Held, ByPoll
        <5> QED
          BY <5>1, <5>2, <2>1 DEF WillRun
      <4>3. CASE ~ok
        BY <4>1, <4>3 DEF Prep, WillRun
      <4> QED
        BY <4>2, <4>3
    <3> QED
      BY <1>1, <3>1, <3>2
  <2>5. TxWatched'
    <3> SUFFICES ASSUME dev = "up", NEW x \in TxChans, inflight'[x] + done'[x] > 0
                 PROVE  x \in armed' \/ timer'[x] = "prep" \/ WillRun(<<x, "tx">>)'
      BY <2>1 DEF TxWatched, TxChans
    <3>1. x \in Chans /\ (x \in armed \/ timer[x] = "prep" \/ WillRun(<<x, "tx">>))
      BY <2>1 DEF WatchInv, TxWatched, TxChans
    <3>2. CASE x = c
      BY <3>2, <2>4
    <3>3. CASE x # c
      BY <3>1, <3>3, <2>2, <2>3
    <3> QED
      BY <3>2, <3>3
  <2> QED
    BY <2>1, <2>5 DEF WatchInv
<1>2. CASE TimerRead(c)
  <2>1. /\ UNCHANGED <<owned, dev, inflight, done, scheduled, missed, poll, armed>>
        /\ \A x \in Chans : timer[x] = "prep" => timer'[x] = "prep"
    BY <1>2, <1>n DEF TimerRead, IrqInv, TypeOK
  <2>2. \A x \in Chans : WillRun(<<x, "tx">>) => WillRun(<<x, "tx">>)'
    BY <2>1 DEF WillRun
  <2> QED
    BY <2>1, <2>2, WatchKept
<1>3. CASE TimerWrite(c)
  <2>1. /\ UNCHANGED <<owned, dev, inflight, done, scheduled, missed, armed>>
        /\ \A x \in Chans : timer[x] = "prep" => timer'[x] = "prep"
    BY <1>3, <1>n DEF TimerWrite, IrqInv, TypeOK
  <2>2. poll' = [poll EXCEPT ![<<c, "tx">>] = "listed"]
    BY <1>3 DEF TimerWrite, List
  <2>3. \A x \in Chans : WillRun(<<x, "tx">>) => WillRun(<<x, "tx">>)'
    BY <1>n, <2>1, <2>2 DEF WillRun, IrqInv, TypeOK
  <2> QED
    BY <2>1, <2>3, WatchKept
<1> QED
  BY <1>1, <1>2, <1>3

LEMMA WatchDevice ==
  ASSUME IrqInv, WatchInv, NEW c \in Chans, NEW n \in Napis,
         \/ Open \/ OpenNapi \/ Close \/ NapiDisable(n) \/ DelTimers \/ FreeIrq
         \/ FreeRings \/ TxTimeout \/ Xmit(c) \/ HwTx(c, TRUE) \/ HwTx(c, FALSE)
         \/ HwRx(c) \/ HwRiwt(c) \/ HwRxFull(c) \/ HwFbe(c) \/ UNCHANGED vars
  PROVE  WatchInv'
<1> USE DEF plat, work, regs, napi, spin, tmr, handler, errors
<1>1. CASE Open \/ Close \/ NapiDisable(n) \/ DelTimers \/ FreeIrq \/ FreeRings
  BY <1>1 DEF Open, Close, NapiDisable, DelTimers, FreeIrq, FreeRings, WatchInv, TxWatched
<1>2. CASE OpenNapi
  <2>1. \A x \in Chans : inflight'[x] = 0 /\ done'[x] = 0
    BY <1>2 DEF OpenNapi, WatchInv
  <2>2. dev' = "up"
    BY <1>2 DEF OpenNapi
  <2> QED
    BY <2>1, <2>2 DEF WatchInv, TxWatched, TxChans
<1>3. CASE TxTimeout \/ HwRx(c) \/ HwRiwt(c) \/ HwRxFull(c) \/ HwFbe(c) \/ UNCHANGED vars
  BY <1>3, WatchKept DEF TxTimeout, HwRx, HwRiwt, HwRxFull, HwFbe, vars, WillRun
<1>4. CASE Xmit(c)
  <2>1. /\ UNCHANGED <<owned, dev, done, scheduled, missed, poll, timer>>
        /\ dev = "up" /\ armed' = armed \cup {c}
        /\ \A x \in Chans : x # c => inflight'[x] = inflight[x]
    BY <1>4 DEF Xmit, IrqInv, TypeOK
  <2>2. TxWatched'
    BY <2>1 DEF WatchInv, TxWatched, TxChans, WillRun
  <2> QED
    BY <2>1, <2>2 DEF WatchInv
<1>5. CASE HwTx(c, TRUE) \/ HwTx(c, FALSE)
  <2>1. /\ UNCHANGED <<owned, dev, scheduled, missed, poll, armed, timer>>
        /\ inflight[c] > 0 /\ inflight[c] \in Nat /\ done[c] \in Nat
        /\ inflight'[c] = inflight[c] - 1 /\ done'[c] = done[c] + 1
        /\ \A x \in Chans : x # c => inflight'[x] = inflight[x] /\ done'[x] = done[x]
    BY <1>5, IrqAssumption DEF HwTx, IrqInv, TypeOK
  <2>2. \A x \in Chans : WillRun(<<x, "tx">>) => WillRun(<<x, "tx">>)'
    BY <2>1 DEF WillRun
  <2>3. \A x \in Chans :
          /\ inflight[x] = 0 /\ done[x] = 0 => inflight'[x] = 0 /\ done'[x] = 0
          /\ inflight'[x] + done'[x] > 0 => inflight[x] + done[x] > 0
    BY <2>1
  <2> QED
    BY <2>1, <2>2, <2>3, WatchKept
<1> QED
  BY <1>1, <1>2, <1>3, <1>4, <1>5

\* Steps that leave the status, the stopped channels and the handler alone.
LEMMA ResetElsewhere ==
  ASSUME CauseInv, ResetInv, UNCHANGED <<status, tx_stopped, isr, ich, seen, ret>>
  PROVE  CauseInv' /\ ResetInv'
<1>1. CauseInv'
  BY DEF CauseInv
<1>2. \A c \in Chans : Due(c)' <=> Due(c)
  BY DEF Due
<1>3. ResetInv'
  BY <1>2 DEF ResetInv
<1> QED
  BY <1>1, <1>3

\* The handler moves on: from the directions of a channel to the next channel,
\* or to the first of the error checks.
LEMMA ResetMoves ==
  ASSUME TypeOK, CauseInv, ResetInv, UNCHANGED <<status, tx_stopped, ret>>,
         isr \in {"prep", "read", "write"},
         isr' \in {"prep", "read", "write", "status", "err"},
         isr' = "err" => ich' = 0
  PROVE  CauseInv' /\ ResetInv'
<1>1. CauseInv'
  BY DEF CauseInv
<1>2. \A c \in Chans : Due(c)' => Due(c)
  BY DEF Due
<1>3. ResetInv'
  BY <1>2 DEF ResetInv
<1> QED
  BY <1>1, <1>3

LEMMA ResetIsrMoves ==
  ASSUME TypeOK, CauseInv, ResetInv, IsrSkip \/ IsrPrep \/ IsrRead \/ IsrWrite
  PROVE  CauseInv' /\ ResetInv'
<1>1. UNCHANGED <<status, tx_stopped, ret>> /\ isr \in {"prep", "read", "write"}
  BY DEF IsrSkip, IsrPrep, IsrRead, IsrWrite, regs, errors
<1>2. NextDir => isr' \in {"prep", "status", "err"} /\ (isr' = "err" => ich' = 0)
  BY DEF NextDir, TypeOK, Dirs
<1>3. /\ isr' \in {"prep", "read", "write", "status", "err"}
      /\ isr' = "err" => ich' = 0
  BY <1>2 DEF IsrSkip, IsrPrep, IsrRead, IsrWrite
<1> QED
  BY <1>1, <1>3, ResetMoves

LEMMA ResetIsrEnds ==
  ASSUME TypeOK, CauseInv, ResetInv, IsrEnter \/ IsrStatus \/ IsrUnmask
  PROVE  CauseInv' /\ ResetInv'
<1>1. UNCHANGED <<status, tx_stopped>>
  BY DEF IsrEnter, IsrStatus, IsrUnmask, regs, errors
<1>2. CASE IsrEnter \/ IsrUnmask
  <2>1. isr' # "clear" /\ \A c \in Chans : ret'[c] = {}
    BY <1>2 DEF IsrEnter, IsrUnmask
  <2>2. \A c \in Chans : ~Due(c)'
    BY <2>1 DEF Due
  <2> QED
    BY <1>1, <2>1, <2>2 DEF CauseInv, ResetInv
<1>3. CASE IsrStatus
  <2>1. /\ isr = "status" /\ isr' = "clear" /\ seen' = status[ich] /\ UNCHANGED <<ich, ret>>
        /\ ich \in Chans
    BY <1>3 DEF IsrStatus, TypeOK
  <2>2. CauseInv'
    BY <1>1, <2>1 DEF CauseInv
  <2>3. \A c \in Chans : Due(c)' => Due(c)
    BY <2>1 DEF Due
  <2> QED
    BY <1>1, <2>2, <2>3 DEF ResetInv
<1> QED
  BY <1>2, <1>3

\* Clearing the status takes the causes that were seen, AIS among them; a
\* cause that has come since is still there.
LEMMA ResetIsrClear ==
  ASSUME TypeOK, CauseInv, ResetInv, IsrClear
  PROVE  CauseInv' /\ ResetInv'
<1> DEFINE gone == seen \cap EnabledBits(int_en[ich])
<1>1. /\ isr = "clear" /\ isr' = "prep" /\ ich \in Chans /\ UNCHANGED <<ich, tx_stopped>>
      /\ status'[ich] = status[ich] \ gone
      /\ \A c \in Chans : c # ich => status'[c] = status[c] /\ ret'[c] = ret[c]
      /\ ret'[ich] = Handle(seen)
  BY DEF IsrClear, TypeOK, errors
<1>2. /\ "AIS" \in seen => "RBU" \in seen \/ ich \in tx_stopped
      /\ "RBU" \in seen /\ "AIS" \in status[ich] \ seen => ich \in tx_stopped
      /\ "AIS" \in status[ich] => "RBU" \in status[ich] \/ ich \in tx_stopped
  BY <1>1 DEF CauseInv
<1>3. "AIS" \in seen => "AIS" \in gone
  BY DEF EnabledBits
<1>4. "AIS" \in status'[ich] => "RBU" \in status'[ich] \/ ich \in tx_stopped
  BY <1>1, <1>2, <1>3
<1>5. CauseInv'
  BY <1>1, <1>4 DEF CauseInv
<1>6. ASSUME NEW c \in Chans, Due(c)'
      PROVE  c \in tx_stopped' /\ ("AIS" \in status'[c] => "RBU" \in status'[c])
  <2>1. CASE c = ich
    <3>1. Handle(seen) = {"tx_hard_error"}
      BY <1>1, <1>6, <2>1 DEF Due
    <3>2. "AIS" \in seen /\ "RBU" \notin seen
      BY <3>1 DEF Handle
    <3> QED
      BY <1>1, <1>2, <1>3, <3>2, <2>1
  <2>2. CASE c # ich
    <3>1. Due(c)
      BY <1>1, <1>6, <2>2 DEF Due
    <3> QED
      BY <1>1, <2>2, <3>1 DEF ResetInv
  <2> QED
    BY <2>1, <2>2
<1> QED
  BY <1>5, <1>6 DEF ResetInv

LEMMA ResetIsrErr ==
  ASSUME TypeOK, CauseInv, ResetInv, IsrErr
  PROVE  CauseInv' /\ ResetInv'
<1>1. /\ isr = "err" /\ ich \in Chans /\ UNCHANGED <<status, ret>>
      /\ (isr' = "err" /\ ich' = ich + 1) \/ isr' = "unmask"
      /\ tx_stopped' = IF TxErrDue THEN tx_stopped \ {ich} ELSE tx_stopped
  BY DEF IsrErr, TypeOK, regs
<1>2. \A c \in Chans : c \in Nat
  BY ChansNat
<1>3. TxErrDue => Due(ich)
  BY <1>1, <1>2 DEF TxErrDue, Due
<1>4. CauseInv'
  BY <1>1, <1>3 DEF CauseInv, ResetInv
<1>5. \A c \in Chans : Due(c)' => Due(c) /\ c # ich
  BY <1>1, <1>2 DEF Due
<1>6. ResetInv'
  BY <1>1, <1>5 DEF ResetInv
<1> QED
  BY <1>4, <1>6

\* The engine adds to the status; AIS comes with RBU, or with a stop.
LEMMA ResetEngine ==
  ASSUME TypeOK, CauseInv, ResetInv, NEW c \in Chans,
         HwTx(c, TRUE) \/ HwTx(c, FALSE) \/ HwRiwt(c) \/ HwRxFull(c) \/ HwFbe(c)
  PROVE  CauseInv' /\ ResetInv'
<1>1. /\ UNCHANGED <<isr, ich, seen, ret>>
      /\ tx_stopped \subseteq tx_stopped'
      /\ \A x \in Chans : x # c => status'[x] = status[x]
      /\ status[c] \subseteq status'[c]
  BY DEF HwTx, HwRiwt, HwRxFull, HwFbe, TypeOK, handler, errors
<1>2. \/ "AIS" \in status'[c] => "AIS" \in status[c]
      \/ "RBU" \notin status[c] /\ "RBU" \in status'[c]
      \/ c \notin tx_stopped /\ c \in tx_stopped'
  BY DEF HwTx, HwRiwt, HwRxFull, HwFbe, TypeOK
<1>3. \A x \in Chans : "AIS" \in status'[x] => "RBU" \in status'[x] \/ x \in tx_stopped'
  BY <1>1, <1>2 DEF CauseInv
<1>4. ASSUME isr' = "clear"
      PROVE  /\ seen \subseteq status'[ich]
             /\ "AIS" \in seen => "RBU" \in seen \/ ich \in tx_stopped'
             /\ "RBU" \in seen /\ "AIS" \in status'[ich] \ seen => ich \in tx_stopped'
  <2>1. ich \in Chans /\ isr = "clear"
    BY <1>1, <1>4 DEF TypeOK
  <2>2. /\ seen \subseteq status[ich]
        /\ "AIS" \in seen => "RBU" \in seen \/ ich \in tx_stopped
        /\ "RBU" \in seen /\ "AIS" \in status[ich] \ seen => ich \in tx_stopped
    BY <2>1 DEF CauseInv
  <2> QED
    BY <1>1, <1>2, <2>1, <2>2
<1>5. CauseInv'
  BY <1>1, <1>3, <1>4 DEF CauseInv
<1>6. ASSUME NEW x \in Chans, Due(x)'
      PROVE  x \in tx_stopped' /\ ("AIS" \in status'[x] => "RBU" \in status'[x])
  <2>1. Due(x)
    BY <1>1, <1>6 DEF Due
  <2>2. x \in tx_stopped /\ ("AIS" \in status[x] => "RBU" \in status[x])
    BY <2>1 DEF ResetInv
  <2> QED
    BY <1>1, <1>2, <2>2
<1> QED
  BY <1>5, <1>6 DEF ResetInv

LEMMA ResetOpen ==
  ASSUME IrqInv, CauseInv, ResetInv, Open
  PROVE  CauseInv' /\ ResetInv'
<1>1. isr' = "idle" /\ \A c \in Chans : status'[c] = {}
  BY DEF Open, handler, IrqInv, PhaseInv
<1>2. \A c \in Chans : ~Due(c)'
  BY <1>1 DEF Due
<1> QED
  BY <1>1, <1>2 DEF CauseInv, ResetInv

LEMMA ResetOthers ==
  ASSUME CauseInv, ResetInv, NEW c, NEW n,
         \/ IsrSafety \/ PollRx(c) \/ PollTx(c) \/ PollComplete(n) \/ TailRead(n) \/ TailWrite(n)
         \/ TimerFire(c) \/ TimerPrep(c) \/ TimerRead(c) \/ TimerWrite(c)
         \/ OpenNapi \/ Close \/ NapiDisable(n) \/ DelTimers \/ FreeIrq \/ FreeRings
         \/ Xmit(c) \/ HwRx(c) \/ TxTimeout \/ UNCHANGED vars
  PROVE  CauseInv' /\ ResetInv'
<1>1. UNCHANGED <<status, tx_stopped, isr, ich, seen, ret>>
  BY DEF IsrSafety, PollRx, PollTx, PollComplete, TailRead, TailWrite, TimerFire, TimerPrep,
         TimerRead, TimerWrite, OpenNapi, Close, NapiDisable, DelTimers, FreeIrq, FreeRings,
         Xmit, HwRx, TxTimeout, vars, regs, handler, errors
<1> QED
  BY <1>1, ResetElsewhere

LEMMA ResetStep ==
  ASSUME IrqInv, CauseInv, ResetInv, [Next]_vars
  PROVE  CauseInv' /\ ResetInv'
<1>t. TypeOK /\ RxChans \subseteq Chans /\ TxChans \subseteq Chans
  BY DEF IrqInv, RxChans, TxChans
<1>1. CASE IsrEnter \/ IsrSafety \/ Isr \/ IsrRead
  BY <1>1, <1>t, ResetOthers, ResetIsrEnds, ResetIsrMoves, ResetIsrClear, ResetIsrErr DEF Isr
<1>2. CASE \E c \in RxChans : PollRx(c) \/ HwRx(c) \/ HwRiwt(c) \/ HwRxFull(c)
  BY <1>2, <1>t, ResetOthers, ResetEngine
<1>3. CASE \E c \in TxChans : \/ PollTx(c) \/ Xmit(c) \/ HwTx(c, TRUE) \/ HwTx(c, FALSE)
                              \/ HwFbe(c)
  BY <1>3, <1>t, ResetOthers, ResetEngine
<1>4. CASE \E c \in TxChans : \/ TimerFire(c) \/ TimerPrep(c)
                              \/ TimerRead(c) \/ TimerWrite(c)
  BY <1>4, ResetOthers
<1>5. CASE \E n \in owned : \/ PollComplete(n) \/ TailRead(n) \/ TailWrite(n)
                            \/ NapiDisable(n)
  BY <1>5, ResetOthers
<1>6. CASE Open
  BY <1>6, ResetOpen
<1>7. CASE OpenNapi \/ Close \/ DelTimers \/ FreeIrq \/ FreeRings \/ TxTimeout \/ UNCHANGED vars
  BY <1>7, ResetOthers
<1> QED
  BY <1>1, <1>2, <1>3, <1>4, <1>5, <1>6, <1>7 DEF Next, Isr

LEMMA WatchStep ==
  ASSUME IrqInv, WatchInv, [Next]_vars PROVE WatchInv'
<1>t. /\ owned \subseteq Napis /\ RxChans \subseteq Chans /\ TxChans \subseteq Chans
      /\ 0 \in Chans /\ <<0, "rx">> \in Napis
  BY ChansNat, NapiPair DEF IrqInv, TypeOK, RxChans, TxChans, Dirs
<1>1. CASE IsrEnter \/ IsrSafety \/ Isr \/ IsrRead
  BY <1>1, WatchIsr
<1>2. CASE \E c \in RxChans : PollRx(c) \/ HwRx(c) \/ HwRiwt(c) \/ HwRxFull(c)
  BY <1>2, <1>t, WatchPoll, WatchDevice
<1>3. CASE \E c \in TxChans : \/ PollTx(c) \/ Xmit(c) \/ HwTx(c, TRUE) \/ HwTx(c, FALSE)
                              \/ HwFbe(c)
  BY <1>3, <1>t, WatchPoll, WatchDevice
<1>4. CASE \E c \in TxChans : \/ TimerFire(c) \/ TimerPrep(c)
                              \/ TimerRead(c) \/ TimerWrite(c)
  BY <1>4, WatchTimer
<1>5. CASE \E n \in owned : \/ PollComplete(n) \/ TailRead(n) \/ TailWrite(n)
                            \/ NapiDisable(n)
  BY <1>5, <1>t, WatchPoll, WatchDevice
<1>6. CASE \/ Open \/ OpenNapi \/ Close \/ DelTimers \/ FreeIrq \/ FreeRings \/ TxTimeout
           \/ UNCHANGED vars
  BY <1>6, <1>t, WatchDevice
<1> QED
  BY <1>1, <1>2, <1>3, <1>4, <1>5, <1>6 DEF Next, Isr

LEMMA ErrInvStep == IrqInv /\ ErrInv /\ [Next]_vars => ErrInv'
BY WatchStep, ResetStep DEF ErrInv

\* While a frame is sent and not cleaned, a timer is pending, its handler runs,
\* or a poll of that channel is still to come: tx_clean and xmit arm the timer,
\* and a schedule that comes during a poll is not forgotten.
THEOREM IrqTxWatched == Spec => []TxWatched
<1>1. IrqInv /\ ErrInv => TxWatched
  BY ErrInvImplies DEF IrqInv
<1> QED
  BY <1>1, IrqStart, IrqInvStep, IrqTypeCorrect, ErrStart, ErrInvStep, PTL DEF Spec

\* tc956xmac_tx_err, which throws away the frames in flight, is called for no
\* channel that runs: a stale FBE is never taken for a new one, although the
\* handler reads the status and clears it in two steps and FBE is never cleared.
THEOREM IrqNoSpuriousReset == Spec => []NoSpuriousReset
<1>1. IrqInv /\ ErrInv => NoSpuriousReset
  BY ErrInvImplies DEF IrqInv
<1> QED
  BY <1>1, IrqStart, IrqInvStep, IrqTypeCorrect, ErrStart, ErrInvStep, PTL DEF Spec
=============================================================================
