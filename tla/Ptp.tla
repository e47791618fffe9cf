-------------------------------- MODULE Ptp --------------------------------
(***************************************************************************)
(* The PTP clock of a port and time stamping: the clock callbacks          *)
(* (adjust_freq, adjust_time, set_time, get_time) and the launch time of   *)
(* xmit, which take ptp_lock, and open, hwtstamp_set and the PPS and clock *)
(* ioctls, which hold RTNL and program the same registers without it.  A   *)
(* sleep closes the device and the end of it opens it again, which         *)
(* unregisters and registers the clock: PtpRelease and PtpOpen.            *)
(*                                                                         *)
(* A call is the sequence of register accesses it has still to make        *)
(* (todo), one step each.  The clock is a number of ticks, SecLen of them  *)
(* to a second; STSUR and STNSUR are one value.                            *)
(***************************************************************************)
EXTENDS Integers, Sequences

CONSTANTS Users,      \* callers of the clock callbacks
          Times,      \* times the clock is set to
          Deltas,     \* shifts of the clock
          Ppbs,       \* frequency adjustments
          Rates,      \* reference clocks of the clock ioctl
          RxFilters,  \* receive filters hwtstamp_set supports, with "none"
          SecLen,     \* ticks in a second
          SecTurn,    \* seconds a descriptor can tell apart: 256
          Turn,       \* ticks until a presentation time repeats: 2^32 ns
          Traverse,   \* traverse times of the classes
          PtpFaults,  \* "met": a clock callback and a caller without the lock
                      \* overlap; "late": the hardware is slower than the polling
          MaxCalls, MaxRtnl, MaxTicks   \* bounds on the length of a behaviour

ASSUME PtpAssumption ==
  /\ SecLen \in Nat \ {0, 1} /\ SecTurn \in Nat \ {0} /\ Turn \in Nat \ {0} /\ Turn % 2 = 0
  /\ Times \subseteq Nat /\ Deltas \subseteq Int /\ 0 \notin Ppbs
  /\ Traverse \subseteq 0..(Turn - 1)
  /\ "none" \in RxFilters /\ {"rtnl", "free"} \cap Users = {}
  /\ PtpFaults \subseteq {"met", "late"}

VARIABLES tcr,        \* PTP_TCR: enable, filter, self-clearing command bits
          upd,        \* PTP_STSUR and PTP_STNSUR
          tar,        \* PTP_TAR, as written
          addend,     \* the addend the clock runs with
          ssinc,      \* PTP_SSIR
          time,       \* the clock
          default_addend, hwts_tx_en, hwts_rx_en, tstamp_config,
          ptp_up,     \* the interface is open, the PTP clock registered
          ptp_lock,
          todo,       \* accesses a caller has still to make
          value,      \* PTP_TCR as a caller has read it
          seen,       \* what a caller of get_systime has read, and its result
          asked,      \* history: the time the calls made so far ask for
          calls, rtnls, ticks

clockVars == <<upd, tar, addend, ssinc, time>>
softVars == <<default_addend, hwts_tx_en, hwts_rx_en, tstamp_config, ptp_up>>
boundVars == <<calls, rtnls, ticks>>
ptpVars == <<tcr, clockVars, softVars, ptp_lock, todo, value, seen, asked, boundVars>>

Procs == Users \cup {"rtnl"}
TcrOff == [ena |-> FALSE, filter |-> "none", cmd |-> {}]
NoAddend == [base |-> "none", ppb |-> 0]
Unseen == [sec |-> 0, nsec |-> 0, sec2 |-> 0, from |-> 0, got |-> 0, to |-> 0]

NoCall(p) == todo[p] = <<>>
Alone == \A u \in Users : NoCall(u)
Quiet == Alone /\ NoCall("rtnl")
Pending == tcr.cmd # {}

\* The last initialisation of a configuration is not polled and may be pending.
MayBegin == (NoCall("rtnl") /\ (Alone => ~Pending)) \/ "met" \in PtpFaults
MayConfigure == (Alone /\ ~Pending) \/ "met" \in PtpFaults
-----------------------------------------------------------------------------
(* The accesses of a call.  "cmd" writes the control word just read with a *)
(* command bit set, "poll" waits for the hardware to clear the bit.        *)
Command(c, x) == << <<"read">>, <<"cmd", c, x>>, <<"poll", c>> >>
config_addend(ppb, base) == << <<"tar", ppb, base>> >> \o Command("addreg", 0)
init_systime(t) == << <<"upd", t>> >> \o Command("init", t)
adjust_systime(d) == << <<"upd", d>> >> \o Command("updt", d)
get_systime == << <<"sec">>, <<"nsec">>, <<"sec2">>, <<"nsec2">> >>
Locked(s) == << <<"lock">> >> \o s \o << <<"unlock">> >>

\* Sub-second increment of rate r, and the addend that goes with it.
Increment(r) == << <<"ssinc", r>>, <<"defaulttar">> >> \o Command("addreg", 0)
tc956x_ptp_configuration(filter, now) ==
  << <<"control", filter, {}, now>> >> \o Increment("plat") \o init_systime(now)
    \o << <<"control", filter, {"init"}, now>>, <<"flags">> >>
tc956xmac_ptp_clk_config(r, now) == Increment(r) \o << <<"ifoff", now>> >>
-----------------------------------------------------------------------------
(* Clock callbacks. *)
Call(u, s) ==
  /\ ptp_up /\ NoCall(u) /\ MayBegin /\ calls < MaxCalls
  /\ calls' = calls + 1
  /\ todo' = [todo EXCEPT ![u] = s]
  /\ seen' = [seen EXCEPT ![u] = Unseen]
  /\ UNCHANGED <<tcr, clockVars, softVars, ptp_lock, value, asked, rtnls, ticks>>

\* Mutant: the clock is shifted without the lock.
adjust_time_NoLock(u) == \E d \in Deltas : Call(u, adjust_systime(d))

set_time(u) == \E t \in Times : Call(u, Locked(init_systime(t)))
adjust_time(u) == \E d \in Deltas : Call(u, Locked(adjust_systime(d)))
\* The addend is worked out before the lock is taken.
adjust_freq(u) == \E p \in Ppbs : Call(u, Locked(config_addend(p, default_addend)))
\* get_time, and xmit before it works out a launch time.
get_time(u) == Call(u, Locked(get_systime))
-----------------------------------------------------------------------------
(* Callers that hold RTNL, not ptp_lock. *)
Enter(s) ==
  /\ NoCall("rtnl") /\ rtnls < MaxRtnl
  /\ s # <<>> => MayConfigure
  /\ rtnls' = rtnls + 1
  /\ todo' = [todo EXCEPT !["rtnl"] = s]
  /\ UNCHANGED <<ptp_lock, value, seen, calls, ticks>>

\* The reset of the MAC at open takes the registers with it; init_ptp clears the
\* flags and registers the clock, then hw_setup configures it.
PtpOpen ==
  /\ ~ptp_up
  /\ \E now \in Times : Enter(tc956x_ptp_configuration("default", now))
  /\ tcr' = TcrOff /\ upd' = 0 /\ tar' = NoAddend /\ addend' = NoAddend
  /\ ssinc' = "none" /\ time' = 0 /\ asked' = 0
  /\ ptp_up' = TRUE /\ hwts_tx_en' = FALSE /\ hwts_rx_en' = FALSE
  /\ UNCHANGED <<default_addend, tstamp_config>>

\* ptp_clock_unregister waits for the callers.
PtpRelease ==
  /\ ptp_up /\ Alone
  /\ Enter(<<>>)
  /\ ptp_up' = FALSE
  /\ UNCHANGED <<tcr, clockVars, default_addend, hwts_tx_en, hwts_rx_en, tstamp_config, asked>>

\* Configuring from an ioctl, if the clock is not enabled.
PtpConfigure(filter) ==
  \E now \in Times :
    Enter(IF tcr.ena THEN <<>> ELSE tc956x_ptp_configuration(filter, now))

\* hwtstamp_set for a filter it supports (it refuses others at once); the
\* filter is programmed only if the clock is not enabled.
hwtstamp_set(on, rx) ==
  /\ ptp_up
  /\ hwts_tx_en' = on /\ hwts_rx_en' = (rx # "none")
  /\ tstamp_config' = <<on, rx>>
  /\ IF ~on /\ rx = "none"
       THEN MayConfigure /\ Enter(<<>>) /\ tcr' = [TcrOff EXCEPT !.cmd = tcr.cmd]
       ELSE PtpConfigure(rx) /\ UNCHANGED tcr
  /\ UNCHANGED <<clockVars, default_addend, ptp_up, asked>>

\* What pps_configuration starts with.
pps_configuration ==
  /\ ptp_up /\ PtpConfigure("default")
  /\ UNCHANGED <<tcr, clockVars, softVars, asked>>

SetClock ==
  /\ ptp_up /\ \E r \in Rates, now \in Times : Enter(tc956xmac_ptp_clk_config(r, now))
  /\ UNCHANGED <<tcr, clockVars, softVars, asked>>
-----------------------------------------------------------------------------
(* One access. *)
At(p, op) == ~NoCall(p) /\ todo[p][1][1] = op
Arg(p, i) == todo[p][1][i]
Goes(p) ==
  /\ todo' = [todo EXCEPT ![p] = Tail(@)]
  /\ UNCHANGED boundVars

Lock(p) ==
  /\ At(p, "lock") /\ ptp_lock = "free" /\ ptp_lock' = p /\ Goes(p)
  /\ UNCHANGED <<tcr, clockVars, softVars, value, seen, asked>>
Unlock(p) ==
  /\ At(p, "unlock") /\ ptp_lock' = "free" /\ Goes(p)
  /\ UNCHANGED <<tcr, clockVars, softVars, value, seen, asked>>

WriteUpdate(p) ==
  /\ At(p, "upd") /\ upd' = Arg(p, 2) /\ Goes(p)
  /\ UNCHANGED <<tcr, tar, addend, ssinc, time, softVars, ptp_lock, value, seen, asked>>
WriteAddend(p) ==
  /\ \/ At(p, "tar") /\ tar' = [base |-> Arg(p, 3), ppb |-> Arg(p, 2)]
     \/ At(p, "defaulttar") /\ tar' = [base |-> default_addend, ppb |-> 0]
  /\ Goes(p)
  /\ UNCHANGED <<tcr, upd, addend, ssinc, time, softVars, ptp_lock, value, seen, asked>>

\* config_sub_second_increment: without TSCFUPDT, which goes with TSENA, the
\* increment is that of 250 MHz.
config_sub_second_increment(p) ==
  /\ At(p, "ssinc")
  /\ ssinc' = IF tcr.ena THEN Arg(p, 2) ELSE "coarse"
  /\ default_addend' = ssinc'
  /\ Goes(p)
  /\ UNCHANGED <<tcr, upd, tar, addend, time, hwts_tx_en, hwts_rx_en, tstamp_config, ptp_up,
                 ptp_lock, value, seen, asked>>

ReadControl(p) ==
  /\ At(p, "read") /\ value' = [value EXCEPT ![p] = tcr] /\ Goes(p)
  /\ UNCHANGED <<tcr, clockVars, softVars, ptp_lock, seen, asked>>

\* A command bit cannot be cleared by writing it.
WriteCommand(p) ==
  /\ At(p, "cmd")
  /\ tcr' = [value[p] EXCEPT !.cmd = tcr.cmd \cup @ \cup {Arg(p, 2)}]
  /\ asked' = CASE Arg(p, 2) = "init" -> Arg(p, 3)
                 [] Arg(p, 2) = "updt" -> asked + Arg(p, 3)
                 [] OTHER -> asked
  /\ Goes(p)
  /\ UNCHANGED <<clockVars, softVars, ptp_lock, value, seen>>
config_hw_tstamping(p) ==
  /\ At(p, "control")
  /\ tcr' = [ena |-> TRUE, filter |-> Arg(p, 2), cmd |-> tcr.cmd \cup Arg(p, 3)]
  /\ asked' = IF "init" \in Arg(p, 3) THEN Arg(p, 4) ELSE asked
  /\ Goes(p)
  /\ UNCHANGED <<clockVars, softVars, ptp_lock, value, seen>>

\* The caller goes on when the bit is clear, or after the last round: the
\* callers do not look at -EBUSY.
Poll(p) ==
  /\ At(p, "poll")
  /\ Arg(p, 2) \notin tcr.cmd \/ "late" \in PtpFaults
  /\ Goes(p)
  /\ UNCHANGED <<tcr, clockVars, softVars, ptp_lock, value, seen, asked>>

\* The clock ioctl starts a clock that is not enabled, with the control word
\* it has read.
IfOff(p) ==
  /\ At(p, "ifoff")
  /\ todo' = [todo EXCEPT ![p] =
       IF tcr.ena THEN <<>>
       ELSE init_systime(Arg(p, 2))
              \o << <<"control", tcr.filter, tcr.cmd \cup {"init"}, Arg(p, 2)>> >>]
  /\ UNCHANGED <<tcr, clockVars, softVars, ptp_lock, value, seen, asked, boundVars>>

SetFlags(p) ==
  /\ At(p, "flags")
  /\ hwts_tx_en' = TRUE /\ hwts_rx_en' = TRUE
  /\ Goes(p)
  /\ UNCHANGED <<tcr, clockVars, default_addend, tstamp_config, ptp_up, ptp_lock, value, seen, asked>>

\* Mutant: the second reading is not used.
Settled_Once(sec, nsec, sec2, nsec2) == sec * SecLen + nsec
\* get_systime reads both registers again in case the seconds have moved on.
Settled(sec, nsec, sec2, nsec2) ==
  IF sec # sec2 THEN sec2 * SecLen + nsec2 ELSE sec * SecLen + nsec

ReadTime(u) ==
  /\ LET s == time \div SecLen  n == time % SecLen
     IN \/ At(u, "sec") /\ seen' = [seen EXCEPT ![u].sec = s, ![u].from = time]
        \/ At(u, "nsec") /\ seen' = [seen EXCEPT ![u].nsec = n]
        \/ At(u, "sec2") /\ seen' = [seen EXCEPT ![u].sec2 = s]
        \/ At(u, "nsec2") /\ seen' = [seen EXCEPT ![u].to = time,
                                ![u].got = Settled(seen[u].sec, seen[u].nsec, seen[u].sec2, n)]
  /\ Goes(u)
  /\ UNCHANGED <<tcr, clockVars, softVars, ptp_lock, value, asked>>
-----------------------------------------------------------------------------
(* The hardware: a command, carried out whether or not the clock is enabled. *)
Obey(c) ==
  /\ c \in tcr.cmd
  /\ tcr' = [tcr EXCEPT !.cmd = @ \ {c}]
  /\ time' = CASE c = "init" -> upd [] c = "updt" -> time + upd [] OTHER -> time
  /\ addend' = IF c = "addreg" THEN tar ELSE addend
  /\ UNCHANGED <<upd, tar, ssinc, softVars, ptp_lock, todo, value, seen, asked, boundVars>>

\* The clock advances.  Setting it takes no time, and a reading less than a
\* second.
Tick ==
  /\ tcr.ena /\ "init" \notin tcr.cmd /\ ticks < MaxTicks
  /\ \A u \in Users : (At(u, "nsec") \/ At(u, "sec2") \/ At(u, "nsec2"))
       => time < seen[u].from + SecLen
  /\ time' = time + 1 /\ asked' = asked + 1 /\ ticks' = ticks + 1
  /\ UNCHANGED <<tcr, upd, tar, addend, ssinc, softVars, ptp_lock, todo, value, seen, calls, rtnls>>
-----------------------------------------------------------------------------
PtpInit ==
  /\ tcr = TcrOff /\ upd = 0 /\ tar = NoAddend /\ addend = NoAddend
  /\ ssinc = "none" /\ time = 0
  /\ default_addend = "none" /\ hwts_tx_en = FALSE /\ hwts_rx_en = FALSE
  /\ tstamp_config = <<>> /\ ptp_up = FALSE
  /\ ptp_lock = "free" /\ todo = [p \in Procs |-> <<>>]
  /\ value = [p \in Procs |-> TcrOff] /\ seen = [u \in Users |-> Unseen]
  /\ asked = 0 /\ calls = 0 /\ rtnls = 0 /\ ticks = 0

PtpNext ==
  \/ \E u \in Users : set_time(u) \/ adjust_time(u) \/ adjust_freq(u) \/ get_time(u) \/ ReadTime(u)
  \/ PtpOpen \/ PtpRelease \/ pps_configuration \/ SetClock
  \/ \E on \in BOOLEAN, rx \in RxFilters : hwtstamp_set(on, rx)
  \/ \E p \in Procs :
       \/ Lock(p) \/ Unlock(p) \/ WriteUpdate(p) \/ WriteAddend(p)
       \/ config_sub_second_increment(p) \/ ReadControl(p) \/ WriteCommand(p)
       \/ config_hw_tstamping(p) \/ Poll(p) \/ IfOff(p) \/ SetFlags(p)
  \/ \E c \in {"init", "updt", "addreg"} : Obey(c)
  \/ Tick

PtpSpec == PtpInit /\ [][PtpNext]_ptpVars
-----------------------------------------------------------------------------
(* The launch time of a frame whose presentation time, modulo Turn, is pt, *)
(* in a class with traverse time tr, sent when the clock reads ns; the     *)
(* comparison is that of a build whose long has 64 bits.                   *)
LaunchLt(pt, tr, ns) ==
  LET app == IF pt >= tr THEN pt - tr ELSE Turn - tr + pt
      low == ns % Turn
      lt == (ns \div Turn) * Turn + app
  IN IF app < low /\ low - app > Turn \div 2 THEN lt + Turn ELSE lt
\* What the descriptor is given: the seconds lose what is above its field.
Launch(lt) == [sec |-> (lt \div SecLen) % SecTurn, nsec |-> lt % SecLen]
LaunchTime(pt, tr, ns) == Launch(LaunchLt(pt, tr, ns))
-----------------------------------------------------------------------------
PtpTypeOK ==
  /\ tcr \in [ena : BOOLEAN, filter : RxFilters \cup {"default"}, cmd : SUBSET {"init", "updt", "addreg"}]
  /\ upd \in Int /\ time \in Int /\ asked \in Int
  /\ {tar.ppb, addend.ppb} \subseteq Ppbs \cup {0}
  /\ {ssinc, default_addend, tar.base, addend.base} \subseteq Rates \cup {"none", "plat", "coarse"}
  /\ {hwts_tx_en, hwts_rx_en, ptp_up} \subseteq BOOLEAN
  /\ tstamp_config \in {<<>>} \cup (BOOLEAN \X RxFilters)
  /\ ptp_lock \in Users \cup {"free"}

\* With no call under way the clock shows what the calls ask for, ticks
\* included: no shift is lost, made twice or taken over by another call.
TimeKept == tcr.ena /\ ~Pending => time = asked
\* The addend the clock runs with belongs to its increment.
RateKept == addend.base = ssinc
\* Frames are marked for time stamping only while the clock runs.
FlagsBacked == ptp_up /\ (hwts_tx_en \/ hwts_rx_en) => tcr.ena
\* Whatever callbacks, closings, openings and ioctls came before, the clock
\* keeps the time, the rate and the time stamping that belong together.
ClockKept == Quiet => TimeKept /\ RateKept /\ FlagsBacked

\* get_systime returns a time the clock showed during the call.
ReadsTrue(u) == seen[u].got \in seen[u].from..seen[u].to
\* A launch time d ticks after ns, or before it in the same turn.
LaunchKnown(ns, d, tr) == LaunchTime((ns + d + tr) % Turn, tr, ns) = Launch(ns + d)
\* A reading is true across a rollover of the seconds, and a launch time worked
\* out with it is the one meant: less than half a turn ahead, also across a
\* rollover of the presentation time, or past in the same turn.
TimeRead ==
  \A u \in Users : NoCall(u) =>
    /\ ReadsTrue(u)
    /\ \A tr \in Traverse : LET ns == seen[u].got IN
         \A d \in -(ns % Turn)..(Turn \div 2 - 1) :
           d >= -(Turn \div 2) => LaunchKnown(ns, d, tr)
=============================================================================
