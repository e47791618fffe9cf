------------------------------- MODULE Gates -------------------------------
(***************************************************************************)
(* Transmission scheduling: the gate list (EST) with frame preemption      *)
(* (FPE), the credit based shaper of each queue (CBS) and launch times     *)
(* (ETF).  taprio and the ioctl share plat->est and one hardware list; cbs *)
(* and the ioctl share plat->tx_queues_cfg.  What is asked is kept beside  *)
(* what the registers hold, which opening the interface resets.            *)
(***************************************************************************)
EXTENDS Integers, FiniteSets

CONSTANTS GateLists,     \* gate lists, "none" is no list
          Slopes,        \* shaper settings, 0 is the one at reset
          LinkSpeeds,    \* those the ioctl has a setting for
          GateQueues,    \* queues from 1 on; queue 0 has no shaper
          AvbQueues,     \* those in AVB mode
          TbsQueues,     \* queues that can have launch times
          FpeSel,        \* dma_cap.fpesel
          GateFaults     \* "entries", "busy", "fpe", "speed", "cbs_off"

ASSUME GateAssumption ==
  /\ AvbQueues \subseteq GateQueues /\ TbsQueues \subseteq GateQueues
  /\ 0 \in Slopes /\ LinkSpeeds \subseteq {100, 1000, 2500, 5000, 10000}

VARIABLES est,           \* plat->est
          hwEst, hwFpe,  \* the list in force or "none", frame preemption
          estAsked, fpeAsked,  \* what the last calls that succeeded asked for
          cbsTab,        \* priv->cbs_speed*_cfg of each queue
          cbs, hwCbs,    \* plat->tx_queues_cfg slopes, and the registers
          cbsAsked,      \* setting asked for each queue at the present speed
          tcShaped,      \* queues whose shaper tc was the last to ask for
          etf,           \* queues with TBS_EN
          gateSpeed      \* priv->speed

gateVars == <<est, hwEst, hwFpe, estAsked, fpeAsked, cbsTab, cbs, hwCbs,
              cbsAsked, tcShaped, etf, gateSpeed>>
estVars == <<est, hwEst, hwFpe, estAsked, fpeAsked>>
cbsVars == <<cbsTab, cbs, hwCbs, cbsAsked, tcShaped, gateSpeed>>

Fault(class) == class \in GateFaults
Est(enable, list) == [enable |-> enable, list |-> list]
\* dwxgmac3_est_configure: the list goes to the bank of the software, which
\* is switched to when the schedule is enabled.  A write that times out is
\* before the control register.
EstConfigure(e) == IF e.enable THEN e.list ELSE "none"

(***************************************************************************)
(* taprio                                                                  *)
(***************************************************************************)
Outcome(e, hw, fpe, asked) == [est |-> e, hwEst |-> hw, hwFpe |-> fpe, asked |-> asked]
TaprioDone(list, hold) == Outcome(Est(TRUE, list), list, hold, <<list, hold>>)
\* An entry is out of range, or asks for preemption that is not there: the
\* configuration is already cleared and marked enabled.
TaprioRejected(list) == Outcome(Est(TRUE, list), hwEst, hwFpe, <<estAsked, fpeAsked>>)
\* The schedule cannot be written: it is disabled, if that can be written.
TaprioBusy(list, hold) ==
  {Outcome(Est(FALSE, list), hw, hold, <<estAsked, fpeAsked>>) : hw \in {hwEst, "none"}}
TaprioOutcomes(list, hold) ==
  (IF hold => FpeSel THEN {TaprioDone(list, hold)} ELSE {})
    \cup (IF Fault("entries") THEN {TaprioRejected(list)} ELSE {})
    \cup (IF Fault("busy") /\ (hold => FpeSel) THEN TaprioBusy(list, hold) ELSE {})
TaprioSet(list, hold) ==
  \E out \in TaprioOutcomes(list, hold) :
    /\ est' = out.est /\ hwEst' = out.hwEst /\ hwFpe' = out.hwFpe
    /\ estAsked' = out.asked[1] /\ fpeAsked' = out.asked[2]
    /\ UNCHANGED <<cbsVars, etf>>
\* Frame preemption stays as it is ("fpe").
TaprioOff ==
  /\ hwFpe => Fault("fpe")
  /\ est' = [est EXCEPT !.enable = FALSE] /\ hwEst' = EstConfigure(est')
  /\ estAsked' = "none" /\ fpeAsked' = FALSE
  /\ UNCHANGED <<hwFpe, cbsVars, etf>>

(***************************************************************************)
(* ioctls for the gate list and for preemption                             *)
(***************************************************************************)
\* The result of the writes is not looked at.
IoctlSetEst(enabled, list) ==
  /\ est' = IF enabled THEN Est(TRUE, list) ELSE Est(FALSE, "none")
  /\ hwEst' \in {EstConfigure(est')} \cup (IF Fault("busy") THEN {hwEst} ELSE {})
  /\ estAsked' = IF enabled THEN list ELSE "none"
  /\ UNCHANGED <<hwFpe, fpeAsked, cbsVars, etf>>
IoctlGetEst == IF est.enable THEN est.list ELSE "none"
\* Sizes and advance times go along with the bit.
IoctlSetFpe(enabled) ==
  /\ hwFpe' = enabled /\ fpeAsked' = enabled
  /\ UNCHANGED <<est, hwEst, estAsked, cbsVars, etf>>
IoctlGetFpe == hwFpe

(***************************************************************************)
(* Shapers                                                                 *)
(***************************************************************************)
ConfigCbs(q, s) == hwCbs' = [hwCbs EXCEPT ![q] = s]
\* tc computes the slopes for the present speed, past the table of the ioctl;
\* turning the shaper off leaves it as it is ("cbs_off").
SetupCbs(q, s, enable) ==
  /\ q \in AvbQueues /\ (enable \/ Fault("cbs_off"))
  /\ IF enable
     THEN cbs' = [cbs EXCEPT ![q] = s] /\ ConfigCbs(q, s)
     ELSE UNCHANGED <<cbs, hwCbs>>
  /\ cbsAsked' = [cbsAsked EXCEPT ![q] = IF enable THEN s ELSE 0]
  /\ tcShaped' = tcShaped \cup {q}
  /\ UNCHANGED <<estVars, cbsTab, etf, gateSpeed>>
\* Mutant: the settings are not kept.
IoctlSetCbs_NotKept(q, tab) ==
  /\ q \in AvbQueues
  /\ cbs' = [cbs EXCEPT ![q] = tab[gateSpeed]] /\ ConfigCbs(q, cbs'[q])
  /\ cbsAsked' = [cbsAsked EXCEPT ![q] = tab[gateSpeed]]
  /\ tcShaped' = tcShaped \ {q}
  /\ UNCHANGED <<estVars, cbsTab, etf, gateSpeed>>
\* The ioctl gives a setting for each speed, and reports those it was given:
\* of a shaper tc has asked for since it knows nothing.
IoctlSetCbs(q, tab) ==
  /\ q \in AvbQueues
  /\ cbsTab' = [cbsTab EXCEPT ![q] = tab]
  /\ cbs' = [cbs EXCEPT ![q] = tab[gateSpeed]] /\ ConfigCbs(q, cbs'[q])
  /\ cbsAsked' = [cbsAsked EXCEPT ![q] = tab[gateSpeed]]
  /\ tcShaped' = tcShaped \ {q}
  /\ UNCHANGED <<estVars, etf, gateSpeed>>
IoctlGetCbs(q) == cbsTab[q]
\* The slopes in force do at another speed too: tc scales them by one rate for
\* 100 and another for all others; the ioctl has them in its table.
ShaperFits(q, speed) ==
  IF q \in tcShaped THEN cbsAsked[q] = 0 \/ (speed = 100 <=> gateSpeed = 100)
  ELSE cbsTab[q][speed] = cbsAsked[q]
\* The link comes up at another speed: the shapers are not set again ("speed").
SpeedChange(speed) ==
  /\ gateSpeed' = speed
  /\ (\A q \in AvbQueues : ShaperFits(q, speed)) \/ Fault("speed")
  /\ cbsAsked' = [q \in GateQueues |->
                    IF q \in AvbQueues \ tcShaped THEN cbsTab[q][speed] ELSE cbsAsked[q]]
  /\ UNCHANGED <<estVars, cbsTab, cbs, hwCbs, tcShaped, etf>>

\* Mutant: any queue can be given launch times.
SetupEtf_Any(q, enable) ==
  /\ etf' = IF enable THEN etf \cup {q} ELSE etf \ {q}
  /\ UNCHANGED <<estVars, cbsVars>>
SetupEtf(q, enable) ==
  /\ q \in TbsQueues
  /\ etf' = IF enable THEN etf \cup {q} ELSE etf \ {q}
  /\ UNCHANGED <<estVars, cbsVars>>

(***************************************************************************)
(* Opening the interface                                                   *)
(***************************************************************************)
\* tc956xmac_configure_cbs.
ConfigureCbs == [q \in GateQueues |-> IF q \in AvbQueues THEN cbs[q] ELSE 0]
\* The reset turns all off; hw_setup sets the shapers and, when it is enabled,
\* the gate list again, and never preemption ("fpe").  Launch times are on
\* again where tc had turned them off.
GatesOpen ==
  /\ fpeAsked => Fault("fpe")
  /\ hwFpe' = FALSE /\ hwEst' = EstConfigure(est) /\ hwCbs' = ConfigureCbs
  /\ etf' = etf \cup TbsQueues
  /\ UNCHANGED <<est, estAsked, fpeAsked, cbsTab, cbs, cbsAsked, tcShaped, gateSpeed>>

SpeedTables == [LinkSpeeds -> Slopes]
\* The slopes of a queue that the platform data leaves alone are 0.
GatesInit ==
  /\ est = Est(FALSE, "none") /\ hwEst = "none" /\ hwFpe = FALSE
  /\ estAsked = "none" /\ fpeAsked = FALSE
  /\ cbsTab = [q \in GateQueues |-> [s \in LinkSpeeds |-> 0]]
  /\ cbs = [q \in GateQueues |-> 0] /\ hwCbs = cbs /\ cbsAsked = cbs
  /\ tcShaped = {}
  /\ etf = TbsQueues /\ gateSpeed \in LinkSpeeds
GatesNext ==
  \/ \E list \in GateLists, hold \in BOOLEAN : TaprioSet(list, hold)
  \/ TaprioOff \/ GatesOpen
  \/ \E b \in BOOLEAN, list \in GateLists : IoctlSetEst(b, list)
  \/ \E b \in BOOLEAN : IoctlSetFpe(b)
  \/ \E q \in GateQueues, s \in Slopes, b \in BOOLEAN : SetupCbs(q, s, b)
  \/ \E q \in GateQueues, tab \in SpeedTables : IoctlSetCbs(q, tab)
  \/ \E s \in LinkSpeeds : SpeedChange(s)
  \/ \E q \in GateQueues, b \in BOOLEAN : SetupEtf(q, b)
GatesSpec == GatesInit /\ [][GatesNext]_gateVars

(***************************************************************************)
(* Properties                                                              *)
(***************************************************************************)
GatesTypeOK ==
  /\ est.enable \in BOOLEAN /\ est.list \in GateLists \cup {"none"}
  /\ hwEst \in GateLists \cup {"none"} /\ etf \subseteq TbsQueues
  /\ tcShaped \subseteq AvbQueues
  /\ \A q \in GateQueues : cbs[q] \in Slopes /\ IoctlGetCbs(q) \in SpeedTables

\* The gate list in force, preemption and the shaper of every queue are what
\* tc or the ioctl, whichever was later, asked for, at the speed the link has,
\* also after the interface was opened again.  The ioctls report the list and
\* preemption in force, whoever asked for them, and the shaper of every queue
\* for which tc has not asked since.
GatesInStep ==
  /\ hwEst = estAsked /\ hwFpe = fpeAsked
  /\ IoctlGetEst = hwEst /\ IoctlGetFpe = hwFpe
  /\ \A q \in AvbQueues : /\ hwCbs[q] = cbsAsked[q]
                          /\ q \notin tcShaped => IoctlGetCbs(q)[gateSpeed] = hwCbs[q]
  /\ \A q \in GateQueues \ AvbQueues : hwCbs[q] = 0
=============================================================================
