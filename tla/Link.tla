-------------------------------- MODULE Link --------------------------------
(***************************************************************************)
(* The link: what phylink's callbacks make of the speed the PHY reports,   *)
(* in the MAC, the bus interface (NEMACCTL) and the XPCS, and the timer    *)
(* that puts the transmitter to sleep (EEE).                               *)
(*                                                                         *)
(* Three actors run side by side: the resolve worker of phylink, the calls *)
(* that hold the RTNL lock (open, release, ethtool), and the poll that     *)
(* cleans the transmit rings.  A call is the list of its steps; a register *)
(* of the XPCS is reached through a page register, which takes two steps.  *)
(***************************************************************************)
EXTENDS Integers, Sequences

CONSTANTS NegoSpeeds,    \* speeds the PHY may report
          PortSpeed,     \* plat->mac_port_sel_speed of each interface
          LinkFaults     \* "race": actors are interleaved step by step
                         \* "slow": speeds mac_config does not know
                         \* "refuse": phylink_ethtool_set_eee may fail

Interfaces == {"usxgmii", "sgmii", "rgmii"}
ASSUME LinkAssumption ==
  NegoSpeeds \subseteq Nat \ {0} /\ PortSpeed \in [Interfaces -> Nat]

VARIABLES iface,         \* plat->interface
          up, polling,   \* the interface is open, the polls are enabled
          carrier,       \* speed phylink has brought the link up with, or 0
          macOn,         \* transmitter and receiver
          speed,         \* speed: [mac, bus, priv], as set last
          page, mii,     \* XPCS: page register, SR_MII_CTRL
          anDone,        \* XPCS: autonegotiation complete, until acknowledged
          early,         \* mac_config found it not complete when it ran last
          stray,         \* an access has met another register than was meant
          active, enabled,  \* priv->eee_active, eee_enabled
          timer,         \* eee_ctrl_timer: "none", "idle", "pending"
          broken,        \* a pending timer has been set up again
          lpi,           \* priv->tx_path_in_lpi_mode
          linkTodo, tmp  \* steps each actor has still to do, its local

eeeVars == <<active, enabled, timer, broken, lpi>>
speedVars == <<macOn, speed, page, mii, anDone, early, stray>>
linkVars == <<iface, up, polling, carrier, speedVars, eeeVars, linkTodo, tmp>>

Actors == {"worker", "rtnl", "poll"}
Do1(op) == [op |-> op, arg |-> 0]
Do2(op, arg) == [op |-> op, arg |-> arg]

(***************************************************************************)
(* Programs                                                                *)
(***************************************************************************)
\* tc956x_xpcs_read and _write: the page, then the register in its window.
Xpcs(p, op, arg) == <<Do2("page", p), Do2(op, arg)>>
\* tc956x_xpcs_ctrl_ane.
CtrlAne == Xpcs("mii", "load", 0) \o Xpcs("mii", "store_ane", 0)

Knows(i, s) ==
  s \in CASE i = "usxgmii" -> {2500, 5000, 10000}
          [] i = "sgmii" -> {1000, 2500}
          [] i = "rgmii" -> {10, 100, 1000}
\* In priv->speed, MAC_CTRL_REG and NEMACCTL.
\* Mutant: the bus keeps the speed it has.
Speeds_NoBus(s) == <<Do2("set_priv", s), Do2("set_mac", s)>>
Speeds(s) == <<Do2("set_priv", s), Do2("set_mac", s), Do2("set_bus", s)>>
XpcsSpeed(s) == Xpcs("mii", "load", 0) \o Xpcs("mii", "store_speed", s)
                  \o Xpcs("dig", "load", 0) \o Xpcs("dig", "store_rst", 0)
\* Behind an XPCS the speed goes to the hardware only if autonegotiation has
\* completed, which is acknowledged, whatever the speed; priv->speed is set
\* in any case but that of a completion with a speed the interface lacks.
MacConfig(s) ==
  IF iface # "rgmii" THEN Xpcs("an", "test_an", s)
  ELSE IF Knows(iface, s) THEN Speeds(s) ELSE <<>>
AnTested(s, complete) ==
  IF ~complete THEN <<Do2("set_priv", s)>>
  ELSE Xpcs("an", "store_an", 0)
         \o IF ~Knows(iface, s) THEN <<>>
            ELSE (IF iface = "usxgmii" THEN XpcsSpeed(s) ELSE <<>>) \o Speeds(s)
MacLinkUp(eee) ==
  <<Do2("mac", TRUE), Do2("active", eee), Do1("eee_init"), Do1("enable_result")>>
MacLinkDown ==
  <<Do2("mac", FALSE), Do2("active", FALSE), Do1("eee_init"), Do1("enable_result")>>

\* hw_setup sets the speed of the port when there is a PCS, and turns the MAC
\* on, before there is a link.
OpenLink ==
  (IF iface = "rgmii" THEN <<Do2("mac", TRUE)>>
   ELSE <<Do2("set_mac", PortSpeed[iface]), Do2("mac", TRUE)>> \o CtrlAne)
    \o <<Do1("opened")>>
\* phylink_stop awaits the worker and takes a link that is up down.
Release ==
  <<Do1("del_if_enabled"), Do1("phylink_stop"), Do1("polls_off"), Do2("mac", FALSE)>>
EthtoolSetEee(on) ==
  IF on THEN <<Do1("eee_init"), Do1("stop_if_refused"), Do1("phylink_eee"),
               Do2("enabled", TRUE)>>
  ELSE <<Do1("disable_mode"), Do1("phylink_eee"), Do2("enabled", FALSE)>>
TxClean == <<Do1("test_enabled"), Do1("rearm")>>

(***************************************************************************)
(* Steps                                                                   *)
(***************************************************************************)
Idle == \A a \in Actors : linkTodo[a] = <<>>
MayStart(a) == linkTodo[a] = <<>> /\ (Idle \/ "race" \in LinkFaults)
Start(a, program) == linkTodo' = [linkTodo EXCEPT ![a] = program]
Now(a) == Head(linkTodo[a])
Rest(a) == Tail(linkTodo[a])
Go(a) == linkTodo' = [linkTodo EXCEPT ![a] = Rest(a)]

StepSpeed(a) ==
  /\ Now(a).op \in {"set_mac", "set_bus", "set_priv", "mac"}
  /\ IF Now(a).op = "mac"
     THEN macOn' = Now(a).arg /\ UNCHANGED speed
     ELSE /\ speed' = [speed EXCEPT ![Now(a).op] = Now(a).arg]
          /\ UNCHANGED macOn
  /\ Go(a)
  /\ UNCHANGED <<up, polling, carrier, page, mii, anDone, early, stray, eeeVars, tmp>>
\* An access through another page meets another register.
Meant(op) ==
  CASE op \in {"store_an", "test_an"} -> "an" [] op = "store_rst" -> "dig" [] OTHER -> "mii"
StepXpcs(a) ==
  /\ \/ /\ Now(a).op = "page" /\ page' = Now(a).arg
        /\ UNCHANGED <<mii, anDone, stray, tmp>>
     \/ /\ Now(a).op = "load" /\ tmp' = [tmp EXCEPT ![a] = mii]
        /\ UNCHANGED <<page, mii, anDone, stray>>
     \/ /\ Now(a).op \in {"store_ane", "store_speed", "store_an", "store_rst"}
        /\ mii' = CASE page # "mii" -> mii
                    [] Now(a).op = "store_ane" -> [tmp[a] EXCEPT !.ane = TRUE]
                    [] Now(a).op = "store_speed" -> [tmp[a] EXCEPT !.speed = Now(a).arg]
                    [] OTHER -> mii
        /\ anDone' = (anDone /\ ~(Now(a).op = "store_an" /\ page = "an"))
        /\ stray' = (stray \/ page # Meant(Now(a).op))
        /\ UNCHANGED <<page, tmp>>
  /\ Go(a)
  /\ UNCHANGED <<up, polling, carrier, macOn, speed, early, eeeVars>>
\* mac_config reads whether autonegotiation has completed, and goes on with
\* what that calls for; through another page it reads anything.
StepTest(a) ==
  /\ Now(a).op = "test_an"
  /\ \E complete \in IF page = Meant("test_an") THEN {anDone} ELSE BOOLEAN :
       /\ early' = ~complete
       /\ linkTodo' = [linkTodo EXCEPT ![a] = AnTested(Now(a).arg, complete) \o Rest(a)]
  /\ UNCHANGED <<up, polling, carrier, macOn, speed, page, mii, anDone, stray, eeeVars, tmp>>

\* tc956xmac_eee_init, under priv->lock; its result is kept in tmp.
EeeInit(a) ==
  /\ Now(a).op = "eee_init"
  /\ timer' = IF active THEN (IF enabled THEN timer ELSE "pending")
              ELSE (IF enabled /\ timer = "pending" THEN "idle" ELSE timer)
  /\ broken' = (broken \/ (active /\ ~enabled /\ timer = "pending"))
  /\ tmp' = [tmp EXCEPT ![a] = [mii EXCEPT !.ane = active]]
  /\ Go(a)
  /\ UNCHANGED <<up, polling, carrier, speedVars, active, enabled, lpi>>
Stopped == IF timer = "pending" THEN "idle" ELSE timer
\* Mutant: the timer is left to the link going down.
StepEee_KeepTimer(a) ==
  /\ \/ /\ Now(a).op = "active" /\ active' = Now(a).arg
        /\ UNCHANGED <<enabled, timer, lpi>>
     \/ /\ Now(a).op = "enable_result" /\ enabled' = tmp[a].ane
        /\ UNCHANGED <<active, timer, lpi>>
     \/ /\ Now(a).op = "enabled" /\ enabled' = Now(a).arg
        /\ UNCHANGED <<active, timer, lpi>>
     \/ /\ Now(a).op = "disable_mode" /\ lpi' = FALSE
        /\ UNCHANGED <<active, enabled, timer>>
     \/ /\ Now(a).op = "del_if_enabled"
        /\ timer' = IF enabled THEN Stopped ELSE timer
        /\ UNCHANGED <<active, enabled, lpi>>
     \/ /\ Now(a).op = "rearm" /\ timer' = "pending"
        /\ UNCHANGED <<active, enabled, lpi>>
  /\ Go(a)
  /\ UNCHANGED <<up, polling, carrier, speedVars, broken, tmp>>
StepEee(a) ==
  /\ \/ /\ Now(a).op = "active" /\ active' = Now(a).arg
        /\ UNCHANGED <<enabled, timer, lpi>>
     \/ /\ Now(a).op = "enable_result" /\ enabled' = tmp[a].ane
        /\ UNCHANGED <<active, timer, lpi>>
     \/ /\ Now(a).op = "enabled" /\ enabled' = Now(a).arg
        /\ UNCHANGED <<active, timer, lpi>>
     \/ /\ Now(a).op = "disable_mode" /\ timer' = Stopped /\ lpi' = FALSE
        /\ UNCHANGED <<active, enabled>>
     \/ /\ Now(a).op = "del_if_enabled"
        /\ timer' = IF enabled THEN Stopped ELSE timer
        /\ UNCHANGED <<active, enabled, lpi>>
     \/ /\ Now(a).op = "rearm" /\ timer' = "pending"
        /\ UNCHANGED <<active, enabled, lpi>>
  /\ Go(a)
  /\ UNCHANGED <<up, polling, carrier, speedVars, broken, tmp>>

\* Steps that decide how the actor goes on.
StepBranch(a) ==
  /\ \/ /\ Now(a).op = "test_enabled"
        /\ linkTodo' = [linkTodo EXCEPT ![a] = IF enabled /\ ~lpi THEN Rest(a) ELSE <<>>]
        /\ UNCHANGED <<up, polling, carrier>>
     \/ /\ Now(a).op = "stop_if_refused"
        /\ linkTodo' = [linkTodo EXCEPT ![a] = IF tmp[a].ane THEN Rest(a) ELSE <<>>]
        /\ UNCHANGED <<up, polling, carrier>>
     \/ /\ Now(a).op = "phylink_eee"
        /\ linkTodo' \in {[linkTodo EXCEPT ![a] = Rest(a)]}
             \cup (IF "refuse" \in LinkFaults THEN {[linkTodo EXCEPT ![a] = <<>>]} ELSE {})
        /\ UNCHANGED <<up, polling, carrier>>
     \/ /\ Now(a).op = "opened" /\ up' = TRUE /\ polling' = TRUE /\ Go(a)
        /\ UNCHANGED carrier
     \/ /\ Now(a).op = "phylink_stop" /\ linkTodo["worker"] = <<>>
        /\ up' = FALSE /\ carrier' = 0
        /\ linkTodo' = [linkTodo EXCEPT
             ![a] = (IF carrier # 0 THEN MacLinkDown ELSE <<>>) \o Rest(a)]
        /\ UNCHANGED polling
     \/ /\ Now(a).op = "polls_off" /\ linkTodo["poll"] = <<>>
        /\ polling' = FALSE /\ Go(a) /\ UNCHANGED <<up, carrier>>
  /\ UNCHANGED <<speedVars, eeeVars, tmp>>
RunLink(a) ==
  /\ linkTodo[a] # <<>>
  /\ \/ StepSpeed(a) \/ StepXpcs(a) \/ StepTest(a)
     \/ EeeInit(a) \/ StepEee(a) \/ StepBranch(a)
  /\ UNCHANGED iface

(***************************************************************************)
(* Calls                                                                   *)
(***************************************************************************)
CallLink(a, program) ==
  /\ MayStart(a) /\ Start(a, program)
  /\ UNCHANGED <<iface, polling, speedVars, eeeVars, tmp>>
\* phylink configures the MAC whenever the PHY reports a link, and calls
\* link_up when there was none.
ResolveUp(s, eee) ==
  /\ up /\ s # carrier /\ (Knows(iface, s) \/ "slow" \in LinkFaults)
  /\ carrier' = s
  /\ CallLink("worker", MacConfig(s) \o IF carrier = 0 THEN MacLinkUp(eee) ELSE <<>>)
  /\ UNCHANGED up
ResolveDown ==
  /\ up /\ carrier # 0 /\ carrier' = 0 /\ CallLink("worker", MacLinkDown)
  /\ UNCHANGED up
CallOpenLink == ~up /\ ~polling /\ CallLink("rtnl", OpenLink) /\ UNCHANGED <<up, carrier>>
CallRelease == up /\ CallLink("rtnl", Release) /\ UNCHANGED <<up, carrier>>
CallSetEee(on) == up /\ CallLink("rtnl", EthtoolSetEee(on)) /\ UNCHANGED <<up, carrier>>
CallAnRestart ==
  up /\ iface # "rgmii" /\ CallLink("rtnl", CtrlAne) /\ UNCHANGED <<up, carrier>>
CallTxClean == polling /\ CallLink("poll", TxClean) /\ UNCHANGED <<up, carrier>>
\* The timer re-arms itself and puts an idle transmitter to sleep, of which an
\* interrupt tells; xmit wakes it.
EnterLpi ==
  /\ timer = "pending" /\ up /\ MayStart("poll") /\ lpi' = TRUE
  /\ UNCHANGED <<iface, up, polling, carrier, speedVars, active, enabled, timer,
                 broken, linkTodo, tmp>>
Xmit ==
  /\ up /\ lpi /\ carrier # 0 /\ MayStart("poll")
  /\ timer' = Stopped /\ lpi' = FALSE
  /\ UNCHANGED <<iface, up, polling, carrier, speedVars, active, enabled, broken,
                 linkTodo, tmp>>

\* The XPCS completes autonegotiation: at any time, also in the midst of a call.
AnCompletes ==
  /\ iface # "rgmii" /\ mii.ane /\ ~anDone /\ anDone' = TRUE
  /\ UNCHANGED <<iface, up, polling, carrier, macOn, speed, page, mii, early, stray, eeeVars,
                 linkTodo, tmp>>

LinkInit ==
  /\ iface \in Interfaces /\ up = FALSE /\ polling = FALSE /\ carrier = 0
  /\ macOn = FALSE /\ speed = [set_mac |-> 0, set_bus |-> 0, set_priv |-> 0]
  /\ page = "mii" /\ mii = [speed |-> 0, ane |-> FALSE] /\ stray = FALSE
  /\ anDone = FALSE /\ early = FALSE
  /\ active = FALSE /\ enabled = FALSE /\ timer = "none" /\ broken = FALSE
  /\ lpi = FALSE /\ linkTodo = [a \in Actors |-> <<>>]
  /\ tmp = [a \in Actors |-> mii]
LinkNext ==
  \/ \E a \in Actors : RunLink(a)
  \/ \E s \in NegoSpeeds, eee \in BOOLEAN : ResolveUp(s, eee)
  \/ ResolveDown \/ CallOpenLink \/ CallRelease \/ CallAnRestart \/ CallTxClean
  \/ \E on \in BOOLEAN : CallSetEee(on)
  \/ EnterLpi \/ Xmit \/ AnCompletes

(***************************************************************************)
(* Properties                                                              *)
(***************************************************************************)
LinkTypeOK ==
  /\ carrier \in NegoSpeeds \cup {0} /\ mii.ane \in BOOLEAN
  /\ timer \in {"none", "idle", "pending"} /\ page \in {"mii", "an", "dig"}
  /\ enabled \in BOOLEAN /\ active \in BOOLEAN

\* When no call is under way: a link that is up has the MAC on and the speed
\* the PHY reported in priv->speed; and in the MAC and the bus, and for USXGMII
\* in the XPCS, unless the report came before the XPCS had completed
\* autonegotiation, also after the speed changed or the interface was opened
\* again.  An open interface autonegotiates; a closed one has the MAC off.
LinkAgrees ==
  Idle =>
    /\ carrier # 0 =>
         /\ macOn /\ speed.set_priv = carrier
         /\ ~early => /\ speed.set_mac = carrier /\ speed.set_bus = carrier
                      /\ iface = "usxgmii" => mii.speed = carrier
    /\ iface = "rgmii" => ~early
    /\ (up /\ iface # "rgmii") => mii.ane
    /\ ~stray
    /\ ~up => ~macOn

\* The EEE timer runs only while EEE is enabled, never once the interface is
\* closed, and is never set up while it is pending, in whatever order the
\* link, ethtool, the polls and the transmitter start and stop it.
EeeTimerOwned ==
  /\ ~broken
  /\ Idle => /\ timer = "pending" => enabled
             /\ ~up => timer # "pending"
=============================================================================
