---------------------------- MODULE ControlProofs ----------------------------
(***************************************************************************)
(* Classification, schedules, self-tests, clock, receive parser.  What tc  *)
(* asks for is in force: the flower rules in the layer 3 and 4 filters,    *)
(* for any number of filters, any rules and cookies, the schedules and     *)
(* shapers, for any queues, lists, slopes and speeds, and the u32 rules in *)
(* the parser's table, for any handles, priorities and sizes of the table, *)
(* when nothing fails that FlowFaults, GateFaults or RxpFaults names.  The *)
(* self-tests leave the interface as the user left it, and tell the truth, *)
(* each without the faults that break it and with all the others.  The     *)
(* clock of a port keeps the time it is set to and is read truly, for any  *)
(* number of callers, times and lengths of a second and of a turn, as long *)
(* as callers with and without the lock do not meet.                       *)
(***************************************************************************)
EXTENDS MCControl, LinkProofs, FiniteSetTheorems,
        FunctionTheorems, SequenceTheorems, WellFoundedInduction, TLAPS

FlowSpec == FlowInit /\ [][FlowNext]_flowVars

(***************************************************************************)
(* Types                                                                   *)
(***************************************************************************)
FlowEntry == [cookie : Cookies \cup {0}, used : BOOLEAN, drop : BOOLEAN,
              proto : {"none", "tcp", "udp", "sctp"}, l4 : BOOLEAN]
ControlReg == [l3 : SUBSET Sides, inv3 : SUBSET Sides, l4 : SUBSET Sides,
               inv4 : SUBSET Sides, udp : BOOLEAN]
FilterReg == [ctl : ControlReg, addr : [Sides -> Cookies \cup {0}],
              port : [Sides -> Cookies \cup {0}]]

\* An entry in use belongs to a rule the stack believes in the hardware; one
\* that is not matches nothing, and has no cookie a search could find.
FlowInv ==
  /\ flow \in [Filters -> FlowEntry] /\ filt \in [Filters -> FilterReg]
  /\ live \subseteq spent \X Rules /\ spent \subseteq Cookies
  /\ \A i \in Filters :
       IF flow[i].used THEN \E x \in live : x[1] = flow[i].cookie
       ELSE flow[i].cookie = 0 /\ ~flow[i].l4 /\ filt[i].ctl = Off
  /\ \A i, j \in Filters :
       flow[i].used /\ flow[j].used /\ flow[i].cookie = flow[j].cookie => i = j
  /\ \A x \in live : \E i \in Filters :
       /\ flow[i].used /\ flow[i].cookie = x[1]
       /\ InHardware(filt[i]) = Asked(x[2], x[1])

LEMMA FlowInvImplies == FlowInv => FlowTypeOK /\ FlowsInForce
<1> SUFFICES ASSUME FlowInv PROVE FlowTypeOK /\ FlowsInForce
  OBVIOUS
<1>1. FlowTypeOK
  BY DEF FlowInv, FlowTypeOK, FlowEntry, FilterReg, ControlReg
<1>2. \A x \in live : \E i \in Filters : InHardware(filt[i]) = Asked(x[2], x[1])
  BY DEF FlowInv
<1>3. \A i \in Filters :
        filt[i].ctl = Off \/ \E x \in live : flow[i].cookie = x[1] /\ flow[i].used
  BY DEF FlowInv
<1> QED
  BY <1>1, <1>2, <1>3 DEF FlowsInForce

LEMMA FlowStart == FlowInit => FlowInv
<1> SUFFICES ASSUME FlowInit PROVE FlowInv
  OBVIOUS
<1>1. NoFlow \in FlowEntry /\ NoFilter \in FilterReg
  BY DEF NoFlow, FlowEntry, NoFilter, Off, FilterReg, ControlReg
<1>2. flow = [i \in Filters |-> NoFlow] /\ filt = [i \in Filters |-> NoFilter]
  BY DEF FlowInit
<1>3. \A i \in Filters : ~flow[i].used /\ flow[i].cookie = 0 /\ ~flow[i].l4 /\ filt[i].ctl = Off
  BY <1>2 DEF NoFlow, NoFilter
<1> QED
  BY <1>1, <1>2, <1>3 DEF FlowInit, FlowInv

(***************************************************************************)
(* Helpers                                                                 *)
(***************************************************************************)
\* The first entry of a search is one of those found: the intervals up to each
\* of them are finite sets, of which one is least.
LEMMA FirstFound ==
  ASSUME NEW S \in SUBSET Filters, S # {}
  PROVE  Min(S) \in S
<1> DEFINE T == {1 .. i : i \in S}
<1>0. FlowsMax \in Nat
  BY FlowAssumption
<1>1. T \subseteq SUBSET Filters /\ T # {}
  <2>1. \A i \in S : 1 .. i \subseteq 1 .. FlowsMax
    BY <1>0 DEF Filters
  <2> QED
    BY <2>1, Zenon DEF Filters
<1>2. IsFiniteSet(Filters)
  BY <1>0, FS_Interval DEF Filters
<1>3. IsWellFoundedOn(StrictSubsetOrdering(Filters), SUBSET Filters)
  BY <1>2, FS_StrictSubsetOrderingWellFounded, FS_FiniteSubsetsOfFinite
<1> HIDE DEF T
<1>4. PICK x \in T : \A y \in T : <<y, x>> \notin StrictSubsetOrdering(Filters)
  BY <1>1, <1>3, WFMin, Zenon
<1>5. PICK i \in S : x = 1 .. i
  BY DEF T
<1>6. \A j \in S : i <= j
  <2> SUFFICES ASSUME NEW j \in S, j < i PROVE FALSE
    BY DEF Filters
  <2>1. 1 .. j \in T
    BY DEF T
  <2>2. 1 .. j \subseteq 1 .. i /\ 1 .. j # 1 .. i
    BY <1>0 DEF Filters
  <2> QED
    BY <1>1, <1>4, <1>5, <2>1, <2>2 DEF StrictSubsetOrdering
<1> QED
  BY <1>6 DEF Min

\* One side of a filter, with accesses enough before it stays busy.
Set3(f, side, inv, match) ==
  [f EXCEPT !.ctl = Layer3(@, side, inv), !.addr[side] = match]
Set4(f, side, inv, udp, match) ==
  [f EXCEPT !.ctl = Layer4(@, side, inv, udp),
            !.port = [s \in Sides |-> IF s = side THEN match ELSE 0]]

\* The truth values, and one of them, by name.
Flags == BOOLEAN
Udp(e) == e.proto = "udp"

LEMMA ConfigL3Is ==
  ASSUME NEW f \in FilterReg, NEW left \in 3..12, NEW side \in Sides, NEW inv \in BOOLEAN,
         NEW match \in Cookies \cup {0}
  PROVE  /\ ConfigL3(State(f, left, TRUE), side, inv, match)
               = State(Set3(f, side, inv, match), left - 3, TRUE)
         /\ Set3(f, side, inv, match) \in FilterReg
<1>1. Layer3(f.ctl, side, inv) \in ControlReg
  BY DEF FilterReg, ControlReg, Layer3
<1>2. Set3(f, side, inv, match) \in FilterReg
  BY <1>1 DEF Set3, FilterReg
<1>3. Set3(f, side, inv, match)
        = [[f EXCEPT !.ctl = Layer3(@, side, inv)] EXCEPT !.addr[side] = match]
  BY DEF Set3, FilterReg
<1>4. ~(~TRUE \/ left < 2) /\ ~(TRUE /\ left = 2)
  OBVIOUS
<1> QED
  BY <1>2, <1>3, <1>4 DEF ConfigL3, State

LEMMA ConfigL4Is ==
  ASSUME NEW f \in FilterReg, NEW left \in 3..12, NEW side \in Sides, NEW inv \in BOOLEAN,
         NEW udp \in Flags, NEW match \in Cookies \cup {0}
  PROVE  /\ ConfigL4(State(f, left, TRUE), side, inv, udp, match)
               = State(Set4(f, side, inv, udp, match), left - 3, TRUE)
         /\ Set4(f, side, inv, udp, match) \in FilterReg
<1>1. Layer4(f.ctl, side, inv, udp) \in ControlReg
  BY DEF FilterReg, ControlReg, Layer4, Flags
<1>2. Set4(f, side, inv, udp, match) \in FilterReg
  BY <1>1 DEF Set4, FilterReg
<1>3. Set4(f, side, inv, udp, match)
        = [[f EXCEPT !.ctl = Layer4(@, side, inv, udp)]
             EXCEPT !.port = [s \in Sides |-> IF s = side THEN match ELSE 0]]
  BY DEF Set4, FilterReg
<1>4. ~(~TRUE \/ left < 2) /\ ~(TRUE /\ left = 2)
  OBVIOUS
<1> QED
  BY <1>2, <1>3, <1>4 DEF ConfigL4, State

\* Disabling either layer turns the whole filter off.
LEMMA DisableIs ==
  ASSUME NEW f \in FilterReg
  PROVE  LET st == State(f, 12, TRUE)
         IN /\ DisableL3(st).f \in FilterReg /\ DisableL3(st).f.ctl = Off
            /\ DisableL4(st).f \in FilterReg /\ DisableL4(st).f.ctl = Off
<1>0. Off \in ControlReg
  BY DEF Off, ControlReg
<1> DEFINE st == State(f, 12, TRUE)
           f3 == Set3(f, "da", FALSE, 0)
           f4 == Set4(f, "da", FALSE, FALSE, 0)
<1>a. /\ 12 \in 3..12 /\ 12 - 3 = 9 /\ "da" \in Sides
      /\ 0 \in Cookies \cup {0} /\ FALSE \in BOOLEAN
  BY DEF Sides
<1>b. ASSUME NEW g PROVE LET r == State(g, 9, TRUE) IN r.f = g /\ r.left = 9 /\ r.ok
  BY DEF State
<1>1. ConfigL3(st, "da", FALSE, 0) = State(f3, 9, TRUE) /\ f3 \in FilterReg
  BY <1>a, ConfigL3Is, ZenonT(30)
<1>2. ConfigL4(st, "da", FALSE, FALSE, 0) = State(f4, 9, TRUE) /\ f4 \in FilterReg
  <2>1. \A udp \in Flags :
          /\ ConfigL4(State(f, 12, TRUE), "da", FALSE, udp, 0)
               = State(Set4(f, "da", FALSE, udp, 0), 12 - 3, TRUE)
          /\ Set4(f, "da", FALSE, udp, 0) \in FilterReg
    BY <1>a, ConfigL4Is, Zenon
  <2> QED
    BY <1>a, <2>1, Zenon DEF Flags
<1> HIDE DEF st, f3, f4
<1>3. DisableL3(st) = State([f3 EXCEPT !.ctl = Off], 9 - 1, TRUE)
  <2> DEFINE r == ConfigL3(st, "da", FALSE, 0)
  <2>1. r.f = f3 /\ r.left = 9 /\ r.ok
    BY <1>1, <1>b
  <2> HIDE DEF r
  <2>2. DisableL3(st) = IF r.ok /\ r.left > 0 THEN State([r.f EXCEPT !.ctl = Off], r.left - 1, TRUE)
                        ELSE [r EXCEPT !.ok = FALSE]
    BY DEF DisableL3, r
  <2>3. r.left > 0 /\ r.left - 1 = 9 - 1
    BY <2>1
  <2> QED
    BY <2>1, <2>2, <2>3, Zenon
<1>4. DisableL4(st) = State([f4 EXCEPT !.ctl = Off], 9 - 1, TRUE)
  <2> DEFINE r == ConfigL4(st, "da", FALSE, FALSE, 0)
  <2>1. r.f = f4 /\ r.left = 9 /\ r.ok
    BY <1>2, <1>b
  <2> HIDE DEF r
  <2>2. DisableL4(st) = IF r.ok /\ r.left > 0 THEN State([r.f EXCEPT !.ctl = Off], r.left - 1, TRUE)
                        ELSE [r EXCEPT !.ok = FALSE]
    BY DEF DisableL4, r
  <2>3. r.left > 0 /\ r.left - 1 = 9 - 1
    BY <2>1
  <2> QED
    BY <2>1, <2>2, <2>3, Zenon
<1>5. \A g \in FilterReg : LET h == [g EXCEPT !.ctl = Off] IN h \in FilterReg /\ h.ctl = Off
  BY <1>0 DEF FilterReg
<1>6. DisableL3(st).f = [f3 EXCEPT !.ctl = Off] /\ DisableL4(st).f = [f4 EXCEPT !.ctl = Off]
  BY <1>3, <1>4 DEF State
<1>7. /\ DisableL3(st).f \in FilterReg /\ DisableL3(st).f.ctl = Off
      /\ DisableL4(st).f \in FilterReg /\ DisableL4(st).f.ctl = Off
  BY <1>1, <1>2, <1>5, <1>6, Zenon
<1> QED
  BY <1>7 DEF st

LEMMA StateFields ==
  ASSUME NEW g, NEW left
  PROVE  State(g, left, TRUE).f = g /\ State(g, left, TRUE).left = left /\ State(g, left, TRUE).ok
BY DEF State

LEMMA StateAgain ==
  ASSUME NEW g, NEW left, NEW ok
  PROVE  [State(g, left, ok) EXCEPT !.ok = ok] = State(g, left, ok)
BY DEF State

\* The sides of layer 3 configured so far, with their value and sense.
Layer3Is(g, sides, match, inv) ==
  /\ g.ctl.l3 = sides /\ g.ctl.inv3 = (IF inv THEN sides ELSE {})
  /\ \A s \in sides : g.addr[s] = match
LEMMA Set3Is ==
  ASSUME NEW f \in FilterReg, NEW side \in Sides, NEW inv \in BOOLEAN,
         NEW match \in Cookies \cup {0}, NEW sides \in SUBSET Sides,
         Layer3Is(f, sides, match, inv)
  PROVE  LET g == Set3(f, side, inv, match)
         IN Layer3Is(g, sides \cup {side}, match, inv) /\ g.ctl.l4 = f.ctl.l4
<1> DEFINE g == Set3(f, side, inv, match)
<1>1. g.ctl = Layer3(f.ctl, side, inv) /\ g.addr = [f.addr EXCEPT ![side] = match]
  BY DEF Set3, FilterReg
<1>2. /\ Layer3(f.ctl, side, inv).l3 = f.ctl.l3 \cup {side}
      /\ Layer3(f.ctl, side, inv).inv3 = (IF inv THEN f.ctl.inv3 \cup {side} ELSE f.ctl.inv3)
      /\ Layer3(f.ctl, side, inv).l4 = f.ctl.l4
  BY DEF Layer3, FilterReg, ControlReg
<1>3. \A s \in sides \cup {side} : g.addr[s] = match
  BY <1>1 DEF Layer3Is, FilterReg
<1> HIDE DEF g
<1> QED
  BY <1>1, <1>2, <1>3 DEF Layer3Is, g

\* The addresses of a rule, put into a filter that is off.
LEMMA AddIp4Is ==
  ASSUME NEW f \in FilterReg, f.ctl = Off, NEW e \in FlowEntry, NEW r \in FlowRule,
         NEW match \in Cookies
  PROVE  \E g \in FilterReg, left \in 6..12 :
           /\ AddIp4(State(f, 12, TRUE), e, r, match) = State(g, left, TRUE)
           /\ Layer3Is(g, r.ip, match, e.drop) /\ g.ctl.l4 = {}
<1> DEFINE st == State(f, 12, TRUE)
           src == IF "sa" \in r.ip THEN ConfigL3(st, "sa", e.drop, match) ELSE st
<1>1. /\ e.drop \in BOOLEAN /\ r.ip \subseteq Sides /\ match \in Cookies \cup {0}
      /\ "sa" \in Sides /\ "da" \in Sides
  BY DEF FlowEntry, FlowRule, Sides
<1>2. Layer3Is(f, {}, match, e.drop) /\ f.ctl.l4 = {}
  BY DEF Layer3Is, Off
<1>3. \E g \in FilterReg, left \in 9..12 :
        /\ src = State(g, left, TRUE)
        /\ Layer3Is(g, r.ip \cap {"sa"}, match, e.drop) /\ g.ctl.l4 = {}
  <2>1. CASE "sa" \in r.ip
    <3>1. /\ ConfigL3(State(f, 12, TRUE), "sa", e.drop, match)
                = State(Set3(f, "sa", e.drop, match), 12 - 3, TRUE)
          /\ Set3(f, "sa", e.drop, match) \in FilterReg
      <4>1. 12 \in 3..12
        OBVIOUS
      <4> QED
        BY <1>1, <4>1, ConfigL3Is, Zenon
    <3>2. /\ Layer3Is(Set3(f, "sa", e.drop, match), {} \cup {"sa"}, match, e.drop)
          /\ Set3(f, "sa", e.drop, match).ctl.l4 = {}
      BY <1>1, <1>2, Set3Is
    <3>3. {} \cup {"sa"} = r.ip \cap {"sa"} /\ 12 - 3 \in 9..12
      BY <2>1
    <3> QED
      BY <2>1, <3>1, <3>2, <3>3, Zenon
  <2>2. CASE "sa" \notin r.ip
    <3>1. r.ip \cap {"sa"} = {} /\ 12 \in 9..12
      BY <2>2
    <3> QED
      BY <1>2, <2>2, <3>1, Zenon
  <2> QED
    BY <2>1, <2>2
<1>4. PICK g \in FilterReg, left \in 9..12 :
        /\ src = State(g, left, TRUE)
        /\ Layer3Is(g, r.ip \cap {"sa"}, match, e.drop) /\ g.ctl.l4 = {}
  BY <1>3
<1>5. AddIp4(st, e, r, match) = IF "da" \in r.ip THEN ConfigL3(src, "da", e.drop, match) ELSE src
  <2> HIDE DEF src
  <2>1. src.ok
    BY <1>4, StateFields, Zenon
  <2> QED
    BY <2>1 DEF AddIp4, src
<1> HIDE DEF st, src
<1>6. CASE "da" \in r.ip
  <2> DEFINE h == Set3(g, "da", e.drop, match)
  <2>0. left \in 3..12
    OBVIOUS
  <2>1. ConfigL3(State(g, left, TRUE), "da", e.drop, match) = State(h, left - 3, TRUE) /\ h \in FilterReg
    BY <1>1, <2>0, ConfigL3Is
  <2>2. Layer3Is(h, (r.ip \cap {"sa"}) \cup {"da"}, match, e.drop) /\ h.ctl.l4 = {}
    <3>1. r.ip \cap {"sa"} \in SUBSET Sides
      BY <1>1
    <3> QED
      BY <1>1, <1>4, <3>1, Set3Is
  <2>3. (r.ip \cap {"sa"}) \cup {"da"} = r.ip /\ left - 3 \in 6..12
    BY <1>1, <1>6 DEF Sides
  <2>4. AddIp4(st, e, r, match) = State(h, left - 3, TRUE)
    BY <1>4, <1>5, <1>6, <2>1
  <2> HIDE DEF h
  <2> QED
    BY <2>1, <2>2, <2>3, <2>4, Zenon DEF st
<1>7. CASE "da" \notin r.ip
  <2>1. r.ip \cap {"sa"} = r.ip /\ left \in 6..12
    BY <1>1, <1>7 DEF Sides
  <2>2. AddIp4(st, e, r, match) = State(g, left, TRUE)
    BY <1>4, <1>5, <1>7
  <2> QED
    BY <1>4, <2>1, <2>2, Zenon DEF st
<1> QED
  BY <1>6, <1>7

\* The port of a rule that matches one.
LEMMA AddPortsIs ==
  ASSUME NEW g \in FilterReg, NEW left \in 6..12, NEW e \in FlowEntry, NEW r \in FlowRule,
         NEW match \in Cookies, NEW side \in Sides, r.ports = {side}
  PROVE  AddPorts(State(g, left, TRUE), e, r, match)
           = State(Set4(g, side, e.drop, Udp(e), match), left - 3, TRUE)
<1> DEFINE st == State(g, left, TRUE)
           src == IF "sa" \in r.ports THEN ConfigL4(st, "sa", e.drop, Udp(e), match) ELSE st
<1>1. /\ e.drop \in BOOLEAN /\ Udp(e) \in Flags /\ match \in Cookies \cup {0}
      /\ left \in 3..12 /\ "sa" # "da" /\ (side = "sa" \/ side = "da")
  BY DEF FlowEntry, Sides, Flags, Udp
<1>2. ConfigL4(st, side, e.drop, Udp(e), match) = State(Set4(g, side, e.drop, Udp(e), match), left - 3, TRUE)
  BY <1>1, ConfigL4Is, Zenon
<1>3. AddPorts(st, e, r, match)
        = IF "da" \in r.ports /\ src.ok THEN ConfigL4(src, "da", e.drop, Udp(e), match) ELSE src
  BY DEF AddPorts, Udp
<1>4. st.ok
  BY StateFields
<1> HIDE DEF st
<1>5. CASE side = "sa"
  <2>1. src = ConfigL4(st, side, e.drop, Udp(e), match) /\ "da" \notin r.ports
    BY <1>5
  <2> QED
    BY <1>2, <1>3, <2>1 DEF st
<1>6. CASE side = "da"
  <2>1. src = st /\ "da" \in r.ports
    BY <1>6
  <2> QED
    BY <1>2, <1>3, <1>4, <1>6, <2>1 DEF st
<1> QED
  BY <1>1, <1>5, <1>6

LEMMA InHardwareIs ==
  ASSUME NEW h \in FilterReg, NEW r \in FlowRule, NEW c, Layer3Is(h, r.ip, c, r.drop),
         h.ctl.l4 = r.ports,
         \A s \in r.ports : /\ h.port[s] = c /\ (s \in h.ctl.inv4) = r.drop
                            /\ h.ctl.udp = (r.proto = "udp")
  PROVE  InHardware(h) = Asked(r, c)
<1>1. \A s \in r.ip : (s \in h.ctl.inv3) = r.drop
  BY DEF Layer3Is, FlowRule
<1>2. {<<s, h.addr[s], s \in h.ctl.inv3>> : s \in h.ctl.l3} = {<<s, c, r.drop>> : s \in r.ip}
  BY <1>1 DEF Layer3Is
<1>3. {<<s, h.port[s], s \in h.ctl.inv4, h.ctl.udp>> : s \in h.ctl.l4}
        = {<<s, c, r.drop, r.proto = "udp">> : s \in r.ports}
  OBVIOUS
<1> QED
  BY <1>2, <1>3 DEF InHardware, Asked

\* The entry shows the action and the protocol of the rule and no other.
Suits(e, r) ==
  e.drop = r.drop /\ e.proto = IF r.proto = "any" THEN "none" ELSE r.proto

\* What the two parsers make of a filter that is off.
LEMMA Programmed ==
  ASSUME NEW f \in FilterReg, f.ctl = Off, NEW e \in FlowEntry, NEW r \in FlowRule,
         NEW c \in Cookies, Suits(e, r), r.ports # Sides
  PROVE  LET ip == AddIp4(State(f, 12, TRUE), e, r, c)
             next == [ip EXCEPT !.ok = TRUE]
             po == IF r.ports # {} THEN AddPorts(next, e, r, c) ELSE next
         IN /\ ip.ok /\ po.ok /\ po.f \in FilterReg /\ InHardware(po.f) = Asked(r, c)
            /\ r.ip = {} /\ r.ports = {} => po.f.ctl = Off
<1> DEFINE ip == AddIp4(State(f, 12, TRUE), e, r, c)
           next == [ip EXCEPT !.ok = TRUE]
           po == IF r.ports # {} THEN AddPorts(next, e, r, c) ELSE next
<1>1. PICK g \in FilterReg, left \in 6..12 :
        /\ ip = State(g, left, TRUE)
        /\ Layer3Is(g, r.ip, c, e.drop) /\ g.ctl.l4 = {}
  BY AddIp4Is
<1>2. r.ip = {} => ip = State(f, 12, TRUE)
  BY DEF AddIp4
<1> HIDE DEF ip
<1>3. next = ip
  <2>1. [State(g, left, TRUE) EXCEPT !.ok = TRUE] = State(g, left, TRUE)
    BY StateAgain, Zenon
  <2> QED
    BY <1>1, <2>1, Zenon
<1> HIDE DEF next
<1>4. CASE r.ports = {}
  <2>1. po = ip /\ ip.f = g /\ ip.ok
    BY <1>1, <1>3, <1>4, StateFields, Zenon
  <2>2. InHardware(g) = Asked(r, c)
    BY <1>1, <1>4, InHardwareIs DEF Suits
  <2>3. r.ip = {} => ip.f = f
    <3>1. State(f, 12, TRUE).f = f
      BY StateFields
    <3> QED
      BY <1>2, <3>1
  <2> HIDE DEF po
  <2> QED
    BY <2>1, <2>2, <2>3, Zenon DEF ip, next, po
<1>5. CASE r.ports # {}
  <2>1. PICK side \in Sides : r.ports = {side}
    BY <1>5 DEF FlowRule, Sides
  <2> DEFINE h == Set4(g, side, e.drop, Udp(e), c)
  <2>2. po = State(h, left - 3, TRUE)
    <3>1. AddPorts(State(g, left, TRUE), e, r, c) = State(h, left - 3, TRUE)
      BY <2>1, AddPortsIs, ZenonT(30)
    <3> QED
      BY <1>1, <1>3, <1>5, <3>1, Zenon
  <2>3. h \in FilterReg /\ e.drop \in BOOLEAN
    <3>1. /\ left \in 3..12 /\ e.drop \in BOOLEAN /\ c \in Cookies \cup {0}
          /\ Udp(e) \in Flags
      BY DEF FlowEntry, Flags, Udp
    <3> QED
      BY <3>1, ConfigL4Is, Zenon
  <2>4. /\ h.ctl = Layer4(g.ctl, side, e.drop, Udp(e)) /\ h.addr = g.addr
        /\ h.port = [s \in Sides |-> IF s = side THEN c ELSE 0]
    BY DEF Set4, FilterReg
  <2>5. /\ h.ctl.l3 = g.ctl.l3 /\ h.ctl.inv3 = g.ctl.inv3 /\ h.ctl.l4 = {side}
        /\ h.ctl.inv4 = (IF e.drop THEN {side} ELSE {}) /\ h.ctl.udp = Udp(e)
    BY <2>4 DEF Layer4, FilterReg, ControlReg
  <2> HIDE DEF h
  <2>6. Layer3Is(h, r.ip, c, r.drop)
    BY <1>1, <2>4, <2>5 DEF Layer3Is, Suits
  <2>7. (side \in h.ctl.inv4) = r.drop
    BY <2>3, <2>5 DEF Suits
  <2>8. h.port[side] = c
    BY <2>4
  <2>9. InHardware(h) = Asked(r, c)
    <3>1. \A s \in r.ports : /\ h.port[s] = c /\ (s \in h.ctl.inv4) = r.drop
                             /\ h.ctl.udp = (r.proto = "udp")
      BY <2>1, <2>5, <2>7, <2>8 DEF Udp, Suits
    <3>2. h.ctl.l4 = r.ports
      BY <2>1, <2>5
    <3> QED
      BY <2>3, <2>6, <3>1, <3>2, InHardwareIs
  <2>10. po.f = h /\ po.ok /\ ip.ok
    <3> HIDE DEF po
    <3> QED
      BY <1>1, <2>2, StateFields, Zenon
  <2> HIDE DEF po
  <2> QED
    BY <1>5, <2>3, <2>9, <2>10, Zenon DEF ip, next, po
<1> QED
  BY <1>4, <1>5

(***************************************************************************)
(* Steps                                                                   *)
(***************************************************************************)
\* An entry that was free takes a rule, which is in force when the stack is
\* told so; or it stays free.
LEMMA AddFlowIs ==
  ASSUME FlowInv, FlowFaults = {}, NEW c \in Cookies, NEW r \in Rules, AddFlow(c, r)
  PROVE  \E i \in Filters, h \in FilterReg, n \in FlowEntry, good \in Flags :
           /\ ~flow[i].used /\ c \notin spent /\ spent' = spent \cup {c}
           /\ filt' = [filt EXCEPT ![i] = h] /\ flow' = [flow EXCEPT ![i] = n]
           /\ live' = IF good THEN live \cup {<<c, r>>} ELSE live
           /\ IF good THEN n.used /\ n.cookie = c /\ InHardware(h) = Asked(r, c)
              ELSE ~n.used /\ n.cookie = 0 /\ ~n.l4 /\ h.ctl = Off
<1> DEFINE i == Min(FindFlow(c, TRUE))
           e == Parse(flow[i], r)
           ip == AddIp4(State(filt[i], 12, TRUE), e, r, c)
           next == [ip EXCEPT !.ok = TRUE]
           hasPorts == r.ports # {} /\ e.proto \in {"tcp", "udp"}
           po == IF hasPorts THEN AddPorts(next, e, r, c) ELSE next
           good == r.proto # "none" \/ (r.ip # {} /\ ip.ok) \/ (hasPorts /\ po.ok)
           n == [e EXCEPT !.used = @ \/ good, !.l4 = @ \/ (hasPorts /\ po.ok),
                          !.cookie = IF e.used \/ good THEN c ELSE @]
<1>1. i \in FindFlow(c, TRUE) /\ i \in Filters
  <2>1. FindFlow(c, TRUE) \in SUBSET Filters /\ FindFlow(c, TRUE) # {}
    BY DEF AddFlow, FindFlow
  <2> QED
    BY <2>1, FirstFound
<1>2. c \notin spent /\ spent' = spent \cup {c}
  BY DEF AddFlow
<1>3. LimitSet = {12}
  BY DEF LimitSet
<1>4. /\ filt' = [filt EXCEPT ![i] = po.f] /\ flow' = [flow EXCEPT ![i] = n]
      /\ live' = IF e.used \/ good THEN live \cup {<<c, r>>} ELSE live
      /\ ~Excluded(flow[i], r)
  BY <1>3 DEF AddFlow
<1> HIDE DEF i
<1>5. ~flow[i].used
  <2> SUFFICES ASSUME flow[i].used PROVE FALSE
    OBVIOUS
  <2>1. flow[i].cookie = c
    BY <1>1 DEF FindFlow
  <2>2. PICK x \in live : x[1] = flow[i].cookie
    BY <1>1 DEF FlowInv
  <2> QED
    BY <1>2, <2>1, <2>2 DEF FlowInv
<1>6. /\ flow[i] \in FlowEntry /\ filt[i] \in FilterReg /\ r \in FlowRule
      /\ flow[i].cookie = 0 /\ ~flow[i].l4 /\ filt[i].ctl = Off
  BY <1>1, <1>5, RulesAssumption DEF FlowInv
<1>7. /\ ~(flow[i].drop /\ ~r.drop) /\ ~(flow[i].proto # "none" /\ r.proto = "none")
      /\ r.ports # Sides /\ (r.ports # {} => r.proto \in {"tcp", "udp"})
  BY <1>4 DEF Excluded
<1>8. /\ e \in FlowEntry /\ Suits(e, r) /\ ~e.used /\ e.cookie = 0 /\ ~e.l4
  <2> DEFINE shown == IF r.proto = "any" THEN "none" ELSE r.proto
  <2>1. e = [flow[i] EXCEPT !.drop = r.drop, !.proto = shown]
    <3>1. (flow[i].drop \/ r.drop) = r.drop
      BY <1>6, <1>7 DEF FlowEntry, FlowRule
    <3>2. (CASE r.proto = "none" -> flow[i].proto
             [] r.proto = "any" -> "none"
             [] OTHER -> r.proto) = shown
      BY <1>7
    <3> HIDE DEF shown
    <3> QED
      BY <3>1, <3>2 DEF Parse
  <2> HIDE DEF e
  <2> QED
    BY <1>5, <1>6, <2>1 DEF FlowEntry, FlowRule, Suits
<1> HIDE DEF e
<1>9. hasPorts <=> r.ports # {}
  BY <1>7, <1>8 DEF Suits
<1> DEFINE po2 == IF r.ports # {} THEN AddPorts(next, e, r, c) ELSE next
<1>10. /\ ip.ok /\ po2.ok /\ po2.f \in FilterReg /\ InHardware(po2.f) = Asked(r, c)
       /\ r.ip = {} /\ r.ports = {} => po2.f.ctl = Off
  BY <1>6, <1>7, <1>8, Programmed
<1> HIDE DEF ip, next
<1>11. po = po2
  BY <1>9
<1> HIDE DEF hasPorts, po, po2
<1>12. good <=> (r.proto # "none" \/ r.ip # {} \/ r.ports # {})
  BY <1>9, <1>10, <1>11
<1>13. good \in Flags
  BY DEF Flags
<1> HIDE DEF good
<1>14. /\ n \in FlowEntry /\ (n.used <=> good) /\ (n.l4 <=> hasPorts)
       /\ n.cookie = IF good THEN c ELSE 0
  BY <1>8, <1>10, <1>11, <1>13 DEF FlowEntry, Flags, hasPorts
<1> HIDE DEF n
<1>15. CASE good
  BY <1>1, <1>2, <1>4, <1>5, <1>10, <1>11, <1>13, <1>14, <1>15
<1>16. CASE ~good
  <2>1. ~hasPorts /\ r.ip = {} /\ r.ports = {}
    BY <1>9, <1>12, <1>16
  <2> QED
    BY <1>1, <1>2, <1>4, <1>5, <1>8, <1>10, <1>11, <1>13, <1>14, <1>16, <2>1
<1> QED
  BY <1>15, <1>16

LEMMA AddFlowStep ==
  ASSUME FlowInv, FlowFaults = {}, NEW c \in Cookies, NEW r \in Rules, AddFlow(c, r)
  PROVE  FlowInv'
<1>1. PICK i \in Filters, h \in FilterReg, n \in FlowEntry, good \in Flags :
        /\ ~flow[i].used /\ c \notin spent /\ spent' = spent \cup {c}
        /\ filt' = [filt EXCEPT ![i] = h] /\ flow' = [flow EXCEPT ![i] = n]
        /\ live' = IF good THEN live \cup {<<c, r>>} ELSE live
        /\ IF good THEN n.used /\ n.cookie = c /\ InHardware(h) = Asked(r, c)
           ELSE ~n.used /\ n.cookie = 0 /\ ~n.l4 /\ h.ctl = Off
  BY AddFlowIs
<1>2. flow' \in [Filters -> FlowEntry] /\ filt' \in [Filters -> FilterReg]
  BY <1>1 DEF FlowInv
<1>3. live' \subseteq spent' \X Rules /\ spent' \subseteq Cookies /\ live \subseteq live'
  BY <1>1 DEF FlowInv
<1>4. /\ flow'[i] = n /\ filt'[i] = h
      /\ \A j \in Filters \ {i} : flow'[j] = flow[j] /\ filt'[j] = filt[j]
  BY <1>1 DEF FlowInv
<1>5. good => <<c, r>> \in live'
  BY <1>1
<1>6. \A j \in Filters : flow[j].used => flow[j].cookie # c
  BY <1>1 DEF FlowInv
<1>7. ASSUME NEW j \in Filters
      PROVE  IF flow'[j].used THEN \E x \in live' : x[1] = flow'[j].cookie
             ELSE flow'[j].cookie = 0 /\ ~flow'[j].l4 /\ filt'[j].ctl = Off
  <2>1. CASE j # i
    BY <1>3, <1>4, <2>1 DEF FlowInv
  <2>2. CASE j = i /\ good
    BY <1>1, <1>4, <1>5, <2>2, ZenonT(40)
  <2>3. CASE j = i /\ ~good
    BY <1>1, <1>4, <2>3
  <2> QED
    BY <2>1, <2>2, <2>3
<1>8. ASSUME NEW j \in Filters, NEW k \in Filters, flow'[j].used, flow'[k].used,
             flow'[j].cookie = flow'[k].cookie
      PROVE  j = k
  BY <1>1, <1>4, <1>6, <1>8 DEF FlowInv
<1>9. ASSUME NEW x \in live'
      PROVE  \E j \in Filters : /\ flow'[j].used /\ flow'[j].cookie = x[1]
                               /\ InHardware(filt'[j]) = Asked(x[2], x[1])
  <2>1. CASE x \in live
    <3>1. PICK j \in Filters : /\ flow[j].used /\ flow[j].cookie = x[1]
                              /\ InHardware(filt[j]) = Asked(x[2], x[1])
      BY <2>1 DEF FlowInv
    <3>2. flow'[j] = flow[j] /\ filt'[j] = filt[j]
      BY <1>1, <1>4, <3>1
    <3> QED
      BY <3>1, <3>2
  <2>2. CASE x \notin live
    <3>1. good /\ x = <<c, r>>
      BY <1>1, <2>2
    <3> QED
      BY <1>1, <1>4, <3>1
  <2> QED
    BY <2>1, <2>2
<1> QED
  BY <1>2, <1>3, <1>7, <1>8, <1>9 DEF FlowInv

\* The rule's entry becomes free and its filter is turned off.
LEMMA DelFlowStep ==
  ASSUME FlowInv, FlowFaults = {}, NEW c \in Cookies, DelFlow(c)
  PROVE  FlowInv'
<1> DEFINE i == Min(FindFlow(c, FALSE))
           n == [flow[i] EXCEPT !.used = FALSE, !.cookie = 0, !.l4 = FALSE]
           st == State(filt[i], 12, TRUE)
           h == IF flow[i].l4 THEN DisableL4(st).f ELSE DisableL3(st).f
<1>1. PICK x \in live : x[1] = c
  BY DEF DelFlow
<1>2. FindFlow(c, FALSE) # {} /\ FindFlow(c, FALSE) \in SUBSET Filters
  BY <1>1 DEF FlowInv, FindFlow
<1>3. i \in Filters /\ flow[i].cookie = c
  <2>1. i \in FindFlow(c, FALSE)
    BY <1>2, FirstFound
  <2> QED
    BY <2>1 DEF FindFlow
<1>4. LimitSet = {12}
  BY DEF LimitSet
<1>5. flow' = [flow EXCEPT ![i] = n] /\ filt' = [filt EXCEPT ![i] = h]
  BY <1>2, <1>4 DEF DelFlow
<1>6. live' = {y \in live : y[1] # c} /\ spent' = spent
  BY DEF DelFlow
<1> HIDE DEF i
<1>7. h \in FilterReg /\ h.ctl = Off
  BY <1>3, DisableIs DEF FlowInv
<1>8. n \in FlowEntry /\ ~n.used /\ n.cookie = 0 /\ ~n.l4
  <2>1. flow[i] \in FlowEntry
    BY <1>3 DEF FlowInv
  <2> QED
    BY <2>1 DEF FlowEntry
<1> HIDE DEF n, h
<1>9. flow' \in [Filters -> FlowEntry] /\ filt' \in [Filters -> FilterReg]
  BY <1>5, <1>7, <1>8 DEF FlowInv
<1>10. /\ flow'[i] = n /\ filt'[i] = h
       /\ \A j \in Filters \ {i} : flow'[j] = flow[j] /\ filt'[j] = filt[j]
  BY <1>3, <1>5 DEF FlowInv
<1>11. c # 0
  BY FlowAssumption
<1>12. \A j \in Filters \ {i} : flow[j].used => flow[j].cookie # c
  <2>1. flow[i].used
    BY <1>3, <1>11 DEF FlowInv
  <2> QED
    BY <1>3, <2>1 DEF FlowInv
<1>13. ASSUME NEW j \in Filters
       PROVE  IF flow'[j].used THEN \E y \in live' : y[1] = flow'[j].cookie
              ELSE flow'[j].cookie = 0 /\ ~flow'[j].l4 /\ filt'[j].ctl = Off
  <2>1. CASE j = i
    BY <1>7, <1>8, <1>10, <2>1
  <2>2. CASE j # i /\ flow[j].used
    <3>1. PICK y \in live : y[1] = flow[j].cookie
      BY <2>2 DEF FlowInv
    <3> QED
      BY <1>6, <1>10, <1>12, <2>2, <3>1
  <2>3. CASE j # i /\ ~flow[j].used
    BY <1>10, <2>3 DEF FlowInv
  <2> QED
    BY <2>1, <2>2, <2>3
<1>14. ASSUME NEW j \in Filters, NEW k \in Filters, flow'[j].used, flow'[k].used,
              flow'[j].cookie = flow'[k].cookie
       PROVE  j = k
  BY <1>8, <1>10, <1>14 DEF FlowInv
<1>15. ASSUME NEW y \in live'
       PROVE  \E j \in Filters : /\ flow'[j].used /\ flow'[j].cookie = y[1]
                                /\ InHardware(filt'[j]) = Asked(y[2], y[1])
  <2>1. y \in live /\ y[1] # c
    BY <1>6
  <2>2. PICK j \in Filters : /\ flow[j].used /\ flow[j].cookie = y[1]
                            /\ InHardware(filt[j]) = Asked(y[2], y[1])
    BY <2>1 DEF FlowInv
  <2>3. j # i
    BY <1>3, <2>1, <2>2
  <2> QED
    BY <1>10, <2>2, <2>3
<1> QED
  BY <1>6, <1>9, <1>13, <1>14, <1>15 DEF FlowInv

LEMMA RefuseFlowStep ==
  ASSUME FlowInv, NEW c \in Cookies, RefuseFlow(c)
  PROVE  FlowInv'
BY DEF FlowInv, RefuseFlow

\* The filters are reset while no entry is in use.
LEMMA FlowOpenStep ==
  ASSUME FlowInv, FlowFaults = {}, FlowOpen
  PROVE  FlowInv'
<1>1. live = {} /\ filt' = [i \in Filters |-> NoFilter] /\ UNCHANGED <<flow, live, spent>>
  BY DEF FlowOpen
<1>2. NoFilter \in FilterReg /\ NoFilter.ctl = Off
  BY DEF NoFilter, Off, FilterReg, ControlReg
<1>3. \A i \in Filters : ~flow[i].used /\ filt'[i].ctl = Off
  BY <1>1, <1>2 DEF FlowInv
<1> QED
  BY <1>1, <1>2, <1>3 DEF FlowInv

\* Each flower rule the stack has offloaded (tc_add_flow) is matched by a filter
\* of its own as it asks, and a filter that matches anything does so for such a
\* rule, for every number of filters and every sequence of adding, refusing,
\* deleting and opening, without the faults that FlowFaults names.
THEOREM FlowsMatch ==
  ASSUME FlowFaults = {}
  PROVE  FlowSpec => [](FlowTypeOK /\ FlowsInForce)
<1>1. FlowInv /\ [FlowNext]_flowVars => FlowInv'
  <2>1. ASSUME FlowInv, FlowNext PROVE FlowInv'
    BY <2>1, AddFlowStep, DelFlowStep, RefuseFlowStep, FlowOpenStep DEF FlowNext
  <2>2. ASSUME FlowInv, UNCHANGED flowVars PROVE FlowInv'
    BY <2>2 DEF FlowInv, flowVars
  <2> QED
    BY <2>1, <2>2
<1> QED
  BY <1>1, FlowStart, FlowInvImplies, PTL DEF FlowSpec

-----------------------------------------------------------------------------
(* Schedules and shapers.                                                  *)

\* The list in force follows from the software's copy alone, which is what
\* opening the interface programs again; so do the shapers of AVB queues.  The
\* table of the ioctl says what a shaper is until tc sets it.
GatesInv ==
  /\ est \in [enable : BOOLEAN, list : GateLists \cup {"none"}]
  /\ hwEst = EstConfigure(est) /\ hwEst = estAsked
  /\ hwFpe = fpeAsked /\ fpeAsked \in BOOLEAN
  /\ cbsTab \in [GateQueues -> SpeedTables]
  /\ cbs \in [GateQueues -> Slopes] /\ hwCbs \in [GateQueues -> Slopes]
  /\ cbsAsked \in [GateQueues -> Slopes]
  /\ gateSpeed \in LinkSpeeds /\ etf \subseteq TbsQueues
  /\ tcShaped \subseteq AvbQueues
  /\ \A q \in AvbQueues : hwCbs[q] = cbsAsked[q] /\ hwCbs[q] = cbs[q]
  /\ \A q \in AvbQueues : q \notin tcShaped => cbsTab[q][gateSpeed] = hwCbs[q]
  /\ \A q \in GateQueues \ AvbQueues : hwCbs[q] = 0

LEMMA GatesInvImplies == GatesInv => GatesTypeOK /\ GatesInStep
BY GateAssumption DEF GatesInv, GatesTypeOK, GatesInStep, EstConfigure,
     IoctlGetEst, IoctlGetFpe, IoctlGetCbs, SpeedTables

LEMMA GatesStart == GatesInit => GatesInv
<1> SUFFICES ASSUME GatesInit PROVE GatesInv
  OBVIOUS
<1>1. est = [enable |-> FALSE, list |-> "none"] /\ EstConfigure(est) = "none"
  BY DEF GatesInit, Est, EstConfigure
<1>2. cbsTab \in [GateQueues -> SpeedTables]
  <2>1. [s \in LinkSpeeds |-> 0] \in SpeedTables
    BY GateAssumption DEF SpeedTables
  <2> QED
    BY <2>1 DEF GatesInit
<1>3. est \in [enable : BOOLEAN, list : GateLists \cup {"none"}]
  BY <1>1
<1>4. [q \in GateQueues |-> 0] \in [GateQueues -> Slopes]
  BY GateAssumption
<1>5. cbs = [q \in GateQueues |-> 0] /\ hwCbs = cbs /\ cbsAsked = cbs
  BY DEF GatesInit
<1>6. \A q \in GateQueues : hwCbs[q] = 0
  BY <1>5
<1>7. hwEst = "none" /\ estAsked = "none" /\ hwFpe = fpeAsked /\ fpeAsked \in BOOLEAN
  BY DEF GatesInit
<1>8. gateSpeed \in LinkSpeeds /\ etf \subseteq TbsQueues
  BY GateAssumption DEF GatesInit
<1>9. tcShaped = {} /\ \A q \in AvbQueues : cbsTab[q][gateSpeed] = hwCbs[q]
  BY <1>6, <1>8, GateAssumption DEF GatesInit
<1> QED
  BY <1>1, <1>2, <1>3, <1>4, <1>5, <1>6, <1>7, <1>8, <1>9, GateAssumption DEF GatesInv

\* The calls that change the gate list or preemption.
LEMMA GatesEstStep ==
  ASSUME GatesInv, GateFaults = {},
         \/ \E list \in GateLists, hold \in BOOLEAN : TaprioSet(list, hold)
         \/ TaprioOff
         \/ \E b \in BOOLEAN, list \in GateLists : IoctlSetEst(b, list)
         \/ \E b \in BOOLEAN : IoctlSetFpe(b)
  PROVE  GatesInv'
<1>1. CASE \E list \in GateLists, hold \in BOOLEAN : TaprioSet(list, hold)
  <2>1. PICK list \in GateLists, hold \in BOOLEAN : TaprioSet(list, hold)
    BY <1>1
  <2>2. PICK out \in TaprioOutcomes(list, hold) :
          /\ est' = out.est /\ hwEst' = out.hwEst /\ hwFpe' = out.hwFpe
          /\ estAsked' = out.asked[1] /\ fpeAsked' = out.asked[2]
    BY <2>1 DEF TaprioSet
  <2>3. out = TaprioDone(list, hold)
    BY <2>2 DEF TaprioOutcomes, Fault
  <2>4. /\ est' = Est(TRUE, list) /\ hwEst' = list /\ estAsked' = list
        /\ hwFpe' = hold /\ fpeAsked' = hold
    BY <2>2, <2>3 DEF TaprioDone, Outcome
  <2>5. UNCHANGED <<cbsTab, cbs, hwCbs, cbsAsked, tcShaped, gateSpeed, etf>>
    BY <2>1 DEF TaprioSet, cbsVars
  <2>6. est' = [enable |-> TRUE, list |-> list] /\ EstConfigure(est') = list
    BY <2>4 DEF Est, EstConfigure
  <2>7. est' \in [enable : BOOLEAN, list : GateLists \cup {"none"}]
    BY <2>6
  <2> QED
    BY <2>4, <2>5, <2>6, <2>7 DEF GatesInv
<1>2. CASE TaprioOff
  BY <1>2 DEF GatesInv, TaprioOff, Fault, EstConfigure, cbsVars
<1>3. CASE \E b \in BOOLEAN, list \in GateLists : IoctlSetEst(b, list)
  <2>1. PICK b \in BOOLEAN, list \in GateLists : IoctlSetEst(b, list)
    BY <1>3
  <2>2. hwEst' = EstConfigure(est')
    BY <2>1 DEF IoctlSetEst, Fault
  <2>3. /\ est' \in [enable : BOOLEAN, list : GateLists \cup {"none"}]
        /\ EstConfigure(est') = estAsked'
    BY <2>1 DEF IoctlSetEst, Est, EstConfigure
  <2>4. UNCHANGED <<hwFpe, fpeAsked, cbsTab, cbs, hwCbs, cbsAsked, tcShaped, gateSpeed, etf>>
    BY <2>1 DEF IoctlSetEst, cbsVars
  <2> QED
    BY <2>2, <2>3, <2>4 DEF GatesInv
<1>4. CASE \E b \in BOOLEAN : IoctlSetFpe(b)
  BY <1>4 DEF GatesInv, IoctlSetFpe, cbsVars, EstConfigure
<1> QED
  BY <1>1, <1>2, <1>3, <1>4

\* The calls that set a shaper or launch times.
LEMMA GatesShaperStep ==
  ASSUME GatesInv, GateFaults = {},
         \/ \E q \in GateQueues, s \in Slopes, b \in BOOLEAN : SetupCbs(q, s, b)
         \/ \E q \in GateQueues, tab \in SpeedTables : IoctlSetCbs(q, tab)
         \/ \E q \in GateQueues, b \in BOOLEAN : SetupEtf(q, b)
  PROVE  GatesInv'
<1> USE GateAssumption
<1>1. CASE \E q \in GateQueues, s \in Slopes, b \in BOOLEAN : SetupCbs(q, s, b)
  BY <1>1 DEF GatesInv, SetupCbs, ConfigCbs, Fault, estVars, EstConfigure
<1>2. CASE \E q \in GateQueues, tab \in SpeedTables : IoctlSetCbs(q, tab)
  <2>1. PICK q \in GateQueues, tab \in SpeedTables : IoctlSetCbs(q, tab)
    BY <1>2
  <2>2. tab[gateSpeed] \in Slopes
    BY <2>1 DEF GatesInv, SpeedTables
  <2> QED
    BY <2>1, <2>2 DEF GatesInv, IoctlSetCbs, ConfigCbs, estVars, EstConfigure
<1>3. CASE \E q \in GateQueues, b \in BOOLEAN : SetupEtf(q, b)
  BY <1>3 DEF GatesInv, SetupEtf, estVars, cbsVars, EstConfigure
<1> QED
  BY <1>1, <1>2, <1>3

\* A change of speed is taken only when the shapers fit the new one too.
LEMMA GatesSpeedStep ==
  ASSUME GatesInv, GateFaults = {}, NEW v \in LinkSpeeds, SpeedChange(v)
  PROVE  GatesInv'
<1> USE GateAssumption
<1>1. \A q \in AvbQueues : q \notin tcShaped => cbsTab[q][v] = cbsAsked[q]
  BY DEF SpeedChange, ShaperFits, Fault
<1>2. \A q \in GateQueues : cbsTab[q][v] \in Slopes
  BY DEF GatesInv, SpeedTables
<1>3. \A q \in AvbQueues : cbsAsked'[q] = cbsAsked[q]
  BY <1>1 DEF GatesInv, SpeedChange
<1>4. cbsAsked' \in [GateQueues -> Slopes]
  BY <1>2 DEF GatesInv, SpeedChange
<1>5. \A q \in AvbQueues : q \notin tcShaped => cbsTab[q][v] = hwCbs[q]
  BY <1>1 DEF GatesInv
<1> QED
  BY <1>3, <1>4, <1>5 DEF GatesInv, SpeedChange, estVars, EstConfigure

LEMMA GatesOpenStep ==
  ASSUME GatesInv, GateFaults = {}, GatesOpen
  PROVE  GatesInv'
<1>1. hwCbs' \in [GateQueues -> Slopes]
  BY GateAssumption DEF GatesInv, GatesOpen, ConfigureCbs
<1>2. /\ \A q \in AvbQueues : hwCbs'[q] = cbs[q]
      /\ \A q \in GateQueues \ AvbQueues : hwCbs'[q] = 0
  BY GateAssumption DEF GatesOpen, ConfigureCbs
<1>3. hwFpe' = fpeAsked /\ hwEst' = EstConfigure(est) /\ est' = est
  BY DEF GatesInv, GatesOpen, Fault
<1>4. /\ UNCHANGED <<estAsked, fpeAsked, cbsTab, cbs, cbsAsked, tcShaped, gateSpeed>>
      /\ etf' \subseteq TbsQueues
  BY DEF GatesInv, GatesOpen
<1> QED
  BY <1>1, <1>2, <1>3, <1>4 DEF GatesInv, EstConfigure

\* The gate list, preemption and the shapers in force are what tc or the
\* ioctls asked for last, for every number of queues, and the ioctls report the
\* list and preemption, and the shapers tc has not set since, after every
\* sequence of tc_setup_taprio, tc_setup_cbs, the ioctls and hw_setup without
\* the faults that GateFaults names.
THEOREM GatesFollow ==
  ASSUME GateFaults = {}
  PROVE  GatesSpec => [](GatesTypeOK /\ GatesInStep)
<1>1. GatesInv /\ [GatesNext]_gateVars => GatesInv'
  <2> SUFFICES ASSUME GatesInv, [GatesNext]_gateVars
               PROVE  GatesInv'
    OBVIOUS
  <2>1. CASE UNCHANGED gateVars
    BY <2>1 DEF GatesInv, gateVars, estVars, cbsVars, EstConfigure
  <2>2. CASE GatesNext
    BY <2>2, GatesEstStep, GatesShaperStep, GatesSpeedStep, GatesOpenStep DEF GatesNext
  <2> QED
    BY <2>1, <2>2
<1> QED
  BY <1>1, GatesStart, GatesInvImplies, PTL DEF GatesSpec

(***************************************************************************)
(* The self-tests                                                          *)
(***************************************************************************)

SelfSpec == SelfInit /\ [][SelfNext]_selfVars

(***************************************************************************)
(* The list of the tests                                                   *)
(***************************************************************************)
TestNos == 1..13

\* The tests by number: what each wants and which entry it adds.
LEMMA ListOfTests ==
  /\ Len(SelftestList) = 13
  /\ SelftestList[1] = MacLoopback /\ SelftestList[2] = PhyLoopback
  /\ SelftestList[3] = Mmc /\ SelftestList[4] = Hfilt /\ SelftestList[5] = Pfilt
  /\ SelftestList[6] = Mcfilt /\ SelftestList[7] = Ucfilt
  /\ \A n \in {8, 9} : SelftestList[n] = Vlanfilt
  /\ \A n \in {10, 11} : SelftestList[n] = Dvlanfilt
  /\ SelftestList[12] = Vlanoff /\ SelftestList[13] = Jumbo
BY DEF SelftestList

LEMMA VlanFrames ==
  ASSUME NEW proto
  PROVE  /\ Len(VlanTest(proto).frames) = 4
         /\ VlanTest(proto).frames[1] = Frame("own", proto, TRUE)
         /\ \A i \in 2..4 : VlanTest(proto).frames[i] = Frame("own", "other", FALSE)
<1> DEFINE first == <<Frame("own", proto, TRUE)>>
           rest == [i \in 1..3 |-> Frame("own", "other", FALSE)]
<1>1. VlanTest(proto).frames = first \o rest
  BY DEF VlanTest, Test
<1>2. first \in Seq({first[1], rest[1]}) /\ rest \in Seq({first[1], rest[1]})
  OBVIOUS
<1>3. Len(first) = 1 /\ Len(rest) = 3
  OBVIOUS
<1>4. Len(first \o rest) = 4 /\ (first \o rest)[1] = first[1]
  BY <1>2, <1>3, ConcatProperties
<1>5. ASSUME NEW i \in 2..4 PROVE (first \o rest)[i] = Frame("own", "other", FALSE)
  <2>1. i \in 1..Len(first) + Len(rest) /\ ~(i <= Len(first)) /\ i - Len(first) \in 1..3
    BY <1>3
  <2>2. (first \o rest)[i] = rest[i - Len(first)]
    BY <1>2, <2>1, ConcatProperties, ZenonT(40)
  <2> QED
    BY <2>1, <2>2
<1> QED
  BY <1>1, <1>4, <1>5

\* The loopback, feature, entry and number of frames of a test.
LEMMA TestShape ==
  ASSUME NEW n \in TestNos
  PROVE  LET t == SelftestList[n]
         IN /\ t.lb = IF n = 1 THEN "mac" ELSE IF n = 2 THEN "none" ELSE "phy"
            /\ t.feature \in Features /\ (t.feature = "phy" <=> n = 2)
            /\ t.entry \in (Entries \ {"vid2"}) \cup {"none"}
            /\ Len(t.frames) \in 1..4
<1> USE ListOfTests, VlanFrames DEF Test, Features, Entries, Uc, Mc, Vids
<1>1. n \in {1, 2, 3, 13} => Len(SelftestList[n].frames) = 1
  BY DEF MacLoopback, PhyLoopback, Mmc, Jumbo
<1>2. n \in 4..7 => Len(SelftestList[n].frames) = 2
  BY DEF Hfilt, Pfilt, Mcfilt, Ucfilt, Addresses
<1>3. n \in 8..11 => Len(SelftestList[n].frames) = 4
  <2>1. n \in {8, 9} => SelftestList[n] = VlanTest("8021Q")
    BY DEF Vlanfilt
  <2>2. n \in {10, 11} => SelftestList[n] = VlanTest("8021AD")
    BY DEF Dvlanfilt
  <2>3. n \in 8..11 => n \in {8, 9} \/ n \in {10, 11}
    OBVIOUS
  <2>4. Len(VlanTest("8021Q").frames) = 4 /\ Len(VlanTest("8021AD").frames) = 4
    BY VlanFrames
  <2> QED
    BY <2>1, <2>2, <2>3, <2>4
<1>4. n = 12 => Len(SelftestList[n].frames) = 1
  BY DEF Vlanoff
<1>5. n \in 1..13
  BY DEF TestNos
<1>6. Len(SelftestList[n].frames) \in 1..4
  BY <1>1, <1>2, <1>3, <1>4, <1>5
<1>7. CASE n \in {1, 2, 3, 12, 13}
  BY <1>6, <1>7 DEF MacLoopback, PhyLoopback, Mmc, Vlanoff, Jumbo
<1>8. CASE n \in 4..7
  BY <1>6, <1>8 DEF Hfilt, Pfilt, Mcfilt, Ucfilt, Addresses
<1>9. CASE n \in 8..11
  BY <1>6, <1>9 DEF Vlanfilt, Dvlanfilt, VlanTest
<1> QED
  BY <1>5, <1>7, <1>8, <1>9

(***************************************************************************)
(* What holds whichever faults there are                                   *)
(***************************************************************************)
WithEntry ==
  IF This.entry = "none" THEN listed ELSE [listed EXCEPT ![This.entry] = @ + 1]
SelfTypes ==
  /\ testNo \in 0..13 /\ testPc \in {"idle", "loopback", "check", "send", "phy_off"}
  /\ testNo = 0 <=> testPc = "idle"
  /\ testPc = "phy_off" => testNo = 2
  /\ phydev \in BOOLEAN /\ vlhash \in BOOLEAN /\ hashOn \in BOOLEAN
  /\ macLb \in BOOLEAN /\ phyLb \in BOOLEAN /\ macMode \in BOOLEAN /\ phyMode \in BOOLEAN
  /\ handler \in BOOLEAN /\ phyOn \in BOOLEAN
  /\ faulty \subseteq Features /\ listed \in [Entries -> 0..1]
\* The entry of a test is in the lists exactly while its frames are sent.
Borrowed ==
  /\ testPc = "send" => frameNo \in 1..Len(This.frames) /\ refs = WithEntry
  /\ testPc # "send" => frameNo = 0 /\ refs = listed /\ ~handler /\ hashOn = vlhash
SelfBase == SelfTypes /\ Borrowed
\* While the stack has no other id in use, the data register holds none, and
\* neither does the filter of 0x123, which has it as long as it has a user.
VidInv ==
  /\ vidData \subseteq {"0x123", "vid2"} /\ vidReg \subseteq {"0x123", "vid2"}
  /\ listed["vid2"] = 0 =>
       /\ vidData \subseteq {"0x123"}
       /\ IdUses > 0 => vidReg = {"0x123"}

\* The loopbacks, as far as the run has come: the PHY's is put on by the third
\* test for the ones that follow.
LoopsInv ==
  IF testNo = 0 THEN macLb = macMode /\ phyLb = phyMode
  ELSE /\ ~macMode /\ ~phyMode
       /\ macLb <=> (testNo = 1 /\ testPc # "loopback")
       /\ phyOn <=> (phydev /\ (testNo > 3 \/ (testNo = 3 /\ testPc # "loopback")))
       /\ phyLb <=> (phyOn \/ (testNo = 2 /\ testPc \in {"send", "phy_off"}))

\* A frame that is sent meets a loopback, and the address a test expects to be
\* rejected is on no list.
TellsInv ==
  /\ phydev /\ {"mac", "phy", "vlan"} \cap faulty = {} /\ netFlags \in {"none", "promisc"}
  /\ testNo \in {1, 2} => ~phyOn
  /\ testNo # 0 /\ phyOn => macLb \/ phyLb
  /\ testPc = "check" => (testNo = 1 => macLb) /\ (testNo > 2 => phyOn)
  /\ testPc = "send" =>
       /\ macLb \/ phyLb
       /\ This.feature \in {"mc", "uc"} => netFlags = "none"
       /\ This.feature = "mc" => listed["bm"] = 0
       /\ This.feature = "uc" => listed["bu"] = 0
  /\ SelftestTells

(***************************************************************************)
(* Every step keeps SelfBase                                               *)
(***************************************************************************)
LEMMA SelfBaseImplies == SelfBase /\ VidInv => SelfTypeOK
<1> SUFFICES ASSUME SelfBase, VidInv PROVE SelfTypeOK
  OBVIOUS
<1>1. \A e \in Entries : listed[e] \in 0..1
  BY DEF SelfBase, SelfTypes
<1>2. \A e \in Entries : refs[e] \in 0..2
  BY <1>1 DEF WithEntry, SelfBase, SelfTypes, Borrowed
<1>3. frameNo \in 0..4
  <2>1. \A l \in 1..4 : \A f \in 1..l : f \in 0..4
    OBVIOUS
  <2>2. CASE testPc = "send"
    <3>1. Len(This.frames) \in 1..4
      BY <2>2, TestShape DEF TestNos, This, SelfBase, SelfTypes
    <3>2. frameNo \in 1..Len(This.frames)
      BY <2>2 DEF SelfBase, Borrowed
    <3> QED
      BY <2>1, <3>1, <3>2
  <2>3. CASE testPc # "send"
    BY <2>3 DEF SelfBase, Borrowed
  <2> QED
    BY <2>2, <2>3
<1> QED
  BY <1>2, <1>3, ListOfTests DEF SelfTypeOK, SelfBase, SelfTypes, VidInv

LEMMA SelfBaseStart == SelfInit => SelfBase
<1> SUFFICES ASSUME SelfInit PROVE SelfBase
  OBVIOUS
<1>1. refs = [e \in Entries |-> 0] /\ listed = refs
  BY DEF SelfInit
<1>2. faulty \subseteq Features /\ phydev \in BOOLEAN
  BY DEF SelfInit, Features
<1>3. testPc = "idle" /\ testNo = 0 /\ vlhash \in BOOLEAN /\ hashOn = vlhash /\ frameNo = 0
  BY DEF SelfInit
<1>4. /\ macLb = FALSE /\ phyLb = FALSE /\ macMode = FALSE /\ phyMode = FALSE
      /\ handler = FALSE /\ phyOn = FALSE
  BY DEF SelfInit
<1>5. SelfTypes
  <2>1. listed \in [Entries -> 0..1]
    BY <1>1
  <2>2. /\ macLb \in BOOLEAN /\ phyLb \in BOOLEAN /\ macMode \in BOOLEAN /\ phyMode \in BOOLEAN
        /\ handler \in BOOLEAN /\ phyOn \in BOOLEAN /\ hashOn \in BOOLEAN
    BY <1>3, <1>4, Zenon
  <2> QED
    BY <1>2, <1>3, <2>1, <2>2 DEF SelfTypes
<1>6. Borrowed
  BY <1>1, <1>3, <1>4 DEF Borrowed
<1> QED
  BY <1>5, <1>6 DEF SelfBase

\* Leaving a test clears what it has added; it goes on to the next test or ends
\* the run.
LEMMA AfterTestBase ==
  ASSUME SelfBase, testNo # 0, NEW r, AfterTest(r), UNCHANGED <<deviceVars, phyOn>>,
         refs' = listed, ~handler', handler' \in BOOLEAN, hashOn' = vlhash, frameNo' = 0
  PROVE  SelfBase'
<1>1. testNo \in 1..13 /\ testNo + 1 \in 1..14
  BY DEF SelfBase, SelfTypes, Borrowed
<1>2. /\ testNo' \in 0..13 /\ testPc' \in {"loopback", "idle"}
      /\ testNo' = 0 <=> testPc' = "idle"
      /\ macLb' \in BOOLEAN /\ phyLb' \in BOOLEAN
  BY <1>1, ListOfTests DEF AfterTest, SelfBase, SelfTypes, Borrowed
<1>3. UNCHANGED <<phydev, vlhash, faulty, macMode, phyMode, listed, netFlags, phyOn>>
  BY DEF deviceVars
<1> QED
  BY <1>2, <1>3 DEF SelfBase, SelfTypes, Borrowed

LEMMA CleanupEffect ==
  ASSUME SelfBase, testPc = "send", Cleanup
  PROVE  /\ refs' = listed /\ ~handler' /\ handler' \in BOOLEAN
         /\ hashOn' = vlhash /\ frameNo' = 0
<1> USE DEF SelfBase, SelfTypes, Borrowed
<1>1. This.entry \in Entries \cup {"none"}
  BY TestShape, SMTT(20) DEF TestNos, This
<1>2. refs' = IF This.entry = "none" THEN refs ELSE [refs EXCEPT ![This.entry] = @ - 1]
  BY DEF Cleanup, DropEntry, CountUse, entryVars
<1>3. refs = WithEntry
  OBVIOUS
<1>4. CASE This.entry = "none"
  BY <1>2, <1>3, <1>4, Zenon DEF WithEntry, Cleanup
<1>5. CASE This.entry # "none"
  <2>1. refs' = [refs EXCEPT ![This.entry] = @ - 1]
    BY <1>2, <1>5
  <2>2. refs = [listed EXCEPT ![This.entry] = @ + 1]
    BY <1>3, <1>5 DEF WithEntry
  <2>3. listed[This.entry] \in 0..1
    BY <1>1, <1>5
  <2>4. refs' = listed
    BY <2>1, <2>2, <2>3, <1>1, <1>5
  <2> QED
    BY <2>4 DEF Cleanup
<1> QED
  BY <1>4, <1>5

LEMMA TestEndsBase ==
  ASSUME SelfBase, testPc = "send", NEW r, TestEnds(r), UNCHANGED <<deviceVars, phyOn>>
  PROVE  SelfBase'
<1>1. Cleanup /\ testNo \in TestNos
  BY DEF TestEnds, SelfBase, SelfTypes, Borrowed, TestNos
<1>2. /\ refs' = listed /\ ~handler' /\ handler' \in BOOLEAN
      /\ hashOn' = vlhash /\ frameNo' = 0
  BY <1>1, CleanupEffect
<1>3. CASE This.feature = "phy"
  <2>1. testNo = 2
    BY <1>1, <1>3, TestShape DEF This
  <2>2. testPc' = "phy_off" /\ UNCHANGED <<macLb, phyLb, testNo>>
    BY <1>3 DEF TestEnds
  <2> QED
    BY <1>2, <2>1, <2>2 DEF SelfBase, SelfTypes, Borrowed, deviceVars
<1>4. CASE This.feature # "phy"
  BY <1>2, <1>4, AfterTestBase DEF TestEnds, SelfBase, SelfTypes, Borrowed
<1> QED
  BY <1>3, <1>4

LEMMA ContinueBase ==
  ASSUME SelfBase, testPc = "send", Continue, UNCHANGED <<deviceVars, phyOn>>
  PROVE  SelfBase'
<1>1. CASE frameNo = Len(This.frames)
  BY <1>1, TestEndsBase DEF Continue, Passed
<1>2. CASE frameNo # Len(This.frames)
  <2>1. frameNo' = frameNo + 1
        /\ UNCHANGED <<refs, handler, hashOn, macLb, phyLb, testNo, testPc>>
    BY <1>2 DEF Continue, entryVars
  <2>2. Len(This.frames) \in 1..4
    BY TestShape DEF SelfBase, SelfTypes, Borrowed, This, TestNos
  <2>3. frameNo' \in 1..Len(This.frames)
    BY <1>2, <2>1, <2>2 DEF SelfBase, SelfTypes, Borrowed
  <2>4. UNCHANGED <<phydev, vlhash, faulty, macMode, phyMode, listed, netFlags, phyOn>>
    BY DEF deviceVars
  <2> QED
    BY <2>1, <2>3, <2>4 DEF SelfBase, SelfTypes, Borrowed, This, WithEntry
<1> QED
  BY <1>1, <1>2

LEMMA SelfTestBase ==
  ASSUME SelfBase,
         \/ SelftestRun \/ SetLoopback \/ Unsupported \/ Refused \/ BeginTest
         \/ SendFrame \/ SendFails \/ PhyOff
  PROVE  SelfBase'
<1>1. CASE SelftestRun
  <2>1. testNo = 0 /\ testNo' = 1 /\ testPc' = "loopback" /\ phyOn' \in BOOLEAN
    BY <1>1, Zenon DEF SelftestRun
  <2>2. UNCHANGED <<phydev, vlhash, faulty, macMode, phyMode, listed, netFlags, macLb, phyLb,
                    refs, handler, hashOn, frameNo>>
    BY <1>1 DEF SelftestRun, deviceVars, bodyVars, entryVars
  <2> QED
    BY <2>1, <2>2 DEF SelfBase, SelfTypes, Borrowed
<1>2. CASE SetLoopback
  BY <1>2 DEF SelfBase, SelfTypes, Borrowed, SetLoopback, deviceVars, bodyVars, entryVars
<1>3. CASE Unsupported \/ Refused
  <2>1. /\ testPc = "check" /\ \E r \in {"unsupported", "error"} : AfterTest(r)
        /\ UNCHANGED <<deviceVars, bodyVars, phyOn>>
    BY <1>3 DEF Unsupported, Refused
  <2> QED
    BY <2>1, AfterTestBase DEF bodyVars, entryVars, SelfBase, SelfTypes, Borrowed, deviceVars
<1>4. CASE BeginTest
  <2>1. testNo \in TestNos /\ This.entry \in Entries \cup {"none"} /\ Len(This.frames) \in 1..4
    BY <1>4, TestShape DEF BeginTest, SelfBase, SelfTypes, Borrowed, TestNos, This
  <2>2. /\ testPc' = "send" /\ frameNo' = 1 /\ refs' = WithEntry
        /\ handler' \in BOOLEAN /\ hashOn' \in BOOLEAN /\ phyLb' \in BOOLEAN
    BY <1>4 DEF BeginTest, SelfBase, SelfTypes, Borrowed, WithEntry, AddEntry, CountUse, entryVars
  <2>3. UNCHANGED <<phydev, vlhash, faulty, macMode, phyMode, listed, netFlags, macLb,
                    testNo, phyOn>>
    BY <1>4 DEF BeginTest, deviceVars
  <2>4. This' = This /\ WithEntry' = WithEntry
    BY <2>3 DEF This, WithEntry
  <2>5. frameNo' \in 1..Len(This.frames)
    <3>1. \A l \in 1..4 : 1 \in 1..l
      OBVIOUS
    <3> QED
      BY <3>1, <2>1, <2>2
  <2>6. SelfTypes'
    BY <2>1, <2>2, <2>3, <1>4 DEF SelfBase, SelfTypes, BeginTest, TestNos
  <2> QED
    BY <2>2, <2>4, <2>5, <2>6 DEF SelfBase, Borrowed
<1>5. CASE SendFrame \/ SendFails
  <2>1. /\ testPc = "send" /\ UNCHANGED <<deviceVars, phyOn>>
        /\ Continue \/ \E r \in {"fail", "error"} : TestEnds(r)
    BY <1>5 DEF SendFrame, SendFails
  <2> QED
    BY <2>1, TestEndsBase, ContinueBase
<1>6. CASE PhyOff
  <2>1. testPc = "phy_off" /\ testNo' = testNo + 1 /\ testPc' = "loopback" /\ phyLb' \in BOOLEAN
    BY <1>6, Zenon DEF PhyOff
  <2>2. UNCHANGED <<phydev, vlhash, faulty, macMode, phyMode, listed, netFlags, macLb, phyOn,
                    refs, handler, hashOn, frameNo>>
    BY <1>6 DEF PhyOff, deviceVars, bodyVars, entryVars
  <2> QED
    BY <2>1, <2>2 DEF SelfBase, SelfTypes, Borrowed
<1> QED
  BY <1>1, <1>2, <1>3, <1>4, <1>5, <1>6

LEMMA SelfIdleBase ==
  ASSUME SelfBase,
         \/ SelfOpen
         \/ \E b \in BOOLEAN : IoctlSetMacLoopback(b) \/ IoctlSetPhyLoopback(b)
         \/ \E e \in {"gm", "x", "bu", "8021Q", "vid2"} : StackAdds(e)
         \/ \E f : StackFlags(f)
  PROVE  SelfBase'
<1> USE DEF SelfBase, SelfTypes, Borrowed, IdleVars, entryVars
<1>1. CASE SelfOpen
  BY <1>1 DEF SelfOpen
<1>2. CASE \E b \in BOOLEAN : IoctlSetMacLoopback(b) \/ IoctlSetPhyLoopback(b)
  BY <1>2 DEF IoctlSetMacLoopback, IoctlSetPhyLoopback
<1>3. CASE \E e \in {"gm", "x", "bu", "8021Q", "vid2"} : StackAdds(e)
  <2>1. PICK e \in {"gm", "x", "bu", "8021Q", "vid2"} : StackAdds(e)
    BY <1>3
  <2>2. e \in Entries /\ listed[e] = 0 /\ refs = listed
    BY <2>1 DEF StackAdds, Entries, Uc, Mc, Vids
  <2>3. listed' \in [Entries -> 0..1] /\ refs' = listed'
    BY <2>1, <2>2 DEF StackAdds, AddEntry, CountUse
  <2> QED
    BY <2>1, <2>3 DEF StackAdds
<1>4. CASE \E f : StackFlags(f)
  BY <1>4 DEF StackFlags
<1> QED
  BY <1>1, <1>2, <1>3, <1>4

LEMMA SelfBaseStep == SelfBase /\ [SelfNext]_selfVars => SelfBase'
<1>1. ASSUME SelfBase, SelfNext PROVE SelfBase'
  BY <1>1, SelfTestBase, SelfIdleBase DEF SelfNext
<1>2. ASSUME SelfBase, UNCHANGED selfVars PROVE SelfBase'
  BY <1>2 DEF SelfBase, SelfTypes, Borrowed, selfVars, deviceVars, bodyVars, entryVars, This,
       WithEntry
<1> QED
  BY <1>1, <1>2

\* Adding and dropping a use keep the ids of the registers in accord.
LEMMA VidAdd ==
  ASSUME SelfBase, VidInv, refs \in [Entries -> 0..2], NEW e \in Entries, AddEntry(e),
         listed'["vid2"] = 0 => listed["vid2"] = 0 /\ e # "vid2"
  PROVE  VidInv'
<1>1. /\ {"8021Q", "8021AD", "vid2"} \subseteq Entries /\ "vid2" \notin Vids
      /\ Vids = {"8021Q", "8021AD"}
  BY DEF Entries, Vids
<1>2. IdUses \in Nat /\ (e \notin Vids => IdUses' = IdUses)
  BY <1>1 DEF IdUses, AddEntry, CountUse
<1>3. CASE e \in Vids /\ IdUses = 0
  BY <1>1, <1>3 DEF VidInv, AddEntry
<1>4. CASE e \in Vids /\ IdUses # 0
  BY <1>1, <1>2, <1>4 DEF VidInv, AddEntry
<1>5. CASE e \notin Vids
  BY <1>1, <1>2, <1>5 DEF VidInv, AddEntry
<1> QED
  BY <1>3, <1>4, <1>5

LEMMA VidDrop ==
  ASSUME SelfBase, VidInv, refs \in [Entries -> 0..2], NEW e \in Entries, DropEntry(e),
         e # "vid2", refs[e] > 0, listed' = listed
  PROVE  VidInv'
<1>1. {"8021Q", "8021AD"} \subseteq Entries /\ Vids = {"8021Q", "8021AD"}
  BY DEF Entries, Vids
<1>2. IdUses \in Nat /\ IdUses' = IF e \in Vids THEN IdUses - 1 ELSE IdUses
  BY <1>1 DEF IdUses, DropEntry, CountUse
<1>3. e \in Vids => IdUses > 0
  BY <1>1 DEF IdUses
<1>4. CASE e \in Vids /\ IdUses = 1
  BY <1>2, <1>4 DEF VidInv, DropEntry
<1>5. CASE ~(e \in Vids /\ IdUses = 1)
  BY <1>2, <1>3, <1>5 DEF VidInv, DropEntry
<1> QED
  BY <1>4, <1>5

LEMMA UsesBounded == SelfBase => refs \in [Entries -> 0..2]
<1> SUFFICES ASSUME SelfBase PROVE refs \in [Entries -> 0..2]
  OBVIOUS
<1>1. listed \in [Entries -> 0..1]
  BY DEF SelfBase, SelfTypes
<1>2. refs = listed \/ \E e : refs = [listed EXCEPT ![e] = @ + 1]
  BY DEF SelfBase, Borrowed, WithEntry
<1> QED
  BY <1>1, <1>2

\* What a step does to the entries and the registers of the ids.
LEMMA VidStep == SelfBase /\ VidInv /\ [SelfNext]_selfVars => VidInv'
<1> SUFFICES ASSUME SelfBase, VidInv, [SelfNext]_selfVars PROVE VidInv'
  OBVIOUS
<1>0. refs \in [Entries -> 0..2]
  BY UsesBounded
<1>1. ASSUME UNCHANGED <<entryVars, listed>> PROVE VidInv'
  BY <1>1 DEF VidInv, IdUses, entryVars
<1>2. ASSUME Cleanup, testPc = "send", listed' = listed PROVE VidInv'
  <2>1. CASE This.entry = "none"
    BY <1>1, <1>2, <2>1 DEF Cleanup, entryVars
  <2>2. CASE This.entry # "none"
    <3>1. testNo \in TestNos
      BY <1>2 DEF SelfBase, SelfTypes, TestNos
    <3>2. This.entry \in Entries \ {"vid2"}
      BY <2>2, <3>1, TestShape DEF This
    <3>3. refs[This.entry] > 0
      BY <1>2, <2>2, <3>2 DEF SelfBase, SelfTypes, Borrowed, WithEntry
    <3>4. DropEntry(This.entry)
      BY <1>2, <2>2 DEF Cleanup
    <3> QED
      BY <1>0, <1>2, <3>2, <3>3, <3>4, VidDrop
  <2> QED
    BY <2>1, <2>2
<1>3. ASSUME NEW r, TestEnds(r), testPc = "send", UNCHANGED deviceVars PROVE VidInv'
  BY <1>2, <1>3 DEF TestEnds, deviceVars
<1>4. ASSUME Continue, testPc = "send", UNCHANGED deviceVars PROVE VidInv'
  <2>1. CASE frameNo = Len(This.frames)
    BY <1>3, <1>4, <2>1 DEF Continue, Passed
  <2>2. CASE frameNo # Len(This.frames)
    BY <1>1, <1>4, <2>2 DEF Continue, deviceVars, entryVars
  <2> QED
    BY <2>1, <2>2
<1>5. CASE SendFrame \/ SendFails
  <2>1. /\ testPc = "send" /\ UNCHANGED deviceVars
        /\ Continue \/ \E r \in {"fail", "error"} : TestEnds(r)
    BY <1>5 DEF SendFrame, SendFails
  <2> QED
    BY <1>3, <1>4, <2>1
<1>6. CASE BeginTest
  <2>1. listed' = listed /\ testNo \in TestNos
    BY <1>6 DEF BeginTest, deviceVars, SelfBase, SelfTypes, TestNos
  <2>2. CASE This.entry = "none"
    BY <1>1, <1>6, <2>1, <2>2 DEF BeginTest, entryVars
  <2>3. CASE This.entry # "none"
    <3>1. This.entry \in Entries \ {"vid2"} /\ AddEntry(This.entry)
      BY <1>6, <2>1, <2>3, TestShape DEF This, BeginTest
    <3> QED
      BY <1>0, <2>1, <3>1, VidAdd
  <2> QED
    BY <2>2, <2>3
<1>7. CASE SelftestRun \/ SetLoopback \/ Unsupported \/ Refused \/ PhyOff
  BY <1>1, <1>7 DEF SelftestRun, SetLoopback, Unsupported, Refused, PhyOff, deviceVars,
       bodyVars, entryVars
<1>8. CASE \/ SelfOpen
           \/ \E b \in BOOLEAN : IoctlSetMacLoopback(b) \/ IoctlSetPhyLoopback(b)
           \/ \E f : StackFlags(f)
  BY <1>1, <1>8 DEF SelfOpen, IoctlSetMacLoopback, IoctlSetPhyLoopback, StackFlags, entryVars
<1>9. CASE \E e \in {"gm", "x", "bu", "8021Q", "vid2"} : StackAdds(e)
  <2>1. PICK e \in {"gm", "x", "bu", "8021Q", "vid2"} : StackAdds(e)
    BY <1>9
  <2>2. e \in Entries /\ AddEntry(e) /\ listed' = [listed EXCEPT ![e] = 1]
    BY <2>1 DEF StackAdds, Entries, Uc, Mc, Vids
  <2>3. listed'["vid2"] = 0 => listed["vid2"] = 0 /\ e # "vid2"
    BY <2>2 DEF SelfBase, SelfTypes, Entries
  <2> QED
    BY <1>0, <2>2, <2>3, VidAdd
<1>10. CASE UNCHANGED selfVars
  BY <1>1, <1>10 DEF selfVars, deviceVars, bodyVars, entryVars
<1> QED
  BY <1>5, <1>6, <1>7, <1>8, <1>9, <1>10 DEF SelfNext

LEMMA SelfBaseAlways == SelfSpec => [](SelfBase /\ VidInv)
<1>1. SelfInit => VidInv
  BY DEF SelfInit, VidInv, IdUses, Entries, Vids
<1> QED
  BY <1>1, SelfBaseStart, SelfBaseStep, VidStep, PTL DEF SelfSpec

(***************************************************************************)
(* The loopbacks                                                           *)
(***************************************************************************)
LoopFaults == {"phy", "ioctl", "reopen"}

\* Leaving a test keeps LoopsInv when the test's own loopback is in force.
LEMMA AfterTestLoops ==
  ASSUME SelfBase, LoopsInv, testNo # 0, testPc \in {"check", "send"},
         testNo = 2 => ~phyLb,
         NEW r, AfterTest(r), UNCHANGED <<deviceVars, phyOn>>
  PROVE  LoopsInv'
<1>1. testNo \in TestNos /\ (This.lb = "mac" <=> testNo = 1)
  BY TestShape DEF SelfBase, SelfTypes, TestNos, This
<1>2. UNCHANGED <<phydev, macMode, phyMode, phyOn>>
  BY DEF deviceVars
<1>3. macLb' = FALSE
  BY <1>1 DEF AfterTest, LoopsInv, TestNos
<1>4. CASE testNo = 13
  <2>1. testNo' = 0 /\ phyLb' = (phyLb /\ ~phydev)
    BY <1>4, ListOfTests DEF AfterTest
  <2>2. phyLb' = FALSE
    BY <1>4, <2>1 DEF LoopsInv
  <2> QED
    BY <1>2, <1>3, <1>4, <2>1, <2>2 DEF LoopsInv, SelfBase, SelfTypes
<1>5. CASE testNo # 13
  <2>1. testNo' = testNo + 1 /\ testPc' = "loopback" /\ phyLb' = phyLb
    BY <1>1, <1>5, ListOfTests DEF AfterTest, TestNos
  <2> QED
    BY <1>1, <1>2, <1>3, <2>1 DEF LoopsInv, TestNos, SelfBase, SelfTypes
<1> QED
  BY <1>4, <1>5

LEMMA TestEndsLoops ==
  ASSUME SelfBase, LoopsInv, testPc = "send", NEW r, TestEnds(r), UNCHANGED <<deviceVars, phyOn>>
  PROVE  LoopsInv'
<1>1. testNo \in TestNos /\ (This.feature = "phy" <=> testNo = 2)
  BY TestShape DEF SelfBase, SelfTypes, TestNos, This
<1>2. CASE testNo = 2
  <2>1. testPc' = "phy_off" /\ UNCHANGED <<macLb, phyLb, testNo>>
    BY <1>1, <1>2 DEF TestEnds
  <2> QED
    BY <1>2, <2>1 DEF LoopsInv, deviceVars
<1>3. CASE testNo # 2
  BY <1>1, <1>3, AfterTestLoops DEF TestEnds, TestNos
<1> QED
  BY <1>2, <1>3

LEMMA LoopsTestStep ==
  ASSUME SelfBase, LoopsInv, LoopFaults \cap SelftestFaults = {},
         \/ SelftestRun \/ SetLoopback \/ Unsupported \/ Refused \/ BeginTest
         \/ SendFrame \/ SendFails \/ PhyOff
  PROVE  LoopsInv'
<1>1. ~SelfFault("phy") /\ ~SelfFault("ioctl") /\ ~SelfFault("reopen")
  BY DEF SelfFault, LoopFaults
<1>2. testNo # 0 => testNo \in TestNos /\ (This.lb = "mac" <=> testNo = 1)
                    /\ (This.lb = "phy" <=> testNo > 2) /\ (This.feature = "phy" <=> testNo = 2)
  BY TestShape DEF SelfBase, SelfTypes, TestNos, This
<1>3. CASE SelftestRun
  <2>1. /\ testNo = 0 /\ ~macMode /\ ~phyMode /\ testNo' = 1 /\ testPc' = "loopback"
        /\ ~phyOn' /\ UNCHANGED <<macMode, phyMode, macLb, phyLb, phydev>>
    BY <1>1, <1>3 DEF SelftestRun, deviceVars
  <2> QED
    BY <2>1 DEF LoopsInv
<1>4. CASE SetLoopback
  <2>1. /\ testPc = "loopback" /\ testPc' = "check" /\ testNo # 0
        /\ UNCHANGED <<macMode, phyMode, phydev, testNo>>
    BY <1>4 DEF SetLoopback, deviceVars, SelfBase, SelfTypes
  <2>2. CASE testNo > 2 /\ phydev /\ ~phyOn
    <3>1. phyOn' = TRUE /\ phyLb' = TRUE /\ macLb' = macLb
      BY <1>1, <1>2, <1>4, <2>1, <2>2 DEF SetLoopback
    <3>2. testNo = 3
      BY <2>1, <2>2, <1>2 DEF LoopsInv, TestNos
    <3> QED
      BY <2>1, <2>2, <3>1, <3>2 DEF LoopsInv
  <2>3. CASE ~(testNo > 2 /\ phydev /\ ~phyOn)
    <3>1. (macLb' <=> (macLb \/ testNo = 1)) /\ UNCHANGED <<phyLb, phyOn>>
      BY <1>2, <1>4, <2>1, <2>3 DEF SetLoopback
    <3>2. ~macLb /\ (phyOn <=> (phydev /\ testNo > 3)) /\ (phyLb <=> phyOn)
      BY <2>1, <1>2 DEF LoopsInv, TestNos
    <3>3. testNo = 3 => ~phydev
      BY <2>3, <3>2
    <3> QED
      BY <1>2, <2>1, <3>1, <3>2, <3>3 DEF LoopsInv, TestNos
  <2> QED
    BY <2>2, <2>3
<1>5. CASE Unsupported \/ Refused
  <2>1. /\ testPc = "check" /\ \E r \in {"unsupported", "error"} : AfterTest(r)
        /\ UNCHANGED <<deviceVars, phyOn>> /\ testNo # 0
    BY <1>5 DEF Unsupported, Refused, SelfBase, SelfTypes
  <2>2. testNo = 2 => ~phyLb
    BY <2>1 DEF LoopsInv
  <2> QED
    BY <2>1, <2>2, AfterTestLoops
<1>6. CASE BeginTest
  <2>1. /\ testPc = "check" /\ testNo # 0 /\ testPc' = "send"
        /\ UNCHANGED <<phydev, macMode, phyMode, macLb, testNo, phyOn>>
        /\ phyLb' = (phyLb \/ This.feature = "phy")
    BY <1>6 DEF BeginTest, deviceVars, SelfBase, SelfTypes
  <2> QED
    BY <1>2, <2>1 DEF LoopsInv, TestNos
<1>7. CASE SendFrame \/ SendFails
  <2>1. /\ testPc = "send" /\ UNCHANGED <<deviceVars, phyOn>>
        /\ Continue \/ \E r \in {"fail", "error"} : TestEnds(r)
    BY <1>7 DEF SendFrame, SendFails
  <2>2. CASE \E r : TestEnds(r)
    BY <2>1, <2>2, TestEndsLoops
  <2>3. CASE Continue /\ frameNo = Len(This.frames)
    BY <2>1, <2>3, TestEndsLoops DEF Continue, Passed
  <2>4. CASE Continue /\ frameNo # Len(This.frames)
    <3>1. UNCHANGED <<macLb, phyLb, testNo, testPc>>
      BY <2>4 DEF Continue
    <3> QED
      BY <2>1, <3>1 DEF LoopsInv, deviceVars
  <2> QED
    BY <2>1, <2>2, <2>3, <2>4
<1>8. CASE PhyOff
  <2>1. /\ testPc = "phy_off" /\ testNo = 2 /\ testNo' = 3 /\ testPc' = "loopback"
        /\ ~phyLb' /\ UNCHANGED <<phydev, macMode, phyMode, macLb, phyOn>>
    BY <1>8 DEF PhyOff, deviceVars, SelfBase, SelfTypes
  <2> QED
    BY <2>1 DEF LoopsInv
<1> QED
  BY <1>3, <1>4, <1>5, <1>6, <1>7, <1>8

LEMMA LoopsIdleStep ==
  ASSUME SelfBase, LoopsInv, LoopFaults \cap SelftestFaults = {},
         \/ SelfOpen
         \/ \E b \in BOOLEAN : IoctlSetMacLoopback(b) \/ IoctlSetPhyLoopback(b)
         \/ \E e \in {"gm", "x", "bu", "8021Q", "vid2"} : StackAdds(e)
         \/ \E f : StackFlags(f)
  PROVE  LoopsInv'
<1>1. ~SelfFault("phy") /\ ~SelfFault("reopen")
  BY DEF SelfFault, LoopFaults
<1> USE DEF LoopsInv, IdleVars
<1>2. CASE SelfOpen
  BY <1>1, <1>2 DEF SelfOpen, SelfBase, SelfTypes
<1>3. CASE \E b \in BOOLEAN : IoctlSetMacLoopback(b)
  BY <1>3 DEF IoctlSetMacLoopback
<1>4. CASE \E b \in BOOLEAN : IoctlSetPhyLoopback(b)
  <2>1. PICK b \in BOOLEAN : IoctlSetPhyLoopback(b)
    BY <1>4
  <2>2. phyLb' = IF b = phyMode THEN phyLb ELSE b
    BY <1>1, <2>1 DEF IoctlSetPhyLoopback
  <2> QED
    BY <2>1, <2>2 DEF IoctlSetPhyLoopback
<1>5. CASE \E e \in {"gm", "x", "bu", "8021Q", "vid2"} : StackAdds(e)
  BY <1>5 DEF StackAdds
<1>6. CASE \E f : StackFlags(f)
  BY <1>6 DEF StackFlags
<1> QED
  BY <1>2, <1>3, <1>4, <1>5, <1>6

\* After a run of the self-tests (tc956xmac_selftest_run) the loopbacks, the
\* filters, the packet handlers and the VLAN hash are as before it, whatever
\* tests fail and wherever: without a PHY, with all multicast on, with a VLAN
\* filter that does not filter and without memory too; not when the PHY refuses
\* a loopback, or an ioctl or an opening has changed what the tests rely on.
THEOREM SelftestsRestore ==
  ASSUME LoopFaults \cap SelftestFaults = {}
  PROVE  SelfSpec => [](SelfTypeOK /\ SelftestRestores)
<1>1. SelfInit => LoopsInv
  BY DEF SelfInit, LoopsInv
<1>2. SelfBase /\ LoopsInv /\ [SelfNext]_selfVars => LoopsInv'
  <2>1. ASSUME SelfBase, LoopsInv, SelfNext PROVE LoopsInv'
    BY <2>1, LoopsTestStep, LoopsIdleStep DEF SelfNext
  <2>2. ASSUME LoopsInv, UNCHANGED selfVars PROVE LoopsInv'
    BY <2>2 DEF LoopsInv, selfVars, deviceVars
  <2> QED
    BY <2>1, <2>2
<1>3. SelfBase /\ VidInv /\ LoopsInv => SelfTypeOK /\ SelftestRestores
  BY SelfBaseImplies DEF SelfBase, SelfTypes, Borrowed, LoopsInv, SelftestRestores
<1> QED
  BY <1>1, <1>2, <1>3, SelfBaseAlways, PTL DEF SelfSpec

(***************************************************************************)
(* The verdicts                                                            *)
(***************************************************************************)
TellFaults == {"nophy", "allmulti", "vlan", "oom"}
GoodFrame(f, t) ==
  /\ f.dst = "own" \/ (f.dst = t.entry /\ f.dst \in {"gu", "gm"} /\ t.feature \in {"mc", "uc"})
  /\ f.vid = "none" \/ (f.vid = t.entry /\ f.vid \in Vids)
BadFrame(f, t) ==
  \/ t.feature = "mc" /\ f.dst = "bm" /\ f.vid = "none" /\ t.entry \in {"gu", "gm"}
  \/ t.feature = "uc" /\ f.dst = "bu" /\ f.vid = "none" /\ t.entry \in {"gu", "gm"}
  \/ t.feature = "vlan" /\ t.entry \in Vids

LEMMA VlanShape ==
  ASSUME NEW proto \in Vids, NEW i \in 1..4
  PROVE  LET t == VlanTest(proto)  f == t.frames[i]
         IN /\ t.feature = "vlan" /\ t.entry = proto
            /\ (f.good = TRUE /\ GoodFrame(f, t)) \/ (f.good = FALSE /\ BadFrame(f, t))
<1>1. i = 1 \/ i \in 2..4
  OBVIOUS
<1>2. VlanTest(proto).feature = "vlan" /\ VlanTest(proto).entry = proto
  BY DEF VlanTest, Test
<1> DEFINE f == VlanTest(proto).frames[i]
<1>3. CASE i = 1
  <2>1. f = Frame("own", proto, TRUE)
    BY <1>3, VlanFrames
  <2>2. f.dst = "own" /\ f.vid = proto /\ f.good = TRUE
    BY <2>1 DEF Frame
  <2> QED
    BY <1>2, <2>2 DEF GoodFrame
<1>4. CASE i \in 2..4
  <2>1. f = Frame("own", "other", FALSE)
    BY <1>4, VlanFrames
  <2>2. f.good = FALSE
    BY <2>1 DEF Frame
  <2> QED
    BY <1>2, <2>2 DEF BadFrame
<1> QED
  BY <1>1, <1>2, <1>3, <1>4

\* A frame that must arrive is for an address of the device or the entry the
\* test has added; the last frame decides on what the test is about.
LEMMA FrameShape ==
  ASSUME NEW n \in TestNos, NEW i \in 1..Len(SelftestList[n].frames)
  PROVE  LET t == SelftestList[n]  f == t.frames[i]
         IN /\ (f.good = TRUE /\ GoodFrame(f, t)) \/ (f.good = FALSE /\ BadFrame(f, t))
            /\ t.feature \in {"mc", "uc"} /\ i = Len(t.frames) => f.good = FALSE
            /\ t.feature \in {"ins", "jumbo"} => f.good = TRUE
            /\ t.entry \in Vids => t.feature \in {"vlan", "ins"}
<1> USE ListOfTests DEF Test, Vids, Frame
<1>1. CASE n \in {1, 2, 3, 13}
  <2>1. SelftestList[n].frames = <<Own>> /\ SelftestList[n].entry = "none"
        /\ SelftestList[n].feature \in {"mac", "phy", "mmc", "jumbo"}
    BY <1>1 DEF MacLoopback, PhyLoopback, Mmc, Jumbo
  <2>2. i = 1
    BY <2>1
  <2> QED
    BY <2>1, <2>2 DEF Own, GoodFrame
<1>2. CASE n \in 4..7
  <2>1. PICK feature \in {"mc", "uc"}, good \in {"gm", "gu"}, bad \in {"bm", "bu"} :
          /\ SelftestList[n] = Addresses(feature, good, bad)
          /\ feature = "mc" <=> bad = "bm"
    BY <1>2 DEF Hfilt, Pfilt, Mcfilt, Ucfilt
  <2>2. i = 1 \/ i = 2
    BY <2>1 DEF Addresses
  <2> QED
    BY <2>1, <2>2 DEF Addresses, GoodFrame, BadFrame
<1>3. CASE n \in 8..11
  <2>1. PICK proto \in Vids : SelftestList[n] = VlanTest(proto)
    BY <1>3 DEF Vlanfilt, Dvlanfilt
  <2>2. Len(VlanTest(proto).frames) = 4
    BY VlanFrames
  <2>3. i \in 1..4
    BY <2>1, <2>2
  <2> HIDE ListOfTests
  <2> QED
    BY <2>1, <2>3, VlanShape
<1>4. CASE n = 12
  <2>0. SelftestList[n] = Vlanoff
    BY <1>4
  <2> HIDE ListOfTests DEF Frame
  <2>1. Vlanoff.frames = <<Frame("own", "8021Q", TRUE)>>
        /\ Vlanoff.entry = "8021Q" /\ Vlanoff.feature = "ins"
    BY DEF Vlanoff
  <2>2. i = 1
    BY <2>0, <2>1
  <2> QED
    BY <2>0, <2>1, <2>2 DEF GoodFrame, Frame
<1>5. n \in {1, 2, 3, 13} \/ n \in 4..7 \/ n \in 8..11 \/ n = 12
  BY DEF TestNos
<1> HIDE ListOfTests
<1> QED
  BY <1>1, <1>2, <1>3, <1>4, <1>5

LEMMA ThisShape ==
  ASSUME SelfBase, testNo # 0
  PROVE  /\ testNo \in TestNos /\ This.feature \in Features
         /\ This.lb = IF testNo = 1 THEN "mac" ELSE IF testNo = 2 THEN "none" ELSE "phy"
         /\ This.feature = "phy" <=> testNo = 2
         /\ This.entry \in Entries \cup {"none"} /\ Len(This.frames) \in 1..4
BY TestShape DEF SelfBase, SelfTypes, TestNos, This

\* How many addresses there are: the entry of a test is one more.
Addrs == Uc \cup Mc
LEMMA AddrsFinite ==
  ASSUME NEW S, S \subseteq Addrs
  PROVE  IsFiniteSet(S) /\ Cardinality(S) \in Nat
<1>1. IsFiniteSet({}) /\ IsFiniteSet({"gu"})
  BY FS_EmptySet, FS_Singleton
<1>2. IsFiniteSet({"gu"} \cup {"bu"})
  BY <1>1, FS_AddElement
<1>3. IsFiniteSet({"gu"} \cup {"bu"} \cup {"gm"})
  BY <1>2, FS_AddElement
<1>4. IsFiniteSet({"gu"} \cup {"bu"} \cup {"gm"} \cup {"bm"})
  BY <1>3, FS_AddElement
<1>5. IsFiniteSet({"gu"} \cup {"bu"} \cup {"gm"} \cup {"bm"} \cup {"x"})
  BY <1>4, FS_AddElement
<1>6. Addrs = {"gu"} \cup {"bu"} \cup {"gm"} \cup {"bm"} \cup {"x"}
  BY DEF Addrs, Uc, Mc
<1>7. IsFiniteSet(S)
  BY <1>5, <1>6, FS_Subset
<1> QED
  BY <1>7, FS_CardinalityType

LEMMA OverflowFull ==
  ASSUME SelfBase, testPc = "send", Overflow
  PROVE  Full
<1> DEFINE A == {a \in Addrs : listed[a] > 0}  B == {a \in Addrs : refs[a] > 0}
           e == This.entry
<1>1. refs = WithEntry /\ listed \in [Entries -> 0..1] /\ Addrs \subseteq Entries
  BY DEF SelfBase, SelfTypes, Borrowed, Entries, Addrs
<1>2. B \subseteq A \cup {e}
  <2> SUFFICES ASSUME NEW a \in Addrs, refs[a] > 0, a # e PROVE listed[a] > 0
    OBVIOUS
  <2> QED
    BY <1>1 DEF WithEntry
<1>3. IsFiniteSet(A) /\ Cardinality(A) \in Nat /\ IsFiniteSet(B) /\ Cardinality(B) \in Nat
  BY AddrsFinite
<1> HIDE DEF A, B, e
<1>4. IsFiniteSet(A \cup {e}) /\ Cardinality(A \cup {e}) <= Cardinality(A) + 1
  BY <1>3, FS_AddElement
<1>5. Cardinality(B) <= Cardinality(A \cup {e}) /\ Cardinality(A \cup {e}) \in Nat
  BY <1>2, <1>4, FS_Subset, FS_CardinalityType
<1>6. Cardinality(B) > PerfectSlots
  BY DEF Overflow, B, Addrs
<1>7. Cardinality(A) >= PerfectSlots
  BY <1>3, <1>4, <1>5, <1>6, SelftestAssumption
<1> QED
  BY <1>7 DEF Full, A, Addrs

\* What the stack puts on excuses no less.
LEMMA ExcusedStays ==
  ASSUME SelfBase, NEW e \in Entries, listed' = [listed EXCEPT ![e] = 1],
         NEW feature, Excused(feature)
  PROVE  Excused(feature)'
<1>1. \A a \in Entries : listed[a] > 0 => listed'[a] > 0
  BY DEF SelfBase, SelfTypes
<1>2. Full => Full'
  <2> DEFINE A == {a \in Addrs : listed[a] > 0}  B == {a \in Addrs : listed'[a] > 0}
  <2>1. A \subseteq B
    BY <1>1 DEF Addrs, Entries
  <2>2. IsFiniteSet(B) /\ Cardinality(A) \in Nat /\ Cardinality(B) \in Nat
    BY AddrsFinite
  <2> HIDE DEF A, B
  <2>3. Cardinality(A) <= Cardinality(B)
    BY <2>1, <2>2, FS_Subset
  <2>4. Cardinality(A) >= PerfectSlots => Cardinality(B) >= PerfectSlots
    BY <2>2, <2>3, SelftestAssumption
  <2> QED
    BY <2>4 DEF Full, A, B, Addrs
<1> QED
  BY <1>1, <1>2 DEF Excused, Entries

\* Whether a frame comes back, while the filters hold the entry of the test:
\* one with an id may not when the stack has another in use.
LEMMA GoodArrives ==
  ASSUME SelfBase, VidInv, TellsInv, testPc = "send", NEW f, GoodFrame(f, This)
  PROVE  /\ Arrives(f) => Carried
         /\ f.vid = "none" \/ listed["vid2"] = 0 => (Arrives(f) <=> Carried)
<1>1. testNo # 0 /\ This.entry \in Entries \cup {"none"} /\ refs = WithEntry
      /\ listed \in [Entries -> 0..1]
  BY ThisShape DEF SelfBase, SelfTypes, Borrowed
<1>2. This.entry # "none" => refs[This.entry] > 0
  <2>1. ASSUME This.entry # "none" PROVE refs[This.entry] > 0
    <3>1. refs[This.entry] = listed[This.entry] + 1 /\ listed[This.entry] \in 0..1
      BY <1>1, <2>1 DEF WithEntry
    <3> QED
      BY <3>1
  <2> QED
    BY <2>1
<1>3. AddrPasses(f.dst)
  <2>1. CASE f.dst = "own"
    BY <2>1 DEF AddrPasses
  <2>2. CASE f.dst \in {"gu", "gm"} /\ f.dst = This.entry /\ This.feature \in {"mc", "uc"}
    BY <1>2, <2>2 DEF AddrPasses, Mc, TellsInv
  <2> QED
    BY <2>1, <2>2 DEF GoodFrame
<1>4. f.vid = "none" \/ listed["vid2"] = 0 => VidPasses(f.vid)
  <2> SUFFICES ASSUME f.vid \in Vids, f.vid = This.entry, listed["vid2"] = 0
               PROVE  VidPasses(f.vid)
    BY DEF GoodFrame, VidPasses
  <2>1. refs[f.vid] > 0
    BY <1>2 DEF Vids
  <2>2. refs["8021Q"] \in 0..2 /\ refs["8021AD"] \in 0..2
    BY UsesBounded DEF Entries, Vids
  <2>3. IdUses > 0
    BY <2>1, <2>2 DEF IdUses, Vids
  <2> QED
    BY <2>3 DEF VidInv, VidPasses
<1> QED
  BY <1>3, <1>4 DEF Arrives, TellsInv

LEMMA BadArrives ==
  ASSUME SelfBase, TellsInv, testPc = "send", NEW f, BadFrame(f, This), This.feature # "vlan"
  PROVE  /\ This.feature \in faulty => Arrives(f)
         /\ Arrives(f) => This.feature \in faulty \/ Overflow
<1>1. testNo # 0 /\ refs = WithEntry /\ listed \in [Entries -> 0..1]
  BY DEF SelfBase, SelfTypes, Borrowed
<1>2. Carried /\ (macLb \/ phyLb) /\ netFlags = "none" /\ f.vid = "none"
      /\ This.entry \in {"gu", "gm"}
  BY DEF BadFrame, Carried, TellsInv
<1>3. VidPasses(f.vid)
  BY <1>2 DEF VidPasses
<1>4. \A e \in {"bm", "bu"} : refs[e] = listed[e]
  BY <1>1, <1>2 DEF WithEntry, Entries, Uc, Mc
<1>5. CASE This.feature = "mc"
  <2>1. f.dst = "bm" /\ refs["bm"] = 0
    BY <1>4, <1>5 DEF BadFrame, TellsInv
  <2>2. AddrPasses(f.dst) <=> "mc" \in faulty \/ Overflow
    BY <1>2, <2>1 DEF AddrPasses, ReceivesAll, Mc
  <2> QED
    BY <1>2, <1>3, <1>5, <2>2 DEF Arrives
<1>6. CASE This.feature = "uc"
  <2>1. f.dst = "bu" /\ refs["bu"] = 0 /\ listed["bu"] = 0
    BY <1>4, <1>6 DEF BadFrame, TellsInv
  <2>2. AddrPasses(f.dst) <=> "uc" \in faulty \/ Overflow
    BY <1>2, <2>1 DEF AddrPasses, ReceivesAll, Mc
  <2> QED
    BY <1>2, <1>3, <1>6, <2>2 DEF Arrives
<1> QED
  BY <1>5, <1>6 DEF BadFrame

\* A frame whose fate is wrong tells of a fault or is excused, and the last one
\* whose fate is right of no fault, the counters' apart.
LEMMA Judged ==
  ASSUME SelfBase, VidInv, TellsInv, testPc = "send"
  PROVE  LET f == This.frames[frameNo]
         IN /\ f.good # Received(f) => This.feature \in faulty \/ Excused(This.feature)
            /\ f.good = Received(f) /\ frameNo = Len(This.frames)
                 => This.feature = "mmc" \/ This.feature \notin faulty
<1> DEFINE f == This.frames[frameNo]
<1>1. /\ testNo \in TestNos /\ This.feature \in Features
      /\ frameNo \in 1..Len(This.frames)
  BY ThisShape DEF SelfBase, SelfTypes, Borrowed
<1>2. /\ (f.good = TRUE /\ GoodFrame(f, This)) \/ (f.good = FALSE /\ BadFrame(f, This))
      /\ This.feature \in {"mc", "uc"} /\ frameNo = Len(This.frames) => f.good = FALSE
      /\ This.feature \in {"ins", "jumbo"} => f.good = TRUE
      /\ This.entry \in Vids => This.feature \in {"vlan", "ins"}
  BY <1>1, FrameShape DEF This
<1>3. {"mac", "phy", "vlan"} \cap faulty = {}
  BY DEF TellsInv
<1> HIDE DEF f
<1>4. CASE f.good = TRUE /\ GoodFrame(f, This)
  <2>1. (Received(f) <=> Arrives(f)) /\ (f.good = Received(f) <=> Arrives(f))
    BY <1>4 DEF Received, Arrives
  <2>2. Arrives(f) => Carried
    BY <1>4, GoodArrives
  <2>3. ~Arrives(f) => This.feature \in faulty \/ Excused(This.feature)
    <3>1. CASE f.vid = "none" \/ listed["vid2"] = 0
      BY <1>4, <3>1, GoodArrives DEF Carried
    <3>2. CASE f.vid # "none" /\ listed["vid2"] # 0
      <4>1. listed["vid2"] \in 0..1
        BY DEF SelfBase, SelfTypes, Entries
      <4>2. This.feature \in {"vlan", "ins"}
        BY <1>2, <1>4, <3>2 DEF GoodFrame
      <4> QED
        BY <3>2, <4>1, <4>2 DEF Excused
    <3> QED
      BY <3>1, <3>2
  <2>4. Carried /\ frameNo = Len(This.frames) => This.feature = "mmc" \/ This.feature \notin faulty
    BY <1>1, <1>2, <1>3, <1>4 DEF Carried, Features
  <2> QED
    BY <2>1, <2>2, <2>3, <2>4 DEF f
<1>5. CASE f.good = FALSE /\ BadFrame(f, This) /\ This.feature # "vlan"
  <2>1. This.entry \notin Vids
    BY <1>5 DEF BadFrame, Vids
  <2>2. f.good = Received(f) <=> ~Arrives(f)
    BY <1>5, <2>1 DEF Received, Arrives
  <2>3. /\ This.feature \in faulty => Arrives(f)
        /\ Arrives(f) => This.feature \in faulty \/ Overflow
    BY <1>5, BadArrives
  <2>4. Overflow => Excused(This.feature)
    BY <1>5, OverflowFull DEF Excused, BadFrame
  <2> QED
    BY <2>2, <2>3, <2>4 DEF f
<1>6. CASE f.good = FALSE /\ BadFrame(f, This) /\ This.feature = "vlan"
  <2>1. ~Received(f)
    BY <1>6 DEF Received, BadFrame
  <2>2. f.good = Received(f)
    BY <1>6, <2>1 DEF Received, Arrives
  <2> QED
    BY <1>3, <1>6, <2>2 DEF f
<1> QED
  BY <1>2, <1>4, <1>5, <1>6

LEMMA AfterTestTells ==
  ASSUME SelfBase, TellsInv, testNo # 0, NEW r, AfterTest(r),
         UNCHANGED <<deviceVars, phyOn>>,
         r = "pass" => This.feature \notin faulty,
         r = "fail" => This.feature \in faulty \/ Excused(This.feature)
  PROVE  TellsInv'
<1>1. UNCHANGED <<phydev, faulty, netFlags, listed, phyOn>>
  BY DEF deviceVars
<1>2. verdict' = <<This.feature, r>> /\ testPc' \in {"loopback", "idle"}
  BY DEF AfterTest
<1>3. SelftestTells'
  BY <1>1, <1>2 DEF SelftestTells, Excused, Full
<1>4. testNo' # 0 /\ phyOn' => (macLb' <=> macLb) /\ phyLb' = phyLb
  <2>1. phyOn' => This.lb # "mac"
    BY <1>1, ThisShape DEF TellsInv
  <2> QED
    BY <2>1 DEF AfterTest
<1>5. testNo' \in {1, 2} => testNo = 1 /\ ~phyOn
  BY ThisShape DEF AfterTest, TellsInv, TestNos
<1>6. testNo' # 0 /\ phyOn' => macLb' \/ phyLb'
  BY <1>1, <1>4 DEF TellsInv
<1> QED
  BY <1>1, <1>2, <1>3, <1>5, <1>6 DEF TellsInv

LEMMA TestEndsTells ==
  ASSUME SelfBase, TellsInv, testPc = "send", NEW r, TestEnds(r),
         UNCHANGED <<deviceVars, phyOn>>,
         r = "pass" => This.feature \notin faulty,
         r = "fail" => This.feature \in faulty \/ Excused(This.feature)
  PROVE  TellsInv'
<1>1. testNo # 0
  BY DEF SelfBase, SelfTypes
<1>2. CASE This.feature = "phy"
  <2>1. /\ testPc' = "phy_off" /\ verdict' = <<This.feature, r>>
        /\ UNCHANGED <<macLb, phyLb, testNo, phyOn, phydev, faulty, netFlags, listed>>
    BY <1>2 DEF TestEnds, deviceVars
  <2>2. SelftestTells'
    BY <2>1 DEF SelftestTells, Excused, Full
  <2> QED
    BY <2>1, <2>2 DEF TellsInv
<1>3. CASE This.feature # "phy"
  BY <1>1, <1>3, AfterTestTells DEF TestEnds
<1> QED
  BY <1>2, <1>3

LEMMA TellsSendStep ==
  ASSUME SelfBase, VidInv, TellsInv, TellFaults \cap SelftestFaults = {},
         SendFrame \/ SendFails
  PROVE  TellsInv'
<1>1. testPc = "send" /\ UNCHANGED <<deviceVars, phyOn>>
  BY DEF SendFrame, SendFails
<1>2. ASSUME Continue, frameNo = Len(This.frames) => This.feature = "mmc" \/ This.feature \notin faulty
      PROVE  TellsInv'
  <2>1. CASE frameNo = Len(This.frames) /\ This.feature = "mmc" /\ "mmc" \in faulty
    BY <1>1, <1>2, <2>1, TestEndsTells DEF Continue, Passed
  <2>2. CASE frameNo = Len(This.frames) /\ ~(This.feature = "mmc" /\ "mmc" \in faulty)
    <3>1. TestEnds("pass") /\ This.feature \notin faulty
      BY <1>2, <2>2 DEF Continue, Passed
    <3> QED
      BY <1>1, <3>1, TestEndsTells
  <2>3. CASE frameNo # Len(This.frames)
    <3>1. UNCHANGED <<macLb, phyLb, testNo, testPc, verdict, phyOn, phydev, faulty,
                      netFlags, listed>>
      BY <1>1, <1>2, <2>3 DEF Continue, deviceVars
    <3> QED
      BY <3>1 DEF TellsInv, SelftestTells, Excused, Full, This
  <2> QED
    BY <2>1, <2>2, <2>3
<1>3. CASE SendFrame
  <2> DEFINE f == This.frames[frameNo]
  <2>1. CASE f.good = Received(f)
    <3>1. Continue
      BY <1>3, <2>1 DEF SendFrame
    <3> QED
      BY <1>1, <1>2, <2>1, <3>1, Judged
  <2>2. CASE f.good # Received(f)
    <3>1. TestEnds("fail") /\ (This.feature \in faulty \/ Excused(This.feature))
      BY <1>1, <1>3, <2>2, Judged DEF SendFrame
    <3> QED
      BY <1>1, <3>1, TestEndsTells
  <2> QED
    BY <2>1, <2>2
<1>4. CASE SendFails
  <2>1. TestEnds("error")
    BY <1>4 DEF SendFails, SelfFault, TellFaults
  <2> QED
    BY <1>1, <2>1, TestEndsTells
<1> QED
  BY <1>3, <1>4

LEMMA TellsTestStep ==
  ASSUME SelfBase, TellsInv,
         SelftestRun \/ SetLoopback \/ Unsupported \/ Refused \/ BeginTest \/ PhyOff
  PROVE  TellsInv'
<1>1. CASE SelftestRun
  <2>1. /\ testNo' = 1 /\ testPc' = "loopback" /\ ~phyOn' /\ verdict' = <<"mac", "none">>
        /\ UNCHANGED <<phydev, faulty, netFlags, listed>>
    BY <1>1 DEF SelftestRun, deviceVars
  <2>2. SelftestTells'
    BY <2>1 DEF SelftestTells
  <2> QED
    BY <2>1, <2>2 DEF TellsInv
<1>2. CASE SetLoopback
  <2>1. /\ testPc = "loopback" /\ testPc' = "check" /\ testNo # 0
        /\ UNCHANGED <<phydev, faulty, netFlags, listed, testNo, verdict>>
    BY <1>2 DEF SetLoopback, deviceVars, SelfBase, SelfTypes
  <2>2. SelftestTells'
    BY <2>1 DEF SelftestTells, Excused, Full, TellsInv
  <2>3. phydev
    BY DEF TellsInv
  <2>4. CASE testNo > 2 /\ ~phyOn
    <3>1. phyOn' /\ (phyLb' \/ macLb')
      BY <1>2, <2>1, <2>3, <2>4, ThisShape DEF SetLoopback, TestNos
    <3> QED
      BY <2>1, <2>2, <2>4, <3>1 DEF TellsInv
  <2>5. CASE ~(testNo > 2 /\ ~phyOn)
    <3>0. ~(This.lb = "phy" /\ phydev /\ ~phyOn)
      BY <2>1, <2>5, ThisShape DEF TestNos
    <3>1. (macLb' <=> (macLb \/ This.lb = "mac")) /\ phyLb' = phyLb /\ phyOn' = phyOn
      BY <1>2, <3>0 DEF SetLoopback
    <3>2. testNo = 1 => macLb'
      BY <2>1, <3>1, ThisShape
    <3> QED
      BY <2>1, <2>2, <2>5, <3>1, <3>2 DEF TellsInv
  <2> QED
    BY <2>4, <2>5
<1>3. CASE Unsupported \/ Refused
  <2>1. /\ testNo # 0 /\ \E r \in {"unsupported", "error"} : AfterTest(r)
        /\ UNCHANGED <<deviceVars, phyOn>>
    BY <1>3 DEF Unsupported, Refused, SelfBase, SelfTypes
  <2> QED
    BY <2>1, AfterTestTells
<1>4. CASE BeginTest
  <2>1. /\ testPc = "check" /\ testPc' = "send" /\ testNo # 0 /\ refs = listed
        /\ UNCHANGED <<phydev, faulty, netFlags, listed, testNo, verdict, macLb, phyOn>>
        /\ phyLb' <=> (phyLb \/ This.feature = "phy")
    BY <1>4 DEF BeginTest, deviceVars, SelfBase, SelfTypes, Borrowed
  <2>2. SelftestTells' /\ This' = This
    BY <2>1 DEF SelftestTells, Excused, Full, TellsInv, This
  <2>3. macLb' \/ phyLb'
    <3>1. testNo = 1 \/ testNo = 2 \/ testNo > 2
      BY <2>1, ThisShape DEF TestNos
    <3> QED
      BY <2>1, <3>1, ThisShape DEF TellsInv
  <2>4. This.feature \in {"mc", "uc"} => netFlags = "none"
    BY <1>4 DEF BeginTest, Supported, FilterCheck, TellsInv
  <2>5. This.feature = "mc" => listed["bm"] = 0
    <3>1. listed["bm"] \in 0..1
      BY DEF SelfBase, SelfTypes, Entries, Mc
    <3>2. This.feature = "mc" => ~(refs["bm"] > 0)
      BY <1>4 DEF BeginTest, Supported, HashCheck, Mc
    <3> QED
      BY <2>1, <3>1, <3>2
  <2>6. This.feature = "uc" => listed["bu"] = 0
    BY <1>4, <2>1 DEF BeginTest, Supported, PerfectCheck
  <2> QED
    BY <2>1, <2>2, <2>3, <2>4, <2>5, <2>6 DEF TellsInv
<1>5. CASE PhyOff
  <2>1. /\ testNo = 2 /\ testNo' = 3 /\ testPc' = "loopback"
        /\ UNCHANGED <<phydev, faulty, netFlags, listed, verdict, phyOn>>
    BY <1>5 DEF PhyOff, deviceVars, SelfBase, SelfTypes
  <2>2. SelftestTells'
    BY <2>1 DEF SelftestTells, Excused, Full, TellsInv
  <2> QED
    BY <2>1, <2>2 DEF TellsInv
<1> QED
  BY <1>1, <1>2, <1>3, <1>4, <1>5

LEMMA TellsIdleStep ==
  ASSUME SelfBase, TellsInv, TellFaults \cap SelftestFaults = {},
         \/ SelfOpen
         \/ \E b \in BOOLEAN : IoctlSetMacLoopback(b) \/ IoctlSetPhyLoopback(b)
         \/ \E e \in {"gm", "x", "bu", "8021Q", "vid2"} : StackAdds(e)
         \/ \E f \in {"none", "promisc"} \cup (IF SelfFault("allmulti") THEN {"allmulti"} ELSE {}) :
              StackFlags(f)
  PROVE  TellsInv'
<1>1. ~SelfFault("allmulti")
  BY DEF SelfFault, TellFaults
<1>2. /\ testNo = 0 /\ UNCHANGED <<phydev, faulty, testNo, testPc, verdict, phyOn>>
      /\ netFlags' \in {"none", "promisc"}
  BY <1>1 DEF SelfOpen, IoctlSetMacLoopback, IoctlSetPhyLoopback, StackAdds, StackFlags,
       IdleVars, TellsInv
<1>3. listed' = listed \/ \E e \in Entries : listed' = [listed EXCEPT ![e] = 1]
  BY DEF SelfOpen, IoctlSetMacLoopback, IoctlSetPhyLoopback, StackAdds, StackFlags,
       Entries, Uc, Mc, Vids
<1>4. Excused(verdict[1]) => Excused(verdict[1])'
  <2>1. CASE listed' = listed
    BY <1>2, <2>1 DEF Excused, Full
  <2>2. CASE \E e \in Entries : listed' = [listed EXCEPT ![e] = 1]
    <3>1. PICK e \in Entries : listed' = [listed EXCEPT ![e] = 1]
      BY <2>2
    <3>2. PICK feature : feature = verdict[1]
      OBVIOUS
    <3>3. Excused(feature) => Excused(feature)'
      BY <3>1, ExcusedStays
    <3> QED
      BY <1>2, <3>2, <3>3
  <2> QED
    BY <1>3, <2>1, <2>2
<1>5. testPc = "idle" /\ SelftestTells'
  BY <1>2, <1>4 DEF SelftestTells, TellsInv, SelfBase, SelfTypes
<1> QED
  BY <1>2, <1>5 DEF TellsInv

\* A self-test passes only if what it is about works and fails only if it does
\* not, or if the stack has filled the perfect table (the address tests) or has
\* another VLAN id in use (the tests with an id), for every size of the table:
\* also with a PHY that refuses the loopback, with loopbacks set by ioctl and
\* with openings between runs; not without a PHY, with all multicast on, with a
\* VLAN filter that does not filter, nor without memory for a frame.
THEOREM SelftestsTell ==
  ASSUME TellFaults \cap SelftestFaults = {}
  PROVE  SelfSpec => []SelftestTells
<1>1. SelfInit => TellsInv
  <2>1. ASSUME SelfInit PROVE TellsInv
    <3>1. ~SelfFault("nophy") /\ ~SelfFault("vlan")
      BY DEF SelfFault, TellFaults
    <3>2. phydev \in {TRUE} /\ {"mac", "phy", "vlan"} \cap faulty = {}
      BY <2>1, <3>1 DEF SelfInit
    <3>3. SelftestTells /\ netFlags = "none" /\ testNo = 0 /\ testPc = "idle"
      BY <2>1 DEF SelfInit, SelftestTells
    <3> QED
      BY <3>2, <3>3 DEF TellsInv
  <2> QED
    BY <2>1
<1>2. SelfBase /\ VidInv /\ TellsInv /\ [SelfNext]_selfVars => TellsInv'
  <2>1. ASSUME SelfBase, VidInv, TellsInv, SelfNext PROVE TellsInv'
    BY <2>1, TellsSendStep, TellsTestStep, TellsIdleStep DEF SelfNext
  <2>2. ASSUME TellsInv, UNCHANGED selfVars PROVE TellsInv'
    BY <2>2 DEF TellsInv, SelftestTells, Excused, Full, selfVars, deviceVars, This
  <2> QED
    BY <2>1, <2>2
<1>3. TellsInv => SelftestTells
  BY DEF TellsInv
<1> QED
  BY <1>1, <1>2, <1>3, SelfBaseAlways, PTL DEF SelfSpec


(***************************************************************************)
(* The clock: accesses and the sequences they come in                      *)
(***************************************************************************)
Commands == {"init", "updt", "addreg"}
Bases == Rates \cup {"none", "plat", "coarse"}
Ppbs0 == Ppbs \cup {0}
StampFilters == RxFilters \cup {"default"}
PlainAccesses == {"lock", "unlock", "read", "sec", "nsec", "sec2", "nsec2", "defaulttar", "flags"}
Access ==
  {<<op>> : op \in PlainAccesses} \cup ({"upd"} \X Int) \cup ({"tar"} \X Ppbs0 \X Bases)
    \cup ({"cmd"} \X Commands \X Int) \cup ({"poll"} \X Commands)
    \cup ({"ssinc"} \X Bases) \cup ({"ifoff"} \X Int)
    \cup ({"control"} \X StampFilters \X (SUBSET {"init"}) \X Int)
\* What callers with the lock do, and callers without.
UserOps == {"lock", "unlock", "upd", "tar", "read", "cmd", "poll",
            "sec", "nsec", "sec2", "nsec2"}
RtnlOps == {"upd", "read", "cmd", "poll", "defaulttar", "ssinc", "ifoff", "control", "flags"}

\* Which accesses come around access i of s, as far as it matters: a command
\* is given with the operand the update register has been written with, and
\* waited for; the increment is followed by its addend, and the readings of the
\* clock belong together.
Is(s, i, op) == i \in 1..Len(s) /\ s[i][1] = op
Gives(s, i, cs) == Is(s, i, "cmd") /\ s[i][2] \in cs
Starts(s, i) == Is(s, i, "control") /\ s[i][3] = {"init"}
Follows(s, i) ==
  /\ Is(s, i, "upd") => /\ Is(s, i + 1, "read") /\ Gives(s, i + 2, {"init", "updt"})
                        /\ s[i + 2][3] = s[i][2]
                        /\ Starts(s, i + 4) => s[i + 4][4] = s[i][2]
  /\ Is(s, i, "read") => Is(s, i + 1, "cmd")
  /\ Is(s, i, "cmd") => /\ Is(s, i + 1, "poll") /\ s[i + 1][2] = s[i][2]
                        /\ i > 1 => Is(s, i - 1, "read")
  /\ Gives(s, i, {"init", "updt"}) => (i > 2 => Is(s, i - 2, "upd"))
  /\ Is(s, i, "tar") \/ Is(s, i, "defaulttar") =>
       Is(s, i + 1, "read") /\ Gives(s, i + 2, {"addreg"})
  /\ Is(s, i, "ssinc") => Is(s, i + 1, "defaulttar")
  /\ Starts(s, i) => /\ i = Len(s) \/ Is(s, i + 1, "flags")
                     /\ i > 4 => Is(s, i - 4, "upd")
  /\ Is(s, i, "flags") \/ Is(s, i, "ifoff") => i = Len(s)
  /\ Is(s, i, "lock") => i = 1
  /\ Is(s, i, "sec") => Is(s, i + 1, "nsec")
  /\ Is(s, i, "nsec") => Is(s, i + 1, "sec2") /\ (i > 1 => Is(s, i - 1, "sec"))
  /\ Is(s, i, "sec2") => Is(s, i + 1, "nsec2") /\ (i > 1 => Is(s, i - 1, "nsec"))
  /\ Is(s, i, "nsec2") => Is(s, i + 1, "unlock") /\ (i > 1 => Is(s, i - 1, "sec2"))
Chained(s) == \A i \in 1..Len(s) : Follows(s, i)
UserSeq(s) == /\ \A i \in 1..Len(s) : /\ s[i][1] \in UserOps
                                      /\ s[i][1] = "unlock" <=> i = Len(s)
                                      /\ s[i][1] = "tar" => s[i][3] = default_addend
RtnlSeq(s) == \A i \in 1..Len(s) : s[i][1] \in RtnlOps

(***************************************************************************)
(* The inductive invariant                                                 *)
(***************************************************************************)
Tcrs == [ena : BOOLEAN, filter : StampFilters, cmd : SUBSET Commands]
Addends == [base : Bases, ppb : Ppbs0]
Readings == [sec : Int, nsec : Int, sec2 : Int, from : Int, got : Int, to : Int]
PtpTypes ==
  /\ tcr \in Tcrs /\ value \in [Procs -> Tcrs]
  /\ upd \in Int /\ time \in Int /\ asked \in Int
  /\ tar \in Addends /\ addend \in Addends /\ ssinc \in Bases /\ default_addend \in Bases
  /\ hwts_tx_en \in BOOLEAN /\ hwts_rx_en \in BOOLEAN /\ ptp_up \in BOOLEAN
  /\ tstamp_config \in {<<>>} \cup (BOOLEAN \X RxFilters)
  /\ seen \in [Users -> Readings]
TodoInv ==
  /\ todo \in [Procs -> Seq(Access)]
  /\ \A p \in Procs : Chained(todo[p])
  /\ \A u \in Users : UserSeq(todo[u])
  /\ RtnlSeq(todo["rtnl"])
\* A caller is busy between lock and unlock; callers without the lock come
\* when there is no other.
Busy(p) == todo[p] # <<>> /\ ~Is(todo[p], 1, "lock")
AloneInv ==
  /\ ptp_lock \in Users \cup {"free"}
  /\ \A u \in Users : ptp_lock = u <=> Busy(u)
  /\ todo["rtnl"] # <<>> => Alone
\* A command is waited for, but for the last start of a configuration.
Waits(s, c) == \/ Is(s, 1, "poll") /\ s[1][2] = c
               \/ Is(s, 1, "flags") /\ c = "init"
CommandInv ==
  /\ \A c \in tcr.cmd : IF Quiet THEN c = "init" ELSE \E p \in Procs : Waits(todo[p], c)
  /\ \A p \in Procs : Is(todo[p], 1, "cmd") => value[p] = tcr
\* The update register holds the operand x of the command to come.
Operand(s, x) ==
  /\ Is(s, 1, "read") /\ Gives(s, 2, {"init", "updt"}) => s[2][3] = x
  /\ Gives(s, 1, {"init", "updt"}) => s[1][3] = x
  /\ \A k \in 1..4 : Starts(s, k) => s[k][4] = x
OperandInv == \A p \in Procs : Operand(todo[p], upd)
TimeInv ==
  /\ "init" \in tcr.cmd => upd = asked
  /\ "updt" \in tcr.cmd => time + upd = asked
  /\ {"init", "updt"} \cap tcr.cmd = {} => time = asked
\* While increment and addend are being set, the rest of it is still to come.
Still(s, op) == \E i \in 1..Len(s) : Is(s, i, op)
StillAdds(s) == \E i \in 1..Len(s) : Gives(s, i, {"addreg"})
RateInv ==
  LET s == todo["rtnl"]
  IN /\ Still(s, "ssinc") \/ ssinc = default_addend
     /\ Still(s, "ssinc") \/ Still(s, "defaulttar") \/ tar.base = ssinc
     /\ \/ Still(s, "ssinc") \/ Still(s, "defaulttar") \/ StillAdds(s)
        \/ "addreg" \in tcr.cmd \/ addend.base = ssinc
FlagInv ==
  LET s == todo["rtnl"]
  IN Is(s, 1, "control") \/ (FlagsBacked /\ (tcr.ena \/ ~Still(s, "flags")))
\* What has been read so far was the clock, less than a second ago.
Reading(s) == Is(s, 1, "nsec") \/ Is(s, 1, "sec2") \/ Is(s, 1, "nsec2")
ReadSo(s, r, now) ==
  /\ ~Reading(s) => r.got \in r.from..r.to
  /\ Reading(s) => r.sec = r.from \div SecLen /\ now \in r.from..r.from + SecLen
  /\ Is(s, 1, "sec2") => \E m \in r.from..now : r.nsec = m % SecLen
  /\ Is(s, 1, "nsec2") =>
       \E m \in r.from..now : \E n \in m..now : r.nsec = m % SecLen /\ r.sec2 = n \div SecLen
ReadInv == \A u \in Users : ReadSo(todo[u], seen[u], time)
PtpInv == /\ PtpTypes /\ TodoInv /\ AloneInv /\ CommandInv /\ OperandInv
          /\ TimeInv /\ RateInv /\ FlagInv /\ ReadInv

(***************************************************************************)
(* Facts about accesses, sequences and numbers                             *)
(***************************************************************************)
LEMMA PlainAccess == ASSUME NEW op \in PlainAccesses PROVE <<op>> \in Access
BY DEF Access
LEMMA UpdAccess == ASSUME NEW x \in Int PROVE <<"upd", x>> \in Access
BY DEF Access
LEMMA TarAccess == ASSUME NEW p \in Ppbs0, NEW b \in Bases PROVE <<"tar", p, b>> \in Access
BY DEF Access
LEMMA CmdAccess ==
  ASSUME NEW c \in Commands, NEW x \in Int
  PROVE  <<"cmd", c, x>> \in Access /\ <<"poll", c>> \in Access
BY DEF Access
LEMMA SsincAccess == ASSUME NEW b \in Bases PROVE <<"ssinc", b>> \in Access
BY DEF Access
LEMMA IfoffAccess == ASSUME NEW x \in Int PROVE <<"ifoff", x>> \in Access
BY DEF Access
LEMMA ControlAccess ==
  ASSUME NEW f \in StampFilters, NEW c \in SUBSET {"init"}, NEW x \in Int
  PROVE  <<"control", f, c, x>> \in Access
BY DEF Access

\* What the operands of an access are.
LEMMA Operands ==
  ASSUME NEW x \in Access
  PROVE  /\ x[1] \in UserOps \cup RtnlOps
         /\ x[1] = "upd" => x[2] \in Int
         /\ x[1] = "tar" => x[2] \in Ppbs0 /\ x[3] \in Bases
         /\ x[1] = "cmd" => x[2] \in Commands /\ x[3] \in Int
         /\ x[1] = "poll" => x[2] \in Commands
         /\ x[1] = "ssinc" => x[2] \in Bases
         /\ x[1] = "ifoff" => x[2] \in Int
         /\ x[1] = "control" =>
              x[2] \in StampFilters /\ x[3] \in SUBSET {"init"} /\ x[4] \in Int
BY DEF Access, PlainAccesses, UserOps, RtnlOps

LEMMA TailOf ==
  ASSUME NEW s \in Seq(Access), s # <<>>
  PROVE  /\ Tail(s) \in Seq(Access) /\ Len(s) \in Nat /\ Len(s) > 0
         /\ Len(Tail(s)) = Len(s) - 1 /\ s[1] \in Access
         /\ \A i \in 1..Len(Tail(s)) : Tail(s)[i] = s[i + 1]
         /\ Tail(s) = <<>> <=> Len(s) = 1
<1>1. /\ Tail(s) \in Seq(Access) /\ Len(s) \in Nat /\ Len(s) > 0
      /\ Len(Tail(s)) = Len(s) - 1 /\ s[1] \in Access
      /\ \A i \in 1..Len(Tail(s)) : Tail(s)[i] = s[i + 1]
  OBVIOUS
<1>2. Tail(s) = <<>> <=> Len(Tail(s)) = 0
  BY <1>1, EmptySeq
<1> QED
  BY <1>1, <1>2
LEMMA TailIs ==
  ASSUME NEW s \in Seq(Access), s # <<>>, NEW i \in Nat, i > 0, NEW op, NEW cs
  PROVE  /\ Is(Tail(s), i, op) <=> Is(s, i + 1, op)
         /\ Gives(Tail(s), i, cs) <=> Gives(s, i + 1, cs)
         /\ Starts(Tail(s), i) <=> Starts(s, i + 1)
BY TailOf DEF Is, Gives, Starts
LEMMA TailChained ==
  ASSUME NEW s \in Seq(Access), s # <<>>, Chained(s)
  PROVE  Chained(Tail(s))
<1> SUFFICES ASSUME NEW i \in 1..Len(Tail(s)) PROVE Follows(Tail(s), i)
  BY DEF Chained
<1>1. i + 1 \in 1..Len(s) /\ Len(s) \in Nat /\ Len(Tail(s)) = Len(s) - 1 /\ i \in Nat /\ i > 0
  BY TailOf
<1>2. Follows(s, i + 1)
  BY <1>1 DEF Chained
<1>3. \A k \in 1..Len(s) - 1 : Tail(s)[k] = s[k + 1]
  BY TailOf
<1> DEFINE r == Tail(s)
           j == i + 1
<1>4. /\ i \in 1..Len(r) /\ r[i] = s[j]
      /\ \A k \in 1..4 : i + k \in 1..Len(r) <=> j + k \in 1..Len(s)
      /\ \A k \in 1..4 : i + k \in 1..Len(r) => r[i + k] = s[j + k]
      /\ \A k \in 1..4 : i > k => /\ i - k \in 1..Len(r) /\ j - k \in 1..Len(s)
                                  /\ r[i - k] = s[j - k]
      /\ i = Len(r) <=> j = Len(s)
      /\ j # 1
      /\ \A k \in 1..4 : i > k => j > k
  BY <1>1, <1>3
<1> HIDE DEF r, j
<1>5. ASSUME NEW op PROVE /\ Is(r, i, op) <=> Is(s, j, op)
                          /\ Is(r, i + 1, op) <=> Is(s, j + 1, op)
                          /\ i > 1 => (Is(r, i - 1, op) <=> Is(s, j - 1, op))
                          /\ i > 2 => (Is(r, i - 2, op) <=> Is(s, j - 2, op))
                          /\ i > 4 => (Is(r, i - 4, op) <=> Is(s, j - 4, op))
  <2>1. i \in 1..Len(r) /\ j \in 1..Len(s) /\ r[i] = s[j]
    BY <1>1, <1>4 DEF j
  <2>2. /\ i + 1 \in 1..Len(r) <=> j + 1 \in 1..Len(s)
        /\ i + 1 \in 1..Len(r) => r[i + 1] = s[j + 1]
    BY <1>4
  <2>3. i > 1 => i - 1 \in 1..Len(r) /\ j - 1 \in 1..Len(s) /\ r[i - 1] = s[j - 1]
    BY <1>4
  <2>4. i > 4 => i - 4 \in 1..Len(r) /\ j - 4 \in 1..Len(s) /\ r[i - 4] = s[j - 4]
    BY <1>4
  <2>5. i > 2 => i - 2 \in 1..Len(r) /\ j - 2 \in 1..Len(s) /\ r[i - 2] = s[j - 2]
    BY <1>4
  <2> QED
    BY <2>1, <2>2, <2>3, <2>4, <2>5, Zenon DEF Is
<1>6a. ASSUME NEW cs PROVE Gives(r, i, cs) <=> Gives(s, j, cs)
  BY <1>4, <1>5, Zenon DEF Gives
<1>6. ASSUME NEW cs PROVE Gives(r, i + 2, cs) <=> Gives(s, j + 2, cs)
  <2>1. /\ i + 2 \in 1..Len(r) <=> j + 2 \in 1..Len(s)
        /\ i + 2 \in 1..Len(r) => r[i + 2] = s[j + 2]
    BY <1>4
  <2> QED
    BY <2>1, Zenon DEF Gives, Is
<1>7. Starts(r, i) <=> Starts(s, j)
  <2>1. j \in 1..Len(s) /\ i \in 1..Len(r) /\ r[i] = s[j]
    BY <1>1, <1>4 DEF j
  <2> QED
    BY <2>1, Zenon DEF Starts, Is
<1>8. Starts(r, i + 4) <=> Starts(s, j + 4)
  <2>1. /\ i + 4 \in 1..Len(r) <=> j + 4 \in 1..Len(s)
        /\ i + 4 \in 1..Len(r) => r[i + 4] = s[j + 4]
    BY <1>4
  <2> QED
    BY <2>1, Zenon DEF Starts, Is
<1>9. Follows(s, j)
  BY <1>2 DEF j
<1>10. Is(r, i, "upd") =>
         /\ Is(r, i + 1, "read") /\ Gives(r, i + 2, {"init", "updt"})
         /\ r[i + 2][3] = r[i][2] /\ (Starts(r, i + 4) => r[i + 4][4] = r[i][2])
  <2> SUFFICES ASSUME Is(r, i, "upd") PROVE
         /\ Is(r, i + 1, "read") /\ Gives(r, i + 2, {"init", "updt"})
         /\ r[i + 2][3] = r[i][2] /\ (Starts(r, i + 4) => r[i + 4][4] = r[i][2])
    OBVIOUS
  <2>1. /\ Is(s, j + 1, "read") /\ Gives(s, j + 2, {"init", "updt"})
        /\ s[j + 2][3] = s[j][2] /\ (Starts(s, j + 4) => s[j + 4][4] = s[j][2])
    BY <1>5, <1>9, Zenon DEF Follows
  <2>2. Is(r, i + 1, "read") /\ Gives(r, i + 2, {"init", "updt"})
    BY <1>5, <1>6, <2>1, Zenon
  <2>3. r[i + 2] = s[j + 2] /\ r[i] = s[j]
    BY <1>4, <2>2 DEF Gives, Is
  <2>4. Starts(r, i + 4) => r[i + 4] = s[j + 4]
    BY <1>4 DEF Starts, Is
  <2> QED
    BY <1>8, <2>1, <2>2, <2>3, <2>4
<1>11. Is(r, i, "cmd") => /\ Is(r, i + 1, "poll") /\ r[i + 1][2] = r[i][2]
                          /\ i > 1 => Is(r, i - 1, "read")
  <2> SUFFICES ASSUME Is(r, i, "cmd")
               PROVE  /\ Is(r, i + 1, "poll") /\ r[i + 1][2] = r[i][2]
                      /\ i > 1 => Is(r, i - 1, "read")
    OBVIOUS
  <2>1. /\ Is(s, j + 1, "poll") /\ s[j + 1][2] = s[j][2]
        /\ j > 1 => Is(s, j - 1, "read")
    BY <1>5, <1>9, Zenon DEF Follows
  <2>2. Is(r, i + 1, "poll")
    BY <1>5, <2>1, Zenon
  <2>3. i > 1 => j > 1
    BY <1>4
  <2>4. i > 1 => Is(r, i - 1, "read")
    BY <1>5, <2>1, <2>3, Zenon
  <2> QED
    BY <1>4, <2>1, <2>2, <2>4 DEF Is
<1>16. Gives(r, i, {"init", "updt"}) => (i > 2 => Is(r, i - 2, "upd"))
  <2>1. i > 2 => j > 2
    BY <1>4
  <2> QED
    BY <1>5, <1>6a, <1>9, <2>1, Zenon DEF Follows
<1>12. /\ Is(r, i, "read") => Is(r, i + 1, "cmd")
       /\ Is(r, i, "tar") \/ Is(r, i, "defaulttar") =>
            Is(r, i + 1, "read") /\ Gives(r, i + 2, {"addreg"})
       /\ Is(r, i, "ssinc") => Is(r, i + 1, "defaulttar")
  BY <1>5, <1>6, <1>9, Zenon DEF Follows
<1>13. Starts(r, i) => /\ i = Len(r) \/ Is(r, i + 1, "flags")
                       /\ i > 4 => Is(r, i - 4, "upd")
  BY <1>4, <1>5, <1>7, <1>9 DEF Follows
<1>14. /\ Is(r, i, "flags") \/ Is(r, i, "ifoff") => i = Len(r)
       /\ Is(r, i, "lock") => i = 1
  BY <1>4, <1>5, <1>9 DEF Follows
<1>15. /\ Is(r, i, "sec") => Is(r, i + 1, "nsec")
       /\ Is(r, i, "nsec") => Is(r, i + 1, "sec2") /\ (i > 1 => Is(r, i - 1, "sec"))
       /\ Is(r, i, "sec2") => Is(r, i + 1, "nsec2") /\ (i > 1 => Is(r, i - 1, "nsec"))
       /\ Is(r, i, "nsec2") => Is(r, i + 1, "unlock") /\ (i > 1 => Is(r, i - 1, "sec2"))
  <2>1. i > 1 => j > 1
    BY <1>4
  <2> QED
    BY <1>5, <1>9, <2>1, Zenon DEF Follows
<1> QED
  BY <1>10, <1>11, <1>12, <1>13, <1>14, <1>15, <1>16, Zenon DEF Follows, r

\* Division, and what a launch time is worked out with.
LEMMA Quotients ==
  ASSUME NEW a \in Int, NEW b \in Nat \ {0}
  PROVE  /\ a \div b \in Int /\ a % b \in 0..(b - 1)
         /\ a = (a \div b) * b + (a % b)
OBVIOUS
LEMMA Quotient ==
  ASSUME NEW a \in Int, NEW b \in Nat \ {0}, NEW q \in Int, NEW r \in 0..(b - 1),
         a = q * b + r
  PROVE  a \div b = q /\ a % b = r
OBVIOUS
LEMMA LaunchIs ==
  ASSUME NEW ns \in Int, NEW tr \in Traverse,
         NEW d \in -(ns % Turn)..(Turn \div 2 - 1), d >= -(Turn \div 2)
  PROVE  LaunchKnown(ns, d, tr)
<1> DEFINE q == ns \div Turn  low == ns % Turn  x == low + d
<1>1. Turn \in Nat \ {0} /\ Turn % 2 = 0 /\ tr \in 0..(Turn - 1)
  BY PtpAssumption
<1>2. q \in Int /\ low \in 0..(Turn - 1) /\ ns = q * Turn + low
  BY <1>1, Quotients
<1>3. Turn \div 2 \in Nat /\ Turn = (Turn \div 2) * 2
  BY <1>1
<1> HIDE DEF q, low
<1>4. d \in Int /\ d >= -low /\ d <= Turn \div 2 - 1
  BY <1>1, <1>2, <1>3 DEF low
<1>5. x \in Nat /\ x < Turn + Turn \div 2 /\ x - low = d
  BY <1>2, <1>3, <1>4
<1>6. PICK lap \in {0, 1}, at \in 0..(Turn - 1) : x = lap * Turn + at
  <2>1. CASE x < Turn
    <3>1. x \in 0..(Turn - 1) /\ x = 0 * Turn + x
      BY <1>1, <1>5, <2>1
    <3> QED
      BY <3>1
  <2>2. CASE x >= Turn
    <3>1. x - Turn \in 0..(Turn - 1) /\ x = 1 * Turn + (x - Turn)
      BY <1>1, <1>3, <1>5, <2>2
    <3> QED
      BY <3>1
  <2> QED
    BY <1>5, <2>1, <2>2, <1>1
<1> DEFINE pt == (ns + d + tr) % Turn
           app == IF pt >= tr THEN pt - tr ELSE Turn - tr + pt
<1>7. pt = IF at + tr < Turn THEN at + tr ELSE at + tr - Turn
  <2>0. ns + d + tr \in Int /\ ns + d + tr = (q + lap) * Turn + (at + tr)
    BY <1>1, <1>2, <1>4, <1>6
  <2>1. CASE at + tr < Turn
    <3>1. at + tr \in 0..(Turn - 1) /\ q + lap \in Int
      BY <1>1, <1>2, <2>1
    <3>2. (ns + d + tr) % Turn = at + tr
      BY <1>1, <2>0, <3>1, Quotient, Zenon
    <3> QED
      BY <2>1, <3>2
  <2>2. CASE at + tr >= Turn
    <3>1. at + tr - Turn \in 0..(Turn - 1) /\ q + lap + 1 \in Int
      BY <1>1, <1>2, <2>2
    <3>2. ns + d + tr = (q + lap + 1) * Turn + (at + tr - Turn)
      BY <1>1, <1>2, <2>0
    <3> DEFINE a == ns + d + tr  w == q + lap + 1  v == at + tr - Turn
    <3>3. a \in Int /\ w \in Int /\ v \in 0..(Turn - 1) /\ a = w * Turn + v
      BY <2>0, <3>1, <3>2
    <3> HIDE DEF a, w, v
    <3>4. a % Turn = v
      BY <1>1, <3>3, Quotient, Zenon
    <3>5. (ns + d + tr) % Turn = at + tr - Turn
      BY <3>4 DEF a, v
    <3> QED
      BY <1>1, <2>2, <3>5
  <2> QED
    BY <1>1, <1>6, <2>1, <2>2
<1>8. app = at
  BY <1>1, <1>6, <1>7
<1> HIDE DEF pt, app
<1>9. LaunchLt(pt, tr, ns) =
        IF at < low /\ low - at > Turn \div 2 THEN q * Turn + at + Turn ELSE q * Turn + at
  BY <1>8, Zenon DEF LaunchLt, app, q, low
<1>10. ns + d = q * Turn + lap * Turn + at
  BY <1>1, <1>2, <1>4, <1>6
<1>11. ASSUME lap = 0 PROVE LaunchLt(pt, tr, ns) = ns + d
  <2>1. ~(at < low /\ low - at > Turn \div 2)
    BY <1>2, <1>3, <1>4, <1>6, <1>11
  <2> QED
    BY <1>1, <1>2, <1>6, <1>9, <1>10, <1>11, <2>1
<1>12. ASSUME lap = 1 PROVE LaunchLt(pt, tr, ns) = ns + d
  <2>1. at < low /\ low - at > Turn \div 2
    BY <1>1, <1>2, <1>3, <1>4, <1>6, <1>12
  <2> QED
    BY <1>1, <1>2, <1>6, <1>9, <1>10, <1>12, <2>1
<1>13. LaunchLt(pt, tr, ns) = ns + d
  BY <1>6, <1>11, <1>12
<1> QED
  BY <1>13 DEF LaunchKnown, LaunchTime, pt
(***************************************************************************)
(* The sequences of the calls                                              *)
(***************************************************************************)
\* What two tuples are together.
LEMMA Joined ==
  ASSUME NEW S, NEW l \in Seq(S), NEW r \in Seq(S), NEW t \in Seq(S),
         Len(t) = Len(l) + Len(r),
         \A i \in 1..Len(t) : t[i] = IF i <= Len(l) THEN l[i] ELSE r[i - Len(l)]
  PROVE  l \o r = t
<1> DEFINE u == l \o r
<1>1. /\ u \in Seq(S) /\ Len(u) = Len(t) /\ Len(t) \in Nat
      /\ \A i \in 1..Len(t) : u[i] = t[i]
  BY ConcatProperties
<1> HIDE DEF u
<1>2. u = t
  BY <1>1, SeqEqual
<1> QED
  BY <1>2 DEF u

LEMMA Join1_3 ==
  ASSUME NEW x1, NEW y1, NEW y2, NEW y3
  PROVE  <<x1>> \o <<y1, y2, y3>> =
           <<x1, y1, y2, y3>>
<1> DEFINE S == {x1, y1, y2, y3}
           l == <<x1>>  r == <<y1, y2, y3>>
           t == <<x1, y1, y2, y3>>
<1>1. /\ l \in Seq(S) /\ r \in Seq(S) /\ t \in Seq(S)
      /\ Len(t) = Len(l) + Len(r)
      /\ \A i \in 1..Len(t) : t[i] = IF i <= Len(l) THEN l[i] ELSE r[i - Len(l)]
  OBVIOUS
<1> HIDE DEF S, l, r, t
<1>2. l \o r = t
  BY <1>1, Joined, Zenon
<1> QED
  BY <1>2 DEF l, r, t

LEMMA Join2_3 ==
  ASSUME NEW x1, NEW x2, NEW y1, NEW y2, NEW y3
  PROVE  <<x1, x2>> \o <<y1, y2, y3>> =
           <<x1, x2, y1, y2, y3>>
<1> DEFINE S == {x1, x2, y1, y2, y3}
           l == <<x1, x2>>  r == <<y1, y2, y3>>
           t == <<x1, x2, y1, y2, y3>>
<1>1. /\ l \in Seq(S) /\ r \in Seq(S) /\ t \in Seq(S)
      /\ Len(t) = Len(l) + Len(r)
      /\ \A i \in 1..Len(t) : t[i] = IF i <= Len(l) THEN l[i] ELSE r[i - Len(l)]
  OBVIOUS
<1> HIDE DEF S, l, r, t
<1>2. l \o r = t
  BY <1>1, Joined, Zenon
<1> QED
  BY <1>2 DEF l, r, t

LEMMA Join1_4 ==
  ASSUME NEW x1, NEW y1, NEW y2, NEW y3, NEW y4
  PROVE  <<x1>> \o <<y1, y2, y3, y4>> =
           <<x1, y1, y2, y3, y4>>
<1> DEFINE S == {x1, y1, y2, y3, y4}
           l == <<x1>>  r == <<y1, y2, y3, y4>>
           t == <<x1, y1, y2, y3, y4>>
<1>1. /\ l \in Seq(S) /\ r \in Seq(S) /\ t \in Seq(S)
      /\ Len(t) = Len(l) + Len(r)
      /\ \A i \in 1..Len(t) : t[i] = IF i <= Len(l) THEN l[i] ELSE r[i - Len(l)]
  OBVIOUS
<1> HIDE DEF S, l, r, t
<1>2. l \o r = t
  BY <1>1, Joined, Zenon
<1> QED
  BY <1>2 DEF l, r, t

LEMMA Join5_1 ==
  ASSUME NEW x1, NEW x2, NEW x3, NEW x4, NEW x5, NEW y1
  PROVE  <<x1, x2, x3, x4, x5>> \o <<y1>> =
           <<x1, x2, x3, x4, x5, y1>>
<1> DEFINE S == {x1, x2, x3, x4, x5, y1}
           l == <<x1, x2, x3, x4, x5>>  r == <<y1>>
           t == <<x1, x2, x3, x4, x5, y1>>
<1>1. /\ l \in Seq(S) /\ r \in Seq(S) /\ t \in Seq(S)
      /\ Len(t) = Len(l) + Len(r)
      /\ \A i \in 1..Len(t) : t[i] = IF i <= Len(l) THEN l[i] ELSE r[i - Len(l)]
  OBVIOUS
<1> HIDE DEF S, l, r, t
<1>2. l \o r = t
  BY <1>1, Joined, Zenon
<1> QED
  BY <1>2 DEF l, r, t

LEMMA Join4_1 ==
  ASSUME NEW x1, NEW x2, NEW x3, NEW x4, NEW y1
  PROVE  <<x1, x2, x3, x4>> \o <<y1>> =
           <<x1, x2, x3, x4, y1>>
<1> DEFINE S == {x1, x2, x3, x4, y1}
           l == <<x1, x2, x3, x4>>  r == <<y1>>
           t == <<x1, x2, x3, x4, y1>>
<1>1. /\ l \in Seq(S) /\ r \in Seq(S) /\ t \in Seq(S)
      /\ Len(t) = Len(l) + Len(r)
      /\ \A i \in 1..Len(t) : t[i] = IF i <= Len(l) THEN l[i] ELSE r[i - Len(l)]
  OBVIOUS
<1> HIDE DEF S, l, r, t
<1>2. l \o r = t
  BY <1>1, Joined, Zenon
<1> QED
  BY <1>2 DEF l, r, t

LEMMA Join1_5 ==
  ASSUME NEW x1, NEW y1, NEW y2, NEW y3, NEW y4, NEW y5
  PROVE  <<x1>> \o <<y1, y2, y3, y4, y5>> =
           <<x1, y1, y2, y3, y4, y5>>
<1> DEFINE S == {x1, y1, y2, y3, y4, y5}
           l == <<x1>>  r == <<y1, y2, y3, y4, y5>>
           t == <<x1, y1, y2, y3, y4, y5>>
<1>1. /\ l \in Seq(S) /\ r \in Seq(S) /\ t \in Seq(S)
      /\ Len(t) = Len(l) + Len(r)
      /\ \A i \in 1..Len(t) : t[i] = IF i <= Len(l) THEN l[i] ELSE r[i - Len(l)]
  OBVIOUS
<1> HIDE DEF S, l, r, t
<1>2. l \o r = t
  BY <1>1, Joined, Zenon
<1> QED
  BY <1>2 DEF l, r, t

LEMMA Join6_4 ==
  ASSUME NEW x1, NEW x2, NEW x3, NEW x4, NEW x5,
         NEW x6, NEW y1, NEW y2, NEW y3, NEW y4
  PROVE  <<x1, x2, x3, x4, x5, x6>> \o <<y1, y2, y3, y4>> =
           <<x1, x2, x3, x4, x5, x6, y1, y2, y3, y4>>
<1> DEFINE S == {x1, x2, x3, x4, x5, x6, y1, y2, y3, y4}
           l == <<x1, x2, x3, x4, x5, x6>>  r == <<y1, y2, y3, y4>>
           t == <<x1, x2, x3, x4, x5, x6, y1, y2, y3, y4>>
<1>1. /\ l \in Seq(S) /\ r \in Seq(S) /\ t \in Seq(S)
      /\ Len(t) = Len(l) + Len(r)
      /\ \A i \in 1..Len(t) : t[i] = IF i <= Len(l) THEN l[i] ELSE r[i - Len(l)]
  OBVIOUS
<1> HIDE DEF S, l, r, t
<1>2. l \o r = t
  BY <1>1, Joined, Zenon
<1> QED
  BY <1>2 DEF l, r, t

LEMMA Join10_2 ==
  ASSUME NEW x1, NEW x2, NEW x3, NEW x4, NEW x5, NEW x6,
         NEW x7, NEW x8, NEW x9, NEW x10, NEW y1, NEW y2
  PROVE  <<x1, x2, x3, x4, x5, x6, x7, x8, x9, x10>> \o <<y1, y2>> =
           <<x1, x2, x3, x4, x5, x6, x7, x8, x9, x10, y1, y2>>
<1> DEFINE S == {x1, x2, x3, x4, x5, x6, x7, x8, x9, x10, y1, y2}
           l == <<x1, x2, x3, x4, x5, x6, x7, x8, x9, x10>>  r == <<y1, y2>>
           t == <<x1, x2, x3, x4, x5, x6, x7, x8, x9, x10, y1, y2>>
<1>1. /\ l \in Seq(S) /\ r \in Seq(S) /\ t \in Seq(S)
      /\ Len(t) = Len(l) + Len(r)
      /\ \A i \in 1..Len(t) : t[i] = IF i <= Len(l) THEN l[i] ELSE r[i - Len(l)]
  OBVIOUS
<1> HIDE DEF S, l, r, t
<1>2. l \o r = t
  BY <1>1, Joined, Zenon
<1> QED
  BY <1>2 DEF l, r, t

LEMMA CommandIs ==
  ASSUME NEW x, NEW c, NEW v
  PROVE  << x >> \o Command(c, v) = <<x, <<"read">>, <<"cmd", c, v>>, <<"poll", c>> >>
BY Join1_3 DEF Command
LEMMA LockedIs ==
  ASSUME NEW a, NEW b, NEW c, NEW d
  PROVE  Locked(<<a, b, c, d>>) = << <<"lock">>, a, b, c, d, <<"unlock">> >>
<1>1. << <<"lock">> >> \o <<a, b, c, d>> = << <<"lock">>, a, b, c, d>>
  BY Join1_4, Zenon
<1>2. << <<"lock">>, a, b, c, d>> \o << <<"unlock">> >> =
        << <<"lock">>, a, b, c, d, <<"unlock">> >>
  BY Join5_1, Zenon
<1> QED
  BY <1>1, <1>2, Zenon DEF Locked
LEMMA IncrementIs ==
  ASSUME NEW r
  PROVE  Increment(r) = << <<"ssinc", r>>, <<"defaulttar">>, <<"read">>,
                           <<"cmd", "addreg", 0>>, <<"poll", "addreg">> >>
BY Join2_3 DEF Increment, Command

LEMMA SetTimeSeq ==
  ASSUME NEW t \in Int, NEW s, s = Locked(init_systime(t))
  PROVE  /\ s \in Seq(Access) /\ Chained(s) /\ UserSeq(s)
         /\ s # <<>> /\ s[1][1] = "lock"
<1>0. init_systime(t) = << <<"upd", t>>, <<"read">>, <<"cmd", "init", t>>, <<"poll", "init">> >>
  BY CommandIs DEF init_systime
<1>1. s = << <<"lock">>, <<"upd", t>>, <<"read">>, <<"cmd", "init", t>>,
             <<"poll", "init">>, <<"unlock">> >>
  BY <1>0, LockedIs, Zenon
<1>2. s \in Seq(Access)
  BY <1>1, PlainAccess, UpdAccess, CmdAccess DEF PlainAccesses, Commands
<1>3. Chained(s)
  BY <1>1 DEF Chained, Follows, Is, Gives, Starts
<1>4. UserSeq(s)
  BY <1>1 DEF UserSeq, UserOps
<1> QED
  BY <1>1, <1>2, <1>3, <1>4

LEMMA AdjustTimeSeq ==
  ASSUME NEW d \in Int, NEW s, s = Locked(adjust_systime(d))
  PROVE  /\ s \in Seq(Access) /\ Chained(s) /\ UserSeq(s)
         /\ s # <<>> /\ s[1][1] = "lock"
<1>0. adjust_systime(d) = << <<"upd", d>>, <<"read">>, <<"cmd", "updt", d>>, <<"poll", "updt">> >>
  BY CommandIs DEF adjust_systime
<1>1. s = << <<"lock">>, <<"upd", d>>, <<"read">>, <<"cmd", "updt", d>>,
             <<"poll", "updt">>, <<"unlock">> >>
  BY <1>0, LockedIs, Zenon
<1>2. s \in Seq(Access)
  BY <1>1, PlainAccess, UpdAccess, CmdAccess DEF PlainAccesses, Commands
<1>3. Chained(s)
  BY <1>1 DEF Chained, Follows, Is, Gives, Starts
<1>4. UserSeq(s)
  BY <1>1 DEF UserSeq, UserOps
<1> QED
  BY <1>1, <1>2, <1>3, <1>4

LEMMA AdjustFreqSeq ==
  ASSUME NEW p \in Ppbs0, default_addend \in Bases, NEW s,
         s = Locked(config_addend(p, default_addend))
  PROVE  /\ s \in Seq(Access) /\ Chained(s) /\ UserSeq(s)
         /\ s # <<>> /\ s[1][1] = "lock"
<1>0. config_addend(p, default_addend) = << <<"tar", p, default_addend>>, <<"read">>, <<"cmd", "addreg", 0>>, <<"poll", "addreg">> >>
  BY CommandIs DEF config_addend
<1>1. s = << <<"lock">>, <<"tar", p, default_addend>>, <<"read">>, <<"cmd", "addreg", 0>>,
             <<"poll", "addreg">>, <<"unlock">> >>
  BY <1>0, LockedIs, Zenon
<1>2. s \in Seq(Access)
  BY <1>1, PlainAccess, TarAccess, CmdAccess DEF PlainAccesses, Commands
<1>3. Chained(s)
  BY <1>1 DEF Chained, Follows, Is, Gives, Starts
<1>4. UserSeq(s)
  BY <1>1 DEF UserSeq, UserOps
<1> QED
  BY <1>1, <1>2, <1>3, <1>4

LEMMA GetTimeSeq ==
  ASSUME NEW s, s = Locked(get_systime)
  PROVE  /\ s \in Seq(Access) /\ Chained(s) /\ UserSeq(s)
         /\ s # <<>> /\ s[1][1] = "lock"
<1>0. get_systime = << <<"sec">>, <<"nsec">>, <<"sec2">>, <<"nsec2">> >>
  BY DEF get_systime
<1>1. s = << <<"lock">>, <<"sec">>, <<"nsec">>, <<"sec2">>, <<"nsec2">>, <<"unlock">> >>
  BY <1>0, LockedIs, Zenon
<1>2. s \in Seq(Access)
  BY <1>1, PlainAccess DEF PlainAccesses
<1>3. Chained(s)
  BY <1>1 DEF Chained, Follows, Is, Gives, Starts
<1>4. UserSeq(s)
  BY <1>1 DEF UserSeq, UserOps
<1> QED
  BY <1>1, <1>2, <1>3, <1>4

LEMMA Tuple5 ==
  ASSUME NEW S, NEW a \in S, NEW b \in S, NEW c \in S, NEW d \in S, NEW e \in S
  PROVE  <<a, b, c, d, e>> \in Seq(S)
OBVIOUS
LEMMA Parts5 ==
  ASSUME NEW s, NEW a, NEW b, NEW c, NEW d, NEW e, s = <<a, b, c, d, e>>
  PROVE  Len(s) = 5 /\ s[1] = a /\ s[2] = b /\ s[3] = c /\ s[4] = d /\ s[5] = e
OBVIOUS
LEMMA Tuple12 ==
  ASSUME NEW S, NEW a \in S, NEW b \in S, NEW c \in S, NEW d \in S, NEW e \in S, NEW f \in S,
         NEW g \in S, NEW h \in S, NEW i \in S, NEW j \in S, NEW k \in S, NEW l \in S
  PROVE  <<a, b, c, d, e, f, g, h, i, j, k, l>> \in Seq(S)
OBVIOUS

LEMMA ConfigurationSeq ==
  ASSUME NEW f \in StampFilters, NEW now \in Int, NEW s,
         s = tc956x_ptp_configuration(f, now)
  PROVE  /\ s \in Seq(Access) /\ Chained(s) /\ RtnlSeq(s)
         /\ Len(s) = 12 /\ Is(s, 1, "control") /\ Is(s, 2, "ssinc")
         /\ s[1] = <<"control", f, {}, now>>
         /\ \A k \in 1..10 : ~Starts(s, k)
<1>0. /\ Increment("plat") = << <<"ssinc", "plat">>, <<"defaulttar">>, <<"read">>,
                                 <<"cmd", "addreg", 0>>, <<"poll", "addreg">> >>
      /\ init_systime(now) = << <<"upd", now>>, <<"read">>, <<"cmd", "init", now>>,
                                <<"poll", "init">> >>
  BY IncrementIs, CommandIs, Zenon DEF init_systime
<1>a. << <<"control", f, {}, now>> >> \o
        << <<"ssinc", "plat">>, <<"defaulttar">>, <<"read">>, <<"cmd", "addreg", 0>>,
           <<"poll", "addreg">> >> =
        << <<"control", f, {}, now>>, <<"ssinc", "plat">>, <<"defaulttar">>,
           <<"read">>, <<"cmd", "addreg", 0>>, <<"poll", "addreg">> >>
  BY Join1_5
<1>b. << <<"control", f, {}, now>>, <<"ssinc", "plat">>, <<"defaulttar">>,
         <<"read">>, <<"cmd", "addreg", 0>>, <<"poll", "addreg">> >> \o
        << <<"upd", now>>, <<"read">>, <<"cmd", "init", now>>, <<"poll", "init">> >> =
        << <<"control", f, {}, now>>, <<"ssinc", "plat">>, <<"defaulttar">>,
           <<"read">>, <<"cmd", "addreg", 0>>, <<"poll", "addreg">>,
           <<"upd", now>>, <<"read">>, <<"cmd", "init", now>>, <<"poll", "init">> >>
  BY Join6_4
<1>c. << <<"control", f, {}, now>>, <<"ssinc", "plat">>, <<"defaulttar">>,
         <<"read">>, <<"cmd", "addreg", 0>>, <<"poll", "addreg">>,
         <<"upd", now>>, <<"read">>, <<"cmd", "init", now>>, <<"poll", "init">> >> \o
        << <<"control", f, {"init"}, now>>, <<"flags">> >> =
        << <<"control", f, {}, now>>, <<"ssinc", "plat">>, <<"defaulttar">>,
           <<"read">>, <<"cmd", "addreg", 0>>, <<"poll", "addreg">>,
           <<"upd", now>>, <<"read">>, <<"cmd", "init", now>>, <<"poll", "init">>,
           <<"control", f, {"init"}, now>>, <<"flags">> >>
  BY Join10_2
<1>1. s = << <<"control", f, {}, now>>, <<"ssinc", "plat">>, <<"defaulttar">>,
             <<"read">>, <<"cmd", "addreg", 0>>, <<"poll", "addreg">>,
             <<"upd", now>>, <<"read">>, <<"cmd", "init", now>>, <<"poll", "init">>,
             <<"control", f, {"init"}, now>>, <<"flags">> >>
  BY <1>0, <1>a, <1>b, <1>c, Zenon DEF tc956x_ptp_configuration
<1>d. /\ Len(s) = 12 /\ s[1] = <<"control", f, {}, now>> /\ s[2] = <<"ssinc", "plat">>
      /\ s[3] = <<"defaulttar">> /\ s[4] = <<"read">> /\ s[5] = <<"cmd", "addreg", 0>>
      /\ s[6] = <<"poll", "addreg">> /\ s[7] = <<"upd", now>> /\ s[8] = <<"read">>
      /\ s[9] = <<"cmd", "init", now>> /\ s[10] = <<"poll", "init">>
      /\ s[11] = <<"control", f, {"init"}, now>> /\ s[12] = <<"flags">>
  BY <1>1
<1>2. s \in Seq(Access)
  <2>1. /\ <<"defaulttar">> \in Access /\ <<"read">> \in Access /\ <<"flags">> \in Access
        /\ <<"ssinc", "plat">> \in Access
    BY PlainAccess, SsincAccess DEF PlainAccesses, Bases
  <2>2. /\ <<"cmd", "addreg", 0>> \in Access /\ <<"poll", "addreg">> \in Access
        /\ <<"cmd", "init", now>> \in Access /\ <<"poll", "init">> \in Access
        /\ <<"upd", now>> \in Access
    BY CmdAccess, UpdAccess DEF Commands
  <2>3. <<"control", f, {}, now>> \in Access /\ <<"control", f, {"init"}, now>> \in Access
    BY ControlAccess
  <2> QED
    <3>1. << <<"control", f, {}, now>>, <<"ssinc", "plat">>, <<"defaulttar">>,
             <<"read">>, <<"cmd", "addreg", 0>>, <<"poll", "addreg">>,
             <<"upd", now>>, <<"read">>, <<"cmd", "init", now>>, <<"poll", "init">>,
             <<"control", f, {"init"}, now>>, <<"flags">> >> \in Seq(Access)
      BY <2>1, <2>2, <2>3, Tuple12
    <3> QED
      BY <1>1, <3>1, Zenon
<1>e. /\ Is(s, 1, "control") /\ Is(s, 2, "ssinc") /\ Is(s, 3, "defaulttar")
      /\ Is(s, 4, "read") /\ Gives(s, 5, {"addreg"}) /\ Is(s, 6, "poll") /\ Is(s, 7, "upd")
      /\ Is(s, 8, "read") /\ Gives(s, 9, {"init", "updt"}) /\ Is(s, 10, "poll")
      /\ Starts(s, 11) /\ Is(s, 12, "flags")
  BY <1>d DEF Is, Gives, Starts
<1>3. Chained(s)
  <2> SUFFICES ASSUME NEW i \in 1..12 PROVE Follows(s, i)
    BY <1>d DEF Chained
  <2>1. CASE i \in 1..4
    <3>1. i = 1 \/ i = 2 \/ i = 3 \/ i = 4
      BY <2>1
    <3> QED
      BY <1>d, <3>1 DEF Follows, Is, Gives, Starts
  <2>2. CASE i \in 5..8
    <3>1. i = 5 \/ i = 6 \/ i = 7 \/ i = 8
      BY <2>2
    <3> QED
      BY <1>d, <3>1 DEF Follows, Is, Gives, Starts
  <2>3. CASE i \in 9..12
    <3>1. i = 9 \/ i = 10 \/ i = 11 \/ i = 12
      BY <2>3
    <3> QED
      BY <1>d, <3>1 DEF Follows, Is, Gives, Starts
  <2> QED
    BY <2>1, <2>2, <2>3
<1>4. RtnlSeq(s)
  BY <1>d DEF RtnlSeq, RtnlOps
<1>5. \A k \in 1..10 : ~Starts(s, k)
  BY <1>d DEF Starts, Is
<1> QED
  BY <1>2, <1>3, <1>4, <1>5, <1>d, <1>e

LEMMA ClockConfigSeq ==
  ASSUME NEW r \in Bases, NEW now \in Int, NEW s, s = tc956xmac_ptp_clk_config(r, now)
  PROVE  /\ s \in Seq(Access) /\ Chained(s) /\ RtnlSeq(s)
         /\ Len(s) = 6 /\ Is(s, 1, "ssinc")
         /\ \A k \in 1..6 : ~Starts(s, k) /\ ~Is(s, k, "flags")
<1>1. s = << <<"ssinc", r>>, <<"defaulttar">>, <<"read">>, <<"cmd", "addreg", 0>>,
             <<"poll", "addreg">>, <<"ifoff", now>> >>
  BY IncrementIs, Join5_1, Zenon DEF tc956xmac_ptp_clk_config
<1>2. s \in Seq(Access)
  BY <1>1, PlainAccess, CmdAccess, SsincAccess, IfoffAccess DEF PlainAccesses, Commands
<1>3. Chained(s)
  BY <1>1 DEF Chained, Follows, Is, Gives, Starts
<1>4. RtnlSeq(s)
  BY <1>1 DEF RtnlSeq, RtnlOps
<1> QED
  BY <1>1, <1>2, <1>3, <1>4 DEF Is, Starts

LEMMA StartTuple ==
  ASSUME NEW f \in StampFilters, NEW now \in Int, NEW s,
         s = << <<"upd", now>>, <<"read">>, <<"cmd", "init", now>>, <<"poll", "init">>,
                <<"control", f, {"init"}, now>> >>
  PROVE  /\ s \in Seq(Access) /\ Chained(s) /\ RtnlSeq(s)
         /\ Len(s) = 5 /\ Is(s, 1, "upd")
         /\ \A k \in 1..4 : ~Starts(s, k)
         /\ \A k \in 1..5 : ~Is(s, k, "flags")
<1>d. /\ Len(s) = 5 /\ s[1] = <<"upd", now>> /\ s[2] = <<"read">>
      /\ s[3] = <<"cmd", "init", now>> /\ s[4] = <<"poll", "init">>
      /\ s[5] = <<"control", f, {"init"}, now>>
  BY Parts5
<1>2. s \in Seq(Access)
  <2>1. <<"read">> \in Access /\ <<"upd", now>> \in Access
    BY PlainAccess, UpdAccess DEF PlainAccesses
  <2>2. <<"cmd", "init", now>> \in Access /\ <<"poll", "init">> \in Access
    BY CmdAccess DEF Commands
  <2>3. <<"control", f, {"init"}, now>> \in Access
    BY ControlAccess
  <2> QED
    BY <2>1, <2>2, <2>3, Tuple5, Zenon
<1>3. Chained(s)
  <2> SUFFICES ASSUME NEW i \in 1..5 PROVE Follows(s, i)
    BY <1>d DEF Chained
  <2>1. i = 1 \/ i = 2 \/ i = 3 \/ i = 4 \/ i = 5
    OBVIOUS
  <2> QED
    BY <1>d, <2>1 DEF Follows, Is, Gives, Starts
<1>4. RtnlSeq(s)
  BY <1>d DEF RtnlSeq, RtnlOps
<1>5. /\ Is(s, 1, "upd") /\ \A k \in 1..4 : ~Starts(s, k)
      /\ \A k \in 1..5 : ~Is(s, k, "flags")
  BY <1>d DEF Is, Starts
<1> QED
  BY <1>2, <1>3, <1>4, <1>5, <1>d

LEMMA StartSeq ==
  ASSUME NEW f \in StampFilters, NEW now \in Int, NEW s,
         s = init_systime(now) \o << <<"control", f, {"init"}, now>> >>
  PROVE  /\ s \in Seq(Access) /\ Chained(s) /\ RtnlSeq(s)
         /\ Len(s) = 5 /\ Is(s, 1, "upd")
         /\ \A k \in 1..4 : ~Starts(s, k)
         /\ \A k \in 1..5 : ~Is(s, k, "flags")
<1>0. init_systime(now) = << <<"upd", now>>, <<"read">>, <<"cmd", "init", now>>,
                               <<"poll", "init">> >>
  BY CommandIs, Zenon DEF init_systime
<1>1. s = << <<"upd", now>>, <<"read">>, <<"cmd", "init", now>>, <<"poll", "init">>,
             <<"control", f, {"init"}, now>> >>
  BY <1>0, Join4_1, Zenon
<1> QED
  BY <1>1, StartTuple, Zenon

(***************************************************************************)
(* What the invariant says, and the beginning                              *)
(***************************************************************************)
LEMMA PtpInvImplies == PtpInv => PtpTypeOK /\ ClockKept /\ TimeRead
<1> SUFFICES ASSUME PtpInv PROVE PtpTypeOK /\ ClockKept /\ TimeRead
  OBVIOUS
<1> USE DEF PtpInv
<1>1. PtpTypeOK
  <2>1. ptp_lock \in Users \cup {"free"}
    BY DEF AloneInv
  <2> QED
    BY <2>1 DEF PtpTypes, PtpTypeOK, Tcrs, Addends, StampFilters, Commands, Bases, Ppbs0
<1>2. ClockKept
  <2> SUFFICES ASSUME Quiet PROVE TimeKept /\ RateKept /\ FlagsBacked
    BY DEF ClockKept
  <2> DEFINE s == todo["rtnl"]
  <2>1. s = <<>>
    BY DEF Quiet, NoCall
  <2>2. \A k, op : ~Is(s, k, op)
    BY <2>1 DEF Is
  <2>3. TimeKept
    BY DEF TimeInv, TimeKept, Pending
  <2>4. \A op : ~Still(s, op) /\ ~StillAdds(s)
    BY <2>2 DEF Still, StillAdds, Gives
  <2>5. "addreg" \notin tcr.cmd
    BY DEF CommandInv
  <2>6. RateKept
    BY <2>4, <2>5, Zenon DEF RateInv, RateKept
  <2>7. FlagsBacked
    BY <2>2, Zenon DEF FlagInv
  <2> QED
    BY <2>3, <2>6, <2>7
<1>3. TimeRead
  <2> SUFFICES ASSUME NEW u \in Users, NoCall(u)
               PROVE  /\ ReadsTrue(u)
                      /\ \A tr \in Traverse : LET ns == seen[u].got IN
                           \A d \in -(ns % Turn)..(Turn \div 2 - 1) :
                             d >= -(Turn \div 2) => LaunchKnown(ns, d, tr)
    BY DEF TimeRead
  <2>1. ~Reading(todo[u])
    BY DEF NoCall, Reading, Is
  <2>2. ReadsTrue(u)
    BY <2>1 DEF ReadInv, ReadSo, ReadsTrue
  <2>3. seen[u].got \in Int
    BY DEF PtpTypes, Readings
  <2> QED
    BY <2>2, <2>3, LaunchIs
<1> QED
  BY <1>1, <1>2, <1>3

\* The control word, addend and reading at rest.
LEMMA OffTypes == TcrOff \in Tcrs /\ NoAddend \in Addends /\ Unseen \in Readings
<1>1. "none" \in StampFilters /\ FALSE \in BOOLEAN /\ {} \in SUBSET Commands
  BY PtpAssumption DEF StampFilters
<1>2. TcrOff \in Tcrs
  BY <1>1 DEF TcrOff, Tcrs
<1>3. NoAddend \in Addends
  BY DEF NoAddend, Addends, Bases, Ppbs0
<1>4. Unseen \in Readings
  BY DEF Unseen, Readings
<1> QED
  BY <1>2, <1>3, <1>4

LEMMA PtpStart == PtpInit => PtpInv
<1> SUFFICES ASSUME PtpInit PROVE PtpInv
  OBVIOUS
<1>1. \A p \in Procs : todo[p] = <<>>
  BY DEF PtpInit
<1>2. \A p \in Procs : \A i, op : ~Is(todo[p], i, op)
  BY <1>1 DEF Is
<1>3. PtpTypes
  <2>1. TcrOff \in Tcrs /\ NoAddend \in Addends /\ Unseen \in Readings
    BY OffTypes
  <2>2. tcr \in Tcrs /\ value \in [Procs -> Tcrs] /\ seen \in [Users -> Readings]
    BY <2>1 DEF PtpInit
  <2>3. /\ tar \in Addends /\ addend \in Addends /\ ssinc \in Bases
        /\ default_addend \in Bases /\ upd \in Int /\ time \in Int /\ asked \in Int
    BY <2>1 DEF PtpInit, Bases
  <2>4. hwts_tx_en \in BOOLEAN /\ hwts_rx_en \in BOOLEAN /\ ptp_up \in BOOLEAN
    BY Zenon DEF PtpInit
  <2>5. tstamp_config \in {<<>>} \cup (BOOLEAN \X RxFilters)
    BY DEF PtpInit
  <2> QED
    BY <2>2, <2>3, <2>4, <2>5, Zenon DEF PtpTypes
<1>4. TodoInv
  BY <1>1 DEF PtpInit, TodoInv, Chained, UserSeq, RtnlSeq, Procs
<1>5. AloneInv
  BY <1>1, PtpAssumption DEF PtpInit, AloneInv, Busy, Procs
<1>6. CommandInv
  BY <1>2 DEF PtpInit, CommandInv, TcrOff
<1>7. OperandInv
  BY <1>2 DEF OperandInv, Operand, Gives, Starts
<1>8. TimeInv
  BY DEF PtpInit, TimeInv, TcrOff
<1>9. RateInv
  BY DEF PtpInit, RateInv, NoAddend
<1>10. FlagInv
  BY DEF PtpInit, FlagInv, FlagsBacked, Still, Procs
<1>11. ReadInv
  <2>1. \A u \in Users : u \in Procs /\ seen[u] = Unseen
    BY DEF PtpInit, Procs
  <2>2. Unseen.got \in Unseen.from..Unseen.to
    BY DEF Unseen
  <2>3. ASSUME NEW u \in Users PROVE ReadSo(todo[u], seen[u], time)
    <3>1. \A o : ~Is(todo[u], 1, o)
      BY <1>2, <2>1, Zenon
    <3>2. ~Reading(todo[u])
      BY <3>1, Zenon DEF Reading
    <3> QED
      BY <2>1, <2>2, <3>1, <3>2, Zenon DEF ReadSo
  <2> QED
    BY <2>3, Zenon DEF ReadInv
<1> QED
  BY <1>3, <1>4, <1>5, <1>6, <1>7, <1>8, <1>9, <1>10, <1>11 DEF PtpInv

(***************************************************************************)
(* One access                                                              *)
(***************************************************************************)
LEMMA Who == /\ \A u \in Users : u \in Procs /\ u # "rtnl" /\ u # "free"
             /\ "rtnl" \in Procs /\ Procs \ {"rtnl"} = Users
BY PtpAssumption DEF Procs

\* There is one busy caller at a time, and what it does is at the head of its
\* sequence.
LEMMA OneBusy ==
  ASSUME PtpInv, NEW p \in Procs, Busy(p)
  PROVE  /\ \A q \in Procs \ {p} : ~Busy(q)
         /\ p \in Users => ptp_lock = p /\ todo["rtnl"] = <<>>
         /\ p = "rtnl" => \A u \in Users : todo[u] = <<>>
<1>1. Alone => \A u \in Users : todo[u] = <<>>
  BY DEF Alone, NoCall
<1>2. p \in Users => todo["rtnl"] = <<>>
  BY <1>1 DEF PtpInv, AloneInv, Busy
<1>3. p = "rtnl" => \A u \in Users : todo[u] = <<>>
  BY <1>1 DEF PtpInv, AloneInv, Busy
<1> QED
  BY <1>2, <1>3, Who DEF PtpInv, AloneInv, Busy

LEMMA AtIs ==
  ASSUME TodoInv, NEW p \in Procs, NEW op, At(p, op)
  PROVE  /\ todo[p] \in Seq(Access) /\ todo[p] # <<>> /\ Chained(todo[p])
         /\ todo[p][1] \in Access /\ Is(todo[p], 1, op)
         /\ Follows(todo[p], 1) /\ Len(todo[p]) \in Nat /\ Len(todo[p]) > 0
         /\ \A k : Arg(p, k) = todo[p][1][k]
         /\ op # "lock" => Busy(p)
<1>1. todo[p] \in Seq(Access) /\ todo[p] # <<>> /\ Chained(todo[p]) /\ todo[p][1][1] = op
  BY DEF TodoInv, At, NoCall
<1>2. 1 \in 1..Len(todo[p]) /\ todo[p][1] \in Access /\ Len(todo[p]) \in Nat /\ Len(todo[p]) > 0
  BY <1>1, TailOf
<1> QED
  BY <1>1, <1>2 DEF Is, Chained, Busy, Arg

\* Whoever makes an access, or takes the lock, is the only one busy.
LEMMA Sole ==
  ASSUME PtpInv, NEW p \in Procs, NEW op, At(p, op), op # "lock" \/ ptp_lock = "free"
  PROVE  /\ \A q \in Procs \ {p} : ~Busy(q)
         /\ p \in Users => todo["rtnl"] = <<>>
         /\ p = "rtnl" => (op # "lock" /\ \A u \in Users : todo[u] = <<>>)
<1>1. Is(todo[p], 1, op) /\ todo[p] # <<>>
  BY AtIs DEF PtpInv
<1>2. p = "rtnl" => op # "lock"
  BY <1>1 DEF PtpInv, TodoInv, RtnlSeq, RtnlOps, Is
<1>3. CASE op # "lock"
  BY <1>2, <1>3, AtIs, OneBusy DEF PtpInv
<1>4. CASE op = "lock" /\ ptp_lock = "free"
  <2>1. p \in Users
    BY <1>2, <1>4, Who
  <2>2. todo["rtnl"] = <<>>
    BY <1>1, <2>1 DEF PtpInv, AloneInv, Alone, NoCall
  <2>3. \A u \in Users : ~Busy(u)
    BY <1>4, Who DEF PtpInv, AloneInv
  <2> QED
    BY <1>2, <1>4, <2>1, <2>2, <2>3, Who DEF Busy
<1> QED
  BY <1>3, <1>4

\* The facts about a step of p that takes an access off its sequence.
LEMMA Move ==
  ASSUME PtpInv, NEW p \in Procs, NEW op, At(p, op), op # "lock" \/ ptp_lock = "free",
         todo' = [todo EXCEPT ![p] = Tail(@)]
  PROVE  /\ todo' \in [Procs -> Seq(Access)] /\ todo'[p] = Tail(todo[p])
         /\ Chained(todo'[p])
         /\ \A q \in Procs \ {p} : todo'[q] = todo[q] /\ ~Busy(q)
         /\ \A q \in Procs \ {p} : \A o : o # "lock" => ~Is(todo'[q], 1, o) /\ ~Is(todo[q], 1, o)
         /\ \A i \in Nat \ {0} : \A o : /\ Is(todo'[p], i, o) <=> Is(todo[p], i + 1, o)
                                        /\ Gives(todo'[p], i, o) <=> Gives(todo[p], i + 1, o)
                                        /\ Starts(todo'[p], i) <=> Starts(todo[p], i + 1)
         /\ \A i \in 1..Len(todo[p]) - 1 : todo'[p][i] = todo[p][i + 1]
         /\ Len(todo'[p]) = Len(todo[p]) - 1
         /\ ~Quiet
<1>1. todo[p] \in Seq(Access) /\ todo[p] # <<>> /\ Chained(todo[p])
  BY AtIs DEF PtpInv
<1>2. todo \in [Procs -> Seq(Access)]
  BY DEF PtpInv, TodoInv
<1>3. /\ todo' \in [Procs -> Seq(Access)] /\ todo'[p] = Tail(todo[p])
      /\ \A q \in Procs \ {p} : todo'[q] = todo[q]
  BY <1>1, <1>2, TailOf
<1>4. \A q \in Procs \ {p} : ~Busy(q)
  BY Sole
<1>5. ASSUME NEW q \in Procs \ {p}, NEW o, o # "lock"
      PROVE  ~Is(todo'[q], 1, o) /\ ~Is(todo[q], 1, o)
  <2>1. Is(todo[q], 1, o) => todo[q] # <<>> /\ ~Is(todo[q], 1, "lock")
    BY <1>5 DEF Is
  <2> QED
    BY <1>3, <1>4, <2>1 DEF Busy
<1>6. ASSUME NEW i \in Nat \ {0}, NEW o
      PROVE  /\ Is(todo'[p], i, o) <=> Is(todo[p], i + 1, o)
             /\ Gives(todo'[p], i, o) <=> Gives(todo[p], i + 1, o)
             /\ Starts(todo'[p], i) <=> Starts(todo[p], i + 1)
  <2>1. i \in Nat /\ i > 0
    OBVIOUS
  <2> QED
    BY <1>1, <1>3, <2>1, TailIs, Zenon
<1>7. ~Quiet
  BY <1>1, Who DEF Quiet, Alone, NoCall, Procs
<1>8. Chained(todo'[p])
  BY <1>1, <1>3, TailChained
<1>9. /\ \A i \in 1..Len(todo[p]) - 1 : todo'[p][i] = todo[p][i + 1]
      /\ Len(todo'[p]) = Len(todo[p]) - 1
  BY <1>1, <1>3, TailOf
<1> QED
  BY <1>3, <1>4, <1>5, <1>6, <1>7, <1>8, <1>9, Zenon
\* What comes next.
LEMMA MoveHead ==
  ASSUME PtpInv, NEW p \in Procs, NEW op, At(p, op), op # "lock" \/ ptp_lock = "free",
         todo' = [todo EXCEPT ![p] = Tail(@)], NEW o
  PROVE  Is(todo'[p], 1, o) <=> Is(todo[p], 2, o)
<1>1. 1 \in Nat \ {0} /\ 1 + 1 = 2
  OBVIOUS
<1>2. Is(todo'[p], 1, o) <=> Is(todo[p], 1 + 1, o)
  BY <1>1, Move, Zenon
<1> QED
  BY <1>1, <1>2

LEMMA MoveTodo ==
  ASSUME PtpInv, NEW p \in Procs, NEW op, At(p, op), op # "lock" \/ ptp_lock = "free",
         todo' = [todo EXCEPT ![p] = Tail(@)],
         default_addend' = default_addend \/ p = "rtnl"
  PROVE  TodoInv'
<1> DEFINE s == todo[p]
<1>1. /\ todo' \in [Procs -> Seq(Access)] /\ Chained(todo'[p])
      /\ \A q \in Procs \ {p} : todo'[q] = todo[q]
      /\ \A i \in 1..Len(s) - 1 : todo'[p][i] = s[i + 1]
      /\ Len(todo'[p]) = Len(s) - 1 /\ Len(s) \in Nat
  BY Move, AtIs DEF PtpInv
<1>2. \A q \in Procs : Chained(todo'[q])
  BY <1>1 DEF PtpInv, TodoInv
<1>3. ASSUME NEW u \in Users PROVE UserSeq(todo[u])'
  <2>1. CASE u = p
    <3>1. default_addend' = default_addend
      BY <2>1, Who
    <3>2. UserSeq(s)
      BY <2>1 DEF PtpInv, TodoInv
    <3>3. ASSUME NEW i \in 1..Len(todo'[p])
          PROVE  /\ todo'[p][i][1] \in UserOps
                 /\ todo'[p][i][1] = "unlock" <=> i = Len(todo'[p])
                 /\ todo'[p][i][1] = "tar" => todo'[p][i][3] = default_addend
      <4>1. /\ i \in 1..Len(s) - 1 /\ i + 1 \in 1..Len(s)
            /\ i + 1 = Len(s) <=> i = Len(todo'[p])
        BY <1>1
      <4>2. todo'[p][i] = s[i + 1]
        BY <1>1, <4>1
      <4> HIDE DEF s
      <4> QED
        BY <3>2, <4>1, <4>2 DEF UserSeq
    <3> QED
      BY <2>1, <3>1, <3>3 DEF UserSeq
  <2>2. CASE u # p /\ p = "rtnl"
    <3>1. todo[u] = <<>>
      BY <2>2, Sole
    <3> QED
      BY <1>1, <2>2, <3>1, Who DEF UserSeq
  <2>3. CASE u # p /\ p # "rtnl"
    <3>1. default_addend' = default_addend /\ todo'[u] = todo[u] /\ UserSeq(todo[u])
      BY <1>1, <2>3, Who DEF PtpInv, TodoInv
    <3> QED
      BY <3>1 DEF UserSeq
  <2> QED
    BY <2>1, <2>2, <2>3
<1>4. RtnlSeq(todo'["rtnl"])
  <2>1. RtnlSeq(todo["rtnl"])
    BY DEF PtpInv, TodoInv
  <2>2. CASE p = "rtnl"
    BY <1>1, <2>1, <2>2 DEF RtnlSeq
  <2>3. CASE p # "rtnl"
    BY <1>1, <2>1, <2>3, Who
  <2> QED
    BY <2>2, <2>3
<1> QED
  BY <1>1, <1>2, <1>3, <1>4 DEF TodoInv

LEMMA MoveAlone ==
  ASSUME PtpInv, NEW p \in Procs, NEW op, At(p, op), op # "lock" \/ ptp_lock = "free", op # "unlock",
         todo' = [todo EXCEPT ![p] = Tail(@)],
         ptp_lock' = IF op = "lock" THEN p ELSE ptp_lock
  PROVE  AloneInv'
<1> DEFINE s == todo[p]
<1>0. /\ s \in Seq(Access) /\ s # <<>> /\ Len(s) \in Nat /\ Len(s) > 0
      /\ Chained(s) /\ Is(s, 1, op)
  BY AtIs DEF PtpInv
<1>1. /\ todo' \in [Procs -> Seq(Access)] /\ todo'[p] = Tail(s)
      /\ \A q \in Procs \ {p} : todo'[q] = todo[q]
  BY Move
<1>2. ~Is(todo'[p], 1, "lock")
  <2>0. Is(todo'[p], 1, "lock") <=> Is(s, 2, "lock")
    BY MoveHead
  <2>1. Is(s, 2, "lock") => Follows(s, 2)
    BY <1>0 DEF Is, Chained
  <2> QED
    BY <2>0, <2>1 DEF Follows
<1>3. \A q \in Procs \ {p} : Busy(q)' <=> Busy(q)
  BY <1>1 DEF Busy
<1>4. CASE p \in Users
  <2>1. ptp_lock' = p /\ todo["rtnl"] = <<>>
    BY <1>4, Sole, AtIs DEF PtpInv, AloneInv
  <2>2. todo'[p] # <<>>
    <3>1. s[1][1] = op /\ (s[1][1] = "unlock" <=> 1 = Len(s))
      BY <1>0, <1>4 DEF PtpInv, TodoInv, UserSeq, Is
    <3> QED
      BY <1>0, <1>1, <3>1, TailOf
  <2>3. Busy(p)' /\ todo'["rtnl"] = <<>>
    BY <1>1, <1>2, <1>4, <2>1, <2>2, Who DEF Busy
  <2>4. \A q \in Procs \ {p} : ~Busy(q)'
    BY <1>3, Sole
  <2> QED
    BY <1>4, <2>1, <2>3, <2>4, Who DEF AloneInv
<1>5. CASE p = "rtnl"
  <2>1. \A u \in Users : todo[u] = <<>> /\ todo'[u] = todo[u]
    BY <1>1, <1>5, Sole, Who
  <2>2. ptp_lock' = ptp_lock
    BY <1>5, Sole
  <2> QED
    BY <1>3, <1>5, <2>1, <2>2, Who DEF PtpInv, AloneInv, Alone, NoCall
<1> QED
  BY <1>4, <1>5, Who

\* No command is pending but one that is waited for.
LEMMA NoCommand ==
  ASSUME PtpInv, NEW p \in Procs, NEW op, At(p, op), op # "lock" \/ ptp_lock = "free"
  PROVE  /\ op \notin {"poll", "flags"} => tcr.cmd = {}
         /\ op = "poll" => tcr.cmd \subseteq {todo[p][1][2]}
         /\ op = "flags" => tcr.cmd \subseteq {"init"}
<1>1. Is(todo[p], 1, op) /\ ~Quiet
  <2>1. todo[p] # <<>> /\ Is(todo[p], 1, op)
    BY AtIs DEF PtpInv
  <2> QED
    BY <2>1, Who DEF Quiet, Alone, NoCall
<1>2. ASSUME NEW c \in tcr.cmd PROVE Waits(todo[p], c)
  <2>1. PICK q \in Procs : Waits(todo[q], c)
    BY <1>1 DEF PtpInv, CommandInv
  <2>2. Busy(q)
    BY <2>1 DEF Waits, Busy, Is
  <2> QED
    BY <2>1, <2>2, Sole
<1>3. \A c \in tcr.cmd : /\ op \in {"poll", "flags"}
                         /\ op = "poll" => c = todo[p][1][2]
                         /\ op = "flags" => c = "init"
  BY <1>1, <1>2 DEF Waits, Is
<1> QED
  BY <1>3

\* What stays true when an access does not concern it.
LEMMA KeepsCommand ==
  ASSUME PtpInv, NEW p \in Procs, NEW op, At(p, op), op # "lock" \/ ptp_lock = "free",
         todo' = [todo EXCEPT ![p] = Tail(@)], tcr'.cmd = {},
         op = "read" => value'[p] = tcr'
  PROVE  CommandInv'
<1>1. ASSUME NEW q \in Procs, Is(todo'[q], 1, "cmd") PROVE value'[q] = tcr'
  <2>1. q = p
    BY <1>1, Move
  <2>2. Is(todo[p], 2, "cmd")
    BY <1>1, <2>1, MoveHead
  <2>3. Follows(todo[p], 2)
    BY <2>2, AtIs DEF PtpInv, Chained, Is
  <2>4. Is(todo[p], 1, "read") /\ Is(todo[p], 1, op)
    BY <2>2, <2>3, AtIs DEF Follows, PtpInv
  <2> QED
    BY <2>1, <2>4 DEF Is
<1> QED
  BY <1>1 DEF CommandInv

LEMMA KeepsOperand ==
  ASSUME PtpInv, NEW p \in Procs, NEW op, At(p, op), op # "lock" \/ ptp_lock = "free", op # "upd",
         todo' = [todo EXCEPT ![p] = Tail(@)], upd' = upd
  PROVE  OperandInv'
<1> DEFINE s == todo[p]
           r == todo'[p]
<1>1. Is(s, 1, op) /\ Operand(s, upd) /\ Chained(s) /\ Len(s) \in Nat /\ Len(s) > 0
  BY AtIs DEF PtpInv, OperandInv
<1>2. /\ \A i \in Nat \ {0} : \A o : /\ Is(r, i, o) <=> Is(s, i + 1, o)
                                     /\ Gives(r, i, o) <=> Gives(s, i + 1, o)
                                     /\ Starts(r, i) <=> Starts(s, i + 1)
      /\ \A i \in 1..Len(s) - 1 : r[i] = s[i + 1]
      /\ Len(r) = Len(s) - 1
      /\ \A q \in Procs \ {p} : todo'[q] = todo[q]
  BY Move
<1> HIDE DEF r
<1>3. ~Is(s, 1, "upd")
  BY <1>1 DEF Is
<1>4. ~(Is(r, 1, "read") /\ Gives(r, 2, {"init", "updt"}))
  <2>1. Gives(r, 2, {"init", "updt"}) <=> Gives(s, 3, {"init", "updt"})
    <3>1. Gives(r, 2, {"init", "updt"}) <=> Gives(s, 2 + 1, {"init", "updt"})
      BY <1>2
    <3> QED
      BY <3>1
  <2>2. Gives(s, 3, {"init", "updt"}) => Follows(s, 3)
    BY <1>1 DEF Gives, Is, Chained
  <2>3. Follows(s, 3) /\ Gives(s, 3, {"init", "updt"}) => Is(s, 1, "upd")
    BY DEF Follows
  <2> QED
    BY <1>3, <2>1, <2>2, <2>3
<1>5. Gives(r, 1, {"init", "updt"}) => r[1][3] = upd
  <2> SUFFICES ASSUME Gives(r, 1, {"init", "updt"}) PROVE r[1][3] = upd
    OBVIOUS
  <2>1. Gives(s, 2, {"init", "updt"})
    <3>1. Gives(s, 1 + 1, {"init", "updt"})
      BY <1>2
    <3> QED
      BY <3>1
  <2>2. Is(s, 2, "cmd") /\ 2 \in 1..Len(s)
    BY <2>1 DEF Gives, Is
  <2>3. Is(s, 1, "read")
    <3>1. Follows(s, 2)
      BY <1>1, <2>2 DEF Chained
    <3> QED
      BY <2>2, <3>1 DEF Follows
  <2>4. r[1] = s[2]
    BY <1>1, <1>2, <2>2
  <2> QED
    BY <1>1, <2>1, <2>3, <2>4 DEF Operand
<1>6. ASSUME NEW k \in 1..4, Starts(r, k) PROVE r[k][4] = upd
  <2>1. Starts(s, k + 1)
    <3>1. k \in Nat \ {0}
      OBVIOUS
    <3> QED
      BY <1>2, <1>6, <3>1, Zenon
  <2>2. k + 1 \in 1..Len(s) /\ r[k] = s[k + 1]
    BY <1>1, <1>2, <2>1 DEF Starts, Is
  <2>3. CASE k = 4
    <3>1. Follows(s, 5) /\ Starts(s, 5)
      BY <1>1, <2>1, <2>2, <2>3 DEF Chained
    <3> QED
      BY <1>3, <3>1 DEF Follows
  <2>4. CASE k \in 1..3
    <3>1. k + 1 \in 1..4
      BY <2>4
    <3> QED
      BY <1>1, <2>1, <2>2, <3>1 DEF Operand
  <2> QED
    BY <2>3, <2>4
<1>7. Operand(r, upd')
  BY <1>4, <1>5, <1>6 DEF Operand
<1>8. \A q \in Procs \ {p} : Operand(todo'[q], upd')
  BY <1>2 DEF PtpInv, OperandInv
<1> QED
  BY <1>7, <1>8 DEF OperandInv, r
LEMMA StillTail ==
  ASSUME NEW s \in Seq(Access), s # <<>>, NEW op
  PROVE  /\ Still(s, op) => Still(Tail(s), op) \/ Is(s, 1, op)
         /\ Still(Tail(s), op) => Still(s, op)
         /\ StillAdds(s) => StillAdds(Tail(s)) \/ Gives(s, 1, {"addreg"})
         /\ StillAdds(Tail(s)) => StillAdds(s)
<1> DEFINE r == Tail(s)
<1>1. Len(s) \in Nat /\ Len(s) > 0 /\ Len(r) = Len(s) - 1
  BY TailOf
<1>2. \A i \in Nat \ {0} : \A o : /\ Is(r, i, o) <=> Is(s, i + 1, o)
                                  /\ Gives(r, i, o) <=> Gives(s, i + 1, o)
  <2>1. \A i \in Nat \ {0} : i \in Nat /\ i > 0
    OBVIOUS
  <2> QED
    BY <2>1, TailIs, Zenon
<1> HIDE DEF r
<1>3. \A i \in 1..Len(s) : i = 1 \/ (i - 1 \in 1..Len(r) /\ (i - 1) + 1 = i /\ i - 1 \in Nat \ {0})
  BY <1>1
<1>4. \A i \in 1..Len(r) : i + 1 \in 1..Len(s) /\ i \in Nat \ {0}
  BY <1>1
<1>5. Still(s, op) => Still(r, op) \/ Is(s, 1, op)
  <2> SUFFICES ASSUME NEW i \in 1..Len(s), Is(s, i, op), i # 1 PROVE Still(r, op)
    BY DEF Still
  <2>1. Is(r, i - 1, op)
    BY <1>2, <1>3
  <2> QED
    BY <1>3, <2>1 DEF Still
<1>6. Still(r, op) => Still(s, op)
  BY <1>2, <1>4 DEF Still
<1>7. StillAdds(s) => StillAdds(r) \/ Gives(s, 1, {"addreg"})
  <2> SUFFICES ASSUME NEW i \in 1..Len(s), Gives(s, i, {"addreg"}), i # 1 PROVE StillAdds(r)
    BY DEF StillAdds
  <2>1. Gives(r, i - 1, {"addreg"})
    BY <1>2, <1>3
  <2> QED
    BY <1>3, <2>1 DEF StillAdds
<1>8. StillAdds(r) => StillAdds(s)
  BY <1>2, <1>4 DEF StillAdds
<1> QED
  BY <1>5, <1>6, <1>7, <1>8 DEF r

LEMMA KeepsRate ==
  ASSUME PtpInv, NEW p \in Procs, NEW op, At(p, op), op # "lock" \/ ptp_lock = "free",
         op \notin {"ssinc", "defaulttar"},
         todo' = [todo EXCEPT ![p] = Tail(@)],
         ssinc' = ssinc, default_addend' = default_addend,
         tar'.base = tar.base \/ tar'.base = default_addend, addend' = addend,
         "addreg" \in tcr.cmd \/ Gives(todo[p], 1, {"addreg"}) => "addreg" \in tcr'.cmd
  PROVE  RateInv'
<1> DEFINE s == todo["rtnl"]
           r == todo'["rtnl"]
<1>1. todo[p] \in Seq(Access) /\ todo[p] # <<>> /\ Is(todo[p], 1, op)
  BY AtIs DEF PtpInv
<1>2. todo'[p] = Tail(todo[p]) /\ (p # "rtnl" => r = s)
  BY Move, Who
<1>3. /\ Still(s, "ssinc") => Still(r, "ssinc")
      /\ Still(s, "defaulttar") => Still(r, "defaulttar")
      /\ StillAdds(s) => StillAdds(r) \/ "addreg" \in tcr'.cmd
  <2>1. CASE p # "rtnl"
    BY <1>2, <2>1
  <2>2. CASE p = "rtnl"
    <3>1. ~Is(s, 1, "ssinc") /\ ~Is(s, 1, "defaulttar")
      BY <1>1, <2>2 DEF Is
    <3> QED
      BY <1>1, <1>2, <2>2, <3>1, StillTail
  <2> QED
    BY <2>1, <2>2
<1>4. /\ Still(s, "ssinc") \/ ssinc = default_addend
      /\ Still(s, "ssinc") \/ Still(s, "defaulttar") \/ tar.base = ssinc
      /\ \/ Still(s, "ssinc") \/ Still(s, "defaulttar") \/ StillAdds(s)
         \/ "addreg" \in tcr.cmd \/ addend.base = ssinc
  BY DEF PtpInv, RateInv
<1> QED
  BY <1>3, <1>4 DEF RateInv

LEMMA KeepsFlag ==
  ASSUME PtpInv, NEW p \in Procs, NEW op, At(p, op), op # "lock" \/ ptp_lock = "free",
         op \notin {"control"},
         todo' = [todo EXCEPT ![p] = Tail(@)],
         hwts_tx_en' = hwts_tx_en, hwts_rx_en' = hwts_rx_en, ptp_up' = ptp_up,
         tcr'.ena = tcr.ena
  PROVE  FlagInv'
<1> DEFINE s == todo["rtnl"]
           r == todo'["rtnl"]
<1>1. todo[p] \in Seq(Access) /\ todo[p] # <<>> /\ Is(todo[p], 1, op)
  BY AtIs DEF PtpInv
<1>2. todo'[p] = Tail(todo[p]) /\ (p # "rtnl" => r = s)
  BY Move, Who
<1>3. ~Is(s, 1, "control")
  <2>1. CASE p = "rtnl"
    BY <1>1, <2>1 DEF Is
  <2>2. CASE p # "rtnl"
    BY <2>2, Move, Who
  <2> QED
    BY <2>1, <2>2
<1>4. Still(r, "flags") => Still(s, "flags")
  BY <1>1, <1>2, StillTail
<1>5. FlagsBacked' <=> FlagsBacked
  BY DEF FlagsBacked
<1> QED
  BY <1>3, <1>4, <1>5 DEF PtpInv, FlagInv

LEMMA KeepsRead ==
  ASSUME PtpInv, NEW p \in Procs, NEW op, At(p, op), op # "lock" \/ ptp_lock = "free",
         op \notin {"sec", "nsec", "sec2", "nsec2"},
         todo' = [todo EXCEPT ![p] = Tail(@)], seen' = seen, time' = time
  PROVE  ReadInv'
<1> SUFFICES ASSUME NEW u \in Users PROVE ReadSo(todo'[u], seen[u], time)
  BY DEF ReadInv
<1>1. ReadSo(todo[u], seen[u], time)
  BY DEF PtpInv, ReadInv
<1>2. CASE u # p
  BY <1>1, <1>2, Move, Who
<1>3. CASE u = p
  <2>1. Is(todo[p], 1, op) /\ Chained(todo[p])
    BY AtIs DEF PtpInv
  <2>2. ~Reading(todo[p])
    BY <2>1 DEF Reading, Is
  <2>3. ASSUME NEW o, Is(todo'[p], 1, o) PROVE Is(todo[p], 2, o) /\ Follows(todo[p], 2)
    <3>1. Is(todo[p], 2, o)
      BY <2>3, MoveHead
    <3> QED
      BY <2>1, <3>1 DEF Chained, Is
  <2>4. ~Is(todo'[p], 1, "nsec") /\ ~Is(todo'[p], 1, "sec2") /\ ~Is(todo'[p], 1, "nsec2")
    <3>1. ~Is(todo[p], 1, "sec") /\ ~Is(todo[p], 1, "nsec") /\ ~Is(todo[p], 1, "sec2")
      BY <2>1 DEF Is
    <3>2. ~Is(todo'[p], 1, "nsec")
      BY <2>3, <3>1 DEF Follows
    <3>3. ~Is(todo'[p], 1, "sec2")
      BY <2>3, <3>1 DEF Follows
    <3>4. ~Is(todo'[p], 1, "nsec2")
      BY <2>3, <3>1 DEF Follows
    <3> QED
      BY <3>2, <3>3, <3>4
  <2> QED
    BY <1>1, <1>3, <2>2, <2>4 DEF ReadSo, Reading
<1> QED
  BY <1>2, <1>3

(***************************************************************************)
(* Every access keeps the invariant                                        *)
(***************************************************************************)
LEMMA ReadControlStep ==
  ASSUME PtpInv, NEW p \in Procs, ReadControl(p)
  PROVE  PtpInv'
<1>1. /\ At(p, "read") /\ todo' = [todo EXCEPT ![p] = Tail(@)]
      /\ value' = [value EXCEPT ![p] = tcr]
      /\ tcr' = tcr /\ upd' = upd /\ tar' = tar /\ addend' = addend /\ ssinc' = ssinc
      /\ time' = time /\ default_addend' = default_addend /\ hwts_tx_en' = hwts_tx_en
      /\ hwts_rx_en' = hwts_rx_en /\ tstamp_config' = tstamp_config /\ ptp_up' = ptp_up
      /\ ptp_lock' = ptp_lock /\ seen' = seen /\ asked' = asked
  BY DEF ReadControl, Goes, clockVars, softVars
<1>2. tcr.cmd = {} /\ ~Gives(todo[p], 1, {"addreg"})
  BY <1>1, NoCommand, AtIs DEF Gives, Is, PtpInv
<1>3. PtpTypes' /\ value'[p] = tcr'
  BY <1>1 DEF PtpInv, PtpTypes
<1>4. TodoInv'
  BY <1>1, MoveTodo
<1>5. AloneInv'
  BY <1>1, MoveAlone
<1>6. CommandInv'
  BY <1>1, <1>2, <1>3, KeepsCommand
<1>7. OperandInv'
  BY <1>1, KeepsOperand
<1>8. TimeInv'
  BY <1>1 DEF PtpInv, TimeInv
<1>9. RateInv'
  BY <1>1, <1>2, KeepsRate
<1>10. FlagInv'
  BY <1>1, KeepsFlag
<1>11. ReadInv'
  BY <1>1, KeepsRead
<1> QED
  BY <1>3, <1>4, <1>5, <1>6, <1>7, <1>8, <1>9, <1>10, <1>11 DEF PtpInv
LEMMA LockStep ==
  ASSUME PtpInv, NEW p \in Procs, Lock(p)
  PROVE  PtpInv'
<1>1. /\ At(p, "lock") /\ ptp_lock = "free" /\ ptp_lock' = p
      /\ todo' = [todo EXCEPT ![p] = Tail(@)] /\ value' = value
      /\ tcr' = tcr /\ upd' = upd /\ tar' = tar /\ addend' = addend /\ ssinc' = ssinc
      /\ time' = time /\ default_addend' = default_addend /\ hwts_tx_en' = hwts_tx_en
      /\ hwts_rx_en' = hwts_rx_en /\ tstamp_config' = tstamp_config /\ ptp_up' = ptp_up
      /\ seen' = seen /\ asked' = asked
  BY DEF Lock, Goes, clockVars, softVars
<1>2. tcr.cmd = {} /\ ~Gives(todo[p], 1, {"addreg"})
  BY <1>1, NoCommand, AtIs DEF Gives, Is, PtpInv
<1>3. PtpTypes'
  BY <1>1 DEF PtpInv, PtpTypes
<1>4. TodoInv'
  BY <1>1, MoveTodo
<1>5. AloneInv'
  BY <1>1, MoveAlone
<1>6. CommandInv'
  BY <1>1, <1>2, KeepsCommand
<1>7. OperandInv'
  BY <1>1, KeepsOperand
<1>8. TimeInv'
  BY <1>1 DEF PtpInv, TimeInv
<1>9. RateInv'
  BY <1>1, <1>2, KeepsRate
<1>10. FlagInv'
  BY <1>1, KeepsFlag
<1>11. ReadInv'
  BY <1>1, KeepsRead
<1> QED
  BY <1>3, <1>4, <1>5, <1>6, <1>7, <1>8, <1>9, <1>10, <1>11 DEF PtpInv

LEMMA UnlockStep ==
  ASSUME PtpInv, NEW p \in Procs, Unlock(p)
  PROVE  PtpInv'
<1>1. /\ At(p, "unlock") /\ ptp_lock' = "free"
      /\ todo' = [todo EXCEPT ![p] = Tail(@)] /\ value' = value
      /\ tcr' = tcr /\ upd' = upd /\ tar' = tar /\ addend' = addend /\ ssinc' = ssinc
      /\ time' = time /\ default_addend' = default_addend /\ hwts_tx_en' = hwts_tx_en
      /\ hwts_rx_en' = hwts_rx_en /\ tstamp_config' = tstamp_config /\ ptp_up' = ptp_up
      /\ seen' = seen /\ asked' = asked
  BY DEF Unlock, Goes, clockVars, softVars
<1>2. tcr.cmd = {} /\ ~Gives(todo[p], 1, {"addreg"})
  BY <1>1, NoCommand, AtIs DEF Gives, Is, PtpInv
<1>3. PtpTypes'
  BY <1>1 DEF PtpInv, PtpTypes
<1>4. TodoInv'
  BY <1>1, MoveTodo
<1>5. AloneInv'
  <2>1. todo[p] \in Seq(Access) /\ todo[p] # <<>> /\ Is(todo[p], 1, "unlock")
    BY <1>1, AtIs DEF PtpInv
  <2>2. p \in Users
    BY <2>1, Who DEF PtpInv, TodoInv, RtnlSeq, RtnlOps, Is
  <2>3. Len(todo[p]) = 1
    BY <2>1, <2>2 DEF PtpInv, TodoInv, UserSeq, Is
  <2>4. todo'[p] = <<>>
    BY <1>1, <2>1, <2>3, Move, TailOf
  <2>5. \A q \in Procs : ~Busy(q)'
    BY <1>1, <2>4, Move DEF Busy
  <2>6. todo'["rtnl"] = <<>>
    BY <1>1, <2>2, Sole, Move, Who
  <2> QED
    BY <1>1, <2>5, <2>6, Who DEF AloneInv
<1>6. CommandInv'
  BY <1>1, <1>2, KeepsCommand
<1>7. OperandInv'
  BY <1>1, KeepsOperand
<1>8. TimeInv'
  BY <1>1 DEF PtpInv, TimeInv
<1>9. RateInv'
  BY <1>1, <1>2, KeepsRate
<1>10. FlagInv'
  BY <1>1, KeepsFlag
<1>11. ReadInv'
  BY <1>1, KeepsRead
<1> QED
  BY <1>3, <1>4, <1>5, <1>6, <1>7, <1>8, <1>9, <1>10, <1>11 DEF PtpInv

LEMMA WriteUpdateStep ==
  ASSUME PtpInv, NEW p \in Procs, WriteUpdate(p)
  PROVE  PtpInv'
<1> DEFINE s == todo[p]
           r == todo'[p]
<1>1. /\ At(p, "upd") /\ upd' = s[1][2]
      /\ todo' = [todo EXCEPT ![p] = Tail(@)] /\ value' = value
      /\ tcr' = tcr /\ tar' = tar /\ addend' = addend /\ ssinc' = ssinc
      /\ time' = time /\ default_addend' = default_addend /\ hwts_tx_en' = hwts_tx_en
      /\ hwts_rx_en' = hwts_rx_en /\ tstamp_config' = tstamp_config /\ ptp_up' = ptp_up
      /\ ptp_lock' = ptp_lock /\ seen' = seen /\ asked' = asked
  BY DEF WriteUpdate, Goes, softVars, Arg
<1>2. tcr.cmd = {} /\ ~Gives(s, 1, {"addreg"})
  BY <1>1, NoCommand, AtIs DEF Gives, Is, PtpInv
<1>3. PtpTypes'
  <2>1. s[1] \in Access /\ s[1][1] = "upd"
    BY <1>1, AtIs DEF PtpInv, Is
  <2>2. upd' \in Int
    BY <1>1, <2>1, Operands
  <2> QED
    BY <1>1, <2>2 DEF PtpInv, PtpTypes
<1>4. TodoInv'
  BY <1>1, MoveTodo
<1>5. AloneInv'
  BY <1>1, MoveAlone
<1>6. CommandInv'
  BY <1>1, <1>2, KeepsCommand
<1>7. OperandInv'
  <2>1. /\ Is(s, 1, "upd") /\ Follows(s, 1) /\ Chained(s) /\ Len(s) \in Nat
        /\ \A i \in Nat \ {0} : \A o : /\ Is(r, i, o) <=> Is(s, i + 1, o)
                                       /\ Gives(r, i, o) <=> Gives(s, i + 1, o)
                                       /\ Starts(r, i) <=> Starts(s, i + 1)
        /\ \A i \in 1..Len(s) - 1 : r[i] = s[i + 1]
        /\ \A q \in Procs \ {p} : todo'[q] = todo[q] /\ ~Busy(q)
    BY <1>1, AtIs, Move DEF PtpInv
  <2> HIDE DEF r
  <2>2. /\ Is(s, 2, "read") /\ Gives(s, 3, {"init", "updt"}) /\ s[3][3] = s[1][2]
        /\ Starts(s, 5) => s[5][4] = s[1][2]
    BY <2>1 DEF Follows
  <2>3. Is(s, 3, "cmd") /\ Follows(s, 3)
    BY <2>1, <2>2 DEF Gives, Is, Chained
  <2>4. Is(s, 4, "poll")
    BY <2>3 DEF Follows
  <2>5. ~Gives(s, 2, {"init", "updt"}) /\ ~Starts(s, 2) /\ ~Starts(s, 3) /\ ~Starts(s, 4)
    BY <2>2, <2>3, <2>4 DEF Gives, Starts, Is
  <2>6. r[2] = s[3]
    BY <2>1, <2>3 DEF Is
  <2>7. ~Gives(r, 1, {"init", "updt"}) /\ ~Starts(r, 1) /\ ~Starts(r, 2) /\ ~Starts(r, 3)
    <3>1. /\ Gives(r, 1, {"init", "updt"}) <=> Gives(s, 1 + 1, {"init", "updt"})
          /\ Starts(r, 1) <=> Starts(s, 1 + 1)
          /\ Starts(r, 2) <=> Starts(s, 2 + 1)
          /\ Starts(r, 3) <=> Starts(s, 3 + 1)
      <4>1. {1, 2, 3} \subseteq Nat \ {0}
        OBVIOUS
      <4>2. 1 \in Nat \ {0} /\ 2 \in Nat \ {0} /\ 3 \in Nat \ {0}
        BY <4>1
      <4> QED
        BY <2>1, <4>2, Zenon
    <3> QED
      BY <2>5, <3>1
  <2>8. Starts(r, 4) => r[4][4] = s[1][2]
    <3> SUFFICES ASSUME Starts(r, 4) PROVE r[4][4] = s[1][2]
      OBVIOUS
    <3>1. Starts(s, 4 + 1)
      BY <2>1
    <3>2. Starts(s, 5)
      BY <3>1
    <3>3. r[4] = s[5]
      BY <2>1, <3>2 DEF Starts, Is
    <3> QED
      BY <2>2, <3>2, <3>3
  <2>9. Operand(r, upd')
    BY <1>1, <2>2, <2>6, <2>7, <2>8 DEF Operand
  <2>10. ASSUME NEW q \in Procs \ {p} PROVE Operand(todo'[q], upd')
    <3>1. \A o : o # "lock" => ~Is(todo'[q], 1, o)
      BY <1>1, Move
    <3>2. ~\E k \in 1..4 : Starts(todo'[q], k)
      <4>1. todo'[q] = <<>> \/ Is(todo'[q], 1, "lock")
        BY <2>1 DEF Busy
      <4>2. CASE todo'[q] = <<>>
        BY <4>2 DEF Starts, Is
      <4>3. CASE Is(todo'[q], 1, "lock")
        <5>1. q \in Users
          BY <2>1, <4>3, Who, SMTT(20) DEF PtpInv, TodoInv, RtnlSeq, RtnlOps, Is
        <5>2. UserSeq(todo'[q])
          BY <2>1, <5>1 DEF PtpInv, TodoInv
        <5> QED
          BY <5>2 DEF UserSeq, UserOps, Starts, Is
      <4> QED
        BY <4>1, <4>2, <4>3
    <3> QED
      BY <3>1, <3>2 DEF Operand, Gives
  <2> QED
    BY <2>9, <2>10 DEF OperandInv, r
<1>8. TimeInv'
  BY <1>1, <1>2 DEF PtpInv, TimeInv
<1>9. RateInv'
  BY <1>1, <1>2, KeepsRate
<1>10. FlagInv'
  BY <1>1, KeepsFlag
<1>11. ReadInv'
  BY <1>1, KeepsRead
<1> QED
  BY <1>3, <1>4, <1>5, <1>6, <1>7, <1>8, <1>9, <1>10, <1>11 DEF PtpInv
LEMMA WriteAddendStep ==
  ASSUME PtpInv, NEW p \in Procs, WriteAddend(p)
  PROVE  PtpInv'
<1> DEFINE s == todo[p]
<1>0. PICK op \in {"tar", "defaulttar"} :
        /\ At(p, op)
        /\ tar' = IF op = "tar" THEN [base |-> s[1][3], ppb |-> s[1][2]]
                  ELSE [base |-> default_addend, ppb |-> 0]
  BY Zenon DEF WriteAddend, Arg
<1>1. /\ At(p, op) /\ todo' = [todo EXCEPT ![p] = Tail(@)] /\ value' = value /\ tcr' = tcr
      /\ upd' = upd /\ addend' = addend /\ ssinc' = ssinc /\ time' = time
      /\ default_addend' = default_addend /\ hwts_tx_en' = hwts_tx_en
      /\ hwts_rx_en' = hwts_rx_en /\ tstamp_config' = tstamp_config /\ ptp_up' = ptp_up
      /\ ptp_lock' = ptp_lock /\ seen' = seen /\ asked' = asked
  BY <1>0 DEF WriteAddend, Goes, softVars
<1>2. tcr.cmd = {} /\ ~Gives(todo[p], 1, {"addreg"})
  BY <1>0, <1>1, NoCommand, AtIs DEF Gives, Is, PtpInv
<1>a. Is(s, 1, op) /\ s[1] \in Access /\ s[1][1] = op /\ Follows(s, 1) /\ s \in Seq(Access)
      /\ s # <<>> /\ Chained(s)
  BY <1>1, AtIs DEF PtpInv, Is
<1>b. op = "tar" => p \in Users /\ s[1][3] = default_addend
  BY <1>a, Who DEF PtpInv, TodoInv, RtnlSeq, RtnlOps, UserSeq, Is
<1>c. op = "defaulttar" => p = "rtnl"
  BY <1>a, Who DEF PtpInv, TodoInv, UserSeq, UserOps, Is
<1>d. tar'.base = default_addend
  BY <1>0, <1>b
<1>3. PtpTypes'
  <2>1. default_addend \in Bases
    BY DEF PtpInv, PtpTypes
  <2>2. tar' \in Addends
    BY <1>0, <1>a, <2>1, Operands DEF Addends, Ppbs0
  <2> QED
    BY <1>1, <2>2 DEF PtpInv, PtpTypes
<1>4. TodoInv'
  BY <1>1, MoveTodo
<1>5. AloneInv'
  BY <1>1, MoveAlone
<1>6. CommandInv'
  BY <1>1, <1>2, KeepsCommand
<1>7. OperandInv'
  BY <1>1, KeepsOperand
<1>8. TimeInv'
  BY <1>1 DEF PtpInv, TimeInv
<1>9. RateInv'
  <2>1. CASE op = "tar"
    BY <1>1, <1>2, <1>d, <2>1, KeepsRate
  <2>2. CASE op = "defaulttar"
    <3> DEFINE r == todo'["rtnl"]
    <3>0. todo'[p] = Tail(s) /\ p = "rtnl"
      BY <1>1, <1>c, <2>2, Move
    <3> HIDE DEF s
    <3>1. p = "rtnl" /\ r = Tail(s)
      BY <3>0, Zenon
    <3>2. ~Is(s, 1, "ssinc")
      BY <1>a, <2>2 DEF Is
    <3>3. Still(s, "ssinc") => Still(r, "ssinc")
      BY <1>a, <3>1, <3>2, StillTail
    <3>4. StillAdds(r)
      <4>1. Gives(s, 3, {"addreg"})
        BY <1>a, <2>2 DEF Follows
      <4>2. ~Gives(s, 1, {"addreg"})
        BY <1>2 DEF s
      <4>3. StillAdds(s)
        BY <4>1 DEF StillAdds, Gives, Is
      <4> QED
        BY <1>a, <3>1, <4>2, <4>3, StillTail
    <3>5. Still(s, "ssinc") \/ ssinc = default_addend
      BY <3>1 DEF PtpInv, RateInv, s
    <3> QED
      BY <1>1, <1>d, <3>3, <3>4, <3>5 DEF RateInv
  <2> QED
    BY <2>1, <2>2
<1>10. FlagInv'
  BY <1>1, KeepsFlag
<1>11. ReadInv'
  BY <1>1, KeepsRead
<1> QED
  BY <1>3, <1>4, <1>5, <1>6, <1>7, <1>8, <1>9, <1>10, <1>11 DEF PtpInv

LEMMA SsincStep ==
  ASSUME PtpInv, NEW p \in Procs, config_sub_second_increment(p)
  PROVE  PtpInv'
<1> DEFINE s == todo[p]
<1>1. /\ At(p, "ssinc") /\ ssinc' = IF tcr.ena THEN s[1][2] ELSE "coarse"
      /\ default_addend' = ssinc' /\ todo' = [todo EXCEPT ![p] = Tail(@)]
      /\ value' = value /\ tcr' = tcr /\ upd' = upd /\ tar' = tar /\ addend' = addend
      /\ time' = time /\ hwts_tx_en' = hwts_tx_en /\ hwts_rx_en' = hwts_rx_en
      /\ tstamp_config' = tstamp_config /\ ptp_up' = ptp_up /\ ptp_lock' = ptp_lock
      /\ seen' = seen /\ asked' = asked
  BY DEF config_sub_second_increment, Goes, Arg
<1>2. tcr.cmd = {} /\ ~Gives(todo[p], 1, {"addreg"})
  BY <1>1, NoCommand, AtIs DEF Gives, Is, PtpInv
<1>a. Is(s, 1, "ssinc") /\ s[1] \in Access /\ s[1][1] = "ssinc" /\ Follows(s, 1)
  BY <1>1, AtIs DEF PtpInv, Is
<1>b. p = "rtnl"
  BY <1>a, Who DEF PtpInv, TodoInv, UserSeq, UserOps, Is
<1>3. PtpTypes'
  <2>1. ssinc' \in Bases
    BY <1>1, <1>a, Operands DEF Bases
  <2> QED
    BY <1>1, <2>1 DEF PtpInv, PtpTypes
<1>4. TodoInv'
  BY <1>1, <1>b, MoveTodo
<1>5. AloneInv'
  BY <1>1, MoveAlone
<1>6. CommandInv'
  BY <1>1, <1>2, KeepsCommand
<1>7. OperandInv'
  BY <1>1, KeepsOperand
<1>8. TimeInv'
  BY <1>1 DEF PtpInv, TimeInv
<1>9. RateInv'
  <2>1. Is(s, 2, "defaulttar")
    BY <1>a DEF Follows
  <2>2. Is(todo'[p], 1, "defaulttar")
    BY <1>1, <2>1, MoveHead
  <2>3. Still(todo'["rtnl"], "defaulttar")
    BY <1>b, <2>2 DEF Still, Is
  <2> QED
    BY <1>1, <2>3 DEF RateInv
<1>10. FlagInv'
  BY <1>1, KeepsFlag
<1>11. ReadInv'
  BY <1>1, KeepsRead
<1> QED
  BY <1>3, <1>4, <1>5, <1>6, <1>7, <1>8, <1>9, <1>10, <1>11 DEF PtpInv

LEMMA WriteCommandStep ==
  ASSUME PtpInv, NEW p \in Procs, WriteCommand(p)
  PROVE  PtpInv'
<1> DEFINE s == todo[p]
           c == s[1][2]
<1>1. /\ At(p, "cmd") /\ tcr' = [value[p] EXCEPT !.cmd = tcr.cmd \cup @ \cup {c}]
      /\ todo' = [todo EXCEPT ![p] = Tail(@)] /\ value' = value /\ upd' = upd
      /\ tar' = tar /\ addend' = addend /\ ssinc' = ssinc /\ time' = time
      /\ default_addend' = default_addend /\ hwts_tx_en' = hwts_tx_en
      /\ hwts_rx_en' = hwts_rx_en /\ tstamp_config' = tstamp_config /\ ptp_up' = ptp_up
      /\ ptp_lock' = ptp_lock /\ seen' = seen
  BY DEF WriteCommand, Goes, clockVars, softVars, Arg
<1>2. tcr.cmd = {}
  BY <1>1, NoCommand
<1>a. Is(s, 1, "cmd") /\ s[1] \in Access /\ s[1][1] = "cmd" /\ Follows(s, 1) /\ Len(s) \in Nat
  BY <1>1, AtIs DEF PtpInv, Is
<1>b. c \in Commands /\ s[1][3] \in Int
  BY <1>a, Operands
<1>c. c \in {"init", "updt"} => s[1][3] = upd
  BY <1>a DEF PtpInv, OperandInv, Operand, Gives
<1>d. tcr' = [tcr EXCEPT !.cmd = {c}] /\ tcr \in Tcrs
  <2>1. value[p] = tcr /\ tcr \in Tcrs
    BY <1>a DEF PtpInv, CommandInv, PtpTypes
  <2> QED
    BY <1>1, <1>2, <2>1
<1>e. tcr' \in Tcrs /\ tcr'.cmd = {c} /\ tcr'.ena = tcr.ena
  BY <1>b, <1>d DEF Tcrs
<1>f. asked' = IF c = "init" THEN s[1][3] ELSE IF c = "updt" THEN asked + s[1][3] ELSE asked
  <2>1. asked' = CASE c = "init" -> s[1][3]
                   [] c = "updt" -> asked + s[1][3]
                   [] OTHER -> asked
    BY Zenon DEF WriteCommand, Arg
  <2>2. CASE c = "init"
    BY <2>1, <2>2
  <2>3. CASE c = "updt"
    BY <2>1, <2>3
  <2>4. CASE c # "init" /\ c # "updt"
    BY <2>1, <2>4
  <2> QED
    BY <2>2, <2>3, <2>4
<1> HIDE DEF c
<1>3. PtpTypes'
  <2>1. asked' \in Int
    BY <1>b, <1>f DEF PtpInv, PtpTypes
  <2> QED
    BY <1>1, <1>e, <2>1 DEF PtpInv, PtpTypes
<1>4. TodoInv'
  BY <1>1, MoveTodo
<1>5. AloneInv'
  BY <1>1, MoveAlone
<1>6. CommandInv'
  <2>1. Is(s, 2, "poll") /\ s[2][2] = c
    BY <1>a DEF Follows, c
  <2>2. Is(todo'[p], 1, "poll") /\ todo'[p][1] = s[2]
    <3>1. 1 \in 1..Len(s) - 1 /\ 1 + 1 = 2
      BY <1>a, <2>1 DEF Is
    <3>2. Is(todo'[p], 1, "poll")
      BY <1>1, <2>1, MoveHead
    <3>3. todo'[p][1] = s[1 + 1]
      BY <1>1, <3>1, Move, Zenon
    <3> QED
      BY <3>1, <3>2, <3>3
  <2>3. Waits(todo'[p], c) /\ ~Is(todo'[p], 1, "cmd") /\ todo'[p] # <<>>
    BY <2>1, <2>2 DEF Waits, Is
  <2>4. ~Quiet'
    BY <2>3, Who DEF Quiet, Alone, NoCall
  <2>5. \A q \in Procs : ~Is(todo'[q], 1, "cmd")
    BY <1>1, <2>3, Move
  <2> QED
    BY <1>e, <2>3, <2>4, <2>5 DEF CommandInv
<1>7. OperandInv'
  BY <1>1, KeepsOperand
<1>8. TimeInv'
  <2>1. time = asked
    BY <1>2 DEF PtpInv, TimeInv
  <2>2. time \in Int /\ asked \in Int /\ upd \in Int
    BY DEF PtpInv, PtpTypes
  <2> QED
    BY <1>1, <1>b, <1>c, <1>e, <1>f, <2>1, <2>2 DEF TimeInv, Commands
<1>9. RateInv'
  <2>1. "addreg" \in tcr.cmd \/ Gives(todo[p], 1, {"addreg"}) => "addreg" \in tcr'.cmd
    BY <1>2, <1>e DEF Gives, c
  <2> QED
    BY <1>1, <2>1, KeepsRate
<1>10. FlagInv'
  BY <1>1, <1>e, KeepsFlag
<1>11. ReadInv'
  BY <1>1, KeepsRead
<1> QED
  BY <1>3, <1>4, <1>5, <1>6, <1>7, <1>8, <1>9, <1>10, <1>11 DEF PtpInv

LEMMA ControlStep ==
  ASSUME PtpInv, NEW p \in Procs, config_hw_tstamping(p)
  PROVE  PtpInv'
<1> DEFINE s == todo[p]
<1>1. /\ At(p, "control")
      /\ tcr' = [ena |-> TRUE, filter |-> s[1][2], cmd |-> tcr.cmd \cup s[1][3]]
      /\ asked' = IF "init" \in s[1][3] THEN s[1][4] ELSE asked
      /\ todo' = [todo EXCEPT ![p] = Tail(@)] /\ value' = value /\ upd' = upd
      /\ tar' = tar /\ addend' = addend /\ ssinc' = ssinc /\ time' = time
      /\ default_addend' = default_addend /\ hwts_tx_en' = hwts_tx_en
      /\ hwts_rx_en' = hwts_rx_en /\ tstamp_config' = tstamp_config /\ ptp_up' = ptp_up
      /\ ptp_lock' = ptp_lock /\ seen' = seen
  BY DEF config_hw_tstamping, Goes, clockVars, softVars, Arg
<1>2. tcr.cmd = {} /\ ~Gives(todo[p], 1, {"addreg"})
  BY <1>1, NoCommand, AtIs DEF Gives, Is, PtpInv
<1>a. Is(s, 1, "control") /\ s[1] \in Access /\ s[1][1] = "control" /\ Follows(s, 1)
      /\ s # <<>> /\ s \in Seq(Access)
  BY <1>1, AtIs DEF PtpInv, Is
<1>b. s[1][2] \in StampFilters /\ s[1][3] \in SUBSET {"init"} /\ s[1][4] \in Int
  BY <1>a, Operands
<1>c. p = "rtnl"
  BY <1>a, Who DEF PtpInv, TodoInv, UserSeq, UserOps, Is
<1>d. tcr' \in Tcrs /\ tcr'.cmd = s[1][3] /\ tcr'.ena
  BY <1>1, <1>2, <1>b DEF Tcrs, Commands
<1>3. PtpTypes'
  <2>1. asked' \in Int
    BY <1>1, <1>b DEF PtpInv, PtpTypes
  <2> QED
    BY <1>1, <1>d, <2>1 DEF PtpInv, PtpTypes
<1>4. TodoInv'
  BY <1>1, MoveTodo
<1>5. AloneInv'
  BY <1>1, MoveAlone
<1>e. s[1][3] # {} => Starts(s, 1)
  BY <1>a, <1>b DEF Starts
<1>6. CommandInv'
  <2>1. CASE s[1][3] = {}
    BY <1>1, <1>d, <2>1, KeepsCommand
  <2>2. CASE s[1][3] # {}
    <3>1. tcr'.cmd = {"init"} /\ (1 = Len(s) \/ Is(s, 2, "flags"))
      BY <1>a, <1>b, <1>d, <1>e, <2>2 DEF Follows
    <3>2. CASE 1 = Len(s)
      <4>1. todo'[p] = <<>>
        BY <1>1, <1>a, <3>2, Move, TailOf
      <4>2. \A q \in Procs : todo'[q] = <<>>
        BY <1>1, <1>c, <4>1, Sole, Move, Who
      <4> QED
        BY <3>1, <4>2, Who DEF CommandInv, Quiet, Alone, NoCall, Is
    <3>3. CASE Is(s, 2, "flags")
      <4>1. Is(todo'[p], 1, "flags")
        BY <1>1, <3>3, MoveHead
      <4>2. Waits(todo'[p], "init") /\ todo'[p] # <<>> /\ ~Is(todo'[p], 1, "cmd")
        BY <4>1 DEF Waits, Is
      <4>3. ~Quiet'
        BY <4>2, Who DEF Quiet, Alone, NoCall
      <4>4. \A q \in Procs : ~Is(todo'[q], 1, "cmd")
        BY <1>1, <4>2, Move
      <4> QED
        BY <3>1, <4>2, <4>3, <4>4 DEF CommandInv
    <3> QED
      BY <3>1, <3>2, <3>3
  <2> QED
    BY <2>1, <2>2
<1>7. OperandInv'
  BY <1>1, KeepsOperand
<1>8. TimeInv'
  <2>1. Starts(s, 1) => s[1][4] = upd
    BY DEF PtpInv, OperandInv, Operand
  <2>2. time = asked
    BY <1>2 DEF PtpInv, TimeInv
  <2> QED
    BY <1>1, <1>b, <1>d, <1>e, <2>1, <2>2 DEF TimeInv
<1>9. RateInv'
  BY <1>1, <1>2, KeepsRate
<1>10. FlagInv'
  BY <1>d DEF FlagInv, FlagsBacked
<1>11. ReadInv'
  BY <1>1, KeepsRead
<1> QED
  BY <1>3, <1>4, <1>5, <1>6, <1>7, <1>8, <1>9, <1>10, <1>11 DEF PtpInv

LEMMA PollStep ==
  ASSUME PtpInv, NEW p \in Procs, Poll(p), PtpFaults = {}
  PROVE  PtpInv'
<1>1. /\ At(p, "poll") /\ todo[p][1][2] \notin tcr.cmd
      /\ todo' = [todo EXCEPT ![p] = Tail(@)] /\ value' = value /\ tcr' = tcr
      /\ upd' = upd /\ tar' = tar /\ addend' = addend /\ ssinc' = ssinc /\ time' = time
      /\ default_addend' = default_addend /\ hwts_tx_en' = hwts_tx_en
      /\ hwts_rx_en' = hwts_rx_en /\ tstamp_config' = tstamp_config /\ ptp_up' = ptp_up
      /\ ptp_lock' = ptp_lock /\ seen' = seen /\ asked' = asked
  BY DEF Poll, Goes, clockVars, softVars, Arg
<1>2. tcr.cmd = {} /\ ~Gives(todo[p], 1, {"addreg"})
  BY <1>1, NoCommand, AtIs DEF Gives, Is, PtpInv
<1>3. PtpTypes'
  BY <1>1 DEF PtpInv, PtpTypes
<1>4. TodoInv'
  BY <1>1, MoveTodo
<1>5. AloneInv'
  BY <1>1, MoveAlone
<1>6. CommandInv'
  BY <1>1, <1>2, KeepsCommand
<1>7. OperandInv'
  BY <1>1, KeepsOperand
<1>8. TimeInv'
  BY <1>1 DEF PtpInv, TimeInv
<1>9. RateInv'
  BY <1>1, <1>2, KeepsRate
<1>10. FlagInv'
  BY <1>1, KeepsFlag
<1>11. ReadInv'
  BY <1>1, KeepsRead
<1> QED
  BY <1>3, <1>4, <1>5, <1>6, <1>7, <1>8, <1>9, <1>10, <1>11 DEF PtpInv

LEMMA IfOffStep ==
  ASSUME PtpInv, NEW p \in Procs, IfOff(p)
  PROVE  PtpInv'
<1> DEFINE s == todo[p]
           now == s[1][2]
           r == IF tcr.ena THEN <<>>
                ELSE init_systime(now) \o << <<"control", tcr.filter, {"init"}, now>> >>
<1>0. At(p, "ifoff")
  BY DEF IfOff
<1>2. tcr.cmd = {} /\ ~Gives(s, 1, {"addreg"})
  BY <1>0, NoCommand, AtIs DEF Gives, Is, PtpInv
<1>1. /\ todo' = [todo EXCEPT ![p] = r] /\ value' = value /\ tcr' = tcr /\ upd' = upd
      /\ tar' = tar /\ addend' = addend /\ ssinc' = ssinc /\ time' = time
      /\ default_addend' = default_addend /\ hwts_tx_en' = hwts_tx_en
      /\ hwts_rx_en' = hwts_rx_en /\ tstamp_config' = tstamp_config /\ ptp_up' = ptp_up
      /\ ptp_lock' = ptp_lock /\ seen' = seen /\ asked' = asked
  BY <1>2 DEF IfOff, Goes, clockVars, softVars, Arg
<1>a. Is(s, 1, "ifoff") /\ s[1] \in Access /\ s[1][1] = "ifoff" /\ Follows(s, 1)
      /\ s # <<>> /\ s \in Seq(Access) /\ Len(s) \in Nat /\ Len(s) > 0
  BY <1>0, AtIs DEF PtpInv, Is
<1>b. now \in Int /\ tcr.filter \in StampFilters
  BY <1>a, Operands DEF PtpInv, PtpTypes, Tcrs
<1>c. p = "rtnl"
  BY <1>a, Who DEF PtpInv, TodoInv, UserSeq, UserOps, Is
<1>d. /\ r \in Seq(Access) /\ Chained(r) /\ RtnlSeq(r)
      /\ r = <<>> \/ Is(r, 1, "upd")
      /\ \A k \in 1..4 : ~Starts(r, k)
      /\ ~Still(r, "flags")
  <2>1. CASE tcr.ena
    <3>1. r = <<>>
      BY <2>1
    <3> HIDE DEF r
    <3> QED
      BY <3>1 DEF Chained, RtnlSeq, Starts, Is, Still
  <2>2. CASE ~tcr.ena
    <3>1. r = init_systime(now) \o << <<"control", tcr.filter, {"init"}, now>> >>
      BY <2>2
    <3> HIDE DEF r
    <3> QED
      BY <1>b, <3>1, StartSeq DEF Still
  <2> QED
    BY <2>1, <2>2
<1> HIDE DEF r
<1>e. /\ todo' \in [Procs -> Seq(Access)] /\ todo'["rtnl"] = r
      /\ \A u \in Users : todo[u] = <<>> /\ todo'[u] = <<>>
  <2>1. todo \in [Procs -> Seq(Access)]
    BY DEF PtpInv, TodoInv
  <2>2. \A u \in Users : todo[u] = <<>>
    BY <1>0, <1>c, Sole
  <2> QED
    BY <1>1, <1>c, <1>d, <2>1, <2>2, Who
<1>f. \A q \in Procs : q \in Users \/ q = "rtnl"
  BY Who
<1>3. PtpTypes'
  BY <1>1 DEF PtpInv, PtpTypes
<1>4. TodoInv'
  <2>1. \A u \in Users : Chained(todo'[u]) /\ UserSeq(todo[u])'
    BY <1>e DEF Chained, UserSeq
  <2> QED
    BY <1>d, <1>e, <1>f, <2>1 DEF TodoInv
<1>5. AloneInv'
  <2>1. \A u \in Users : Busy(u) <=> Busy(u)'
    BY <1>e DEF Busy
  <2> QED
    BY <1>1, <1>e, <2>1 DEF PtpInv, AloneInv, Alone, NoCall
<1>6. CommandInv'
  <2>1. \A q \in Procs : ~Is(todo'[q], 1, "cmd")
    BY <1>d, <1>e, <1>f DEF Is
  <2> QED
    BY <1>1, <1>2, <2>1 DEF CommandInv
<1>7. OperandInv'
  <2>1. Operand(r, upd)
    BY <1>d DEF Operand, Gives, Is
  <2>2. Operand(<<>>, upd)
    BY DEF Operand, Gives, Starts, Is
  <2> QED
    BY <1>1, <1>e, <1>f, <2>1, <2>2 DEF OperandInv
<1>8. TimeInv'
  BY <1>1 DEF PtpInv, TimeInv
<1>9. RateInv'
  <2>1. Len(s) = 1
    BY <1>a DEF Follows
  <2>2. ~Still(s, "ssinc") /\ ~Still(s, "defaulttar") /\ ~StillAdds(s)
    BY <1>a, <2>1 DEF Still, StillAdds, Gives, Is
  <2>3. ssinc = default_addend /\ tar.base = ssinc /\ addend.base = ssinc
    BY <1>2, <1>c, <2>2 DEF PtpInv, RateInv
  <2> QED
    BY <1>1, <2>3 DEF RateInv
<1>10. FlagInv'
  <2>1. ~Is(todo["rtnl"], 1, "control")
    BY <1>a, <1>c DEF Is
  <2>2. FlagsBacked' <=> FlagsBacked
    BY <1>1 DEF FlagsBacked
  <2> QED
    BY <1>d, <1>e, <2>1, <2>2 DEF PtpInv, FlagInv
<1>11. ReadInv'
  BY <1>1, <1>e DEF PtpInv, ReadInv
<1> QED
  BY <1>3, <1>4, <1>5, <1>6, <1>7, <1>8, <1>9, <1>10, <1>11 DEF PtpInv

LEMMA SetFlagsStep ==
  ASSUME PtpInv, NEW p \in Procs, SetFlags(p)
  PROVE  PtpInv'
<1> DEFINE s == todo[p]
<1>1. /\ At(p, "flags") /\ hwts_tx_en' = TRUE /\ hwts_rx_en' = TRUE
      /\ todo' = [todo EXCEPT ![p] = Tail(@)] /\ value' = value /\ tcr' = tcr
      /\ upd' = upd /\ tar' = tar /\ addend' = addend /\ ssinc' = ssinc /\ time' = time
      /\ default_addend' = default_addend /\ tstamp_config' = tstamp_config
      /\ ptp_up' = ptp_up /\ ptp_lock' = ptp_lock /\ seen' = seen /\ asked' = asked
  BY DEF SetFlags, Goes, clockVars
<1>a. Is(s, 1, "flags") /\ s[1][1] = "flags" /\ Follows(s, 1)
      /\ s # <<>> /\ s \in Seq(Access) /\ Len(s) \in Nat /\ Len(s) > 0
  BY <1>1, AtIs DEF PtpInv, Is
<1>b. p = "rtnl"
  BY <1>a, Who DEF PtpInv, TodoInv, UserSeq, UserOps, Is
<1>c. \A q \in Procs : todo'[q] = <<>>
  <2>1. todo'[p] = <<>>
    BY <1>1, <1>a, Move, TailOf DEF Follows
  <2> QED
    BY <1>1, <1>b, <2>1, Sole, Move, Who
<1>2. tcr.cmd \subseteq {"init"} /\ ~Gives(s, 1, {"addreg"})
  BY <1>1, <1>a, NoCommand DEF Gives, Is
<1>3. PtpTypes'
  <2>1. hwts_tx_en' \in BOOLEAN /\ hwts_rx_en' \in BOOLEAN
    BY <1>1, Zenon
  <2> QED
    BY <1>1, <2>1 DEF PtpInv, PtpTypes
<1>4. TodoInv'
  BY <1>1, MoveTodo
<1>5. AloneInv'
  BY <1>1, MoveAlone
<1>6. CommandInv'
  <2>1. Quiet' /\ \A q \in Procs : ~Is(todo'[q], 1, "cmd")
    BY <1>c, Who DEF Quiet, Alone, NoCall, Is
  <2> QED
    BY <1>1, <1>2, <2>1 DEF CommandInv
<1>7. OperandInv'
  BY <1>1, KeepsOperand
<1>8. TimeInv'
  BY <1>1 DEF PtpInv, TimeInv
<1>9. RateInv'
  BY <1>1, <1>2, KeepsRate
<1>10. FlagInv'
  <2>1. tcr.ena
    <3>1. ~Is(todo["rtnl"], 1, "control") /\ Still(todo["rtnl"], "flags")
      BY <1>a, <1>b DEF Is, Still
    <3> QED
      BY <3>1 DEF PtpInv, FlagInv
  <2> QED
    BY <1>1, <2>1 DEF FlagInv, FlagsBacked
<1>11. ReadInv'
  BY <1>1, KeepsRead
<1> QED
  BY <1>3, <1>4, <1>5, <1>6, <1>7, <1>8, <1>9, <1>10, <1>11 DEF PtpInv

\* What get_systime makes of its four readings.
LEMMA SettledIs ==
  ASSUME NEW from \in Int, NEW now \in from..from + SecLen, NEW m \in from..now, NEW n \in m..now
  PROVE  Settled(from \div SecLen, m % SecLen, n \div SecLen, now % SecLen) \in from..now
<1> DEFINE L == SecLen  a == from \div L  b == n \div L
<1>1. L \in Nat \ {0} /\ now \in Int /\ m \in Int /\ n \in Int
  BY PtpAssumption
<1>2. /\ a \in Int /\ from = a * L + (from % L) /\ from % L \in 0..(L - 1)
      /\ b \in Int /\ n = b * L + (n % L) /\ n % L \in 0..(L - 1)
      /\ m \div L \in Int /\ m = (m \div L) * L + (m % L) /\ m % L \in 0..(L - 1)
      /\ now \div L \in Int /\ now = (now \div L) * L + (now % L) /\ now % L \in 0..(L - 1)
  BY <1>1, Quotients
<1> DEFINE c == m \div L  d == now \div L
<1>3. a <= c /\ c <= b /\ b <= d
  <2>1. ASSUME NEW x \in Int, NEW y \in Int, x <= y,
               NEW q \in Int, NEW t \in Int, NEW e \in 0..(L - 1), NEW f \in 0..(L - 1),
               x = q * L + e, y = t * L + f
        PROVE  q <= t
    <3>1. SUFFICES ASSUME q >= t + 1 PROVE FALSE
      BY <2>1
    <3>2. q * L >= (t + 1) * L
      BY <1>1, <3>1
    <3>3. (t + 1) * L = t * L + L
      BY <1>1
    <3> QED
      BY <1>1, <2>1, <3>2, <3>3
  <2> HIDE DEF L, a, b, c, d
  <2>2. from <= m /\ m <= n /\ n <= now
    BY <1>1
  <2> QED
    BY <1>1, <1>2, <2>1, <2>2 DEF a, b, c, d
<1>4. CASE a = b
  <2>1. c = a
    BY <1>2, <1>3, <1>4
  <2>2. Settled(a, m % L, b, now % L) = m
    BY <1>2, <1>4, <2>1 DEF Settled
  <2> QED
    BY <1>1, <2>2
<1>5. CASE a # b
  <2>1. d <= a + 1
    <3>1. SUFFICES ASSUME d >= a + 2 PROVE FALSE
      BY <1>2
    <3>2. d * L >= (a + 2) * L
      BY <1>1, <1>2, <3>1
    <3>3. (a + 2) * L = a * L + L + L
      BY <1>1, <1>2
    <3> QED
      BY <1>1, <1>2, <3>2, <3>3
  <2>2. d = b
    BY <1>2, <1>3, <1>5, <2>1
  <2>3. Settled(a, m % L, b, now % L) = now
    BY <1>2, <1>5, <2>2 DEF Settled
  <2> QED
    BY <1>1, <2>3
<1> QED
  BY <1>4, <1>5

LEMMA ReadTimeStep ==
  ASSUME PtpInv, NEW p \in Users, p \in Procs, ReadTime(p)
  PROVE  PtpInv'
<1> DEFINE s == todo[p]
           q == seen[p]
           sc == time \div SecLen
           ns == time % SecLen
<1>0. PICK op \in {"sec", "nsec", "sec2", "nsec2"} :
        /\ At(p, op)
        /\ seen' = IF op = "sec" THEN [seen EXCEPT ![p].sec = sc, ![p].from = time]
                   ELSE IF op = "nsec" THEN [seen EXCEPT ![p].nsec = ns]
                   ELSE IF op = "sec2" THEN [seen EXCEPT ![p].sec2 = sc]
                   ELSE [seen EXCEPT ![p].to = time,
                                     ![p].got = Settled(q.sec, q.nsec, q.sec2, ns)]
  <2>1. CASE At(p, "sec") /\ seen' = [seen EXCEPT ![p].sec = sc, ![p].from = time]
    BY <2>1
  <2>2. CASE At(p, "nsec") /\ seen' = [seen EXCEPT ![p].nsec = ns]
    BY <2>2
  <2>3. CASE At(p, "sec2") /\ seen' = [seen EXCEPT ![p].sec2 = sc]
    BY <2>3
  <2>4. CASE At(p, "nsec2") /\ seen' = [seen EXCEPT ![p].to = time,
                                     ![p].got = Settled(q.sec, q.nsec, q.sec2, ns)]
    BY <2>4
  <2> QED
    BY <2>1, <2>2, <2>3, <2>4 DEF ReadTime
<1>1. /\ At(p, op) /\ todo' = [todo EXCEPT ![p] = Tail(@)] /\ value' = value /\ tcr' = tcr
      /\ upd' = upd /\ tar' = tar /\ addend' = addend /\ ssinc' = ssinc /\ time' = time
      /\ default_addend' = default_addend /\ hwts_tx_en' = hwts_tx_en
      /\ hwts_rx_en' = hwts_rx_en /\ tstamp_config' = tstamp_config /\ ptp_up' = ptp_up
      /\ ptp_lock' = ptp_lock /\ asked' = asked
  BY <1>0 DEF ReadTime, Goes, clockVars, softVars
<1>2. tcr.cmd = {} /\ ~Gives(todo[p], 1, {"addreg"})
  BY <1>1, NoCommand, AtIs DEF Gives, Is, PtpInv
<1>a. Is(s, 1, op) /\ Follows(s, 1) /\ s \in Seq(Access) /\ s # <<>> /\ Chained(s)
  BY <1>1, AtIs DEF PtpInv
<1>b. q \in Readings /\ time \in Int /\ SecLen \in Nat \ {0} /\ seen \in [Users -> Readings]
  BY PtpAssumption DEF PtpInv, PtpTypes
<1>c. sc \in Int /\ ns \in Int
  BY <1>b, Quotients
<1>d. ReadSo(s, q, time)
  BY DEF PtpInv, ReadInv
<1>e. q.sec \in Int /\ q.nsec \in Int /\ q.sec2 \in Int /\ q.from \in Int
  BY <1>b DEF Readings
<1>f. /\ op = "sec" => seen'[p] = [q EXCEPT !.sec = sc, !.from = time]
      /\ op = "nsec" => seen'[p] = [q EXCEPT !.nsec = ns]
      /\ op = "sec2" => seen'[p] = [q EXCEPT !.sec2 = sc]
      /\ op = "nsec2" =>
           seen'[p] = [q EXCEPT !.to = time, !.got = Settled(q.sec, q.nsec, q.sec2, ns)]
      /\ \A u \in Users \ {p} : seen'[u] = seen[u]
      /\ seen' = [seen EXCEPT ![p] = seen'[p]]
  BY <1>0, <1>b
<1>g. Settled(q.sec, q.nsec, q.sec2, ns) \in Int
  BY <1>b, <1>c, <1>e DEF Settled
<1> HIDE DEF sc, ns
<1>3. PtpTypes'
  <2>1. seen'[p] \in Readings
    BY <1>b, <1>c, <1>f, <1>g, ZenonT(40) DEF Readings
  <2>2. seen' \in [Users -> Readings]
    BY <1>b, <1>f, <2>1
  <2> QED
    BY <1>1, <2>2 DEF PtpInv, PtpTypes
<1>4. TodoInv'
  BY <1>1, MoveTodo
<1>5. AloneInv'
  BY <1>1, MoveAlone
<1>6. CommandInv'
  BY <1>1, <1>2, KeepsCommand
<1>7. OperandInv'
  BY <1>1, KeepsOperand
<1>8. TimeInv'
  BY <1>1 DEF PtpInv, TimeInv
<1>9. RateInv'
  BY <1>1, <1>2, KeepsRate
<1>10. FlagInv'
  BY <1>1, KeepsFlag
<1>11. ReadInv'
  <2> DEFINE r == todo'[p]
             q1 == seen'[p]
  <2>1. ASSUME NEW o PROVE Is(r, 1, o) <=> Is(s, 2, o)
    BY <1>1, MoveHead
  <2>2. /\ op = "sec" => Is(r, 1, "nsec")
        /\ op = "nsec" => Is(r, 1, "sec2")
        /\ op = "sec2" => Is(r, 1, "nsec2")
        /\ op = "nsec2" => Is(r, 1, "unlock")
    BY <1>a, <2>1 DEF Follows
  <2> HIDE DEF r
  <2>7. ReadSo(r, q1, time)
    <3>3. CASE op = "sec"
      <4>1. Is(r, 1, "nsec") /\ ~Is(r, 1, "sec2") /\ ~Is(r, 1, "nsec2")
        BY <2>2, <3>3 DEF Is
      <4>2. q1.sec = time \div SecLen /\ q1.from = time
        BY <1>b, <1>f, <3>3 DEF sc, Readings
      <4> HIDE DEF q1
      <4> QED
        BY <1>b, <4>1, <4>2 DEF ReadSo, Reading
    <3>4. CASE op = "nsec"
      <4>1. Is(r, 1, "sec2") /\ ~Is(r, 1, "nsec2")
        BY <2>2, <3>4 DEF Is
      <4>2. q1.sec = q.sec /\ q1.from = q.from /\ q1.nsec = time % SecLen
        BY <1>b, <1>f, <3>4 DEF ns, Readings
      <4>3. q.sec = q.from \div SecLen /\ time \in q.from..q.from + SecLen
        BY <1>a, <1>d, <3>4 DEF ReadSo, Reading
      <4>4. time \in q1.from..time
        BY <1>b, <1>e, <4>2, <4>3
      <4> HIDE DEF q1
      <4> QED
        BY <4>1, <4>2, <4>3, <4>4 DEF ReadSo, Reading
    <3>5. CASE op = "sec2"
      <4>1. Is(r, 1, "nsec2") /\ ~Is(r, 1, "sec2")
        BY <2>2, <3>5 DEF Is
      <4>2. /\ q1.sec = q.sec /\ q1.from = q.from /\ q1.nsec = q.nsec
            /\ q1.sec2 = time \div SecLen
        BY <1>b, <1>f, <3>5 DEF sc, Readings
      <4>3. /\ q.sec = q.from \div SecLen /\ time \in q.from..q.from + SecLen
            /\ \E m \in q.from..time : q.nsec = m % SecLen
        BY <1>a, <1>d, <3>5 DEF ReadSo, Reading
      <4>4. PICK m \in q.from..time : q.nsec = m % SecLen
        BY <4>3
      <4>5. time \in m..time
        BY <1>b, <1>e, <4>4
      <4> HIDE DEF q1
      <4> QED
        BY <4>1, <4>2, <4>3, <4>4, <4>5 DEF ReadSo, Reading
    <3>6. CASE op = "nsec2"
      <4>1. ~Reading(r)
        BY <2>2, <3>6 DEF Reading, Is
      <4>2. /\ q.sec = q.from \div SecLen /\ time \in q.from..q.from + SecLen
            /\ \E m \in q.from..time : \E n \in m..time :
                 q.nsec = m % SecLen /\ q.sec2 = n \div SecLen
        BY <1>a, <1>d, <3>6 DEF ReadSo, Reading
      <4>3. Settled(q.sec, q.nsec, q.sec2, time % SecLen) \in q.from..time
        BY <1>e, <4>2, SettledIs
      <4>4. q1.from = q.from /\ q1.to = time /\ q1.got = Settled(q.sec, q.nsec, q.sec2, ns)
        BY <1>b, <1>f, <3>6 DEF Readings
      <4> HIDE DEF q1
      <4> QED
        BY <4>1, <4>3, <4>4 DEF ReadSo, Reading, ns, Is
    <3> QED
      BY <3>3, <3>4, <3>5, <3>6
  <2>8. \A u \in Users \ {p} : todo'[u] = todo[u] /\ seen'[u] = seen[u]
    BY <1>1, <1>f, Move, Who
  <2> QED
    BY <1>1, <2>7, <2>8 DEF PtpInv, ReadInv, r
<1> QED
  BY <1>3, <1>4, <1>5, <1>6, <1>7, <1>8, <1>9, <1>10, <1>11 DEF PtpInv

(***************************************************************************)
(* The hardware and the passing of time                                    *)
(***************************************************************************)
LEMMA OneCommand ==
  ASSUME PtpInv, NEW c \in tcr.cmd
  PROVE  /\ tcr.cmd = {c}
         /\ \A p \in Procs : ~Is(todo[p], 1, "cmd") /\ ~Reading(todo[p])
<1>1. ASSUME NEW d \in tcr.cmd PROVE d = c
  <2>1. CASE Quiet
    BY <2>1 DEF PtpInv, CommandInv
  <2>2. CASE ~Quiet
    <3>1. PICK p \in Procs : Waits(todo[p], c)
      BY <2>2 DEF PtpInv, CommandInv
    <3>2. PICK q \in Procs : Waits(todo[q], d)
      BY <2>2 DEF PtpInv, CommandInv
    <3>3. Busy(p) /\ Busy(q)
      BY <3>1, <3>2 DEF Busy, Waits, Is
    <3>4. p = q
      BY <3>3, OneBusy
    <3> QED
      BY <3>1, <3>2, <3>4 DEF Waits, Is
  <2> QED
    BY <2>1, <2>2
<1>2. ASSUME NEW p \in Procs, NEW op \in {"cmd", "nsec", "sec2", "nsec2"}, Is(todo[p], 1, op)
      PROVE  FALSE
  <2>1. At(p, op)
    BY <1>2 DEF At, NoCall, Is
  <2> QED
    BY <2>1, NoCommand
<1> QED
  BY <1>1, <1>2 DEF Reading

LEMMA ObeyStep ==
  ASSUME PtpInv, NEW c \in Commands, Obey(c)
  PROVE  PtpInv'
<1>1. /\ c \in tcr.cmd /\ tcr' = [tcr EXCEPT !.cmd = @ \ {c}]
      /\ addend' = (IF c = "addreg" THEN tar ELSE addend) /\ todo' = todo /\ value' = value
      /\ upd' = upd /\ tar' = tar /\ ssinc' = ssinc /\ default_addend' = default_addend
      /\ hwts_tx_en' = hwts_tx_en /\ hwts_rx_en' = hwts_rx_en
      /\ tstamp_config' = tstamp_config /\ ptp_up' = ptp_up /\ ptp_lock' = ptp_lock
      /\ seen' = seen /\ asked' = asked
  BY DEF Obey, softVars
<1>2. tcr.cmd = {c} /\ \A p \in Procs : ~Is(todo[p], 1, "cmd") /\ ~Reading(todo[p])
  BY <1>1, OneCommand
<1>a. tcr \in Tcrs /\ time \in Int /\ upd \in Int /\ asked \in Int
  BY DEF PtpInv, PtpTypes
<1>b. tcr' \in Tcrs /\ tcr'.cmd = {} /\ tcr'.ena = tcr.ena /\ c \in Commands
  BY <1>1, <1>2, <1>a DEF Tcrs
<1>c. time' = IF c = "init" THEN upd ELSE IF c = "updt" THEN time + upd ELSE time
  <2>1. time' = CASE c = "init" -> upd [] c = "updt" -> time + upd [] OTHER -> time
    BY Zenon DEF Obey
  <2>2. CASE c = "init"
    BY <2>1, <2>2
  <2>3. CASE c = "updt"
    BY <2>1, <2>3
  <2>4. CASE c # "init" /\ c # "updt"
    BY <2>1, <2>4
  <2> QED
    BY <2>2, <2>3, <2>4
<1>3. PtpTypes'
  <2>1. time' \in Int
    BY <1>a, <1>c
  <2>2. addend' \in Addends
    BY <1>1 DEF PtpInv, PtpTypes
  <2> QED
    BY <1>1, <1>b, <2>1, <2>2 DEF PtpInv, PtpTypes
<1>4. TodoInv'
  BY <1>1 DEF PtpInv, TodoInv, UserSeq
<1>5. AloneInv'
  BY <1>1 DEF PtpInv, AloneInv, Busy, Alone, NoCall
<1>6. CommandInv'
  BY <1>1, <1>2, <1>b DEF CommandInv
<1>7. OperandInv'
  BY <1>1 DEF PtpInv, OperandInv
<1>8. TimeInv'
  BY <1>1, <1>2, <1>b, <1>c DEF PtpInv, TimeInv, Commands
<1>9. RateInv'
  <2>1. c # "addreg" => addend' = addend /\ "addreg" \notin tcr.cmd
    BY <1>1, <1>2
  <2>2. c = "addreg" => addend' = tar
    BY <1>1
  <2> QED
    BY <1>1, <2>1, <2>2 DEF PtpInv, RateInv
<1>10. FlagInv'
  BY <1>1, <1>b DEF PtpInv, FlagInv, FlagsBacked
<1>11. ReadInv'
  <2>1. \A u \in Users : ~Reading(todo[u])
    BY <1>2, Who
  <2>2. \A u \in Users : seen[u].got \in seen[u].from..seen[u].to
    BY <2>1 DEF PtpInv, ReadInv, ReadSo
  <2> QED
    BY <1>1, <2>1, <2>2 DEF ReadInv, ReadSo, Reading
<1> QED
  BY <1>3, <1>4, <1>5, <1>6, <1>7, <1>8, <1>9, <1>10, <1>11 DEF PtpInv

LEMMA TickStep ==
  ASSUME PtpInv, Tick
  PROVE  PtpInv'
<1>1. /\ "init" \notin tcr.cmd /\ time' = time + 1 /\ asked' = asked + 1 /\ todo' = todo
      /\ value' = value /\ tcr' = tcr /\ upd' = upd /\ tar' = tar /\ addend' = addend
      /\ ssinc' = ssinc /\ default_addend' = default_addend /\ hwts_tx_en' = hwts_tx_en
      /\ hwts_rx_en' = hwts_rx_en /\ tstamp_config' = tstamp_config /\ ptp_up' = ptp_up
      /\ ptp_lock' = ptp_lock /\ seen' = seen
  BY DEF Tick, softVars
<1>a. time \in Int /\ upd \in Int /\ asked \in Int /\ SecLen \in Nat \ {0}
  BY PtpAssumption DEF PtpInv, PtpTypes
<1>3. PtpTypes'
  BY <1>1, <1>a DEF PtpInv, PtpTypes
<1>4. TodoInv'
  BY <1>1 DEF PtpInv, TodoInv, UserSeq
<1>5. AloneInv'
  BY <1>1 DEF PtpInv, AloneInv, Busy, Alone, NoCall
<1>6. CommandInv'
  BY <1>1 DEF PtpInv, CommandInv, Quiet, Alone, NoCall
<1>7. OperandInv'
  BY <1>1 DEF PtpInv, OperandInv
<1>8. TimeInv'
  BY <1>1, <1>a DEF PtpInv, TimeInv
<1>9. RateInv'
  BY <1>1 DEF PtpInv, RateInv
<1>10. FlagInv'
  BY <1>1 DEF PtpInv, FlagInv, FlagsBacked
<1>11. ReadInv'
  <2> SUFFICES ASSUME NEW u \in Users PROVE ReadSo(todo[u], seen[u], time + 1)
    BY <1>1 DEF ReadInv
  <2> DEFINE s == todo[u]
             q == seen[u]
  <2>1. ReadSo(s, q, time) /\ q.from \in Int
    BY DEF PtpInv, ReadInv, PtpTypes, Readings
  <2>2. Reading(s) => time < q.from + SecLen
    BY DEF Tick, Reading, At, NoCall, Is
  <2> HIDE DEF s, q
  <2>3. Reading(s) => time + 1 \in q.from..q.from + SecLen
    BY <1>a, <2>1, <2>2 DEF ReadSo
  <2>4. Reading(s) => \A m \in q.from..time : /\ m \in q.from..(time + 1)
                                             /\ \A n \in m..time : n \in m..(time + 1)
    BY <1>a, <2>1
  <2>5. Is(s, 1, "sec2") => \E m \in q.from..(time + 1) : q.nsec = m % SecLen
    BY <2>1, <2>4 DEF ReadSo, Reading
  <2>6. Is(s, 1, "nsec2") =>
          \E m \in q.from..(time + 1) : \E n \in m..(time + 1) :
            q.nsec = m % SecLen /\ q.sec2 = n \div SecLen
    BY <2>1, <2>4 DEF ReadSo, Reading
  <2>7. ReadSo(s, q, time + 1)
    BY <2>1, <2>3, <2>5, <2>6 DEF ReadSo
  <2> QED
    BY <2>7 DEF s, q
<1> QED
  BY <1>3, <1>4, <1>5, <1>6, <1>7, <1>8, <1>9, <1>10, <1>11 DEF PtpInv

(***************************************************************************)
(* Every call keeps the invariant                                          *)
(***************************************************************************)
LEMMA CallStep ==
  ASSUME PtpInv, PtpFaults = {}, NEW u \in Users, NEW s \in Seq(Access),
         Chained(s), UserSeq(s), s # <<>>, s[1][1] = "lock", Call(u, s)
  PROVE  PtpInv'
<1>1. /\ todo[u] = <<>> /\ todo["rtnl"] = <<>> /\ (Alone => tcr.cmd = {})
      /\ seen' = [seen EXCEPT ![u] = Unseen] /\ todo' = [todo EXCEPT ![u] = s]
      /\ value' = value /\ tcr' = tcr /\ upd' = upd /\ tar' = tar /\ addend' = addend
      /\ ssinc' = ssinc /\ time' = time /\ default_addend' = default_addend
      /\ hwts_tx_en' = hwts_tx_en /\ hwts_rx_en' = hwts_rx_en
      /\ tstamp_config' = tstamp_config /\ ptp_up' = ptp_up /\ ptp_lock' = ptp_lock
      /\ asked' = asked
  BY DEF Call, clockVars, softVars, NoCall, MayBegin, Pending
<1>a. Is(s, 1, "lock") /\ ~Reading(s) /\ ~Is(s, 1, "cmd") /\ ~Is(s, 1, "poll")
      /\ ~Is(s, 1, "read") /\ ~Is(s, 1, "control")
  BY DEF Is, Reading
<1>b. \A k : ~Starts(s, k)
  BY DEF UserSeq, UserOps, Starts, Is
<1>c. /\ todo' \in [Procs -> Seq(Access)] /\ todo'[u] = s
      /\ \A q \in Procs \ {u} : todo'[q] = todo[q]
      /\ todo'["rtnl"] = <<>>
  BY <1>1, Who DEF PtpInv, TodoInv
<1>3. PtpTypes'
  <2>1. Unseen \in Readings
    BY DEF Unseen, Readings
  <2> QED
    BY <1>1, <2>1 DEF PtpInv, PtpTypes
<1>4. TodoInv'
  <2>1. \A v \in Users : UserSeq(todo'[v])
    BY <1>c, Who DEF PtpInv, TodoInv
  <2>2. \A v \in Users : UserSeq(todo[v])'
    BY <1>1, <2>1 DEF UserSeq
  <2>3. \A q \in Procs : Chained(todo'[q])
    BY <1>c DEF PtpInv, TodoInv
  <2> QED
    BY <1>c, <2>2, <2>3 DEF TodoInv, RtnlSeq
<1>5. AloneInv'
  <2>1. ~Busy(u) /\ ~Busy(u)'
    BY <1>1, <1>a, <1>c DEF Busy
  <2>2. \A v \in Users \ {u} : Busy(v)' <=> Busy(v)
    BY <1>c, Who DEF Busy
  <2> QED
    BY <1>1, <1>c, <2>1, <2>2 DEF PtpInv, AloneInv
<1>6. CommandInv'
  <2>1. ~Quiet'
    BY <1>c DEF Quiet, Alone, NoCall
  <2>2. ASSUME NEW c \in tcr.cmd PROVE \E p \in Procs : Waits(todo'[p], c)
    <3>1. ~Quiet
      BY <1>1 DEF Quiet
    <3>2. PICK p \in Procs : Waits(todo[p], c)
      BY <3>1 DEF PtpInv, CommandInv
    <3>3. p # u
      BY <1>1, <3>2 DEF Waits, Is
    <3> QED
      BY <1>c, <3>2, <3>3
  <2>3. \A p \in Procs : Is(todo'[p], 1, "cmd") => value[p] = tcr
    BY <1>a, <1>c DEF PtpInv, CommandInv
  <2> QED
    BY <1>1, <2>1, <2>2, <2>3 DEF CommandInv
<1>7. OperandInv'
  <2>1. Operand(s, upd)
    BY <1>a, <1>b DEF Operand, Gives
  <2> QED
    BY <1>1, <1>c, <2>1 DEF PtpInv, OperandInv
<1>8. TimeInv'
  BY <1>1 DEF PtpInv, TimeInv
<1>9. RateInv'
  BY <1>1, <1>c DEF PtpInv, RateInv
<1>10. FlagInv'
  BY <1>1, <1>c DEF PtpInv, FlagInv, FlagsBacked
<1>11. ReadInv'
  <2>1. seen'[u] = Unseen /\ \A v \in Users \ {u} : seen'[v] = seen[v]
    BY <1>1 DEF PtpInv, PtpTypes
  <2>2. ReadSo(s, Unseen, time)
    BY <1>a DEF ReadSo, Unseen, Reading
  <2> QED
    BY <1>1, <1>c, <2>1, <2>2, Who DEF PtpInv, ReadInv
<1> QED
  BY <1>3, <1>4, <1>5, <1>6, <1>7, <1>8, <1>9, <1>10, <1>11 DEF PtpInv

\* A caller without the lock begins a sequence that sets the increment.
LEMMA EnterKeeps ==
  ASSUME PtpInv, NEW s \in Seq(Access), Chained(s), RtnlSeq(s), Still(s, "ssinc"),
         Is(s, 1, "control") \/ Is(s, 1, "ssinc"), \A k \in 1..4 : ~Starts(s, k),
         todo["rtnl"] = <<>>, Alone, todo' = [todo EXCEPT !["rtnl"] = s],
         default_addend' = default_addend, ptp_lock' = ptp_lock, seen' = seen, tcr'.cmd = {}
  PROVE  /\ TodoInv' /\ AloneInv' /\ CommandInv' /\ OperandInv' /\ RateInv' /\ ReadInv'
<1>1. \A u \in Users : todo[u] = <<>>
  BY DEF Alone, NoCall
<1>2. /\ todo' \in [Procs -> Seq(Access)] /\ todo'["rtnl"] = s
      /\ \A u \in Users : todo'[u] = <<>>
  BY <1>1, Who DEF PtpInv, TodoInv
<1>3. \A q \in Procs : q \in Users \/ q = "rtnl"
  BY Who
<1>4. TodoInv'
  <2>1. \A u \in Users : Chained(todo'[u]) /\ UserSeq(todo[u])'
    BY <1>2 DEF Chained, UserSeq
  <2> QED
    BY <1>2, <1>3, <2>1 DEF TodoInv
<1>5. AloneInv'
  <2>1. \A u \in Users : Busy(u) <=> Busy(u)'
    BY <1>1, <1>2 DEF Busy
  <2> QED
    BY <1>2, <2>1 DEF PtpInv, AloneInv, Alone, NoCall
<1>6. CommandInv'
  BY <1>2, <1>3 DEF CommandInv, Is
<1>7. OperandInv'
  <2>1. Operand(s, upd')
    BY DEF Operand, Gives, Is
  <2>2. Operand(<<>>, upd')
    BY DEF Operand, Gives, Starts, Is
  <2> QED
    BY <1>2, <1>3, <2>1, <2>2 DEF OperandInv
<1>8. RateInv'
  BY <1>2 DEF RateInv
<1>9. ReadInv'
  <2>1. \A u \in Users : seen[u].got \in seen[u].from..seen[u].to
    BY <1>1 DEF PtpInv, ReadInv, ReadSo, Reading, Is
  <2> QED
    BY <1>2, <2>1 DEF ReadInv, ReadSo, Reading, Is
<1> QED
  BY <1>4, <1>5, <1>6, <1>7, <1>8, <1>9

LEMMA ConfigurationIs ==
  ASSUME NEW f \in StampFilters, NEW now \in Int, NEW s, s = tc956x_ptp_configuration(f, now)
  PROVE  /\ s \in Seq(Access) /\ Chained(s) /\ RtnlSeq(s) /\ Still(s, "ssinc")
         /\ Is(s, 1, "control") /\ s # <<>> /\ \A k \in 1..4 : ~Starts(s, k)
BY ConfigurationSeq DEF Still, Is

\* Opening: the reset, then the configuration.
LEMMA ResetStep ==
  ASSUME PtpInv, PtpFaults = {}, PtpOpen
  PROVE  PtpInv'
<1>1. PICK now \in Times : Enter(tc956x_ptp_configuration("default", now))
  BY DEF PtpOpen
<1> DEFINE s == tc956x_ptp_configuration("default", now)
<1>2. now \in Int /\ "default" \in StampFilters
  BY PtpAssumption DEF StampFilters
<1>3. /\ s \in Seq(Access) /\ Chained(s) /\ RtnlSeq(s) /\ Still(s, "ssinc")
      /\ Is(s, 1, "control") /\ s # <<>> /\ \A k \in 1..4 : ~Starts(s, k)
  BY <1>2, ConfigurationIs
<1>4. /\ todo["rtnl"] = <<>> /\ Alone /\ todo' = [todo EXCEPT !["rtnl"] = s]
      /\ ptp_lock' = ptp_lock /\ value' = value /\ seen' = seen
  BY <1>1, <1>3 DEF Enter, NoCall, MayConfigure
<1> HIDE DEF s
<1>5. /\ tcr' = TcrOff /\ upd' = 0 /\ tar' = NoAddend /\ addend' = NoAddend
      /\ ssinc' = "none" /\ time' = 0 /\ asked' = 0
  BY DEF PtpOpen
<1>6. default_addend' = default_addend /\ tstamp_config' = tstamp_config
  BY DEF PtpOpen
<1>7. hwts_tx_en' \in BOOLEAN /\ hwts_rx_en' \in BOOLEAN /\ ptp_up' \in BOOLEAN
  BY Zenon DEF PtpOpen
<1>8. TcrOff \in Tcrs /\ NoAddend \in Addends /\ TcrOff.cmd = {}
  BY PtpAssumption
     DEF TcrOff, Tcrs, StampFilters, Commands, NoAddend, Addends, Bases, Ppbs0
<1>9. PtpTypes'
  BY <1>4, <1>5, <1>6, <1>7, <1>8 DEF PtpInv, PtpTypes, Bases
<1>10. TodoInv' /\ AloneInv' /\ CommandInv' /\ OperandInv' /\ RateInv' /\ ReadInv'
  BY <1>3, <1>4, <1>5, <1>6, <1>8, EnterKeeps
<1>11. TimeInv'
  BY <1>5, <1>8 DEF TimeInv
<1>12. FlagInv'
  <2>1. todo'["rtnl"] = s
    BY <1>3, <1>4, Who DEF PtpInv, TodoInv
  <2> QED
    BY <1>3, <2>1 DEF FlagInv
<1> QED
  BY <1>9, <1>10, <1>11, <1>12 DEF PtpInv

\* Configuring from an ioctl: nothing, or the whole sequence.
LEMMA ConfigureStep ==
  ASSUME PtpInv, PtpFaults = {}, NEW f \in StampFilters, PtpConfigure(f),
         UNCHANGED <<tcr, clockVars, default_addend, ptp_up, asked>>,
         hwts_tx_en' \in BOOLEAN, hwts_rx_en' \in BOOLEAN,
         tstamp_config' \in {<<>>} \cup (BOOLEAN \X RxFilters)
  PROVE  PtpInv'
<1>1. PICK now \in Times : Enter(IF tcr.ena THEN <<>> ELSE tc956x_ptp_configuration(f, now))
  BY DEF PtpConfigure
<1> DEFINE s == tc956x_ptp_configuration(f, now)
<1>2. now \in Int
  BY PtpAssumption
<1>3. /\ s \in Seq(Access) /\ Chained(s) /\ RtnlSeq(s) /\ Still(s, "ssinc")
      /\ Is(s, 1, "control") /\ s # <<>> /\ \A k \in 1..4 : ~Starts(s, k)
  BY <1>2, ConfigurationIs
<1>4. /\ todo["rtnl"] = <<>> /\ todo' = [todo EXCEPT !["rtnl"] = IF tcr.ena THEN <<>> ELSE s]
      /\ ptp_lock' = ptp_lock /\ value' = value /\ seen' = seen
      /\ ~tcr.ena => Alone /\ tcr.cmd = {}
  BY <1>1, <1>3 DEF Enter, NoCall, MayConfigure, Pending
<1> HIDE DEF s
<1>5. /\ tcr' = tcr /\ upd' = upd /\ tar' = tar /\ addend' = addend /\ ssinc' = ssinc
      /\ time' = time /\ default_addend' = default_addend /\ ptp_up' = ptp_up
      /\ asked' = asked
  BY DEF clockVars
<1>6. PtpTypes'
  BY <1>4, <1>5 DEF PtpInv, PtpTypes
<1>7. TimeInv'
  BY <1>5 DEF PtpInv, TimeInv
<1>8. CASE tcr.ena
  <2>1. todo' = todo
    BY <1>4, <1>8, Who DEF PtpInv, TodoInv
  <2>2. TodoInv'
    BY <1>5, <2>1 DEF PtpInv, TodoInv, UserSeq
  <2>3. AloneInv'
    BY <1>4, <2>1 DEF PtpInv, AloneInv, Busy, Alone, NoCall
  <2>4. CommandInv'
    BY <1>4, <1>5, <2>1 DEF PtpInv, CommandInv, Quiet, Alone, NoCall
  <2>5. OperandInv' /\ RateInv' /\ ReadInv'
    BY <1>4, <1>5, <2>1 DEF PtpInv, OperandInv, RateInv, ReadInv
  <2>6. FlagInv'
    BY <1>5, <1>8 DEF FlagInv, FlagsBacked
  <2> QED
    BY <1>6, <1>7, <2>2, <2>3, <2>4, <2>5, <2>6 DEF PtpInv
<1>9. CASE ~tcr.ena
  <2>1. todo' = [todo EXCEPT !["rtnl"] = s] /\ tcr'.cmd = {} /\ Alone
    BY <1>4, <1>5, <1>9
  <2>2. TodoInv' /\ AloneInv' /\ CommandInv' /\ OperandInv' /\ RateInv' /\ ReadInv'
    BY <1>3, <1>4, <1>5, <2>1, EnterKeeps
  <2>3. FlagInv'
    <3>1. todo'["rtnl"] = s
      BY <1>3, <2>1, Who DEF PtpInv, TodoInv
    <3> QED
      BY <1>3, <3>1 DEF FlagInv
  <2> QED
    BY <1>6, <1>7, <2>2, <2>3 DEF PtpInv
<1> QED
  BY <1>8, <1>9

LEMMA HwtstampStep ==
  ASSUME PtpInv, PtpFaults = {}, NEW on \in BOOLEAN, NEW rx \in RxFilters, hwtstamp_set(on, rx)
  PROVE  PtpInv'
<1>1. hwts_tx_en' \in BOOLEAN /\ hwts_rx_en' \in BOOLEAN
  <2>1. (rx # "none") \in BOOLEAN
    BY Zenon
  <2> QED
    BY <2>1, Zenon DEF hwtstamp_set
<1>2. tstamp_config' \in {<<>>} \cup (BOOLEAN \X RxFilters)
  BY DEF hwtstamp_set
<1>3. CASE ~on /\ rx = "none"
  <2>1. /\ todo["rtnl"] = <<>> /\ todo' = [todo EXCEPT !["rtnl"] = <<>>]
        /\ Alone /\ tcr.cmd = {} /\ tcr' = [TcrOff EXCEPT !.cmd = tcr.cmd]
        /\ ptp_lock' = ptp_lock /\ value' = value /\ seen' = seen
        /\ upd' = upd /\ tar' = tar /\ addend' = addend /\ ssinc' = ssinc
        /\ time' = time /\ default_addend' = default_addend /\ ptp_up' = ptp_up
        /\ asked' = asked
    BY <1>3 DEF hwtstamp_set, Enter, NoCall, MayConfigure, Pending, clockVars
  <2>2. ~hwts_tx_en' /\ ~hwts_rx_en'
    BY <1>3, Zenon DEF hwtstamp_set
  <2>3. tcr' \in Tcrs /\ tcr'.cmd = {}
    BY <2>1, PtpAssumption DEF TcrOff, Tcrs, StampFilters, Commands
  <2>4. todo' = todo
    BY <2>1, Who DEF PtpInv, TodoInv
  <2>5. PtpTypes'
    BY <1>1, <1>2, <2>1, <2>3 DEF PtpInv, PtpTypes
  <2>6. TodoInv'
    <3>1. todo' = todo /\ default_addend' = default_addend
      BY <2>1, <2>4
    <3> QED
      BY <3>1 DEF PtpInv, TodoInv, UserSeq
  <2>7. AloneInv'
    BY <2>1, <2>4 DEF PtpInv, AloneInv, Busy, Alone, NoCall
  <2>8. CommandInv'
    BY <2>1, <2>3, <2>4, Who DEF CommandInv, Alone, NoCall, Is
  <2>9. OperandInv' /\ RateInv' /\ ReadInv'
    BY <2>1, <2>3, <2>4 DEF PtpInv, OperandInv, RateInv, ReadInv
  <2>10. TimeInv'
    BY <2>1, <2>3 DEF PtpInv, TimeInv
  <2>11. FlagInv'
    BY <2>1, <2>2, <2>4 DEF FlagInv, FlagsBacked, Still
  <2> QED
    BY <2>5, <2>6, <2>7, <2>8, <2>9, <2>10, <2>11 DEF PtpInv
<1>4. CASE on \/ rx # "none"
  <2>1. PtpConfigure(rx) /\ UNCHANGED <<tcr, clockVars, default_addend, ptp_up, asked>>
    BY <1>4 DEF hwtstamp_set
  <2>2. rx \in StampFilters
    BY DEF StampFilters
  <2> QED
    BY <1>1, <1>2, <2>1, <2>2, ConfigureStep
<1> QED
  BY <1>3, <1>4

LEMMA PpsStep ==
  ASSUME PtpInv, PtpFaults = {}, pps_configuration
  PROVE  PtpInv'
<1>1. PtpConfigure("default") /\ UNCHANGED <<tcr, clockVars, default_addend, ptp_up, asked>>
  BY DEF pps_configuration, softVars
<1>2. /\ hwts_tx_en' = hwts_tx_en /\ hwts_rx_en' = hwts_rx_en
      /\ tstamp_config' = tstamp_config /\ "default" \in StampFilters
  BY DEF pps_configuration, softVars, StampFilters
<1>3. /\ hwts_tx_en' \in BOOLEAN /\ hwts_rx_en' \in BOOLEAN
      /\ tstamp_config' \in {<<>>} \cup (BOOLEAN \X RxFilters)
  BY <1>2 DEF PtpInv, PtpTypes
<1> QED
  BY <1>1, <1>2, <1>3, ConfigureStep

LEMMA ReleaseStep ==
  ASSUME PtpInv, PtpRelease
  PROVE  PtpInv'
<1>1. /\ todo["rtnl"] = <<>> /\ todo' = [todo EXCEPT !["rtnl"] = <<>>]
      /\ ptp_lock' = ptp_lock /\ value' = value /\ seen' = seen /\ ptp_up' = FALSE
      /\ tcr' = tcr /\ upd' = upd /\ tar' = tar /\ addend' = addend /\ ssinc' = ssinc
      /\ time' = time /\ default_addend' = default_addend /\ asked' = asked
      /\ hwts_tx_en' = hwts_tx_en /\ hwts_rx_en' = hwts_rx_en
      /\ tstamp_config' = tstamp_config
  BY DEF PtpRelease, Enter, NoCall, clockVars
<1>2. todo' = todo
  BY <1>1, Who DEF PtpInv, TodoInv
<1>3. PtpTypes'
  <2>1. ptp_up' \in BOOLEAN
    BY <1>1, Zenon
  <2> QED
    BY <1>1, <2>1 DEF PtpInv, PtpTypes
<1>4. TodoInv'
  <2>1. todo' = todo /\ default_addend' = default_addend
    BY <1>1, <1>2
  <2> QED
    BY <2>1 DEF PtpInv, TodoInv, UserSeq
<1>5. AloneInv'
  BY <1>1, <1>2 DEF PtpInv, AloneInv, Busy, Alone, NoCall
<1>6. CommandInv'
  BY <1>1, <1>2 DEF PtpInv, CommandInv, Quiet, Alone, NoCall
<1>7. OperandInv' /\ RateInv' /\ ReadInv' /\ TimeInv'
  BY <1>1, <1>2 DEF PtpInv, OperandInv, RateInv, ReadInv, TimeInv
<1>8. FlagInv'
  BY <1>1, <1>2 DEF FlagInv, FlagsBacked, Still
<1> QED
  BY <1>3, <1>4, <1>5, <1>6, <1>7, <1>8 DEF PtpInv

LEMMA SetClockStep ==
  ASSUME PtpInv, PtpFaults = {}, SetClock
  PROVE  PtpInv'
<1>1. PICK r \in Rates, now \in Times : Enter(tc956xmac_ptp_clk_config(r, now))
  BY DEF SetClock
<1> DEFINE s == tc956xmac_ptp_clk_config(r, now)
<1>2. now \in Int /\ r \in Bases
  BY PtpAssumption DEF Bases
<1>3. /\ s \in Seq(Access) /\ Chained(s) /\ RtnlSeq(s) /\ Len(s) = 6 /\ Is(s, 1, "ssinc")
      /\ \A k \in 1..6 : ~Starts(s, k) /\ ~Is(s, k, "flags")
  BY <1>2, ClockConfigSeq
<1>4. s # <<>> /\ Still(s, "ssinc") /\ ~Still(s, "flags")
  BY <1>3 DEF Still
<1>5. /\ todo["rtnl"] = <<>> /\ Alone /\ tcr.cmd = {}
      /\ todo' = [todo EXCEPT !["rtnl"] = s]
      /\ ptp_lock' = ptp_lock /\ value' = value /\ seen' = seen
  BY <1>1, <1>4 DEF Enter, NoCall, MayConfigure, Pending
<1>6. /\ tcr' = tcr /\ upd' = upd /\ tar' = tar /\ addend' = addend /\ ssinc' = ssinc
      /\ time' = time /\ default_addend' = default_addend /\ asked' = asked
      /\ hwts_tx_en' = hwts_tx_en /\ hwts_rx_en' = hwts_rx_en /\ ptp_up' = ptp_up
      /\ tstamp_config' = tstamp_config
  BY DEF SetClock, clockVars, softVars
<1> HIDE DEF s
<1>7. PtpTypes'
  BY <1>5, <1>6 DEF PtpInv, PtpTypes
<1>8. TodoInv' /\ AloneInv' /\ CommandInv' /\ OperandInv' /\ RateInv' /\ ReadInv'
  <2>1. tcr'.cmd = {} /\ \A k \in 1..4 : ~Starts(s, k)
    BY <1>3, <1>5, <1>6
  <2> QED
    BY <1>3, <1>4, <1>5, <1>6, <2>1, EnterKeeps
<1>9. TimeInv'
  BY <1>6 DEF PtpInv, TimeInv
<1>10. FlagInv'
  <2>1. todo'["rtnl"] = s
    BY <1>3, <1>5, Who DEF PtpInv, TodoInv
  <2>2. FlagsBacked
    BY <1>5 DEF PtpInv, FlagInv, Is
  <2> QED
    BY <1>4, <1>6, <2>1, <2>2 DEF FlagInv, FlagsBacked
<1> QED
  BY <1>7, <1>8, <1>9, <1>10 DEF PtpInv

\* Every step keeps the invariant.
LEMMA PtpStep ==
  ASSUME PtpFaults = {}, PtpInv, [PtpNext]_ptpVars
  PROVE  PtpInv'
<1>1. ASSUME NEW u \in Users, set_time(u) PROVE PtpInv'
  <2>1. PICK t \in Times : Call(u, Locked(init_systime(t)))
    BY <1>1 DEF set_time
  <2>2. t \in Int
    BY PtpAssumption
  <2> QED
    BY <2>1, <2>2, SetTimeSeq, CallStep
<1>2. ASSUME NEW u \in Users, adjust_time(u) PROVE PtpInv'
  <2>1. PICK d \in Deltas : Call(u, Locked(adjust_systime(d)))
    BY <1>2 DEF adjust_time
  <2>2. d \in Int
    BY PtpAssumption
  <2> QED
    BY <2>1, <2>2, AdjustTimeSeq, CallStep
<1>3. ASSUME NEW u \in Users, adjust_freq(u) PROVE PtpInv'
  <2>1. PICK p \in Ppbs : Call(u, Locked(config_addend(p, default_addend)))
    BY <1>3 DEF adjust_freq
  <2>2. p \in Ppbs0 /\ default_addend \in Bases
    BY DEF Ppbs0, PtpInv, PtpTypes
  <2> QED
    BY <2>1, <2>2, AdjustFreqSeq, CallStep
<1>4. ASSUME NEW u \in Users, get_time(u) PROVE PtpInv'
  BY <1>4, GetTimeSeq, CallStep DEF get_time
<1>5. ASSUME NEW u \in Users, ReadTime(u) PROVE PtpInv'
  BY <1>5, ReadTimeStep, Who
<1>6. ASSUME PtpOpen PROVE PtpInv'
  BY <1>6, ResetStep
<1>7. ASSUME PtpRelease PROVE PtpInv'
  BY <1>7, ReleaseStep
<1>8. ASSUME pps_configuration PROVE PtpInv'
  BY <1>8, PpsStep
<1>9. ASSUME SetClock PROVE PtpInv'
  BY <1>9, SetClockStep
<1>10. ASSUME NEW on \in BOOLEAN, NEW rx \in RxFilters, hwtstamp_set(on, rx) PROVE PtpInv'
  BY <1>10, HwtstampStep
<1>11. ASSUME NEW p \in Procs,
              \/ Lock(p) \/ Unlock(p) \/ WriteUpdate(p) \/ WriteAddend(p)
              \/ config_sub_second_increment(p) \/ ReadControl(p) \/ WriteCommand(p)
              \/ config_hw_tstamping(p) \/ Poll(p) \/ IfOff(p) \/ SetFlags(p)
       PROVE  PtpInv'
  BY <1>11, LockStep, UnlockStep, WriteUpdateStep, WriteAddendStep, SsincStep,
     ReadControlStep, WriteCommandStep, ControlStep, PollStep, IfOffStep, SetFlagsStep
<1>12. ASSUME NEW c \in {"init", "updt", "addreg"}, Obey(c) PROVE PtpInv'
  BY <1>12, ObeyStep DEF Commands
<1>13. ASSUME Tick PROVE PtpInv'
  BY <1>13, TickStep
<1>14. CASE UNCHANGED ptpVars
  <2>1. /\ todo' = todo /\ value' = value /\ tcr' = tcr /\ upd' = upd /\ tar' = tar
        /\ addend' = addend /\ ssinc' = ssinc /\ time' = time
        /\ default_addend' = default_addend /\ hwts_tx_en' = hwts_tx_en
        /\ hwts_rx_en' = hwts_rx_en /\ tstamp_config' = tstamp_config /\ ptp_up' = ptp_up
        /\ ptp_lock' = ptp_lock /\ seen' = seen /\ asked' = asked
    BY <1>14 DEF ptpVars, clockVars, softVars
  <2>2. PtpTypes' /\ TodoInv' /\ AloneInv'
    BY <2>1 DEF PtpInv, PtpTypes, TodoInv, UserSeq, AloneInv, Busy, Alone, NoCall
  <2>3. CommandInv' /\ OperandInv' /\ TimeInv'
    BY <2>1 DEF PtpInv, CommandInv, OperandInv, TimeInv, Quiet, Alone, NoCall
  <2>4. RateInv' /\ FlagInv' /\ ReadInv'
    BY <2>1 DEF PtpInv, RateInv, FlagInv, FlagsBacked, ReadInv
  <2> QED
    BY <2>2, <2>3, <2>4 DEF PtpInv
<1> QED
  BY <1>1, <1>2, <1>3, <1>4, <1>5, <1>6, <1>7, <1>8, <1>9, <1>10, <1>11, <1>12, <1>13,
     <1>14, Zenon DEF PtpNext

\* The clock of a port keeps time, rate and time stamping whatever callbacks,
\* closings, openings and ioctls come before, as long as the callers that take
\* ptp_lock and those that hold RTNL alone do not meet and the hardware answers
\* in time.
THEOREM ClockIsKept ==
  ASSUME PtpFaults = {}
  PROVE  PtpSpec => [](PtpTypeOK /\ ClockKept)
<1>1. PtpInv /\ [PtpNext]_ptpVars => PtpInv'
  BY PtpStep
<1> QED
  BY <1>1, PtpStart, PtpInvImplies, PTL DEF PtpSpec

\* get_systime returns a time the clock showed during the call, also across a
\* rollover of the seconds, and xmit makes of it the launch time that is meant,
\* its seconds modulo those a descriptor can tell apart, under the same
\* conditions.
THEOREM TimeIsRead ==
  ASSUME PtpFaults = {}
  PROVE  PtpSpec => []TimeRead
<1>1. PtpInv /\ [PtpNext]_ptpVars => PtpInv'
  BY PtpStep
<1> QED
  BY <1>1, PtpStart, PtpInvImplies, PTL DEF PtpSpec

(***************************************************************************)
(* The receive parser: its entries and the order they are written in       *)
(***************************************************************************)
\* Tables of n entries.
EntryOf(n) == [used : BOOLEAN, frag : BOOLEAN, prio : Nat, handle : Handles \cup {0},
               ptr : 0 .. n - 1, act : {"none", "pass", "drop", "other"}]
EntryTables(n) == [1 .. n -> EntryOf(n)]

\* The entries are as many as their places.
LEMMA LengthOfEntries ==
  ASSUME NEW n \in Nat, NEW e \in EntryTables(n)
  PROVE  Len(e) = n /\ DOMAIN e = 1 .. n
<1>1. e \in Seq(EntryOf(n))
  BY DEF EntryTables
<1> QED
  BY <1>1, LenProperties DEF EntryTables

\* Entries in turn: in use, no fragment, and not the last one.
LEMMA InTurnIs ==
  ASSUME NEW n \in Nat, NEW e \in EntryTables(n)
  PROVE  /\ InTurn(e) = {i \in 1 .. n : e[i].used /\ ~e[i].frag /\ i # n}
         /\ IsFiniteSet(InTurn(e))
<1>1. InTurn(e) = {i \in 1 .. n : e[i].used /\ ~e[i].frag /\ i # n}
  BY LengthOfEntries DEF InTurn
<1>2. IsFiniteSet(1 .. n)
  BY FS_Interval
<1> QED
  BY <1>1, <1>2, FS_Subset

\* The entries in turn are in an order, of which Sooner has the part before one.
LEMMA SoonerOrders ==
  ASSUME NEW n \in Nat, NEW e \in EntryTables(n), NEW i \in InTurn(e), NEW j \in InTurn(e)
  PROVE  /\ Sooner(e, i) \subseteq InTurn(e) \ {i}
         /\ j \in Sooner(e, i) => Sooner(e, j) \cup {j} \subseteq Sooner(e, i) /\ i \notin Sooner(e, j)
         /\ i = j \/ i \in Sooner(e, j) \/ j \in Sooner(e, i)
<1>1. \A k \in InTurn(e) : k \in Nat /\ e[k].prio \in Nat
  BY InTurnIs DEF EntryTables, EntryOf
<1>2. \A k, l \in InTurn(e) : k \in Sooner(e, l) <=>
        (\/ e[k].prio < e[l].prio
         \/ e[k].prio = e[l].prio /\ k > l)
  BY DEF Sooner
<1>3. Sooner(e, i) \subseteq InTurn(e) /\ Sooner(e, j) \subseteq InTurn(e)
  BY DEF Sooner
<1>4. i \notin Sooner(e, i)
  BY <1>1, <1>2
<1>5. j \in Sooner(e, i) => \A k \in Sooner(e, j) : k \in Sooner(e, i)
  BY <1>1, <1>2, <1>3
<1>6. j \in Sooner(e, i) => i \notin Sooner(e, j)
  BY <1>1, <1>2
<1>7. i = j \/ i \in Sooner(e, j) \/ j \in Sooner(e, i)
  BY <1>1, <1>2
<1> QED
  BY <1>3, <1>4, <1>5, <1>6, <1>7

\* Of a family of parts of a finite set one contains no other.
LEMMA LeastPart ==
  ASSUME NEW A, IsFiniteSet(A), NEW F \in SUBSET SUBSET A, F # {}
  PROVE  \E X \in F : \A Y \in F : Y \subseteq X => Y = X
<1>1. IsWellFoundedOn(StrictSubsetOrdering(A), SUBSET A)
  BY FS_StrictSubsetOrderingWellFounded, FS_FiniteSubsetsOfFinite
<1>2. PICK X \in F : \A Y \in F : <<Y, X>> \notin StrictSubsetOrdering(A)
  BY <1>1, WFMin, Zenon
<1>3. \A Y \in F : Y \subseteq X => Y = X
  BY <1>2 DEF StrictSubsetOrdering
<1> QED
  BY <1>3

\* Of entries in turn one comes before all others.
LEMMA FirstInTurn ==
  ASSUME NEW n \in Nat, NEW e \in EntryTables(n), NEW B \in SUBSET InTurn(e), B # {}
  PROVE  \E i \in B : \A j \in B : j \notin Sooner(e, i)
<1> DEFINE F == {Sooner(e, i) : i \in B}
<1>1. F \in SUBSET SUBSET InTurn(e) /\ F # {}
  BY DEF Sooner
<1> HIDE DEF F
<1>2. PICK X \in F : \A Y \in F : Y \subseteq X => Y = X
  BY <1>1, InTurnIs, LeastPart
<1>3. PICK i \in B : X = Sooner(e, i)
  BY DEF F
<1>4. \A j \in B : j \notin Sooner(e, i)
  <2> SUFFICES ASSUME NEW j \in B, j \in Sooner(e, i) PROVE FALSE
    OBVIOUS
  <2>1. Sooner(e, j) \subseteq Sooner(e, i) /\ j \notin Sooner(e, j)
    BY SoonerOrders
  <2>2. Sooner(e, j) \in F
    BY DEF F
  <2> QED
    BY <1>2, <1>3, <2>1, <2>2
<1> QED
  BY <1>4

\* One comes after all others.
LEMMA LastInTurn ==
  ASSUME NEW n \in Nat, NEW e \in EntryTables(n), NEW B \in SUBSET InTurn(e), B # {}
  PROVE  \E i \in B : \A j \in B : i \notin Sooner(e, j)
<1> DEFINE F == {InTurn(e) \ Sooner(e, i) : i \in B}
<1>1. F \in SUBSET SUBSET InTurn(e) /\ F # {}
  OBVIOUS
<1> HIDE DEF F
<1>2. PICK X \in F : \A Y \in F : Y \subseteq X => Y = X
  BY <1>1, InTurnIs, LeastPart
<1>3. PICK i \in B : X = InTurn(e) \ Sooner(e, i)
  BY DEF F
<1>4. \A j \in B : i \notin Sooner(e, j)
  <2> SUFFICES ASSUME NEW j \in B, i \in Sooner(e, j) PROVE FALSE
    OBVIOUS
  <2>1. Sooner(e, i) \subseteq Sooner(e, j) /\ i \notin Sooner(e, i)
    BY SoonerOrders
  <2>2. InTurn(e) \ Sooner(e, j) \in F
    BY DEF F
  <2> QED
    BY <1>2, <1>3, <2>1, <2>2
<1> QED
  BY <1>4

\* What comes next has just entry i and the sooner ones before it.
LEMMA NextInTurn ==
  ASSUME NEW n \in Nat, NEW e \in EntryTables(n), NEW i \in InTurn(e)
  PROVE  \/ InTurn(e) = Sooner(e, i) \cup {i}
         \/ \E j \in InTurn(e) : Sooner(e, j) = Sooner(e, i) \cup {i}
<1> DEFINE B == {j \in InTurn(e) : i \in Sooner(e, j)}
<1>1. CASE B = {}
  <2>1. \A j \in InTurn(e) : j = i \/ j \in Sooner(e, i)
    BY <1>1, SoonerOrders
  <2>2. Sooner(e, i) \subseteq InTurn(e)
    BY SoonerOrders
  <2> QED
    BY <2>1, <2>2
<1>2. CASE B # {}
  <2>1. B \in SUBSET InTurn(e)
    OBVIOUS
  <2>2. PICK j \in B : \A k \in B : k \notin Sooner(e, j)
    BY <1>2, <2>1, FirstInTurn
  <2>3. Sooner(e, i) \cup {i} \subseteq Sooner(e, j) /\ Sooner(e, j) \subseteq InTurn(e)
    BY SoonerOrders
  <2>4. \A k \in Sooner(e, j) : k = i \/ k \in Sooner(e, i)
    BY <2>2, <2>3, SoonerOrders
  <2> QED
    BY <2>3, <2>4
<1> QED
  BY <1>1, <1>2

(***************************************************************************)
(* Places in the table                                                     *)
(***************************************************************************)
\* How many instructions entry i has, some entries have, come before entry i.
Width(e, i) == IF e[i].ptr = 0 THEN 1 ELSE 2
Count(e, is) == Cardinality(Halves(e, is))
PlacesBefore(e, i) == Count(e, Sooner(e, i))

\* The halves of some entries are finitely many.
LEMMA Counted ==
  ASSUME NEW n \in Nat, NEW e \in EntryTables(n), NEW is \in SUBSET InTurn(e)
  PROVE  IsFiniteSet(Halves(e, is)) /\ Count(e, is) \in Nat
<1>1. IsFiniteSet(is)
  BY InTurnIs, FS_Subset
<1>2. IsFiniteSet({1, 2})
  <2>1. {1, 2} = {1} \cup {2}
    OBVIOUS
  <2>2. IsFiniteSet({1} \cup {2})
    BY FS_Singleton, FS_AddElement, Zenon
  <2> QED
    BY <2>1, <2>2, Zenon
<1> DEFINE two == {1, 2}
<1>3. IsFiniteSet(is \X two)
  <2> HIDE DEF two
  <2> QED
    BY <1>1, <1>2, FS_Product DEF two
<1>4. Halves(e, is) \in SUBSET (is \X two)
  BY DEF Halves
<1>5. IsFiniteSet(Halves(e, is))
  BY <1>3, <1>4, FS_Subset
<1> QED
  BY <1>5, FS_CardinalityType DEF Count

\* One entry more takes one place, or two with a fragment.
LEMMA CountOne ==
  ASSUME NEW n \in Nat, NEW e \in EntryTables(n), NEW i \in InTurn(e),
         NEW is \in SUBSET InTurn(e), i \notin is
  PROVE  Count(e, is \cup {i}) = Count(e, is) + Width(e, i)
<1>1. IsFiniteSet(Halves(e, is)) /\ Count(e, is) \in Nat
  BY Counted
<1>2. <<i, 1>> \notin Halves(e, is) /\ <<i, 2>> \notin Halves(e, is)
  BY DEF Halves
<1>3. CASE e[i].ptr = 0
  <2>1. Halves(e, is \cup {i}) = Halves(e, is) \cup {<<i, 1>>}
    BY <1>3 DEF Halves
  <2>2. Cardinality(Halves(e, is) \cup {<<i, 1>>}) = Cardinality(Halves(e, is)) + 1
    BY <1>1, <1>2, FS_AddElement, Zenon
  <2> QED
    BY <1>3, <2>1, <2>2 DEF Count, Width
<1>4. CASE e[i].ptr # 0
  <2> DEFINE H == Halves(e, is) \cup {<<i, 1>>}
  <2>1. Halves(e, is \cup {i}) = H \cup {<<i, 2>>}
    BY <1>4 DEF Halves
  <2>2. IsFiniteSet(H) /\ Cardinality(H) = Count(e, is) + 1
    BY <1>1, <1>2, FS_AddElement DEF Count
  <2>3. <<i, 2>> \notin H
    BY <1>2
  <2> HIDE DEF H
  <2>4. Cardinality(H \cup {<<i, 2>>}) = Cardinality(H) + 1
    BY <2>2, <2>3, FS_AddElement, Zenon
  <2>5. Count(e, is \cup {i}) = Cardinality(H \cup {<<i, 2>>})
    BY <2>1, Zenon DEF Count
  <2> QED
    BY <1>1, <1>4, <2>2, <2>4, <2>5 DEF Width
<1> QED
  BY <1>3, <1>4

\* More entries take no fewer places.
LEMMA CountGrows ==
  ASSUME NEW n \in Nat, NEW e \in EntryTables(n), NEW js \in SUBSET InTurn(e), NEW is \in SUBSET js
  PROVE  Count(e, is) <= Count(e, js)
<1>1. IsFiniteSet(Halves(e, js)) /\ Halves(e, is) \in SUBSET Halves(e, js)
  BY Counted DEF Halves
<1> QED
  BY <1>1, FS_Subset DEF Count

\* The instructions of entry i come right after those before it, those of later
\* entries after them; the table ends with those of the last entry.
LEMMA BeforeIs ==
  ASSUME NEW n \in Nat, NEW e \in EntryTables(n), NEW i \in InTurn(e)
  PROVE  /\ PlacesBefore(e, i) \in Nat /\ Count(e, InTurn(e)) \in Nat
         /\ PlacesBefore(e, i) + Width(e, i) <= Count(e, InTurn(e))
         /\ \A j \in InTurn(e) : i \in Sooner(e, j) =>
              PlacesBefore(e, i) + Width(e, i) <= PlacesBefore(e, j)
         /\ \/ PlacesBefore(e, i) + Width(e, i) = Count(e, InTurn(e)) /\ InTurn(e) = Sooner(e, i) \cup {i}
            \/ \E j \in InTurn(e) : /\ Sooner(e, j) = Sooner(e, i) \cup {i}
                                    /\ PlacesBefore(e, j) = PlacesBefore(e, i) + Width(e, i)
<1>1. Sooner(e, i) \in SUBSET InTurn(e) /\ i \notin Sooner(e, i)
  BY SoonerOrders
<1>2. Count(e, Sooner(e, i) \cup {i}) = PlacesBefore(e, i) + Width(e, i)
  BY <1>1, CountOne DEF PlacesBefore
<1>3. PlacesBefore(e, i) \in Nat /\ Count(e, InTurn(e)) \in Nat
  BY <1>1, Counted DEF PlacesBefore
<1>4. PlacesBefore(e, i) + Width(e, i) <= Count(e, InTurn(e))
  <2>1. Sooner(e, i) \cup {i} \in SUBSET InTurn(e)
    BY <1>1
  <2> QED
    BY <1>2, <2>1, CountGrows
<1>5. ASSUME NEW j \in InTurn(e), i \in Sooner(e, j)
      PROVE  PlacesBefore(e, i) + Width(e, i) <= PlacesBefore(e, j)
  <2>1. Sooner(e, i) \cup {i} \in SUBSET Sooner(e, j) /\ Sooner(e, j) \in SUBSET InTurn(e)
    BY <1>5, SoonerOrders
  <2> QED
    BY <1>2, <2>1, CountGrows DEF PlacesBefore
<1>6. \/ PlacesBefore(e, i) + Width(e, i) = Count(e, InTurn(e)) /\ InTurn(e) = Sooner(e, i) \cup {i}
      \/ \E j \in InTurn(e) : /\ Sooner(e, j) = Sooner(e, i) \cup {i}
                              /\ PlacesBefore(e, j) = PlacesBefore(e, i) + Width(e, i)
  BY <1>2, NextInTurn DEF PlacesBefore
<1> QED
  BY <1>3, <1>4, <1>5, <1>6

\* No two instructions have one place, and none has the last place.
LEMMA PlacesDiffer ==
  ASSUME NEW n \in Nat, NEW e \in EntryTables(n), NEW x \in Halves(e, InTurn(e))
  PROVE  /\ Place(e, x) \in 1 .. Count(e, InTurn(e))
         /\ \A y \in Halves(e, InTurn(e)) : Place(e, x) = Place(e, y) => x = y
<1>1. \A y \in Halves(e, InTurn(e)) :
        /\ y = <<y[1], y[2]>> /\ y[1] \in InTurn(e) /\ y[2] \in 1 .. Width(e, y[1])
        /\ Place(e, y) = PlacesBefore(e, y[1]) + y[2]
  BY DEF Halves, Place, Width, PlacesBefore, Count
<1>2. \A i \in InTurn(e) :
        /\ PlacesBefore(e, i) \in Nat /\ Count(e, InTurn(e)) \in Nat
        /\ PlacesBefore(e, i) + Width(e, i) <= Count(e, InTurn(e))
  BY BeforeIs
<1>3. \A i, j \in InTurn(e) : i \in Sooner(e, j) => PlacesBefore(e, i) + Width(e, i) <= PlacesBefore(e, j)
  BY BeforeIs
<1>4. \A i, j \in InTurn(e) : i = j \/ i \in Sooner(e, j) \/ j \in Sooner(e, i)
  BY SoonerOrders
<1>5. \A i : Width(e, i) \in {1, 2}
  BY DEF Width
<1>6. Place(e, x) \in 1 .. Count(e, InTurn(e))
  BY <1>1, <1>2, <1>5
<1>7. ASSUME NEW y \in Halves(e, InTurn(e)), Place(e, x) = Place(e, y)
      PROVE  x = y
  <2>1. x[1] = y[1]
    BY <1>1, <1>2, <1>3, <1>4, <1>5, <1>7
  <2>2. x[2] = y[2]
    BY <1>1, <1>2, <1>5, <1>7, <2>1
  <2> QED
    BY <1>1, <2>1, <2>2, Zenon
<1> QED
  BY <1>6, <1>7

\* The table holds each half of an entry in turn at its own place.
LEMMA TableHas ==
  ASSUME NEW n \in Nat, NEW e \in EntryTables(n)
  PROVE  /\ Len(Instructions(e)) = Count(e, InTurn(e)) + 1
         /\ \A x \in Halves(e, InTurn(e)) : Instructions(e)[Place(e, x)] = HalfOf(e, x)
         /\ Instructions(e)[Count(e, InTurn(e)) + 1] = Instruction(0, 1, "pass", 0)
         /\ \A p \in 1 .. Count(e, InTurn(e)) + 1 :
              Instructions(e)[p].ok \in 0 .. Count(e, InTurn(e)) + 1
<1> DEFINE H == Halves(e, InTurn(e))
           c == Count(e, InTurn(e))
<1>1. c \in Nat /\ c = Cardinality(H)
  BY Counted DEF Count
<1>2. \A x \in H : /\ Place(e, x) \in 1 .. c
                   /\ \A y \in H : Place(e, x) = Place(e, y) => x = y
  BY PlacesDiffer
<1> DEFINE It(p) == IF \E x \in H : Place(e, x) = p
                    THEN HalfOf(e, CHOOSE x \in H : Place(e, x) = p)
                    ELSE Instruction(0, 1, "pass", 0)
<1>3. Instructions(e) = [p \in 1 .. c + 1 |-> It(p)]
  BY <1>1 DEF Instructions
<1> HIDE DEF H, c
<1>4. ASSUME NEW x \in H PROVE It(Place(e, x)) = HalfOf(e, x)
  <2>1. x = CHOOSE y \in H : Place(e, y) = Place(e, x)
    BY <1>2, Zenon
  <2> QED
    BY <2>1, Zenon
<1>5. It(c + 1) = Instruction(0, 1, "pass", 0)
  BY <1>1, <1>2
<1>9. \A p \in 1 .. c + 1 : It(p).ok \in 0 .. c + 1
  <2>1. \A x \in H : HalfOf(e, x).ok \in 0 .. c + 1
    BY <1>1, <1>2 DEF HalfOf, Instruction
  <2> SUFFICES ASSUME NEW p \in 1 .. c + 1 PROVE It(p).ok \in 0 .. c + 1
    OBVIOUS
  <2>2. CASE \E x \in H : Place(e, x) = p
    <3>1. (CHOOSE x \in H : Place(e, x) = p) \in H
      BY <2>2, Zenon
    <3>2. It(p) = HalfOf(e, CHOOSE x \in H : Place(e, x) = p)
      BY <2>2, Zenon
    <3> QED
      BY <2>1, <3>1, <3>2
  <2>3. CASE ~\E x \in H : Place(e, x) = p
    <3>1. It(p) = Instruction(0, 1, "pass", 0)
      BY <2>3, Zenon
    <3> QED
      BY <1>1, <3>1 DEF Instruction
  <2> QED
    BY <2>2, <2>3
<1> HIDE DEF It
<1>10. \A p \in 1 .. c + 1 : Instructions(e)[p].ok \in 0 .. c + 1
  BY <1>3, <1>9
<1>6. Len(Instructions(e)) = c + 1
  <2> DEFINE S == {It(p) : p \in 1 .. c + 1}
  <2>1. Instructions(e) \in [1 .. c + 1 -> S]
    BY <1>3
  <2> HIDE DEF S
  <2>2. Instructions(e) \in Seq(S)
    BY <1>1, <2>1
  <2>3. DOMAIN Instructions(e) = 1 .. c + 1
    BY <2>1
  <2> QED
    BY <1>1, <2>2, <2>3, LenProperties
<1>7. \A x \in H : Instructions(e)[Place(e, x)] = HalfOf(e, x)
  BY <1>1, <1>2, <1>3, <1>4
<1>8. Instructions(e)[c + 1] = Instruction(0, 1, "pass", 0)
  BY <1>1, <1>3, <1>5
<1> QED
  BY <1>6, <1>7, <1>8, <1>10 DEF H, c

(***************************************************************************)
(* The verdict of a table, by its recursion                                *)
(***************************************************************************)
\* A set of natural numbers that is not empty has a least one.
LEMMA LeastNatural ==
  ASSUME NEW S \in SUBSET Nat, S # {}
  PROVE  \E i \in S : \A j \in S : i <= j
<1>1. PICK m \in S : TRUE
  OBVIOUS
<1> DEFINE F == {(0 .. i) : i \in {j \in S : j <= m}}
<1> DEFINE A == 0 .. m
<1>2. F \in SUBSET SUBSET A /\ F # {}
  <2>1. \A i \in S : i <= m => 0 .. i \subseteq 0 .. m
    OBVIOUS
  <2>2. m \in {j \in S : j <= m}
    BY <1>1
  <2> QED
    BY <2>1, <2>2, Zenon
<1>3. IsFiniteSet(A)
  BY <1>1, FS_Interval
<1> HIDE DEF F, A
<1>4. PICK X \in F : \A Y \in F : Y \subseteq X => Y = X
  BY <1>2, <1>3, LeastPart
<1>5. PICK i \in S : i <= m /\ X = 0 .. i
  BY DEF F
<1>6. \A j \in S : i <= j
  <2> SUFFICES ASSUME NEW j \in S, j < i PROVE FALSE
    OBVIOUS
  <2>1. 0 .. j \in F
    BY <1>5 DEF F
  <2>2. 0 .. j \subseteq 0 .. i /\ 0 .. j # 0 .. i
    OBVIOUS
  <2> QED
    BY <1>4, <1>5, <2>1, <2>2
<1> QED
  BY <1>6

\* One step of Run, from position p, when g has the verdicts from later ones.
Decides(t, frame, g, p) ==
  IF p = Len(t) THEN "ran out"
  ELSE LET i == t[p + 1]
           hit == i.handle = 0 \/ <<i.handle, i.half>> \in frame
       IN CASE hit /\ i.act # "none" -> i.act
            [] ~hit /\ i.act = "none" -> IF i.ok > p THEN g[i.ok] ELSE "loops"
            [] OTHER -> g[p + 1]

\* What a table says is where a chosen solution of the recursion begins.
LEMMA RunChooses ==
  ASSUME NEW t, NEW frame
  PROVE  Run(t, frame) = (CHOOSE f : f = [p \in 0 .. Len(t) |-> Decides(t, frame, f, p)])[0]
BY Zenon DEF Run, Decides

\* A solution from the position k places before the end.
SolvedFrom(t, frame, k, g) ==
  /\ g = [p \in 0 .. Len(t) |-> g[p]]
  /\ \A p \in 0 .. Len(t) : p >= Len(t) - k => g[p] = Decides(t, frame, g, p)

\* What solves the recursion from a place on is extended by the place before.
LEMMA OneMore ==
  ASSUME NEW t, NEW n \in Nat, Len(t) = n, NEW frame, \A p \in 1 .. n : t[p].ok \in 0 .. n,
         NEW k \in Nat, k < n, NEW g, SolvedFrom(t, frame, k, g)
  PROVE  \E h : SolvedFrom(t, frame, k + 1, h)
<1> DEFINE q == n - (k + 1)
           h == [p \in 0 .. n |-> IF p = q THEN Decides(t, frame, g, q) ELSE g[p]]
<1>1. q \in 0 .. n - 1 /\ n - k = q + 1
  OBVIOUS
<1>2. \A p \in 0 .. n : p # q => h[p] = g[p]
  OBVIOUS
<1>3. h[q] = Decides(t, frame, g, q)
  BY <1>1
<1>4. h = [p \in 0 .. n |-> h[p]]
  OBVIOUS
<1> HIDE DEF h, q
<1>5. ASSUME NEW p \in 0 .. n, p >= q PROVE Decides(t, frame, h, p) = Decides(t, frame, g, p)
  <2>1. CASE p = n
    BY <2>1 DEF Decides
  <2>2. CASE p # n
    <3>1. h[p + 1] = g[p + 1]
      BY <1>1, <1>2, <1>5, <2>2
    <3>2. t[p + 1].ok \in 0 .. n
      BY <2>2
    <3>3. t[p + 1].ok > p => h[t[p + 1].ok] = g[t[p + 1].ok]
      BY <1>1, <1>2, <1>5, <3>2
    <3> QED
      BY <3>1, <3>3 DEF Decides
  <2> QED
    BY <2>1, <2>2
<1>6. \A p \in 0 .. n : p >= q + 1 => g[p] = Decides(t, frame, g, p)
  BY <1>1 DEF SolvedFrom
<1>7. \A p \in 0 .. n : p >= q => h[p] = Decides(t, frame, h, p)
  <2> SUFFICES ASSUME NEW p \in 0 .. n, p >= q PROVE h[p] = Decides(t, frame, g, p)
    BY <1>5
  <2>1. CASE p = q
    BY <1>3, <2>1
  <2>2. CASE p # q
    BY <1>1, <1>2, <1>6, <2>2
  <2> QED
    BY <2>1, <2>2
<1>8. SolvedFrom(t, frame, k + 1, h)
  BY <1>4, <1>7 DEF SolvedFrom, q
<1> QED
  BY <1>8

\* The verdict is that of a function that solves the recursion: there is one
\* from the end, and no first place it could fail to reach.
LEMMA RunSolves ==
  ASSUME NEW t, NEW n \in Nat, Len(t) = n, NEW frame, \A p \in 1 .. n : t[p].ok \in 0 .. n
  PROVE  \E f : /\ Run(t, frame) = f[0]
                /\ \A p \in 0 .. n : f[p] = Decides(t, frame, f, p)
<1> DEFINE Bad == {k \in 0 .. n : ~\E g : SolvedFrom(t, frame, k, g)}
<1>1. \E g : SolvedFrom(t, frame, 0, g)
  <2> DEFINE g == [p \in 0 .. n |-> "ran out"]
  <2>1. g = [p \in 0 .. n |-> g[p]]
    OBVIOUS
  <2>2. Decides(t, frame, g, n) = g[n]
    <3>1. g[n] = "ran out"
      OBVIOUS
    <3> HIDE DEF g
    <3>2. Decides(t, frame, g, n) = "ran out"
      BY Zenon DEF Decides
    <3> QED
      BY <3>1, <3>2
  <2> HIDE DEF g
  <2>3. SolvedFrom(t, frame, 0, g)
    BY <2>1, <2>2 DEF SolvedFrom
  <2> QED
    BY <2>3
<1>2. Bad = {}
  <2> SUFFICES ASSUME Bad # {} PROVE FALSE
    OBVIOUS
  <2>1. Bad \in SUBSET Nat
    OBVIOUS
  <2>2. PICK k \in Bad : \A j \in Bad : k <= j
    BY <2>1, LeastNatural
  <2>3. k # 0
    BY <1>1
  <2>4. k - 1 \in 0 .. n /\ k - 1 \notin Bad /\ k - 1 < n
    BY <2>2, <2>3
  <2>5. PICK g : SolvedFrom(t, frame, k - 1, g)
    BY <2>4
  <2>6. \E h : SolvedFrom(t, frame, (k - 1) + 1, h)
    BY <2>3, <2>4, <2>5, OneMore
  <2> QED
    BY <2>2, <2>6
<1>3. PICK g : SolvedFrom(t, frame, n, g)
  BY <1>2
<1>4. g = [p \in 0 .. n |-> Decides(t, frame, g, p)]
  <2>1. \A p \in 0 .. n : p >= n - n
    OBVIOUS
  <2>2. \A p \in 0 .. n : g[p] = Decides(t, frame, g, p)
    BY <1>3, <2>1 DEF SolvedFrom
  <2>3. g = [p \in 0 .. n |-> g[p]]
    BY <1>3 DEF SolvedFrom
  <2> DEFINE D(p) == Decides(t, frame, g, p)
             G(p) == g[p]
  <2>4. \A p \in 0 .. n : G(p) = D(p)
    BY <2>2
  <2>5. g = [p \in 0 .. n |-> G(p)]
    BY <2>3
  <2> HIDE DEF D, G
  <2>6. g = [p \in 0 .. n |-> D(p)]
    BY <2>4, <2>5
  <2> QED
    BY <2>6 DEF D
<1> DEFINE f == CHOOSE f : f = [p \in 0 .. n |-> Decides(t, frame, f, p)]
<1>5. f = [p \in 0 .. n |-> Decides(t, frame, f, p)]
  BY <1>4, Zenon
<1>6. Run(t, frame) = f[0]
  BY RunChooses, Zenon
<1> HIDE DEF f
<1>7. \A p \in 0 .. n : f[p] = Decides(t, frame, f, p)
  <2> DEFINE D(p) == Decides(t, frame, f, p)
  <2>1. f = [p \in 0 .. n |-> D(p)]
    BY <1>5
  <2> HIDE DEF D
  <2>2. \A p \in 0 .. n : f[p] = D(p)
    BY <2>1
  <2> QED
    BY <2>2 DEF D
<1> QED
  BY <1>6, <1>7

(***************************************************************************)
(* Entries and rules in accord                                             *)
(***************************************************************************)
\* Entry i, with its fragment, is that of rule x.
HasRule(e, i, x) ==
  /\ e[i].handle = x[1] /\ e[i].prio = x[2].prio
  /\ IF x[2].split
     THEN /\ e[i].ptr # 0 /\ e[e[i].ptr].used /\ e[e[i].ptr].frag
          /\ e[e[i].ptr].handle = x[1] /\ e[e[i].ptr].act = x[2].act
     ELSE e[i].ptr = 0 /\ e[i].act = x[2].act

\* The rules and the entries in turn are each other's, one of a handle; a
\* fragment belongs to an entry in turn; what a handle of a rule finds is in turn.
RulesByHandle(rules) ==
  /\ rules \in SUBSET (Handles \X Rule)
  /\ \A x \in rules : x[2].act \in {"pass", "drop"} /\ \A y \in rules : x[1] = y[1] => x = y
Sound(n, e, rules) ==
  /\ e \in EntryTables(n) /\ RulesByHandle(rules)
  /\ \A x \in rules : \E i \in InTurn(e) : HasRule(e, i, x)
  /\ \A i \in InTurn(e) : \E x \in rules : HasRule(e, i, x)
  /\ \A i, j \in InTurn(e) : e[i].handle = e[j].handle => i = j
  /\ \A i \in 1 .. n : e[i].frag => e[i].used /\ \E j \in InTurn(e) : e[j].ptr = i
  /\ \A i \in 1 .. n : ~e[i].frag /\ (\E x \in rules : e[i].handle = x[1]) => i \in InTurn(e)
  /\ \A i \in 1 .. n : e[i].ptr # i
  /\ n > 0 => e[n].used /\ ~e[n].frag /\ e[n].handle = 0 /\ e[n].ptr = 0

\* An entry has a second half when its rule is a split one.
LEMMA HalvesOfRule ==
  ASSUME NEW n \in Nat, NEW e \in EntryTables(n), NEW i \in InTurn(e), NEW x, HasRule(e, i, x),
         x[2].split \in BOOLEAN
  PROVE  /\ Width(e, i) = IF x[2].split THEN 2 ELSE 1
         /\ LET t == Instructions(e)
                b == PlacesBefore(e, i)
            IN IF x[2].split
               THEN /\ t[b + 1] = Instruction(x[1], 1, "none", b + 2)
                    /\ t[b + 2] = Instruction(x[1], 2, x[2].act, 0)
               ELSE t[b + 1] = Instruction(x[1], 1, x[2].act, 0)
<1> DEFINE t == Instructions(e)
           b == PlacesBefore(e, i)
<1>0. b \in Nat
  BY BeforeIs
<1>1. \A k \in {1, 2} : <<i, k>> \in Halves(e, InTurn(e)) =>
        t[Place(e, <<i, k>>)] = HalfOf(e, <<i, k>>)
  BY TableHas
<1>2. \A k \in {1, 2} : Place(e, <<i, k>>) = b + k
  BY DEF Place, PlacesBefore, Count
<1>3. <<i, 1>> \in Halves(e, InTurn(e)) /\ (e[i].ptr # 0 => <<i, 2>> \in Halves(e, InTurn(e)))
  BY DEF Halves
<1>4. t[b + 1] = HalfOf(e, <<i, 1>>)
  <2>1. 1 \in {1, 2}
    OBVIOUS
  <2> QED
    BY <1>1, <1>2, <1>3, <2>1
<1>5. e[i].ptr # 0 => t[b + 2] = HalfOf(e, <<i, 2>>)
  <2>1. 2 \in {1, 2}
    OBVIOUS
  <2> QED
    BY <1>1, <1>2, <1>3, <2>1
<1> HIDE DEF t, b
<1>6. CASE x[2].split
  <2>1. e[i].ptr # 0 /\ e[e[i].ptr].handle = x[1] /\ e[e[i].ptr].act = x[2].act
        /\ e[i].handle = x[1]
    BY <1>6 DEF HasRule
  <2>2. HalfOf(e, <<i, 1>>) = Instruction(x[1], 1, "none", b + 2)
    <3>1. Place(e, <<i, 1>>) + 1 = b + 2
      BY <1>0, <1>2
    <3> QED
      BY <2>1, <3>1 DEF HalfOf
  <2>3. HalfOf(e, <<i, 2>>) = Instruction(x[1], 2, x[2].act, 0)
    BY <2>1 DEF HalfOf
  <2> QED
    BY <1>4, <1>5, <1>6, <2>1, <2>2, <2>3 DEF Width, t, b
<1>7. CASE ~x[2].split
  <2>1. e[i].ptr = 0 /\ e[i].handle = x[1] /\ e[i].act = x[2].act
    BY <1>7 DEF HasRule
  <2>2. HalfOf(e, <<i, 1>>) = Instruction(x[1], 1, x[2].act, 0)
    BY <2>1 DEF HalfOf
  <2> QED
    BY <1>4, <1>7, <2>1, <2>2 DEF Width, t, b
<1> QED
  BY <1>6, <1>7

\* What an instruction of an entry does with a frame.
LEMMA InstructionDecides ==
  ASSUME NEW t, NEW frame, NEW f, NEW p, p # Len(t), NEW h, NEW half, NEW act, NEW ok,
         t[p + 1] = Instruction(h, half, act, ok)
  PROVE  /\ h = 0 /\ act # "none" => Decides(t, frame, f, p) = act
         /\ h # 0 /\ act # "none" =>
              Decides(t, frame, f, p) = IF <<h, half>> \in frame THEN act ELSE f[p + 1]
         /\ h # 0 /\ act = "none" /\ ok > p =>
              Decides(t, frame, f, p) = IF <<h, half>> \in frame THEN f[p + 1] ELSE f[ok]
<1> DEFINE i == t[p + 1]
           hit == i.handle = 0 \/ <<i.handle, i.half>> \in frame
           D == CASE hit /\ i.act # "none" -> i.act
                  [] ~hit /\ i.act = "none" -> IF i.ok > p THEN f[i.ok] ELSE "loops"
                  [] OTHER -> f[p + 1]
<1>1. i.handle = h /\ i.half = half /\ i.act = act /\ i.ok = ok
  BY DEF Instruction
<1>2. Decides(t, frame, f, p) = D
  BY Zenon DEF Decides
<1> HIDE DEF i
<1>3. hit <=> (h = 0 \/ <<h, half>> \in frame)
  BY <1>1, Zenon
<1> HIDE DEF hit
<1>4. CASE h = 0 /\ act # "none"
  BY <1>1, <1>2, <1>3, <1>4
<1>5. CASE h # 0 /\ act # "none"
  BY <1>1, <1>2, <1>3, <1>5
<1>6. CASE h # 0 /\ act = "none" /\ ok > p
  BY <1>1, <1>2, <1>3, <1>6
<1> QED
  BY <1>4, <1>5, <1>6, Zenon

\* The instructions of a rule decide for a frame that meets it, and send any
\* other past them.
LEMMA EntryDecides ==
  ASSUME NEW n \in Nat, NEW e \in EntryTables(n), NEW i \in InTurn(e),
         NEW x, x[1] # 0, x[2].split \in BOOLEAN, x[2].act # "none", HasRule(e, i, x),
         NEW frame, NEW f,
         \A p \in 0 .. Count(e, InTurn(e)) + 1 : f[p] = Decides(Instructions(e), frame, f, p)
  PROVE  f[PlacesBefore(e, i)] = IF Meets(frame, x) THEN x[2].act ELSE f[PlacesBefore(e, i) + Width(e, i)]
<1> DEFINE t == Instructions(e)
           b == PlacesBefore(e, i)
           c == Count(e, InTurn(e))
<1>1. b \in Nat /\ c \in Nat /\ b + Width(e, i) <= c
  BY BeforeIs
<1>2. Len(t) = c + 1
  BY TableHas
<1>3. \A p \in 0 .. c + 1 : f[p] = Decides(t, frame, f, p)
  OBVIOUS
<1>4. Width(e, i) = IF x[2].split THEN 2 ELSE 1
  BY HalvesOfRule
<1>5. IF x[2].split
      THEN /\ t[b + 1] = Instruction(x[1], 1, "none", b + 2)
           /\ t[b + 2] = Instruction(x[1], 2, x[2].act, 0)
      ELSE t[b + 1] = Instruction(x[1], 1, x[2].act, 0)
  BY HalvesOfRule
<1> HIDE DEF t, b, c
<1>6. CASE x[2].split
  <2>1. b + 2 <= c /\ b \in 0 .. c + 1 /\ b + 1 \in 0 .. c + 1 /\ b # Len(t) /\ b + 1 # Len(t)
    BY <1>1, <1>2, <1>4, <1>6
  <2>2. f[b] = Decides(t, frame, f, b) /\ f[b + 1] = Decides(t, frame, f, b + 1)
    BY <1>3, <2>1
  <2>3. Decides(t, frame, f, b) = IF <<x[1], 1>> \in frame THEN f[b + 1] ELSE f[b + 2]
    BY <1>1, <1>5, <1>6, <2>1, InstructionDecides
  <2>4. Decides(t, frame, f, b + 1) = IF <<x[1], 2>> \in frame THEN x[2].act ELSE f[b + 2]
    <3>1. (b + 1) + 1 = b + 2
      BY <1>1
    <3> QED
      BY <1>5, <1>6, <2>1, <3>1, InstructionDecides
  <2> QED
    BY <1>4, <1>6, <2>2, <2>3, <2>4 DEF Meets, b
<1>7. CASE ~x[2].split
  <2>1. b \in 0 .. c + 1 /\ b # Len(t)
    BY <1>1, <1>2, <1>4, <1>7
  <2>2. f[b] = Decides(t, frame, f, b)
    BY <1>3, <2>1
  <2>3. Decides(t, frame, f, b) = IF <<x[1], 1>> \in frame THEN x[2].act ELSE f[b + 1]
    BY <1>5, <1>7, <2>1, InstructionDecides
  <2> QED
    BY <1>4, <1>7, <2>2, <2>3 DEF Meets, b
<1> QED
  BY <1>6, <1>7

(***************************************************************************)
(* What the table says of a frame                                          *)
(***************************************************************************)
\* The entries from i on, whether a frame meets the rule of one, and what a
\* solution of the recursion is to say from entry i on.
From(e, i) == {j \in InTurn(e) : j = i \/ i \in Sooner(e, j)}
Met(e, rules, frame, i) == \E x \in rules : HasRule(e, i, x) /\ Meets(frame, x)
Decisive(e, rules, frame, i, j, said) ==
  /\ j \in From(e, i)
  /\ \E x \in rules : HasRule(e, j, x) /\ Meets(frame, x) /\ said = x[2].act
  /\ \A k \in From(e, i) : Met(e, rules, frame, k) => k = j \/ j \in Sooner(e, k)
Tells(e, rules, frame, i, said) ==
  \/ \E j : Decisive(e, rules, frame, i, j, said)
  \/ said = "pass" /\ \A k \in From(e, i) : ~Met(e, rules, frame, k)

\* The entries from one on, and those from the next.
LEMMA FromNext ==
  ASSUME NEW n \in Nat, NEW e \in EntryTables(n), NEW i \in InTurn(e), NEW j \in InTurn(e),
         Sooner(e, j) = Sooner(e, i) \cup {i}
  PROVE  From(e, i) = From(e, j) \cup {i}
<1>1. ASSUME NEW k \in From(e, i), k # i PROVE k \in From(e, j)
  <2>1. k \in InTurn(e) /\ i \in Sooner(e, k)
    BY <1>1 DEF From
  <2>2. k \notin Sooner(e, i)
    BY <2>1, SoonerOrders
  <2>3. k = j \/ j \in Sooner(e, k)
    BY <1>1, <2>1, <2>2, SoonerOrders
  <2> QED
    BY <2>1, <2>3 DEF From
<1>2. ASSUME NEW k \in From(e, j) PROVE k \in From(e, i)
  <2>1. k \in InTurn(e) /\ (k = j \/ j \in Sooner(e, k))
    BY DEF From
  <2>2. i \in Sooner(e, k)
    BY <2>1, SoonerOrders
  <2> QED
    BY <2>1, <2>2 DEF From
<1>3. i \in From(e, i)
  BY DEF From
<1> QED
  BY <1>1, <1>2, <1>3

\* If it does from the next entry on, it does from entry i on.
LEMMA TellsOn ==
  ASSUME NEW n \in Nat, NEW e \in EntryTables(n), NEW i \in InTurn(e), NEW j \in InTurn(e),
         Sooner(e, j) = Sooner(e, i) \cup {i}, NEW rules, NEW frame, NEW said,
         ~Met(e, rules, frame, i), Tells(e, rules, frame, j, said)
  PROVE  Tells(e, rules, frame, i, said)
<1>1. From(e, i) = From(e, j) \cup {i}
  BY FromNext
<1>2. \A k : Decisive(e, rules, frame, j, k, said) => Decisive(e, rules, frame, i, k, said)
  BY <1>1 DEF Decisive
<1>3. (\A k \in From(e, j) : ~Met(e, rules, frame, k))
        => \A k \in From(e, i) : ~Met(e, rules, frame, k)
  BY <1>1
<1> QED
  BY <1>2, <1>3 DEF Tells

\* What is told from the first entry on is what the rules say.
LEMMA ToldFromFirst ==
  ASSUME NEW n \in Nat, NEW e \in EntryTables(n), NEW rules, Sound(n, e, rules), NEW frame,
         NEW i \in InTurn(e), Sooner(e, i) = {}, NEW said, Tells(e, rules, frame, i, said)
  PROVE  said \in Verdicts(rules, frame)
<1> DEFINE met == {x \in rules : Meets(frame, x)}
<1>1. From(e, i) = InTurn(e)
  BY SoonerOrders DEF From
<1>2. \A x \in rules : \E k \in InTurn(e) : HasRule(e, k, x)
  BY DEF Sound
<1>3. \A x, y \in rules : x[1] = y[1] => x = y
  BY DEF Sound, RulesByHandle
<1>6. \A k \in InTurn(e) : e[k].prio \in Nat
  BY InTurnIs DEF EntryTables, EntryOf
<1>4. CASE met = {}
  <2>1. \A k : ~Met(e, rules, frame, k)
    BY <1>4 DEF Met
  <2>2. \A j : ~Decisive(e, rules, frame, i, j, said)
    BY <1>4 DEF Decisive
  <2> QED
    BY <1>4, <2>2 DEF Tells, Verdicts
<1>5. CASE met # {}
  <2>1. PICK z \in met : TRUE
    BY <1>5
  <2>2. \E k \in From(e, i) : Met(e, rules, frame, k)
    BY <1>1, <1>2, <2>1 DEF Met
  <2>3. PICK j : Decisive(e, rules, frame, i, j, said)
    BY <2>2 DEF Tells
  <2>4. PICK x \in met : HasRule(e, j, x) /\ said = x[2].act
    BY <2>3 DEF Decisive
  <2>5. \A y \in met : x[2].prio <= y[2].prio
    <3> SUFFICES ASSUME NEW y \in met PROVE x[2].prio <= y[2].prio
      OBVIOUS
    <3>1. PICK k \in InTurn(e) : HasRule(e, k, y)
      BY <1>2
    <3>2. k = j \/ j \in Sooner(e, k)
      BY <1>1, <2>3, <3>1 DEF Decisive, Met
    <3>3. e[k].prio = y[2].prio /\ e[j].prio = x[2].prio /\ j \in InTurn(e)
      BY <1>1, <2>3, <2>4, <3>1 DEF HasRule, Decisive
    <3>4. e[k].prio \in Nat /\ e[j].prio \in Nat
      BY <1>6, <3>3
    <3>5. CASE k = j
      BY <3>3, <3>4, <3>5
    <3>6. CASE j \in Sooner(e, k)
      BY <3>3, <3>4, <3>6 DEF Sooner
    <3> QED
      BY <3>2, <3>5, <3>6
  <2>6. Verdicts(rules, frame) = {y[2].act : y \in {u \in met : \A v \in met : u[2].prio <= v[2].prio}}
    BY <1>5, Zenon DEF Verdicts
  <2> QED
    BY <2>4, <2>5, <2>6
<1> QED
  BY <1>4, <1>5

\* The last instruction lets every frame pass.
LEMMA PassDecides ==
  ASSUME NEW t, NEW frame, NEW f, NEW p, p # Len(t), t[p + 1] = Instruction(0, 1, "pass", 0)
  PROVE  Decides(t, frame, f, p) = "pass"
<1> DEFINE i == t[p + 1]
           hit == i.handle = 0 \/ <<i.handle, i.half>> \in frame
           D == CASE hit /\ i.act # "none" -> i.act
                  [] ~hit /\ i.act = "none" -> IF i.ok > p THEN f[i.ok] ELSE "loops"
                  [] OTHER -> f[p + 1]
<1>1. i.handle = 0 /\ i.act = "pass"
  BY DEF Instruction
<1>2. Decides(t, frame, f, p) = D
  BY Zenon DEF Decides
<1> HIDE DEF i
<1> QED
  BY <1>1, <1>2

\* The table gives every frame the verdict of the rules: the last entry it would
\* not from is followed by one from which it does, or by the last instruction.
LEMMA TableTells ==
  ASSUME NEW n \in Nat, NEW e, NEW rules, Sound(n, e, rules), InTurn(e) # {}, NEW frame
  PROVE  Run(Instructions(e), frame) \in Verdicts(rules, frame)
<1> DEFINE t == Instructions(e)
           c == Count(e, InTurn(e))
<1>0. e \in EntryTables(n) /\ RulesByHandle(rules)
  BY DEF Sound
<1>1. c \in Nat
  BY <1>0, Counted
<1>2. Len(t) = c + 1 /\ t[c + 1] = Instruction(0, 1, "pass", 0)
      /\ \A p \in 1 .. c + 1 : t[p].ok \in 0 .. c + 1
  BY <1>0, TableHas
<1> HIDE DEF c, t
<1>3. PICK f : /\ Run(t, frame) = f[0]
               /\ \A p \in 0 .. c + 1 : f[p] = Decides(t, frame, f, p)
  BY <1>1, <1>2, RunSolves
<1>4. f[c] = "pass"
  <2>1. f[c] = Decides(t, frame, f, c) /\ c # Len(t)
    BY <1>1, <1>2, <1>3
  <2>2. Decides(t, frame, f, c) = "pass"
    BY <1>2, <2>1, PassDecides
  <2> QED
    BY <2>1, <2>2
<1>5. ASSUME NEW i \in InTurn(e), NEW x \in rules, HasRule(e, i, x)
      PROVE  f[PlacesBefore(e, i)] = IF Meets(frame, x) THEN x[2].act ELSE f[PlacesBefore(e, i) + Width(e, i)]
  <2>1. x[1] # 0 /\ x[2].split \in BOOLEAN /\ x[2].act # "none"
    BY <1>0, ParserAssumption DEF RulesByHandle, Rule
  <2> QED
    BY <1>0, <1>3, <1>5, <2>1, EntryDecides DEF t, c
<1> DEFINE Bad == {i \in InTurn(e) : ~Tells(e, rules, frame, i, f[PlacesBefore(e, i)])}
<1>6. Bad = {}
  <2> SUFFICES ASSUME Bad # {} PROVE FALSE
    OBVIOUS
  <2>1. PICK i \in Bad : \A j \in Bad : i \notin Sooner(e, j)
    <3>1. Bad \in SUBSET InTurn(e)
      OBVIOUS
    <3> HIDE DEF Bad
    <3> QED
      BY <1>0, <3>1, LastInTurn
  <2>2. i \in InTurn(e)
    OBVIOUS
  <2>3. PICK x \in rules : HasRule(e, i, x)
    BY <2>2 DEF Sound
  <2>4. CASE Meets(frame, x)
    <3>1. Decisive(e, rules, frame, i, i, f[PlacesBefore(e, i)])
      BY <1>5, <2>2, <2>3, <2>4 DEF Decisive, From
    <3> QED
      BY <3>1 DEF Tells
  <2>5. CASE ~Meets(frame, x)
    <3>1. f[PlacesBefore(e, i)] = f[PlacesBefore(e, i) + Width(e, i)]
      BY <1>5, <2>2, <2>3, <2>5
    <3>2. ~Met(e, rules, frame, i)
      BY <1>0, <2>3, <2>5 DEF Met, HasRule, RulesByHandle
    <3>3. CASE PlacesBefore(e, i) + Width(e, i) = c /\ InTurn(e) = Sooner(e, i) \cup {i}
      <4>1. \A k \in From(e, i) : k = i
        BY <1>0, <2>2, <3>3, SoonerOrders DEF From
      <4> QED
        BY <1>4, <3>1, <3>2, <3>3, <4>1 DEF Tells
    <3>4. ASSUME NEW j \in InTurn(e), Sooner(e, j) = Sooner(e, i) \cup {i},
                 PlacesBefore(e, j) = PlacesBefore(e, i) + Width(e, i)
          PROVE  FALSE
      <4>1. Tells(e, rules, frame, j, f[PlacesBefore(e, j)])
        BY <2>1, <3>4
      <4>2. Tells(e, rules, frame, i, f[PlacesBefore(e, i)])
        BY <1>0, <2>2, <3>1, <3>2, <3>4, <4>1, TellsOn
      <4> QED
        BY <4>2
    <3>5. \/ PlacesBefore(e, i) + Width(e, i) = c /\ InTurn(e) = Sooner(e, i) \cup {i}
          \/ \E j \in InTurn(e) : /\ Sooner(e, j) = Sooner(e, i) \cup {i}
                                  /\ PlacesBefore(e, j) = PlacesBefore(e, i) + Width(e, i)
      BY <1>0, <2>2, BeforeIs DEF c
    <3> QED
      BY <3>3, <3>4, <3>5
  <2> QED
    BY <2>4, <2>5
<1>7. PICK i \in InTurn(e) : \A j \in InTurn(e) : j \notin Sooner(e, i)
  BY <1>0, FirstInTurn
<1>8. Sooner(e, i) = {}
  BY <1>7 DEF Sooner
<1>9. PlacesBefore(e, i) = 0
  <2>1. Halves(e, {}) = {}
    BY DEF Halves
  <2> QED
    BY <1>8, <2>1, FS_EmptySet DEF PlacesBefore, Count
<1>10. Tells(e, rules, frame, i, f[0])
  BY <1>6, <1>9
<1> QED
  BY <1>0, <1>3, <1>8, <1>10, ToldFromFirst DEF t

(***************************************************************************)
(* A rule added and a rule removed                                         *)
(***************************************************************************)
\* A set of slots has a least and a greatest one.
LEMMA ShortestLongest ==
  ASSUME NEW n \in Nat, NEW S \in SUBSET (1 .. n), S # {}
  PROVE  Min(S) \in S /\ Max(S) \in S
<1>1. \E i \in S : \A j \in S : i <= j
  <2>1. S \in SUBSET Nat
    OBVIOUS
  <2> QED
    BY <2>1, LeastNatural
<1>2. \E i \in S : \A j \in S : j <= i
  <2> DEFINE R == {n - i : i \in S}
  <2>1. R \in SUBSET Nat /\ R # {}
    <3>1. \A i \in S : n - i \in Nat
      OBVIOUS
    <3> QED
      BY <3>1, Zenon
  <2>2. \A i \in S : n - i \in R
    OBVIOUS
  <2> HIDE DEF R
  <2>3. PICK k \in R : \A j \in R : k <= j
    BY <2>1, LeastNatural
  <2>4. PICK i \in S : k = n - i
    BY <2>3 DEF R
  <2>5. \A j \in S : j <= i
    BY <2>2, <2>3, <2>4
  <2> QED
    BY <2>5
<1> QED
  BY <1>1, <1>2, Zenon DEF Min, Max

\* An entry that is not in use may become any other that no rule's handle finds.
LEMMA BlursEntry ==
  ASSUME NEW n \in Nat, NEW e, NEW rules, Sound(n, e, rules), NEW a \in 1 .. n, ~e[a].used,
         NEW g \in EntryTables(n), ~g[a].used, ~g[a].frag, g[a].ptr # a,
         \A x \in rules : g[a].handle # x[1], \A i \in 1 .. n : i # a => g[i] = e[i]
  PROVE  Sound(n, g, rules)
<1>1. e \in EntryTables(n) /\ a # n
  BY DEF Sound
<1>2. InTurn(g) = InTurn(e)
  <2>1. \A i \in 1 .. n : (g[i].used /\ ~g[i].frag /\ i # n) <=> (e[i].used /\ ~e[i].frag /\ i # n)
    OBVIOUS
  <2>2. \A i \in 1 .. n : i \in InTurn(g) <=> i \in InTurn(e)
    BY <1>1, <2>1, InTurnIs
  <2>3. InTurn(g) \subseteq 1 .. n /\ InTurn(e) \subseteq 1 .. n
    BY <1>1, InTurnIs
  <2> QED
    BY <2>2, <2>3
<1>3. \A i \in InTurn(e) : i \in 1 .. n /\ i # a /\ g[i] = e[i]
  BY <1>1, InTurnIs
<1>4. \A i \in InTurn(e), x \in rules : HasRule(e, i, x) => HasRule(g, i, x)
  <2> SUFFICES ASSUME NEW i \in InTurn(e), NEW x \in rules, HasRule(e, i, x) PROVE HasRule(g, i, x)
    OBVIOUS
  <2>1. e[i].ptr \in 0 .. n - 1
    BY <1>1, <1>3 DEF EntryTables, EntryOf
  <2>2. x[2].split => g[e[i].ptr] = e[e[i].ptr]
    BY <2>1 DEF HasRule
  <2> QED
    BY <1>3, <2>2 DEF HasRule
<1>5. RulesByHandle(rules)
  BY DEF Sound
<1>6. (\A x \in rules : \E i \in InTurn(g) : HasRule(g, i, x))
      /\ \A i \in InTurn(g) : \E x \in rules : HasRule(g, i, x)
  BY <1>2, <1>4 DEF Sound
<1>7. \A i, j \in InTurn(g) : g[i].handle = g[j].handle => i = j
  BY <1>2, <1>3 DEF Sound
<1>8. \A i \in 1 .. n : g[i].frag => g[i].used /\ \E j \in InTurn(g) : g[j].ptr = i
  BY <1>2, <1>3 DEF Sound
<1>9. \A i \in 1 .. n : ~g[i].frag /\ (\E x \in rules : g[i].handle = x[1]) => i \in InTurn(g)
  BY <1>2 DEF Sound
<1>10. \A i \in 1 .. n : g[i].ptr # i
  BY DEF Sound
<1>11. n > 0 => g[n].used /\ ~g[n].frag /\ g[n].handle = 0 /\ g[n].ptr = 0
  BY <1>1 DEF Sound
<1> QED
  BY <1>5, <1>6, <1>7, <1>8, <1>9, <1>10, <1>11 DEF Sound

\* A rule with a new handle is added in entries that are not in use.
LEMMA AddsRule ==
  ASSUME NEW n \in Nat, NEW e, NEW rules, Sound(n, e, rules), NEW a \in 1 .. n, ~e[a].used,
         NEW x \in Handles \X Rule, x[2].act \in {"pass", "drop"},
         \A i \in 1 .. n : e[i].handle # x[1],
         NEW g \in EntryTables(n), g[a].used, ~g[a].frag, HasRule(g, a, x),
         g[a].ptr # 0 => ~e[g[a].ptr].used, \A i \in 1 .. n : g[i].ptr # i,
         \A i \in 1 .. n : i # a /\ i # g[a].ptr => g[i] = e[i]
  PROVE  Sound(n, g, rules \cup {x})
<1> DEFINE f == g[a].ptr
<1>1. e \in EntryTables(n) /\ a # n /\ f \in 0 .. n - 1 /\ f # a
  <2>1. e \in EntryTables(n) /\ a # n
    BY DEF Sound
  <2>2. g[a] \in EntryOf(n)
    BY DEF EntryTables
  <2> QED
    BY <2>1, <2>2 DEF EntryOf
<1>2. f # 0 => g[f].used /\ g[f].frag /\ g[f].handle = x[1]
  BY DEF HasRule
<1>3. InTurn(g) = InTurn(e) \cup {a}
  <2>1. ASSUME NEW i \in 1 .. n, i # a, i # f
        PROVE  (g[i].used /\ ~g[i].frag /\ i # n) <=> (e[i].used /\ ~e[i].frag /\ i # n)
    BY <2>1
  <2>2. f # 0 => ~(g[f].used /\ ~g[f].frag /\ f # n) /\ ~(e[f].used /\ ~e[f].frag /\ f # n)
    BY <1>2
  <2>3. (g[a].used /\ ~g[a].frag /\ a # n) /\ ~e[a].used
    BY <1>1
  <2>4. \A i \in 1 .. n : i \in InTurn(g) <=> i \in InTurn(e) \cup {a}
    BY <1>1, <2>1, <2>2, <2>3, InTurnIs
  <2> QED
    BY <1>1, <2>4, InTurnIs
<1>4. \A i \in InTurn(e) : i \in 1 .. n /\ i # a /\ i # f /\ g[i] = e[i]
  BY <1>1, InTurnIs
<1>5. \A i \in InTurn(e), y \in rules : HasRule(e, i, y) => HasRule(g, i, y)
  <2> SUFFICES ASSUME NEW i \in InTurn(e), NEW y \in rules, HasRule(e, i, y) PROVE HasRule(g, i, y)
    OBVIOUS
  <2>1. e[i].ptr \in 0 .. n - 1
    BY <1>1, <1>4 DEF EntryTables, EntryOf
  <2>2. y[2].split => g[e[i].ptr] = e[e[i].ptr]
    BY <2>1 DEF HasRule
  <2> QED
    BY <1>4, <2>2 DEF HasRule
<1>6. \A y \in rules : y[1] # x[1]
  <2>1. \A y \in rules : \E i \in InTurn(e) : HasRule(e, i, y)
    BY DEF Sound
  <2> QED
    BY <1>4, <2>1 DEF HasRule
<1>7. RulesByHandle(rules \cup {x})
  BY <1>6 DEF Sound, RulesByHandle
<1>8. (\A y \in rules \cup {x} : \E i \in InTurn(g) : HasRule(g, i, y))
      /\ \A i \in InTurn(g) : \E y \in rules \cup {x} : HasRule(g, i, y)
  BY <1>3, <1>5 DEF Sound
<1>9. \A i, j \in InTurn(g) : g[i].handle = g[j].handle => i = j
  <2>1. g[a].handle = x[1]
    BY DEF HasRule
  <2>2. \A i \in InTurn(e) : g[i].handle # x[1]
    BY <1>4
  <2> QED
    BY <1>3, <1>4, <2>1, <2>2 DEF Sound
<1>10. \A i \in 1 .. n : g[i].frag => g[i].used /\ \E j \in InTurn(g) : g[j].ptr = i
  <2> SUFFICES ASSUME NEW i \in 1 .. n, g[i].frag
               PROVE  g[i].used /\ \E j \in InTurn(g) : g[j].ptr = i
    OBVIOUS
  <2>1. CASE i = f
    BY <1>2, <1>3, <2>1
  <2>2. CASE i # f
    <3>1. e[i].frag /\ g[i] = e[i]
      BY <2>2
    <3>2. e[i].used /\ \E j \in InTurn(e) : e[j].ptr = i
      BY <3>1 DEF Sound
    <3> QED
      BY <1>3, <1>4, <3>1, <3>2
  <2> QED
    BY <2>1, <2>2
<1>11. \A i \in 1 .. n : ~g[i].frag /\ (\E y \in rules \cup {x} : g[i].handle = y[1]) => i \in InTurn(g)
  <2> SUFFICES ASSUME NEW i \in 1 .. n, ~g[i].frag, NEW y \in rules \cup {x}, g[i].handle = y[1],
                      i # a
               PROVE  i \in InTurn(g)
    BY <1>3
  <2>1. i # f /\ g[i] = e[i]
    BY <1>2
  <2>2. y \in rules
    BY <2>1
  <2> QED
    BY <1>3, <2>1, <2>2 DEF Sound
<1>12. n > 0 => g[n].used /\ ~g[n].frag /\ g[n].handle = 0 /\ g[n].ptr = 0
  BY <1>1 DEF Sound
<1> QED
  BY <1>7, <1>8, <1>9, <1>10, <1>11, <1>12 DEF Sound

\* A rule is removed with its fragment.
LEMMA RemovesRule ==
  ASSUME NEW n \in Nat, NEW e, NEW rules, Sound(n, e, rules), NEW a \in InTurn(e),
         NEW x \in rules, HasRule(e, a, x),
         NEW g \in EntryTables(n), ~g[a].used, ~g[a].frag,
         e[a].ptr # 0 => ~g[e[a].ptr].used /\ ~g[e[a].ptr].frag,
         \A i \in 1 .. n : g[i].ptr = e[i].ptr /\ g[i].handle = e[i].handle,
         \A i \in 1 .. n : i # a /\ i # e[a].ptr => g[i] = e[i]
  PROVE  Sound(n, g, rules \ {x})
<1> DEFINE f == e[a].ptr
<1>1. e \in EntryTables(n) /\ a \in 1 .. n /\ a # n /\ f \in 0 .. n - 1 /\ f # a
      /\ e[a].used /\ ~e[a].frag
  <2>1. e \in EntryTables(n)
    BY DEF Sound
  <2>2. a \in 1 .. n /\ a # n /\ e[a].used /\ ~e[a].frag
    BY <2>1, InTurnIs
  <2> QED
    BY <2>1, <2>2 DEF Sound, EntryTables, EntryOf
<1>2. (f # 0 => e[f].used /\ e[f].frag /\ e[f].handle = x[1]) /\ e[a].handle = x[1]
  BY DEF HasRule
<1>3. InTurn(g) = InTurn(e) \ {a}
  <2>1. \A i \in 1 .. n : i \in InTurn(g) <=> i \in InTurn(e) \ {a}
    BY <1>1, <1>2, InTurnIs
  <2> QED
    BY <1>1, <2>1, InTurnIs
<1>4. \A i \in InTurn(e) \ {a} : i \in 1 .. n /\ i # f /\ g[i] = e[i]
  BY <1>1, <1>2, InTurnIs
<1>5. \A y \in rules : y # x => y[1] # x[1]
  BY DEF Sound, RulesByHandle
<1>6. \A i \in InTurn(e), y \in rules \ {x} : HasRule(e, i, y) => i # a /\ HasRule(g, i, y)
  <2> SUFFICES ASSUME NEW i \in InTurn(e), NEW y \in rules \ {x}, HasRule(e, i, y)
               PROVE  i # a /\ HasRule(g, i, y)
    OBVIOUS
  <2>1. i # a
    BY <1>2, <1>5 DEF HasRule
  <2>2. e[i].ptr \in 0 .. n - 1
    BY <1>1, <1>4, <2>1 DEF EntryTables, EntryOf
  <2>3. y[2].split => g[e[i].ptr] = e[e[i].ptr]
    BY <1>1, <1>2, <1>5, <2>2 DEF HasRule
  <2> QED
    BY <1>4, <2>1, <2>3 DEF HasRule
<1>7. RulesByHandle(rules \ {x})
  BY DEF Sound, RulesByHandle
<1>8. \A y \in rules \ {x} : \E i \in InTurn(g) : HasRule(g, i, y)
  BY <1>3, <1>6 DEF Sound
<1>9. \A i \in InTurn(g) : \E y \in rules \ {x} : HasRule(g, i, y)
  <2> SUFFICES ASSUME NEW i \in InTurn(e), i # a PROVE \E y \in rules \ {x} : HasRule(g, i, y)
    BY <1>3
  <2>1. PICK y \in rules : HasRule(e, i, y)
    BY DEF Sound
  <2>2. e[i].handle # e[a].handle
    BY <2>1 DEF Sound
  <2>3. y # x
    BY <1>2, <2>1, <2>2 DEF HasRule
  <2> QED
    BY <1>6, <2>1, <2>3
<1>10. \A i, j \in InTurn(g) : g[i].handle = g[j].handle => i = j
  BY <1>3, <1>4 DEF Sound
<1>11. \A i \in 1 .. n : g[i].frag => g[i].used /\ \E j \in InTurn(g) : g[j].ptr = i
  <2> SUFFICES ASSUME NEW i \in 1 .. n, g[i].frag
               PROVE  g[i].used /\ \E j \in InTurn(g) : g[j].ptr = i
    OBVIOUS
  <2>1. i # a /\ i # f /\ g[i] = e[i]
    OBVIOUS
  <2>2. PICK j \in InTurn(e) : e[i].used /\ e[j].ptr = i
    BY <2>1 DEF Sound
  <2>3. j # a
    BY <2>1, <2>2
  <2> QED
    BY <1>3, <1>4, <2>1, <2>2, <2>3
<1>12. \A i \in 1 .. n : ~g[i].frag /\ (\E y \in rules \ {x} : g[i].handle = y[1]) => i \in InTurn(g)
  <2> SUFFICES ASSUME NEW i \in 1 .. n, ~g[i].frag, NEW y \in rules \ {x}, g[i].handle = y[1]
               PROVE  i \in InTurn(g)
    OBVIOUS
  <2>1. i # a /\ i # f
    BY <1>1, <1>2, <1>5
  <2>2. g[i] = e[i]
    BY <2>1
  <2> QED
    BY <1>3, <2>1, <2>2 DEF Sound
<1>13. (\A i \in 1 .. n : g[i].ptr # i)
       /\ (n > 0 => g[n].used /\ ~g[n].frag /\ g[n].handle = 0 /\ g[n].ptr = 0)
  BY <1>1, <1>2 DEF Sound
<1> QED
  BY <1>7, <1>8, <1>9, <1>10, <1>11, <1>12, <1>13 DEF Sound

(***************************************************************************)
(* Entries given back                                                      *)
(***************************************************************************)
\* The entries a search for a handle finds.
LEMMA MatchesIs ==
  ASSUME NEW n \in Nat, NEW e \in EntryTables(n), NEW h
  PROVE  /\ Matches(e, h) = {i \in 1 .. n : e[i].handle = h /\ ~e[i].frag}
         /\ Matches(e, h) # {} => Max(Matches(e, h)) \in Matches(e, h)
<1>1. Matches(e, h) = {i \in 1 .. n : e[i].handle = h /\ ~e[i].frag}
  BY LengthOfEntries DEF Matches
<1>2. Matches(e, h) \in SUBSET (1 .. n)
  BY <1>1
<1> QED
  BY <1>1, <1>2, ShortestLongest

\* Tables that differ at most in that entry a is given up.
SameBut(n, e, g, a) ==
  /\ \A i \in 1 .. n : i # a => g[i] = e[i]
  /\ a \in 1 .. n => g[a] = [e[a] EXCEPT !.used = FALSE]

\* Slots given back are free, and otherwise what they were.
LEMMA UnuseIs ==
  ASSUME NEW n \in Nat, NEW e \in EntryTables(n), NEW a, NEW u, u = Unuse(e, {a})
  PROVE  /\ u \in EntryTables(n)
         /\ SameBut(n, e, u, a)
         /\ a \in 1 .. n /\ ~e[a].used => u = e
<1> DEFINE U(i) == IF i \in {a} THEN [e[i] EXCEPT !.used = FALSE] ELSE e[i]
<1>1. u = [i \in 1 .. n |-> U(i)]
  BY LengthOfEntries DEF Unuse
<1>2. \A i \in 1 .. n : e[i] \in EntryOf(n) /\ [e[i] EXCEPT !.used = FALSE] \in EntryOf(n)
  BY DEF EntryTables, EntryOf
<1>3. \A i : i # a => U(i) = e[i]
  OBVIOUS
<1>4. U(a) = [e[a] EXCEPT !.used = FALSE]
  OBVIOUS
<1>5. a \in 1 .. n /\ ~e[a].used => U(a) = e[a]
  BY <1>2, <1>4 DEF EntryOf
<1> HIDE DEF U
<1>6. \A i \in 1 .. n : U(i) \in EntryOf(n)
  BY <1>2, <1>3, <1>4
<1>7. u \in EntryTables(n)
  BY <1>1, <1>6 DEF EntryTables
<1>8. a \in 1 .. n /\ ~e[a].used => u = e
  BY <1>1, <1>3, <1>5 DEF EntryTables
<1>9. SameBut(n, e, u, a)
  BY <1>1, <1>3, <1>4 DEF SameBut
<1> QED
  BY <1>7, <1>8, <1>9

\* Without a fragment that another rule has, a handle that no rule has finds
\* nothing, or an entry that is free and whose fragment is.
LEMMA UnfillsNothing ==
  ASSUME NEW n \in Nat, NEW e, NEW rules, Sound(n, e, rules), NEW h \in Handles,
         \A x \in rules : x[1] # h, ~StaleFragment(e, h)
  PROVE  UnfillEntry(e, h) = e
<1>1. e \in EntryTables(n)
  BY DEF Sound
<1>2. CASE Matches(e, h) = {}
  BY <1>2 DEF UnfillEntry
<1>3. CASE Matches(e, h) # {}
  <2> DEFINE i == Max(Matches(e, h))
             e1 == Unuse(e, {i})
  <2>1. i \in Matches(e, h) /\ i \in 1 .. n /\ e[i].handle = h /\ ~e[i].frag
    BY <1>1, <1>3, MatchesIs
  <2>2. ~e[i].used
    <3> SUFFICES ASSUME e[i].used PROVE FALSE
      BY <1>1, <2>1 DEF EntryTables, EntryOf
    <3>1. h # 0
      BY ParserAssumption
    <3>2. i \in InTurn(e)
      BY <1>1, <2>1, <3>1, InTurnIs DEF Sound
    <3>3. PICK x \in rules : HasRule(e, i, x)
      BY <3>2 DEF Sound
    <3> QED
      BY <2>1, <3>3 DEF HasRule
  <2>3. e[i].ptr # 0 => ~e[e[i].ptr].used
    BY <2>1, <2>2 DEF StaleFragment
  <2> HIDE DEF i
  <2>4. e1 = e
    BY <1>1, <2>1, <2>2, UnuseIs
  <2>5. CASE e[i].ptr = 0
    BY <1>3, <2>4, <2>5 DEF UnfillEntry, i
  <2>6. CASE e[i].ptr # 0
    <3> DEFINE f == e[i].ptr
               e2 == Unuse(e, {f})
    <3>1. f \in 1 .. n /\ ~e[f].used /\ ~e[f].frag
      <4>1. f \in 1 .. n
        BY <1>1, <2>1, <2>6 DEF EntryTables, EntryOf
      <4> QED
        BY <2>3, <2>6, <4>1 DEF Sound
    <3> HIDE DEF f
    <3>2. e2 = e
      BY <1>1, <3>1, UnuseIs
    <3>3. [e EXCEPT ![f].frag = FALSE] = e
      BY <1>1, <3>1 DEF EntryTables, EntryOf
    <3>4. UnfillEntry(e, h) = [e2 EXCEPT ![f].frag = FALSE]
      BY <1>3, <2>4, <2>6 DEF UnfillEntry, i, f
    <3> QED
      BY <3>2, <3>3, <3>4
  <2> QED
    BY <2>5, <2>6
<1> QED
  BY <1>2, <1>3

\* Giving back an entry in turn frees it and its fragment.
LEMMA UnfillsEntry ==
  ASSUME NEW n \in Nat, NEW e \in EntryTables(n), NEW h, Matches(e, h) # {},
         NEW a \in 1 .. n, a = Max(Matches(e, h)), ~e[a].frag, NEW f, f = e[a].ptr, f # a
  PROVE  LET g == UnfillEntry(e, h)
         IN /\ g \in EntryTables(n) /\ ~g[a].used /\ ~g[a].frag
            /\ f # 0 => ~g[f].used /\ ~g[f].frag
            /\ \A i \in 1 .. n : g[i].ptr = e[i].ptr /\ g[i].handle = e[i].handle
            /\ \A i \in 1 .. n : i # a /\ i # f => g[i] = e[i]
<1> DEFINE g == UnfillEntry(e, h)
<1>1. \A i \in 1 .. n : e[i] \in EntryOf(n)
  BY DEF EntryTables
<1>2. f \in 0 .. n - 1
  BY <1>1 DEF EntryOf
<1>3. PICK e1 : e1 = Unuse(e, {a})
  OBVIOUS
<1>4. e1 \in EntryTables(n)
  BY <1>3, UnuseIs
<1>5. SameBut(n, e, e1, a)
  BY <1>3, UnuseIs
<1>6. e1[a] = [e[a] EXCEPT !.used = FALSE]
  BY <1>5 DEF SameBut
<1>7. e1[a].ptr = f /\ e1[a].handle = e[a].handle /\ ~e1[a].used /\ ~e1[a].frag
  BY <1>1, <1>6 DEF EntryOf
<1>8. g = IF e1[a].ptr = 0 THEN e1
          ELSE [Unuse(e1, {e1[a].ptr}) EXCEPT ![e1[a].ptr].frag = FALSE]
  BY <1>3, Zenon DEF UnfillEntry
<1> HIDE DEF g
<1>9. CASE f = 0
  <2>1. g = e1
    BY <1>7, <1>8, <1>9
  <2>2. \A i \in 1 .. n : g[i].ptr = e[i].ptr /\ g[i].handle = e[i].handle
    BY <1>5, <1>7, <2>1 DEF SameBut
  <2> QED
    BY <1>4, <1>5, <1>7, <1>9, <2>1, <2>2 DEF g, SameBut
<1>10. CASE f # 0
  <2>1. PICK e2 : e2 = Unuse(e1, {f})
    OBVIOUS
  <2>2. e2 \in EntryTables(n)
    BY <1>4, <2>1, UnuseIs
  <2>3. SameBut(n, e1, e2, f)
    BY <1>4, <2>1, UnuseIs
  <2>4. f \in 1 .. n
    BY <1>2, <1>10
  <2>5. e2[f] = [e1[f] EXCEPT !.used = FALSE]
    BY <2>3, <2>4 DEF SameBut
  <2>6. e1[f] = e[f]
    BY <1>5, <2>4 DEF SameBut
  <2>7. g = [e2 EXCEPT ![f].frag = FALSE]
    BY <1>7, <1>8, <1>10, <2>1
  <2>8. g = [e2 EXCEPT ![f] = [e2[f] EXCEPT !.frag = FALSE]]
    BY <2>7
  <2>9. [e2[f] EXCEPT !.frag = FALSE] \in EntryOf(n)
    <3>1. e2[f] \in EntryOf(n)
      BY <2>2, <2>4 DEF EntryTables
    <3> QED
      BY <3>1 DEF EntryOf
  <2>10. g \in EntryTables(n) /\ \A i \in 1 .. n : i # f => g[i] = e2[i]
    BY <2>2, <2>3, <2>4, <2>8, <2>9 DEF EntryTables, SameBut
  <2>11. g[f] = [e2[f] EXCEPT !.frag = FALSE]
    BY <2>2, <2>4, <2>8 DEF EntryTables
  <2>12. e[f] \in EntryOf(n)
    BY <1>1, <2>4
  <2>13. ~g[f].used /\ ~g[f].frag /\ g[f].ptr = e[f].ptr /\ g[f].handle = e[f].handle
    BY <2>5, <2>6, <2>11, <2>12 DEF EntryOf
  <2>14. \A i \in 1 .. n : i # a /\ i # f => g[i] = e[i]
    BY <1>5, <2>3, <2>10 DEF SameBut
  <2>15. g[a] = e1[a]
    BY <2>3, <2>10 DEF SameBut
  <2>16. \A i \in 1 .. n : g[i].ptr = e[i].ptr /\ g[i].handle = e[i].handle
    BY <1>7, <2>13, <2>14, <2>15
  <2> QED
    BY <1>7, <2>10, <2>13, <2>14, <2>15, <2>16 DEF g
<1> QED
  BY <1>9, <1>10

\* A rule's handle finds its entry, which is given up with its fragment.
LEMMA UnfillsRule ==
  ASSUME NEW n \in Nat, NEW e, NEW rules, Sound(n, e, rules), NEW x \in rules
  PROVE  /\ Sound(n, UnfillEntry(e, x[1]), rules \ {x})
         /\ \A i \in 1 .. n : UnfillEntry(e, x[1])[i].handle = e[i].handle
<1>1. e \in EntryTables(n)
  BY DEF Sound
<1>2. PICK k \in InTurn(e) : HasRule(e, k, x)
  BY DEF Sound
<1>3. k \in Matches(e, x[1]) /\ Matches(e, x[1]) # {}
  BY <1>1, <1>2, InTurnIs, MatchesIs DEF HasRule
<1>4. PICK a \in 1 .. n : a = Max(Matches(e, x[1])) /\ ~e[a].frag /\ e[a].handle = x[1]
  BY <1>1, <1>3, MatchesIs
<1>5. a \in InTurn(e)
  BY <1>4 DEF Sound
<1>6. a = k
  BY <1>2, <1>4, <1>5 DEF Sound, HasRule
<1>7. PICK f : f = e[a].ptr
  OBVIOUS
<1>8. f # a
  BY <1>4, <1>7 DEF Sound
<1>9. PICK g : g = UnfillEntry(e, x[1])
  OBVIOUS
<1>10. /\ g \in EntryTables(n) /\ ~g[a].used /\ ~g[a].frag
       /\ f # 0 => ~g[f].used /\ ~g[f].frag
       /\ \A i \in 1 .. n : g[i].ptr = e[i].ptr /\ g[i].handle = e[i].handle
       /\ \A i \in 1 .. n : i # a /\ i # f => g[i] = e[i]
  BY <1>1, <1>3, <1>4, <1>7, <1>8, <1>9, UnfillsEntry
<1>11. Sound(n, g, rules \ {x})
  BY <1>2, <1>5, <1>6, <1>7, <1>10, RemovesRule
<1> QED
  BY <1>9, <1>10, <1>11

(***************************************************************************)
(* Entries taken                                                           *)
(***************************************************************************)
\* What an entry becomes when a rule takes it, and what its fragment does.
Main(h, r, ptr) ==
  [used |-> TRUE, frag |-> FALSE, prio |-> r.prio, handle |-> h, ptr |-> ptr,
   act |-> IF ptr = 0 THEN r.act ELSE "none"]
Fragment(h, r, ptr) ==
  [used |-> TRUE, frag |-> TRUE, prio |-> r.prio, handle |-> h, ptr |-> ptr, act |-> r.act]
TakeOne(e, a, h, r) ==
  [Take(e, a, h) EXCEPT ![a].ptr = 0, ![a].prio = r.prio, ![a].act = r.act]
TakeTwo(e, a, f, h, r) ==
  [Take(Take(e, a, h), f, h) EXCEPT
     ![a].ptr = f, ![a].prio = r.prio,
     ![f].prio = r.prio, ![f].frag = TRUE, ![f].act = r.act]

Taken(d, h) == [d EXCEPT !.used = TRUE, !.handle = h, !.act = "none"]
MadeMain(d, r, ptr) == [d EXCEPT !.ptr = ptr, !.prio = r.prio]
MadeOne(d, r) == [d EXCEPT !.ptr = 0, !.prio = r.prio, !.act = r.act]
MadeFragment(d, r) == [d EXCEPT !.prio = r.prio, !.frag = TRUE, !.act = r.act]

\* Entries with the same fields are the same.
LEMMA EqualEntries ==
  ASSUME NEW n \in Nat, NEW c \in EntryOf(n), NEW d \in EntryOf(n), c.used = d.used,
         c.frag = d.frag, c.prio = d.prio, c.handle = d.handle, c.ptr = d.ptr, c.act = d.act
  PROVE  c = d
BY DEF EntryOf

\* An entry that was given out.
LEMMA TakenIs ==
  ASSUME NEW n \in Nat, NEW d \in EntryOf(n), NEW h \in Handles, NEW r \in Rule
  PROVE  /\ Taken(d, h) \in EntryOf(n)
         /\ ~d.frag => /\ 0 < n => MadeOne(Taken(d, h), r) = Main(h, r, 0)
                       /\ \A f \in 1 .. n - 1 : MadeMain(Taken(d, h), r, f) = Main(h, r, f)
         /\ MadeFragment(Taken(d, h), r) = Fragment(h, r, d.ptr)
<1>1. PICK c : c = Taken(d, h)
  OBVIOUS
<1>2. /\ c \in EntryOf(n) /\ c.used = TRUE /\ c.frag = d.frag /\ c.handle = h
      /\ c.ptr = d.ptr /\ c.act = "none"
  BY <1>1 DEF Taken, EntryOf
<1>3. r.prio \in Nat /\ r.act \in {"pass", "drop", "other"}
  BY ParserAssumption DEF Rule
<1>4. ASSUME ~d.frag, 0 < n PROVE MadeOne(c, r) = Main(h, r, 0)
  <2>1. c.frag = FALSE
    BY <1>2, <1>4 DEF EntryOf
  <2>2. PICK g : g = MadeOne(c, r)
    OBVIOUS
  <2>7. 0 \in 0 .. n - 1
    BY <1>4
  <2>3. g \in EntryOf(n)
    BY <1>2, <1>3, <2>2, <2>7 DEF MadeOne, EntryOf
  <2>5. g.used = c.used /\ g.frag = c.frag /\ g.handle = c.handle
    BY <1>2, <2>2 DEF MadeOne, EntryOf
  <2>6. g.prio = r.prio /\ g.ptr = 0 /\ g.act = r.act
    BY <1>2, <2>2 DEF MadeOne, EntryOf
  <2>4. Main(h, r, 0) \in EntryOf(n)
    BY <1>3, <1>4 DEF Main, EntryOf
  <2> QED
    BY <1>2, <2>1, <2>2, <2>3, <2>4, <2>5, <2>6, EqualEntries DEF Main
<1>5. ASSUME ~d.frag, NEW f \in 1 .. n - 1 PROVE MadeMain(c, r, f) = Main(h, r, f)
  <2>1. c.frag = FALSE
    BY <1>2, <1>5 DEF EntryOf
  <2>2. PICK g : g = MadeMain(c, r, f)
    OBVIOUS
  <2>7. f # 0 /\ f \in 0 .. n - 1
    BY <1>5
  <2>3. g \in EntryOf(n)
    BY <1>2, <1>3, <2>2, <2>7 DEF MadeMain, EntryOf
  <2>5. g.used = c.used /\ g.frag = c.frag /\ g.handle = c.handle
    BY <1>2, <2>2 DEF MadeMain, EntryOf
  <2>6. g.prio = r.prio /\ g.ptr = f /\ g.act = "none"
    BY <1>2, <2>2 DEF MadeMain, EntryOf
  <2>4. Main(h, r, f) \in EntryOf(n)
    BY <1>3, <1>5 DEF Main, EntryOf
  <2> QED
    BY <1>2, <2>1, <2>2, <2>3, <2>4, <2>5, <2>6, <2>7, EqualEntries DEF Main
<1>6. MadeFragment(c, r) = Fragment(h, r, d.ptr)
  <2>1. PICK g : g = MadeFragment(c, r)
    OBVIOUS
  <2>2. /\ g \in EntryOf(n) /\ g.used = TRUE /\ g.frag = TRUE /\ g.prio = r.prio
        /\ g.handle = h /\ g.ptr = d.ptr /\ g.act = r.act
    BY <1>2, <1>3, <2>1 DEF MadeFragment, EntryOf
  <2>3. Fragment(h, r, d.ptr) \in EntryOf(n)
    BY <1>3 DEF Fragment, EntryOf
  <2> QED
    BY <2>1, <2>2, <2>3, EqualEntries DEF Fragment
<1> QED
  BY <1>1, <1>2, <1>4, <1>5, <1>6

\* A slot given out, and the others as they were.
LEMMA TakeIs ==
  ASSUME NEW n \in Nat, NEW e \in EntryTables(n), NEW a \in 1 .. n, NEW h \in Handles
  PROVE  Take(e, a, h) = [e EXCEPT ![a] = Taken(e[a], h)] /\ Take(e, a, h) \in EntryTables(n)
<1>1. e[a] \in EntryOf(n)
  BY DEF EntryTables
<1>2. Taken(e[a], h) \in EntryOf(n)
  <2>1. PICK d \in EntryOf(n) : d = e[a]
    BY <1>1
  <2>2. Taken(d, h) \in EntryOf(n)
    BY DEF Taken, EntryOf
  <2> QED
    BY <2>1, <2>2
<1>3. Take(e, a, h) = [e EXCEPT ![a] = Taken(e[a], h)]
  BY DEF Take, Taken, EntryTables
<1> QED
  BY <1>2, <1>3 DEF EntryTables

\* A rule without a fragment in the slot it takes.
LEMMA TakeOneIs ==
  ASSUME NEW n \in Nat, NEW e \in EntryTables(n), NEW a \in 1 .. n, ~e[a].frag, NEW h \in Handles,
         NEW r \in Rule
  PROVE  TakeOne(e, a, h, r) = [e EXCEPT ![a] = Main(h, r, 0)]
<1>1. e[a] \in EntryOf(n)
  BY DEF EntryTables
<1>2. PICK t : t = Take(e, a, h)
  OBVIOUS
<1>3. t = [e EXCEPT ![a] = Taken(e[a], h)]
  BY <1>2, TakeIs
<1>4. t[a] = Taken(e[a], h)
  BY <1>3 DEF EntryTables
<1>5. TakeOne(e, a, h, r) = [t EXCEPT ![a] = MadeOne(t[a], r)]
  BY <1>2, <1>3 DEF TakeOne, MadeOne, EntryTables
<1>6. MadeOne(Taken(e[a], h), r) = Main(h, r, 0)
  BY <1>1, TakenIs
<1> QED
  BY <1>3, <1>4, <1>5, <1>6 DEF EntryTables

\* A rule and its fragment in the slots they take.
LEMMA TakeTwoIs ==
  ASSUME NEW n \in Nat, NEW e \in EntryTables(n), NEW a \in 1 .. n, ~e[a].frag, NEW f \in 1 .. n,
         a # f, f # n, NEW h \in Handles, NEW r \in Rule
  PROVE  TakeTwo(e, a, f, h, r)
           = [e EXCEPT ![a] = Main(h, r, f), ![f] = Fragment(h, r, e[f].ptr)]
<1>0. e[a] \in EntryOf(n) /\ e[f] \in EntryOf(n)
  BY DEF EntryTables
<1>3. PICK t : t = Take(e, a, h)
  OBVIOUS
<1>4. t = [e EXCEPT ![a] = Taken(e[a], h)] /\ t \in EntryTables(n)
  BY <1>3, TakeIs
<1>5. t[f] = e[f] /\ t[a] = Taken(e[a], h)
  BY <1>4 DEF EntryTables
<1>6. PICK u : u = Take(t, f, h)
  OBVIOUS
<1>7. u = [t EXCEPT ![f] = Taken(e[f], h)] /\ u \in EntryTables(n)
  <2>1. Take(t, f, h) = [t EXCEPT ![f] = Taken(t[f], h)] /\ Take(t, f, h) \in EntryTables(n)
    <3>1. t \in EntryTables(n)
      BY <1>4
    <3> QED
      BY <3>1, TakeIs
  <2> QED
    BY <1>5, <1>6, <2>1
<1>8. u[f] = Taken(e[f], h) /\ u[a] = Taken(e[a], h)
  BY <1>4, <1>5, <1>7 DEF EntryTables
<1>9. TakeTwo(e, a, f, h, r)
        = [u EXCEPT ![a] = MadeMain(u[a], r, f), ![f] = MadeFragment(u[f], r)]
  <2>1. TakeTwo(e, a, f, h, r)
          = [u EXCEPT ![a].ptr = f, ![a].prio = r.prio,
                      ![f].prio = r.prio, ![f].frag = TRUE, ![f].act = r.act]
    BY <1>3, <1>6, Zenon DEF TakeTwo
  <2> QED
    BY <1>7, <2>1 DEF EntryTables, MadeMain, MadeFragment
<1>10. MadeMain(Taken(e[a], h), r, f) = Main(h, r, f)
  BY <1>0, TakenIs
<1>11. MadeFragment(Taken(e[f], h), r) = Fragment(h, r, e[f].ptr)
  BY <1>0, TakenIs
<1> QED
  BY <1>4, <1>7, <1>8, <1>9, <1>10, <1>11 DEF EntryTables

(***************************************************************************)
(* Filling an entry                                                        *)
(***************************************************************************)
\* Tables with the same handles, but for entries that are given handle h.
HandlesOf(n, e, g, h) == \A i \in 1 .. n : g[i].handle \in {e[i].handle, h}

\* A handle in no entry is the handle of no rule.
LEMMA RuleHandles ==
  ASSUME NEW n \in Nat, NEW e, NEW rules, Sound(n, e, rules), NEW x \in rules
  PROVE  \E i \in 1 .. n : e[i].handle = x[1]
<1>1. PICK i \in InTurn(e) : HasRule(e, i, x)
  BY DEF Sound
<1>2. i \in 1 .. n
  BY InTurnIs DEF Sound
<1> QED
  BY <1>1, <1>2 DEF HasRule

\* An entry is left free when its rule is refused.
LEMMA FreesEntry ==
  ASSUME NEW n \in Nat, NEW e, NEW rules, Sound(n, e, rules), NEW h \in Handles,
         \A i \in 1 .. n : e[i].handle # h, NEW a \in 1 .. n, ~e[a].used,
         NEW d \in EntryOf(n), d.handle = h, ~d.frag, d.ptr # a,
         NEW t, t = [e EXCEPT ![a] = d], NEW g, g = Unuse(t, {a})
  PROVE  Sound(n, g, rules) /\ HandlesOf(n, e, g, h)
<1>1. e \in EntryTables(n)
  BY DEF Sound
<1>3. t \in EntryTables(n) /\ t[a] = d /\ \A i \in 1 .. n : i # a => t[i] = e[i]
  BY <1>1 DEF EntryTables
<1>4. g \in EntryTables(n) /\ SameBut(n, t, g, a)
  BY <1>3, UnuseIs
<1>5. (\A i \in 1 .. n : i # a => g[i] = e[i]) /\ g[a] = [d EXCEPT !.used = FALSE]
  BY <1>3, <1>4 DEF SameBut
<1>6. ~g[a].used /\ ~g[a].frag /\ g[a].ptr # a /\ g[a].handle = h
  BY <1>5 DEF EntryOf
<1>7. \A x \in rules : g[a].handle # x[1]
  BY <1>6, RuleHandles
<1>8. Sound(n, g, rules)
  <2>1. g \in EntryTables(n)
    BY <1>4
  <2>2. \A i \in 1 .. n : i # a => g[i] = e[i]
    BY <1>5
  <2> QED
    BY <1>6, <1>7, <2>1, <2>2, BlursEntry
<1> QED
  BY <1>5, <1>6, <1>8 DEF HandlesOf

\* A rule that is accepted has its entry, one that is refused leaves none taken.
LEMMA Fills ==
  ASSUME NEW n \in Nat, NEW e, NEW rules, Sound(n, e, rules), NEW h \in Handles,
         \A i \in 1 .. n : e[i].handle # h, NEW r \in Rule, ~(r.split /\ r.act = "other"),
         NEW new, new = FillEntry(e, h, r)
  PROVE  /\ new.ok => Sound(n, new.ent, rules \cup {<<h, r>>})
         /\ ~new.ok => Sound(n, new.ent, rules)
         /\ HandlesOf(n, e, new.ent, h)
<1>1. e \in EntryTables(n)
  BY DEF Sound
<1>2. Free(e) = {i \in 1 .. n : ~e[i].used}
  BY <1>1, LengthOfEntries DEF Free
<1>3. CASE Free(e) = {}
  <2>1. new = Result(FALSE, e)
    BY <1>3, Zenon DEF FillEntry
  <2> QED
    BY <2>1 DEF Result, HandlesOf
<1>4. CASE Free(e) # {}
  <2>1. PICK a \in 1 .. n : a = Min(Free(e)) /\ a \in Free(e)
    <3>1. Free(e) \in SUBSET (1 .. n)
      BY <1>2
    <3> QED
      BY <1>4, <3>1, ShortestLongest
  <2>2. ~e[a].used /\ ~e[a].frag /\ a # n
    BY <1>2, <2>1 DEF Sound
  <2>3. e[a] \in EntryOf(n) /\ a \in 1 .. n - 1 /\ r.prio \in Nat
        /\ r.act \in {"pass", "drop", "other"} /\ r.split \in BOOLEAN
    <3>1. e[a] \in EntryOf(n) /\ a \in 1 .. n - 1
      BY <1>1, <2>2 DEF EntryTables
    <3>2. r.prio \in Nat /\ r.act \in {"pass", "drop", "other"} /\ r.split \in BOOLEAN
      BY ParserAssumption DEF Rule
    <3> QED
      BY <3>1, <3>2
  <2>4. CASE r.split /\ Free(e) = {a}
    <3>1. PICK d : d = Taken(e[a], h)
      OBVIOUS
    <3>2. d \in EntryOf(n) /\ d.handle = h /\ ~d.frag /\ d.ptr = e[a].ptr
      BY <2>2, <2>3, <3>1 DEF Taken, EntryOf
    <3>3. d.ptr # a
      BY <3>2 DEF Sound
    <3>4. new = Result(FALSE, Unuse(Take(e, a, h), {a}))
      BY <1>4, <2>1, <2>4, Zenon DEF FillEntry
    <3>5. Take(e, a, h) = [e EXCEPT ![a] = d]
      BY <1>1, <3>1, TakeIs
    <3>6. new.ok = FALSE /\ new.ent = Unuse(Take(e, a, h), {a})
      BY <3>4 DEF Result
    <3>7. Sound(n, new.ent, rules) /\ HandlesOf(n, e, new.ent, h)
      <4>1. PICK t : t = Take(e, a, h)
        OBVIOUS
      <4>2. PICK g : g = Unuse(t, {a})
        OBVIOUS
      <4>3. t = [e EXCEPT ![a] = d]
        BY <3>5, <4>1
      <4>4. Sound(n, g, rules) /\ HandlesOf(n, e, g, h)
        BY <2>2, <3>2, <3>3, <4>2, <4>3, FreesEntry
      <4> QED
        BY <3>6, <4>1, <4>2, <4>4
    <3> QED
      BY <3>6, <3>7
  <2>5. CASE ~r.split
    <3>1. PICK d : d = Main(h, r, 0)
      OBVIOUS
    <3>2. d \in EntryOf(n) /\ d.handle = h /\ d.used /\ ~d.frag /\ d.ptr = 0
          /\ d.prio = r.prio /\ d.act = r.act
      BY <2>3, <3>1 DEF Main, EntryOf
    <3>3. PICK g : g = [e EXCEPT ![a] = d]
      OBVIOUS
    <3>4. TakeOne(e, a, h, r) = g
      BY <1>1, <2>2, <3>1, <3>3, TakeOneIs
    <3>6. CASE r.act = "other"
      <4>0. new = Result(FALSE, Unuse(TakeOne(e, a, h, r), {a}))
        BY <1>4, <2>1, <2>5, <3>6, Zenon DEF FillEntry, TakeOne
      <4>1. new.ok = FALSE /\ new.ent = Unuse(g, {a})
        BY <3>4, <4>0 DEF Result
      <4>2. Sound(n, new.ent, rules) /\ HandlesOf(n, e, new.ent, h)
        <5>1. PICK u : u = Unuse(g, {a})
          OBVIOUS
        <5>2. d.ptr # a
          BY <3>2
        <5>3. Sound(n, u, rules) /\ HandlesOf(n, e, u, h)
          BY <2>2, <3>2, <3>3, <5>1, <5>2, FreesEntry
        <5> QED
          BY <4>1, <5>1, <5>3
      <4> QED
        BY <4>1, <4>2
    <3>7. CASE r.act # "other"
      <4>0. new = Result(TRUE, TakeOne(e, a, h, r))
        BY <1>4, <2>1, <2>5, <3>7, Zenon DEF FillEntry, TakeOne
      <4>1. new.ok = TRUE /\ new.ent = g
        BY <3>4, <4>0 DEF Result
      <4>2. g \in EntryTables(n) /\ g[a] = d /\ \A i \in 1 .. n : i # a => g[i] = e[i]
        BY <1>1, <3>2, <3>3 DEF EntryTables
      <4>3. PICK x : x = <<h, r>>
        OBVIOUS
      <4>4. x \in Handles \X Rule /\ x[1] = h /\ x[2] = r
        BY <4>3
      <4>5. HasRule(g, a, x)
        BY <2>5, <3>2, <4>2, <4>4 DEF HasRule
      <4>6. \A i \in 1 .. n : g[i].ptr # i
        BY <3>2, <4>2 DEF Sound
      <4>7. Sound(n, g, rules \cup {x})
        BY <2>2, <2>3, <3>2, <3>7, <4>2, <4>4, <4>5, <4>6, AddsRule
      <4>8. HandlesOf(n, e, g, h)
        BY <3>2, <4>2 DEF HandlesOf
      <4> QED
        BY <4>1, <4>3, <4>7, <4>8
    <3> QED
      BY <3>6, <3>7
  <2>6. CASE r.split /\ Free(e) # {a}
    <3>0. r.act # "other"
      BY <2>6
    <3>1. PICK f \in 1 .. n : f = Min(Free(e) \ {a}) /\ f \in Free(e) \ {a}
      <4>1. Free(e) \ {a} \in SUBSET (1 .. n) /\ Free(e) \ {a} # {}
        BY <1>2, <2>1, <2>6
      <4> QED
        BY <4>1, ShortestLongest
    <3>2. f # a /\ ~e[f].used /\ ~e[f].frag /\ f # n /\ f \in 1 .. n - 1
      BY <1>2, <3>1 DEF Sound
    <3>3. new = Result(TRUE, TakeTwo(e, a, f, h, r))
      BY <1>4, <2>1, <2>6, <3>0, <3>1, Zenon DEF FillEntry, TakeTwo
    <3>4. PICK d : d = Main(h, r, f)
      OBVIOUS
    <3>5. d \in EntryOf(n) /\ d.handle = h /\ d.used /\ ~d.frag /\ d.ptr = f /\ d.prio = r.prio
      BY <2>3, <3>2, <3>4 DEF Main, EntryOf
    <3>6. PICK c : c = Fragment(h, r, e[f].ptr)
      OBVIOUS
    <3>7. c \in EntryOf(n) /\ c.handle = h /\ c.used /\ c.frag /\ c.ptr = e[f].ptr /\ c.act = r.act
      <4>1. e[f].ptr \in 0 .. n - 1
        BY <1>1 DEF EntryTables, EntryOf
      <4> QED
        BY <2>3, <3>6, <4>1 DEF Fragment, EntryOf
    <3>8. PICK g : g = [e EXCEPT ![a] = d, ![f] = c]
      OBVIOUS
    <3>9. new.ok = TRUE /\ new.ent = g
      <4>1. TakeTwo(e, a, f, h, r) = g
        BY <1>1, <2>2, <3>2, <3>4, <3>6, <3>8, TakeTwoIs
      <4> QED
        BY <3>3, <4>1 DEF Result
    <3>10. /\ g \in EntryTables(n) /\ g[a] = d /\ g[f] = c
           /\ \A i \in 1 .. n : i # a /\ i # f => g[i] = e[i]
      BY <1>1, <3>2, <3>5, <3>7, <3>8 DEF EntryTables
    <3>11. PICK x : x = <<h, r>>
      OBVIOUS
    <3>12. x \in Handles \X Rule /\ x[1] = h /\ x[2] = r
      BY <3>11
    <3>13. HasRule(g, a, x)
      BY <2>6, <3>2, <3>5, <3>7, <3>10, <3>12 DEF HasRule
    <3>14. \A i \in 1 .. n : g[i].ptr # i
      BY <3>2, <3>5, <3>7, <3>10 DEF Sound
    <3>15. Sound(n, g, rules \cup {x})
      BY <2>2, <2>3, <3>0, <3>2, <3>5, <3>10, <3>12, <3>13, <3>14, AddsRule
    <3>16. HandlesOf(n, e, g, h)
      BY <3>5, <3>7, <3>10 DEF HandlesOf
    <3> QED
      BY <3>9, <3>11, <3>15, <3>16
  <2> QED
    BY <2>3, <2>4, <2>5, <2>6
<1> QED
  BY <1>3, <1>4

(***************************************************************************)
(* The entries in use are those needed                                     *)
(***************************************************************************)
\* The rule an entry or fragment in use belongs to.
Owner(e, rules, i) == CHOOSE x \in rules : x[1] = e[i].handle
Need(e, rules, i) == <<Owner(e, rules, i), IF e[i].frag THEN 2 ELSE 1>>

\* The rule an entry is for is the one of its handle.
LEMMA OwnerIs ==
  ASSUME NEW n \in Nat, NEW e, NEW rules, Sound(n, e, rules), NEW x \in rules, NEW i,
         e[i].handle = x[1]
  PROVE  Owner(e, rules, i) = x
<1>1. \A y \in rules : y[1] = e[i].handle => y = x
  BY DEF Sound, RulesByHandle
<1> QED
  BY <1>1 DEF Owner

\* Every entry in use but the last is one a rule needs, and is the only one.
LEMMA UsedAreNeeded ==
  ASSUME NEW n \in Nat, NEW e, NEW rules, Sound(n, e, rules)
  PROVE  Cardinality({i \in DOMAIN e : e[i].used /\ i # Len(e)}) = Cardinality(NeededEntries(rules))
<1>1. e \in EntryTables(n)
  BY DEF Sound
<1> DEFINE U == {i \in DOMAIN e : e[i].used /\ i # Len(e)}
           D == NeededEntries(rules)
           G == [i \in U |-> Need(e, rules, i)]
<1>2. U = {i \in 1 .. n : e[i].used /\ i # n}
  BY <1>1, LengthOfEntries
<1>3. IsFiniteSet(U)
  <2>1. IsFiniteSet(1 .. n)
    BY FS_Interval
  <2> QED
    BY <1>2, <2>1, FS_Subset
<1>4. ASSUME NEW i \in U
      PROVE  \E x \in rules, k \in InTurn(e) :
               /\ HasRule(e, k, x) /\ e[i].handle = x[1] /\ Need(e, rules, i) = <<x, IF e[i].frag THEN 2 ELSE 1>>
               /\ IF e[i].frag THEN x[2].split /\ e[k].ptr = i ELSE k = i
  <2>1. i \in 1 .. n /\ e[i].used /\ i # n
    BY <1>2
  <2>2. CASE e[i].frag
    <3>1. PICK k \in InTurn(e) : e[k].ptr = i
      BY <2>1, <2>2 DEF Sound
    <3>2. PICK x \in rules : HasRule(e, k, x)
      BY DEF Sound
    <3>3. x[2].split /\ e[i].handle = x[1]
      BY <2>1, <3>1, <3>2 DEF HasRule
    <3>4. Owner(e, rules, i) = x
      BY <3>3, OwnerIs
    <3> QED
      BY <2>2, <3>1, <3>2, <3>3, <3>4 DEF Need
  <2>3. CASE ~e[i].frag
    <3>1. i \in InTurn(e)
      BY <1>1, <2>1, <2>3, InTurnIs
    <3>2. PICK x \in rules : HasRule(e, i, x)
      BY <3>1 DEF Sound
    <3>3. e[i].handle = x[1]
      BY <3>2 DEF HasRule
    <3>4. Owner(e, rules, i) = x
      BY <3>3, OwnerIs
    <3> QED
      BY <2>3, <3>1, <3>2, <3>3, <3>4 DEF Need
  <2> QED
    BY <2>2, <2>3
<1>5. \A i \in U : Need(e, rules, i) \in D
  <2> SUFFICES ASSUME NEW i \in U PROVE Need(e, rules, i) \in D
    OBVIOUS
  <2>1. PICK x \in rules : Need(e, rules, i) = <<x, IF e[i].frag THEN 2 ELSE 1>>
                           /\ (e[i].frag => x[2].split)
    BY <1>4
  <2> QED
    BY <2>1 DEF NeededEntries
<1>6. \A i, j \in U : Need(e, rules, i) = Need(e, rules, j) => i = j
  <2> SUFFICES ASSUME NEW i \in U, NEW j \in U, Need(e, rules, i) = Need(e, rules, j) PROVE i = j
    OBVIOUS
  <2>1. PICK x \in rules, k \in InTurn(e) :
          /\ HasRule(e, k, x) /\ Need(e, rules, i) = <<x, IF e[i].frag THEN 2 ELSE 1>>
          /\ IF e[i].frag THEN e[k].ptr = i ELSE k = i
    BY <1>4
  <2>2. PICK y \in rules, l \in InTurn(e) :
          /\ HasRule(e, l, y) /\ Need(e, rules, j) = <<y, IF e[j].frag THEN 2 ELSE 1>>
          /\ IF e[j].frag THEN e[l].ptr = j ELSE l = j
    BY <1>4
  <2>3. x = y /\ (e[i].frag <=> e[j].frag)
    <3>1. Need(e, rules, i)[1] = x /\ Need(e, rules, i)[2] = IF e[i].frag THEN 2 ELSE 1
      BY <2>1
    <3>2. Need(e, rules, j)[1] = y /\ Need(e, rules, j)[2] = IF e[j].frag THEN 2 ELSE 1
      BY <2>2
    <3> QED
      BY <3>1, <3>2
  <2>4. k = l
    BY <2>1, <2>2, <2>3 DEF Sound, HasRule
  <2> QED
    BY <2>1, <2>2, <2>3, <2>4
<1>7. \A d \in D : \E i \in U : Need(e, rules, i) = d
  <2> SUFFICES ASSUME NEW d \in D PROVE \E i \in U : Need(e, rules, i) = d
    OBVIOUS
  <2>1. PICK x \in rules : d[1] = x /\ d = <<x, d[2]>> /\ d[2] \in {1, 2} /\ (d[2] = 1 \/ x[2].split)
    BY DEF NeededEntries
  <2>2. PICK k \in InTurn(e) : HasRule(e, k, x)
    BY DEF Sound
  <2>3. k \in 1 .. n /\ k # n /\ e[k].used /\ ~e[k].frag /\ e[k].handle = x[1]
    BY <1>1, <2>2, InTurnIs DEF HasRule
  <2>4. CASE d[2] = 1
    <3>1. Need(e, rules, k) = <<x, 1>>
      BY <2>3, OwnerIs DEF Need
    <3> QED
      BY <1>2, <2>1, <2>3, <2>4, <3>1
  <2>5. CASE d[2] = 2
    <3>1. PICK f : f = e[k].ptr
      OBVIOUS
    <3>2. f # 0 /\ f \in 0 .. n - 1 /\ e[f].used /\ e[f].frag /\ e[f].handle = x[1]
      BY <1>1, <2>1, <2>2, <2>3, <2>5, <3>1 DEF HasRule, EntryTables, EntryOf
    <3>3. f \in U
      BY <1>2, <3>2
    <3>4. Need(e, rules, f) = <<x, 2>>
      BY <3>2, OwnerIs DEF Need
    <3> QED
      BY <2>1, <2>5, <3>3, <3>4
  <2> QED
    BY <2>1, <2>4, <2>5
<1> HIDE DEF U, D
<1>8. G \in Bijection(U, D)
  BY <1>5, <1>6, <1>7 DEF Bijection, Injection, IsInjective, Surjection
<1>9. ExistsBijection(U, D)
  BY <1>8, Fun_ExistsBij
<1> QED
  BY <1>3, <1>9, FS_Bijection DEF U, D

(***************************************************************************)
(* The inductive invariant of the parser                                   *)
(***************************************************************************)
ParserSpec == ParserInit /\ [][ParserNext]_parserVars

\* The entries are those of the offloaded rules; handles that the stack has not
\* used are in no entry.
EntriesInv ==
  /\ field \in 0 .. 3 /\ Sound(TcEntriesMax, ent, offloaded)
  /\ stackRules \in [Handles -> {"new", "known", "gone"}]
  /\ \A i \in 1 .. TcEntriesMax : ent[i].handle # 0 => stackRules[ent[i].handle] # "new"

\* The hardware, whatever its table.
IsFrp(f) == f \in [on : BOOLEAN, rx : BOOLEAN, table : {f.table}]

\* What an ioctl may ask for, whatever its table.
IsConfig(c) == c \in [enable : BOOLEAN, nve : Nat, npe : Nat, tab : {c.tab}]

\* What the rules say is what the table does; an ioctl finds what it wrote.
TableInv ==
  /\ IsFrp(frp) /\ frp.rx
  /\ rxpEnabled \in BOOLEAN /\ inForce \in BOOLEAN /\ IsConfig(rxpCfg)
  /\ user \in {"tc", "ioctl"}
  /\ user = "tc" =>
       /\ ~rxpCfg.enable
       /\ frp.on => \A frame : Run(frp.table, frame) \in Verdicts(offloaded, frame)
       /\ inForce => (frp.on <=> offloaded # {})
  /\ user = "ioctl" =>
       /\ rxpCfg.enable /\ (rxpEnabled <=> frp.on)
       /\ frp.on => Whole(rxpCfg) = frp.table

ParserInv == EntriesInv /\ TableInv

\* Sizes are natural numbers.
LEMMA SizeIs ==
  ASSUME field \in 0 .. 3
  PROVE  TcEntriesMax \in Nat /\ Frpes \in Nat
<1>1. \A k \in 0 .. 2 : Room[k] \in Nat
  BY ParserAssumption
<1>2. Frpes \in Nat
  BY <1>1 DEF Frpes
<1> QED
  BY <1>1, <1>2 DEF TcEntriesMax

\* What the invariant says of the rules and the table.
LEMMA ParserInvImplies == ParserInv => ParserTypeOK /\ ParserInStep
<1> SUFFICES ASSUME ParserInv PROVE ParserTypeOK /\ ParserInStep
  OBVIOUS
<1>1. field \in 0 .. 3 /\ Sound(TcEntriesMax, ent, offloaded)
  BY DEF ParserInv, EntriesInv
<1>2. PICK n \in Nat : n = TcEntriesMax
  BY <1>1, SizeIs
<1>3. ent \in EntryTables(n) /\ RulesByHandle(offloaded) /\ \A i \in 1 .. n : ent[i].ptr # i
  BY <1>1, <1>2 DEF Sound
<1>4. DOMAIN ent = 1 .. n
  BY <1>3, LengthOfEntries
<1>5. ParserTypeOK
  <2>1. \A i \in DOMAIN ent : /\ ent[i].handle \in Handles \cup {0} /\ ent[i].ptr \in 0 .. n - 1
                              /\ ent[i].ptr # i
    BY <1>3, <1>4 DEF EntryTables, EntryOf
  <2>2. \A x \in offloaded : x[1] \in Handles /\ x[2] \in Rule
    BY <1>3 DEF RulesByHandle
  <2>3. frp.on \in BOOLEAN /\ frp.rx \in BOOLEAN /\ rxpEnabled \in BOOLEAN
    BY DEF ParserInv, TableInv, IsFrp
  <2> QED
    BY <1>2, <2>1, <2>2, <2>3 DEF ParserTypeOK
<1>6. Cardinality({i \in DOMAIN ent : ent[i].used /\ i # Len(ent)})
        = Cardinality(NeededEntries(offloaded))
  BY <1>1, <1>2, UsedAreNeeded
<1>10. frp.on \in BOOLEAN /\ rxpEnabled \in BOOLEAN
  BY DEF ParserInv, TableInv, IsFrp
<1>7. user = "tc" =>
        /\ frp.on => \A frame \in Frames : Verdict(frame) \in Verdicts(offloaded, frame)
        /\ inForce => frp.on = (offloaded # {})
  BY <1>10 DEF ParserInv, TableInv, Verdict
<1>8. user = "ioctl" => /\ IoctlGetRxp.enabled = frp.on
                        /\ frp.on => IoctlGetRxp.table = frp.table
  BY <1>10 DEF ParserInv, TableInv, IoctlGetRxp
<1>9. user \in {"tc", "ioctl"} /\ frp.rx
  BY DEF ParserInv, TableInv
<1> QED
  BY <1>5, <1>6, <1>7, <1>8, <1>9 DEF ParserInStep

\* There are no rules, and the parser is off.
LEMMA ParserStarts == ASSUME "shared" \notin RxpFaults, ParserInit PROVE ParserInv
<1>1. field \in 0 .. 3 /\ offloaded = {} /\ ent = TcInit
  BY DEF ParserInit
<1>2. PICK n \in Nat : n = TcEntriesMax
  BY <1>1, SizeIs
<1> DEFINE D(i) == [Blank EXCEPT !.used = (i = n), !.act = "pass"]
<1>3. ASSUME NEW i \in 1 .. n
      PROVE  /\ D(i) \in EntryOf(n) /\ D(i).handle = 0 /\ D(i).ptr = 0 /\ ~D(i).frag
             /\ D(i).used <=> i = n
  <2>1. 0 \in 0 .. n - 1 /\ (i = n) \in BOOLEAN
    BY <1>3
  <2>2. PICK c : c = Blank
    OBVIOUS
  <2>3. c \in EntryOf(n) /\ c.handle = 0 /\ c.ptr = 0 /\ ~c.frag
    BY <2>1, <2>2 DEF Blank, EntryOf
  <2>4. PICK b : b = (i = n)
    OBVIOUS
  <2>5. D(i) = [c EXCEPT !.used = b, !.act = "pass"]
    BY <2>2, <2>4
  <2> HIDE DEF D
  <2>6. /\ D(i) \in EntryOf(n) /\ D(i).handle = 0 /\ D(i).ptr = 0 /\ ~D(i).frag
        /\ D(i).used = b
    BY <2>1, <2>3, <2>4, <2>5 DEF EntryOf
  <2> QED
    BY <2>4, <2>6
<1>9. ent = [i \in 1 .. n |-> D(i)]
  BY <1>1, <1>2 DEF TcInit
<1> HIDE DEF D
<1>4. ent \in EntryTables(n)
  BY <1>3, <1>9 DEF EntryTables
<1>10. \A i \in 1 .. n : /\ ent[i].handle = 0 /\ ent[i].ptr = 0 /\ ~ent[i].frag
                         /\ ent[i].used <=> i = n
  BY <1>3, <1>9
<1>5. InTurn(ent) = {}
  BY <1>4, <1>10, InTurnIs
<1>6. Sound(n, ent, offloaded)
  BY <1>1, <1>4, <1>5, <1>10 DEF Sound, RulesByHandle
<1>7. EntriesInv
  BY <1>1, <1>2, <1>6, <1>10 DEF EntriesInv, ParserInit
<1>8. TableInv
  BY DEF ParserInit, TableInv, IsFrp, IsConfig
<1> QED
  BY <1>7, <1>8 DEF ParserInv

(***************************************************************************)
(* The calls of the classifier                                             *)
(***************************************************************************)
\* What a programming of the rules makes of the parser.
RulesWritten(f, rules) ==
  /\ IsFrp(f) /\ f.rx
  /\ f.on <=> rules # {}
  /\ f.on => \A frame : Run(f.table, frame) \in Verdicts(rules, frame)

\* The hardware turned on or off, with its table or another.
Turned(f, g, on, table) == IsFrp(g) /\ g.on = on /\ g.rx = f.rx /\ g.table = table

\* The hardware with its switch or its table written.
LEMMA FrpFields ==
  ASSUME NEW f, IsFrp(f), NEW on \in BOOLEAN, NEW table
  PROVE  /\ Turned(f, [f EXCEPT !.on = on], on, f.table)
         /\ Turned(f, [f EXCEPT !.on = on, !.table = table], on, table)
<1>1. PICK g : g = [f EXCEPT !.on = on]
  OBVIOUS
<1>2. g \in [on : BOOLEAN, rx : BOOLEAN, table : {f.table}] /\ g.on = on /\ g.rx = f.rx
      /\ g.table = f.table
  BY <1>1 DEF IsFrp
<1>3. Turned(f, g, on, f.table)
  BY <1>2 DEF Turned, IsFrp
<1>4. PICK h : h = [f EXCEPT !.on = on, !.table = table]
  OBVIOUS
<1>5. h \in [on : BOOLEAN, rx : BOOLEAN, table : {table}] /\ h.on = on /\ h.rx = f.rx
      /\ h.table = table
  BY <1>4 DEF IsFrp
<1>6. Turned(f, h, on, table)
  BY <1>5 DEF Turned, IsFrp
<1> QED
  BY <1>1, <1>3, <1>4, <1>6

\* Writing the rules of entries in accord with them puts them in force.
LEMMA ConfigPrograms ==
  ASSUME TableInv, NEW n \in Nat, NEW e, NEW rules, Sound(n, e, rules)
  PROVE  RulesWritten(RxpConfig(e), rules)
<1>1. frp.rx /\ IsFrp(frp)
  BY DEF TableInv
<1>2. (InTurn(e) = {}) <=> (rules = {})
  BY DEF Sound
<1>3. CASE InTurn(e) = {}
  <2>1. Turned(frp, RxpConfig(e), FALSE, frp.table)
    BY <1>1, <1>3, FrpFields DEF RxpConfig
  <2> QED
    BY <1>1, <1>2, <1>3, <2>1 DEF RulesWritten, Turned
<1>4. CASE InTurn(e) # {}
  <2>1. Turned(frp, RxpConfig(e), TRUE, Instructions(e))
    BY <1>1, <1>4, FrpFields DEF RxpConfig
  <2>2. \A frame : Run(Instructions(e), frame) \in Verdicts(rules, frame)
    BY <1>4, TableTells
  <2> QED
    BY <1>1, <1>2, <1>4, <2>1, <2>2 DEF RulesWritten, Turned
<1> QED
  BY <1>3, <1>4

\* A failed writing leaves the parser off, with the table it had.
LEMMA ConfigFailing ==
  ASSUME TableInv
  PROVE  Turned(frp, RxpConfigFails, FALSE, frp.table)
BY FrpFields DEF TableInv, RxpConfigFails

\* After a programming that succeeded, that failed, and without one.
LEMMA TableStep ==
  ASSUME TableInv, user = "tc", UNCHANGED <<rxpCfg, rxpEnabled, user>>,
         \/ RulesWritten(frp', offloaded') /\ inForce' = TRUE
         \/ frp' = RxpConfigFails /\ inForce' = FALSE
         \/ UNCHANGED <<frp, inForce, offloaded>>
  PROVE  TableInv'
<1>1. CASE RulesWritten(frp', offloaded') /\ inForce' = TRUE
  BY <1>1 DEF TableInv, RulesWritten
<1>2. CASE frp' = RxpConfigFails /\ inForce' = FALSE
  <2>1. Turned(frp, frp', FALSE, frp.table)
    BY <1>2, ConfigFailing
  <2> QED
    BY <1>2, <2>1 DEF TableInv, Turned
<1>3. CASE UNCHANGED <<frp, inForce, offloaded>>
  BY <1>3 DEF TableInv
<1> QED
  BY <1>1, <1>2, <1>3

NewHandles(h) == \A i \in 1 .. TcEntriesMax : ent[i].handle # h

\* A handle the stack has not used is in no entry and no rule.
LEMMA NewIsNew ==
  ASSUME EntriesInv, NEW h \in Handles, stackRules[h] = "new"
  PROVE  /\ NewHandles(h) /\ \A x \in offloaded : x[1] # h
         /\ Without1(h) = offloaded /\ UnfillEntry(ent, h) = ent
<1>1. PICK n \in Nat : n = TcEntriesMax
  BY SizeIs DEF EntriesInv
<1>2. Sound(n, ent, offloaded) /\ ent \in EntryTables(n)
  BY <1>1 DEF EntriesInv, Sound
<1>3. h # 0
  BY ParserAssumption
<1>4. \A i \in 1 .. n : ent[i].handle # h
  BY <1>1, <1>3 DEF EntriesInv
<1>5. \A x \in offloaded : x[1] # h
  BY <1>2, <1>4, RuleHandles
<1>6. Matches(ent, h) = {}
  BY <1>2, <1>4, MatchesIs
<1> QED
  BY <1>1, <1>4, <1>5, <1>6 DEF NewHandles, Without1, UnfillEntry

\* What the stack knows of its handles after h has been used.
LEMMA KnownHandles ==
  ASSUME EntriesInv, NEW h \in Handles, NEW s \in {"known", "gone"},
         stackRules' = [stackRules EXCEPT ![h] = s], field' = field,
         NEW n \in Nat, n = TcEntriesMax, HandlesOf(n, ent, ent', h),
         Sound(n, ent', offloaded')
  PROVE  EntriesInv'
<1>1. n = TcEntriesMax'
  BY DEF TcEntriesMax, Frpes
<1>2. stackRules' \in [Handles -> {"new", "known", "gone"}]
  BY DEF EntriesInv
<1>3. \A g \in Handles : stackRules[g] # "new" \/ g = h => stackRules'[g] # "new"
  BY DEF EntriesInv
<1>4. ent \in EntryTables(n)
  BY DEF EntriesInv, Sound
<1>5. ASSUME NEW i \in 1 .. n, ent'[i].handle # 0 PROVE stackRules'[ent'[i].handle] # "new"
  <2>1. ent'[i].handle = h \/ ent'[i].handle = ent[i].handle
    BY <1>5 DEF HandlesOf
  <2>2. CASE ent'[i].handle = h
    BY <1>3, <2>2
  <2>3. CASE ent'[i].handle = ent[i].handle
    <3>1. ent[i].handle \in Handles
      BY <1>4, <1>5, <2>3 DEF EntryTables, EntryOf
    <3>2. stackRules[ent[i].handle] # "new"
      BY <1>5, <2>3 DEF EntriesInv
    <3> QED
      BY <1>3, <2>3, <3>1, <3>2
  <2> QED
    BY <2>1, <2>2, <2>3
<1>6. field' \in 0 .. 3
  BY DEF EntriesInv
<1> QED
  BY <1>1, <1>2, <1>5, <1>6 DEF EntriesInv

\* A rule is taken in and written, given back, or refused.
LEMMA ReplaceKeeps ==
  ASSUME ParserInv, RxpFaults = {}, NEW h \in Handles, NEW r \in Rule, ReplaceKnode(h, r)
  PROVE  ParserInv'
<1>1. EntriesInv /\ TableInv
  BY DEF ParserInv
<1>2. PICK n \in Nat : n = TcEntriesMax
  BY <1>1, SizeIs DEF EntriesInv
<1>3. Sound(n, ent, offloaded)
  BY <1>1, <1>2 DEF EntriesInv
<1>4. /\ user = "tc" /\ stackRules[h] = "new" /\ ~(r.split /\ r.act = "other")
      /\ UNCHANGED <<field, rxpCfg, rxpEnabled, user>>
      /\ stackRules' = [stackRules EXCEPT ![h] = "known"]
  BY <1>1 DEF ReplaceKnode, TableInv, Known
<1>5. /\ \A i \in 1 .. n : ent[i].handle # h
      /\ \A x \in offloaded : x[1] # h
      /\ Without1(h) = offloaded /\ UnfillEntry(ent, h) = ent
  BY <1>1, <1>2, <1>4, NewIsNew DEF NewHandles
<1>6. PICK new : new = FillEntry(ent, h, r)
  OBVIOUS
<1>7. PICK x : x = <<h, r>>
  OBVIOUS
<1>8. /\ new.ok => Sound(n, new.ent, offloaded \cup {x})
      /\ ~new.ok => Sound(n, new.ent, offloaded)
      /\ HandlesOf(n, ent, new.ent, h)
  BY <1>3, <1>4, <1>5, <1>6, <1>7, Fills
<1>9. \/ /\ new.ok /\ ent' = new.ent /\ frp' = RxpConfig(new.ent)
         /\ offloaded' = offloaded \cup {x} /\ inForce' = TRUE
      \/ /\ new.ok /\ ent' = UnfillEntry(new.ent, h) /\ frp' = RxpConfigFails
         /\ offloaded' = offloaded /\ inForce' = FALSE
      \/ /\ ~new.ok /\ ent' = new.ent /\ offloaded' = offloaded
         /\ UNCHANGED <<frp, inForce>>
  BY <1>5, <1>6, <1>7 DEF ReplaceKnode
<1>10. CASE new.ok /\ ent' = new.ent /\ frp' = RxpConfig(new.ent)
            /\ offloaded' = offloaded \cup {x} /\ inForce' = TRUE
  <2>1. Sound(n, ent', offloaded') /\ HandlesOf(n, ent, ent', h)
    BY <1>8, <1>10
  <2>2. RulesWritten(frp', offloaded')
    BY <1>1, <1>10, <2>1, ConfigPrograms
  <2> QED
    BY <1>1, <1>2, <1>4, <1>10, <2>1, <2>2, KnownHandles, TableStep DEF ParserInv
<1>11. CASE new.ok /\ ent' = UnfillEntry(new.ent, h) /\ frp' = RxpConfigFails
            /\ offloaded' = offloaded /\ inForce' = FALSE
  <2>1. x \in offloaded \cup {x} /\ x[1] = h /\ (offloaded \cup {x}) \ {x} = offloaded
    BY <1>5, <1>7
  <2>2. /\ Sound(n, UnfillEntry(new.ent, x[1]), (offloaded \cup {x}) \ {x})
        /\ \A i \in 1 .. n : UnfillEntry(new.ent, x[1])[i].handle = new.ent[i].handle
    BY <1>8, <1>11, <2>1, UnfillsRule
  <2>3. Sound(n, ent', offloaded') /\ HandlesOf(n, ent, ent', h)
    BY <1>8, <1>11, <2>1, <2>2 DEF HandlesOf
  <2> QED
    BY <1>1, <1>2, <1>4, <1>11, <2>3, KnownHandles, TableStep DEF ParserInv
<1>12. CASE ~new.ok /\ ent' = new.ent /\ offloaded' = offloaded /\ UNCHANGED <<frp, inForce>>
  <2>1. Sound(n, ent', offloaded') /\ HandlesOf(n, ent, ent', h)
    BY <1>8, <1>12
  <2> QED
    BY <1>1, <1>2, <1>4, <1>12, <2>1, KnownHandles, TableStep DEF ParserInv
<1> QED
  BY <1>9, <1>10, <1>11, <1>12

\* A rule refused before it takes an entry changes none.
LEMMA RefuseKeeps ==
  ASSUME ParserInv, RxpFaults = {}, NEW h \in Handles, RefuseKnode(h)
  PROVE  ParserInv'
<1>1. EntriesInv /\ TableInv
  BY DEF ParserInv
<1>2. PICK n \in Nat : n = TcEntriesMax
  BY <1>1, SizeIs DEF EntriesInv
<1>3. /\ user = "tc" /\ stackRules[h] = "new"
      /\ UNCHANGED <<field, rxpCfg, rxpEnabled, user, frp, inForce>>
      /\ stackRules' = [stackRules EXCEPT ![h] = "known"]
  BY <1>1 DEF RefuseKnode, TableInv, Known
<1>4. ent' = ent /\ offloaded' = offloaded
  BY <1>1, <1>3, NewIsNew DEF RefuseKnode
<1>5. Sound(n, ent', offloaded') /\ HandlesOf(n, ent, ent', h)
  BY <1>1, <1>2, <1>4 DEF EntriesInv, HandlesOf
<1> QED
  BY <1>1, <1>2, <1>3, <1>4, <1>5, KnownHandles, TableStep DEF ParserInv

\* A rule is given back with its fragment, or there is none.
LEMMA DeleteKeeps ==
  ASSUME ParserInv, RxpFaults = {}, NEW h \in Handles, DeleteKnode(h)
  PROVE  ParserInv'
<1>1. EntriesInv /\ TableInv
  BY DEF ParserInv
<1>2. PICK n \in Nat : n = TcEntriesMax
  BY <1>1, SizeIs DEF EntriesInv
<1>3. Sound(n, ent, offloaded)
  BY <1>1, <1>2 DEF EntriesInv
<1>4. /\ user = "tc" /\ ~StaleFragment(ent, h)
      /\ UNCHANGED <<field, rxpCfg, rxpEnabled, user>>
      /\ stackRules' = [stackRules EXCEPT ![h] = "gone"]
      /\ offloaded' = Without1(h) /\ ent' = UnfillEntry(ent, h)
  BY <1>1 DEF DeleteKnode, TableInv
<1>5. Sound(n, ent', offloaded') /\ HandlesOf(n, ent, ent', h)
  <2>1. CASE \A x \in offloaded : x[1] # h
    <3>1. ent' = ent
      BY <1>3, <1>4, <2>1, UnfillsNothing
    <3>2. offloaded' = offloaded
      BY <1>4, <2>1 DEF Without1
    <3> QED
      BY <1>3, <3>1, <3>2 DEF HandlesOf
  <2>2. ASSUME NEW x \in offloaded, x[1] = h
        PROVE  Sound(n, ent', offloaded') /\ HandlesOf(n, ent, ent', h)
    <3>1. offloaded' = offloaded \ {x}
      BY <1>3, <1>4, <2>2 DEF Without1, Sound, RulesByHandle
    <3>2. /\ Sound(n, UnfillEntry(ent, x[1]), offloaded \ {x})
          /\ \A i \in 1 .. n : UnfillEntry(ent, x[1])[i].handle = ent[i].handle
      BY <1>3, UnfillsRule
    <3> QED
      BY <1>4, <2>2, <3>1, <3>2 DEF HandlesOf
  <2> QED
    BY <2>1, <2>2
<1>6. \/ RulesWritten(frp', offloaded') /\ inForce' = TRUE
      \/ frp' = RxpConfigFails /\ inForce' = FALSE
  BY <1>1, <1>5, ConfigPrograms DEF DeleteKnode
<1> QED
  BY <1>1, <1>2, <1>4, <1>5, <1>6, KnownHandles, TableStep DEF ParserInv

(***************************************************************************)
(* The table as a whole                                                    *)
(***************************************************************************)
\* A call on the table as a whole leaves the entries alone.
LEMMA EntriesStay ==
  ASSUME EntriesInv, UNCHANGED <<field, ent, stackRules, offloaded>>
  PROVE  EntriesInv'
<1>1. TcEntriesMax' = TcEntriesMax
  BY DEF TcEntriesMax, Frpes
<1> QED
  BY <1>1 DEF EntriesInv

\* The outcomes of writing a whole table, and of leaving the parser off.
ParserResult(out, ok, f) == out[1] = ok /\ out[2] = f

\* The parts of a result.
LEMMA ParserResultOf == ASSUME NEW ok, NEW f PROVE ParserResult(<<ok, f>>, ok, f)
BY DEF ParserResult

\* A table is refused if it is too long; otherwise it is written, and the
\* parser on, or it is off.
LEMMA InitParses ==
  ASSUME IsFrp(frp), "timeout" \notin RxpFaults, NEW c, NEW out \in RxParserInit(c)
  PROVE  \/ out[1] = TRUE /\ Turned(frp, out[2], TRUE, Whole(c))
         \/ out[1] = FALSE /\ Turned(frp, out[2], FALSE, frp.table)
         \/ (c.nve > Frpes \/ c.npe > Frpes) /\ out[1] = FALSE /\ out[2] = frp
<1>1. PICK off : off = [frp EXCEPT !.on = FALSE]
  OBVIOUS
<1>2. PICK on : on = [frp EXCEPT !.on = TRUE, !.table = Whole(c)]
  OBVIOUS
<1>3. Turned(frp, off, FALSE, frp.table)
  BY <1>1, FrpFields
<1>4. Turned(frp, on, TRUE, Whole(c))
  BY <1>2, FrpFields
<1>5. \/ (c.nve > Frpes \/ c.npe > Frpes) /\ out = <<FALSE, frp>>
      \/ out = <<FALSE, off>>
      \/ out = <<TRUE, on>>
  BY <1>1, <1>2 DEF RxParserInit
<1>6. CASE (c.nve > Frpes \/ c.npe > Frpes) /\ out = <<FALSE, frp>>
  <2>1. ParserResult(out, FALSE, frp)
    BY <1>6, ParserResultOf
  <2> QED
    BY <1>6, <2>1 DEF ParserResult
<1>7. CASE out = <<FALSE, off>>
  <2>1. ParserResult(out, FALSE, off)
    BY <1>7, ParserResultOf
  <2> QED
    BY <1>3, <2>1 DEF ParserResult
<1>8. CASE out = <<TRUE, on>>
  <2>1. ParserResult(out, TRUE, on)
    BY <1>8, ParserResultOf
  <2> QED
    BY <1>4, <2>1 DEF ParserResult
<1> QED
  BY <1>5, <1>6, <1>7, <1>8

\* A table within range that is asked for, and in use.
ConfigAsked(c) == IsConfig(c) /\ c.enable = TRUE /\ c.nve <= Frpes /\ c.npe <= Frpes

\* The table is the one the ioctl will report.
LEMMA ConfigureKeeps ==
  ASSUME ParserInv, RxpFaults = {}, NEW c, ConfigAsked(c), user # "tc", Configure(c),
         UNCHANGED <<field, ent, user, stackRules, offloaded, inForce>>
  PROVE  ParserInv'
<1>1. EntriesInv /\ TableInv /\ user = "ioctl" /\ c.enable = TRUE /\ IsFrp(frp)
  BY DEF ParserInv, TableInv, ConfigAsked
<1>2. PICK out \in RxParserInit(c) : rxpCfg' = c /\ rxpEnabled' = out[1] /\ frp' = out[2]
  BY <1>1 DEF Configure
<1>3. ~(c.nve > Frpes \/ c.npe > Frpes)
  <2>1. c.nve \in Nat /\ c.npe \in Nat /\ Frpes \in Nat
    BY <1>1, SizeIs DEF ConfigAsked, IsConfig, EntriesInv
  <2> QED
    BY <2>1 DEF ConfigAsked
<1>4. \/ out[1] = TRUE /\ Turned(frp, out[2], TRUE, Whole(c))
      \/ out[1] = FALSE /\ Turned(frp, out[2], FALSE, frp.table)
  BY <1>1, <1>3, InitParses
<1>5. TableInv'
  <2>1. IsConfig(rxpCfg') /\ Whole(rxpCfg') = Whole(c)
    BY <1>2 DEF ConfigAsked
  <2>2. Whole(rxpCfg)' = Whole(rxpCfg')
    BY DEF Whole
  <2>3. IsFrp(frp') /\ frp'.rx /\ rxpEnabled' \in BOOLEAN /\ inForce' \in BOOLEAN
    BY <1>1, <1>2, <1>4 DEF Turned, TableInv
  <2>4. /\ rxpCfg'.enable /\ (rxpEnabled' <=> frp'.on)
        /\ frp'.on => Whole(rxpCfg)' = frp'.table
    BY <1>1, <1>2, <1>4, <2>1, <2>2 DEF Turned
  <2> QED
    BY <1>1, <2>1, <2>3, <2>4 DEF TableInv
<1>6. EntriesInv'
  BY <1>1, EntriesStay
<1> QED
  BY <1>5, <1>6 DEF ParserInv

\* Opening writes the table asked for, or leaves the parser off.
LEMMA OpenKeeps ==
  ASSUME ParserInv, RxpFaults = {}, ParserOpen
  PROVE  ParserInv'
<1>1. EntriesInv /\ TableInv /\ IsFrp(frp)
  BY DEF ParserInv, TableInv
<1>2. UNCHANGED <<field, ent, rxpCfg, user, stackRules, offloaded>> /\ inForce' = FALSE
  BY DEF ParserOpen
<1>3. PICK out \in IF rxpCfg.enable THEN RxParserInit(rxpCfg) ELSE {<<FALSE, frp>>} :
        rxpEnabled' = out[1] /\ frp' = [out[2] EXCEPT !.on = out[1], !.rx = TRUE]
  BY DEF ParserOpen
<1>4. /\ IsFrp(out[2]) /\ out[1] \in BOOLEAN
      /\ out[1] => rxpCfg.enable /\ out[2].table = Whole(rxpCfg)
  <2>1. CASE rxpCfg.enable
    <3>1. out \in RxParserInit(rxpCfg)
      BY <1>3, <2>1
    <3>2. \/ out[1] = TRUE /\ Turned(frp, out[2], TRUE, Whole(rxpCfg))
          \/ out[1] = FALSE /\ Turned(frp, out[2], FALSE, frp.table)
          \/ out[1] = FALSE /\ out[2] = frp
      BY <1>1, <3>1, InitParses
    <3> QED
      BY <1>1, <2>1, <3>2 DEF Turned
  <2>2. CASE ~rxpCfg.enable
    <3>1. out = <<FALSE, frp>>
      BY <1>3, <2>2
    <3>2. ParserResult(out, FALSE, frp)
      BY <3>1, ParserResultOf
    <3> QED
      BY <1>1, <3>2 DEF ParserResult
  <2> QED
    BY <2>1, <2>2
<1>5. PICK f : f = out[2]
  OBVIOUS
<1>6. IsFrp(frp') /\ frp'.on = out[1] /\ frp'.rx = TRUE /\ frp'.table = f.table
  <2>1. PICK g : g = [f EXCEPT !.on = out[1], !.rx = TRUE]
    OBVIOUS
  <2>2. g \in [on : BOOLEAN, rx : BOOLEAN, table : {f.table}] /\ g.on = out[1] /\ g.rx = TRUE
        /\ g.table = f.table
    BY <1>4, <1>5, <2>1 DEF IsFrp
  <2> QED
    BY <1>3, <1>5, <2>1, <2>2 DEF IsFrp
<1>7. TableInv'
  BY <1>1, <1>2, <1>3, <1>4, <1>5, <1>6 DEF TableInv, Whole
<1>8. EntriesInv'
  BY <1>1, <1>2, EntriesStay
<1> QED
  BY <1>7, <1>8 DEF ParserInv

\* A configuration asked for has the fields it was given.
LEMMA ConfigIs ==
  ASSUME IsConfig(rxpCfg), NEW nve \in Nat, NEW npe \in Nat, NEW tab
  PROVE  /\ IsConfig(Config(nve, npe, tab)) /\ Config(nve, npe, tab).nve = nve
         /\ Config(nve, npe, tab).npe = npe /\ Config(nve, npe, tab).tab = tab
         /\ Config(nve, npe, tab).enable = rxpCfg.enable
<1>1. PICK c : c = Config(nve, npe, tab)
  OBVIOUS
<1>2. /\ c \in [enable : BOOLEAN, nve : Nat, npe : Nat, tab : {tab}]
      /\ c.nve = nve /\ c.npe = npe /\ c.tab = tab /\ c.enable = rxpCfg.enable
  BY <1>1 DEF Config, IsConfig
<1> QED
  BY <1>1, <1>2 DEF IsConfig

\* Every ioctl asks for a table within range that is in use.
LEMMA IoctlKeeps ==
  ASSUME ParserInv, RxpFaults = {}, NEW nve \in Nat, NEW npe \in Nat, NEW tab,
         \/ \E use \in BOOLEAN : IoctlSetRxp(use, nve, npe, tab)
         \/ SetRxFilter(nve, npe, tab) \/ ClearRxFilter
  PROVE  ParserInv'
<1>1. user # "tc" /\ UNCHANGED <<field, ent, user, stackRules, offloaded, inForce>>
  BY DEF IoctlSetRxp, SetRxFilter, ClearRxFilter
<1>2. IsConfig(rxpCfg) /\ rxpCfg.enable = TRUE /\ Frpes \in Nat
  BY <1>1, SizeIs DEF ParserInv, TableInv, EntriesInv, IsConfig
<1>3. \A m \in Nat : WithinRange(m) => m <= Frpes
  BY DEF WithinRange
<1>4. ConfigAsked(Config(0, 0, "none"))
  BY <1>2, ConfigIs DEF ConfigAsked
<1>5. WithinRange(1) => ConfigAsked(Config(1, 1, "pass"))
  BY <1>2, <1>3, ConfigIs DEF ConfigAsked
<1>6. WithinRange(nve) /\ WithinRange(npe) => ConfigAsked(Config(nve, npe, tab))
  BY <1>2, <1>3, ConfigIs DEF ConfigAsked
<1>7. Config(nve, npe, tab) = [Config(nve, npe, tab) EXCEPT !.enable = TRUE]
  <2>1. PICK c : c = Config(nve, npe, tab)
    OBVIOUS
  <2>2. IsConfig(c) /\ c.enable = TRUE
    BY <1>2, <2>1, ConfigIs
  <2>3. c = [c EXCEPT !.enable = TRUE]
    BY <2>2 DEF IsConfig
  <2> QED
    BY <2>1, <2>3
<1>8. \E c : ConfigAsked(c) /\ Configure(c)
  <2>1. CASE \E use \in BOOLEAN : IoctlSetRxp(use, nve, npe, tab)
    BY <1>4, <1>6, <2>1 DEF IoctlSetRxp
  <2>2. CASE SetRxFilter(nve, npe, tab)
    BY <1>6, <1>7, <2>2 DEF SetRxFilter
  <2>3. CASE ClearRxFilter
    BY <1>5, <2>3 DEF ClearRxFilter
  <2> QED
    BY <2>1, <2>2, <2>3
<1> QED
  BY <1>1, <1>8, ConfigureKeeps

\* Every call keeps the invariant.
LEMMA ParserSteps == ASSUME ParserInv, RxpFaults = {}, [ParserNext]_parserVars PROVE ParserInv'
<1>1. CASE UNCHANGED parserVars
  <2>1. EntriesInv'
    BY <1>1, EntriesStay DEF ParserInv, parserVars
  <2>2. TableInv'
    BY <1>1 DEF ParserInv, TableInv, parserVars, Whole
  <2> QED
    BY <2>1, <2>2 DEF ParserInv
<1>2. ASSUME NEW h \in Handles, NEW r \in Rule, ReplaceKnode(h, r) PROVE ParserInv'
  BY <1>2, ReplaceKeeps
<1>3. ASSUME NEW h \in Handles, RefuseKnode(h) PROVE ParserInv'
  BY <1>3, RefuseKeeps
<1>4. ASSUME NEW h \in Handles, DeleteKnode(h) PROVE ParserInv'
  BY <1>4, DeleteKeeps
<1>5. \A n \in 0 .. Room[2] + 1 : n \in Nat
  BY ParserAssumption
<1>6. ASSUME NEW use \in BOOLEAN, NEW nve \in 0 .. Room[2] + 1, NEW npe \in 0 .. Room[2] + 1,
             NEW tab \in Tables, IoctlSetRxp(use, nve, npe, tab)
      PROVE  ParserInv'
  BY <1>5, <1>6, IoctlKeeps
<1>7. ASSUME NEW nve \in 0 .. Room[2] + 1, NEW npe \in 0 .. Room[2] + 1, NEW tab \in Tables,
             SetRxFilter(nve, npe, tab)
      PROVE  ParserInv'
  BY <1>5, <1>7, IoctlKeeps
<1>8. CASE ClearRxFilter
  BY <1>8, IoctlKeeps
<1>9. CASE ParserOpen
  BY <1>9, OpenKeeps
<1> QED
  BY <1>1, <1>2, <1>3, <1>4, <1>6, <1>7, <1>8, <1>9 DEF ParserNext

\* As long as nothing happens that RxpFaults names, the parser gives every frame
\* the verdict of exactly the rules offloaded whenever it is on, no entry stays
\* taken for a rule that is gone, and a table given as a whole is the one the
\* ioctl reports: for any handles, priorities and sizes of the table, in any
\* order of rules that come, are refused, and go, and of writes that fail.
THEOREM ParserAlwaysInStep ==
  ASSUME RxpFaults = {} PROVE ParserSpec => [](ParserTypeOK /\ ParserInStep)
<1>1. ParserInit => ParserInv
  BY ParserStarts
<1>2. ParserInv /\ [ParserNext]_parserVars => ParserInv'
  BY ParserSteps
<1>3. ParserInv => ParserTypeOK /\ ParserInStep
  BY ParserInvImplies
<1> QED
  BY <1>1, <1>2, <1>3, PTL DEF ParserSpec

(***************************************************************************)
(* The configuration parts side by side                                    *)
(***************************************************************************)
\* A behaviour of the whole is one of each part.
LEMMA PartsOf ==
  Spec => ParserSpec /\ FlowSpec /\ GatesSpec /\ LinkSpec /\ SelfSpec /\ PtpSpec
<1>1. Init => ParserInit /\ FlowInit /\ GatesInit /\ LinkInit /\ SelfInit /\ PtpInit
  BY DEF Init
<1>2. ASSUME [Next]_<<part, parserVars, flowVars, gateVars, linkVars, selfVars, ptpVars>>
      PROVE  /\ [ParserNext]_parserVars /\ [FlowNext]_flowVars /\ [GatesNext]_gateVars
             /\ [LinkNext]_linkVars /\ [SelfNext]_selfVars /\ [PtpNext]_ptpVars
  BY <1>2 DEF Next
<1> QED
  BY <1>1, <1>2, PTL DEF Spec, ParserSpec, FlowSpec, GatesSpec, LinkSpec, SelfSpec, PtpSpec

\* As long as nothing happens that the fault constants name, the tables, registers
\* and timers of all configuration parts hold what they may and the steps left to
\* a call are those it can have, for any filters, queues, lists, speeds, callers,
\* handles and priorities.
THEOREM ControlTyped ==
  ASSUME RxpFaults = {}, FlowFaults = {}, GateFaults = {}, LinkFaults = {},
         SelftestFaults = {}, PtpFaults = {}
  PROVE  Spec => []ControlTypeOK
<1>1. ParserSpec => []ParserTypeOK
  BY ParserAlwaysInStep, PTL
<1>2. FlowSpec => []FlowTypeOK
  BY FlowsMatch, PTL
<1>3. GatesSpec => []GatesTypeOK
  BY GatesFollow, PTL
<1>4. LinkSpec => []LinkTypeOK
  BY LinkIsAgreed, PTL
<1>5. SelfSpec => []SelfTypeOK
  <2>1. LoopFaults \cap SelftestFaults = {}
    OBVIOUS
  <2> QED
    BY <2>1, SelftestsRestore, PTL
<1>6. PtpSpec => []PtpTypeOK
  BY ClockIsKept, PTL
<1> QED
  BY PartsOf, <1>1, <1>2, <1>3, <1>4, <1>5, <1>6, PTL DEF ControlTypeOK
=============================================================================
