------------------------------- MODULE Flows -------------------------------
(***************************************************************************)
(* Flower rules offloaded to the layer 3 and 4 filters of the MAC.  Entry  *)
(* i of priv->flow_entries owns filter i, which one control register and   *)
(* an address register per match describe; the control register holds the  *)
(* matches of both layers.                                                 *)
(***************************************************************************)
EXTENDS Integers, FiniteSets, FiniteSetsExt

CONSTANTS Cookies,       \* of the rules; the stack uses one for one rule
          Rules,         \* rules of the stack
          FlowsMax,      \* dma_cap.l3l4fnum
          FlowFaults     \* "stale", "both_ports", "sctp", "busy", "reopen":
                         \* see the guards that name them

ASSUME FlowAssumption == FlowsMax \in Nat \ {0} /\ 0 \notin Cookies

VARIABLES flow,          \* priv->flow_entries
          filt,          \* the filters: layer 3 and 4 matches, addresses
          live,          \* rules the stack believes to be in the hardware
          spent,         \* cookies the stack has used
          rss            \* priv->rss.enable, set when the interface is opened

flowVars == <<flow, filt, live, spent, rss>>

Sides == {"sa", "da"}
Filters == 1..FlowsMax
\* A rule: action, protocol ("none": the rule has no such key; "any": the key
\* with protocol 0), addresses and ports.
FlowRule == [drop : BOOLEAN, proto : {"none", "any", "tcp", "udp", "sctp"},
             ip : SUBSET Sides, ports : SUBSET Sides]
ASSUME RulesAssumption == Rules \subseteq FlowRule
NoFlow == [cookie |-> 0, used |-> FALSE, drop |-> FALSE, proto |-> "none", l4 |-> FALSE]
\* inv: the sides whose match is inverted.
Off == [l3 |-> {}, inv3 |-> {}, l4 |-> {}, inv4 |-> {}, udp |-> FALSE]
NoFilter == [ctl |-> Off, addr |-> [s \in Sides |-> 0], port |-> [s \in Sides |-> 0]]

(***************************************************************************)
(* Filter registers.  Every access awaits that the last one is done: left  *)
(* counts the accesses that are before the filter stays busy.              *)
(***************************************************************************)
Layer3(c, side, inv) ==
  [c EXCEPT !.l3 = @ \cup {side}, !.inv3 = IF inv THEN @ \cup {side} ELSE @]
\* Only the last side configured is matched.
Layer4(c, side, inv, udp) ==
  [c EXCEPT !.l4 = {side}, !.inv4 = IF inv THEN {side} ELSE {}, !.udp = udp]

\* dwxgmac2_config_l3_filter and _l4_filter: read, write control, write match.
State(f, left, ok) == [f |-> f, left |-> left, ok |-> ok]
ConfigL3(st, side, inv, match) ==
  LET f1 == [st.f EXCEPT !.ctl = Layer3(@, side, inv)]
      f2 == [f1 EXCEPT !.addr[side] = match]
  IN CASE ~st.ok \/ st.left < 2 -> State(st.f, 0, FALSE)
       [] st.ok /\ st.left = 2 -> State(f1, 0, FALSE)
       [] OTHER -> State(f2, st.left - 3, TRUE)
\* The ports of both sides share a register, which is written as a whole.
ConfigL4(st, side, inv, udp, match) ==
  LET f1 == [st.f EXCEPT !.ctl = Layer4(@, side, inv, udp)]
      f2 == [f1 EXCEPT !.port = [s \in Sides |-> IF s = side THEN match ELSE 0]]
  IN CASE ~st.ok \/ st.left < 2 -> State(st.f, 0, FALSE)
       [] st.ok /\ st.left = 2 -> State(f1, 0, FALSE)
       [] OTHER -> State(f2, st.left - 3, TRUE)
\* With en false the control register is cleared in the end.
DisableL3(st) ==
  LET s == ConfigL3(st, "da", FALSE, 0)
  IN IF s.ok /\ s.left > 0 THEN State([s.f EXCEPT !.ctl = Off], s.left - 1, TRUE)
     ELSE [s EXCEPT !.ok = FALSE]
DisableL4(st) ==
  LET s == ConfigL4(st, "da", FALSE, FALSE, 0)
  IN IF s.ok /\ s.left > 0 THEN State([s.f EXCEPT !.ctl = Off], s.left - 1, TRUE)
     ELSE [s EXCEPT !.ok = FALSE]

(***************************************************************************)
(* Entries                                                                 *)
(***************************************************************************)
\* Mutant: the test for use is forgotten.
FindFlow_Used(cookie, free) == {i \in Filters : flow[i].cookie = cookie \/ free}
\* tc_find_flow: the first entry with the cookie, or, with free, the first
\* entry that has it or is not used.
FindFlow(cookie, free) ==
  {i \in Filters : flow[i].cookie = cookie \/ (free /\ ~flow[i].used)}

\* tc_parse_flow_actions sets the bit and never clears it; tc_add_basic_flow
\* leaves the protocol alone when the rule has no key for it.
Parse(e, r) ==
  [e EXCEPT !.drop = @ \/ r.drop,
            !.proto = CASE r.proto = "none" -> @
                        [] r.proto = "any" -> "none"
                        [] OTHER -> r.proto]
\* tc_add_ip4_flow and tc_add_ports_flow: source before destination.
AddIp4(st, e, r, match) ==
  LET src == IF "sa" \in r.ip THEN ConfigL3(st, "sa", e.drop, match) ELSE st
  IN IF "da" \in r.ip /\ src.ok THEN ConfigL3(src, "da", e.drop, match) ELSE src
AddPorts(st, e, r, match) ==
  LET udp == e.proto = "udp"
      src == IF "sa" \in r.ports THEN ConfigL4(st, "sa", e.drop, udp, match) ELSE st
  IN IF "da" \in r.ports /\ src.ok THEN ConfigL4(src, "da", e.drop, udp, match) ELSE src

\* Without FlowFaults a rule is not given to an entry whose last rule left a
\* mark that shows ("stale"), does not match both ports ("both_ports"), and
\* has ports of TCP or UDP only ("sctp").
Excluded(e, r) ==
  \/ "stale" \notin FlowFaults /\ ((e.drop /\ ~r.drop) \/ (e.proto # "none" /\ r.proto = "none"))
  \/ "both_ports" \notin FlowFaults /\ r.ports = Sides
  \/ "sctp" \notin FlowFaults /\ r.ports # {} /\ r.proto \notin {"tcp", "udp"}
LimitSet == {12} \cup (IF "busy" \in FlowFaults THEN 0..11 ELSE {})

\* tc_add_flow: what the parsers return is taken for "nothing to do"; one of
\* them that succeeds is enough.
AddFlow(cookie, r) ==
  /\ ~rss /\ cookie \notin spent /\ FindFlow(cookie, TRUE) # {}
  /\ LET i == Min(FindFlow(cookie, TRUE))
         e == Parse(flow[i], r)
     IN /\ ~Excluded(flow[i], r)
        /\ \E limit \in LimitSet :
             LET st == State(filt[i], limit, TRUE)
                 ip == AddIp4(st, e, r, cookie)
                 hasPorts == r.ports # {} /\ e.proto \in {"tcp", "udp"}
                 \* a busy filter stays so for the next parser
                 next == [ip EXCEPT !.ok = TRUE]
                 po == IF hasPorts THEN AddPorts(next, e, r, cookie) ELSE next
                 good == \/ r.proto # "none"
                         \/ r.ip # {} /\ ip.ok
                         \/ hasPorts /\ po.ok
             IN /\ filt' = [filt EXCEPT ![i] = po.f]
                /\ flow' = [flow EXCEPT ![i] =
                     [e EXCEPT !.used = @ \/ good,
                               !.l4 = @ \/ (hasPorts /\ po.ok),
                               !.cookie = IF e.used \/ good THEN cookie ELSE @]]
                /\ live' = IF e.used \/ good THEN live \cup {<<cookie, r>>} ELSE live
  /\ spent' = spent \cup {cookie}
  /\ UNCHANGED rss
DelFlow(cookie) ==
  /\ ~rss /\ \E x \in live : x[1] = cookie
  /\ live' = {x \in live : x[1] # cookie}
  /\ IF FindFlow(cookie, FALSE) = {} THEN UNCHANGED <<flow, filt>>
     ELSE LET i == Min(FindFlow(cookie, FALSE))
          IN /\ flow' = [flow EXCEPT ![i] =
                           [@ EXCEPT !.used = FALSE, !.cookie = 0, !.l4 = FALSE]]
             /\ \E limit \in LimitSet :
                  LET st == State(filt[i], limit, TRUE)
                  IN filt' = [filt EXCEPT ![i] =
                                IF flow[i].l4 THEN DisableL4(st).f ELSE DisableL3(st).f]
  /\ UNCHANGED <<spent, rss>>
\* No action, no free entry, or RSS bypasses the filters.
RefuseFlow(cookie) ==
  /\ cookie \notin spent
  /\ spent' = spent \cup {cookie}
  /\ UNCHANGED <<flow, filt, live, rss>>

\* Opening resets the filters, of which the entries know nothing.
FlowOpen ==
  /\ live = {} \/ "reopen" \in FlowFaults
  /\ filt' = [i \in Filters |-> NoFilter]
  /\ UNCHANGED <<flow, live, spent, rss>>

FlowInit ==
  /\ flow = [i \in Filters |-> NoFlow] /\ filt = [i \in Filters |-> NoFilter]
  /\ live = {} /\ spent = {} /\ rss \in BOOLEAN
FlowNext ==
  \/ \E c \in Cookies, r \in Rules : AddFlow(c, r)
  \/ \E c \in Cookies : DelFlow(c) \/ RefuseFlow(c)
  \/ FlowOpen

(***************************************************************************)
(* Properties                                                              *)
(***************************************************************************)
FlowTypeOK ==
  /\ \A i \in Filters : flow[i].cookie \in Cookies \cup {0} /\ filt[i].ctl.l3 \subseteq Sides
  /\ live \subseteq Cookies \X Rules

\* The matches a rule asks for, with the side, the value and the sense.
Asked(r, cookie) ==
  [l3 |-> {<<s, cookie, r.drop>> : s \in r.ip},
   l4 |-> {<<s, cookie, r.drop, r.proto = "udp">> : s \in r.ports}]
InHardware(f) ==
  [l3 |-> {<<s, f.addr[s], s \in f.ctl.inv3>> : s \in f.ctl.l3},
   l4 |-> {<<s, f.port[s], s \in f.ctl.inv4, f.ctl.udp>> : s \in f.ctl.l4}]
\* Every rule the stack believes offloaded has a filter of its own that
\* matches its addresses and ports, inverted if and only if it drops, and no
\* filter matches anything on behalf of a rule that was deleted, whatever
\* rules used the filter before and whichever layers they matched.
FlowsInForce ==
  /\ \A x \in live : \E i \in Filters : InHardware(filt[i]) = Asked(x[2], x[1])
  /\ \A i \in Filters :
       \/ filt[i].ctl = Off
       \/ \E x \in live : flow[i].cookie = x[1] /\ flow[i].used
=============================================================================
