------------------------------- MODULE Parser -------------------------------
(***************************************************************************)
(* The flexible receive parser: one instruction table in the MAC, written  *)
(* by the u32 classifier from the rules the stack offloads, or as a whole  *)
(* by an ioctl and by the IPA functions.                                   *)
(*                                                                         *)
(* A u32 rule takes an entry of priv->tc_entries, and a second one, its    *)
(* fragment, when its match is not aligned to four bytes.  Every change    *)
(* writes all rules anew in the order of their priorities.  The calls hold *)
(* the RTNL lock and the receiver is off while the table is written, so a  *)
(* call is one step here.                                                  *)
(***************************************************************************)
EXTENDS Integers, Sequences, FiniteSets, FiniteSetsExt

CONSTANTS Handles,     \* u32 handles of the stack
          Prios,       \* priorities
          Room,        \* entries of the table per value of the feature field
          MaxNve,      \* TC956XMAC_RX_PARSER_MAX_ENTRIES
          Tables,      \* contents an ioctl may ask for
          RxpFaults    \* "reuse", "action", "stale", "shared", "range",
                       \* "timeout": see the guards that name them

ASSUME ParserAssumption ==
  /\ Handles \subseteq Nat \ {0} /\ Prios \subseteq Nat
  /\ Room \in [0..2 -> Nat \ {0}] /\ MaxNve \in Nat

VARIABLES field,       \* FRPES of the hardware features, 0..3
          ent,         \* priv->tc_entries
          frp,         \* the hardware: on, receiver on, instructions
          rxpCfg,      \* plat->rxp_cfg
          rxpEnabled,  \* priv->rxp_enabled
          user,        \* who programs the parser in this behaviour
          stackRules,  \* handles of the stack: "new", "known" or "gone"
          offloaded,   \* rules the driver accepted and was not asked to delete
          inForce      \* the last programming of the rules succeeded

parserVars == <<field, ent, frp, rxpCfg, rxpEnabled, user, stackRules,
                offloaded, inForce>>

(***************************************************************************)
(* Sizes                                                                   *)
(***************************************************************************)
\* dwxgmac2_get_hw_feature decodes the field to a number of entries.
Frpes == IF field \in 0..2 THEN Room[field] ELSE 0
\* tc_init takes that number for the field: it knows no number but 0.
TcEntriesMax == IF Frpes = 0 THEN Room[0] ELSE 0

(***************************************************************************)
(* Entries of the u32 rules; the last one lets everything pass             *)
(***************************************************************************)
Blank == [used |-> FALSE, frag |-> FALSE, prio |-> 0, handle |-> 0, ptr |-> 0,
          act |-> "none"]
TcInit == [i \in 1..TcEntriesMax |->
             [Blank EXCEPT !.used = (i = TcEntriesMax), !.act = "pass"]]
Rule == [prio : Prios, split : BOOLEAN, act : {"pass", "drop", "other"}]

Free(e) == {i \in DOMAIN e : ~e[i].used}
Matches(e, h) == {i \in DOMAIN e : e[i].handle = h /\ ~e[i].frag}

\* tc_find_entry with free: the slot keeps what is not overwritten.
Take(e, i, h) == [e EXCEPT ![i] = [@ EXCEPT !.used = TRUE, !.handle = h,
                                            !.act = "none"]]
Unuse(e, is) == [i \in DOMAIN e |-> IF i \in is THEN [e[i] EXCEPT !.used = FALSE]
                                    ELSE e[i]]
Result(ok, e) == [ok |-> ok, ent |-> e]
\* tc_fill_entry with tc_fill_actions.
FillEntry(e, h, r) ==
  LET a == Min(Free(e))
      f == Min(Free(e) \ {a})
      one == [Take(e, a, h) EXCEPT ![a].ptr = 0, ![a].prio = r.prio,
                                   ![a].act = r.act]
      two == [Take(Take(e, a, h), f, h) EXCEPT
                ![a].ptr = f, ![a].prio = r.prio,
                ![f].prio = r.prio, ![f].frag = TRUE, ![f].act = r.act]
  IN IF Free(e) = {} THEN Result(FALSE, e)
     ELSE IF r.split /\ Free(e) = {a}
          THEN Result(FALSE, Unuse(Take(e, a, h), {a}))
     ELSE IF r.act = "other"
          THEN Result(FALSE, IF r.split THEN Unuse(two, {a, f}) ELSE Unuse(one, {a}))
     ELSE Result(TRUE, IF r.split THEN two ELSE one)

\* Mutant: the fragment stays taken.
UnfillEntry_NoFrag(e, h) ==
  IF Matches(e, h) = {} THEN e ELSE Unuse(e, {Max(Matches(e, h))})
\* tc_find_entry without free takes the last match, in use or not.
UnfillEntry(e, h) ==
  IF Matches(e, h) = {} THEN e
  ELSE LET i == Max(Matches(e, h))
           e1 == Unuse(e, {i})
       IN IF e1[i].ptr = 0 THEN e1
          ELSE [Unuse(e1, {e1[i].ptr}) EXCEPT ![e1[i].ptr].frag = FALSE]

(***************************************************************************)
(* Writing the table                                                       *)
(***************************************************************************)
InTurn(e) == {i \in DOMAIN e : e[i].used /\ ~e[i].frag /\ i # Len(e)}
\* Those dwxgmac3_rxp_get_next_entry returns before entry i: by priority, and
\* of two with the same one the higher slot first.
Sooner(e, i) ==
  {j \in InTurn(e) : \/ e[j].prio < e[i].prio
                     \/ e[j].prio = e[i].prio /\ j > i}
\* The instructions of some entries, two for one with a fragment, and their
\* positions in the table.
Halves(e, is) == {x \in is \X {1, 2} : x[2] = 1 \/ e[x[1]].ptr # 0}
Place(e, x) == Cardinality(Halves(e, Sooner(e, x[1]))) + x[2]
Instruction(h, half, act, ok) == [handle |-> h, half |-> half, act |-> act, ok |-> ok]
\* Of an entry with a fragment the first instruction decides nothing: a frame
\* that matches goes on to the fragment, any other to ok, past it; ok counts
\* from 0.
HalfOf(e, x) ==
  LET i == x[1]
  IN IF e[i].ptr = 0 THEN Instruction(e[i].handle, 1, e[i].act, 0)
     ELSE IF x[2] = 1 THEN Instruction(e[i].handle, 1, "none", Place(e, x) + 1)
     ELSE Instruction(e[e[i].ptr].handle, 2, e[e[i].ptr].act, 0)
Instructions(e) ==
  LET halves == Halves(e, InTurn(e))
  IN [p \in 1..Cardinality(halves) + 1 |->
        IF \E x \in halves : Place(e, x) = p
        THEN HalfOf(e, CHOOSE x \in halves : Place(e, x) = p)
        ELSE Instruction(0, 1, "pass", 0)]
\* Without a rule the parser stays off.
RxpConfig(e) ==
  IF InTurn(e) = {} THEN [frp EXCEPT !.on = FALSE]
  ELSE [frp EXCEPT !.on = TRUE, !.table = Instructions(e)]
\* An instruction cannot be written: the parser is off, the receiver back.
RxpConfigFails == [frp EXCEPT !.on = FALSE]

(***************************************************************************)
(* Calls of the u32 classifier                                             *)
(***************************************************************************)
Known(h) == stackRules' = [stackRules EXCEPT ![h] = "known"]
Without1(h) == {x \in offloaded : x[1] # h}
\* TC_CLSU32_REPLACE_KNODE.  Excluded unless RxpFaults has them: a handle is
\* used again ("reuse"); an action that the driver does not know together with
\* a fragment ("action").
ReplaceKnode(h, r) ==
  /\ user # "ioctl"
  /\ stackRules[h] = "new" \/ "reuse" \in RxpFaults
  /\ (r.split /\ r.act = "other") => "action" \in RxpFaults
  /\ LET e == UnfillEntry(ent, h)
         new == FillEntry(e, h, r)
     IN \/ /\ new.ok /\ ent' = new.ent /\ frp' = RxpConfig(new.ent)
           /\ offloaded' = Without1(h) \cup {<<h, r>>} /\ inForce' = TRUE
        \/ /\ new.ok /\ ent' = UnfillEntry(new.ent, h) /\ frp' = RxpConfigFails
           /\ offloaded' = Without1(h) /\ inForce' = FALSE
        \/ /\ ~new.ok /\ ent' = new.ent /\ offloaded' = Without1(h)
           /\ UNCHANGED <<frp, inForce>>
  /\ Known(h)
  /\ UNCHANGED <<field, rxpCfg, rxpEnabled, user>>
\* More than one key, another protocol, or an offset out of reach.
RefuseKnode(h) ==
  /\ user # "ioctl"
  /\ stackRules[h] = "new" \/ "reuse" \in RxpFaults
  /\ ent' = UnfillEntry(ent, h) /\ offloaded' = Without1(h) /\ Known(h)
  /\ UNCHANGED <<field, frp, rxpCfg, rxpEnabled, user, inForce>>
\* The entry last given to a rule that was refused is free again, but names a
\* fragment of its own past that belongs to another rule by now.
StaleFragment(e, h) ==
  \E i \in Matches(e, h) :
    /\ i = Max(Matches(e, h)) /\ ~e[i].used /\ e[i].ptr # 0 /\ e[e[i].ptr].used
\* TC_CLSU32_DELETE_KNODE, also for a rule that was refused.  Excluded unless
\* RxpFaults has "stale": the fragment of another rule is given up with it.
DeleteKnode(h) ==
  /\ user # "ioctl" /\ stackRules[h] = "known"
  /\ StaleFragment(ent, h) => "stale" \in RxpFaults
  /\ stackRules' = [stackRules EXCEPT ![h] = "gone"]
  /\ offloaded' = Without1(h)
  /\ ent' = UnfillEntry(ent, h)
  /\ \/ frp' = RxpConfig(ent') /\ inForce' = TRUE
     \/ RxpConfig(ent').on /\ frp' = RxpConfigFails /\ inForce' = FALSE
  /\ UNCHANGED <<field, rxpCfg, rxpEnabled, user>>

(***************************************************************************)
(* The table as a whole: ioctl, IPA, opening the interface                 *)
(***************************************************************************)
Config(nve, npe, tab) == [rxpCfg EXCEPT !.nve = nve, !.npe = npe, !.tab = tab]
Whole(c) == [i \in 1..c.nve |-> Instruction(i, 1, c.tab, 0)]
\* dwxgmac2_rx_parser_init: what is returned and what becomes of the parser.
\* A table that is too long is refused before the parser is turned off; when a
\* register stays busy the receiver stays off.
RxParserInit(c) ==
  IF c.nve > Frpes \/ c.npe > Frpes THEN {<<FALSE, frp>>}
  ELSE IF c.nve = 0 \/ c.npe = 0 THEN {<<FALSE, [frp EXCEPT !.on = FALSE]>>}
  ELSE {<<TRUE, [frp EXCEPT !.on = TRUE, !.table = Whole(c)]>>}
         \cup (IF "timeout" \in RxpFaults
               THEN {<<FALSE, [frp EXCEPT !.on = FALSE, !.rx = FALSE]>>} ELSE {})
\* tc956xmac_rx_parser_configuration.
Configure(c) ==
  /\ rxpCfg' = c
  /\ \E out \in IF c.enable THEN RxParserInit(c) ELSE {<<FALSE, frp>>} :
       rxpEnabled' = out[1] /\ frp' = out[2]
WithinRange(n) == n <= Frpes \/ "range" \in RxpFaults

IoctlSetRxp(enabled, nve, npe, tab) ==
  /\ user # "tc" /\ nve <= MaxNve /\ WithinRange(nve) /\ WithinRange(npe)
  /\ Configure(IF enabled THEN Config(nve, npe, tab) ELSE Config(0, 0, "none"))
  /\ UNCHANGED <<field, ent, user, stackRules, offloaded, inForce>>
\* set_rx_filter of the IPA functions turns the parser's use on.
SetRxFilter(nve, npe, tab) ==
  /\ user # "tc" /\ WithinRange(nve) /\ WithinRange(npe)
  /\ Configure([Config(nve, npe, tab) EXCEPT !.enable = TRUE])
  /\ UNCHANGED <<field, ent, user, stackRules, offloaded, inForce>>
ClearRxFilter ==
  /\ user # "tc" /\ WithinRange(1)
  /\ Configure(Config(1, 1, "pass"))
  /\ UNCHANGED <<field, ent, user, stackRules, offloaded, inForce>>
IoctlGetRxp == [enabled |-> rxpEnabled, table |-> Whole(rxpCfg)]

\* Opening resets the parser; hw_setup programs plat->rxp_cfg and turns the
\* receiver on later.  The rules of the stack are not programmed again.
ParserOpen ==
  /\ \E out \in IF rxpCfg.enable THEN RxParserInit(rxpCfg) ELSE {<<FALSE, frp>>} :
       /\ rxpEnabled' = out[1]
       /\ frp' = [out[2] EXCEPT !.on = out[1], !.rx = TRUE]
  /\ inForce' = FALSE
  /\ UNCHANGED <<field, ent, rxpCfg, user, stackRules, offloaded>>

\* A behaviour has one user of the parser unless RxpFaults has "shared".
ParserInit ==
  /\ field \in 0..3 /\ ent = TcInit
  /\ frp = [on |-> FALSE, rx |-> TRUE, table |-> <<>>]
  /\ user \in {"tc", "ioctl"} \cup (IF "shared" \in RxpFaults THEN {"both"} ELSE {})
  /\ rxpCfg = [enable |-> user # "tc", nve |-> 1, npe |-> 1, tab |-> "pass"]
  /\ rxpEnabled = FALSE /\ inForce = FALSE
  /\ stackRules = [h \in Handles |-> "new"] /\ offloaded = {}
ParserNext ==
  \/ \E h \in Handles, r \in Rule : ReplaceKnode(h, r)
  \/ \E h \in Handles : RefuseKnode(h) \/ DeleteKnode(h)
  \/ \E enabled \in BOOLEAN, nve, npe \in 0..Room[2] + 1, tab \in Tables :
       IoctlSetRxp(enabled, nve, npe, tab)
  \/ \E nve, npe \in 0..Room[2] + 1, tab \in Tables : SetRxFilter(nve, npe, tab)
  \/ ClearRxFilter \/ ParserOpen

(***************************************************************************)
(* Properties                                                              *)
(***************************************************************************)
ParserTypeOK ==
  /\ frp.on \in BOOLEAN /\ frp.rx \in BOOLEAN /\ rxpEnabled \in BOOLEAN
  /\ \A i \in DOMAIN ent :
       /\ ent[i].handle \in Handles \cup {0} /\ ent[i].ptr \in 0..TcEntriesMax - 1
       /\ ent[i].ptr # i
  /\ \A x \in offloaded : x[1] \in Handles /\ x[2] \in Rule

\* A frame is the set of the match halves, <<handle, half>>, that it meets.
Frames == SUBSET (Handles \X {1, 2})
\* The parser's verdict on a frame, from position p, counted from 0.
Run(table, frame) ==
  LET f[p \in 0..Len(table)] ==
        IF p = Len(table) THEN "ran out"
        ELSE LET i == table[p + 1]
                 hit == i.handle = 0 \/ <<i.handle, i.half>> \in frame
             IN CASE hit /\ i.act # "none" -> i.act
                  [] ~hit /\ i.act = "none" -> IF i.ok > p THEN f[i.ok] ELSE "loops"
                  [] OTHER -> f[p + 1]
  IN f[0]
Verdict(frame) == Run(frp.table, frame)
Meets(frame, x) == <<x[1], 1>> \in frame /\ (x[2].split => <<x[1], 2>> \in frame)
\* What rules say of it: the action of one of least priority, or pass.
Verdicts(rules, frame) ==
  LET met == {x \in rules : Meets(frame, x)}
  IN IF met = {} THEN {"pass"}
     ELSE {x[2].act : x \in {y \in met : \A z \in met : y[2].prio <= z[2].prio}}

\* The entries rules need, two for one with a fragment.
NeededEntries(rules) == {x \in rules \X {1, 2} : x[2] = 1 \/ x[1][2].split}

\* While the parser is on it gives every frame the verdict of exactly the
\* rules the stack has offloaded, by their priorities, whichever rules with
\* and without fragments came and went in the entries and whichever writes
\* of the table failed; no entry or fragment of another rule stays taken, and
\* after a programming that succeeded it is on if there is a rule.  A table
\* given as a whole is the one the ioctl reports, as enabled if and only if it
\* is.  The receiver is on after every call.
ParserInStep ==
  /\ frp.rx
  /\ user # "ioctl" =>
       /\ frp.on => \A frame \in Frames : Verdict(frame) \in Verdicts(offloaded, frame)
       /\ inForce => frp.on = (offloaded # {})
       /\ Cardinality({i \in DOMAIN ent : ent[i].used /\ i # Len(ent)})
            = Cardinality(NeededEntries(offloaded))
  /\ user # "tc" =>
       /\ IoctlGetRxp.enabled = frp.on
       /\ frp.on => IoctlGetRxp.table = frp.table
=============================================================================
