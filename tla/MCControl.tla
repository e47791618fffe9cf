----------------------------- MODULE MCControl -----------------------------
(***************************************************************************)
(* The configuration parts side by side.  They share no state, so that a   *)
(* behaviour is one part's, and the others stay as they begin.             *)
(***************************************************************************)
EXTENDS Parser, Flows, Gates, Link, Selftests, Ptp, TLC

CONSTANTS u1, u2
VARIABLE part

MCRoom == [f \in 0..2 |-> 4 + f]
MCPortSpeed == [usxgmii |-> 10000, sgmii |-> 2500, rgmii |-> 1000]
\* Addresses, or one address and the ports; protocol 0 with one
\* address, no port.
MCRules == {r \in FlowRule :
              /\ r.proto # "sctp"
              /\ r.ports # {} => r.proto \notin {"none", "any"} /\ "sa" \notin r.ip
              /\ r.proto = "any" => r.ip = {"sa"}}
\* A second is two ticks and a turn four; a shift is back by one.
MCUsers == {u1, u2}
MCDeltas == {-1}
MCSymmetry == Permutations(MCUsers)

Init ==
  /\ part \in {"parser", "flows", "gates", "link", "self", "ptp"}
  /\ ParserInit /\ FlowInit /\ GatesInit /\ LinkInit /\ SelfInit /\ PtpInit
  /\ part # "parser" => field = 0 /\ user = "tc"
  /\ part # "flows" => ~rss
  /\ part # "gates" => gateSpeed = 100
  /\ part # "link" => iface = "rgmii"
  /\ part # "self" => vlhash /\ faulty = {}
Next ==
  /\ UNCHANGED part
  /\ \/ part = "parser" /\ ParserNext /\ UNCHANGED <<flowVars, gateVars, linkVars, selfVars, ptpVars>>
     \/ part = "flows" /\ FlowNext /\ UNCHANGED <<parserVars, gateVars, linkVars, selfVars, ptpVars>>
     \/ part = "gates" /\ GatesNext /\ UNCHANGED <<parserVars, flowVars, linkVars, selfVars, ptpVars>>
     \/ part = "link" /\ LinkNext /\ UNCHANGED <<parserVars, flowVars, gateVars, selfVars, ptpVars>>
     \/ part = "self" /\ SelfNext /\ UNCHANGED <<parserVars, flowVars, gateVars, linkVars, ptpVars>>
     \/ part = "ptp" /\ PtpNext /\ UNCHANGED <<parserVars, flowVars, gateVars, linkVars, selfVars>>
Spec == Init /\ [][Next]_<<part, parserVars, flowVars, gateVars, linkVars, selfVars, ptpVars>>

\* The tables, registers and timers of the parts hold what they may.
ControlTypeOK ==
  ParserTypeOK /\ FlowTypeOK /\ GatesTypeOK /\ LinkTypeOK /\ SelfTypeOK /\ PtpTypeOK
============================================================================
