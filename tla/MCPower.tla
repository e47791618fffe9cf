------------------------------ MODULE MCPower ------------------------------
(***************************************************************************)
(* The PCIe links and the life of a port side by side.  They share no      *)
(* state, so that a behaviour is one part's, and the other stays as it     *)
(* begins.                                                                 *)
(***************************************************************************)
EXTENDS PcieLane, Lifecycle

VARIABLE part

\* The second downstream link is slower than the others.
MCMaxSpeed == [l \in {"usp", "dsp1", "dsp2", "vdsp"} |->
                 IF l = "dsp2" THEN 2 ELSE 3]
MCAspmOf == [d \in {"emac", "ext"} |-> IF d = "emac" THEN 2 ELSE 3]
\* D3 loses every setting but the clock and reset of the interrupt
\* controller, which resume does not repeat.
MCLost == {"tamap", "firmware", "clocks", "emac", "pcs", "delays"}

Init ==
  /\ part \in {"lane", "life"}
  /\ LaneInit /\ LifeInit
  /\ part # "lane" => mode = "A"
  /\ part # "life" => port = 0
Next ==
  /\ UNCHANGED part
  /\ \/ part = "lane" /\ LaneNext /\ UNCHANGED lifeVars
     \/ part = "life" /\ LifeNext /\ UNCHANGED laneVars
Spec == Init /\ [][Next]_<<part, laneVars, lifeVars>>
============================================================================
