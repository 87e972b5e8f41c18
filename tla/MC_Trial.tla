------------------------------- MODULE MC_Trial -------------------------------
(* Three nodes, two-node quorums.  `stepped' records whether the wall clock  *)
(* of the client went back between two writes.                               *)
EXTENDS Trial

VARIABLE stepped

MCNode == {"N1", "N2", "N3"}
MCKey == {"x", "y"}
MCQuorum == {Q \in SUBSET MCNode : \E n \in MCNode : Q = MCNode \ {n}}
Increasing == {1}
MaySteps == {1, -5}

ClockInit == Init /\ stepped = FALSE
ClockNext == Next /\ stepped' = (stepped \/ clock' < clock)
ClockSpec == ClockInit /\ [][ClockNext]_<<vars, stepped>>

(* As long as the client's timestamps increase: reads and writes that        *)
(* overlap in a replica keep the session guarantees, at ALL no replica       *)
(* exposes an effect without its cause (see StrongLevelsHold), and after     *)
(* writes at QUORUM every quorum has a replica with the cause                *)
(* (docs/latex/main.tex:128).                                                *)
LevelsWhileMonotone == ~stepped => StrongLevelsHold /\ QuorumGapIsLocal

(* What a fault decides needs no increasing clock where nothing can be       *)
(* answered, but it does where there must be no violation (see FaultDecides: *)
(* prediction() for every fault but a stopped node at ONE).                  *)
DecidedWhileMonotone == ~stepped => FaultDecides
=============================================================================
