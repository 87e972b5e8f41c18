----------------------------- MODULE MC_Firewall -----------------------------
(* Two rules of the container's own; isolation is requested up to three times *)
(* between any number of heals.                                               *)
EXTENDS Firewall

CONSTANTS a, b

MCOwnRule == {a, b}
MCOthers == [d \in {"INPUT", "OUTPUT"} |-> <<a, b>>]
=============================================================================
