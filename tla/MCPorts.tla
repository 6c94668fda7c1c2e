------------------------------ MODULE MCPorts ------------------------------
(***************************************************************************)
(* Instances of Ports for TLC: one configured port that starts enabled and *)
(* one that only requests can add.                                         *)
(***************************************************************************)
EXTENDS Ports

CONSTANTS p1, p2, c1, c2

OnePort == {p1}
TwoPorts == {p1, p2}
OneCfg == {c1}
TwoCfgs == {c1, c2}
ConfiguredPort == [p \in {p1} |-> [cfg |-> c1, enabled |-> TRUE]]
=============================================================================
