--------------------------- MODULE MCConnections ---------------------------
(***************************************************************************)
(* Instances of Connections for TLC: three connections from one address    *)
(* and two from another, so both budgets bind.                             *)
(***************************************************************************)
EXTENDS Connections

CONSTANTS a1, a2, a3, b1, b2, ipA, ipB

FiveConns == {a1, a2, a3, b1, b2}
Ips == {ipA, ipB}
Source(conns) == [c \in conns |-> IF c \in {a1, a2, a3} THEN ipA ELSE ipB]
FiveSources == Source(FiveConns)
=============================================================================
