----------------------------- MODULE MCService -----------------------------
(***************************************************************************)
(* An instance of Service for TLC: two listeners, a connection on each.    *)
(***************************************************************************)
EXTENDS Service

CONSTANTS p1, p2, c1, c2

TwoPorts == {p1, p2}
TwoConns == {c1, c2}
OnePortEach == [c \in {c1, c2} |-> IF c = c1 THEN p1 ELSE p2]
=============================================================================
