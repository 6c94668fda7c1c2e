---------------------------- MODULE MCLoginGuard ----------------------------
(***************************************************************************)
(* Instances of LoginGuard for TLC.                                        *)
(***************************************************************************)
EXTENDS LoginGuard, TLC

CONSTANTS ipA, ipB

TwoIps == {ipA, ipB}
Addresses == Permutations(TwoIps)
=============================================================================
