------------------------------ MODULE SlotPool ------------------------------
(***************************************************************************)
(* What the connection limiter promises: connections hold slots, never     *)
(* more than the budget in all and per source address, and one is turned   *)
(* away only when the budget leaves no slot for it.                        *)
(***************************************************************************)
EXTENDS Naturals, FiniteSets

CONSTANTS Conn, Ip, IpOf, MaxGlobal, MaxPerIp

VARIABLES holders, turnedAway

poolVars == <<holders, turnedAway>>

HeldBy(ip) == {c \in holders : IpOf[c] = ip}

Room(c) ==
    /\ Cardinality(holders) < MaxGlobal
    /\ Cardinality(HeldBy(IpOf[c])) < MaxPerIp

Init == holders = {} /\ turnedAway = {}

Take(c) ==
    /\ c \notin holders \cup turnedAway /\ Room(c)
    /\ holders' = holders \cup {c}
    /\ UNCHANGED turnedAway

Refuse(c) ==
    /\ c \notin holders \cup turnedAway /\ ~Room(c)
    /\ turnedAway' = turnedAway \cup {c}
    /\ UNCHANGED holders

GiveBack(c) ==
    /\ c \in holders
    /\ holders' = holders \ {c}
    /\ UNCHANGED turnedAway

Leave(c) ==
    /\ c \in turnedAway
    /\ turnedAway' = turnedAway \ {c}
    /\ UNCHANGED holders

Next == \E c \in Conn : Take(c) \/ Refuse(c) \/ GiveBack(c) \/ Leave(c)

Spec == Init /\ [][Next]_poolVars
=============================================================================
