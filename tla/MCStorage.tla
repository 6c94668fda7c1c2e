----------------------------- MODULE MCStorage -----------------------------
(***************************************************************************)
(* Instances of Storage for TLC: a connection and two logins with the same *)
(* credential from two addresses, the last one without a credential or on  *)
(* another day.                                                            *)
(***************************************************************************)
EXTENDS Storage

CONSTANTS i1, i2, p1, d1, d2, c1, none

TwoIps == {i1, i2}
OnePort == {p1}
TwoDays == {d1, d2}
OneCred == {c1}

Types == <<"auth", "auth", "connect", "auth">>
SrcIps == <<i1, i1, i2, i2>>
Days == <<d1, d1, d1, d2>>
Credentials == <<c1, c1, c1, none>>

MCType == [e \in Event |-> Types[e]]
MCSrcIp == [e \in Event |-> SrcIps[e]]
MCDstPort == [e \in Event |-> p1]
MCDayOf == [e \in Event |-> Days[e]]
MCCredential == [e \in Event |-> IF Types[e] = "auth" THEN Credentials[e] ELSE none]

Readable == SelectSeq(Text, LAMBDA line : line \in Event)

\* README.md:90: `honeypot reindex` rebuilds SQLite from JSONL, and
\* deploy/README.md:82 runs it without stopping the service.  When it has ended
\* and the service is between two events, every event with a line should have
\* been counted once.
LiveRebuildIsExact ==
    reindex = "done" /\ stage \in {"down", "idle"} =>
        \A c \in Cred : db.credentials[c].hits <=
            Cardinality({i \in DOMAIN Readable : Readable[i] \in Logins(c)})
=============================================================================
