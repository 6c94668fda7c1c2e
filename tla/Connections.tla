---------------------------- MODULE Connections ----------------------------
(***************************************************************************)
(* The life of a connection in HoneypotServer._on_connection (server.py)   *)
(* under the budget of ConnectionLimiter (limits.py).                      *)
(*                                                                         *)
(* asyncio runs one task per connection.  The limiter's critical sections  *)
(* contain no await, so acquire and release are single steps; a connection *)
(* waits in its first read, in a protocol handler or for its writer to     *)
(* close.  What it emits is in module ProxySession.  A connection name is  *)
(* used again once it is gone.  Tasks are only cancelled when the loop     *)
(* ends, with the process.                                                 *)
(*                                                                         *)
(* With a budget of 0 per address nothing is admitted and acquire() leaves *)
(* an empty dict entry per address behind; the assumption excludes it.     *)
(***************************************************************************)
EXTENDS Naturals, FiniteSets

CONSTANTS
    Conn,       \* connection names
    Ip,         \* source addresses
    IpOf,       \* the address each connection comes from
    MaxGlobal, MaxPerIp   \* max_conns_global, max_conns_per_ip

ASSUME AddressesAreKnown == IpOf \in [Conn -> Ip]
ASSUME BudgetsArePositive == MaxGlobal \in Nat /\ MaxPerIp \in Nat \ {0}
ASSUME ConnectionsAreFinite == IsFiniteSet(Conn)

VARIABLES
    pc,         \* where each connection's task is
    global,     \* limiter._global
    perIp       \* limiter._per_ip: a dict with a key per tracked address

vars == <<pc, global, perIp>>

TypeOK ==
    /\ pc \in [Conn -> {"gone", "accepted", "denied", "reading", "handler", "closing"}]
    /\ global \in Nat
    /\ DOMAIN perIp \subseteq Ip /\ \A ip \in DOMAIN perIp : perIp[ip] \in Nat \ {0}

Init ==
    /\ pc = [c \in Conn |-> "gone"]
    /\ global = 0
    /\ perIp = <<>>

Goto(c, label) == pc' = [pc EXCEPT ![c] = label]

Accept(c) ==
    /\ pc[c] = "gone"
    /\ Goto(c, "accepted")
    /\ UNCHANGED <<global, perIp>>

(***************************************************************************)
(* ConnectionLimiter                                                       *)
(***************************************************************************)

Count(ip) == IF ip \in DOMAIN perIp THEN perIp[ip] ELSE 0

Admissible(ip) == ~(global >= MaxGlobal) /\ ~(Count(ip) >= MaxPerIp)

Without(f, x) == [y \in DOMAIN f \ {x} |-> f[y]]

\* Mutant of ReleaseSlot: the address' count is kept when it does not reach zero.
BugReleaseGlobalOnly(ip) ==
    /\ global' = global - 1
    /\ perIp' = IF Count(ip) = 1 THEN Without(perIp, ip) ELSE perIp

\* Mutant of ReleaseSlot: an address is forgotten one release too late.
BugKeepsZero(ip) ==
    /\ global' = IF global > 0 THEN global - 1 ELSE 0
    /\ perIp' = IF Count(ip) = 0 THEN Without(perIp, ip)
                ELSE [perIp EXCEPT ![ip] = @ - 1]

\* release(): both counts saturate at zero; an address without connections is
\* forgotten.
ReleaseSlot(ip) ==
    /\ global' = IF global > 0 THEN global - 1 ELSE 0
    /\ perIp' = IF ip \notin DOMAIN perIp THEN perIp
                ELSE IF perIp[ip] <= 1 THEN Without(perIp, ip)
                ELSE [perIp EXCEPT ![ip] = @ - 1]

(***************************************************************************)
(* _on_connection                                                          *)
(***************************************************************************)

Acquire(c) ==
    /\ pc[c] = "accepted" /\ Admissible(IpOf[c])
    /\ global' = global + 1
    /\ perIp' = [ip \in DOMAIN perIp \cup {IpOf[c]} |->
                   IF ip = IpOf[c] THEN Count(ip) + 1 ELSE perIp[ip]]
    /\ Goto(c, "reading")

\* Mutant of Deny: the connection waits until there is a slot for it.
BugWaitForSlot(c) ==
    /\ pc[c] = "accepted" /\ ~Admissible(IpOf[c])
    /\ UNCHANGED vars

\* acquire() returned False: no event, no slot, only the writer is closed.
Deny(c) ==
    /\ pc[c] = "accepted" /\ ~Admissible(IpOf[c])
    /\ Goto(c, "denied")
    /\ UNCHANGED <<global, perIp>>

DeniedClosed(c) ==
    /\ pc[c] = "denied"
    /\ Goto(c, "gone")
    /\ UNCHANGED <<global, perIp>>

\* The first read times out, finds the end of the stream or raises, or brings
\* bytes of no protocol or of one that the port does not accept.
FirstReadEnds(c) ==
    /\ pc[c] = "reading"
    /\ Goto(c, "closing")
    /\ UNCHANGED <<global, perIp>>

Dispatch(c) ==
    /\ pc[c] = "reading"
    /\ Goto(c, "handler")
    /\ UNCHANGED <<global, perIp>>

\* The handler returns or raises.
HandlerEnds(c) ==
    /\ pc[c] = "handler"
    /\ Goto(c, "closing")
    /\ UNCHANGED <<global, perIp>>

\* Mutant of Finally: the slot is not released.
BugNoRelease(c) ==
    /\ pc[c] = "closing"
    /\ Goto(c, "gone")
    /\ UNCHANGED <<global, perIp>>

\* finally: the writer is closed, whatever that raises, and the slot released.
Finally(c) ==
    /\ pc[c] = "closing"
    /\ ReleaseSlot(IpOf[c])
    /\ Goto(c, "gone")

Task(c) ==
    \/ Acquire(c) \/ Deny(c) \/ DeniedClosed(c)
    \/ FirstReadEnds(c) \/ Dispatch(c)
    \/ HandlerEnds(c)
    \/ Finally(c)

Next == \E c \in Conn : Accept(c) \/ Task(c)

Spec == Init /\ [][Next]_vars

\* A task that waits goes on: a read has a timeout, a handler is bounded (see
\* ProxySession) and a closing writer has at most a short reply to flush.
FairSpec == Spec /\ \A c \in Conn : WF_vars(Task(c))

(***************************************************************************)
(* Properties                                                              *)
(***************************************************************************)

Admitted == {c \in Conn : pc[c] \in {"reading", "handler", "closing"}}
AdmittedFrom(ip) == {c \in Admitted : IpOf[c] = ip}

\* The limiter's numbers are the connections they stand for, in every path
\* through _on_connection: in all, per address, and with a key for exactly the
\* addresses that have one, so neither a slot nor a dict entry ever leaks.
SlotsBalance ==
    /\ global = Cardinality(Admitted)
    /\ DOMAIN perIp = {IpOf[c] : c \in Admitted}
    /\ \A ip \in DOMAIN perIp : perIp[ip] = Cardinality(AdmittedFrom(ip))

\* Both budgets hold for the connections that are really being served.
WithinBudget ==
    /\ Cardinality(Admitted) <= MaxGlobal
    /\ \A ip \in Ip : Cardinality(AdmittedFrom(ip)) <= MaxPerIp

\* A connection holds a slot in the end only for as long as it lives: each
\* accepted one is served or turned away and is gone.
EveryConnectionEnds == \A c \in Conn : (pc[c] # "gone") ~> (pc[c] = "gone")

\* The limiter is a pool of slots, exact in both directions: it admits within
\* the budget and turns a connection away only when there is no room for it.
Pool == INSTANCE SlotPool WITH
    holders <- Admitted, turnedAway <- {c \in Conn : pc[c] = "denied"}

PoolSpec == Pool!Spec
=============================================================================
