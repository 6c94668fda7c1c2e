------------------------- MODULE ConnectionsProofs -------------------------
(***************************************************************************)
(* Proofs about Connections, for every finite set of connections, every    *)
(* assignment of addresses and every pair of positive budgets: the         *)
(* limiter's counts are exact, the budgets hold, and the limiter           *)
(* implements SlotPool.                                                    *)
(***************************************************************************)
EXTENDS Connections, FiniteSetTheorems, TLAPS

Invariant == TypeOK /\ SlotsBalance

(***************************************************************************)
(* What a step does to the sets that the counts stand for                  *)
(***************************************************************************)

\* A part of a finite set of connections is finite.
LEMMA AdmittedIsFinite ==
    /\ IsFiniteSet(Admitted) /\ Admitted \subseteq Conn
    /\ \A ip : IsFiniteSet(AdmittedFrom(ip)) /\ AdmittedFrom(ip) \subseteq Admitted
<1>1. Admitted \subseteq Conn /\ \A ip : AdmittedFrom(ip) \subseteq Conn
  BY DEF Admitted, AdmittedFrom
<1>2. \A ip : AdmittedFrom(ip) \subseteq Admitted
  BY DEF AdmittedFrom
<1> QED BY <1>1, <1>2, ConnectionsAreFinite, FS_Subset

\* The counts per address and in all are natural numbers, and an address has
\* no connection exactly when its count is 0.
LEMMA CountsAreNatural ==
    /\ Cardinality(Admitted) \in Nat
    /\ \A ip : /\ Cardinality(AdmittedFrom(ip)) \in Nat
               /\ Cardinality(AdmittedFrom(ip)) = 0 <=> AdmittedFrom(ip) = {}
BY AdmittedIsFinite, FS_CardinalityType, FS_EmptySet

\* The limiter's number for an address, tracked or not, is its connections.
LEMMA CountIsExact ==
    ASSUME SlotsBalance, NEW ip
    PROVE  Count(ip) = Cardinality(AdmittedFrom(ip))
<1>1. CASE ip \in DOMAIN perIp
  BY <1>1 DEF SlotsBalance, Count
<1>2. CASE ip \notin DOMAIN perIp
  <2>1. AdmittedFrom(ip) = {}
    BY <1>2 DEF SlotsBalance, AdmittedFrom
  <2> QED BY <1>2, <2>1, FS_EmptySet DEF Count
<1> QED BY <1>1, <1>2

\* A connection that begins to read joins the admitted ones, of its address alone.
LEMMA Admitting ==
    ASSUME TypeOK, NEW c \in Conn, pc[c] \notin {"reading", "handler", "closing"},
           Goto(c, "reading")
    PROVE  /\ Admitted' = Admitted \cup {c} /\ c \notin Admitted
           /\ AdmittedFrom(IpOf[c])' = AdmittedFrom(IpOf[c]) \cup {c}
           /\ \A ip : ip # IpOf[c] => AdmittedFrom(ip)' = AdmittedFrom(ip)
<1>1. pc' = [pc EXCEPT ![c] = "reading"] /\ pc \in [Conn -> {"gone", "accepted", "denied",
          "reading", "handler", "closing"}]
  BY DEF Goto, TypeOK
<1>2. Admitted' = Admitted \cup {c} /\ c \notin Admitted
  BY <1>1 DEF Admitted
<1> QED BY <1>2 DEF AdmittedFrom

\* One that leaves is taken from them.
LEMMA Leaving ==
    ASSUME TypeOK, NEW c \in Conn, pc[c] = "closing", Goto(c, "gone")
    PROVE  /\ Admitted' = Admitted \ {c} /\ c \in Admitted
           /\ AdmittedFrom(IpOf[c])' = AdmittedFrom(IpOf[c]) \ {c}
           /\ c \in AdmittedFrom(IpOf[c])
           /\ \A ip : ip # IpOf[c] => AdmittedFrom(ip)' = AdmittedFrom(ip)
<1>1. pc' = [pc EXCEPT ![c] = "gone"] /\ pc \in [Conn -> {"gone", "accepted", "denied",
          "reading", "handler", "closing"}]
  BY DEF Goto, TypeOK
<1>2. Admitted' = Admitted \ {c} /\ c \in Admitted
  BY <1>1 DEF Admitted
<1> QED BY <1>2 DEF AdmittedFrom

\* The other steps of a connection move it within the admitted, or outside.
LEMMA Moving ==
    ASSUME TypeOK, NEW c \in Conn, NEW label, Goto(c, label),
           label \in {"gone", "accepted", "denied", "reading", "handler", "closing"},
           (label \in {"reading", "handler", "closing"})
              <=> (pc[c] \in {"reading", "handler", "closing"})
    PROVE  /\ Admitted' = Admitted
           /\ \A ip : AdmittedFrom(ip)' = AdmittedFrom(ip)
           /\ pc' \in [Conn -> {"gone", "accepted", "denied", "reading", "handler", "closing"}]
<1>1. pc' = [pc EXCEPT ![c] = label] /\ pc \in [Conn -> {"gone", "accepted", "denied",
          "reading", "handler", "closing"}]
  BY DEF Goto, TypeOK
<1>2. Admitted' = Admitted
  BY <1>1 DEF Admitted
<1> QED BY <1>1, <1>2 DEF AdmittedFrom

(***************************************************************************)
(* The invariant is inductive                                              *)
(***************************************************************************)

\* Nobody is connected at first.
LEMMA InitEstablishesInvariant == Init => Invariant
<1> SUFFICES ASSUME Init PROVE Invariant
  OBVIOUS
<1>1. Admitted = {} /\ DOMAIN perIp = {}
  BY DEF Init, Admitted
<1>2. TypeOK
  BY <1>1 DEF Init, TypeOK
<1> QED BY <1>1, <1>2, FS_EmptySet DEF Invariant, SlotsBalance, Init

\* acquire() counts the connection it admits.
LEMMA AcquireKeepsInvariant ==
    ASSUME Invariant, NEW c \in Conn, Acquire(c)
    PROVE  Invariant'
<1> DEFINE from == IpOf[c]
<1>1. /\ TypeOK /\ SlotsBalance /\ from \in Ip
      /\ pc[c] \notin {"reading", "handler", "closing"} /\ Goto(c, "reading")
  BY AddressesAreKnown DEF Invariant, Acquire
<1>2. /\ Admitted' = Admitted \cup {c} /\ c \notin Admitted
      /\ AdmittedFrom(from)' = AdmittedFrom(from) \cup {c}
      /\ \A ip : ip # from => AdmittedFrom(ip)' = AdmittedFrom(ip)
  BY <1>1, Admitting
<1>3. c \notin AdmittedFrom(from)
  BY <1>2 DEF AdmittedFrom
<1>4. /\ Cardinality(Admitted') = Cardinality(Admitted) + 1
      /\ Cardinality(AdmittedFrom(from)') = Cardinality(AdmittedFrom(from)) + 1
  BY <1>2, <1>3, AdmittedIsFinite, FS_AddElement
<1>5. /\ global' = global + 1
      /\ DOMAIN perIp' = DOMAIN perIp \cup {from}
      /\ perIp'[from] = Count(from) + 1
      /\ \A ip \in DOMAIN perIp : ip # from => perIp'[ip] = perIp[ip]
  BY DEF Acquire
<1>6. Count(from) = Cardinality(AdmittedFrom(from))
  BY <1>1, CountIsExact
<1>7. SlotsBalance'
  <2>1. global' = Cardinality(Admitted')
    BY <1>1, <1>4, <1>5 DEF SlotsBalance
  <2>2. DOMAIN perIp' = {IpOf[d] : d \in Admitted'}
    BY <1>1, <1>2, <1>5 DEF SlotsBalance
  <2>3. \A ip \in DOMAIN perIp' : perIp'[ip] = Cardinality(AdmittedFrom(ip)')
    BY <1>1, <1>2, <1>4, <1>5, <1>6 DEF SlotsBalance
  <2> QED BY <2>1, <2>2, <2>3 DEF SlotsBalance
<1>8. TypeOK'
  <2>1. pc' \in [Conn -> {"gone", "accepted", "denied", "reading", "handler", "closing"}]
    BY <1>1 DEF TypeOK, Goto
  <2>2. global' \in Nat
    BY <1>1, <1>5 DEF TypeOK
  <2>3. DOMAIN perIp' \subseteq Ip
    BY <1>1, <1>5 DEF TypeOK
  <2>4. \A ip \in DOMAIN perIp' : perIp'[ip] \in Nat \ {0}
    BY <1>1, <1>5, <1>6, CountsAreNatural DEF TypeOK
  <2> QED BY <2>1, <2>2, <2>3, <2>4 DEF TypeOK
<1> QED BY <1>7, <1>8 DEF Invariant

\* The finally of a connection uncounts it.
LEMMA FinallyKeepsInvariant ==
    ASSUME Invariant, NEW c \in Conn, Finally(c)
    PROVE  Invariant'
<1> DEFINE from == IpOf[c]
<1>1. /\ TypeOK /\ SlotsBalance /\ from \in Ip
      /\ pc[c] = "closing" /\ Goto(c, "gone") /\ ReleaseSlot(from)
  BY AddressesAreKnown DEF Invariant, Finally
<1>2. /\ Admitted' = Admitted \ {c} /\ c \in Admitted
      /\ AdmittedFrom(from)' = AdmittedFrom(from) \ {c} /\ c \in AdmittedFrom(from)
      /\ \A ip : ip # from => AdmittedFrom(ip)' = AdmittedFrom(ip)
  BY <1>1, Leaving
<1>3. /\ Cardinality(Admitted') = Cardinality(Admitted) - 1
      /\ Cardinality(AdmittedFrom(from)') = Cardinality(AdmittedFrom(from)) - 1
  BY <1>2, AdmittedIsFinite, FS_RemoveElement
<1>4. Cardinality(Admitted) > 0 /\ Cardinality(AdmittedFrom(from)) > 0
  BY <1>2, AdmittedIsFinite, CountsAreNatural, FS_EmptySet
<1>5. from \in DOMAIN perIp /\ perIp[from] = Cardinality(AdmittedFrom(from))
  BY <1>1, <1>2 DEF SlotsBalance
<1>6. global' = Cardinality(Admitted')
  BY <1>1, <1>3, <1>4, CountsAreNatural DEF ReleaseSlot, SlotsBalance
<1>7. /\ DOMAIN perIp' = {IpOf[d] : d \in Admitted'}
      /\ \A ip \in DOMAIN perIp' : perIp'[ip] = Cardinality(AdmittedFrom(ip)')
  <2>1. CASE perIp[from] <= 1
    <3>1. perIp' = [ip \in DOMAIN perIp \ {from} |-> perIp[ip]]
      BY <1>1, <1>5, <2>1 DEF ReleaseSlot, Without
    <3>2. AdmittedFrom(from)' = {}
      <4>1. Cardinality(AdmittedFrom(from)') = 0
        BY <1>3, <1>4, <1>5, <2>1, CountsAreNatural
      <4>2. IsFiniteSet(AdmittedFrom(from)')
        BY <1>2, AdmittedIsFinite, FS_RemoveElement
      <4> QED BY <4>1, <4>2, FS_EmptySet
    <3>3. from \notin {IpOf[d] : d \in Admitted'}
      BY <3>2 DEF AdmittedFrom
    <3> QED BY <1>1, <1>2, <3>1, <3>3 DEF SlotsBalance
  <2>2. CASE ~(perIp[from] <= 1)
    <3>1. perIp' = [perIp EXCEPT ![from] = perIp[from] - 1]
      BY <1>1, <1>5, <2>2 DEF ReleaseSlot
    <3>2. AdmittedFrom(from)' # {}
      BY <1>3, <1>5, <2>2, CountsAreNatural, FS_EmptySet
    <3>3. from \in {IpOf[d] : d \in Admitted'}
      BY <3>2 DEF AdmittedFrom
    <3>4. DOMAIN perIp' = {IpOf[d] : d \in Admitted'}
      BY <1>1, <1>2, <3>1, <3>3 DEF SlotsBalance
    <3>5. \A ip \in DOMAIN perIp' : perIp'[ip] = Cardinality(AdmittedFrom(ip)')
      BY <1>1, <1>2, <1>3, <1>5, <3>1 DEF SlotsBalance
    <3> QED BY <3>4, <3>5
  <2> QED BY <2>1, <2>2
<1>8. TypeOK'
  <2>1. pc' \in [Conn -> {"gone", "accepted", "denied", "reading", "handler", "closing"}]
    BY <1>1 DEF TypeOK, Goto
  <2>2. global' \in Nat
    BY <1>3, <1>4, <1>6, CountsAreNatural
  <2>3. DOMAIN perIp' \subseteq Ip
    BY <1>2, <1>7, AdmittedIsFinite, AddressesAreKnown
  <2>4. \A ip \in DOMAIN perIp' : perIp'[ip] \in Nat \ {0}
    <3> SUFFICES ASSUME NEW ip \in DOMAIN perIp'
                 PROVE  perIp'[ip] \in Nat \ {0}
      OBVIOUS
    <3>1. AdmittedFrom(ip)' # {} /\ perIp'[ip] = Cardinality(AdmittedFrom(ip)')
      BY <1>7 DEF AdmittedFrom
    <3>2. IsFiniteSet(AdmittedFrom(ip)')
      BY <1>2, AdmittedIsFinite, FS_RemoveElement
    <3> QED BY <3>1, <3>2, FS_CardinalityType, FS_EmptySet
  <2> QED BY <2>1, <2>2, <2>3, <2>4 DEF TypeOK
<1> QED BY <1>6, <1>7, <1>8 DEF Invariant, SlotsBalance

\* A step that changes neither the counts nor who is admitted.
LEMMA MovingKeepsInvariant ==
    ASSUME Invariant, UNCHANGED <<global, perIp>>, Admitted' = Admitted,
           \A ip : AdmittedFrom(ip)' = AdmittedFrom(ip),
           pc' \in [Conn -> {"gone", "accepted", "denied", "reading", "handler", "closing"}]
    PROVE  Invariant'
<1>1. TypeOK'
  BY DEF Invariant, TypeOK
<1>2. SlotsBalance'
  BY DEF Invariant, SlotsBalance
<1> QED BY <1>1, <1>2 DEF Invariant

\* The steps of a connection that only move it.
Moves(c) ==
    Accept(c) \/ Deny(c) \/ DeniedClosed(c) \/ FirstReadEnds(c) \/ Dispatch(c) \/ HandlerEnds(c)

\* The other steps of a handler leave the limiter alone.
LEMMA MovesMove ==
    ASSUME TypeOK, NEW c \in Conn, Moves(c)
    PROVE  /\ UNCHANGED <<global, perIp>>
           /\ Admitted' = Admitted
           /\ \A ip : AdmittedFrom(ip)' = AdmittedFrom(ip)
           /\ pc' \in [Conn -> {"gone", "accepted", "denied", "reading", "handler", "closing"}]
<1>1. CASE Accept(c)
  BY <1>1, Moving DEF Accept
<1>2. CASE Deny(c)
  BY <1>2, Moving DEF Deny
<1>3. CASE DeniedClosed(c)
  BY <1>3, Moving DEF DeniedClosed
<1>4. CASE FirstReadEnds(c)
  BY <1>4, Moving DEF FirstReadEnds
<1>5. CASE Dispatch(c)
  BY <1>5, Moving DEF Dispatch
<1>6. CASE HandlerEnds(c)
  BY <1>6, Moving DEF HandlerEnds
<1> QED BY <1>1, <1>2, <1>3, <1>4, <1>5, <1>6 DEF Moves

\* Every step keeps the invariant.
LEMMA NextKeepsInvariant == Invariant /\ [Next]_vars => Invariant'
<1> SUFFICES ASSUME Invariant, [Next]_vars PROVE Invariant'
  OBVIOUS
<1>1. ASSUME NEW c \in Conn, Moves(c) PROVE Invariant'
  BY <1>1, MovesMove, MovingKeepsInvariant DEF Invariant
<1>2. ASSUME NEW c \in Conn, Acquire(c) PROVE Invariant'
  BY <1>2, AcquireKeepsInvariant
<1>3. ASSUME NEW c \in Conn, Finally(c) PROVE Invariant'
  BY <1>3, FinallyKeepsInvariant
<1>4. CASE UNCHANGED vars
  BY <1>4 DEF vars, Invariant, TypeOK, SlotsBalance, Admitted, AdmittedFrom
<1> QED BY <1>1, <1>2, <1>3, <1>4 DEF Next, Task, Moves

\* The invariant holds in every state.
LEMMA InvariantHolds == Spec => []Invariant
<1> QED BY InitEstablishesInvariant, NextKeepsInvariant, PTL DEF Spec

\* The limiter's state is well typed: counts are positive while they are kept.
THEOREM TypeCorrect == Spec => []TypeOK
<1>1. Invariant => TypeOK
  BY DEF Invariant
<1> QED BY <1>1, InvariantHolds, PTL

\* The limiter's numbers are the connections they stand for on every path.
THEOREM SlotsAreBalanced == Spec => []SlotsBalance
<1>1. Invariant => SlotsBalance
  BY DEF Invariant
<1> QED BY <1>1, InvariantHolds, PTL

(***************************************************************************)
(* The budgets                                                             *)
(***************************************************************************)

\* Admission is decided on exact counts, so it decides by the connections.
LEMMA AdmissibleMeansRoom ==
    ASSUME Invariant, NEW c \in Conn
    PROVE  Admissible(IpOf[c]) <=>
              /\ Cardinality(Admitted) < MaxGlobal
              /\ Cardinality(AdmittedFrom(IpOf[c])) < MaxPerIp
<1>1. global = Cardinality(Admitted) /\ Count(IpOf[c]) = Cardinality(AdmittedFrom(IpOf[c]))
  BY CountIsExact DEF Invariant, SlotsBalance
<1> QED BY <1>1, CountsAreNatural, BudgetsArePositive DEF Admissible

\* The budgets hold at first.
LEMMA InitWithinBudget == Init => WithinBudget
<1> SUFFICES ASSUME Init PROVE WithinBudget
  OBVIOUS
<1>1. Admitted = {} /\ \A ip : AdmittedFrom(ip) = {}
  BY DEF Init, Admitted, AdmittedFrom
<1> QED BY <1>1, FS_EmptySet, BudgetsArePositive DEF WithinBudget

\* Only acquire() adds to a count, and it looks at the budgets first.
LEMMA NextKeepsBudget == Invariant /\ WithinBudget /\ [Next]_vars => WithinBudget'
<1> SUFFICES ASSUME Invariant, WithinBudget, [Next]_vars PROVE WithinBudget'
  OBVIOUS
<1>1. ASSUME NEW c \in Conn, Moves(c) PROVE WithinBudget'
  BY <1>1, MovesMove DEF Invariant, WithinBudget
<1>2. ASSUME NEW c \in Conn, Acquire(c) PROVE WithinBudget'
  <2>1. /\ Cardinality(Admitted) < MaxGlobal
        /\ Cardinality(AdmittedFrom(IpOf[c])) < MaxPerIp
    BY <1>2, AdmissibleMeansRoom DEF Acquire
  <2>2. /\ Admitted' = Admitted \cup {c} /\ c \notin Admitted
        /\ AdmittedFrom(IpOf[c])' = AdmittedFrom(IpOf[c]) \cup {c}
        /\ \A ip : ip # IpOf[c] => AdmittedFrom(ip)' = AdmittedFrom(ip)
    BY <1>2, Admitting DEF Invariant, Acquire
  <2>3. /\ Cardinality(Admitted') = Cardinality(Admitted) + 1
        /\ Cardinality(AdmittedFrom(IpOf[c])') = Cardinality(AdmittedFrom(IpOf[c])) + 1
    <3>1. Cardinality(Admitted \cup {c}) = Cardinality(Admitted) + 1
      BY <2>2, AdmittedIsFinite, FS_AddElement
    <3>2. c \notin AdmittedFrom(IpOf[c])
      BY <2>2 DEF AdmittedFrom
    <3>3. Cardinality(AdmittedFrom(IpOf[c]) \cup {c}) = Cardinality(AdmittedFrom(IpOf[c])) + 1
      BY <3>2, AdmittedIsFinite, FS_AddElement
    <3> QED BY <2>2, <3>1, <3>3
  <2>4. \A ip \in Ip : Cardinality(AdmittedFrom(ip)') <= MaxPerIp
    <3>1. Cardinality(AdmittedFrom(IpOf[c])') <= MaxPerIp
      BY <2>1, <2>3, CountsAreNatural, BudgetsArePositive
    <3>2. ASSUME NEW ip \in Ip, ip # IpOf[c] PROVE Cardinality(AdmittedFrom(ip)') <= MaxPerIp
      BY <2>2, <3>2 DEF WithinBudget
    <3> QED BY <3>1, <3>2
  <2> QED BY <2>1, <2>3, <2>4, CountsAreNatural, BudgetsArePositive DEF WithinBudget
<1>3. ASSUME NEW c \in Conn, Finally(c) PROVE WithinBudget'
  <2>1. /\ Admitted' \subseteq Admitted
        /\ \A ip : AdmittedFrom(ip)' \subseteq AdmittedFrom(ip)
    BY <1>3, Leaving DEF Invariant, Finally
  <2>2. /\ Cardinality(Admitted') <= Cardinality(Admitted)
        /\ \A ip : Cardinality(AdmittedFrom(ip)') <= Cardinality(AdmittedFrom(ip))
    BY <2>1, AdmittedIsFinite, FS_Subset
  <2>3. /\ Cardinality(Admitted') \in Nat
        /\ \A ip : Cardinality(AdmittedFrom(ip)') \in Nat
    BY <2>1, AdmittedIsFinite, FS_Subset, FS_CardinalityType
  <2> QED BY <2>2, <2>3, CountsAreNatural, BudgetsArePositive DEF WithinBudget
<1>4. CASE UNCHANGED vars
  BY <1>4 DEF vars, WithinBudget, Admitted, AdmittedFrom
<1> QED BY <1>1, <1>2, <1>3, <1>4 DEF Next, Task, Moves

\* No more connections are served than the budgets allow, in all and per address.
THEOREM BudgetsHold == Spec => []WithinBudget
<1> QED BY InitWithinBudget, NextKeepsBudget, InvariantHolds, PTL DEF Spec

(***************************************************************************)
(* The limiter implements the pool of slots                                *)
(***************************************************************************)

Denied == {c \in Conn : pc[c] = "denied"}

\* The pool counts as the limiter does.
LEMMA SameCardinality == \A S : Pool!Cardinality(S) = Cardinality(S)
BY DEF Pool!Cardinality, Cardinality, Pool!IsFiniteSet, IsFiniteSet

\* The limiter has room just when the pool has.
LEMMA PoolRoom ==
    ASSUME NEW c \in Conn
    PROVE  Pool!Room(c) <=>
              /\ Cardinality(Admitted) < MaxGlobal
              /\ Cardinality(AdmittedFrom(IpOf[c])) < MaxPerIp
<1>1. Pool!HeldBy(IpOf[c]) = AdmittedFrom(IpOf[c])
  BY DEF Pool!HeldBy, AdmittedFrom
<1> QED BY <1>1, SameCardinality DEF Pool!Room

\* The limiter begins as an empty pool.
LEMMA InitIsPoolInit == Init => Pool!Init
BY DEF Init, Pool!Init, Admitted

\* Every step takes a slot, gives one back, or is no step of the pool.
LEMMA StepIsPoolStep ==
    Invariant /\ [Next]_vars => [Pool!Next]_<<Admitted, Denied>>
<1> SUFFICES ASSUME Invariant, Next PROVE [Pool!Next]_<<Admitted, Denied>>
  BY DEF vars, Admitted, Denied
<1> USE DEF Denied
<1>0. TypeOK
  BY DEF Invariant
<1>1. ASSUME NEW c \in Conn,
             Accept(c) \/ FirstReadEnds(c) \/ Dispatch(c) \/ HandlerEnds(c)
      PROVE  UNCHANGED <<Admitted, Denied>>
  <2>1. Admitted' = Admitted
    BY <1>0, <1>1, MovesMove DEF Moves
  <2>2. Denied' = Denied
    BY <1>0, <1>1 DEF Accept, FirstReadEnds, Dispatch, HandlerEnds, Goto, TypeOK
  <2> QED BY <2>1, <2>2
<1>2. ASSUME NEW c \in Conn, Acquire(c) PROVE Pool!Take(c)
  <2>1. Admitted' = Admitted \cup {c} /\ c \notin Admitted
    BY <1>0, <1>2, Admitting DEF Acquire
  <2>2. Denied' = Denied /\ c \notin Denied
    BY <1>0, <1>2 DEF Acquire, Goto, TypeOK
  <2>3. Pool!Room(c)
    BY <1>2, AdmissibleMeansRoom, PoolRoom DEF Acquire
  <2> QED BY <2>1, <2>2, <2>3 DEF Pool!Take
<1>3. ASSUME NEW c \in Conn, Deny(c) PROVE Pool!Refuse(c)
  <2>1. Admitted' = Admitted
    BY <1>0, <1>3, MovesMove DEF Moves
  <2>2. Denied' = Denied \cup {c} /\ c \notin Denied /\ c \notin Admitted
    BY <1>0, <1>3 DEF Deny, Goto, TypeOK, Admitted
  <2>3. ~Pool!Room(c)
    BY <1>3, AdmissibleMeansRoom, PoolRoom DEF Deny
  <2> QED BY <2>1, <2>2, <2>3 DEF Pool!Refuse
<1>4. ASSUME NEW c \in Conn, DeniedClosed(c) PROVE Pool!Leave(c)
  <2>1. Admitted' = Admitted
    BY <1>0, <1>4, MovesMove DEF Moves
  <2>2. Denied' = Denied \ {c} /\ c \in Denied
    BY <1>0, <1>4 DEF DeniedClosed, Goto, TypeOK
  <2> QED BY <2>1, <2>2 DEF Pool!Leave
<1>5. ASSUME NEW c \in Conn, Finally(c) PROVE Pool!GiveBack(c)
  <2>1. Admitted' = Admitted \ {c} /\ c \in Admitted
    BY <1>0, <1>5, Leaving DEF Finally
  <2>2. Denied' = Denied
    BY <1>0, <1>5 DEF Finally, Goto, TypeOK
  <2> QED BY <2>1, <2>2 DEF Pool!GiveBack
<1> QED BY <1>1, <1>2, <1>3, <1>4, <1>5 DEF Next, Task, Pool!Next

\* Every run of the limiter is a run of the abstract pool of slots.
THEOREM ImplementsPool == Spec => PoolSpec
<1>1. Invariant /\ [Next]_vars => [Pool!Next]_(Pool!poolVars)
  BY StepIsPoolStep DEF Pool!poolVars, Denied
<1> QED BY <1>1, InitIsPoolInit, InvariantHolds, PTL DEF Spec, PoolSpec, Pool!Spec
=============================================================================
