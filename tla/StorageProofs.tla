--------------------------- MODULE StorageProofs ---------------------------
(***************************************************************************)
(* Proofs about Storage: a rebuild without the service beside it is exact, *)
(* the counters stay with the rows, and the events that torn lines cost    *)
(* are bounded, for every number of events, addresses, ports, credentials, *)
(* starts, rebuilds and failed writes.                                     *)
(*                                                                         *)
(* The argument.  The worker numbers the events as it takes them and       *)
(* writes them in that order, so the file, its cut line and the handle's   *)
(* buffer hold them in increasing order (InOrder), whatever is cut, glued  *)
(* or written later.  Hence no event is written or replayed twice: the one *)
(* in hand is above every row (RowsAreEarlier), the next line of a rebuild *)
(* is above those it has replayed (Rebuilt), and INSERT OR IGNORE and the  *)
(* counters agree that it is new (CountersAgree).  A write only takes      *)
(* events from the text by gluing them to a fragment that nothing          *)
(* completes; that costs the fragment's event and the first one after it,  *)
(* and each fragment has been counted in `tears` (DamageAccounted).        *)
(***************************************************************************)
EXTENDS Storage, SequenceTheorems, FiniteSetTheorems, WellFoundedInduction, TLAPS

(***************************************************************************)
(* Induction on the natural numbers, as a fact about sets                  *)
(***************************************************************************)

\* A set of natural numbers that is not empty has a least member.
LEMMA LeastNumber ==
    ASSUME NEW S, S \subseteq Nat, S # {}
    PROVE  \E n \in S : \A m \in S : n <= m
<1>1. PICK x \in S : \A y \in S : ~(<<y, x>> \in OpToRel(<, Nat))
  BY WFMin, NatLessThanWellFounded
<1>2. ASSUME NEW y \in S PROVE ~(y < x)
  <2>1. SUFFICES ASSUME y < x PROVE FALSE
    OBVIOUS
  <2>2. y \in Nat /\ x \in Nat /\ <<y, x>> \in Nat \X Nat
    OBVIOUS
  <2>3. <<y, x>> \in OpToRel(<, Nat)
    BY <2>1, <2>2 DEF OpToRel
  <2> QED BY <1>1, <2>3
<1>3. ASSUME NEW m \in S PROVE x <= m
  <2>1. m \in Nat /\ x \in Nat /\ ~(m < x)
    BY <1>2
  <2> QED BY <2>1
<1> QED BY <1>3

\* A set of numbers with 0 and the successors of its members has all of them.
LEMMA Induction ==
    ASSUME NEW S, 0 \in S, \A n \in Nat : n \in S => n + 1 \in S
    PROVE  Nat \subseteq S
<1>1. SUFFICES ASSUME Nat \ S # {} PROVE FALSE
  OBVIOUS
<1>2. PICK n \in Nat \ S : \A m \in Nat \ S : n <= m
  BY <1>1, LeastNumber
<1>3. n # 0 /\ n - 1 \in Nat /\ ~(n <= n - 1)
  BY <1>2
<1> QED BY <1>2, <1>3

(***************************************************************************)
(* The projection                                                          *)
(***************************************************************************)

\* g[m] is what the first m lines of a text make of empty tables, up to n.
Replays(text, n, g) ==
    g = [m \in 0 .. n |->
            IF m = 0 THEN EmptyTables
            ELSE IF text[m] \in Event THEN WriteEvent(g[m - 1], text[m])
            ELSE g[m - 1]]

\* Every text can be replayed.
LEMMA ReplayExists ==
    ASSUME NEW text, NEW n \in Nat
    PROVE  \E g : Replays(text, n, g)
<1> DEFINE Done == {m \in Nat : \E g : Replays(text, m, g)}
<1>1. 0 \in Done
  <2>1. Replays(text, 0, [m \in 0 .. 0 |-> EmptyTables])
    BY DEF Replays
  <2> QED BY <2>1
<1>2. ASSUME NEW m \in Nat, m \in Done PROVE m + 1 \in Done
  <2>1. PICK g : Replays(text, m, g)
    BY <1>2
  <2> DEFINE new == IF text[m + 1] \in Event THEN WriteEvent(g[m], text[m + 1]) ELSE g[m]
             h == [i \in 0 .. m + 1 |-> IF i = m + 1 THEN new ELSE g[i]]
             b == [i \in 0 .. m + 1 |->
                     IF i = 0 THEN EmptyTables
                     ELSE IF text[i] \in Event THEN WriteEvent(h[i - 1], text[i])
                     ELSE h[i - 1]]
  <2>2. ASSUME NEW i \in 0 .. m + 1 PROVE h[i] = b[i]
    <3>1. CASE i = m + 1
      <4>1. i # 0 /\ i - 1 = m /\ m \in 0 .. m + 1 /\ m # m + 1
        BY <3>1
      <4>2. h[i - 1] = g[m]
        BY <4>1
      <4> HIDE DEF new
      <4>3. h[i] = new
        BY <3>1
      <4> HIDE DEF h
      <4>4. b[i] = IF text[m + 1] \in Event THEN WriteEvent(g[m], text[m + 1]) ELSE g[m]
        BY <3>1, <4>1, <4>2
      <4> QED BY <4>3, <4>4 DEF new
    <3>2. CASE i # m + 1 /\ i # 0
      <4>1. i \in 0 .. m /\ i - 1 \in 0 .. m + 1 /\ i - 1 # m + 1
        BY <3>2
      <4> HIDE DEF new
      <4>2. h[i] = g[i] /\ h[i - 1] = g[i - 1]
        BY <3>2, <4>1
      <4> HIDE DEF h
      <4>3. g[i] = IF text[i] \in Event THEN WriteEvent(g[i - 1], text[i]) ELSE g[i - 1]
        BY <2>1, <3>2, <4>1 DEF Replays
      <4>4. b[i] = IF text[i] \in Event THEN WriteEvent(h[i - 1], text[i]) ELSE h[i - 1]
        BY <3>2
      <4> QED BY <4>2, <4>3, <4>4
    <3>3. CASE i = 0
      <4>1. g[0] = EmptyTables
        BY <2>1 DEF Replays
      <4>2. 0 # m + 1
        OBVIOUS
      <4> HIDE DEF new
      <4> QED BY <3>3, <4>1, <4>2
    <3> QED BY <3>1, <3>2, <3>3
  <2> HIDE DEF new
  <2>3. DOMAIN h = DOMAIN b /\ h = [i \in DOMAIN h |-> h[i]] /\ b = [i \in DOMAIN b |-> b[i]]
    OBVIOUS
  <2>4. h = b
    <3> HIDE DEF h, b
    <3>1. \A i \in DOMAIN h : h[i] = b[i]
      <4>1. DOMAIN h = 0 .. m + 1
        BY DEF h
      <4> QED BY <2>2, <4>1
    <3> QED BY <2>3, <3>1
  <2>5. Replays(text, m + 1, h)
    <3> HIDE DEF h
    <3> QED BY <2>4 DEF Replays
  <2> QED BY <2>5
<1> HIDE DEF Done
<1>3. Nat \subseteq Done
  BY <1>1, <1>2, Induction
<1> QED BY <1>3 DEF Done

\* Two replays of the same lines agree.
LEMMA ReplaysAgree ==
    ASSUME NEW text, NEW n \in Nat, NEW m \in Nat, NEW g, NEW h,
           Replays(text, n, g), Replays(text, m, h), n <= m
    PROVE  g[n] = h[n]
<1> DEFINE Same == {i \in Nat : i <= n => g[i] = h[i]}
<1>1. 0 \in Same
  BY DEF Replays
<1>2. ASSUME NEW i \in Nat, i \in Same PROVE i + 1 \in Same
  <2>1. SUFFICES ASSUME i + 1 <= n PROVE g[i + 1] = h[i + 1]
    OBVIOUS
  <2>2. g[i] = h[i] /\ i + 1 \in 0 .. n /\ i + 1 \in 0 .. m /\ i + 1 # 0 /\ (i + 1) - 1 = i
    BY <1>2, <2>1
  <2>3. g[i + 1] = IF text[i + 1] \in Event THEN WriteEvent(g[i], text[i + 1]) ELSE g[i]
    BY <2>2 DEF Replays
  <2>4. h[i + 1] = IF text[i + 1] \in Event THEN WriteEvent(h[i], text[i + 1]) ELSE h[i]
    BY <2>2 DEF Replays
  <2> QED BY <2>2, <2>3, <2>4
<1> HIDE DEF Same
<1>3. Nat \subseteq Same
  BY <1>1, <1>2, Induction
<1> QED BY <1>3 DEF Same

\* The projection is the end of a replay.
LEMMA ProjectionReplays ==
    ASSUME NEW text \in Seq(Line), NEW n \in 0 .. Len(text), NEW g, Replays(text, n, g)
    PROVE  Projection(SubSeq(text, 1, n)) = g[n]
<1> DEFINE t == SubSeq(text, 1, n)
<1>1. Len(t) = n /\ \A m \in 1 .. n : t[m] = text[m]
  BY SubSeqProperties, ElementOfSeq
<1> HIDE DEF t
<1> DEFINE b == [m \in 0 .. Len(t) |->
                    IF m = 0 THEN EmptyTables
                    ELSE IF t[m] \in Event THEN WriteEvent(g[m - 1], t[m])
                    ELSE g[m - 1]]
<1>2. g = b
  <2>1. g = [m \in 0 .. n |->
                IF m = 0 THEN EmptyTables
                ELSE IF text[m] \in Event THEN WriteEvent(g[m - 1], text[m])
                ELSE g[m - 1]]
    BY DEF Replays
  <2>2. ASSUME NEW m \in 0 .. n PROVE g[m] = b[m]
    <3>1. CASE m = 0
      BY <1>1, <2>1, <3>1
    <3>2. CASE m # 0
      <4>1. t[m] = text[m]
        BY <1>1, <3>2
      <4> QED BY <1>1, <2>1, <3>2, <4>1
    <3> QED BY <3>1, <3>2
  <2> QED BY <1>1, <2>1, <2>2
<1> DEFINE P(a) == a = [m \in 0 .. Len(t) |->
                          IF m = 0 THEN EmptyTables
                          ELSE IF t[m] \in Event THEN WriteEvent(a[m - 1], t[m])
                          ELSE a[m - 1]]
           after == CHOOSE a : P(a)
<1>3. P(g)
  BY <1>2
<1>4. P(after)
  <2> HIDE DEF P
  <2> QED BY <1>3
<1>5. Projection(t) = after[Len(t)]
  BY DEF Projection
<1> HIDE DEF after
<1>6. Replays(t, n, after) /\ Replays(t, n, g)
  BY <1>1, <1>3, <1>4 DEF Replays
<1>7. g[n] = after[n]
  BY <1>6, ReplaysAgree
<1> QED BY <1>1, <1>5, <1>7 DEF t

\* Nothing replayed, nothing in the tables.
LEMMA ProjectionOfNothing ==
    ASSUME NEW text \in Seq(Line)
    PROVE  Projection(SubSeq(text, 1, 0)) = EmptyTables
<1>1. PICK g : Replays(text, 0, g)
  BY ReplayExists
<1>2. 0 \in 0 .. Len(text)
  OBVIOUS
<1>3. Projection(SubSeq(text, 1, 0)) = g[0]
  BY <1>1, <1>2, ProjectionReplays
<1>4. g[0] = EmptyTables
  BY <1>1 DEF Replays
<1> QED BY <1>3, <1>4

\* A line more adds its event.
LEMMA ProjectionGrows ==
    ASSUME NEW text \in Seq(Line), NEW n \in Nat, n < Len(text)
    PROVE  Projection(SubSeq(text, 1, n + 1)) =
               IF text[n + 1] \in Event
                 THEN WriteEvent(Projection(SubSeq(text, 1, n)), text[n + 1])
                 ELSE Projection(SubSeq(text, 1, n))
<1>0. n + 1 \in Nat
  OBVIOUS
<1>1. PICK g : Replays(text, n + 1, g)
  BY <1>0, ReplayExists
<1>2. PICK h : Replays(text, n, h)
  BY ReplayExists
<1> DEFINE k == n + 1
<1>3. k \in 0 .. Len(text) /\ n \in 0 .. Len(text) /\ k \in Nat /\ n <= k /\ n \in Nat
  OBVIOUS
<1>a. Replays(text, k, g)
  BY <1>1
<1> HIDE DEF k
<1>4. Projection(SubSeq(text, 1, k)) = g[k]
  BY <1>a, <1>3, ProjectionReplays
<1>5. Projection(SubSeq(text, 1, n)) = h[n]
  BY <1>2, <1>3, ProjectionReplays
<1>6. h[n] = g[n]
  BY <1>a, <1>2, <1>3, ReplaysAgree
<1>7. n + 1 # 0 /\ (n + 1) - 1 = n /\ n + 1 \in 0 .. n + 1
  OBVIOUS
<1>8. g[n + 1] = IF text[n + 1] \in Event THEN WriteEvent(g[n], text[n + 1]) ELSE g[n]
  BY <1>1, <1>7 DEF Replays
<1> QED BY <1>4, <1>5, <1>6, <1>8 DEF k

(***************************************************************************)
(* The statements of write_event                                           *)
(***************************************************************************)

\* The tables, typed.
SourceRows == [first : Nat, last : Nat, conns : Nat, auths : Nat,
               ports : [Port -> Nat], cred : Cred \cup {NoCred}]
CredentialRows == [first : Nat, last : Nat, hits : Nat,
                   ports : [Port -> Nat], ips : [Ip -> Nat]]
DailyRows == [connects : Nat, auths : Nat]
Tables == [events : Seq(Event), sources : [Ip -> SourceRows],
           credentials : [Cred -> CredentialRows], daily : [Day \X Port -> DailyRows]]

\* Empty tables are tables.
LEMMA EmptyTablesAreTables == EmptyTables \in Tables
BY DEF EmptyTables, Tables, SourceRows, CredentialRows, DailyRows, NoCounts

\* What one statement does to the tables it writes.
LEMMA InsertEventEffect ==
    ASSUME NEW t \in Tables, NEW e \in Event
    PROVE  /\ InsertEvent(t, e) \in Tables
           /\ InsertEvent(t, e).events =
                 IF e \in Range(t.events) THEN t.events ELSE Append(t.events, e)
           /\ InsertEvent(t, e).sources = t.sources
           /\ InsertEvent(t, e).credentials = t.credentials
           /\ InsertEvent(t, e).daily = t.daily
<1>1. Append(t.events, e) \in Seq(Event) /\ t.events \in Seq(Event)
  BY DEF Tables
<1> QED BY <1>1 DEF InsertEvent, Tables

\* The upsert of the source counts the event for its address, and nothing else.
LEMMA UpsertSourceEffect ==
    ASSUME NEW t \in Tables, NEW e \in Event
    PROVE  /\ UpsertSource(t, e) \in Tables
           /\ UpsertSource(t, e).events = t.events
           /\ UpsertSource(t, e).credentials = t.credentials
           /\ UpsertSource(t, e).daily = t.daily
           /\ \A i \in Ip :
                 /\ UpsertSource(t, e).sources[i].conns = t.sources[i].conns
                       + One(SrcIp[e] = i /\ Type[e] = "connect")
                 /\ UpsertSource(t, e).sources[i].auths = t.sources[i].auths
                       + One(SrcIp[e] = i /\ Type[e] = "auth")
<1> DEFINE ip == SrcIp[e]
           old == t.sources[ip]
           new == [first |-> Earliest(old.first, e),
                   last  |-> e,
                   conns |-> old.conns + One(Type[e] = "connect"),
                   auths |-> old.auths + One(Type[e] = "auth"),
                   ports |-> Bumped(old.ports, DstPort[e]),
                   cred  |-> IF Type[e] = "auth" THEN Credential[e] ELSE old.cred]
<1>1. ip \in Ip /\ e \in Nat /\ DstPort[e] \in Port /\ Credential[e] \in Cred \cup {NoCred}
  BY EventsHaveFields DEF Event
<1>2. t.sources \in [Ip -> SourceRows] /\ old \in SourceRows
  BY <1>1 DEF Tables
<1>3. UpsertSource(t, e) = [t EXCEPT !.sources = [t.sources EXCEPT ![ip] = new]]
  BY DEF UpsertSource
<1>4. new \in SourceRows /\ new.conns = old.conns + One(Type[e] = "connect")
      /\ new.auths = old.auths + One(Type[e] = "auth")
  <2>1. old.first \in Nat /\ old.conns \in Nat /\ old.auths \in Nat
        /\ old.ports \in [Port -> Nat] /\ old.cred \in Cred \cup {NoCred}
    BY <1>2 DEF SourceRows
  <2>2. Bumped(old.ports, DstPort[e]) \in [Port -> Nat]
    BY <1>1, <2>1 DEF Bumped
  <2>3. One(Type[e] = "connect") \in Nat /\ One(Type[e] = "auth") \in Nat
        /\ Earliest(old.first, e) \in Nat
    BY <1>1, <2>1 DEF One, Earliest
  <2> HIDE DEF old, ip
  <2> QED BY <1>1, <2>1, <2>2, <2>3 DEF SourceRows
<1> HIDE DEF new
<1>5. [t.sources EXCEPT ![ip] = new] \in [Ip -> SourceRows]
  BY <1>2, <1>4
<1>6. \A i \in Ip : [t.sources EXCEPT ![ip] = new][i] = IF i = ip THEN new ELSE t.sources[i]
  BY <1>2
<1>7. \A i \in Ip : t.sources[i].conns \in Nat /\ t.sources[i].auths \in Nat
  BY <1>2 DEF SourceRows
<1> DEFINE src == [t.sources EXCEPT ![ip] = new]
<1> HIDE DEF src
<1>8. UpsertSource(t, e) = [t EXCEPT !.sources = src]
  BY <1>3 DEF src
<1>9. src \in [Ip -> SourceRows] /\ \A i \in Ip : src[i] = IF i = ip THEN new ELSE t.sources[i]
  BY <1>5, <1>6 DEF src
<1>10. /\ UpsertSource(t, e) \in Tables /\ UpsertSource(t, e).events = t.events
       /\ UpsertSource(t, e).credentials = t.credentials /\ UpsertSource(t, e).daily = t.daily
       /\ UpsertSource(t, e).sources = src
  BY <1>8, <1>9 DEF Tables
<1>11. ASSUME NEW i \in Ip
       PROVE  /\ src[i].conns = t.sources[i].conns + One(ip = i /\ Type[e] = "connect")
              /\ src[i].auths = t.sources[i].auths + One(ip = i /\ Type[e] = "auth")
  <2>1. CASE i = ip
    BY <1>4, <1>9, <2>1 DEF One
  <2>2. CASE i # ip
    <3>1. src[i] = t.sources[i]
      BY <1>9, <2>2
    <3> QED BY <1>7, <2>2, <3>1 DEF One
  <2> QED BY <2>1, <2>2
<1> QED BY <1>10, <1>11

\* The upsert of the credential counts a login for its credential.
LEMMA UpsertCredentialEffect ==
    ASSUME NEW t \in Tables, NEW e \in Event
    PROVE  /\ UpsertCredential(t, e) \in Tables
           /\ UpsertCredential(t, e).events = t.events
           /\ UpsertCredential(t, e).sources = t.sources
           /\ UpsertCredential(t, e).daily = t.daily
           /\ \A c \in Cred : UpsertCredential(t, e).credentials[c].hits =
                 t.credentials[c].hits + One(HasCredential(e) /\ Credential[e] = c)
<1>0. \A c \in Cred : t.credentials[c].hits \in Nat
  BY DEF Tables, CredentialRows
<1>1. CASE ~HasCredential(e)
  BY <1>0, <1>1 DEF UpsertCredential, One
<1>2. CASE HasCredential(e)
  <2> DEFINE cr == Credential[e]
             old == t.credentials[cr]
             new == [first |-> Earliest(old.first, e),
                     last  |-> e,
                     hits  |-> old.hits + 1,
                     ports |-> Bumped(old.ports, DstPort[e]),
                     ips   |-> Bumped(old.ips, SrcIp[e])]
             rows == [t.credentials EXCEPT ![cr] = new]
  <2>1. cr \in Cred /\ e \in Nat /\ DstPort[e] \in Port /\ SrcIp[e] \in Ip
    BY <1>2, EventsHaveFields DEF Event, HasCredential
  <2>2. t.credentials \in [Cred -> CredentialRows] /\ old \in CredentialRows
    BY <2>1 DEF Tables
  <2>3. UpsertCredential(t, e) = [t EXCEPT !.credentials = rows]
    BY <1>2 DEF UpsertCredential
  <2>4. new \in CredentialRows /\ new.hits = old.hits + 1
    <3>1. old.first \in Nat /\ old.hits \in Nat /\ old.ports \in [Port -> Nat]
          /\ old.ips \in [Ip -> Nat]
      BY <2>2 DEF CredentialRows
    <3>2. /\ Bumped(old.ports, DstPort[e]) \in [Port -> Nat]
          /\ Bumped(old.ips, SrcIp[e]) \in [Ip -> Nat]
          /\ Earliest(old.first, e) \in Nat /\ old.hits + 1 \in Nat
      BY <2>1, <3>1 DEF Earliest, Bumped
    <3> HIDE DEF old
    <3> QED BY <2>1, <3>2 DEF CredentialRows
  <2> HIDE DEF new
  <2>5. /\ rows \in [Cred -> CredentialRows]
        /\ \A c \in Cred : rows[c] = IF c = cr THEN new ELSE t.credentials[c]
    BY <2>2, <2>4
  <2> HIDE DEF rows
  <2>6. /\ UpsertCredential(t, e) \in Tables
        /\ UpsertCredential(t, e).events = t.events /\ UpsertCredential(t, e).sources = t.sources
        /\ UpsertCredential(t, e).daily = t.daily /\ UpsertCredential(t, e).credentials = rows
    BY <2>3, <2>5 DEF Tables
  <2>7. ASSUME NEW c \in Cred
        PROVE  rows[c].hits = t.credentials[c].hits + One(HasCredential(e) /\ cr = c)
    <3>1. CASE c = cr
      BY <1>2, <2>4, <2>5, <3>1 DEF One
    <3>2. CASE c # cr
      BY <1>0, <2>5, <3>2 DEF One
    <3> QED BY <3>1, <3>2
  <2> QED BY <2>6, <2>7
<1> QED BY <1>1, <1>2

\* The daily bump counts a login for its day and port.
LEMMA BumpDailyEffect ==
    ASSUME NEW t \in Tables, NEW e \in Event
    PROVE  /\ BumpDaily(t, e) \in Tables
           /\ BumpDaily(t, e).events = t.events
           /\ BumpDaily(t, e).sources = t.sources
           /\ BumpDaily(t, e).credentials = t.credentials
           /\ \A k \in Day \X Port : BumpDaily(t, e).daily[k].auths =
                 t.daily[k].auths + One(<<DayOf[e], DstPort[e]>> = k /\ Type[e] = "auth")
<1> DEFINE key == <<DayOf[e], DstPort[e]>>
           old == t.daily[key]
           new == [connects |-> old.connects + One(Type[e] = "connect"),
                   auths    |-> old.auths + One(Type[e] = "auth")]
           rows == [t.daily EXCEPT ![key] = new]
<1>1. key \in Day \X Port
  BY EventsHaveFields
<1> HIDE DEF key
<1>2. t.daily \in [Day \X Port -> DailyRows] /\ old \in DailyRows
  BY <1>1 DEF Tables
<1>3. BumpDaily(t, e) = [t EXCEPT !.daily = rows]
  BY DEF BumpDaily, key
<1>4. new \in DailyRows /\ new.auths = old.auths + One(Type[e] = "auth")
  BY <1>2 DEF DailyRows, One
<1> HIDE DEF new
<1>5. /\ rows \in [Day \X Port -> DailyRows]
      /\ \A k \in Day \X Port : rows[k] = IF k = key THEN new ELSE t.daily[k]
  BY <1>2, <1>4
<1> HIDE DEF rows
<1>6. /\ BumpDaily(t, e) \in Tables
      /\ BumpDaily(t, e).events = t.events /\ BumpDaily(t, e).sources = t.sources
      /\ BumpDaily(t, e).credentials = t.credentials /\ BumpDaily(t, e).daily = rows
  BY <1>3, <1>5 DEF Tables
<1>7. ASSUME NEW k \in Day \X Port
      PROVE  rows[k].auths = t.daily[k].auths + One(key = k /\ Type[e] = "auth")
  <2>1. CASE k = key
    BY <1>4, <1>5, <2>1 DEF One
  <2>2. CASE k # key
    <3>1. t.daily[k].auths \in Nat
      BY <1>2 DEF DailyRows
    <3> QED BY <1>5, <2>2, <3>1 DEF One
  <2> QED BY <2>1, <2>2
<1> QED BY <1>6, <1>7 DEF key

\* What the first k statements of write_event(e) make of tables: the row is there
\* after the first, the source is counted after the second, the credential after
\* the third and the day after the fourth.
Effect(t, e, k, r) ==
    /\ r \in Tables
    /\ r.events = IF k = 0 \/ e \in Range(t.events) THEN t.events ELSE Append(t.events, e)
    /\ \A i \in Ip :
          /\ r.sources[i].conns = t.sources[i].conns
                + One(k >= 2 /\ SrcIp[e] = i /\ Type[e] = "connect")
          /\ r.sources[i].auths = t.sources[i].auths
                + One(k >= 2 /\ SrcIp[e] = i /\ Type[e] = "auth")
    /\ \A c \in Cred : r.credentials[c].hits = t.credentials[c].hits
                + One(k >= 3 /\ HasCredential(e) /\ Credential[e] = c)
    /\ \A d \in Day \X Port : r.daily[d].auths = t.daily[d].auths
                + One(k >= 4 /\ <<DayOf[e], DstPort[e]>> = d /\ Type[e] = "auth")

\* AfterStatements has that effect.
LEMMA StatementsHaveEffect ==
    ASSUME NEW t \in Tables, NEW e \in Event, NEW k \in 0 .. 4
    PROVE  Effect(t, e, k, AfterStatements(k, t, e))
<1> DEFINE inserted == InsertEvent(t, e)
           sourced  == UpsertSource(inserted, e)
           credited == UpsertCredential(sourced, e)
           bumped   == BumpDaily(credited, e)
           after    == AfterStatements(k, t, e)
<1>1. /\ inserted \in Tables
      /\ inserted.events = IF e \in Range(t.events) THEN t.events ELSE Append(t.events, e)
      /\ inserted.sources = t.sources /\ inserted.credentials = t.credentials
      /\ inserted.daily = t.daily
  BY InsertEventEffect
<1>2. after = <<t, inserted, sourced, credited, bumped>>[k + 1]
  BY DEF AfterStatements
<1> HIDE DEF inserted
<1>3. /\ sourced \in Tables /\ sourced.events = inserted.events
      /\ sourced.credentials = inserted.credentials /\ sourced.daily = inserted.daily
      /\ \A i \in Ip :
            /\ sourced.sources[i].conns = inserted.sources[i].conns
                  + One(SrcIp[e] = i /\ Type[e] = "connect")
            /\ sourced.sources[i].auths = inserted.sources[i].auths
                  + One(SrcIp[e] = i /\ Type[e] = "auth")
  BY <1>1, UpsertSourceEffect
<1> HIDE DEF sourced
<1>4. /\ credited \in Tables /\ credited.events = sourced.events
      /\ credited.sources = sourced.sources /\ credited.daily = sourced.daily
      /\ \A c \in Cred : credited.credentials[c].hits =
            sourced.credentials[c].hits + One(HasCredential(e) /\ Credential[e] = c)
  BY <1>3, UpsertCredentialEffect
<1> HIDE DEF credited
<1>5. /\ bumped \in Tables /\ bumped.events = credited.events
      /\ bumped.sources = credited.sources /\ bumped.credentials = credited.credentials
      /\ \A d \in Day \X Port : bumped.daily[d].auths =
            credited.daily[d].auths + One(<<DayOf[e], DstPort[e]>> = d /\ Type[e] = "auth")
  BY <1>4, BumpDailyEffect
<1> HIDE DEF bumped, after
<1>6. /\ \A i \in Ip : t.sources[i].conns \in Nat /\ t.sources[i].auths \in Nat
      /\ \A c \in Cred : t.credentials[c].hits \in Nat
      /\ \A d \in Day \X Port : t.daily[d].auths \in Nat
  BY DEF Tables, SourceRows, CredentialRows, DailyRows
<1>7. CASE k = 0
  <2>1. after = t
    BY <1>2, <1>7
  <2>2. \A x : ~(k >= 2) /\ ~(k >= 3) /\ ~(k >= 4)
    BY <1>7
  <2> QED BY <1>6, <1>7, <2>1, <2>2 DEF One, after, Effect
<1>8. CASE k = 1
  <2>1. after = inserted
    BY <1>2, <1>8
  <2>2. k # 0 /\ ~(k >= 2) /\ ~(k >= 3) /\ ~(k >= 4)
    BY <1>8
  <2> QED BY <1>1, <1>6, <2>1, <2>2 DEF One, after, Effect
<1>9. CASE k = 2
  <2>1. after = sourced
    BY <1>2, <1>9
  <2>2. k # 0 /\ k >= 2 /\ ~(k >= 3) /\ ~(k >= 4)
    BY <1>9
  <2> QED BY <1>1, <1>3, <1>6, <2>1, <2>2 DEF One, after, Effect
<1>10. CASE k = 3
  <2>1. after = credited
    BY <1>2, <1>10
  <2>2. k # 0 /\ k >= 2 /\ k >= 3 /\ ~(k >= 4)
    BY <1>10
  <2> QED BY <1>1, <1>3, <1>4, <1>6, <2>1, <2>2 DEF One, after, Effect
<1>11. CASE k = 4
  <2>1. after = bumped
    BY <1>2, <1>11
  <2>2. k # 0 /\ k >= 2 /\ k >= 3 /\ k >= 4
    BY <1>11
  <2> QED BY <1>1, <1>3, <1>4, <1>5, <2>1, <2>2 DEF One, after, Effect
<1> QED BY <1>7, <1>8, <1>9, <1>10, <1>11

\* A row more is one more of the rows that it belongs to.
LEMMA RowsOfAppended ==
    ASSUME NEW t \in Tables, NEW r \in Tables, NEW e \in Event, NEW S,
           r.events = Append(t.events, e)
    PROVE  /\ RowsOf(t, S) \in Nat
           /\ RowsOf(r, S) = RowsOf(t, S) + One(e \in S)
<1> DEFINE s == t.events
           n == Len(s)
           A == {i \in DOMAIN s : s[i] \in S}
           B == {i \in DOMAIN r.events : r.events[i] \in S}
<1>1. s \in Seq(Event) /\ n \in Nat /\ DOMAIN s = 1 .. n
  BY DEF Tables
<1>2. /\ DOMAIN r.events = 1 .. n + 1 /\ r.events[n + 1] = e
      /\ \A i \in 1 .. n : r.events[i] = s[i]
  BY <1>1
<1>3. A \subseteq 1 .. n /\ IsFiniteSet(A) /\ Cardinality(A) \in Nat
  <2>1. IsFiniteSet(1 .. n)
    BY <1>1, FS_Interval
  <2>2. A \subseteq 1 .. n
    BY <1>1
  <2> QED BY <2>1, <2>2, FS_Subset, FS_CardinalityType
<1>6. RowsOf(t, S) = Cardinality(A) /\ RowsOf(r, S) = Cardinality(B)
  BY DEF RowsOf
<1> HIDE DEF s, n
<1>4. CASE e \in S
  <2>1. B = A \cup {n + 1}
    BY <1>1, <1>2, <1>4
  <2>2. n + 1 \notin A
    BY <1>1, <1>3
  <2> HIDE DEF A, B
  <2>3. Cardinality(A \cup {n + 1}) = Cardinality(A) + 1
    BY <1>3, <2>2, FS_AddElement
  <2> QED BY <1>3, <1>4, <1>6, <2>1, <2>3 DEF One
<1>5. CASE e \notin S
  <2>1. B = A
    BY <1>1, <1>2, <1>5
  <2> HIDE DEF A, B
  <2> QED BY <1>3, <1>5, <1>6, <2>1 DEF One
<1> QED BY <1>4, <1>5

\* The same rows are the same numbers of rows.
LEMMA RowsOfSame ==
    ASSUME NEW t \in Tables, NEW r \in Tables, NEW S, r.events = t.events
    PROVE  RowsOf(r, S) = RowsOf(t, S) /\ RowsOf(t, S) \in Nat
<1>1. t.events \in Seq(Event)
  BY DEF Tables
<1>2. IsFiniteSet(1 .. Len(t.events))
  BY <1>1, FS_Interval
<1>3. {i \in DOMAIN t.events : t.events[i] \in S} \subseteq 1 .. Len(t.events)
  BY <1>1
<1>4. Cardinality({i \in DOMAIN t.events : t.events[i] \in S}) \in Nat
  BY <1>2, <1>3, FS_Subset, FS_CardinalityType
<1> QED BY <1>4 DEF RowsOf

\* write_event of an event that has no row yet, up to any of its statements,
\* leaves each counter at most one further behind; all of it, no further.
LEMMA StatementsKeepCounters ==
    ASSUME NEW t \in Tables, NEW e \in Event, NEW k \in 0 .. 4, NEW lag \in Nat,
           e \notin Range(t.events), CountersFollow(t, lag)
    PROVE  CountersFollow(AfterStatements(k, t, e), IF k = 4 THEN lag ELSE lag + 1)
<1> DEFINE r == AfterStatements(k, t, e)
           new == IF k = 4 THEN lag ELSE lag + 1
<1>1. /\ r \in Tables
      /\ r.events = IF k = 0 THEN t.events ELSE Append(t.events, e)
      /\ \A i \in Ip :
            /\ r.sources[i].conns = t.sources[i].conns
                  + One(k >= 2 /\ SrcIp[e] = i /\ Type[e] = "connect")
            /\ r.sources[i].auths = t.sources[i].auths
                  + One(k >= 2 /\ SrcIp[e] = i /\ Type[e] = "auth")
      /\ \A c \in Cred : r.credentials[c].hits = t.credentials[c].hits
                + One(k >= 3 /\ HasCredential(e) /\ Credential[e] = c)
      /\ \A d \in Day \X Port : r.daily[d].auths = t.daily[d].auths
                + One(k >= 4 /\ <<DayOf[e], DstPort[e]>> = d /\ Type[e] = "auth")
  <2>1. Effect(t, e, k, r)
    BY StatementsHaveEffect
  <2> HIDE DEF r
  <2> QED BY <2>1 DEF Effect
<1>2. /\ \A i \in Ip : t.sources[i].conns \in Nat /\ t.sources[i].auths \in Nat
      /\ \A c \in Cred : t.credentials[c].hits \in Nat
      /\ \A d \in Day \X Port : t.daily[d].auths \in Nat
  BY DEF Tables, SourceRows, CredentialRows, DailyRows
<1> HIDE DEF r
<1>3. ASSUME NEW S
      PROVE  RowsOf(t, S) \in Nat /\ RowsOf(r, S) = RowsOf(t, S) + One(k # 0 /\ e \in S)
  <2>1. CASE k = 0
    BY <1>1, <2>1, RowsOfSame DEF One
  <2>2. CASE k # 0
    <3>1. r \in Tables /\ r.events = Append(t.events, e)
      BY <1>1, <2>2
    <3>2. RowsOf(t, S) \in Nat /\ RowsOf(r, S) = RowsOf(t, S) + One(e \in S)
      BY <3>1, RowsOfAppended
    <3> QED BY <2>2, <3>2 DEF One
  <2> QED BY <2>1, <2>2
<1>4. ASSUME NEW before \in Nat, NEW after, NEW S, NEW j \in 1 .. 4,
             after = before + One(k >= j /\ e \in S), Follows(before, RowsOf(t, S), lag)
      PROVE  Follows(after, RowsOf(r, S), new)
  <2>1. RowsOf(t, S) \in Nat /\ RowsOf(r, S) = RowsOf(t, S) + One(k # 0 /\ e \in S)
    BY <1>3
  <2> QED BY <1>4, <2>1 DEF Follows, One
<1> HIDE DEF new
<1>5. ASSUME NEW c \in Cred
      PROVE  Follows(r.credentials[c].hits, RowsOf(r, Logins(c)), new)
  <2>1. (HasCredential(e) /\ Credential[e] = c) <=> e \in Logins(c)
    BY DEF Logins
  <2>2. r.credentials[c].hits = t.credentials[c].hits + One(k >= 3 /\ e \in Logins(c))
    BY <1>1, <2>1 DEF One
  <2> QED BY <1>2, <1>4, <2>2 DEF CountersFollow
<1>6. ASSUME NEW i \in Ip
      PROVE  /\ Follows(r.sources[i].conns, RowsOf(r, Connects(i)), new)
             /\ Follows(r.sources[i].auths, RowsOf(r, Auths(i)), new)
  <2>1. /\ (SrcIp[e] = i /\ Type[e] = "connect") <=> e \in Connects(i)
        /\ (SrcIp[e] = i /\ Type[e] = "auth") <=> e \in Auths(i)
    BY DEF Connects, Auths
  <2>2. /\ r.sources[i].conns = t.sources[i].conns + One(k >= 2 /\ e \in Connects(i))
        /\ r.sources[i].auths = t.sources[i].auths + One(k >= 2 /\ e \in Auths(i))
    BY <1>1, <2>1 DEF One
  <2> QED BY <1>2, <1>4, <2>2 DEF CountersFollow
<1>7. ASSUME NEW d \in Day \X Port
      PROVE  Follows(r.daily[d].auths, RowsOf(r, DailyAuths(d)), new)
  <2>1. (<<DayOf[e], DstPort[e]>> = d /\ Type[e] = "auth") <=> e \in DailyAuths(d)
    BY DEF DailyAuths
  <2>2. r.daily[d].auths = t.daily[d].auths + One(k >= 4 /\ e \in DailyAuths(d))
    BY <1>1, <2>1 DEF One
  <2> QED BY <1>2, <1>4, <2>2 DEF CountersFollow
<1>8. CountersFollow(r, new)
  BY <1>5, <1>6, <1>7 DEF CountersFollow
<1> QED BY <1>8 DEF r, new

(***************************************************************************)
(* The file                                                                *)
(***************************************************************************)

\* The events of lines ls, cut line c and unwritten lines b, in order.
InOrder(ls, c, o, b) ==
    /\ \A i, j \in 1 .. Len(ls) :
          i < j /\ ls[i] \in Event /\ ls[j] \in Event => ls[i] < ls[j]
    /\ \A i \in 1 .. Len(ls), j \in 1 .. Len(b) : ls[i] \in Event => ls[i] < b[j]
    /\ \A i, j \in 1 .. Len(b) : i < j => b[i] < b[j]
    /\ c # <<>> /\ c[1] \in Event =>
          /\ \A i \in 1 .. Len(ls) : ls[i] \in Event => ls[i] < c[1]
          /\ \A j \in 1 .. Len(b) : IF o THEN c[1] <= b[j] ELSE c[1] < b[j]

\* All of them are below n.
AllBelow(ls, c, b, n) ==
    /\ \A i \in 1 .. Len(ls) : ls[i] \in Event => ls[i] < n
    /\ c # <<>> /\ c[1] \in Event => c[1] < n
    /\ \A j \in 1 .. Len(b) : b[j] < n

\* What can be cut: nothing, or one line as a reader would see it.
AtMostOneLine == {<<>>} \cup {<<line>> : line \in Line}

\* The file and its handle, about to write `out`.
FileTyped(out) ==
    /\ lines \in Seq(Line) /\ cut \in AtMostOneLine /\ own \in BOOLEAN
    /\ out \in Seq(Event)
    /\ own => cut # <<>> /\ out # <<>> /\ cut[1] \in {out[1], Garbled, Broken}

\* k lines of `out` are written, and `part` is in the file of the next one.
Written(out, k, part) ==
    /\ k \in 0 .. Len(out)
    /\ IF k < Len(out) THEN part \in Fragments(out, k)
                       ELSE part = IF out = <<>> THEN cut ELSE <<>>

\* The first line of the buffer will be glued to a fragment nothing completes.
Dead == cut # <<>> /\ ~own

\* An event is a line; Garbled and Broken are lines and no events.
LEMMA EventsAreLines ==
    /\ Event \subseteq Line /\ Event \subseteq Nat /\ Line \subseteq Nat
    /\ Garbled \in Line /\ Broken \in Line /\ Garbled \notin Event /\ Broken \notin Event
BY EventsHaveFields DEF Event, Line, Garbled, Broken

\* The lines after a write: those before it, then the written ones, the first
\* of them glued to a dead fragment if there was one.
LEMMA CompletedLines ==
    ASSUME NEW out, FileTyped(out), NEW k \in 0 .. Len(out)
    PROVE  /\ lines \o Completed(out, k) \in Seq(Line)
           /\ Len(lines \o Completed(out, k)) = Len(lines) + k
           /\ \A i \in 1 .. Len(lines) : (lines \o Completed(out, k))[i] = lines[i]
           /\ \A j \in 1 .. k : (lines \o Completed(out, k))[Len(lines) + j] =
                                   IF j = 1 /\ Dead THEN Glued ELSE out[j]
<1>1. /\ lines \in Seq(Line) /\ out \in Seq(Event) /\ out \in Seq(Line) /\ k \in Nat
      /\ Len(out) \in Nat /\ Glued \in Line
  <2>1. lines \in Seq(Line) /\ out \in Seq(Event) /\ k \in Nat /\ Len(out) \in Nat
    BY DEF FileTyped
  <2>2. Glued \in {Garbled, Broken}
    BY DEF Glued
  <2>3. out \in Seq(Line)
    BY <2>1, EventsAreLines, SeqMonotonic
  <2> QED BY <2>1, <2>2, <2>3, EventsAreLines
<1> DEFINE c == Completed(out, k)
<1>2. /\ c \in Seq(Line) /\ Len(c) = k
      /\ \A j \in 1 .. k : c[j] = IF j = 1 /\ Dead THEN Glued ELSE out[j]
  <2>1. CASE k = 0 \/ ~Dead
    <3>1. c = SubSeq(out, 1, k)
      BY <2>1 DEF Completed, Dead
    <3>2. /\ SubSeq(out, 1, k) \in Seq(Line) /\ Len(SubSeq(out, 1, k)) = k
          /\ \A j \in 1 .. k : SubSeq(out, 1, k)[j] = out[j]
      BY <1>1
    <3> QED BY <2>1, <3>1, <3>2
  <2>2. CASE k # 0 /\ Dead
    <3> DEFINE rest == SubSeq(out, 2, k)
    <3>1. c = <<Glued>> \o rest
      BY <2>2 DEF Completed, Dead
    <3>2. /\ rest \in Seq(Line) /\ Len(rest) = k - 1
          /\ \A j \in 1 .. k - 1 : rest[j] = out[j + 1]
      BY <1>1, <2>2
    <3> HIDE DEF rest
    <3> DEFINE whole == <<Glued>> \o rest
    <3>3. /\ whole \in Seq(Line) /\ Len(whole) = k
          /\ \A j \in 1 .. k : whole[j] = IF j = 1 THEN Glued ELSE rest[j - 1]
      <4>1. <<Glued>> \in Seq(Line) /\ Len(<<Glued>>) = 1 /\ <<Glued>>[1] = Glued
        BY <1>1
      <4> DEFINE one == <<Glued>>
      <4> HIDE DEF one
      <4>2. /\ one \o rest \in Seq(Line) /\ Len(one \o rest) = 1 + Len(rest)
            /\ \A j \in 1 .. 1 + Len(rest) :
                  (one \o rest)[j] = IF j <= 1 THEN one[j] ELSE rest[j - 1]
        BY <3>2, <4>1, ConcatProperties DEF one
      <4>3. whole = one \o rest
        BY DEF one
      <4> HIDE DEF whole
      <4> QED BY <3>2, <4>1, <4>2, <4>3, <1>1, <2>2 DEF one
    <3> HIDE DEF whole
    <3>4. c = whole
      BY <3>1 DEF whole
    <3>5. ASSUME NEW j \in 1 .. k PROVE c[j] = IF j = 1 /\ Dead THEN Glued ELSE out[j]
      <4>1. CASE j = 1
        BY <2>2, <3>3, <3>4, <4>1
      <4>2. CASE j # 1
        <5>1. j - 1 \in 1 .. k - 1 /\ (j - 1) + 1 = j
          BY <4>2, <1>1
        <5> QED BY <3>2, <3>3, <3>4, <4>2, <5>1
      <4> QED BY <4>1, <4>2
    <3> QED BY <3>3, <3>4, <3>5
  <2> QED BY <2>1, <2>2
<1> HIDE DEF c
<1>3. /\ lines \o c \in Seq(Line) /\ Len(lines \o c) = Len(lines) + Len(c)
      /\ \A i \in 1 .. Len(lines) + Len(c) :
            (lines \o c)[i] = IF i <= Len(lines) THEN lines[i] ELSE c[i - Len(lines)]
  BY <1>1, <1>2, ConcatProperties
<1> DEFINE n == Len(lines)
<1>4. n \in Nat
  BY <1>1
<1> HIDE DEF n
<1>5. ASSUME NEW j \in 1 .. k PROVE (lines \o c)[n + j] = c[j]
  <2>1. n + j \in 1 .. n + k /\ ~(n + j <= n) /\ (n + j) - n = j
    BY <1>1, <1>4
  <2> QED BY <1>2, <1>3, <2>1 DEF n
<1>6. \A i \in 1 .. n : (lines \o c)[i] = lines[i]
  BY <1>1, <1>2, <1>3, <1>4 DEF n
<1> QED BY <1>2, <1>3, <1>5, <1>6 DEF c, n

\* What may be left of a line: a piece of it, or what a dead fragment has become.
LEMMA FragmentCases ==
    ASSUME NEW out, FileTyped(out), NEW k \in 0 .. Len(out), k < Len(out),
           NEW part \in Fragments(out, k)
    PROVE  /\ part \in AtMostOneLine
           /\ part # <<>> => \/ part[1] \in {Garbled, Broken}
                             \/ part[1] = out[k + 1] /\ ~(k = 0 /\ Dead)
                             \/ k = 0 /\ Dead /\ part = cut
           /\ k = 0 /\ cut # <<>> => part # <<>>
           /\ k = 0 /\ own /\ cut = <<out[1]>> => part = cut
<1>1. out[k + 1] \in Line /\ Garbled \in Line /\ Broken \in Line /\ Glued \in {Garbled, Broken}
  <2>1. k + 1 \in 1 .. Len(out) /\ out \in Seq(Event)
    BY DEF FileTyped
  <2>2. out[k + 1] \in Event
    BY <2>1, ElementOfSeq
  <2>3. Glued \in {Garbled, Broken}
    BY DEF Glued
  <2> QED BY <2>2, <2>3, EventsAreLines
<1>2. cut \in AtMostOneLine /\ own \in BOOLEAN
  BY DEF FileTyped
<1>3. \A x : <<x>> # <<>> /\ <<x>>[1] = x
  OBVIOUS
<1>4. CASE k > 0 \/ cut = <<>>
  <2>1. part \in {<<>>, <<out[k + 1]>>, <<Garbled>>, <<Broken>>}
    BY <1>4 DEF Fragments
  <2>2. ~(k = 0 /\ cut # <<>>)
    BY <1>4
  <2> QED BY <1>1, <1>3, <2>1, <2>2 DEF AtMostOneLine, Dead
<1>5. CASE k = 0 /\ cut # <<>> /\ own /\ cut = <<out[1]>>
  <2>1. part = cut
    BY <1>5 DEF Fragments
  <2>2. k + 1 = 1
    BY <1>5
  <2> QED BY <1>2, <1>3, <1>5, <2>1, <2>2 DEF Dead
<1>6. CASE k = 0 /\ cut # <<>> /\ own /\ cut # <<out[1]>>
  <2>1. part \in {<<out[1]>>, <<Garbled>>, <<Broken>>}
    BY <1>6 DEF Fragments
  <2>2. k + 1 = 1
    BY <1>6
  <2> QED BY <1>1, <1>3, <1>6, <2>1, <2>2 DEF AtMostOneLine, Dead
<1>7. CASE k = 0 /\ Dead
  <2>1. part \in {cut, <<Glued>>, <<Broken>>}
    BY <1>7 DEF Fragments, Dead
  <2> QED BY <1>1, <1>2, <1>3, <1>7, <2>1 DEF AtMostOneLine, Dead
<1> QED BY <1>2, <1>4, <1>5, <1>6, <1>7 DEF Dead

\* What a write leaves unwritten.
Unwritten(out, k) == SubSeq(out, k + 1, Len(out))

\* Whether the handle goes on with the fragment.
StillOwn(k, part) == part # <<>> /\ ~(k = 0 /\ Dead)

\* The unwritten lines are the last ones of `out`.
LEMMA UnwrittenLines ==
    ASSUME NEW out \in Seq(Event), NEW k \in 0 .. Len(out)
    PROVE  /\ Unwritten(out, k) \in Seq(Event)
           /\ Len(Unwritten(out, k)) = Len(out) - k
           /\ \A j \in 1 .. Len(out) - k : Unwritten(out, k)[j] = out[k + j]
BY DEF Unwritten

\* The line that a write leaves unfinished: a piece of the next one, the dead
\* fragment, or not an event.
LEMMA WrittenPart ==
    ASSUME NEW out, FileTyped(out), NEW k, NEW part, Written(out, k, part)
    PROVE  /\ k \in 0 .. Len(out) /\ part \in AtMostOneLine
           /\ part # <<>> => \/ part[1] \in {Garbled, Broken}
                             \/ k < Len(out) /\ part[1] = out[k + 1] /\ ~(k = 0 /\ Dead)
                             \/ k = 0 /\ Dead /\ part = cut
           /\ k = 0 /\ cut # <<>> => part # <<>>
           /\ k = 0 /\ own /\ cut = <<out[1]>> => part = cut
<1>1. k \in 0 .. Len(out) /\ Len(out) \in Nat
  BY DEF Written, FileTyped
<1>2. CASE k < Len(out)
  <2>1. part \in Fragments(out, k)
    BY <1>2 DEF Written
  <2> QED BY <1>1, <1>2, <2>1, FragmentCases
<1>3. CASE ~(k < Len(out)) /\ out = <<>>
  <2>1. part = cut /\ k = 0 /\ ~own /\ cut \in AtMostOneLine
    BY <1>1, <1>3 DEF Written, FileTyped
  <2> QED BY <1>1, <2>1 DEF Dead
<1>4. CASE ~(k < Len(out)) /\ out # <<>>
  <2>1. part = <<>> /\ k = Len(out)
    BY <1>1, <1>4 DEF Written
  <2>2. Len(out) # 0
    BY <1>4 DEF FileTyped
  <2> QED BY <1>1, <2>1, <2>2 DEF AtMostOneLine
<1> QED BY <1>2, <1>3, <1>4

\* A write keeps the order of the file.
LEMMA WriteKeepsOrder ==
    ASSUME NEW out, FileTyped(out), NEW k, NEW part, Written(out, k, part),
           InOrder(lines, cut, own, out)
    PROVE  InOrder(lines \o Completed(out, k), part, StillOwn(k, part), Unwritten(out, k))
<1> DEFINE L == lines \o Completed(out, k)
           n == Len(lines)
           rest == Unwritten(out, k)
           o == StillOwn(k, part)
<1>1. /\ lines \in Seq(Line) /\ out \in Seq(Event) /\ n \in Nat /\ Len(out) \in Nat
      /\ cut \in AtMostOneLine /\ k \in 0 .. Len(out) /\ part \in AtMostOneLine
  BY WrittenPart DEF FileTyped
<1>2. /\ L \in Seq(Line) /\ Len(L) = n + k
      /\ \A i \in 1 .. n : L[i] = lines[i]
      /\ \A j \in 1 .. k : L[n + j] = IF j = 1 /\ Dead THEN Glued ELSE out[j]
  BY <1>1, CompletedLines
<1>3. rest \in Seq(Event) /\ Len(rest) = Len(out) - k
      /\ \A j \in 1 .. Len(out) - k : rest[j] = out[k + j]
  BY <1>1, UnwrittenLines
<1>4. /\ \A i \in 1 .. n : lines[i] \in Nat
      /\ \A j \in 1 .. Len(out) : out[j] \in Nat
      /\ Glued \notin Event
  BY <1>1, ElementOfSeq, EventsAreLines DEF Glued
<1>5. /\ \A i, j \in 1 .. n :
            i < j /\ lines[i] \in Event /\ lines[j] \in Event => lines[i] < lines[j]
      /\ \A i \in 1 .. n, j \in 1 .. Len(out) : lines[i] \in Event => lines[i] < out[j]
      /\ \A i, j \in 1 .. Len(out) : i < j => out[i] < out[j]
      /\ cut # <<>> /\ cut[1] \in Event =>
            /\ \A i \in 1 .. n : lines[i] \in Event => lines[i] < cut[1]
            /\ \A j \in 1 .. Len(out) : IF own THEN cut[1] <= out[j] ELSE cut[1] < out[j]
  BY DEF InOrder
<1>6. part # <<>> /\ part[1] \in Event =>
            \/ k < Len(out) /\ part[1] = out[k + 1] /\ ~(k = 0 /\ Dead)
            \/ k = 0 /\ Dead /\ part = cut
  BY WrittenPart, EventsAreLines
<1> HIDE DEF L, n, rest
\* Where a line that holds an event comes from.
<1>7. ASSUME NEW i \in 1 .. Len(L), L[i] \in Event
      PROVE  \/ i \in 1 .. n /\ L[i] = lines[i]
             \/ i - n \in 1 .. k /\ L[i] = out[i - n] /\ n < i
  <2>1. CASE i <= n
    BY <1>1, <1>2, <2>1
  <2>2. CASE ~(i <= n)
    <3>1. i - n \in 1 .. k /\ n + (i - n) = i
      BY <1>1, <1>2, <2>2
    <3> DEFINE j == i - n
    <3>2. L[n + j] = IF j = 1 /\ Dead THEN Glued ELSE out[j]
      BY <1>2, <3>1
    <3>3. j \in 1 .. k /\ n + j = i /\ n < i
      BY <1>1, <2>2, <3>1
    <3> HIDE DEF j
    <3>4. L[i] = out[j]
      BY <1>4, <1>7, <3>2, <3>3
    <3> QED BY <3>3, <3>4 DEF j
  <2> QED BY <2>1, <2>2
<1>8. ASSUME NEW i \in 1 .. Len(L), NEW j \in 1 .. Len(L), i < j, L[i] \in Event, L[j] \in Event
      PROVE  L[i] < L[j]
  <2>1. CASE j \in 1 .. n
    <3>1. i \in 1 .. n /\ L[i] = lines[i] /\ L[j] = lines[j]
      BY <1>1, <1>2, <1>8, <2>1
    <3> QED BY <1>5, <1>8, <2>1, <3>1
  <2>2. CASE j \notin 1 .. n
    <3>1. j - n \in 1 .. k /\ L[j] = out[j - n] /\ j - n \in 1 .. Len(out)
      BY <1>1, <1>7, <1>8, <2>2
    <3>2. CASE i \in 1 .. n /\ L[i] = lines[i]
      BY <1>5, <1>8, <3>1, <3>2
    <3>3. CASE i - n \in 1 .. k /\ L[i] = out[i - n]
      <4>1. i - n \in 1 .. Len(out) /\ i - n < j - n
        BY <1>1, <1>8, <3>1, <3>3
      <4> QED BY <1>5, <3>1, <3>3, <4>1
    <3> QED BY <1>7, <1>8, <3>2, <3>3
  <2> QED BY <2>1, <2>2
<1>9. ASSUME NEW i \in 1 .. Len(L), NEW j \in 1 .. Len(rest), L[i] \in Event
      PROVE  L[i] < rest[j]
  <2>1. j \in 1 .. Len(out) - k /\ k + j \in 1 .. Len(out) /\ rest[j] = out[k + j]
    BY <1>1, <1>3
  <2>2. CASE i \in 1 .. n /\ L[i] = lines[i]
    BY <1>5, <1>9, <2>1, <2>2
  <2>3. CASE i - n \in 1 .. k /\ L[i] = out[i - n]
    <3>1. i - n \in 1 .. Len(out) /\ i - n < k + j
      BY <1>1, <2>1, <2>3
    <3> QED BY <1>5, <2>1, <2>3, <3>1
  <2> QED BY <1>7, <1>9, <2>2, <2>3
<1>10. ASSUME NEW i \in 1 .. Len(rest), NEW j \in 1 .. Len(rest), i < j
       PROVE  rest[i] < rest[j]
  <2>1. /\ i \in 1 .. Len(out) - k /\ j \in 1 .. Len(out) - k
        /\ k + i \in 1 .. Len(out) /\ k + j \in 1 .. Len(out) /\ k + i < k + j
    BY <1>1, <1>3, <1>10
  <2> QED BY <1>3, <1>5, <2>1
<1>11. ASSUME part # <<>>, part[1] \in Event
       PROVE  /\ \A i \in 1 .. Len(L) : L[i] \in Event => L[i] < part[1]
              /\ \A j \in 1 .. Len(rest) : IF o THEN part[1] <= rest[j] ELSE part[1] < rest[j]
  <2>1. CASE k < Len(out) /\ part[1] = out[k + 1] /\ ~(k = 0 /\ Dead)
    <3>1. o = TRUE /\ k + 1 \in 1 .. Len(out)
      BY <1>1, <1>11, <2>1 DEF StillOwn
    <3> HIDE DEF o
    <3>2. ASSUME NEW i \in 1 .. Len(L), L[i] \in Event PROVE L[i] < part[1]
      <4>1. CASE i \in 1 .. n /\ L[i] = lines[i]
        BY <1>5, <2>1, <3>1, <3>2, <4>1
      <4>2. CASE i - n \in 1 .. k /\ L[i] = out[i - n]
        <5>1. i - n \in 1 .. Len(out) /\ i - n < k + 1
          BY <1>1, <4>2
        <5> QED BY <1>5, <2>1, <3>1, <4>2, <5>1
      <4> QED BY <1>7, <3>2, <4>1, <4>2
    <3>3. ASSUME NEW j \in 1 .. Len(rest) PROVE part[1] <= rest[j]
      <4>1. /\ j \in 1 .. Len(out) - k /\ rest[j] = out[k + j] /\ k + j \in 1 .. Len(out)
            /\ j = 1 \/ k + 1 < k + j
        BY <1>1, <1>3
      <4>2. out[k + 1] \in Nat /\ out[k + j] \in Nat
        BY <1>4, <3>1, <4>1
      <4> QED BY <1>5, <2>1, <3>1, <4>1, <4>2
    <3> QED BY <3>1, <3>2, <3>3
  <2>2. CASE k = 0 /\ Dead /\ part = cut
    <3>1. o = FALSE /\ ~own /\ cut # <<>> /\ cut[1] \in Event
      BY <1>11, <2>2 DEF StillOwn, Dead
    <3> HIDE DEF o
    <3>2. ASSUME NEW i \in 1 .. Len(L), L[i] \in Event PROVE L[i] < part[1]
      <4>1. i \in 1 .. n /\ L[i] = lines[i]
        BY <1>1, <1>7, <2>2, <3>2
      <4> QED BY <1>5, <2>2, <3>1, <3>2, <4>1
    <3>3. ASSUME NEW j \in 1 .. Len(rest) PROVE part[1] < rest[j]
      <4>1. j \in 1 .. Len(out) - k /\ rest[j] = out[k + j] /\ k + j = j /\ j \in 1 .. Len(out)
        BY <1>1, <1>3, <2>2
      <4> QED BY <1>5, <2>2, <3>1, <4>1
    <3> QED BY <3>1, <3>2, <3>3
  <2> QED BY <1>6, <1>11, <2>1, <2>2
<1> HIDE DEF o
<1>12. InOrder(L, part, o, rest)
  BY <1>8, <1>9, <1>10, <1>11 DEF InOrder
<1> QED BY <1>12 DEF L, rest, o

\* A write keeps all events below a bound.
LEMMA WriteKeepsBound ==
    ASSUME NEW out, FileTyped(out), NEW k, NEW part, Written(out, k, part),
           NEW bound, AllBelow(lines, cut, out, bound)
    PROVE  AllBelow(lines \o Completed(out, k), part, Unwritten(out, k), bound)
<1> DEFINE L == lines \o Completed(out, k)
           n == Len(lines)
           rest == Unwritten(out, k)
<1>1. /\ lines \in Seq(Line) /\ out \in Seq(Event) /\ n \in Nat /\ Len(out) \in Nat
      /\ k \in 0 .. Len(out)
  BY WrittenPart DEF FileTyped
<1>2. /\ Len(L) = n + k /\ \A i \in 1 .. n : L[i] = lines[i]
      /\ \A j \in 1 .. k : L[n + j] = IF j = 1 /\ Dead THEN Glued ELSE out[j]
  BY <1>1, CompletedLines
<1>3. Len(rest) = Len(out) - k /\ \A j \in 1 .. Len(out) - k : rest[j] = out[k + j]
  BY <1>1, UnwrittenLines
<1>4. /\ \A i \in 1 .. n : lines[i] \in Event => lines[i] < bound
      /\ cut # <<>> /\ cut[1] \in Event => cut[1] < bound
      /\ \A j \in 1 .. Len(out) : out[j] < bound
  BY DEF AllBelow
<1>5. Glued \notin Event
  BY EventsAreLines DEF Glued
<1>6. part # <<>> /\ part[1] \in Event =>
            \/ k < Len(out) /\ part[1] = out[k + 1]
            \/ Dead /\ part = cut
  BY WrittenPart, EventsAreLines
<1> HIDE DEF L, n, rest
<1>7. ASSUME NEW i \in 1 .. Len(L), L[i] \in Event PROVE L[i] < bound
  <2>1. CASE i <= n
    BY <1>1, <1>2, <1>4, <1>7, <2>1
  <2>2. CASE ~(i <= n)
    <3>1. i - n \in 1 .. k /\ n + (i - n) = i /\ i - n \in 1 .. Len(out)
      BY <1>1, <1>2, <2>2
    <3> QED BY <1>2, <1>4, <1>5, <1>7, <3>1
  <2> QED BY <2>1, <2>2
<1>8. ASSUME NEW j \in 1 .. Len(rest) PROVE rest[j] < bound
  <2>1. j \in 1 .. Len(out) - k /\ k + j \in 1 .. Len(out)
    BY <1>1, <1>3
  <2> QED BY <1>3, <1>4, <2>1
<1>9. ASSUME part # <<>>, part[1] \in Event PROVE part[1] < bound
  <2>1. CASE k < Len(out) /\ part[1] = out[k + 1]
    <3>1. k + 1 \in 1 .. Len(out)
      BY <1>1, <2>1
    <3> QED BY <1>4, <2>1, <3>1
  <2>2. CASE Dead /\ part = cut
    BY <1>4, <1>9, <2>2 DEF Dead
  <2> QED BY <1>6, <1>9, <2>1, <2>2
<1>10. AllBelow(L, part, rest, bound)
  BY <1>7, <1>8, <1>9 DEF AllBelow
<1> QED BY <1>10 DEF L, rest

\* A cut line, or none, as a sequence.
LEMMA CutLines ==
    ASSUME NEW c \in AtMostOneLine
    PROVE  /\ c \in Seq(Line) /\ Len(c) \in {0, 1} /\ (c = <<>> <=> Len(c) = 0)
           /\ c # <<>> => c = <<c[1]>> /\ c[1] \in Line
<1>1. CASE c = <<>>
  BY <1>1
<1>2. CASE c # <<>>
  <2>1. PICK line \in Line : c = <<line>>
    BY <1>2 DEF AtMostOneLine
  <2>2. <<line>> \in Seq(Line) /\ Len(<<line>>) = 1 /\ <<line>>[1] = line
    OBVIOUS
  <2> QED BY <1>2, <2>1, <2>2
<1> QED BY <1>1, <1>2

\* The lines of a text are those of its two parts.
LEMMA LinesOfText ==
    ASSUME NEW ls \in Seq(Line), NEW c \in AtMostOneLine
    PROVE  /\ ls \o c \in Seq(Line) /\ Len(ls \o c) = Len(ls) + Len(c)
           /\ c \in Seq(Line) /\ Len(c) \in {0, 1} /\ (c = <<>> <=> Len(c) = 0)
           /\ \A i \in 1 .. Len(ls) : (ls \o c)[i] = ls[i]
           /\ c # <<>> => (ls \o c)[Len(ls) + 1] = c[1]
           /\ Range(ls \o c) = Range(ls) \cup Range(c)
           /\ Range(c) = IF c = <<>> THEN {} ELSE {c[1]}
<1>1. c \in Seq(Line) /\ Len(c) \in {0, 1} /\ (c = <<>> <=> Len(c) = 0)
  BY CutLines
<1> DEFINE n == Len(ls)
           t == ls \o c
<1>2. /\ t \in Seq(Line) /\ Len(t) = n + Len(c) /\ n \in Nat
      /\ \A i \in 1 .. n + Len(c) : t[i] = IF i <= n THEN ls[i] ELSE c[i - n]
  BY <1>1, ConcatProperties
<1> HIDE DEF n, t
<1>3. \A i \in 1 .. n : t[i] = ls[i]
  BY <1>1, <1>2
<1>4. c # <<>> => Len(c) = 1 /\ t[n + 1] = c[1]
  <2>1. SUFFICES ASSUME c # <<>> PROVE Len(c) = 1 /\ t[n + 1] = c[1]
    OBVIOUS
  <2>2. Len(c) = 1 /\ n + 1 \in 1 .. n + 1 /\ ~(n + 1 <= n) /\ (n + 1) - n = 1
    BY <1>1, <1>2, <2>1
  <2> QED BY <1>2, <2>2
<1>5. DOMAIN t = 1 .. Len(t) /\ DOMAIN ls = 1 .. n /\ DOMAIN c = 1 .. Len(c)
  BY <1>1, <1>2 DEF n
<1>6. Range(c) = IF c = <<>> THEN {} ELSE {c[1]}
  BY <1>1, <1>5 DEF Range
<1>7. Range(t) = Range(ls) \cup Range(c)
  <2>1. ASSUME NEW i \in 1 .. Len(t) PROVE t[i] \in Range(ls) \cup Range(c)
    <3>1. CASE i <= n
      <4>1. i \in 1 .. n /\ t[i] = ls[i]
        BY <1>2, <1>3, <3>1
      <4> QED BY <1>5, <4>1 DEF Range
    <3>2. CASE ~(i <= n)
      <4>1. c # <<>> /\ i = n + 1
        BY <1>1, <1>2, <3>2
      <4> QED BY <1>4, <1>6, <4>1
    <3> QED BY <3>1, <3>2
  <2>2. ASSUME NEW i \in 1 .. n PROVE ls[i] \in Range(t)
    <3>1. i \in 1 .. Len(t) /\ t[i] = ls[i]
      BY <1>1, <1>2, <1>3
    <3> QED BY <1>5, <3>1 DEF Range
  <2>3. ASSUME c # <<>> PROVE c[1] \in Range(t)
    <3>1. n + 1 \in 1 .. Len(t)
      BY <1>2, <1>4, <2>3
    <3> QED BY <1>4, <1>5, <2>3, <3>1 DEF Range
  <2>4. Range(t) \subseteq Range(ls) \cup Range(c)
    BY <1>5, <2>1 DEF Range
  <2>5. Range(ls) \subseteq Range(t)
    BY <1>5, <2>2 DEF Range
  <2>6. Range(c) \subseteq Range(t)
    BY <1>6, <2>3
  <2> QED BY <2>4, <2>5, <2>6
<1> QED BY <1>1, <1>2, <1>3, <1>4, <1>6, <1>7 DEF n, t

\* What is in the lines is what was, and the lines written.
LEMMA CompletedHold ==
    ASSUME NEW out, FileTyped(out), NEW k \in 0 .. Len(out)
    PROVE  /\ Range(lines) \subseteq Range(lines \o Completed(out, k))
           /\ \A j \in 1 .. k : (j = 1 /\ Dead) \/ out[j] \in Range(lines \o Completed(out, k))
<1> DEFINE L == lines \o Completed(out, k)
           n == Len(lines)
<1>1. /\ L \in Seq(Line) /\ Len(L) = n + k /\ n \in Nat /\ lines \in Seq(Line)
      /\ \A i \in 1 .. n : L[i] = lines[i]
      /\ \A j \in 1 .. k : L[n + j] = IF j = 1 /\ Dead THEN Glued ELSE out[j]
  BY CompletedLines DEF FileTyped
<1>2. DOMAIN lines = 1 .. n
  BY <1>1
<1> HIDE DEF L, n
<1>3. DOMAIN L = 1 .. n + k
  BY <1>1
<1>4. ASSUME NEW i \in 1 .. n PROVE lines[i] \in Range(L)
  <2>1. i \in 1 .. n + k
    BY <1>1
  <2> QED BY <1>1, <1>3, <2>1 DEF Range
<1>5. ASSUME NEW j \in 1 .. k, ~(j = 1 /\ Dead) PROVE out[j] \in Range(L)
  <2>1. n + j \in 1 .. n + k /\ L[n + j] = out[j]
    BY <1>1, <1>5
  <2> QED BY <1>3, <2>1 DEF Range
<1>6. Range(lines) \subseteq Range(L)
  BY <1>2, <1>4 DEF Range
<1> QED BY <1>5, <1>6 DEF L

\* A write loses at most the event of a dead fragment, and does not shorten.
LEMMA WriteKeepsEvents ==
    ASSUME NEW out, FileTyped(out), NEW k, NEW part, Written(out, k, part)
    PROVE  /\ \A e \in Event : e \in Range(lines \o cut) =>
                 \/ e \in Range((lines \o Completed(out, k)) \o part)
                 \/ Dead /\ cut[1] = e /\ part # cut
           /\ Len((lines \o Completed(out, k)) \o part) >= Len(lines \o cut)
<1> DEFINE L == lines \o Completed(out, k)
<1>1. /\ k \in 0 .. Len(out) /\ Len(out) \in Nat /\ part \in AtMostOneLine
      /\ lines \in Seq(Line) /\ cut \in AtMostOneLine /\ own \in BOOLEAN
      /\ own => cut # <<>> /\ out # <<>> /\ cut[1] \in {out[1], Garbled, Broken}
      /\ Len(lines) \in Nat
  BY WrittenPart DEF FileTyped
<1>2. /\ k = 0 /\ cut # <<>> => part # <<>>
      /\ k = 0 /\ own /\ cut = <<out[1]>> => part = cut
  BY WrittenPart
<1>3. /\ L \in Seq(Line) /\ Len(L) = Len(lines) + k
  BY <1>1, CompletedLines
<1>4. /\ Range(lines) \subseteq Range(L)
      /\ \A j \in 1 .. k : (j = 1 /\ Dead) \/ out[j] \in Range(L)
  BY <1>1, CompletedHold
<1> HIDE DEF L
<1>5. /\ Range(lines \o cut) = Range(lines) \cup Range(cut)
      /\ Range(cut) = IF cut = <<>> THEN {} ELSE {cut[1]}
      /\ Len(lines \o cut) = Len(lines) + Len(cut)
      /\ Len(cut) \in {0, 1} /\ (cut = <<>> <=> Len(cut) = 0)
  BY <1>1, LinesOfText
<1>6. /\ Range(L \o part) = Range(L) \cup Range(part)
      /\ Len(L \o part) = Len(L) + Len(part)
      /\ Len(part) \in {0, 1} /\ (part = <<>> <=> Len(part) = 0)
  BY <1>1, <1>3, LinesOfText
<1>7. ASSUME NEW e \in Event, e \in Range(lines \o cut)
      PROVE  e \in Range(L \o part) \/ (Dead /\ cut[1] = e /\ part # cut)
  <2>1. CASE e \in Range(lines)
    BY <1>4, <1>6, <2>1
  <2>2. CASE cut # <<>> /\ e = cut[1] /\ part = cut
    BY <1>5, <1>6, <2>2
  <2>3. CASE cut # <<>> /\ e = cut[1] /\ part # cut /\ own
    <3>1. cut[1] = out[1]
      BY <1>1, <1>7, <2>3, EventsAreLines
    <3>2. cut = <<cut[1]>>
      BY <1>1, <2>3, CutLines
    <3>3. k # 0
      BY <1>2, <2>3, <3>1, <3>2
    <3>4. 1 \in 1 .. k /\ ~Dead
      BY <1>1, <2>3, <3>3 DEF Dead
    <3> QED BY <1>4, <1>6, <2>3, <3>1, <3>4
  <2> QED BY <1>5, <1>7, <2>1, <2>2, <2>3 DEF Dead
<1>8. Len(L \o part) >= Len(lines \o cut)
  <2> DEFINE n == Len(lines)
             c == Len(cut)
             p == Len(part)
  <2>1. n \in Nat /\ c \in {0, 1} /\ p \in {0, 1} /\ k \in Nat
    BY <1>1, <1>5, <1>6
  <2>2. k = 0 /\ c = 1 => p = 1
    BY <1>2, <1>5, <1>6
  <2>3. Len(L \o part) = (n + k) + p /\ Len(lines \o cut) = n + c
    BY <1>3, <1>5, <1>6
  <2> HIDE DEF n, c, p
  <2>4. (n + k) + p >= n + c
    BY <2>1, <2>2
  <2> QED BY <2>3, <2>4
<1> QED BY <1>7, <1>8 DEF L

(***************************************************************************)
(* Every write to the file is a write of `out` up to some line             *)
(***************************************************************************)

\* The handle stays open, or it is closed with a part of a line in the file, or
\* the next file is opened and the part stays behind as a line.
Leaves(out, k, part) ==
    LET L == lines \o Completed(out, k) IN
    \/ /\ lines' = L /\ cut' = part
       /\ own' = StillOwn(k, part) /\ buffer' = Unwritten(out, k) /\ tears' = tears
    \/ /\ lines' = L /\ cut' = part
       /\ own' = FALSE /\ buffer' = <<>> /\ tears' = tears + One(StillOwn(k, part))
    \/ /\ lines' = L \o part /\ cut' = <<>>
       /\ own' = FALSE /\ buffer' = <<>> /\ tears' = tears + One(StillOwn(k, part))

\* A write of the first k lines of `out` and a part of the next.
Writes(out, k, part) == Written(out, k, part) /\ Leaves(out, k, part)

\* FlushAll writes all of it.
LEMMA FlushAllWrites ==
    ASSUME NEW out \in Seq(Event), out # <<>>, tears \in Nat, FlushAll(out), tears' = tears
    PROVE  Writes(out, Len(out), <<>>)
<1>1. Len(out) \in Nat /\ Unwritten(out, Len(out)) = <<>>
  BY DEF Unwritten
<1>2. StillOwn(Len(out), <<>>) = FALSE
  BY DEF StillOwn
<1>3. Written(out, Len(out), <<>>)
  BY <1>1 DEF Written
<1> QED BY <1>1, <1>2, <1>3 DEF Writes, Leaves, FlushAll

\* FlushSome leaves the handle open.
LEMMA FlushSomeWrites ==
    ASSUME NEW out \in Seq(Event), NEW k \in 0 .. Len(out) - 1,
           NEW part, FlushSome(out, k, part), tears' = tears
    PROVE  Writes(out, k, part)
<1>1. k \in 0 .. Len(out) /\ k < Len(out) /\ (k > 0 <=> k # 0)
  OBVIOUS
<1>2. Written(out, k, part)
  BY <1>1 DEF Written, FlushSome
<1>3. StillOwn(k, part) = (part # <<>> /\ (k > 0 \/ cut = <<>> \/ own))
  BY <1>1 DEF StillOwn, Dead
<1> QED BY <1>2, <1>3 DEF Writes, Leaves, FlushSome, Unwritten

\* EndFile opens the next one.
LEMMA EndFileWrites ==
    ASSUME NEW out \in Seq(Event), out = buffer, NEW k \in 0 .. Len(out), NEW part,
           EndFile(k, part), own \in BOOLEAN, own => buffer # <<>>
    PROVE  Writes(out, k, part)
<1>1. Len(out) \in Nat /\ (k > 0 <=> k # 0) /\ (k < Len(out) <=> k # Len(out))
      /\ (out = <<>> <=> Len(out) = 0)
  OBVIOUS
<1>2. Written(out, k, part)
  BY <1>1 DEF Written, EndFile
<1>3. StillOwn(k, part) <=> (k < Len(out) /\ part # <<>> /\ (k > 0 \/ cut = <<>> \/ own))
  <2>1. CASE k < Len(out)
    BY <1>1, <2>1 DEF StillOwn, Dead
  <2>2. CASE ~(k < Len(out))
    <3>1. part = IF out = <<>> THEN cut ELSE <<>>
      BY <1>1, <2>2 DEF EndFile
    <3> QED BY <1>1, <2>2, <3>1 DEF StillOwn, Dead
  <2> QED BY <2>1, <2>2
<1>4. One(StillOwn(k, part)) = One(k < Len(out) /\ part # <<>> /\ (k > 0 \/ cut = <<>> \/ own))
  BY <1>3 DEF One
<1> QED BY <1>2, <1>4 DEF Writes, Leaves, EndFile

(***************************************************************************)
(* What a write keeps                                                      *)
(***************************************************************************)

\* What such a fragment can still cost: its own event, and the one
\* that will be glued to it.
AtRisk == IF Dead THEN 1 + One(cut[1] \in Event) ELSE 0

\* A write that finds the events in order and below a bound leaves them so,
\* whatever becomes of the handle.
LEMMA WriteKeepsFile ==
    ASSUME NEW out, NEW k, NEW part, Writes(out, k, part), FileTyped(out), NEW bound,
           InOrder(lines, cut, own, out), AllBelow(lines, cut, out, bound)
    PROVE  /\ lines' \in Seq(Line) /\ cut' \in AtMostOneLine /\ own' \in BOOLEAN
           /\ buffer' \in Seq(Event)
           /\ own' => cut' # <<>> /\ buffer' # <<>> /\ cut'[1] \in {buffer'[1], Garbled, Broken}
           /\ InOrder(lines', cut', own', buffer')
           /\ AllBelow(lines', cut', buffer', bound)
<1> DEFINE L == lines \o Completed(out, k)
           rest == Unwritten(out, k)
           o == StillOwn(k, part)
<1>1. /\ lines \in Seq(Line) /\ out \in Seq(Event) /\ k \in 0 .. Len(out) /\ Len(out) \in Nat
      /\ part \in AtMostOneLine /\ Written(out, k, part)
      /\ part # <<>> => \/ part[1] \in {Garbled, Broken}
                        \/ k < Len(out) /\ part[1] = out[k + 1] /\ ~(k = 0 /\ Dead)
                        \/ k = 0 /\ Dead /\ part = cut
  BY WrittenPart DEF Writes, FileTyped
<1>2. /\ L \in Seq(Line)
      /\ InOrder(L, part, o, rest) /\ AllBelow(L, part, rest, bound)
      /\ rest \in Seq(Event) /\ o \in BOOLEAN
  BY <1>1, CompletedLines, WriteKeepsOrder, WriteKeepsBound, UnwrittenLines DEF StillOwn
<1>3. o => part # <<>> /\ rest # <<>> /\ part[1] \in {rest[1], Garbled, Broken}
  <2>1. SUFFICES ASSUME o PROVE part # <<>> /\ rest # <<>> /\ part[1] \in {rest[1], Garbled, Broken}
    OBVIOUS
  <2>2. part # <<>> /\ ~(k = 0 /\ Dead)
    BY <2>1 DEF StillOwn
  <2>3. k < Len(out)
    <3>1. SUFFICES ASSUME ~(k < Len(out)) PROVE FALSE
      OBVIOUS
    <3>2. part = IF out = <<>> THEN cut ELSE <<>>
      BY <1>1, <3>1 DEF Written
    <3>3. out = <<>> /\ cut # <<>> /\ k = 0
      BY <1>1, <2>2, <3>1, <3>2
    <3> QED BY <2>2, <3>3 DEF Dead, FileTyped
  <2>4. 1 \in 1 .. Len(out) - k
    BY <1>1, <2>3
  <2>5. Len(rest) = Len(out) - k /\ rest[1] = out[k + 1]
    BY <1>1, <2>4, UnwrittenLines
  <2>6. rest # <<>>
    BY <2>4, <2>5
  <2> QED BY <1>1, <2>2, <2>5, <2>6
<1>4. /\ Leaves(out, k, part) /\ <<>> \in AtMostOneLine /\ <<>> \in Seq(Event) /\ Len(<<>>) = 0
  BY DEF Writes, AtMostOneLine
<1>5. \/ lines' = L /\ cut' = part /\ own' = o /\ buffer' = rest
      \/ lines' = L /\ cut' = part /\ own' = FALSE /\ buffer' = <<>>
      \/ lines' = L \o part /\ cut' = <<>> /\ own' = FALSE /\ buffer' = <<>>
  BY <1>4 DEF Leaves
<1> HIDE DEF L, rest, o
<1>6. CASE lines' = L /\ cut' = part /\ own' = o /\ buffer' = rest
  BY <1>1, <1>2, <1>3, <1>6
<1>7. CASE lines' = L /\ cut' = part /\ own' = FALSE /\ buffer' = <<>>
  <2>1. InOrder(L, part, FALSE, <<>>) /\ AllBelow(L, part, <<>>, bound)
    BY <1>2, <1>4 DEF InOrder, AllBelow
  <2> QED BY <1>1, <1>2, <1>4, <1>7, <2>1
<1>8. CASE lines' = L \o part /\ cut' = <<>> /\ own' = FALSE /\ buffer' = <<>>
  <2> DEFINE n == Len(L)
             T == L \o part
  <2>1. /\ T \in Seq(Line) /\ Len(T) = n + Len(part) /\ Len(part) \in {0, 1} /\ n \in Nat
        /\ (part = <<>> <=> Len(part) = 0)
        /\ \A i \in 1 .. n : T[i] = L[i]
        /\ part # <<>> => T[n + 1] = part[1]
    BY <1>1, <1>2, LinesOfText
  <2> HIDE DEF T, n
  <2>2. ASSUME NEW i \in 1 .. Len(T)
        PROVE  \/ i \in 1 .. n /\ T[i] = L[i]
               \/ i = n + 1 /\ part # <<>> /\ T[i] = part[1]
    <3>1. CASE i <= n
      BY <2>1, <3>1
    <3>2. CASE ~(i <= n)
      <4> DEFINE p == Len(part)
      <4>0. p \in {0, 1} /\ (part = <<>> <=> p = 0) /\ Len(T) = n + p /\ n \in Nat
        BY <2>1
      <4> HIDE DEF p
      <4>1. i = n + 1 /\ p = 1
        BY <4>0, <3>2
      <4> QED BY <2>1, <4>0, <4>1
    <3> QED BY <3>1, <3>2
  <2>3. ASSUME NEW i \in 1 .. Len(T), NEW j \in 1 .. Len(T), i < j, T[i] \in Event, T[j] \in Event
        PROVE  T[i] < T[j]
    <3>1. i \in 1 .. n /\ T[i] = L[i]
      <4>1. CASE i = n + 1
        BY <2>1, <2>2, <2>3, <4>1
      <4>2. CASE i # n + 1
        BY <2>2, <4>2
      <4> QED BY <4>1, <4>2
    <3>2. CASE j \in 1 .. n /\ T[j] = L[j]
      BY <1>2, <2>3, <3>1, <3>2 DEF InOrder, n
    <3>3. CASE j = n + 1 /\ part # <<>> /\ T[j] = part[1]
      BY <1>2, <2>3, <3>1, <3>3 DEF InOrder, n
    <3> QED BY <2>2, <3>2, <3>3
  <2>4. ASSUME NEW i \in 1 .. Len(T), T[i] \in Event PROVE T[i] < bound
    <3>1. CASE i \in 1 .. n /\ T[i] = L[i]
      BY <1>2, <2>4, <3>1 DEF AllBelow, n
    <3>2. CASE i = n + 1 /\ part # <<>> /\ T[i] = part[1]
      BY <1>2, <2>4, <3>2 DEF AllBelow
    <3> QED BY <2>2, <3>1, <3>2
  <2>5. InOrder(T, <<>>, FALSE, <<>>) /\ AllBelow(T, <<>>, <<>>, bound)
    BY <1>4, <2>3, <2>4 DEF InOrder, AllBelow
  <2> QED BY <1>4, <1>8, <2>1, <2>5 DEF T
<1> QED BY <1>5, <1>6, <1>7, <1>8

\* The text after a write, whatever becomes of the handle.
LEMMA TextAfterWrite ==
    ASSUME NEW out, NEW k, NEW part, Writes(out, k, part), FileTyped(out)
    PROVE  Text' = (lines \o Completed(out, k)) \o part
<1> DEFINE L == lines \o Completed(out, k)
<1>1. k \in 0 .. Len(out) /\ part \in AtMostOneLine
  BY WrittenPart DEF Writes
<1>2. L \in Seq(Line)
  BY <1>1, CompletedLines
<1>3. L \o part \in Seq(Line)
  BY <1>1, <1>2, LinesOfText
<1> HIDE DEF L
<1>4. Text' = lines' \o cut'
  BY DEF Text
<1>5. CASE lines' = L /\ cut' = part
  BY <1>4, <1>5 DEF L
<1>6. CASE lines' = L \o part /\ cut' = <<>>
  <2>1. (L \o part) \o <<>> = L \o part
    BY <1>3
  <2> QED BY <1>4, <1>6, <2>1 DEF L
<1> QED BY <1>5, <1>6 DEF Writes, Leaves, L

\* The events that a write takes from the text.
Gone == {e \in Event : e \in Range(Text) /\ e \notin Range(Text')}

\* The events that a write loses, and what it still puts at risk, are accounted
\* for by the risk that there was and by the line it tears.
LEMMA WriteLosesLittle ==
    ASSUME NEW out, NEW k, NEW part, Writes(out, k, part), FileTyped(out), tears \in Nat
    PROVE  /\ Len(Text') >= Len(Text)
           /\ Gone \subseteq {cut[1]} /\ (Gone # {} => Dead)
           /\ \A j \in 1 .. k : (j = 1 /\ Dead) \/ out[j] \in Range(Text')
           /\ tears' \in Nat
           /\ AtRisk' + One(Gone # {}) + One(k > 0 /\ Dead) + 2 * tears <= AtRisk + 2 * tears'
<1> DEFINE L == lines \o Completed(out, k)
<1>1. Text' = L \o part /\ Text = lines \o cut
  BY TextAfterWrite DEF Text
<1>2. /\ Written(out, k, part) /\ k \in 0 .. Len(out) /\ Len(out) \in Nat
      /\ cut \in AtMostOneLine /\ own \in BOOLEAN /\ part \in AtMostOneLine
  BY WrittenPart DEF Writes, FileTyped
<1>3. /\ \A e \in Event : e \in Range(lines \o cut) =>
            e \in Range(L \o part) \/ (Dead /\ cut[1] = e /\ part # cut)
      /\ Len(L \o part) >= Len(lines \o cut)
  BY <1>2, WriteKeepsEvents
<1>4. \A j \in 1 .. k : (j = 1 /\ Dead) \/ out[j] \in Range(L \o part)
  <2>1. L \in Seq(Line)
    BY <1>2, CompletedLines
  <2>2. Range(L \o part) = Range(L) \cup Range(part)
    BY <1>2, <2>1, LinesOfText
  <2>3. \A j \in 1 .. k : (j = 1 /\ Dead) \/ out[j] \in Range(L)
    BY <1>2, CompletedHold
  <2> QED BY <2>2, <2>3
<1>5. part # <<>> => \/ part[1] \in {Garbled, Broken}
                     \/ k < Len(out) /\ part[1] = out[k + 1] /\ ~(k = 0 /\ Dead)
                     \/ k = 0 /\ Dead /\ part = cut
  BY <1>2, WrittenPart
<1>6. \/ cut' = part /\ own' = StillOwn(k, part) /\ tears' = tears
      \/ cut' = part /\ own' = FALSE /\ tears' = tears + One(StillOwn(k, part))
      \/ cut' = <<>> /\ own' = FALSE /\ tears' = tears + One(StillOwn(k, part))
  BY DEF Writes, Leaves
<1> HIDE DEF L
<1>7. Gone \subseteq {cut[1]} /\ (Gone # {} => Dead /\ part # cut /\ cut[1] \in Event)
  BY <1>1, <1>3 DEF Gone
<1> DEFINE g == One(Gone # {})
           d == One(k > 0 /\ Dead)
           s == One(StillOwn(k, part))
           r == AtRisk'
           a == AtRisk
<1>8. /\ g \in {0, 1} /\ (Gone = {} => g = 0)
      /\ d \in {0, 1} /\ (~(k > 0 /\ Dead) => d = 0)
      /\ s \in {0, 1} /\ (StillOwn(k, part) => s = 1) /\ (~StillOwn(k, part) => s = 0)
  BY DEF One
<1>9. /\ r \in {0, 1, 2} /\ (cut' = <<>> \/ own' => r = 0)
      /\ (cut' # <<>> /\ cut'[1] \notin Event => r \in {0, 1})
  BY DEF AtRisk, Dead, One
<1>10. /\ (Dead => a \in {1, 2}) /\ (~Dead => a = 0)
       /\ (Dead /\ cut[1] \in Event => a = 2)
  BY DEF AtRisk, One
<1>a. (Gone # {} => a = 2) /\ (Gone # {} => Dead /\ part # cut)
  BY <1>7, <1>10
<1>b. tears' \in {tears, tears + s} /\ tears' \in Nat
  BY <1>6, <1>8
<1>e. \E more \in Nat : tears' = tears + more
  <2> HIDE DEF s
  <2>1. s \in Nat
    BY <1>8
  <2> QED BY <1>b, <2>1
<1>c. (part = <<>> \/ own') => r = 0
  <2>1. SUFFICES ASSUME part = <<>> \/ own' PROVE cut' = <<>> \/ own'
    BY <1>9
  <2> QED BY <1>6, <2>1
<1>d. StillOwn(k, part) => r = 0 \/ (s = 1 /\ tears' = tears + s)
  <2>1. SUFFICES ASSUME StillOwn(k, part), ~own' PROVE s = 1 /\ tears' = tears + s
    BY <1>c
  <2> QED BY <1>6, <1>8, <2>1
<1>12. r + g + d + 2 * tears <= a + 2 * tears'
  <2>1. CASE ~Dead
    <3>1. g = 0 /\ d = 0 /\ a = 0
      BY <1>8, <1>10, <1>a, <2>1
    <3>2. r = 0 \/ (s = 1 /\ tears' = tears + s)
      <4>1. CASE part = <<>>
        BY <1>c, <4>1
      <4>2. CASE part # <<>>
        BY <1>d, <2>1, <4>2 DEF StillOwn
      <4> QED BY <4>1, <4>2
    <3> HIDE DEF g, d, r, s, a
    <3>3. CASE r = 0
      BY <1>e, <3>1, <3>3
    <3>4. CASE s = 1 /\ tears' = tears + s
      BY <1>9, <3>1, <3>4
    <3> QED BY <3>2, <3>3, <3>4
  <2>2. CASE Dead /\ k = 0
    <3>1. ~StillOwn(k, part) /\ d = 0 /\ s = 0
      BY <1>8, <2>2 DEF StillOwn
    <3>2. tears' = tears /\ part # <<>>
      BY <1>2, <1>b, <2>2, <3>1, WrittenPart DEF Dead
    <3>3. a \in {1, 2}
      BY <1>10, <2>2
    <3>4. CASE part = cut
      <4>1. g = 0
        BY <1>8, <1>a, <3>4
      <4>2. r = 0 \/ (cut' = cut /\ ~own')
        BY <1>6, <1>9, <3>1, <3>4
      <4>3. cut' = cut /\ ~own' => r = a
        BY <2>2 DEF AtRisk, Dead, One
      <4> HIDE DEF g, d, r, s, a
      <4> QED BY <3>1, <3>2, <3>3, <4>1, <4>2, <4>3
    <3>5. CASE part # cut
      <4>1. part[1] \notin Event
        BY <1>5, <2>2, <3>2, <3>5, EventsAreLines
      <4>2. r \in {0, 1}
        BY <1>6, <1>9, <3>2, <4>1
      <4>3. g = 0 \/ a = 2
        BY <1>8, <1>a
      <4> HIDE DEF g, d, r, s, a
      <4>4. g \in {0, 1}
        BY <1>8
      <4> QED BY <3>1, <3>2, <3>3, <4>2, <4>3, <4>4
    <3> QED BY <3>4, <3>5
  <2>3. CASE Dead /\ k # 0
    <3>1. r = 0 \/ (s = 1 /\ tears' = tears + s)
      <4>1. CASE part = <<>>
        BY <1>c, <4>1
      <4>2. CASE part # <<>>
        BY <1>d, <2>3, <4>2 DEF StillOwn
      <4> QED BY <4>1, <4>2
    <3>2. a \in {1, 2} /\ (g = 0 \/ a = 2)
      BY <1>8, <1>10, <1>a, <2>3
    <3> HIDE DEF g, d, r, s, a
    <3>3. g \in {0, 1} /\ d \in {0, 1} /\ s \in {0, 1}
      BY <1>8
    <3>4. CASE r = 0
      BY <1>e, <3>2, <3>3, <3>4
    <3>5. CASE s = 1 /\ tears' = tears + s
      BY <1>9, <3>2, <3>3, <3>5
    <3> QED BY <3>1, <3>4, <3>5
  <2> QED BY <2>1, <2>2, <2>3
<1> QED BY <1>1, <1>3, <1>4, <1>7, <1>b, <1>12

(***************************************************************************)
(* The inductive invariant                                                 *)
(***************************************************************************)

\* The types, with those of the two copies of the tables.
Typed == TypeOK /\ db \in Tables /\ view \in Tables

\* What the handle has in its own cut line is a piece of the first line of its
\* buffer; the worker has an event in hand while it writes one.
HandleIsTidy ==
    /\ own => cut[1] \in {buffer[1], Garbled, Broken}
    /\ stage \in {"line", "row"} => taken # 0

\* The lines hold the events in the order in which the worker took them.
FileIsInOrder ==
    /\ InOrder(lines, cut, own, buffer)
    /\ AllBelow(lines, cut, buffer, IF stage = "line" THEN taken ELSE taken + 1)

\* The events with a row, committed or not.
Rows == Range(db.events) \cup Range(view.events)

\* The event in hand has no row, unless a rebuild beside the service read its
\* line first.
RowsAreEarlier ==
    \A e \in Rows :
        e < IF stage = "line" \/ (stage = "row" /\ ~shared) THEN taken ELSE taken + 1

\* A rebuild that has the stores to itself has replayed its first lines.
Rebuilt ==
    reindex # "off" /\ ~shared =>
        /\ stage = "down"
        /\ db = Projection(SubSeq(Text, 1, pos))
        /\ reindex = "done" => pos = Len(Text)
        /\ reindex = "replay" => \A e \in Range(db.events) : \E j \in 1 .. pos : Text[j] = e

\* CountersFollowRows for both copies of the tables.
CountersAgree ==
    ~shared => CountersFollow(db, partial) /\ CountersFollow(view, partial)

\* Events with a row, or about to have one, that no line holds.
Lost == (Rows \cup (IF stage = "row" THEN {taken} ELSE {})) \ Range(Text)

\* Each torn line pays for two events: lost, or still at risk.
DamageAccounted == Cardinality(Lost) + AtRisk <= 2 * tears

Invariant ==
    /\ Typed /\ HandleIsTidy /\ FileIsInOrder /\ RowsAreEarlier
    /\ Rebuilt /\ CountersAgree /\ DamageAccounted

(***************************************************************************)
(* The steps that write to the file                                        *)
(***************************************************************************)

\* A step of the service that writes: what its handle holds, or also the line of
\* the event in hand, all of it if a row is to follow.
FileStep(out, k, part) ==
    /\ Writes(out, k, part) /\ FileTyped(out) /\ taken' = taken
    /\ \/ /\ out = buffer /\ stage' \in {"line", "idle", "down"}
          /\ stage' = "line" => stage = "line"
       \/ /\ stage = "line" /\ taken \in Event /\ out = Append(buffer, taken)
          /\ stage' \in {"row", "idle"} /\ (stage' = "row" => k = Len(out))

\* The steps that write.
FileAction == WriteLine \/ FlushFails \/ LineLost \/ TurnDay \/ TurnDayFails \/ Stop

\* What is in the handle is a write to come, alone or before the event in hand.
LEMMA HandleTyped ==
    ASSUME Typed, HandleIsTidy
    PROVE  /\ FileTyped(buffer)
           /\ stage = "line" => taken \in Event /\ FileTyped(Append(buffer, taken))
           /\ lines \in Seq(Line) /\ cut \in AtMostOneLine /\ buffer \in Seq(Event)
           /\ own \in BOOLEAN /\ taken \in Nat /\ tears \in Nat
<1>1. /\ lines \in Seq(Line) /\ cut \in AtMostOneLine /\ own \in BOOLEAN /\ buffer \in Seq(Event)
      /\ taken \in 0 .. MaxEvents /\ tears \in Nat
      /\ own => cut # <<>> /\ buffer # <<>> /\ cut[1] \in {buffer[1], Garbled, Broken}
  BY DEF Typed, TypeOK, AtMostOneLine, HandleIsTidy
<1>2. FileTyped(buffer)
  BY <1>1 DEF FileTyped
<1>3. taken \in Nat
  BY <1>1, EventsHaveFields
<1>4. ASSUME stage = "line" PROVE taken \in Event /\ FileTyped(Append(buffer, taken))
  <2>1. taken # 0
    BY <1>4 DEF HandleIsTidy
  <2>2. taken \in Event
    BY <1>1, <2>1, EventsHaveFields DEF Event
  <2>3. Append(buffer, taken) \in Seq(Event) /\ Append(buffer, taken) # <<>>
    <3>1. Append(buffer, taken) \in Seq(Event) /\ Len(Append(buffer, taken)) = Len(buffer) + 1
      BY <1>1, <2>2
    <3>2. Len(buffer) \in Nat
      BY <1>1
    <3> QED BY <3>1, <3>2
  <2>4. own => Append(buffer, taken)[1] = buffer[1]
    <3>1. SUFFICES ASSUME own PROVE Append(buffer, taken)[1] = buffer[1]
      OBVIOUS
    <3>2. 1 \in 1 .. Len(buffer)
      BY <1>1, <3>1
    <3> QED BY <1>1, <2>2, <3>2
  <2> QED BY <1>1, <2>2, <2>3, <2>4 DEF FileTyped
<1> QED BY <1>1, <1>2, <1>3, <1>4

\* The lines of the buffer end alike, whatever comes after them.
LEMMA CompletedOfMore ==
    ASSUME NEW b \in Seq(Event), NEW e \in Event
    PROVE  Completed(Append(b, e), Len(b)) = Completed(b, Len(b))
<1> DEFINE more == Append(b, e)
           n == Len(b)
<1>1. /\ more \in Seq(Event) /\ Len(more) = n + 1 /\ n \in Nat
      /\ \A i \in 1 .. n : more[i] = b[i]
  OBVIOUS
<1> HIDE DEF more
<1>2. SubSeq(more, 1, n) = SubSeq(b, 1, n) /\ SubSeq(more, 2, n) = SubSeq(b, 2, n)
  BY <1>1 DEF n
<1> HIDE DEF n
<1> QED BY <1>2 DEF Completed, more, n

\* Each of them is a write.
LEMMA FileActionsWrite ==
    ASSUME Typed, HandleIsTidy, FileAction
    PROVE  \E out, k, part : FileStep(out, k, part)
<1>1. /\ FileTyped(buffer) /\ buffer \in Seq(Event) /\ tears \in Nat
      /\ stage = "line" => taken \in Event /\ FileTyped(Append(buffer, taken))
      /\ own \in BOOLEAN /\ (own => buffer # <<>>) /\ cut \in AtMostOneLine
  BY HandleTyped DEF FileTyped
<1> DEFINE out == Append(buffer, taken)
<1>2. stage = "line" => out \in Seq(Event) /\ out # <<>> /\ Len(out) = Len(buffer) + 1
  BY <1>1
<1>3. Len(buffer) \in Nat
  BY <1>1
<1>4. CASE WriteLine
  <2>1. FlushAll(out) /\ tears' = tears /\ stage = "line" /\ stage' = "row" /\ taken' = taken
    BY <1>4 DEF WriteLine, hand
  <2>2. Writes(out, Len(out), <<>>)
    BY <1>1, <1>2, <2>1, FlushAllWrites
  <2> QED BY <1>1, <2>1, <2>2 DEF FileStep
<1>5. CASE FlushFails
  <2>1. stage = "line" /\ tears' = tears /\ stage' = "idle" /\ taken' = taken
    BY <1>5 DEF FlushFails, Raises
  <2>2. PICK k \in 0 .. Len(buffer) : \E part \in Fragments(out, k) : FlushSome(out, k, part)
    BY <1>5 DEF FlushFails, hand
  <2>3. PICK part : FlushSome(out, k, part)
    BY <2>2
  <2>4. k \in 0 .. Len(out) - 1
    BY <1>2, <1>3, <2>1
  <2> HIDE DEF out
  <2>5. Writes(out, k, part)
    BY <1>2, <2>1, <2>3, <2>4, FlushSomeWrites
  <2> QED BY <1>1, <2>1, <2>5 DEF FileStep, out
<1>6. CASE TurnDay
  <2>1. stage = "line" /\ stage' = "line" /\ taken' = taken
    BY <1>6 DEF TurnDay
  <2>2. PICK part : EndFile(Len(buffer), part)
    BY <1>6 DEF TurnDay
  <2>3. Writes(buffer, Len(buffer), part)
    BY <1>1, <1>3, <2>2, EndFileWrites
  <2> QED BY <1>1, <2>1, <2>3 DEF FileStep
<1>7. CASE TurnDayFails
  <2>1. stage = "line" /\ stage' = "idle" /\ taken' = taken
    BY <1>7 DEF TurnDayFails, Raises
  <2>2. PICK k \in 0 .. Len(buffer) : \E part : EndFile(k, part)
    BY <1>7 DEF TurnDayFails
  <2>3. PICK part : EndFile(k, part)
    BY <2>2
  <2>4. Writes(buffer, k, part)
    BY <1>1, <2>3, EndFileWrites
  <2> QED BY <1>1, <2>1, <2>4 DEF FileStep
<1>8. CASE LineLost
  <2>1. stage = "line" /\ stage' = "idle" /\ taken' = taken
    BY <1>8 DEF LineLost, Raises
  <2>2. CASE /\ \E k \in 0 .. Len(buffer) - 1 : \E part \in Fragments(buffer, k) :
                 FlushSome(buffer, k, part)
             /\ tears' = tears
    <3>1. PICK k \in 0 .. Len(buffer) - 1 : \E part \in Fragments(buffer, k) :
             FlushSome(buffer, k, part)
      BY <2>2
    <3>2. PICK part : FlushSome(buffer, k, part)
      BY <3>1
    <3>3. Writes(buffer, k, part)
      BY <1>1, <2>2, <3>2, FlushSomeWrites
    <3> QED BY <1>1, <2>1, <3>3 DEF FileStep
  <2>3. CASE \E part \in Fragments(out, Len(buffer)) :
                /\ lines' = lines \o Completed(buffer, Len(buffer))
                /\ cut' = part /\ own' = FALSE /\ buffer' = <<>>
                /\ tears' = tears + One(part # <<>> /\ (buffer # <<>> \/ cut = <<>>))
    <3> DEFINE k == Len(buffer)
    <3>1. PICK part \in Fragments(out, k) :
                /\ lines' = lines \o Completed(buffer, k)
                /\ cut' = part /\ own' = FALSE /\ buffer' = <<>>
                /\ tears' = tears + One(part # <<>> /\ (buffer # <<>> \/ cut = <<>>))
      BY <2>3
    <3>2. out \in Seq(Event) /\ out # <<>> /\ k \in 0 .. Len(out) /\ k < Len(out)
      BY <1>2, <1>3, <2>1
    <3>3. Completed(out, k) = Completed(buffer, k)
      BY <1>1, <1>3, <2>1, CompletedOfMore
    <3>4. One(part # <<>> /\ (buffer # <<>> \/ cut = <<>>)) = One(StillOwn(k, part))
      BY <1>1 DEF One, StillOwn, Dead
    <3> HIDE DEF out, k
    <3>5. Written(out, k, part)
      BY <3>1, <3>2 DEF Written
    <3>6. Leaves(out, k, part)
      BY <3>1, <3>3, <3>4 DEF Leaves
    <3> QED BY <1>1, <2>1, <3>2, <3>5, <3>6 DEF FileStep, Writes, out
  <2> QED BY <1>8, <2>2, <2>3 DEF LineLost, hand
<1>9. CASE Stop
  <2>1. stage' = "down" /\ buffer # <<>> /\ taken' = taken
    BY <1>9 DEF Stop
  <2>2. CASE FlushAll(buffer) /\ tears' = tears
    <3>1. Writes(buffer, Len(buffer), <<>>)
      BY <1>1, <2>1, <2>2, FlushAllWrites
    <3> QED BY <1>1, <2>1, <3>1 DEF FileStep
  <2>3. CASE \E k \in 0 .. Len(buffer) - 1 : \E part \in Fragments(buffer, k) :
            /\ lines' = lines \o Completed(buffer, k)
            /\ cut' = part /\ own' = FALSE /\ buffer' = <<>>
            /\ tears' = tears + One(part # <<>> /\ (k > 0 \/ cut = <<>> \/ own))
    <3>1. PICK k \in 0 .. Len(buffer) - 1 : \E part \in Fragments(buffer, k) :
            /\ lines' = lines \o Completed(buffer, k)
            /\ cut' = part /\ own' = FALSE /\ buffer' = <<>>
            /\ tears' = tears + One(part # <<>> /\ (k > 0 \/ cut = <<>> \/ own))
      BY <2>3
    <3>2. PICK part \in Fragments(buffer, k) :
            /\ lines' = lines \o Completed(buffer, k)
            /\ cut' = part /\ own' = FALSE /\ buffer' = <<>>
            /\ tears' = tears + One(part # <<>> /\ (k > 0 \/ cut = <<>> \/ own))
      BY <3>1
    <3>3. k \in 0 .. Len(buffer) /\ k < Len(buffer) /\ (k > 0 <=> k # 0)
      BY <1>3
    <3>4. Written(buffer, k, part)
      BY <3>2, <3>3 DEF Written
    <3>5. One(part # <<>> /\ (k > 0 \/ cut = <<>> \/ own)) = One(StillOwn(k, part))
      BY <3>3 DEF One, StillOwn, Dead
    <3>6. Leaves(buffer, k, part)
      BY <3>2, <3>5 DEF Leaves
    <3> QED BY <1>1, <2>1, <3>4, <3>6 DEF FileStep, Writes
  <2> QED BY <1>9, <2>2, <2>3 DEF Stop
<1> QED BY <1>4, <1>5, <1>6, <1>7, <1>8, <1>9 DEF FileAction

(***************************************************************************)
(* The file stays in order                                                 *)
(***************************************************************************)

\* Below a number is below the larger ones.
LEMMA BelowMore ==
    ASSUME NEW ls \in Seq(Line), NEW c \in AtMostOneLine, NEW b \in Seq(Event),
           NEW m \in Nat, NEW n \in Nat, m <= n, AllBelow(ls, c, b, m)
    PROVE  AllBelow(ls, c, b, n)
<1>1. /\ \A i \in 1 .. Len(ls) : ls[i] \in Nat
      /\ \A j \in 1 .. Len(b) : b[j] \in Nat
  BY ElementOfSeq, EventsAreLines
<1>2. c # <<>> /\ c[1] \in Event => c[1] \in Nat
  BY EventsAreLines
<1> QED BY <1>1, <1>2 DEF AllBelow

\* The event in hand comes after what is in the file and in the handle.
LEMMA HandComesLast ==
    ASSUME NEW ls \in Seq(Line), NEW c \in AtMostOneLine, NEW o \in BOOLEAN, NEW b \in Seq(Event),
           NEW e \in Event, InOrder(ls, c, o, b), AllBelow(ls, c, b, e)
    PROVE  InOrder(ls, c, o, Append(b, e)) /\ AllBelow(ls, c, Append(b, e), e + 1)
<1> DEFINE n == Len(b)
           out == Append(b, e)
<1>1. /\ Len(out) = n + 1 /\ out[n + 1] = e /\ \A j \in 1 .. n : out[j] = b[j]
      /\ n \in Nat /\ e \in Nat
  BY EventsAreLines
<1> HIDE DEF n, out
<1>2. \A j \in 1 .. n + 1 : j \in 1 .. n \/ j = n + 1
  BY <1>1
<1>3. \A i \in 1 .. Len(ls) : ls[i] \in Event => ls[i] < e
  BY DEF AllBelow
<1>4. \A j \in 1 .. n : b[j] < e
  BY DEF AllBelow, n
<1>5. c # <<>> /\ c[1] \in Event => c[1] < e /\ c[1] \in Nat
  BY EventsAreLines DEF AllBelow
<1>6. ASSUME NEW i \in 1 .. Len(out), NEW j \in 1 .. Len(out), i < j PROVE out[i] < out[j]
  <2>1. i \in 1 .. n
    BY <1>1, <1>6
  <2>2. CASE j \in 1 .. n
    BY <1>1, <1>6, <2>1, <2>2 DEF InOrder, n
  <2>3. CASE j = n + 1
    BY <1>1, <1>4, <2>1, <2>3
  <2> QED BY <1>1, <1>2, <2>2, <2>3
<1>7. ASSUME NEW i \in 1 .. Len(ls), NEW j \in 1 .. Len(out), ls[i] \in Event
      PROVE  ls[i] < out[j]
  <2>1. CASE j \in 1 .. n
    BY <1>1, <1>7, <2>1 DEF InOrder, n
  <2>2. CASE j = n + 1
    BY <1>1, <1>3, <1>7, <2>2
  <2> QED BY <1>1, <1>2, <2>1, <2>2
<1>8. ASSUME NEW j \in 1 .. Len(out), c # <<>>, c[1] \in Event
      PROVE  IF o THEN c[1] <= out[j] ELSE c[1] < out[j]
  <2>1. CASE j \in 1 .. n
    BY <1>1, <1>8, <2>1 DEF InOrder, n
  <2>2. CASE j = n + 1
    <3>1. c[1] < e /\ c[1] <= e
      BY <1>1, <1>5, <1>8
    <3> QED BY <1>1, <2>2, <3>1
  <2> QED BY <1>1, <1>2, <2>1, <2>2
<1>9. InOrder(ls, c, o, out)
  BY <1>6, <1>7, <1>8 DEF InOrder
<1>10. AllBelow(ls, c, out, e + 1)
  <2>1. \A j \in 1 .. n : b[j] \in Nat
    BY ElementOfSeq, EventsAreLines DEF n
  <2>2. ASSUME NEW j \in 1 .. Len(out) PROVE out[j] < e + 1
    <3>1. CASE j \in 1 .. n
      BY <1>1, <1>4, <2>1, <3>1
    <3>2. CASE j = n + 1
      BY <1>1, <3>2
    <3> QED BY <1>1, <1>2, <3>1, <3>2
  <2>3. \A i \in 1 .. Len(ls) : ls[i] \in Event => ls[i] < e + 1
    <3>1. \A i \in 1 .. Len(ls) : ls[i] \in Nat
      BY ElementOfSeq, EventsAreLines
    <3> QED BY <1>1, <1>3, <3>1
  <2>4. c # <<>> /\ c[1] \in Event => c[1] < e + 1
    BY <1>1, <1>5
  <2> QED BY <2>2, <2>3, <2>4 DEF AllBelow
<1> QED BY <1>9, <1>10 DEF out

\* What the file and its handle are after a step that writes.
LEMMA FileActionsKeepFile ==
    ASSUME Typed, HandleIsTidy, FileIsInOrder, NEW out, NEW k, NEW part, FileStep(out, k, part)
    PROVE  /\ lines' \in Seq(Line) /\ cut' \in AtMostOneLine /\ own' \in BOOLEAN
           /\ buffer' \in Seq(Event)
           /\ own' => cut' # <<>> /\ buffer' # <<>> /\ cut'[1] \in {buffer'[1], Garbled, Broken}
           /\ InOrder(lines', cut', own', buffer')
           /\ AllBelow(lines', cut', buffer',
                       IF stage = "line" /\ out = buffer THEN taken ELSE taken + 1)
<1> DEFINE bound == IF stage = "line" /\ out = buffer THEN taken ELSE taken + 1
<1>1. /\ lines \in Seq(Line) /\ cut \in AtMostOneLine /\ own \in BOOLEAN /\ buffer \in Seq(Event)
      /\ taken \in Nat /\ FileTyped(out) /\ Writes(out, k, part)
      /\ out = buffer \/ (stage = "line" /\ taken \in Event /\ out = Append(buffer, taken))
  BY HandleTyped DEF FileStep
<1>2. InOrder(lines, cut, own, out) /\ AllBelow(lines, cut, out, bound)
  <2>1. CASE out = buffer
    BY <2>1 DEF FileIsInOrder
  <2>2. CASE out # buffer
    <3>1. stage = "line" /\ taken \in Event /\ out = Append(buffer, taken) /\ bound = taken + 1
      BY <1>1, <2>2
    <3>2. InOrder(lines, cut, own, buffer) /\ AllBelow(lines, cut, buffer, taken)
      BY <3>1 DEF FileIsInOrder
    <3> QED BY <1>1, <3>1, <3>2, HandComesLast
  <2> QED BY <2>1, <2>2
<1> HIDE DEF bound
<1>3. /\ lines' \in Seq(Line) /\ cut' \in AtMostOneLine /\ own' \in BOOLEAN
      /\ buffer' \in Seq(Event)
      /\ own' => cut' # <<>> /\ buffer' # <<>> /\ cut'[1] \in {buffer'[1], Garbled, Broken}
      /\ InOrder(lines', cut', own', buffer')
      /\ AllBelow(lines', cut', buffer', bound)
  BY <1>1, <1>2, WriteKeepsFile
<1> QED BY <1>3 DEF bound

(***************************************************************************)
(* Every step keeps the file                                               *)
(***************************************************************************)

\* The steps that leave the lines alone.
OtherAction ==
    \/ Boot \/ Crash \/ Take \/ CommitEvent \/ StatementFails \/ SnapshotFails
    \/ Query \/ OtherCommit \/ Rebuild

\* They leave the file alone, or close it, and the events stay below those to come.
LEMMA OtherActionsLeaveFile ==
    ASSUME Typed, OtherAction
    PROVE  /\ lines' = lines /\ cut' = cut
           /\ \/ own' = own /\ buffer' = buffer /\ tears' = tears
              \/ /\ own' = FALSE /\ buffer' = <<>> /\ tears' = tears + One(own)
           /\ \/ taken' = taken /\ (stage' = "line" => stage = "line")
                 /\ (stage' = "row" => stage = "row")
              \/ taken' = taken + 1 /\ stage = "idle" /\ stage' = "line"
<1>1. CASE Boot
  BY <1>1 DEF Boot, file
<1>2. CASE Crash
  BY <1>2 DEF Crash
<1>3. CASE Take
  BY <1>3 DEF Take, file
<1>4. CASE CommitEvent \/ StatementFails \/ SnapshotFails
  BY <1>4 DEF CommitEvent, StatementFails, SnapshotFails, Raises, file
<1>5. CASE Query \/ OtherCommit
  BY <1>5 DEF Query, OtherCommit, file
<1>6. CASE Rebuild
  BY <1>6 DEF Rebuild, StartRebuild, ReplayLine, SkipLine, EndRebuild, RebuildDies, file
<1> QED BY <1>1, <1>2, <1>3, <1>4, <1>5, <1>6 DEF OtherAction

\* There are no other steps.
LEMMA NextIsOneOf ==
    Next => FileAction \/ OtherAction
BY DEF Next, Persist, FileAction, OtherAction

\* Every step keeps the lines in order and shortens no file.
LEMMA StepsKeepFile ==
    ASSUME Typed, HandleIsTidy, FileIsInOrder, Next
    PROVE  /\ lines' \in Seq(Line) /\ cut' \in AtMostOneLine /\ own' \in BOOLEAN
           /\ buffer' \in Seq(Event) /\ tears' \in Nat
           /\ own' => cut' # <<>> /\ buffer' # <<>>
           /\ Len(Text') >= Len(Text)
           /\ HandleIsTidy' /\ FileIsInOrder'
<1>1. /\ lines \in Seq(Line) /\ cut \in AtMostOneLine /\ own \in BOOLEAN /\ buffer \in Seq(Event)
      /\ taken \in Nat /\ tears \in Nat /\ FileTyped(buffer)
      /\ own => cut # <<>> /\ buffer # <<>> /\ cut[1] \in {buffer[1], Garbled, Broken}
  BY HandleTyped DEF FileTyped
<1>2. CASE FileAction
  <2>1. PICK out, k, part : FileStep(out, k, part)
    BY <1>2, FileActionsWrite
  <2>2. /\ lines' \in Seq(Line) /\ cut' \in AtMostOneLine /\ own' \in BOOLEAN
        /\ buffer' \in Seq(Event)
        /\ own' => cut' # <<>> /\ buffer' # <<>> /\ cut'[1] \in {buffer'[1], Garbled, Broken}
        /\ InOrder(lines', cut', own', buffer')
        /\ AllBelow(lines', cut', buffer',
                    IF stage = "line" /\ out = buffer THEN taken ELSE taken + 1)
    BY <2>1, FileActionsKeepFile
  <2>3. /\ Writes(out, k, part) /\ FileTyped(out) /\ taken' = taken
        /\ stage' = "line" => stage = "line" /\ out = buffer
        /\ stage' = "row" => stage = "line"
    BY <2>1 DEF FileStep
  <2>4. Len(Text') >= Len(Text) /\ tears' \in Nat
    BY <1>1, <2>3, WriteLosesLittle
  <2>5. AllBelow(lines', cut', buffer', IF stage' = "line" THEN taken' ELSE taken' + 1)
    <3>1. CASE stage' = "line"
      BY <2>2, <2>3, <3>1
    <3>2. CASE stage' # "line"
      <4>1. AllBelow(lines', cut', buffer', taken + 1)
        <5>1. CASE stage = "line" /\ out = buffer
          <6>1. AllBelow(lines', cut', buffer', taken) /\ taken + 1 \in Nat /\ taken <= taken + 1
            BY <1>1, <2>2, <5>1
          <6> QED BY <1>1, <2>2, <6>1, BelowMore
        <5>2. CASE ~(stage = "line" /\ out = buffer)
          BY <2>2, <5>2
        <5> QED BY <5>1, <5>2
      <4> QED BY <2>3, <3>2, <4>1
    <3> QED BY <3>1, <3>2
  <2>6. FileIsInOrder'
    BY <2>2, <2>5 DEF FileIsInOrder
  <2>7. HandleIsTidy'
    <3>1. stage' \in {"line", "row"} => taken' # 0
      BY <2>3 DEF HandleIsTidy
    <3> QED BY <2>2, <3>1 DEF HandleIsTidy
  <2> QED BY <2>2, <2>4, <2>6, <2>7
<1>3. CASE OtherAction
  <2>1. /\ lines' = lines /\ cut' = cut
        /\ \/ own' = own /\ buffer' = buffer /\ tears' = tears
           \/ own' = FALSE /\ buffer' = <<>> /\ tears' = tears + One(own)
        /\ \/ taken' = taken /\ (stage' = "line" => stage = "line")
              /\ (stage' = "row" => stage = "row")
           \/ taken' = taken + 1 /\ stage = "idle" /\ stage' = "line"
    BY <1>3, OtherActionsLeaveFile
  <2>2. /\ own' \in BOOLEAN /\ buffer' \in Seq(Event) /\ tears' \in Nat
        /\ own' => cut' # <<>> /\ buffer' # <<>> /\ cut'[1] \in {buffer'[1], Garbled, Broken}
    <3>1. One(own) \in Nat /\ <<>> \in Seq(Event)
      BY DEF One
    <3>2. tears' \in Nat
      <4>1. CASE tears' = tears
        BY <1>1, <4>1
      <4>2. CASE tears' = tears + One(own)
        BY <1>1, <3>1, <4>2
      <4> QED BY <2>1, <4>1, <4>2
    <3>3. CASE own' = own /\ buffer' = buffer
      BY <1>1, <2>1, <3>2, <3>3
    <3>4. CASE own' = FALSE /\ buffer' = <<>>
      BY <3>1, <3>2, <3>4
    <3> QED BY <2>1, <3>3, <3>4
  <2>3. Text' = Text /\ Len(Text) \in Nat
    <3>1. Text \in Seq(Line)
      BY <1>1, LinesOfText DEF Text
    <3> QED BY <2>1, <3>1 DEF Text
  <2>4. InOrder(lines', cut', own', buffer')
    <3>1. CASE own' = own /\ buffer' = buffer
      BY <2>1, <3>1 DEF FileIsInOrder
    <3>2. CASE own' = FALSE /\ buffer' = <<>>
      BY <2>1, <3>2 DEF FileIsInOrder, InOrder
    <3> QED BY <2>1, <3>1, <3>2
  <2> DEFINE bound == IF stage = "line" THEN taken ELSE taken + 1
             after == IF stage' = "line" THEN taken' ELSE taken' + 1
  <2>5. bound \in Nat /\ after \in Nat /\ bound <= after
    BY <1>1, <2>1
  <2> HIDE DEF after
  <2>6. AllBelow(lines, cut, buffer, after)
    <3>1. AllBelow(lines, cut, buffer, bound)
      BY DEF FileIsInOrder
    <3> HIDE DEF bound
    <3> QED BY <1>1, <2>5, <3>1, BelowMore
  <2>7. AllBelow(lines', cut', buffer', after)
    <3>1. CASE buffer' = buffer
      BY <2>1, <2>6, <3>1
    <3>2. CASE buffer' = <<>>
      BY <2>1, <2>6, <3>2 DEF AllBelow
    <3> QED BY <2>1, <3>1, <3>2
  <2>8. FileIsInOrder'
    BY <2>4, <2>7 DEF FileIsInOrder, after
  <2>9. HandleIsTidy'
    <3>1. stage' \in {"line", "row"} => taken' # 0
      BY <1>1, <2>1 DEF HandleIsTidy
    <3> QED BY <2>2, <3>1 DEF HandleIsTidy
  <2> QED BY <1>1, <2>1, <2>2, <2>3, <2>8, <2>9
<1> QED BY <1>2, <1>3, NextIsOneOf

(***************************************************************************)
(* Every step keeps the types                                              *)
(***************************************************************************)

\* Statements make tables of tables.
LEMMA StatementsAreTyped ==
    ASSUME NEW t \in Tables, NEW e \in Event, NEW k \in 0 .. 4
    PROVE  AfterStatements(k, t, e) \in Tables /\ (k = 0 => AfterStatements(k, t, e) = t)
<1>1. Effect(t, e, k, AfterStatements(k, t, e))
  BY StatementsHaveEffect
<1>2. AfterStatements(0, t, e) = t
  BY DEF AfterStatements
<1> QED BY <1>1, <1>2 DEF Effect

\* So does all of write_event.
LEMMA WriteEventTyped ==
    ASSUME NEW t \in Tables, NEW e \in Event
    PROVE  WriteEvent(t, e) \in Tables
<1>1. 4 \in 0 .. 4
  OBVIOUS
<1> QED BY <1>1, StatementsAreTyped DEF WriteEvent

\* The part of the types that says nothing of the file.
TypedRest ==
    /\ stage \in {"down", "idle", "line", "row"}
    /\ taken \in 0 .. MaxEvents
    /\ conn \in {"none", "begun", "reading", "stale", "writing"}
    /\ conn # "writing" => view = db
    /\ stage = "down" => conn = "none" /\ buffer = <<>>
    /\ reindex \in {"off", "replay", "done", "dead"}
    /\ shared \in BOOLEAN
    /\ partial \in Nat
    /\ failures \in 0 .. MaxFailures
    /\ boots \in 0 .. MaxBoots
    /\ rebuilds \in 0 .. MaxRebuilds
    /\ db \in Tables /\ view \in Tables

\* The text is one of lines, and the rebuild is somewhere in it.
LEMMA PositionTyped ==
    ASSUME Typed, HandleIsTidy
    PROVE  Text \in Seq(Line) /\ Len(Text) \in Nat /\ pos \in 0 .. Len(Text)
<1>1. Text \in Seq(Line)
  BY HandleTyped, LinesOfText DEF Text
<1> QED BY <1>1 DEF Typed, TypeOK

\* The worker's event exists.
LEMMA HandIsEvent ==
    ASSUME Typed, HandleIsTidy, stage \in {"line", "row"}
    PROVE  hand \in Event /\ taken \in Event
<1>1. taken \in 0 .. MaxEvents /\ taken # 0
  BY DEF Typed, TypeOK, HandleIsTidy
<1> QED BY <1>1, EventsHaveFields DEF Event, hand

\* Every step keeps the types, those of the file left aside.
LEMMA StepsKeepTypes ==
    ASSUME Typed, HandleIsTidy, Next
    PROVE  TypedRest'
<1>1. TypedRest
  BY DEF Typed, TypeOK, TypedRest
<1>2. /\ MaxEvents \in Nat /\ MaxBoots \in Nat /\ MaxRebuilds \in Nat /\ MaxFailures \in Nat
      /\ taken \in Nat /\ failures \in Nat /\ boots \in Nat /\ rebuilds \in Nat
  BY <1>1, EventsHaveFields, BoundsAreNaturals DEF TypedRest
<1>3. CASE Boot
  <2>1. boots' \in 0 .. MaxBoots
    BY <1>2, <1>3 DEF Boot
  <2>2. UNCHANGED <<taken, buffer, db, view, conn, rebuilds, partial, failures>>
    BY <1>3 DEF Boot, file, tables
  <2>3. stage' = "idle" /\ shared' \in BOOLEAN /\ reindex' \in {"off", "replay", "done", "dead"}
    BY <1>1, <1>3 DEF Boot, TypedRest
  <2> QED BY <1>1, <2>1, <2>2, <2>3 DEF TypedRest
<1>4. CASE Crash
  <2>1. /\ stage' = "down" /\ buffer' = <<>> /\ view' = db /\ conn' = "none"
        /\ UNCHANGED <<taken, db, reindex, rebuilds, shared, partial, failures, boots>>
    BY <1>4 DEF Crash, replay, bounds
  <2> QED BY <1>1, <2>1 DEF TypedRest
<1>5. CASE Stop
  <2>1. /\ stage' = "down" /\ view' = db /\ conn' = "none"
        /\ UNCHANGED <<taken, db, reindex, rebuilds, shared, partial, failures, boots>>
    BY <1>5 DEF Stop, replay, bounds
  <2>2. buffer' = <<>>
    BY <1>5 DEF Stop, FlushAll
  <2> QED BY <1>1, <2>1, <2>2 DEF TypedRest
<1>6. CASE Take
  <2>1. taken' \in 0 .. MaxEvents
    BY <1>2, <1>6 DEF Take
  <2>2. /\ stage' = "line"
        /\ UNCHANGED <<buffer, db, view, conn, reindex, rebuilds, shared, partial, failures, boots>>
    BY <1>6 DEF Take, file, tables, replay, bounds
  <2> QED BY <1>1, <2>1, <2>2 DEF TypedRest
<1>7. CASE WriteLine \/ FlushFails \/ LineLost \/ TurnDay \/ TurnDayFails
  <2>1. UNCHANGED <<taken, db, view, conn, reindex, rebuilds, shared, partial, boots>>
    BY <1>7 DEF WriteLine, FlushFails, LineLost, TurnDay, TurnDayFails, tables, replay, bounds
  <2>2. stage' \in {"row", "idle", "line"}
    BY <1>7 DEF WriteLine, FlushFails, LineLost, TurnDay, TurnDayFails, Raises
  <2>3. failures' = failures \/ (failures < MaxFailures /\ failures' = failures + 1)
    BY <1>7 DEF WriteLine, FlushFails, LineLost, TurnDay, TurnDayFails, Raises, bounds
  <2>4. failures' \in 0 .. MaxFailures
    BY <1>1, <1>2, <2>3 DEF TypedRest
  <2> QED BY <1>1, <2>1, <2>2, <2>4 DEF TypedRest
<1>8. CASE CommitEvent
  <2>1. /\ stage = "row" /\ stage' = "idle" /\ db' = WriteEvent(view, hand) /\ view' = db'
        /\ conn' = "none"
        /\ UNCHANGED <<taken, reindex, rebuilds, shared, partial, failures, boots>>
    BY <1>8 DEF CommitEvent, replay, bounds
  <2>2. db' \in Tables
    BY <1>1, <2>1, HandIsEvent, WriteEventTyped DEF TypedRest
  <2> QED BY <1>1, <2>1, <2>2 DEF TypedRest
<1>9. CASE StatementFails
  <2>1. /\ stage = "row" /\ stage' = "idle" /\ partial' = partial + 1
        /\ failures < MaxFailures /\ failures' = failures + 1
        /\ UNCHANGED <<taken, db, reindex, rebuilds, shared, boots>>
    BY <1>9 DEF StatementFails, Raises, replay
  <2>2. failures' \in 0 .. MaxFailures /\ partial' \in Nat
    BY <1>1, <1>2, <2>1 DEF TypedRest
  <2>3. /\ view' \in Tables /\ conn' \in {"none", "begun", "reading", "stale", "writing"}
        /\ conn' # "writing" => view' = db
    <3>1. CASE \E k \in 0 .. 4 :
            /\ view' = AfterStatements(k, view, hand)
            /\ conn' = IF k > 0 THEN "writing" ELSE IF conn = "none" THEN "begun" ELSE conn
      <4>1. PICK k \in 0 .. 4 :
            /\ view' = AfterStatements(k, view, hand)
            /\ conn' = IF k > 0 THEN "writing" ELSE IF conn = "none" THEN "begun" ELSE conn
        BY <3>1
      <4>2. view' \in Tables /\ (k = 0 => view' = view)
        BY <1>1, <2>1, <4>1, HandIsEvent, StatementsAreTyped DEF TypedRest
      <4>3. k > 0 \/ k = 0
        OBVIOUS
      <4>4. CASE k > 0
        BY <4>1, <4>2, <4>4
      <4>5. CASE k = 0
        <5>1. conn' = IF conn = "none" THEN "begun" ELSE conn
          BY <4>1, <4>5
        <5> QED BY <1>1, <4>2, <4>5, <5>1 DEF TypedRest
      <4> QED BY <4>3, <4>4, <4>5
    <3>2. CASE view' = db /\ conn' = "none"
      BY <1>1, <3>2 DEF TypedRest
    <3> QED BY <1>9, <3>1, <3>2 DEF StatementFails
  <2> QED BY <1>1, <2>1, <2>2, <2>3 DEF TypedRest
<1>10. CASE SnapshotFails
  <2>1. /\ stage' = "idle" /\ partial' = partial + 1
        /\ UNCHANGED <<taken, db, view, conn, reindex, rebuilds, shared, failures, boots>>
    BY <1>10 DEF SnapshotFails, tables, replay, bounds
  <2> QED BY <1>1, <2>1 DEF TypedRest
<1>11. CASE Query
  <2>1. /\ conn = "begun" /\ conn' = "reading" /\ stage # "down"
        /\ UNCHANGED <<stage, taken, db, view, reindex, rebuilds, shared, partial, failures, boots>>
    BY <1>11 DEF Query, up, replay, bounds
  <2> QED BY <1>1, <2>1 DEF TypedRest
<1>12. CASE OtherCommit
  <2>1. /\ conn' = "none" /\ db' = view /\ view' = view /\ stage # "down"
        /\ UNCHANGED <<stage, taken, reindex, rebuilds, shared, partial, failures, boots>>
    BY <1>12 DEF OtherCommit, up, replay, bounds
  <2> QED BY <1>1, <2>1 DEF TypedRest
<1>13. ASSUME NEW new \in Tables, RivalCommit(new)
       PROVE  /\ db' \in Tables /\ view' \in Tables /\ view' = db'
              /\ conn' \in {"none", "begun", "reading", "stale", "writing"}
              /\ conn = "none" => conn' = "none"
  BY <1>1, <1>13 DEF TypedRest, RivalCommit
<1>14. CASE StartRebuild
  <2>1. /\ RivalCommit(EmptyTables) /\ reindex' = "replay" /\ rebuilds' = rebuilds + 1
        /\ rebuilds < MaxRebuilds /\ shared' \in BOOLEAN /\ partial' = 0
        /\ UNCHANGED <<stage, taken, buffer, failures, boots>>
    BY <1>14 DEF StartRebuild, up, file, bounds
  <2>2. rebuilds' \in 0 .. MaxRebuilds
    BY <1>2, <2>1
  <2> QED BY <1>1, <1>13, <2>1, <2>2, EmptyTablesAreTables DEF TypedRest
<1>15. CASE ReplayLine
  <2>1. /\ Text[pos + 1] \in Event /\ RivalCommit(WriteEvent(db, Text[pos + 1]))
        /\ UNCHANGED <<stage, taken, buffer, reindex, rebuilds, shared, partial, failures, boots>>
    BY <1>15 DEF ReplayLine, file, bounds
  <2>2. WriteEvent(db, Text[pos + 1]) \in Tables
    BY <1>1, <2>1, WriteEventTyped DEF TypedRest
  <2> QED BY <1>1, <1>13, <2>1, <2>2 DEF TypedRest
<1>16. CASE SkipLine \/ EndRebuild \/ RebuildDies
  <2>1. /\ reindex' \in {"off", "replay", "done", "dead"}
        /\ UNCHANGED <<stage, taken, buffer, db, view, conn, rebuilds, shared, partial,
                        failures, boots>>
    BY <1>1, <1>16 DEF SkipLine, EndRebuild, RebuildDies, file, tables, bounds, TypedRest
  <2> QED BY <1>1, <2>1 DEF TypedRest
<1> QED BY <1>3, <1>4, <1>5, <1>6, <1>7, <1>8, <1>9, <1>10, <1>11, <1>12, <1>14, <1>15, <1>16
        DEF Next, Persist, Rebuild

\* The other process reads no further than the end.
LEMMA StepsKeepPosition ==
    ASSUME Typed, HandleIsTidy, Next, Len(Text') >= Len(Text), Len(Text') \in Nat
    PROVE  pos' \in 0 .. Len(Text')
<1>1. Text \in Seq(Line) /\ Len(Text) \in Nat /\ pos \in 0 .. Len(Text)
  BY PositionTyped
<1>2. pos' = pos \/ pos' = 0 \/ (pos < Len(Text) /\ pos' = pos + 1)
  <2>1. CASE FileAction
    BY <2>1 DEF FileAction, WriteLine, FlushFails, LineLost, TurnDay, TurnDayFails, Stop, replay
  <2>2. CASE Boot \/ Crash \/ Take
    BY <2>2 DEF Boot, Crash, Take, replay
  <2>3. CASE CommitEvent \/ StatementFails \/ SnapshotFails \/ Query \/ OtherCommit
    BY <2>3 DEF CommitEvent, StatementFails, SnapshotFails, Query, OtherCommit, replay
  <2>4. CASE Rebuild
    BY <2>4 DEF Rebuild, StartRebuild, ReplayLine, SkipLine, EndRebuild, RebuildDies
  <2> QED BY <2>1, <2>2, <2>3, <2>4, NextIsOneOf DEF OtherAction
<1> QED BY <1>1, <1>2

\* Every step keeps the types.
LEMMA StepsKeepTyped ==
    ASSUME Typed, HandleIsTidy, FileIsInOrder, Next
    PROVE  Typed'
<1>1. /\ lines' \in Seq(Line) /\ cut' \in AtMostOneLine /\ own' \in BOOLEAN
      /\ buffer' \in Seq(Event) /\ tears' \in Nat
      /\ own' => cut' # <<>> /\ buffer' # <<>>
      /\ Len(Text') >= Len(Text)
  BY StepsKeepFile
<1>2. TypedRest'
  BY StepsKeepTypes
<1>3. Text' \in Seq(Line)
  <2>1. lines' \o cut' \in Seq(Line)
    BY <1>1, LinesOfText
  <2> QED BY <2>1 DEF Text
<1>4. pos' \in 0 .. Len(Text')
  BY <1>1, <1>3, StepsKeepPosition
<1> QED BY <1>1, <1>2, <1>4 DEF Typed, TypeOK, TypedRest, AtMostOneLine

(***************************************************************************)
(* The rows                                                                *)
(***************************************************************************)

\* A step adds at most the row of the event that it writes.
LEMMA StatementsAddOneRow ==
    ASSUME NEW t \in Tables, NEW e \in Event, NEW k \in 0 .. 4
    PROVE  Range(AfterStatements(k, t, e).events) \subseteq Range(t.events) \cup {e}
<1> DEFINE r == AfterStatements(k, t, e)
<1>1. t.events \in Seq(Event)
  BY DEF Tables
<1>2. r.events = t.events \/ r.events = Append(t.events, e)
  BY StatementsHaveEffect DEF Effect
<1> HIDE DEF r
<1>3. Range(Append(t.events, e)) \subseteq Range(t.events) \cup {e}
  BY <1>1 DEF Range
<1>4. Range(r.events) \subseteq Range(t.events) \cup {e}
  BY <1>2, <1>3
<1> QED BY <1>4 DEF r

\* So does all of write_event.
LEMMA WriteEventAddsOneRow ==
    ASSUME NEW t \in Tables, NEW e \in Event
    PROVE  Range(WriteEvent(t, e).events) \subseteq Range(t.events) \cup {e}
<1>1. 4 \in 0 .. 4
  OBVIOUS
<1> QED BY <1>1, StatementsAddOneRow DEF WriteEvent

\* A step adds no row, or that of the event in hand, or that of the line replayed.
LEMMA StepsAddOneRow ==
    ASSUME Typed, HandleIsTidy, Next
    PROVE  \/ Rows' \subseteq Rows
           \/ (CommitEvent \/ StatementFails) /\ Rows' \subseteq Rows \cup {taken}
           \/ ReplayLine /\ Rows' \subseteq Rows \cup {Text[pos + 1]}
<1>1. db \in Tables /\ view \in Tables
  BY DEF Typed
<1>2. Rows' = Range(db'.events) \cup Range(view'.events)
  BY DEF Rows
<1>3. CASE db' \in {db, view} /\ view' \in {db, view}
  BY <1>2, <1>3 DEF Rows
<1>4. CASE FileAction
  <2>1. db' = db /\ view' \in {db, view}
    BY <1>4 DEF FileAction, WriteLine, FlushFails, LineLost, TurnDay, TurnDayFails, Stop, tables
  <2> QED BY <1>3, <2>1
<1>5. CASE Boot \/ Crash \/ Take \/ SnapshotFails \/ Query \/ OtherCommit
  <2>1. db' \in {db, view} /\ view' \in {db, view}
    BY <1>5 DEF Boot, Crash, Take, SnapshotFails, Query, OtherCommit, tables
  <2> QED BY <1>3, <2>1
<1>6. CASE CommitEvent
  <2>1. db' = WriteEvent(view, hand) /\ view' = db' /\ stage = "row"
    BY <1>6 DEF CommitEvent
  <2>2. Range(db'.events) \subseteq Range(view.events) \cup {taken}
    BY <1>1, <2>1, HandIsEvent, WriteEventAddsOneRow DEF hand
  <2> QED BY <1>2, <1>6, <2>1, <2>2 DEF Rows
<1>7. CASE StatementFails
  <2>1. db' = db /\ stage = "row"
    BY <1>7 DEF StatementFails
  <2>2. CASE view' = db
    BY <1>2, <2>1, <2>2 DEF Rows
  <2>3. CASE \E k \in 0 .. 4 : view' = AfterStatements(k, view, hand)
    <3>1. PICK k \in 0 .. 4 : view' = AfterStatements(k, view, hand)
      BY <2>3
    <3>2. Range(view'.events) \subseteq Range(view.events) \cup {taken}
      BY <1>1, <2>1, <3>1, HandIsEvent, StatementsAddOneRow DEF hand
    <3> QED BY <1>2, <1>7, <2>1, <3>2 DEF Rows
  <2> QED BY <1>7, <2>2, <2>3 DEF StatementFails
<1>8. CASE StartRebuild
  <2>1. db' = EmptyTables /\ view' = EmptyTables
    BY <1>8 DEF StartRebuild, RivalCommit
  <2>2. Range(EmptyTables.events) = {}
    BY DEF EmptyTables, Range
  <2> QED BY <1>2, <2>1, <2>2
<1>9. CASE ReplayLine
  <2>1. Text[pos + 1] \in Event /\ db' = WriteEvent(db, Text[pos + 1]) /\ view' = db'
    BY <1>9 DEF ReplayLine, RivalCommit
  <2>2. Range(db'.events) \subseteq Range(db.events) \cup {Text[pos + 1]}
    BY <1>1, <2>1, WriteEventAddsOneRow
  <2> QED BY <1>2, <1>9, <2>1, <2>2 DEF Rows
<1>10. CASE SkipLine \/ EndRebuild \/ RebuildDies
  <2>1. db' = db /\ view' = view
    BY <1>10 DEF SkipLine, EndRebuild, RebuildDies, tables
  <2> QED BY <1>3, <2>1
<1> QED BY <1>4, <1>5, <1>6, <1>7, <1>8, <1>9, <1>10, NextIsOneOf DEF OtherAction, Rebuild

\* The rows are those of events.
LEMMA RowsAreEvents ==
    ASSUME Typed
    PROVE  Rows \subseteq Event
<1>1. db.events \in Seq(Event) /\ view.events \in Seq(Event)
  BY DEF Typed, Tables
<1> QED BY <1>1 DEF Rows, Range

\* The lines that a reader sees, cut one included, are in order and below the
\* event in hand.
LEMMA TextInOrder ==
    ASSUME Typed, HandleIsTidy, FileIsInOrder
    PROVE  /\ \A i \in 1 .. Len(Text) : Text[i] \in Event =>
                 Text[i] < IF stage = "line" THEN taken ELSE taken + 1
           /\ \A i, j \in 1 .. Len(Text) :
                 i < j /\ Text[i] \in Event /\ Text[j] \in Event => Text[i] < Text[j]
<1> DEFINE n == Len(lines)
           p == Len(cut)
           bound == IF stage = "line" THEN taken ELSE taken + 1
<1>1. /\ Text = lines \o cut /\ lines \in Seq(Line) /\ cut \in AtMostOneLine /\ n \in Nat
  BY HandleTyped DEF Text
<1>2. /\ Len(Text) = n + p /\ p \in {0, 1} /\ (cut = <<>> <=> p = 0)
      /\ \A i \in 1 .. n : Text[i] = lines[i]
      /\ cut # <<>> => Text[n + 1] = cut[1]
  BY <1>1, LinesOfText
<1>3. /\ \A i, j \in 1 .. n :
            i < j /\ lines[i] \in Event /\ lines[j] \in Event => lines[i] < lines[j]
      /\ cut # <<>> /\ cut[1] \in Event =>
            \A i \in 1 .. n : lines[i] \in Event => lines[i] < cut[1]
  BY DEF FileIsInOrder, InOrder
<1>4. /\ \A i \in 1 .. n : lines[i] \in Event => lines[i] < bound
      /\ cut # <<>> /\ cut[1] \in Event => cut[1] < bound
  BY DEF FileIsInOrder, AllBelow
<1> HIDE DEF n, p, bound
<1>5. ASSUME NEW i \in 1 .. Len(Text)
      PROVE  \/ i \in 1 .. n /\ Text[i] = lines[i]
             \/ i = n + 1 /\ cut # <<>> /\ Text[i] = cut[1]
  <2>1. CASE i <= n
    BY <1>1, <1>2, <2>1
  <2>2. CASE ~(i <= n)
    <3>1. i = n + 1 /\ p = 1
      BY <1>1, <1>2, <2>2
    <3> QED BY <1>2, <3>1
  <2> QED BY <2>1, <2>2
<1>6. \A i \in 1 .. Len(Text) : Text[i] \in Event => Text[i] < bound
  BY <1>4, <1>5
<1>7. ASSUME NEW i \in 1 .. Len(Text), NEW j \in 1 .. Len(Text),
             i < j, Text[i] \in Event, Text[j] \in Event
      PROVE  Text[i] < Text[j]
  <2>1. i \in 1 .. n /\ Text[i] = lines[i]
    <3>1. CASE i = n + 1
      BY <1>1, <1>2, <1>7, <3>1
    <3>2. CASE i # n + 1
      BY <1>5, <3>2
    <3> QED BY <3>1, <3>2
  <2>2. CASE j \in 1 .. n /\ Text[j] = lines[j]
    BY <1>3, <1>7, <2>1, <2>2
  <2>3. CASE j = n + 1 /\ cut # <<>> /\ Text[j] = cut[1]
    BY <1>3, <1>7, <2>1, <2>3
  <2> QED BY <1>5, <2>2, <2>3
<1> QED BY <1>6, <1>7 DEF bound

\* A rebuild beside a running service is known to be one.
LEMMA LiveRebuildIsShared ==
    ASSUME Typed, Rebuilt, reindex # "off", stage # "down"
    PROVE  shared
BY DEF Rebuilt, Typed, TypeOK

\* No step gives the event in hand, or a later one, a row before its time.
LEMMA StepsKeepRowsEarlier ==
    ASSUME Typed, HandleIsTidy, FileIsInOrder, RowsAreEarlier, Rebuilt, Next
    PROVE  RowsAreEarlier'
<1> DEFINE early == IF stage = "line" \/ (stage = "row" /\ ~shared) THEN taken ELSE taken + 1
           after == IF stage' = "line" \/ (stage' = "row" /\ ~shared') THEN taken' ELSE taken' + 1
<1>1. /\ \A e \in Rows : e < early
      /\ taken \in Nat /\ Rows \subseteq Nat
  BY RowsAreEvents, EventsAreLines, HandleTyped DEF RowsAreEarlier
<1>2. StartRebuild => Rows' = {}
  <2>1. SUFFICES ASSUME StartRebuild PROVE Rows' = {}
    OBVIOUS
  <2>2. db' = EmptyTables /\ view' = EmptyTables
    BY <2>1 DEF StartRebuild, RivalCommit
  <2>3. Range(EmptyTables.events) = {}
    BY DEF EmptyTables, Range
  <2> QED BY <2>2, <2>3 DEF Rows
<1>3. StartRebuild \/ (early <= after /\ early \in Nat /\ after \in Nat)
  <2>1. CASE FileAction
    <3>1. PICK out, k, part : FileStep(out, k, part)
      BY <2>1, FileActionsWrite
    <3>2. /\ taken' = taken /\ (stage' = "line" => stage = "line")
          /\ (stage' = "row" => stage = "line")
      BY <3>1 DEF FileStep
    <3> QED BY <1>1, <3>2
  <2>2. CASE Boot \/ Crash
    <3>1. taken' = taken /\ stage' \in {"idle", "down"}
      BY <2>2 DEF Boot, Crash
    <3> QED BY <1>1, <3>1
  <2>3. CASE Take
    <3>1. taken' = taken + 1 /\ stage = "idle" /\ stage' = "line"
      BY <2>3 DEF Take
    <3> QED BY <1>1, <3>1
  <2>4. CASE CommitEvent \/ StatementFails \/ SnapshotFails
    <3>1. taken' = taken /\ stage' = "idle"
      BY <2>4 DEF CommitEvent, StatementFails, SnapshotFails, Raises
    <3> QED BY <1>1, <3>1
  <2>5. CASE Query \/ OtherCommit \/ ReplayLine \/ SkipLine \/ EndRebuild \/ RebuildDies
    <3>1. taken' = taken /\ stage' = stage /\ shared' = shared
      BY <2>5 DEF Query, OtherCommit, ReplayLine, SkipLine, EndRebuild, RebuildDies
    <3> QED BY <1>1, <3>1
  <2> QED BY <2>1, <2>2, <2>3, <2>4, <2>5, NextIsOneOf DEF OtherAction, Rebuild
<1>4. \A e \in Rows : StartRebuild \/ e < after
  BY <1>1, <1>3
<1>5. CASE Rows' \subseteq Rows
  <2>1. \A e \in Rows' : e < after
    BY <1>2, <1>4, <1>5
  <2> QED BY <2>1 DEF RowsAreEarlier
<1>6. CASE (CommitEvent \/ StatementFails) /\ Rows' \subseteq Rows \cup {taken}
  <2>1. taken' = taken /\ stage' = "idle"
    BY <1>6 DEF CommitEvent, StatementFails, Raises
  <2>2. after = taken + 1 /\ ~StartRebuild
    BY <1>6, <2>1 DEF CommitEvent, StatementFails, StartRebuild, Raises
  <2>3. taken < after
    BY <1>1, <2>2
  <2>4. \A e \in Rows' : e < after
    BY <1>4, <1>6, <2>2, <2>3
  <2> QED BY <2>4 DEF RowsAreEarlier
<1>7. CASE ReplayLine /\ Rows' \subseteq Rows \cup {Text[pos + 1]}
  <2>1. /\ reindex = "replay" /\ pos < Len(Text) /\ Text[pos + 1] \in Event
        /\ taken' = taken /\ stage' = stage /\ shared' = shared /\ reindex' = reindex
    BY <1>7 DEF ReplayLine
  <2>2. ~StartRebuild
    BY <2>1 DEF StartRebuild
  <2>3. pos + 1 \in 1 .. Len(Text)
    BY <2>1, PositionTyped
  <2>4. Text[pos + 1] < IF stage = "line" THEN taken ELSE taken + 1
    BY <2>1, <2>3, TextInOrder
  <2>5. stage = "row" => shared
    BY <2>1, LiveRebuildIsShared
  <2>6. Text[pos + 1] < after
    BY <2>1, <2>4, <2>5
  <2>7. \A e \in Rows' : e < after
    BY <1>4, <1>7, <2>2, <2>6
  <2> QED BY <2>7 DEF RowsAreEarlier
<1> QED BY <1>5, <1>6, <1>7, StepsAddOneRow

(***************************************************************************)
(* Rebuilds and counters                                                   *)
(***************************************************************************)

\* The line that a rebuild alone is about to replay has no row yet: it comes
\* after those it has replayed.
LEMMA NextLineIsNew ==
    ASSUME Typed, HandleIsTidy, FileIsInOrder, Rebuilt, ~shared, reindex = "replay",
           pos < Len(Text), Text[pos + 1] \in Event
    PROVE  Text[pos + 1] \notin Range(db.events)
<1>1. SUFFICES ASSUME Text[pos + 1] \in Range(db.events) PROVE FALSE
  OBVIOUS
<1>2. PICK j \in 1 .. pos : Text[j] = Text[pos + 1]
  BY <1>1 DEF Rebuilt
<1>3. pos \in Nat /\ Len(Text) \in Nat
  BY PositionTyped
<1> DEFINE p == pos + 1
<1>4. j \in 1 .. Len(Text) /\ p \in 1 .. Len(Text) /\ j < p
  BY <1>3
<1>5. Text[j] \in Event /\ Text[p] \in Event /\ Text[j] = Text[p]
  BY <1>2
<1> HIDE DEF p
<1>6. Text[j] < Text[p]
  BY <1>4, <1>5, TextInOrder
<1>7. Text[p] \in Nat
  BY <1>5, EventsAreLines
<1> QED BY <1>5, <1>6, <1>7

\* The steps that change neither what a rebuild has done nor what it reads.
LEMMA StepsKeepRebuilt ==
    ASSUME Typed, HandleIsTidy, FileIsInOrder, Rebuilt, Next
    PROVE  Rebuilt'
<1>1. Text \in Seq(Line) /\ Len(Text) \in Nat /\ pos \in 0 .. Len(Text) /\ pos \in Nat
  BY PositionTyped
<1>2. stage # "down" /\ reindex # "off" => shared
  BY DEF Rebuilt
<1>3. CASE FileAction \/ Crash \/ Take \/ CommitEvent \/ StatementFails \/ SnapshotFails
           \/ Query \/ OtherCommit
  <2>1. stage # "down" /\ reindex' = reindex /\ shared' = shared
    BY <1>3 DEF FileAction, WriteLine, FlushFails, LineLost, TurnDay, TurnDayFails, Stop, Crash, Take,
                CommitEvent, StatementFails, SnapshotFails, Query, OtherCommit, up, replay
  <2> QED BY <1>2, <2>1 DEF Rebuilt
<1>4. CASE Boot
  <2>1. reindex' # "off" => shared'
    <3>1. /\ shared' = (shared \/ reindex = "replay")
          /\ reindex' = IF reindex = "replay" THEN reindex ELSE "off"
      BY <1>4 DEF Boot
    <3> QED BY <3>1
  <2> QED BY <2>1 DEF Rebuilt
<1>5. CASE StartRebuild
  <2>1. /\ stage' = stage /\ shared' = up /\ db' = EmptyTables /\ pos' = 0
        /\ reindex' = "replay" /\ lines' = lines /\ cut' = cut
    BY <1>5 DEF StartRebuild, RivalCommit, file
  <2>2. Text' = Text
    BY <2>1 DEF Text
  <2>3. Range(db'.events) = {}
    BY <2>1 DEF EmptyTables, Range
  <2>4. db' = Projection(SubSeq(Text', 1, pos'))
    BY <1>1, <2>1, <2>2, ProjectionOfNothing
  <2> QED BY <2>1, <2>3, <2>4 DEF Rebuilt, up
<1>6. CASE ReplayLine
  <2>1. /\ stage' = stage /\ shared' = shared /\ reindex' = "replay" /\ reindex = "replay"
        /\ pos < Len(Text) /\ Text[pos + 1] \in Event
        /\ db' = WriteEvent(db, Text[pos + 1]) /\ pos' = pos + 1
        /\ lines' = lines /\ cut' = cut
    BY <1>6 DEF ReplayLine, RivalCommit, file
  <2>2. Text' = Text
    BY <2>1 DEF Text
  <2>3. SUFFICES ASSUME ~shared
                 PROVE  /\ stage = "down"
                        /\ db' = Projection(SubSeq(Text, 1, pos + 1))
                        /\ \A e \in Range(db'.events) : \E j \in 1 .. pos + 1 : Text[j] = e
    BY <2>1, <2>2 DEF Rebuilt
  <2>4. /\ stage = "down" /\ db = Projection(SubSeq(Text, 1, pos))
        /\ \A e \in Range(db.events) : \E j \in 1 .. pos : Text[j] = e
    BY <2>1, <2>3 DEF Rebuilt
  <2>5. Projection(SubSeq(Text, 1, pos + 1)) = WriteEvent(db, Text[pos + 1])
    BY <1>1, <2>1, <2>4, ProjectionGrows
  <2>6. Range(db'.events) \subseteq Range(db.events) \cup {Text[pos + 1]}
    BY <2>1, WriteEventAddsOneRow DEF Typed
  <2>7. ASSUME NEW e \in Range(db'.events) PROVE \E j \in 1 .. pos + 1 : Text[j] = e
    <3>1. CASE e \in Range(db.events)
      <4>1. PICK j \in 1 .. pos : Text[j] = e
        BY <2>4, <3>1
      <4>2. j \in 1 .. pos + 1
        BY <1>1
      <4> QED BY <4>1, <4>2
    <3>2. CASE e = Text[pos + 1]
      <4>1. pos + 1 \in 1 .. pos + 1
        BY <1>1
      <4> QED BY <3>2, <4>1
    <3> QED BY <2>6, <3>1, <3>2
  <2> QED BY <2>1, <2>4, <2>5, <2>7
<1>7. CASE SkipLine
  <2>1. /\ stage' = stage /\ shared' = shared /\ reindex' = "replay" /\ reindex = "replay"
        /\ pos < Len(Text) /\ Text[pos + 1] = Garbled
        /\ db' = db /\ pos' = pos + 1
        /\ lines' = lines /\ cut' = cut
    BY <1>7 DEF SkipLine, tables, file
  <2>2. Text' = Text
    BY <2>1 DEF Text
  <2>3. SUFFICES ASSUME ~shared
                 PROVE  /\ stage = "down"
                        /\ db = Projection(SubSeq(Text, 1, pos + 1))
                        /\ \A e \in Range(db.events) : \E j \in 1 .. pos + 1 : Text[j] = e
    BY <2>1, <2>2 DEF Rebuilt
  <2>4. /\ stage = "down" /\ db = Projection(SubSeq(Text, 1, pos))
        /\ \A e \in Range(db.events) : \E j \in 1 .. pos : Text[j] = e
    BY <2>1, <2>3 DEF Rebuilt
  <2>5. Projection(SubSeq(Text, 1, pos + 1)) = db
    BY <1>1, <2>1, <2>4, ProjectionGrows, EventsAreLines
  <2>6. ASSUME NEW e \in Range(db.events) PROVE \E j \in 1 .. pos + 1 : Text[j] = e
    <3>1. PICK j \in 1 .. pos : Text[j] = e
      BY <2>4
    <3>2. j \in 1 .. pos + 1
      BY <1>1
    <3> QED BY <3>1, <3>2
  <2> QED BY <2>4, <2>5, <2>6
<1>8. CASE EndRebuild
  <2>1. /\ stage' = stage /\ shared' = shared /\ reindex' = "done" /\ reindex = "replay"
        /\ pos = Len(Text) /\ db' = db /\ pos' = pos /\ lines' = lines /\ cut' = cut
    BY <1>8 DEF EndRebuild, tables, file
  <2>2. Text' = Text
    BY <2>1 DEF Text
  <2> QED BY <2>1, <2>2 DEF Rebuilt
<1>9. CASE RebuildDies
  <2>1. /\ stage' = stage /\ shared' = shared /\ reindex' = "dead" /\ reindex = "replay"
        /\ db' = db /\ pos' = pos /\ lines' = lines /\ cut' = cut
    BY <1>9 DEF RebuildDies, tables, file
  <2>2. Text' = Text
    BY <2>1 DEF Text
  <2> QED BY <2>1, <2>2 DEF Rebuilt
<1> QED BY <1>3, <1>4, <1>5, <1>6, <1>7, <1>8, <1>9, NextIsOneOf DEF OtherAction, Rebuild

\* Counters that are no further behind than a lag are no further behind than a
\* larger one.
LEMMA FollowsLonger ==
    ASSUME NEW t \in Tables, NEW m \in Nat, CountersFollow(t, m)
    PROVE  CountersFollow(t, m + 1)
<1>1. \A S : RowsOf(t, S) \in Nat
  BY RowsOfSame
<1>2. /\ \A i \in Ip : t.sources[i].conns \in Nat /\ t.sources[i].auths \in Nat
      /\ \A c \in Cred : t.credentials[c].hits \in Nat
      /\ \A d \in Day \X Port : t.daily[d].auths \in Nat
  BY DEF Tables, SourceRows, CredentialRows, DailyRows
<1>3. ASSUME NEW a \in Nat, NEW S, Follows(a, RowsOf(t, S), m)
      PROVE  Follows(a, RowsOf(t, S), m + 1)
  BY <1>1, <1>3 DEF Follows
<1> QED BY <1>2, <1>3 DEF CountersFollow

\* Empty tables have no row and count none.
LEMMA EmptyTablesFollow == CountersFollow(EmptyTables, 0)
<1>1. \A S : RowsOf(EmptyTables, S) = 0
  <2>1. ASSUME NEW S PROVE RowsOf(EmptyTables, S) = 0
    <3>1. {i \in DOMAIN EmptyTables.events : EmptyTables.events[i] \in S} = {}
      BY DEF EmptyTables
    <3> QED BY <3>1, FS_EmptySet DEF RowsOf
  <2> QED BY <2>1
<1>2. /\ \A i \in Ip : EmptyTables.sources[i].conns = 0 /\ EmptyTables.sources[i].auths = 0
      /\ \A c \in Cred : EmptyTables.credentials[c].hits = 0
      /\ \A d \in Day \X Port : EmptyTables.daily[d].auths = 0
  BY DEF EmptyTables
<1>3. Follows(0, 0, 0)
  BY DEF Follows
<1> QED BY <1>1, <1>2, <1>3 DEF CountersFollow

\* Every step keeps the counters with the rows.
LEMMA StepsKeepCounters ==
    ASSUME Typed, HandleIsTidy, FileIsInOrder, RowsAreEarlier, Rebuilt, CountersAgree, Next
    PROVE  CountersAgree'
<1>1. db \in Tables /\ view \in Tables /\ partial \in Nat /\ taken \in Nat
  BY HandleTyped DEF Typed, TypeOK
<1>2. ~shared => CountersFollow(db, partial) /\ CountersFollow(view, partial)
  BY DEF CountersAgree
<1>3. CASE db' \in {db, view} /\ view' \in {db, view} /\ partial' = partial
           /\ (~shared' => ~shared)
  BY <1>2, <1>3 DEF CountersAgree
<1>4. ASSUME ~shared, stage = "row" PROVE hand \in Event /\ hand \notin Range(view.events)
  <2>1. hand \in Event /\ hand = taken
    BY <1>4, HandIsEvent DEF hand
  <2>2. \A e \in Range(view.events) : e < taken
    BY <1>4 DEF RowsAreEarlier, Rows
  <2> QED BY <1>1, <2>1, <2>2
<1>5. CASE FileAction \/ Crash \/ Take \/ Query \/ OtherCommit
  <2>1. /\ db' \in {db, view} /\ view' \in {db, view} /\ partial' = partial /\ shared' = shared
    BY <1>5 DEF FileAction, WriteLine, FlushFails, LineLost, TurnDay, TurnDayFails, Stop, Crash, Take,
                Query, OtherCommit, tables
  <2> QED BY <1>3, <2>1
<1>6. CASE Boot
  <2>1. db' = db /\ view' = view /\ partial' = partial /\ (~shared' => ~shared)
    BY <1>6 DEF Boot, tables
  <2> QED BY <1>3, <2>1
<1>7. CASE CommitEvent
  <2>1. /\ stage = "row" /\ db' = WriteEvent(view, hand) /\ view' = db' /\ partial' = partial
        /\ shared' = shared
    BY <1>7 DEF CommitEvent
  <2>2. ASSUME ~shared PROVE CountersFollow(db', partial)
    <3>1. 4 \in 0 .. 4
      OBVIOUS
    <3>2. CountersFollow(AfterStatements(4, view, hand), IF 4 = 4 THEN partial ELSE partial + 1)
      BY <1>1, <1>2, <1>4, <2>1, <2>2, <3>1, StatementsKeepCounters
    <3> QED BY <2>1, <3>2 DEF WriteEvent
  <2> QED BY <2>1, <2>2 DEF CountersAgree
<1>8. CASE StatementFails
  <2>1. /\ stage = "row" /\ db' = db /\ partial' = partial + 1 /\ shared' = shared
        /\ view' = db \/ \E k \in 0 .. 4 : view' = AfterStatements(k, view, hand)
    BY <1>8 DEF StatementFails
  <2>2. ASSUME ~shared PROVE CountersFollow(db, partial + 1) /\ CountersFollow(view', partial + 1)
    <3>1. CountersFollow(db, partial + 1)
      BY <1>1, <1>2, <2>2, FollowsLonger
    <3>2. CASE view' = db
      BY <3>1, <3>2
    <3>3. CASE \E k \in 0 .. 4 : view' = AfterStatements(k, view, hand)
      <4>1. PICK k \in 0 .. 4 : view' = AfterStatements(k, view, hand)
        BY <3>3
      <4>2. CountersFollow(view', IF k = 4 THEN partial ELSE partial + 1)
        BY <1>1, <1>2, <1>4, <2>1, <2>2, <4>1, StatementsKeepCounters
      <4>3. view' \in Tables
        BY <1>1, <1>4, <2>1, <2>2, <4>1, StatementsAreTyped
      <4>4. CASE k = 4
        <5>1. CountersFollow(view', partial)
          BY <4>2, <4>4
        <5> QED BY <1>1, <3>1, <4>3, <5>1, FollowsLonger
      <4>5. CASE k # 4
        BY <3>1, <4>2, <4>5
      <4> QED BY <4>4, <4>5
    <3> QED BY <2>1, <3>2, <3>3
  <2> QED BY <2>1, <2>2 DEF CountersAgree
<1>9. CASE SnapshotFails
  <2>1. db' = db /\ view' = view /\ partial' = partial + 1 /\ shared' = shared
    BY <1>9 DEF SnapshotFails, tables
  <2>2. ~shared => CountersFollow(db, partial + 1) /\ CountersFollow(view, partial + 1)
    BY <1>1, <1>2, FollowsLonger
  <2> QED BY <2>1, <2>2 DEF CountersAgree
<1>10. CASE StartRebuild
  <2>1. db' = EmptyTables /\ view' = EmptyTables /\ partial' = 0
    BY <1>10 DEF StartRebuild, RivalCommit
  <2> QED BY <2>1, EmptyTablesFollow DEF CountersAgree
<1>11. CASE ReplayLine
  <2>1. /\ reindex = "replay" /\ pos < Len(Text) /\ Text[pos + 1] \in Event
        /\ db' = WriteEvent(db, Text[pos + 1]) /\ view' = db' /\ partial' = partial
        /\ shared' = shared
    BY <1>11 DEF ReplayLine, RivalCommit
  <2>2. ASSUME ~shared PROVE CountersFollow(db', partial)
    <3>1. 4 \in 0 .. 4
      OBVIOUS
    <3>2. Text[pos + 1] \notin Range(db.events)
      BY <2>1, <2>2, NextLineIsNew
    <3> DEFINE e == Text[pos + 1]
    <3>3. e \in Event /\ e \notin Range(db.events)
      BY <2>1, <3>2
    <3>4. db' = WriteEvent(db, e)
      BY <2>1
    <3> HIDE DEF e
    <3>5. CountersFollow(AfterStatements(4, db, e), IF 4 = 4 THEN partial ELSE partial + 1)
      BY <1>1, <1>2, <2>2, <3>1, <3>3, StatementsKeepCounters
    <3> QED BY <3>4, <3>5 DEF WriteEvent
  <2> QED BY <2>1, <2>2 DEF CountersAgree
<1>12. CASE SkipLine \/ EndRebuild \/ RebuildDies
  <2>1. db' = db /\ view' = view /\ partial' = partial /\ shared' = shared
    BY <1>12 DEF SkipLine, EndRebuild, RebuildDies, tables
  <2> QED BY <1>3, <2>1
<1> QED BY <1>5, <1>6, <1>7, <1>8, <1>9, <1>10, <1>11, <1>12, NextIsOneOf DEF OtherAction, Rebuild

(***************************************************************************)
(* The damage                                                              *)
(***************************************************************************)

\* A set and perhaps one element more.
LEMMA OneMore ==
    ASSUME NEW S, IsFiniteSet(S), NEW x, NEW more \in BOOLEAN
    PROVE  /\ IsFiniteSet(S \cup IF more THEN {x} ELSE {})
           /\ Cardinality(S \cup IF more THEN {x} ELSE {}) \in Nat
           /\ Cardinality(S) \in Nat
           /\ Cardinality(S \cup IF more THEN {x} ELSE {}) <= Cardinality(S) + One(more)
<1> DEFINE T == S \cup IF more THEN {x} ELSE {}
<1>1. Cardinality(S) \in Nat /\ One(more) \in {0, 1}
  BY FS_CardinalityType DEF One
<1>2. CASE more /\ x \notin S
  <2>1. IsFiniteSet(S \cup {x}) /\ Cardinality(S \cup {x}) = Cardinality(S) + 1
    BY <1>2, FS_AddElement
  <2>2. One(more) = 1 /\ T = S \cup {x}
    BY <1>2 DEF One
  <2> HIDE DEF T
  <2>3. IsFiniteSet(T) /\ Cardinality(T) = Cardinality(S) + 1
    BY <2>1, <2>2
  <2>4. Cardinality(T) \in Nat /\ Cardinality(T) <= Cardinality(S) + One(more)
    BY <1>1, <2>2, <2>3
  <2> QED BY <1>1, <2>3, <2>4 DEF T
<1>3. CASE ~(more /\ x \notin S)
  <2>1. T = S
    BY <1>3
  <2> HIDE DEF T
  <2>2. IsFiniteSet(T) /\ Cardinality(T) \in Nat /\ Cardinality(T) <= Cardinality(S) + One(more)
    BY <1>1, <2>1
  <2> QED BY <1>1, <2>2 DEF T
<1> QED BY <1>2, <1>3

\* What is lost is a finite set of events.
LEMMA LostIsFinite ==
    ASSUME Typed
    PROVE  IsFiniteSet(Lost) /\ Cardinality(Lost) \in Nat
<1>1. Lost \subseteq 0 .. MaxEvents
  <2>1. Rows \subseteq Event /\ taken \in 0 .. MaxEvents
    BY RowsAreEvents DEF Typed, TypeOK
  <2>2. Event \subseteq 0 .. MaxEvents
    BY EventsHaveFields DEF Event
  <2>3. Lost \subseteq Rows \cup {taken}
    BY DEF Lost
  <2> QED BY <2>1, <2>2, <2>3
<1>2. IsFiniteSet(0 .. MaxEvents)
  BY EventsHaveFields, FS_Interval
<1> QED BY <1>1, <1>2, FS_Subset, FS_CardinalityType

\* A write loses no more than was at risk or is torn now.
LEMMA WritesAreAccounted ==
    ASSUME Typed, Typed', HandleIsTidy, DamageAccounted, Next, FileAction
    PROVE  DamageAccounted'
<1>1. PICK out, k, part : FileStep(out, k, part)
  BY FileActionsWrite
<1>2. Writes(out, k, part) /\ FileTyped(out) /\ tears \in Nat /\ taken' = taken
  BY <1>1, HandleTyped DEF FileStep
<1>3. /\ Gone \subseteq {cut[1]}
      /\ \A j \in 1 .. k : (j = 1 /\ Dead) \/ out[j] \in Range(Text')
      /\ tears' \in Nat
      /\ AtRisk' + One(Gone # {}) + One(k > 0 /\ Dead) + 2 * tears <= AtRisk + 2 * tears'
  BY <1>2, WriteLosesLittle
<1>4. Rows' \subseteq Rows
  <2>1. db' = db /\ view' \in {db, view}
    BY DEF FileAction, WriteLine, FlushFails, LineLost, TurnDay, TurnDayFails, Stop, tables
  <2> QED BY <2>1 DEF Rows
<1> DEFINE glued == k > 0 /\ Dead
           gone == Gone # {}
           first == Lost \cup IF gone THEN {cut[1]} ELSE {}
           both == first \cup IF glued THEN {taken} ELSE {}
<1>5. Lost' \subseteq both
  <2>1. Lost' = (Rows' \cup (IF stage' = "row" THEN {taken} ELSE {})) \ Range(Text')
    BY <1>2 DEF Lost
  <2>2. ASSUME NEW e \in Rows, e \notin Range(Text') PROVE e \in first
    <3>1. CASE e \in Range(Text)
      <4>1. e \in Gone
        BY <2>2, <3>1, RowsAreEvents DEF Gone
      <4> QED BY <1>3, <4>1
    <3>2. CASE e \notin Range(Text)
      BY <3>2 DEF Lost
    <3> QED BY <3>1, <3>2
  <2>3. ASSUME stage' = "row", taken \notin Range(Text') PROVE glued
    <3>1. stage = "line" /\ taken \in Event /\ out = Append(buffer, taken) /\ k = Len(out)
      BY <1>1, <2>3 DEF FileStep
    <3>2. k \in 1 .. k /\ out[k] = taken /\ k > 0
      <4>1. buffer \in Seq(Event)
        BY HandleTyped
      <4> QED BY <3>1, <4>1
    <3>3. Dead
      BY <1>3, <2>3, <3>2
    <3> QED BY <3>2, <3>3
  <2> HIDE DEF first, glued
  <2> QED BY <1>4, <2>1, <2>2, <2>3
<1>6. /\ IsFiniteSet(first) /\ Cardinality(first) \in Nat /\ Cardinality(Lost) \in Nat
      /\ Cardinality(first) <= Cardinality(Lost) + One(gone)
  <2>1. gone \in BOOLEAN /\ IsFiniteSet(Lost)
    BY LostIsFinite
  <2> HIDE DEF gone
  <2> QED BY <2>1, OneMore
<1>7. /\ IsFiniteSet(both) /\ Cardinality(both) \in Nat
      /\ Cardinality(both) <= Cardinality(first) + One(glued)
  <2>1. glued \in BOOLEAN
    BY DEF Dead
  <2> HIDE DEF glued, first
  <2> QED BY <1>6, <2>1, OneMore
<1>8. Cardinality(Lost') <= Cardinality(both) /\ Cardinality(Lost') \in Nat
  BY <1>5, <1>7, FS_Subset, FS_CardinalityType
<1>9. /\ AtRisk \in Nat /\ AtRisk' \in Nat /\ One(gone) \in Nat /\ One(glued) \in Nat
  BY DEF AtRisk, One
<1>10. Cardinality(Lost) + AtRisk <= 2 * tears
  BY DEF DamageAccounted
<1> DEFINE c == Cardinality(Lost)
           c1 == Cardinality(first)
           c2 == Cardinality(both)
           c3 == Cardinality(Lost')
           r == AtRisk
           s == AtRisk'
           g == One(gone)
           d == One(glued)
           m == 2 * tears
           n == 2 * tears'
<1>11. /\ c3 <= c2 /\ c2 <= c1 + d /\ c1 <= c + g /\ c + r <= m /\ s + g + d + m <= r + n
       /\ c \in Nat /\ c1 \in Nat /\ c2 \in Nat /\ c3 \in Nat /\ r \in Nat /\ s \in Nat
       /\ g \in Nat /\ d \in Nat /\ m \in Nat /\ n \in Nat
  <2>1. c3 <= c2 /\ c2 <= c1 + d /\ c1 <= c + g
    BY <1>6, <1>7, <1>8
  <2>2. c + r <= m
    BY <1>10
  <2>3. s + g + d + m <= r + n
    BY <1>3
  <2>4. c \in Nat /\ c1 \in Nat /\ c2 \in Nat /\ c3 \in Nat
    BY <1>6, <1>7, <1>8
  <2>5. r \in Nat /\ s \in Nat /\ g \in Nat /\ d \in Nat
    BY <1>9
  <2>6. m \in Nat /\ n \in Nat
    <3>1. tears \in Nat /\ tears' \in Nat
      BY <1>2, <1>3
    <3>2. \A x \in Nat : 2 * x \in Nat
      OBVIOUS
    <3> QED BY <3>1, <3>2
  <2> QED BY <2>1, <2>2, <2>3, <2>4, <2>5, <2>6
<1> HIDE DEF c, c1, c2, c3, r, s, g, d, m, n
<1>12. c3 + s <= n
  BY <1>11
<1> QED BY <1>12 DEF DamageAccounted, c3, s, n

\* The other steps lose nothing; a death puts its own cut line at risk.
LEMMA OthersAreAccounted ==
    ASSUME Typed, Typed', HandleIsTidy, DamageAccounted, Next, OtherAction
    PROVE  DamageAccounted'
<1>1. /\ lines' = lines /\ cut' = cut
      /\ \/ own' = own /\ buffer' = buffer /\ tears' = tears
         \/ own' = FALSE /\ buffer' = <<>> /\ tears' = tears + One(own)
      /\ \/ taken' = taken /\ (stage' = "row" => stage = "row")
         \/ stage' = "line"
  BY OtherActionsLeaveFile
<1>2. Text' = Text
  BY <1>1 DEF Text
<1>3. Lost' \subseteq Lost
  <2>1. Lost' = (Rows' \cup (IF stage' = "row" THEN {taken'} ELSE {})) \ Range(Text)
    BY <1>2 DEF Lost
  <2>2. stage' = "row" => stage = "row" /\ taken' = taken
    BY <1>1
  <2>3. CASE Rows' \subseteq Rows
    BY <2>1, <2>2, <2>3 DEF Lost
  <2>4. CASE (CommitEvent \/ StatementFails) /\ Rows' \subseteq Rows \cup {taken}
    <3>1. stage = "row"
      BY <2>4 DEF CommitEvent, StatementFails
    <3> QED BY <2>1, <2>2, <2>4, <3>1 DEF Lost
  <2>5. CASE ReplayLine /\ Rows' \subseteq Rows \cup {Text[pos + 1]}
    <3>1. pos < Len(Text) /\ Text \in Seq(Line) /\ pos \in Nat
      BY <2>5, PositionTyped DEF ReplayLine
    <3>2. pos + 1 \in DOMAIN Text
      BY <3>1
    <3>3. Text[pos + 1] \in Range(Text)
      BY <3>2 DEF Range
    <3> QED BY <2>1, <2>2, <2>5, <3>3 DEF Lost
  <2> QED BY <2>3, <2>4, <2>5, StepsAddOneRow
<1>4. /\ Cardinality(Lost') <= Cardinality(Lost) /\ Cardinality(Lost) \in Nat
      /\ Cardinality(Lost') \in Nat
  BY <1>3, LostIsFinite, FS_Subset, FS_CardinalityType
<1>5. Cardinality(Lost) + AtRisk <= 2 * tears /\ tears \in Nat
  BY HandleTyped DEF DamageAccounted
<1>6. \/ AtRisk' = AtRisk /\ tears' = tears
      \/ AtRisk' \in {0, 1, 2} /\ tears' = tears + 1 /\ AtRisk = 0
  <2>1. own \in BOOLEAN
    BY HandleTyped
  <2>2. CASE own' = own /\ tears' = tears
    <3>1. AtRisk' = AtRisk
      BY <1>1, <2>2 DEF AtRisk, Dead, One
    <3> QED BY <2>2, <3>1
  <2>3. CASE own' = FALSE /\ tears' = tears + One(own) /\ own
    <3>1. AtRisk = 0 /\ tears' = tears + 1
      BY <2>3 DEF AtRisk, Dead, One
    <3>2. AtRisk' \in {0, 1, 2}
      BY DEF AtRisk, One
    <3> QED BY <3>1, <3>2
  <2>4. CASE own' = FALSE /\ tears' = tears + One(own) /\ ~own
    <3>1. AtRisk' = AtRisk
      BY <1>1, <2>1, <2>4 DEF AtRisk, Dead
    <3>2. One(own) = 0
      BY <2>4 DEF One
    <3>3. tears' = tears
      BY <1>5, <2>4, <3>2
    <3> QED BY <3>1, <3>3
  <2> QED BY <1>1, <2>2, <2>3, <2>4
<1> DEFINE c == Cardinality(Lost)
           c3 == Cardinality(Lost')
           r == AtRisk
           s == AtRisk'
<1>7. c3 <= c /\ c \in Nat /\ c3 \in Nat /\ c + r <= 2 * tears /\ tears \in Nat /\ r \in Nat
  BY <1>4, <1>5 DEF AtRisk, One
<1>8. (s = r /\ tears' = tears) \/ (s \in {0, 1, 2} /\ tears' = tears + 1 /\ r = 0)
  BY <1>6
<1> HIDE DEF c, c3, r, s
<1>9. c3 + s <= 2 * tears'
  BY <1>7, <1>8
<1> QED BY <1>9 DEF DamageAccounted, c3, s

(***************************************************************************)
(* The theorems                                                            *)
(***************************************************************************)

\* The stores begin empty.
LEMMA InitInvariant ==
    Init => Invariant
<1>1. SUFFICES ASSUME Init PROVE Invariant
  OBVIOUS
<1>2. /\ stage = "down" /\ taken = 0 /\ lines = <<>> /\ cut = <<>> /\ own = FALSE /\ buffer = <<>>
      /\ db = EmptyTables /\ view = EmptyTables /\ conn = "none"
      /\ reindex = "off" /\ pos = 0 /\ rebuilds = 0 /\ shared = FALSE /\ tears = 0 /\ partial = 0
      /\ failures = 0 /\ boots = 0
  BY <1>1 DEF Init
<1>3. Typed
  <2>1. /\ 0 \in 0 .. MaxEvents /\ 0 \in 0 .. MaxFailures /\ 0 \in 0 .. MaxBoots
        /\ 0 \in 0 .. MaxRebuilds
    BY EventsHaveFields, BoundsAreNaturals
  <2>2. lines \in Seq(Line) /\ buffer \in Seq(Event) /\ cut \in AtMostOneLine
    BY <1>2 DEF AtMostOneLine
  <2>3. Text \in Seq(Line)
    BY <2>2, LinesOfText DEF Text
  <2>4. pos \in 0 .. Len(Text)
    BY <1>2, <2>3
  <2> QED BY <1>2, <2>1, <2>2, <2>4, EmptyTablesAreTables DEF Typed, TypeOK, AtMostOneLine
<1>4. HandleIsTidy
  BY <1>2 DEF HandleIsTidy
<1>5. FileIsInOrder
  <2>1. Len(<<>>) = 0
    OBVIOUS
  <2> QED BY <1>2, <2>1 DEF FileIsInOrder, InOrder, AllBelow
<1>6. Rows = {}
  BY <1>2 DEF Rows, EmptyTables, Range
<1>7. RowsAreEarlier
  BY <1>6 DEF RowsAreEarlier
<1>8. Rebuilt
  BY <1>2 DEF Rebuilt
<1>9. CountersAgree
  BY <1>2, EmptyTablesFollow DEF CountersAgree
<1>10. DamageAccounted
  <2>1. Lost = {}
    BY <1>2, <1>6 DEF Lost
  <2>2. AtRisk = 0 /\ tears = 0
    BY <1>2 DEF AtRisk, Dead
  <2>3. Cardinality({}) = 0
    BY FS_EmptySet
  <2> QED BY <2>1, <2>2, <2>3 DEF DamageAccounted
<1> QED BY <1>3, <1>4, <1>5, <1>7, <1>8, <1>9, <1>10 DEF Invariant

\* Every step keeps each part of the invariant.
LEMMA StepInvariant ==
    Invariant /\ [Next]_vars => Invariant'
<1>1. SUFFICES ASSUME Invariant, [Next]_vars PROVE Invariant'
  OBVIOUS
<1>2. CASE Next
  <2>1. /\ Typed /\ HandleIsTidy /\ FileIsInOrder /\ RowsAreEarlier
        /\ Rebuilt /\ CountersAgree /\ DamageAccounted
    BY <1>1 DEF Invariant
  <2>2. Typed'
    BY <1>2, <2>1, StepsKeepTyped
  <2>3. HandleIsTidy' /\ FileIsInOrder'
    BY <1>2, <2>1, StepsKeepFile
  <2>4. RowsAreEarlier'
    BY <1>2, <2>1, StepsKeepRowsEarlier
  <2>5. Rebuilt'
    BY <1>2, <2>1, StepsKeepRebuilt
  <2>6. CountersAgree'
    BY <1>2, <2>1, StepsKeepCounters
  <2>7. DamageAccounted'
    BY <1>2, <2>1, <2>2, NextIsOneOf, WritesAreAccounted, OthersAreAccounted
  <2> QED BY <2>2, <2>3, <2>4, <2>5, <2>6, <2>7 DEF Invariant
<1>3. CASE UNCHANGED vars
  <2>1. UNCHANGED <<stage, taken, lines, cut, own, buffer, db, view, conn, reindex, pos,
                    rebuilds, shared, tears, partial, failures, boots>>
    BY <1>3 DEF vars, file, tables, replay, bounds
  <2>2. Text' = Text /\ Rows' = Rows
    BY <2>1 DEF Text, Rows
  <2>3. Typed' /\ HandleIsTidy' /\ FileIsInOrder'
    BY <1>1, <2>1, <2>2 DEF Invariant, Typed, TypeOK, HandleIsTidy, FileIsInOrder
  <2>4. RowsAreEarlier' /\ Rebuilt' /\ CountersAgree'
    BY <1>1, <2>1, <2>2 DEF Invariant, RowsAreEarlier, Rebuilt, CountersAgree
  <2>5. Lost' = Lost /\ AtRisk' = AtRisk
    BY <2>1, <2>2 DEF Lost, AtRisk, Dead, One
  <2>6. DamageAccounted'
    BY <1>1, <2>1, <2>5 DEF Invariant, DamageAccounted
  <2> QED BY <2>3, <2>4, <2>6 DEF Invariant
<1> QED BY <1>1, <1>2, <1>3

\* The inductive invariant holds in every reachable state.
THEOREM InvariantHolds == Spec => []Invariant
<1> QED BY InitInvariant, StepInvariant, PTL DEF Spec

\* The state is always one of those that the model describes: in particular a
\* connection that has written nothing shows the committed tables, and the
\* rebuild never reads past the end of a file that only grows.
THEOREM TypeCorrect == Spec => []TypeOK
<1>1. Invariant => TypeOK
  BY DEF Invariant, Typed
<1> QED BY <1>1, InvariantHolds, PTL

\* While the service is down, a rebuild leaves exactly what the lines it has read
\* determine, all of them when it ends and the first ones when it is killed
\* (reindex.py: clear_analytics, then write_event for each line).
THEOREM RebuildsAreExact == Spec => []RebuildIsExact
<1>1. Invariant => RebuildIsExact
  BY DEF Invariant, Rebuilt, RebuildIsExact
<1> QED BY <1>1, InvariantHolds, PTL

\* Without a rebuild beside the service, no counter is ahead of the rows it
\* counts, or behind by more than the write_event calls that raised.
THEOREM CountersFollowTheRows == Spec => []CountersFollowRows
<1>1. Invariant => CountersFollowRows
  BY DEF Invariant, CountersAgree, CountersFollowRows
<1> QED BY <1>1, InvariantHolds, PTL

\* Each cut line that nothing completes costs at most two events that a row
\* still shows.
THEOREM DamageStaysBounded == Spec => []DamageIsBounded
<1>1. Invariant => DamageIsBounded
  <2>1. SUFFICES ASSUME Invariant PROVE DamageIsBounded
    OBVIOUS
  <2> DEFINE missing == Range(db.events) \ Range(Text)
  <2>2. missing \subseteq Lost
    BY DEF Lost, Rows
  <2>3. IsFiniteSet(Lost) /\ Cardinality(Lost) \in Nat
    BY <2>1, LostIsFinite DEF Invariant
  <2>4. Cardinality(missing) <= Cardinality(Lost) /\ Cardinality(missing) \in Nat
    BY <2>2, <2>3, FS_Subset, FS_CardinalityType
  <2>5. Cardinality(Lost) + AtRisk <= 2 * tears /\ AtRisk \in Nat
    BY <2>1 DEF Invariant, DamageAccounted, AtRisk, One
  <2>6. tears \in Nat
    BY <2>1 DEF Invariant, Typed, TypeOK
  <2>7. Cardinality(missing) <= 2 * tears
    <3> DEFINE m == Cardinality(missing)
               c == Cardinality(Lost)
               r == AtRisk
               n == 2 * tears
    <3>1. m <= c /\ m \in Nat /\ c \in Nat
      BY <2>3, <2>4
    <3>2. c + r <= n /\ r \in Nat
      BY <2>5
    <3>3. n \in Nat
      <4>1. \A x \in Nat : 2 * x \in Nat
        OBVIOUS
      <4> QED BY <2>6, <4>1
    <3> HIDE DEF m, c, r, n
    <3>4. m <= n
      BY <3>1, <3>2, <3>3
    <3> QED BY <3>4 DEF m, n
  <2> QED BY <2>7 DEF DamageIsBounded
<1> QED BY <1>1, InvariantHolds, PTL
=============================================================================
