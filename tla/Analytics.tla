----------------------------- MODULE Analytics -----------------------------
(***************************************************************************)
(* The event-derived tables of SQLite as a value, and the statements of    *)
(* SqliteStore.write_event (sink/sqlite_store.py) as functions on it.  No  *)
(* state: Storage says which process applies which statement when.         *)
(*                                                                         *)
(* An event is its number of emission, which also stands for its ts and    *)
(* its event_id.  A source or a credential with first = 0 has no row yet.  *)
(* The counters per protocol have the shape of the counters per port and   *)
(* are left out.                                                           *)
(***************************************************************************)
EXTENDS Naturals, Sequences, SequencesExt

CONSTANTS
    MaxEvents,      \* bound: events of a behaviour
    Ip, Port, Day,  \* source addresses, listening ports, UTC days
    Cred, NoCred,   \* (username, password) pairs; neither of the two was sent
    Type, SrcIp, DstPort, DayOf, Credential   \* the fields of each event

Event == 1 .. MaxEvents

ASSUME EventsHaveFields ==
    /\ MaxEvents \in Nat
    /\ NoCred \notin Cred
    /\ Type \in [Event -> {"connect", "auth", "other"}]
    /\ SrcIp \in [Event -> Ip]
    /\ DstPort \in [Event -> Port]
    /\ DayOf \in [Event -> Day]
    /\ Credential \in [Event -> Cred \cup {NoCred}]

NoCounts == [p \in Port |-> 0]

EmptyTables == [
    events      |-> <<>>,
    sources     |-> [i \in Ip |-> [first |-> 0, last |-> 0, conns |-> 0, auths |-> 0,
                                   ports |-> NoCounts, cred |-> NoCred]],
    credentials |-> [c \in Cred |-> [first |-> 0, last |-> 0, hits |-> 0,
                                     ports |-> NoCounts, ips |-> [i \in Ip |-> 0]]],
    daily       |-> [k \in Day \X Port |-> [connects |-> 0, auths |-> 0]]]

One(condition) == IF condition THEN 1 ELSE 0

Earliest(first, e) == IF first = 0 THEN e ELSE first

\* _json_counter_bump
Bumped(counts, key) == [counts EXCEPT ![key] = @ + 1]

\* INSERT OR IGNORE: event_id is unique.
InsertEvent(db, e) ==
    IF e \in Range(db.events) THEN db
                              ELSE [db EXCEPT !.events = Append(@, e)]

UpsertSource(db, e) ==
    [db EXCEPT !.sources[SrcIp[e]] =
        [first |-> Earliest(@.first, e),
         last  |-> e,
         conns |-> @.conns + One(Type[e] = "connect"),
         auths |-> @.auths + One(Type[e] = "auth"),
         ports |-> Bumped(@.ports, DstPort[e]),
         cred  |-> IF Type[e] = "auth" THEN Credential[e] ELSE @.cred]]

\* An auth event with a username or a password.
HasCredential(e) == Type[e] = "auth" /\ Credential[e] # NoCred

UpsertCredential(db, e) ==
    IF ~HasCredential(e) THEN db
    ELSE [db EXCEPT !.credentials[Credential[e]] =
        [first |-> Earliest(@.first, e),
         last  |-> e,
         hits  |-> @.hits + 1,
         ports |-> Bumped(@.ports, DstPort[e]),
         ips   |-> Bumped(@.ips, SrcIp[e])]]

BumpDaily(db, e) ==
    [db EXCEPT !.daily[<<DayOf[e], DstPort[e]>>] =
        [connects |-> @.connects + One(Type[e] = "connect"),
         auths    |-> @.auths + One(Type[e] = "auth")]]

\* The tables after the first k of the four statements, in their order.
AfterStatements(k, db, e) ==
    LET inserted == InsertEvent(db, e)
        sourced  == UpsertSource(inserted, e)
        credited == UpsertCredential(sourced, e)
    IN <<db, inserted, sourced, credited, BumpDaily(credited, e)>>[k + 1]

WriteEvent(db, e) == AfterStatements(4, db, e)

\* What the tables should be, given the lines of the files in their order: a
\* line that holds no event adds nothing.
Projection(text) ==
    LET after[n \in 0 .. Len(text)] ==
            IF n = 0 THEN EmptyTables
            ELSE IF text[n] \in Event THEN WriteEvent(after[n - 1], text[n])
            ELSE after[n - 1]
    IN after[Len(text)]
=============================================================================
