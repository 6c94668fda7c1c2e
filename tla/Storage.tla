------------------------------ MODULE Storage ------------------------------
(***************************************************************************)
(* The two stores byte for byte enough to be damaged: the JSONL file whose *)
(* last line can be cut (sink/jsonl.py), the tables that write_event fills *)
(* statement by statement on a connection that never rolls back            *)
(* (sink/sqlite_store.py), and `honeypot reindex`, another process that    *)
(* clears the tables and replays the file (reindex.py), beside a running   *)
(* service or not.  EventPipeline has the queue and the worker in detail;  *)
(* here the worker only takes the next event.                              *)
(*                                                                         *)
(* A line is the event it holds, or Garbled (whole characters, not JSON:   *)
(* skipped) or Broken (not UTF-8: reading it raises outside the try that   *)
(* skips lines).                                                           *)
(***************************************************************************)
EXTENDS Analytics, FiniteSets

CONSTANTS
    MaxBoots,       \* bound: starts of the service
    MaxRebuilds,    \* bound: reindex commands
    MaxFailures     \* bound: writes that fail

ASSUME BoundsAreNaturals ==
    MaxBoots \in Nat /\ MaxRebuilds \in Nat /\ MaxFailures \in Nat

Garbled == 0
Broken == MaxEvents + 1
Line == 0 .. MaxEvents + 1

VARIABLES
    stage,      \* the service: down, idle, or where _persist is
    taken,      \* events the worker has taken; the last one is in its hand
    lines,      \* the whole lines of the day files, oldest first
    cut,        \* at most one line without newline, as a reader would see it
    own,        \* the rest of the cut line is the first in `buffer`
    buffer,     \* lines the file handle still holds after a failed flush
    db,         \* the committed tables
    view,       \* the tables as the service's connection has changed them
    conn,       \* its transaction: none, begun, reading, stale, writing
    reindex,    \* the other process: off, replay, done, dead
    pos,        \* lines it has read
    shared,     \* history: the service was up during the last rebuild
    tears,      \* history: cut lines whose rest is lost
    partial,    \* history: write_event calls that raised since the last clear
    failures, boots, rebuilds

file == <<lines, cut, own, buffer>>
tables == <<db, view, conn>>
replay == <<reindex, pos, rebuilds>>
bounds == <<failures, boots>>
vars == <<stage, taken, file, tables, replay, shared, tears, partial, bounds>>

Init ==
    /\ stage = "down" /\ taken = 0
    /\ lines = <<>> /\ cut = <<>> /\ own = FALSE /\ buffer = <<>>
    /\ db = EmptyTables /\ view = EmptyTables /\ conn = "none"
    /\ reindex = "off" /\ pos = 0 /\ rebuilds = 0
    /\ shared = FALSE /\ tears = 0 /\ partial = 0
    /\ failures = 0 /\ boots = 0

(***************************************************************************)
(* The JSONL file                                                          *)
(***************************************************************************)

\* What the first line of the buffer becomes if it is written after a fragment
\* that nothing completes (a dead process's, or of a line too large to buffer).
Glued == IF cut = <<Broken>> THEN Broken ELSE Garbled

\* The lines that end when the first k lines of `out` reach the file.
Completed(out, k) ==
    IF k = 0 \/ cut = <<>> \/ own THEN SubSeq(out, 1, k)
                                  ELSE <<Glued>> \o SubSeq(out, 2, k)

\* What can be in the file of the line after the first k of `out`: nothing
\* more, all but its newline, or it is cut between or inside characters.
Fragments(out, k) ==
    IF k > 0 \/ cut = <<>>      THEN {<<>>, <<out[k + 1]>>, <<Garbled>>, <<Broken>>}
    ELSE IF ~own                THEN {cut, <<Glued>>, <<Broken>>}
    ELSE IF cut = <<out[1]>>    THEN {cut}
    ELSE {<<out[1]>>, <<Garbled>>, <<Broken>>}

\* Mutant of FlushAll: the handle still takes the last line for a cut one.
BugOwnForever(out) ==
    /\ lines' = lines \o Completed(out, Len(out))
    /\ cut' = <<>> /\ own' = own /\ buffer' = <<>>

FlushAll(out) ==
    /\ lines' = lines \o Completed(out, Len(out))
    /\ cut' = <<>> /\ own' = FALSE /\ buffer' = <<>>

\* A flush or a close that raises with k lines out and a part of the next.
FlushSome(out, k, part) ==
    /\ part \in Fragments(out, k)
    /\ lines' = lines \o Completed(out, k)
    /\ cut' = part
    /\ own' = (part # <<>> /\ (k > 0 \/ cut = <<>> \/ own))
    /\ buffer' = SubSeq(out, k + 1, Len(out))

\* The handle is closed with k lines of its buffer out and a part of the next;
\* what is left unfinished stays the last line of that file.
EndFile(k, part) ==
    /\ IF k = Len(buffer) THEN part = IF buffer = <<>> THEN cut ELSE <<>>
                          ELSE part \in Fragments(buffer, k)
    /\ lines' = lines \o Completed(buffer, k) \o part
    /\ cut' = <<>> /\ own' = FALSE /\ buffer' = <<>>
    /\ tears' = tears + One(k < Len(buffer) /\ part # <<>>
                            /\ (k > 0 \/ cut = <<>> \/ own))

(***************************************************************************)
(* The service: boot, death, and the worker's _persist                     *)
(***************************************************************************)
up == stage # "down"
hand == taken

\* A new connection; a rebuild that is over is no longer the last word.
Boot ==
    /\ stage = "down" /\ boots < MaxBoots
    /\ stage' = "idle" /\ boots' = boots + 1
    /\ shared' = (shared \/ reindex = "replay")
    /\ reindex' = IF reindex = "replay" THEN reindex ELSE "off"
    /\ UNCHANGED <<taken, file, tables, pos, rebuilds, tears, partial, failures>>

\* What the handle buffers and what the connection has open are lost.
Crash ==
    /\ up /\ stage' = "down"
    /\ own' = FALSE /\ buffer' = <<>> /\ tears' = tears + One(own)
    /\ view' = db /\ conn' = "none"
    /\ UNCHANGED <<taken, lines, cut, db, replay, shared, partial, bounds>>

\* jsonl.close() and store.close(): the flush may raise half-way.  With an empty
\* buffer it is a death that loses nothing.
Stop ==
    /\ stage = "idle" /\ buffer # <<>> /\ stage' = "down"
    /\ \/ FlushAll(buffer) /\ UNCHANGED tears
       \/ \E k \in 0 .. Len(buffer) - 1 : \E part \in Fragments(buffer, k) :
            /\ lines' = lines \o Completed(buffer, k)
            /\ cut' = part /\ own' = FALSE /\ buffer' = <<>>
            /\ tears' = tears + One(part # <<>> /\ (k > 0 \/ cut = <<>> \/ own))
    /\ view' = db /\ conn' = "none"
    /\ UNCHANGED <<taken, db, replay, shared, partial, bounds>>

Take ==
    /\ stage = "idle" /\ taken < MaxEvents
    /\ stage' = "line" /\ taken' = taken + 1
    /\ UNCHANGED <<file, tables, replay, shared, tears, partial, bounds>>

\* Any exception of _persist: the worker goes on with the next event.
Raises == stage' = "idle" /\ failures < MaxFailures /\ failures' = failures + 1

WriteLine ==
    /\ stage = "line" /\ stage' = "row"
    /\ FlushAll(Append(buffer, hand))
    /\ UNCHANGED <<taken, tables, replay, shared, tears, partial, bounds>>

\* Mutant of FlushFails: write() swallows the OSError.
BugErrorSwallowed ==
    /\ stage = "line" /\ stage' = "row"
    /\ failures < MaxFailures /\ failures' = failures + 1
    /\ LET out == Append(buffer, hand) IN
       \E k \in 0 .. Len(buffer) : \E part \in Fragments(out, k) :
          FlushSome(out, k, part)
    /\ UNCHANGED <<taken, tables, replay, shared, tears, partial, boots>>

FlushFails ==
    /\ stage = "line"
    /\ LET out == Append(buffer, hand) IN
       \E k \in 0 .. Len(buffer) : \E part \in Fragments(out, k) :
          FlushSome(out, k, part)
    /\ Raises
    /\ UNCHANGED <<taken, tables, replay, shared, tears, partial, boots>>

\* The buffer has no room for the line.  Flushing it raises: the line is dropped
\* and the older ones that are not out stay.  Or it is flushed, and a line larger
\* than the buffer, written through, gets out in part: nothing completes it.
LineLost ==
    /\ stage = "line"
    /\ \/ /\ \E k \in 0 .. Len(buffer) - 1 : \E part \in Fragments(buffer, k) :
                FlushSome(buffer, k, part)
          /\ UNCHANGED tears
       \/ \E part \in Fragments(Append(buffer, hand), Len(buffer)) :
             /\ lines' = lines \o Completed(buffer, Len(buffer))
             /\ cut' = part /\ own' = FALSE /\ buffer' = <<>>
             /\ tears' = tears + One(part # <<>> /\ (buffer # <<>> \/ cut = <<>>))
    /\ Raises
    /\ UNCHANGED <<taken, tables, replay, shared, partial, boots>>

\* _ensure_file on a new UTC day: the old handle closes, the next file is empty.
TurnDay ==
    /\ stage = "line" /\ (buffer # <<>> \/ cut # <<>>)
    /\ \E part \in {<<>>, cut} : EndFile(Len(buffer), part)
    /\ UNCHANGED <<stage, taken, tables, replay, shared, partial, bounds>>

\* The old handle does not close cleanly, or the new file does not open.
TurnDayFails ==
    /\ stage = "line"
    /\ \E k \in 0 .. Len(buffer) :
         \E part \in IF k = Len(buffer) THEN {<<>>, cut} ELSE Fragments(buffer, k) :
            EndFile(k, part)
    /\ Raises
    /\ UNCHANGED <<taken, tables, replay, shared, partial, boots>>

\* Mutant of CommitEvent: the counters are bumped again when a busy commit is
\* retried.
BugRetryBumps ==
    /\ stage = "row" /\ conn # "stale" /\ stage' = "idle"
    /\ db' = BumpDaily(WriteEvent(view, hand), hand)
    /\ view' = db' /\ conn' = "none"
    /\ UNCHANGED <<taken, file, replay, shared, tears, partial, bounds>>

\* write_event commits, with all that the connection had left open.
CommitEvent ==
    /\ stage = "row" /\ conn # "stale" /\ stage' = "idle"
    /\ db' = WriteEvent(view, hand)
    /\ view' = db' /\ conn' = "none"
    /\ UNCHANGED <<taken, file, replay, shared, tears, partial, bounds>>

\* A statement or the commit raises after k statements, and nothing rolls back
\* (k = 0: perhaps another process held the lock for five seconds; Python has
\* begun a transaction all the same), or SQLite itself undoes everything.
StatementFails ==
    /\ stage = "row" /\ conn # "stale"
    /\ \/ \E k \in 0 .. 4 :
            /\ view' = AfterStatements(k, view, hand)
            /\ conn' = IF k > 0 THEN "writing" ELSE IF conn = "none" THEN "begun" ELSE conn
       \/ view' = db /\ conn' = "none"
    /\ Raises /\ partial' = partial + 1
    /\ UNCHANGED <<taken, file, db, replay, shared, tears, boots>>

\* SQLITE_BUSY_SNAPSHOT: the open transaction reads tables that another process
\* has changed since, so it can never write, and nothing ends it.
SnapshotFails ==
    /\ stage = "row" /\ conn = "stale" /\ stage' = "idle"
    /\ partial' = partial + 1
    /\ UNCHANGED <<taken, file, tables, replay, shared, tears, bounds>>

\* A page reads inside the transaction that a failed write left open.
Query ==
    /\ up /\ conn = "begun" /\ conn' = "reading"
    /\ UNCHANGED <<stage, taken, file, db, view, replay, shared, tears, partial, bounds>>

\* Another method of the store commits; in a stale transaction it would raise.
OtherCommit ==
    /\ up /\ conn \in {"begun", "reading", "writing"}
    /\ db' = view /\ conn' = "none"
    /\ UNCHANGED <<stage, taken, file, view, replay, shared, tears, partial, bounds>>

(***************************************************************************)
(* honeypot reindex: a process with a connection of its own                *)
(***************************************************************************)

Text == lines \o cut

\* What a commit of the other process does to the service's connection.
RivalCommit(newTables) ==
    /\ conn # "writing"       \* else the lock is taken, and reindex raises
    /\ db' = newTables /\ view' = newTables
    /\ conn' = IF conn = "reading" THEN "stale" ELSE conn

\* Mutant of StartRebuild: clear_analytics leaves the daily counters.
BugClearKeepsDaily ==
    /\ reindex # "replay" /\ rebuilds < MaxRebuilds
    /\ RivalCommit([EmptyTables EXCEPT !.daily = db.daily])
    /\ reindex' = "replay" /\ pos' = 0 /\ rebuilds' = rebuilds + 1
    /\ shared' = up /\ partial' = 0
    /\ UNCHANGED <<stage, taken, file, tears, bounds>>

\* clear_analytics: the four tables in one transaction.
StartRebuild ==
    /\ reindex # "replay" /\ rebuilds < MaxRebuilds
    /\ RivalCommit(EmptyTables)
    /\ reindex' = "replay" /\ pos' = 0 /\ rebuilds' = rebuilds + 1
    /\ shared' = up /\ partial' = 0
    /\ UNCHANGED <<stage, taken, file, tears, bounds>>

ReplayLine ==
    /\ reindex = "replay" /\ pos < Len(Text) /\ Text[pos + 1] \in Event
    /\ RivalCommit(WriteEvent(db, Text[pos + 1]))
    /\ pos' = pos + 1
    /\ UNCHANGED <<stage, taken, file, reindex, rebuilds, shared, tears, partial, bounds>>

\* The warning "skip bad jsonl"; a Broken line has no such step.
SkipLine ==
    /\ reindex = "replay" /\ pos < Len(Text) /\ Text[pos + 1] = Garbled
    /\ pos' = pos + 1
    /\ UNCHANGED <<stage, taken, file, tables, reindex, rebuilds, shared, tears,
                   partial, bounds>>

EndRebuild ==
    /\ reindex = "replay" /\ pos = Len(Text) /\ reindex' = "done"
    /\ UNCHANGED <<stage, taken, file, tables, pos, rebuilds, shared, tears, partial,
                   bounds>>

\* Killed, locked out for five seconds, or a line that cannot be decoded: the
\* lines replayed so far stay committed.
RebuildDies ==
    /\ reindex = "replay" /\ reindex' = "dead"
    /\ UNCHANGED <<stage, taken, file, tables, pos, rebuilds, shared, tears, partial,
                   bounds>>

Persist ==
    \/ WriteLine \/ FlushFails \/ LineLost
    \/ TurnDay \/ TurnDayFails
    \/ CommitEvent \/ StatementFails \/ SnapshotFails

Rebuild == StartRebuild \/ ReplayLine \/ SkipLine \/ EndRebuild \/ RebuildDies

Next ==
    \/ Boot \/ Crash \/ Stop
    \/ Take \/ Persist
    \/ Query \/ OtherCommit
    \/ Rebuild

Spec == Init /\ [][Next]_vars

(***************************************************************************)
(* Properties                                                              *)
(***************************************************************************)

\* While the service is down, a rebuild leaves exactly the tables that the lines
\* it has read determine, whatever was in them: abandoned halves of write_event,
\* rows whose lines were damaged.  One that ends has read every line; one that a
\* Broken line or anything else kills leaves the tables of the lines read before
\* that, and nothing of what the tables held comes back.
RebuildIsExact ==
    reindex # "off" /\ ~shared =>
        /\ db = Projection(SubSeq(Text, 1, pos))
        /\ reindex = "done" => pos = Len(Text)

\* The rows of an events table whose event is one of a set.
RowsOf(t, S) == Cardinality({i \in DOMAIN t.events : t.events[i] \in S})

Logins(c) == {e \in Event : HasCredential(e) /\ Credential[e] = c}
Connects(i) == {e \in Event : Type[e] = "connect" /\ SrcIp[e] = i}
Auths(i) == {e \in Event : Type[e] = "auth" /\ SrcIp[e] = i}
DailyAuths(k) == {e \in Event : Type[e] = "auth" /\ <<DayOf[e], DstPort[e]>> = k}

Follows(counter, rows, lag) == counter <= rows /\ rows <= counter + lag

CountersFollow(t, lag) ==
    /\ \A c \in Cred : Follows(t.credentials[c].hits, RowsOf(t, Logins(c)), lag)
    /\ \A i \in Ip : /\ Follows(t.sources[i].conns, RowsOf(t, Connects(i)), lag)
                     /\ Follows(t.sources[i].auths, RowsOf(t, Auths(i)), lag)
    /\ \A k \in Day \X Port :
          Follows(t.daily[k].auths, RowsOf(t, DailyAuths(k)), lag)

\* As long as no rebuild ran beside the service, no counter is ahead of the
\* rows of the events table, and it is behind by no more than the write_event
\* calls that raised: half transactions do not add up to anything else.
CountersFollowRows == ~shared => CountersFollow(db, partial)

\* Rows whose event can no longer be read from the files: each cut line that
\* nothing completes costs at most its own event and the one glued to it.
DamageIsBounded ==
    Cardinality(Range(db.events) \ Range(Text)) <= 2 * tears

TypeOK ==
    /\ stage \in {"down", "idle", "line", "row"}
    /\ taken \in 0 .. MaxEvents
    /\ lines \in Seq(Line)
    /\ cut \in {<<>>} \cup {<<line>> : line \in Line}
    /\ own \in BOOLEAN
    /\ buffer \in Seq(Event)
    /\ own => cut # <<>> /\ buffer # <<>>
    /\ conn \in {"none", "begun", "reading", "stale", "writing"}
    /\ conn # "writing" => view = db
    /\ stage = "down" => conn = "none" /\ buffer = <<>>
    /\ reindex \in {"off", "replay", "done", "dead"}
    /\ pos \in 0 .. Len(Text)
    /\ shared \in BOOLEAN
    /\ tears \in Nat /\ partial \in Nat
    /\ failures \in 0 .. MaxFailures
    /\ boots \in 0 .. MaxBoots
    /\ rebuilds \in 0 .. MaxRebuilds
=============================================================================
