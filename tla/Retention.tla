----------------------------- MODULE Retention -----------------------------
(***************************************************************************)
(* The maintenance loop (cli.py, ops.py): rows and day files are purged on *)
(* horizons of their own, by cutoffs taken from the clock at different     *)
(* moments, while the worker's thread writes, the clock passes midnight,   *)
(* and a rebuild (reindex.py) may be clearing and replaying the same data. *)
(* A pass that raises is logged and the next one comes.                    *)
(*                                                                         *)
(* Time is counted in ticks, several to a second; a day file carries the   *)
(* day on which its lines were written, which may be after the day of the  *)
(* events' ts.  The clock does not go back.                                *)
(***************************************************************************)
EXTENDS Integers, Sequences, FiniteSets

CONSTANTS
    TicksPerSecond, TicksPerDay,
    EventDays, FileDays,    \* events_retention_days, jsonl_retention_days; 0: keep
    MaxTime,                \* bound: ticks
    MaxEvents,              \* bound: events emitted
    MaxRebuilds,            \* bound: reindex commands
    MaxFailures             \* bound: passes that fail

ASSUME ClockIsSane ==
    /\ TicksPerSecond \in Nat /\ TicksPerSecond > 0
    /\ TicksPerDay \in Nat /\ TicksPerDay > 0
    /\ TicksPerDay % TicksPerSecond = 0
    /\ MaxTime \in Nat /\ MaxEvents \in Nat /\ MaxRebuilds \in Nat /\ MaxFailures \in Nat

\* As the defaults are (90 and 180 days): lines are kept no less long than rows,
\* so that a rebuild can bring back what the table shows.
ASSUME LinesOutliveRows ==
    /\ EventDays \in Nat /\ FileDays \in Nat
    /\ FileDays = 0 \/ (EventDays > 0 /\ EventDays <= FileDays)

Event == 1 .. MaxEvents
DayAt(t) == t \div TicksPerDay
SecondAt(t) == t \div TicksPerSecond
Days == 0 .. DayAt(MaxTime)
Never == -1

VARIABLES
    now,
    ts,         \* the time of each event emitted so far
    lineDay,    \* the file of each event that has a line, in the same order
    stored,     \* events the worker is done with
    files,      \* the day files that exist
    rows,       \* the events table
    pass,       \* where the maintenance loop is
    cutoff,     \* the day before which this pass unlinks files
    rebuild,    \* the reindex process: off, cleared, replay
    todo,       \* day files it has listed and not read
    intact,     \* history: the last rebuild, if any, has ended without error
    rebuilds, failures

data == <<ts, lineDay, stored, files, rows>>
loop == <<pass, cutoff>>
other == <<rebuild, todo, rebuilds, intact>>
vars == <<now, data, loop, other, failures>>

Init ==
    /\ now = 0 /\ ts = <<>> /\ lineDay = <<>> /\ stored = 0
    /\ files = {} /\ rows = {}
    /\ pass = "sleep" /\ cutoff = Never
    /\ rebuild = "off" /\ todo = {} /\ rebuilds = 0 /\ intact = TRUE
    /\ failures = 0

Tick ==
    /\ now < MaxTime /\ now' = now + 1
    /\ UNCHANGED <<data, loop, other, failures>>

(***************************************************************************)
(* The writer                                                              *)
(***************************************************************************)

\* HoneypotEvent.create takes the time; the event waits in the queue.
Emit ==
    /\ Len(ts) < MaxEvents
    /\ ts' = Append(ts, now)
    /\ UNCHANGED <<now, lineDay, stored, files, rows, loop, other, failures>>

\* JsonlSink.write: into the file of the day on which it runs.
WriteLine ==
    /\ stored = Len(lineDay) /\ Len(lineDay) < Len(ts)
    /\ lineDay' = Append(lineDay, DayAt(now))
    /\ files' = files \cup {DayAt(now)}
    /\ UNCHANGED <<now, ts, stored, rows, loop, other, failures>>

WriteRow ==
    /\ stored < Len(lineDay) /\ stored' = Len(lineDay)
    /\ rows' = rows \cup {stored'}
    /\ UNCHANGED <<now, ts, lineDay, files, loop, other, failures>>

(***************************************************************************)
(* The maintenance loop                                                    *)
(***************************************************************************)

\* The cutoff has whole seconds and a Z, ts has milliseconds, and they are
\* compared as strings: '.' sorts before 'Z', so the rows of the cutoff's own
\* second are before it.
BeforeCutoff(e, t) ==
    EventDays > 0 /\ SecondAt(ts[e]) <= SecondAt(t - EventDays * TicksPerDay)

\* purge_old_events, the first half of run_retention.
PurgeRows ==
    /\ pass = "sleep" /\ pass' = "files"
    /\ rows' = {e \in rows : ~BeforeCutoff(e, now)}
    /\ UNCHANGED <<now, ts, lineDay, stored, files, cutoff, other, failures>>

\* purge_old_jsonl reads the clock again.
ListFiles ==
    /\ pass = "files" /\ pass' = "unlink"
    /\ cutoff' = IF FileDays = 0 THEN Never ELSE DayAt(now) - FileDays
    /\ UNCHANGED <<now, data, other, failures>>

\* Mutant of OldFile: the day of the cutoff too.
BugInclusiveCutoff(d) == d <= cutoff

OldFile(d) == d < cutoff

Unlink ==
    /\ pass = "unlink"
    /\ \E d \in files : OldFile(d) /\ files' = files \ {d}
    /\ UNCHANGED <<now, ts, lineDay, stored, rows, loop, other, failures>>

FilesPurged ==
    /\ pass = "unlink" /\ ~\E d \in files : OldFile(d)
    /\ pass' = "sleep" /\ cutoff' = Never
    /\ UNCHANGED <<now, data, other, failures>>

\* Mutant of PassRaises: the exception ends the loop.
BugLoopEnds ==
    /\ pass \notin {"sleep", "dead"} /\ pass' = "dead"
    /\ failures < MaxFailures /\ failures' = failures + 1
    /\ cutoff' = Never
    /\ UNCHANGED <<now, data, other>>

\* `except Exception` around a pass, wherever it is: on to the next sleep.
PassRaises ==
    /\ pass # "sleep" /\ pass' = "sleep"
    /\ failures < MaxFailures /\ failures' = failures + 1
    /\ cutoff' = Never
    /\ UNCHANGED <<now, data, other>>

Maintain ==
    \/ PurgeRows \/ ListFiles \/ Unlink \/ FilesPurged

(***************************************************************************)
(* honeypot reindex, with the events table alone                           *)
(***************************************************************************)

Lines(d) == {e \in DOMAIN lineDay : lineDay[e] = d}

ClearRows ==
    /\ rebuild = "off" /\ rebuilds < MaxRebuilds
    /\ rebuild' = "cleared" /\ rebuilds' = rebuilds + 1 /\ intact' = FALSE
    /\ rows' = {}
    /\ UNCHANGED <<now, ts, lineDay, stored, files, loop, todo, failures>>

\* sorted(raw_dir.glob(...)): the list is taken once.
ListDays ==
    /\ rebuild = "cleared" /\ rebuild' = "replay" /\ todo' = files
    /\ UNCHANGED <<now, data, loop, rebuilds, intact, failures>>

FirstDay == CHOOSE d \in todo : \A later \in todo : d <= later

\* The oldest file left on the list is opened and read.
ReplayDay ==
    /\ rebuild = "replay" /\ todo # {} /\ FirstDay \in files
    /\ rows' = rows \cup Lines(FirstDay)
    /\ todo' = todo \ {FirstDay}
    /\ UNCHANGED <<now, ts, lineDay, stored, files, loop, rebuild, rebuilds, intact, failures>>

\* Mutant of ReplayDies: the next rebuild goes on with the old list.
BugListKept ==
    /\ rebuild = "replay" /\ todo # {} /\ FirstDay \notin files
    /\ rebuild' = "off"
    /\ UNCHANGED <<now, data, loop, todo, rebuilds, intact, failures>>

\* Maintenance has unlinked the file since it was listed: FileNotFoundError.
ReplayDies ==
    /\ rebuild = "replay" /\ todo # {} /\ FirstDay \notin files
    /\ rebuild' = "off" /\ todo' = {}
    /\ UNCHANGED <<now, data, loop, rebuilds, intact, failures>>

ReplayEnds ==
    /\ rebuild = "replay" /\ todo = {}
    /\ rebuild' = "off" /\ intact' = TRUE
    /\ UNCHANGED <<now, data, loop, todo, rebuilds, failures>>

Rebuild == ClearRows \/ ListDays \/ ReplayDay \/ ReplayDies \/ ReplayEnds

Next ==
    \/ Tick
    \/ Emit \/ WriteLine \/ WriteRow
    \/ Maintain \/ PassRaises
    \/ Rebuild

Spec == Init /\ [][Next]_vars

\* The loop sleeps a bounded time and then makes its next pass.
FairSpec == Spec /\ WF_vars(Maintain)

(***************************************************************************)
(* Properties                                                              *)
(***************************************************************************)

HasLine(e) == e \in DOMAIN lineDay /\ lineDay[e] \in files

Age(e) == now - ts[e]

\* Retention takes nothing that is younger than its horizon: no line, and no
\* row but in the last second, wherever midnight falls between the two purges,
\* and whether or not a rebuild has cleared the table and filled it again in
\* between.  A rebuild that was cut short may have left rows out.
YoungDataKept ==
    /\ \A e \in DOMAIN lineDay :
          FileDays = 0 \/ Age(e) < FileDays * TicksPerDay => HasLine(e)
    /\ intact => \A e \in 1 .. stored :
          EventDays = 0 \/ Age(e) <= EventDays * TicksPerDay - TicksPerSecond
              => e \in rows

\* What is past its horizon goes, though passes fail and a rebuild that reads
\* old files brings purged rows back.
OldDataGoes ==
    \A e \in Event :
        /\ (e \in rows /\ BeforeCutoff(e, now)) ~> e \notin rows
        /\ (FileDays > 0 /\ HasLine(e) /\ lineDay[e] < DayAt(now) - FileDays)
              ~> ~HasLine(e)

TypeOK ==
    /\ now \in 0 .. MaxTime
    /\ ts \in Seq(0 .. MaxTime) /\ Len(ts) <= MaxEvents
    /\ lineDay \in Seq(Days)
    /\ stored \in Nat /\ stored \in {Len(lineDay), Len(lineDay) - 1}
    /\ Len(lineDay) <= Len(ts)
    /\ files \subseteq Days
    /\ rows \subseteq DOMAIN lineDay
    /\ pass \in {"sleep", "files", "unlink"}
    /\ cutoff \in Int
    /\ rebuild \in {"off", "cleared", "replay"}
    /\ todo \subseteq Days
    /\ rebuild # "replay" => todo = {}
    /\ intact \in BOOLEAN
    /\ rebuilds \in 0 .. MaxRebuilds
    /\ failures \in 0 .. MaxFailures
=============================================================================
