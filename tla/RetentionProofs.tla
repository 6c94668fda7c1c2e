-------------------------- MODULE RetentionProofs --------------------------
(***************************************************************************)
(* Proofs about Retention: what is kept, for all horizons, all lengths of  *)
(* a day and a second, and any number of events, passes and rebuilds.      *)
(***************************************************************************)
EXTENDS Retention, TLAPS

(***************************************************************************)
(* Days and seconds                                                        *)
(***************************************************************************)

\* What \div computes.
LEMMA Quotient ==
    ASSUME NEW a \in Int, NEW m \in Nat \ {0}
    PROVE  a \div m \in Int /\ (a \div m) * m <= a /\ a < (a \div m) * m + m
BY SMT

\* The quotient is the only number that is so close.
LEMMA QuotientIsUnique ==
    ASSUME NEW a \in Int, NEW m \in Nat \ {0}, NEW q \in Int, NEW r \in 0 .. m - 1,
           a = q * m + r
    PROVE  a \div m = q
BY Z3

\* Division keeps the order.
LEMMA QuotientsGrow ==
    ASSUME NEW a \in Int, NEW b \in Int, NEW m \in Nat \ {0}, a <= b
    PROVE  a \div m <= b \div m
<1> DEFINE p == a \div m
           q == b \div m
<1>1. p \in Int /\ q \in Int /\ p * m <= a /\ b < q * m + m
  BY Quotient
<1> HIDE DEF p, q
<1>2. ASSUME q < p PROVE FALSE
  <2>1. PICK d \in Nat : p = q + 1 + d
    <3>1. p - q - 1 \in Nat /\ p = q + 1 + (p - q - 1)
      BY <1>1, <1>2
    <3> QED BY <3>1
  <2>2. p * m = q * m + m + d * m /\ d * m \in Nat /\ q * m \in Int
    BY <1>1, <2>1
  <2> QED BY <1>1, <2>2
<1>3. p <= q
  BY <1>1, <1>2
<1> QED BY <1>3 DEF p, q

\* k times m less, k less.
LEMMA QuotientsShift ==
    ASSUME NEW a \in Int, NEW m \in Nat \ {0}, NEW k \in Int
    PROVE  (a - k * m) \div m = a \div m - k
<1> DEFINE q == a \div m
           r == a - q * m
<1>1. q \in Int /\ q * m <= a /\ a < q * m + m
  BY Quotient
<1> HIDE DEF q
<1>2. r \in 0 .. m - 1 /\ k * m \in Int /\ q * m \in Int
  BY <1>1
<1>3. (q - k) * m = q * m - k * m
  BY <1>1
<1>4. a - k * m = (q - k) * m + r /\ a - k * m \in Int /\ q - k \in Int
  BY <1>1, <1>2, <1>3
<1> HIDE DEF r
<1>5. (a - k * m) \div m = q - k
  BY <1>2, <1>4, QuotientIsUnique
<1> QED BY <1>5 DEF q

FileSpan == FileDays * TicksPerDay
EventSpan == EventDays * TicksPerDay

\* The horizons in ticks, and that lines are kept no less long than rows.
LEMMA Spans ==
    /\ FileSpan \in Nat /\ EventSpan \in Nat
    /\ FileDays > 0 => EventSpan <= FileSpan /\ EventDays > 0
    /\ FileDays \in Nat /\ EventDays \in Nat
    /\ TicksPerDay \in Nat \ {0} /\ TicksPerSecond \in Nat \ {0}
<1>1. /\ FileDays \in Nat /\ EventDays \in Nat
      /\ TicksPerDay \in Nat \ {0} /\ TicksPerSecond \in Nat \ {0}
  BY ClockIsSane, LinesOutliveRows
<1>2. FileSpan \in Nat /\ EventSpan \in Nat
  BY <1>1 DEF FileSpan, EventSpan
<1>3. ASSUME FileDays > 0 PROVE EventSpan <= FileSpan /\ EventDays > 0
  <2>1. PICK d \in Nat : FileDays = EventDays + d
    <3>1. FileDays - EventDays \in Nat /\ FileDays = EventDays + (FileDays - EventDays)
      BY <1>1, <1>3, LinesOutliveRows
    <3> QED BY <3>1
  <2>2. FileSpan = EventSpan + d * TicksPerDay /\ d * TicksPerDay \in Nat
    BY <1>1, <2>1 DEF FileSpan, EventSpan
  <2> QED BY <1>2, <1>3, <2>2, LinesOutliveRows
<1> QED BY <1>1, <1>2, <1>3

\* A later moment has no earlier day.
LEMMA DaysGrow ==
    ASSUME NEW s \in Int, NEW t \in Int, s <= t
    PROVE  DayAt(s) \in Int /\ DayAt(t) \in Int /\ DayAt(s) <= DayAt(t)
BY Spans, Quotient, QuotientsGrow DEF DayAt

\* No file of a day before the cutoff has a line of an event that is younger
\* than the horizon.
LEMMA YoungDay ==
    ASSUME NEW s \in Nat, NEW t \in Nat, t - s < FileSpan
    PROVE  DayAt(t) - FileDays <= DayAt(s)
<1>1. DayAt(t - FileSpan) = DayAt(t) - FileDays
  <2>1. FileDays \in Int /\ TicksPerDay \in Nat \ {0} /\ t \in Int
    BY Spans
  <2>2. (t - FileDays * TicksPerDay) \div TicksPerDay = t \div TicksPerDay - FileDays
    BY <2>1, QuotientsShift
  <2> QED BY <2>2 DEF DayAt, FileSpan
<1>2. t - FileSpan \in Int /\ t - FileSpan <= s
  BY Spans
<1> QED BY <1>1, <1>2, DaysGrow

\* A row that is a second younger than the horizon is not before the cutoff,
\* though the comparison takes the whole second of the cutoff.
LEMMA YoungSecond ==
    ASSUME NEW s \in Nat, NEW t \in Nat, t - s <= EventSpan - TicksPerSecond
    PROVE  ~(SecondAt(s) <= SecondAt(t - EventSpan))
<1> DEFINE c == t - EventSpan
           m == TicksPerSecond
<1>1. c \in Int /\ m \in Nat \ {0} /\ c <= s - m
  <2>1. EventSpan \in Nat /\ TicksPerSecond \in Nat \ {0}
    BY Spans
  <2> HIDE DEF EventSpan
  <2> QED BY <2>1
<1> HIDE DEF c, m
<1>2. (s - 1 * m) \div m = s \div m - 1 /\ 1 * m = m
  <2>1. s \in Int /\ 1 \in Int
    OBVIOUS
  <2>2. (s - 1 * m) \div m = s \div m - 1
    BY <1>1, <2>1, QuotientsShift
  <2> QED BY <1>1, <2>2
<1>3. c \div m <= (s - m) \div m /\ c \div m \in Int /\ s \div m \in Int
  <2>1. s \in Int /\ s - m \in Int
    BY <1>1
  <2> QED BY <1>1, <2>1, Quotient, QuotientsGrow
<1>4. c \div m < s \div m
  BY <1>2, <1>3
<1> QED BY <1>3, <1>4 DEF SecondAt, c, m

(***************************************************************************)
(* Type correctness                                                        *)
(***************************************************************************)

\* The types hold at first.
LEMMA InitTypeOK == Init => TypeOK
BY ClockIsSane DEF Init, TypeOK, Never

\* The clock stays within the days of the model.
LEMMA Today ==
    ASSUME TypeOK
    PROVE  DayAt(now) \in Days
<1>1. now \in Nat /\ MaxTime \in Nat /\ 0 <= now /\ now <= MaxTime
  BY ClockIsSane DEF TypeOK
<1>2. DayAt(0) <= DayAt(now) /\ DayAt(now) <= DayAt(MaxTime) /\ DayAt(now) \in Int
      /\ DayAt(MaxTime) \in Int /\ DayAt(0) \in Int
  BY <1>1, DaysGrow
<1>3. DayAt(0) = 0
  <2>1. 0 = 0 * TicksPerDay + 0 /\ 0 \in 0 .. TicksPerDay - 1
    BY Spans
  <2> QED BY <2>1, Spans, QuotientIsUnique DEF DayAt
<1> QED BY <1>2, <1>3 DEF Days

\* Every step keeps the types.
LEMMA NextTypeOK == TypeOK /\ [Next]_vars => TypeOK'
<1> SUFFICES ASSUME TypeOK, [Next]_vars PROVE TypeOK'
  OBVIOUS
<1> USE DEF TypeOK, data, loop, other
<1>1. CASE Tick
  BY <1>1, ClockIsSane DEF Tick
<1>2. CASE Emit
  BY <1>2, ClockIsSane DEF Emit
<1>3. CASE WriteLine
  BY <1>3, Today DEF WriteLine
<1>4. CASE WriteRow
  <2>1. stored' = Len(lineDay) /\ Len(lineDay) \in DOMAIN lineDay
    BY <1>4 DEF WriteRow
  <2> QED BY <1>4, <2>1 DEF WriteRow
<1>5. CASE PurgeRows
  BY <1>5 DEF PurgeRows
<1>6. CASE ListFiles
  <2>1. DayAt(now) \in Int /\ FileDays \in Int
    BY DaysGrow, Spans, ClockIsSane
  <2> QED BY <1>6, <2>1 DEF ListFiles, Never
<1>7. CASE Unlink \/ FilesPurged
  BY <1>7 DEF Unlink, FilesPurged, Never
<1>8. CASE PassRaises
  BY <1>8, ClockIsSane DEF PassRaises, Never
<1>9. CASE ClearRows
  <2>1. rebuilds' \in 0 .. MaxRebuilds
    BY <1>9, ClockIsSane DEF ClearRows
  <2>2. todo' = {}
    BY <1>9 DEF ClearRows
  <2> QED BY <1>9, <2>1, <2>2 DEF ClearRows
<1>10. CASE ListDays \/ ReplayDies \/ ReplayEnds
  BY <1>10 DEF ListDays, ReplayDies, ReplayEnds
<1>11. CASE ReplayDay
  BY <1>11 DEF ReplayDay, Lines
<1>12. CASE UNCHANGED vars
  BY <1>12 DEF vars
<1> QED
  BY <1>1, <1>2, <1>3, <1>4, <1>5, <1>6, <1>7, <1>8, <1>9, <1>10, <1>11, <1>12
  DEF Next, Maintain, Rebuild

\* The tables, the files, the loop and the rebuild keep their types: the loop
\* survives its errors (cli.py:64), a rebuild that died starts afresh.
THEOREM TypeCorrect == Spec => []TypeOK
BY InitTypeOK, NextTypeOK, PTL DEF Spec

(***************************************************************************)
(* What is young is kept                                                   *)
(***************************************************************************)

YoungLine(e) == FileDays = 0 \/ Age(e) < FileDays * TicksPerDay
YoungRow(e) == EventDays = 0 \/ Age(e) <= EventDays * TicksPerDay - TicksPerSecond

NoneIsOfTheFuture == \A e \in DOMAIN ts : ts[e] <= now

\* A line is in the file of its event's day or of a later one.
LinesFollowEvents == \A e \in DOMAIN lineDay : DayAt(ts[e]) <= lineDay[e]

\* While a pass unlinks, its cutoff is no later than one taken now.
CutoffIsPast ==
    cutoff = Never \/ (FileDays > 0 /\ cutoff <= DayAt(now) - FileDays)

LinesKept == \A e \in DOMAIN lineDay : YoungLine(e) => lineDay[e] \in files

\* A rebuild that goes on has yet to read what is not in the table.
RowsKept ==
    /\ rebuild # "off" => ~intact
    /\ intact => \A e \in 1 .. stored : YoungRow(e) => e \in rows
    /\ rebuild = "replay" =>
          \A e \in 1 .. stored : YoungRow(e) => e \in rows \/ lineDay[e] \in todo

Kept == TypeOK /\ NoneIsOfTheFuture /\ LinesFollowEvents /\ CutoffIsPast /\ LinesKept /\ RowsKept

\* Nothing is written at first.
LEMMA InitKept == Init => Kept
BY InitTypeOK DEF Init, Kept, NoneIsOfTheFuture, LinesFollowEvents, CutoffIsPast, LinesKept, RowsKept

\* What the types say of one event.
LEMMA EventTypes ==
    ASSUME TypeOK
    PROVE  /\ now \in Nat
           /\ DOMAIN lineDay \subseteq DOMAIN ts
           /\ \A e \in DOMAIN ts : ts[e] \in Nat /\ Age(e) \in Int
           /\ \A e \in DOMAIN lineDay : lineDay[e] \in Nat
           /\ 1 .. stored \subseteq DOMAIN lineDay
<1>1. now \in Nat
  BY ClockIsSane DEF TypeOK
<1>2. DOMAIN lineDay \subseteq DOMAIN ts /\ 1 .. stored \subseteq DOMAIN lineDay
  BY DEF TypeOK
<1>3. \A e \in DOMAIN ts : ts[e] \in Nat
  BY ClockIsSane DEF TypeOK
<1>4. \A e \in DOMAIN lineDay : lineDay[e] \in Nat
  <2>1. DayAt(MaxTime) \in Int
    BY ClockIsSane, DaysGrow
  <2> QED BY <2>1 DEF TypeOK, Days
<1> QED BY <1>1, <1>2, <1>3, <1>4 DEF Age

\* A row that is young has a line that is.
LEMMA RowsAreYounger ==
    ASSUME TypeOK, NEW e \in DOMAIN lineDay, YoungRow(e)
    PROVE  YoungLine(e)
<1>1. Age(e) \in Int
  BY EventTypes
<1>2. CASE FileDays = 0
  BY <1>2 DEF YoungLine
<1>3. CASE FileDays > 0
  <2>1. /\ EventSpan \in Nat /\ FileSpan \in Nat /\ EventSpan <= FileSpan
        /\ EventDays > 0 /\ EventDays \in Nat /\ TicksPerSecond \in Nat \ {0}
    BY <1>3, Spans
  <2>2. Age(e) <= EventSpan - TicksPerSecond
    BY <2>1 DEF YoungRow, EventSpan
  <2>3. Age(e) < FileSpan
    BY <1>1, <2>1, <2>2
  <2> QED BY <2>3 DEF YoungLine, FileSpan
<1> QED BY <1>2, <1>3, Spans

\* No pass unlinks the file of a young line.
LEMMA YoungLineIsNotOld ==
    ASSUME Kept, NEW e \in DOMAIN lineDay, YoungLine(e)
    PROVE  ~OldFile(lineDay[e])
<1>1. /\ now \in Nat /\ ts[e] \in Nat /\ lineDay[e] \in Nat /\ cutoff \in Int
      /\ DayAt(ts[e]) <= lineDay[e]
  BY EventTypes DEF Kept, LinesFollowEvents, TypeOK
<1>2. CASE cutoff = Never
  BY <1>1, <1>2 DEF OldFile, Never
<1>3. CASE FileDays > 0 /\ cutoff <= DayAt(now) - FileDays
  <2>1. now - ts[e] < FileSpan
    BY <1>3 DEF YoungLine, Age, FileSpan
  <2>2. DayAt(now) - FileDays <= DayAt(ts[e])
    BY <1>1, <2>1, YoungDay
  <2>3. DayAt(now) \in Int /\ DayAt(ts[e]) \in Int /\ FileDays \in Int
    BY <1>1, DaysGrow, Spans
  <2> QED BY <1>1, <1>3, <2>2, <2>3 DEF OldFile
<1> QED BY <1>2, <1>3 DEF Kept, CutoffIsPast

\* No pass deletes a young row.
LEMMA YoungRowIsNotBeforeCutoff ==
    ASSUME TypeOK, NEW e \in DOMAIN lineDay, YoungRow(e)
    PROVE  ~BeforeCutoff(e, now)
<1>1. now \in Nat /\ ts[e] \in Nat
  BY EventTypes
<1>2. CASE EventDays = 0
  BY <1>2 DEF BeforeCutoff
<1>3. CASE EventDays # 0
  <2>1. now - ts[e] <= EventSpan - TicksPerSecond
    BY <1>3 DEF YoungRow, Age, EventSpan
  <2>2. ~(SecondAt(ts[e]) <= SecondAt(now - EventSpan))
    BY <1>1, <2>1, YoungSecond
  <2> QED BY <2>2 DEF BeforeCutoff, EventSpan
<1> QED BY <1>2, <1>3

\* What does not touch an event makes it no younger.
LEMMA NoYounger ==
    ASSUME TypeOK, now' \in Nat, now <= now',
           NEW e \in DOMAIN ts, ts'[e] = ts[e]
    PROVE  (YoungLine(e)' => YoungLine(e)) /\ (YoungRow(e)' => YoungRow(e))
<1>1. ts[e] \in Nat /\ now \in Nat
  BY EventTypes
<1>2. FileSpan \in Nat /\ EventSpan \in Nat /\ TicksPerSecond \in Nat
  BY Spans
<1>3. Age(e)' \in Int /\ Age(e) \in Int /\ Age(e) <= Age(e)'
  BY <1>1 DEF Age
<1> HIDE DEF FileSpan, EventSpan
<1>4. Age(e)' < FileSpan => Age(e) < FileSpan
  BY <1>2, <1>3
<1>5. Age(e)' <= EventSpan - TicksPerSecond => Age(e) <= EventSpan - TicksPerSecond
  BY <1>2, <1>3
<1> QED BY <1>4, <1>5 DEF YoungLine, YoungRow, FileSpan, EventSpan

\* Steps that leave the events and the clock as they are.
LEMMA SameEvents ==
    ASSUME TypeOK, UNCHANGED <<now, ts>>
    PROVE  \A e \in DOMAIN ts : YoungLine(e)' = YoungLine(e) /\ YoungRow(e)' = YoungRow(e)
BY DEF YoungLine, YoungRow, Age

\* Only Unlink takes files away, and none that has a young line.
LEMMA NextKeepsLines ==
    ASSUME Kept, [Next]_vars
    PROVE  LinesFollowEvents' /\ LinesKept'
<1>0. /\ TypeOK /\ LinesFollowEvents /\ LinesKept /\ now \in Nat
      /\ DOMAIN lineDay \subseteq DOMAIN ts
      /\ \A e \in DOMAIN ts : ts[e] \in Nat
  BY EventTypes DEF Kept
<1>1. CASE Tick
  <2>1. now' \in Nat /\ now <= now' /\ UNCHANGED <<ts, lineDay, files>>
    BY <1>0, <1>1 DEF Tick, data
  <2>2. LinesFollowEvents'
    BY <1>0, <2>1 DEF LinesFollowEvents
  <2>3. LinesKept'
    BY <1>0, <2>1, NoYounger DEF LinesKept
  <2> QED BY <2>2, <2>3
<1>2. CASE Emit
  <2>1. /\ UNCHANGED <<now, lineDay, files>>
        /\ \A e \in DOMAIN lineDay : ts'[e] = ts[e]
    BY <1>0, <1>2 DEF Emit, TypeOK
  <2>2. LinesFollowEvents'
    BY <1>0, <2>1 DEF LinesFollowEvents
  <2>3. LinesKept'
    BY <1>0, <2>1, NoYounger DEF LinesKept
  <2> QED BY <2>2, <2>3
<1>3. CASE WriteLine
  <2> DEFINE n == Len(lineDay) + 1
  <2>1. /\ UNCHANGED <<now, ts>> /\ n \in DOMAIN ts
        /\ DOMAIN lineDay' = DOMAIN lineDay \cup {n} /\ lineDay'[n] = DayAt(now)
        /\ \A e \in DOMAIN lineDay : lineDay'[e] = lineDay[e]
        /\ files' = files \cup {DayAt(now)}
    BY <1>0, <1>3 DEF WriteLine, TypeOK
  <2> HIDE DEF n
  <2>2. ts[n] <= now /\ DayAt(ts[n]) <= DayAt(now)
    <3>1. \A e \in DOMAIN ts : ts[e] <= now
      BY <1>0 DEF Kept, NoneIsOfTheFuture
    <3> QED BY <1>0, <2>1, <3>1, DaysGrow
  <2>3. LinesFollowEvents'
    BY <1>0, <2>1, <2>2 DEF LinesFollowEvents
  <2>4. LinesKept'
    BY <1>0, <2>1, SameEvents DEF LinesKept
  <2> QED BY <2>3, <2>4
<1>4. CASE Unlink
  <2>1. UNCHANGED <<now, ts, lineDay>> /\ \A d \in files : ~OldFile(d) => d \in files'
    BY <1>4 DEF Unlink
  <2>2. LinesFollowEvents'
    BY <1>0, <2>1 DEF LinesFollowEvents
  <2>3. \A e \in DOMAIN lineDay : YoungLine(e) => lineDay[e] \in files /\ ~OldFile(lineDay[e])
    BY <1>0, YoungLineIsNotOld DEF LinesKept
  <2>4. LinesKept'
    BY <1>0, <2>1, <2>3, SameEvents DEF LinesKept
  <2> QED BY <2>2, <2>4
<1>5. CASE UNCHANGED <<now, ts, lineDay, files>>
  <2>1. LinesFollowEvents'
    BY <1>0, <1>5 DEF LinesFollowEvents
  <2>2. LinesKept'
    BY <1>0, <1>5, SameEvents DEF LinesKept
  <2> QED BY <2>1, <2>2
<1>6. Tick \/ Emit \/ WriteLine \/ Unlink \/ UNCHANGED <<now, ts, lineDay, files>>
  BY DEF Next, Maintain, Rebuild, WriteRow, PurgeRows, ListFiles, FilesPurged, PassRaises,
         ClearRows, ListDays, ReplayDay, ReplayDies, ReplayEnds, vars, data
<1> QED BY <1>1, <1>2, <1>3, <1>4, <1>5, <1>6

\* A cutoff grows older while its pass goes on.
LEMMA NextKeepsCutoff ==
    ASSUME Kept, [Next]_vars
    PROVE  CutoffIsPast'
<1>0. TypeOK /\ CutoffIsPast /\ now \in Nat
  BY EventTypes DEF Kept
<1>1. CASE Tick
  <2>1. now' \in Nat /\ now <= now' /\ cutoff' = cutoff /\ cutoff \in Int /\ FileDays \in Int
    BY <1>0, <1>1, Spans DEF Tick, loop, TypeOK
  <2>2. DayAt(now) \in Int /\ DayAt(now') \in Int /\ DayAt(now) <= DayAt(now')
    BY <1>0, <2>1, DaysGrow
  <2> QED BY <1>0, <2>1, <2>2 DEF CutoffIsPast
<1>2. CASE ListFiles
  <2>1. FileDays \in Nat /\ DayAt(now) \in Int /\ now' = now
    BY <1>0, <1>2, Spans, DaysGrow DEF ListFiles
  <2> QED BY <1>2, <2>1 DEF ListFiles, CutoffIsPast
<1>3. CASE cutoff' = Never
  BY <1>3 DEF CutoffIsPast
<1>4. CASE UNCHANGED <<now, cutoff>>
  BY <1>0, <1>4 DEF CutoffIsPast
<1>5. Tick \/ ListFiles \/ cutoff' = Never \/ UNCHANGED <<now, cutoff>>
  BY DEF Next, Maintain, Rebuild, Emit, WriteLine, WriteRow, PurgeRows, Unlink, FilesPurged,
         PassRaises, ClearRows, ListDays, ReplayDay, ReplayDies, ReplayEnds, vars, loop
<1> QED BY <1>1, <1>2, <1>3, <1>4, <1>5

\* The clock does not go back.
LEMMA NextKeepsPast ==
    ASSUME TypeOK, NoneIsOfTheFuture, [Next]_vars
    PROVE  NoneIsOfTheFuture'
<1>0. now \in Nat /\ \A e \in DOMAIN ts : ts[e] \in Nat
  BY EventTypes
<1>1. CASE Tick
  BY <1>0, <1>1 DEF Tick, data, NoneIsOfTheFuture
<1>2. CASE Emit
  <2>1. /\ now' = now /\ DOMAIN ts' = DOMAIN ts \cup {Len(ts) + 1} /\ ts'[Len(ts) + 1] = now
        /\ \A e \in DOMAIN ts : ts'[e] = ts[e]
    BY <1>2 DEF Emit, TypeOK
  <2> QED BY <1>0, <2>1 DEF NoneIsOfTheFuture
<1>3. CASE UNCHANGED <<now, ts>>
  BY <1>3 DEF NoneIsOfTheFuture
<1>4. Tick \/ Emit \/ UNCHANGED <<now, ts>>
  BY DEF Next, Maintain, Rebuild, WriteLine, WriteRow, PurgeRows, ListFiles, Unlink,
         FilesPurged, PassRaises, ClearRows, ListDays, ReplayDay, ReplayDies, ReplayEnds,
         vars, data
<1> QED BY <1>1, <1>2, <1>3, <1>4

\* A rebuild clears the table, lists the files when each young line has one,
\* reads all it has listed, and only then is taken for complete.
LEMMA NextKeepsRows ==
    ASSUME Kept, [Next]_vars
    PROVE  RowsKept'
<1>0. /\ TypeOK /\ RowsKept /\ now \in Nat
      /\ DOMAIN lineDay \subseteq DOMAIN ts /\ 1 .. stored \subseteq DOMAIN lineDay
      /\ \A e \in DOMAIN ts : ts[e] \in Nat
      /\ rebuild \in {"off", "cleared", "replay"} /\ stored \in Nat
  BY EventTypes DEF Kept, TypeOK
<1>1. CASE Tick
  <2>1. /\ now' \in Nat /\ now <= now'
        /\ UNCHANGED <<ts, lineDay, stored, rows, rebuild, todo, intact>>
    BY <1>0, <1>1 DEF Tick, data, other
  <2> QED BY <1>0, <2>1, NoYounger DEF RowsKept
<1>2. CASE Emit
  <2>1. /\ UNCHANGED <<now, lineDay, stored, rows, rebuild, todo, intact>>
        /\ \A e \in DOMAIN lineDay : ts'[e] = ts[e]
    BY <1>0, <1>2 DEF Emit, other, TypeOK
  <2> QED BY <1>0, <2>1, NoYounger DEF RowsKept
<1>3. CASE WriteLine
  <2>1. /\ UNCHANGED <<now, ts, stored, rows, rebuild, todo, intact>>
        /\ \A e \in DOMAIN lineDay : lineDay'[e] = lineDay[e]
    BY <1>0, <1>3 DEF WriteLine, other, TypeOK
  <2> QED BY <1>0, <2>1, SameEvents DEF RowsKept
<1>4. CASE WriteRow
  <2>1. /\ UNCHANGED <<now, ts, lineDay, rebuild, todo, intact>>
        /\ stored' = stored + 1 /\ rows' = rows \cup {stored'}
        /\ 1 .. stored' \subseteq DOMAIN lineDay
    BY <1>0, <1>4 DEF WriteRow, other, TypeOK
  <2>2. \A e \in 1 .. stored' : e \in 1 .. stored \/ e = stored'
    BY <1>0, <2>1
  <2> QED BY <1>0, <2>1, <2>2, SameEvents DEF RowsKept
<1>5. CASE PurgeRows
  <2>1. /\ UNCHANGED <<now, ts, lineDay, stored, rebuild, todo, intact>>
        /\ \A e \in rows : ~BeforeCutoff(e, now) => e \in rows'
    BY <1>5 DEF PurgeRows, other
  <2>2. \A e \in 1 .. stored : YoungRow(e) => ~BeforeCutoff(e, now)
    BY <1>0, YoungRowIsNotBeforeCutoff
  <2> QED BY <1>0, <2>1, <2>2, SameEvents DEF RowsKept
<1>6. CASE ClearRows
  BY <1>6 DEF ClearRows, RowsKept
<1>7. CASE ListDays
  <2>1. /\ UNCHANGED <<now, ts, lineDay, stored, rows, intact>>
        /\ rebuild = "cleared" /\ rebuild' = "replay" /\ todo' = files
    BY <1>7 DEF ListDays, data
  <2>2. \A e \in 1 .. stored : YoungRow(e) => lineDay[e] \in files
    BY <1>0, RowsAreYounger DEF Kept, LinesKept
  <2> QED BY <1>0, <2>1, <2>2, SameEvents DEF RowsKept
<1>8. CASE ReplayDay
  <2>1. /\ UNCHANGED <<now, ts, lineDay, stored, rebuild, intact>> /\ rebuild = "replay"
        /\ rows' = rows \cup Lines(FirstDay) /\ todo' = todo \ {FirstDay}
    BY <1>8 DEF ReplayDay
  <2>2. \A e \in 1 .. stored : lineDay[e] \in todo => e \in rows' \/ lineDay[e] \in todo'
    BY <1>0, <2>1 DEF Lines
  <2> QED BY <1>0, <2>1, <2>2, SameEvents DEF RowsKept
<1>9. CASE ReplayDies
  BY <1>0, <1>9 DEF ReplayDies, RowsKept
<1>10. CASE ReplayEnds
  <2>1. /\ UNCHANGED <<now, ts, lineDay, stored, rows>>
        /\ rebuild = "replay" /\ todo = {} /\ rebuild' = "off"
    BY <1>10 DEF ReplayEnds, data
  <2> QED BY <1>0, <2>1, SameEvents DEF RowsKept
<1>11. CASE UNCHANGED <<now, ts, lineDay, stored, rows, rebuild, todo, intact>>
  BY <1>0, <1>11, SameEvents DEF RowsKept
<1>12. ListFiles \/ Unlink \/ FilesPurged \/ PassRaises \/ UNCHANGED vars
          => UNCHANGED <<now, ts, lineDay, stored, rows, rebuild, todo, intact>>
  BY DEF ListFiles, Unlink, FilesPurged, PassRaises, vars, data, other
<1> QED
  BY <1>1, <1>2, <1>3, <1>4, <1>5, <1>6, <1>7, <1>8, <1>9, <1>10, <1>11, <1>12
  DEF Next, Maintain, Rebuild

\* Retention takes nothing younger than its horizon (ops.py:83, :93), wherever
\* midnight falls and whatever a rebuild has cleared and read meanwhile, for
\* all horizons with which files are kept no less long than rows.
THEOREM YoungStays == Spec => []YoungDataKept
<1>1. Kept => YoungDataKept
  BY DEF Kept, LinesKept, RowsKept, YoungLine, YoungRow, YoungDataKept, HasLine
<1>2. Kept /\ [Next]_vars => Kept'
  BY NextTypeOK, NextKeepsPast, NextKeepsLines, NextKeepsCutoff, NextKeepsRows DEF Kept
<1> QED
  BY InitKept, <1>1, <1>2, PTL DEF Spec
=============================================================================
