-------------------------- MODULE LegacyMonitoring --------------------------
(***************************************************************************)
(* The guided move of the 1.2.7 monitoring tables into a metric store      *)
(* (internal/migrations/legacy_monitoring.go, run by the migration         *)
(* controller's runLegacy): every row is streamed into hourly points,      *)
(* coarser tiers are rebuilt, and only then are the tables dropped, one by *)
(* one.  A stream may read several tables: records and records_long_term   *)
(* are one UNION ALL, and an hour of both is one point.  Any step may fail *)
(* or the process may be killed; the administrator starts over, with the   *)
(* same target or another one.  A P95 value is abstracted to the set of    *)
(* rows it was computed from.                                              *)
(***************************************************************************)
EXTENDS Integers, Sequences, FiniteSets, FiniteSetsExt, Functions

CONSTANTS Rows,        \* legacy rows: [table, series, hour, id]
          Streams,     \* the sets of tables read together, in the order they are streamed;
                       \* tables are numbered in the order they are dropped
          Targets, Day, \* metric databases; hours in a coarse bucket
          MaxRuns, MaxFaults

VARIABLES
    phase,    \* phase of the run, "idle" (guide shown), "failed", "serving"
    target,   \* database this run writes to
    saved,    \* database in the settings
    left,     \* legacy tables not dropped yet
    stream,   \* index of the stream being read
    read,     \* rows of it already scanned
    group,    \* rows in the aggregator
    hourly,   \* hourly points of each database: the rows behind each
    coarse,   \* coarse points of each database: the hourly points behind each
    forgone,  \* history: dropped rows in a target that a run fills again without them
    marker, runs, faults

lvars == <<phase, target, saved, left, stream, read, group, hourly, coarse, forgone, marker, runs, faults>>

Nowhere == "nowhere"

Init ==
    /\ phase = "idle" /\ target = Nowhere /\ saved = Nowhere /\ left = UNION Range(Streams)
    /\ stream = 1 /\ read = {} /\ group = {} /\ forgone = {} /\ marker = FALSE /\ runs = 0 /\ faults = 0
    /\ hourly = [d \in Targets |-> {}] /\ coarse = [d \in Targets |-> {}]

InStream(i) == {r \in Rows : r.table \in Streams[i]}
\* The point a row goes into: its stream's, of its series and hour.
Bucket(r) == [stream |-> CHOOSE i \in DOMAIN Streams : r.table \in Streams[i],
              series |-> r.series, hour |-> r.hour]
Kept == {r \in Rows : r.table \in left}        \* rows the main database still holds

\* startLegacy: one operation at a time; a retry may pick another target.
StartLegacy(d) ==
    /\ phase \in {"idle", "failed"} /\ runs < MaxRuns
    /\ phase' = "opening" /\ target' = d /\ runs' = runs + 1
    /\ forgone' = forgone \cup {r \in Rows \ Kept : /\ \E x \in Kept : Bucket(x) = Bucket(r)
                                                 /\ \E p \in hourly[d] : r \in p.rows}
    /\ UNCHANGED <<saved, left, stream, read, group, hourly, coarse, marker, faults>>

OpenAndSave ==
    /\ phase = "opening" /\ phase' = "streaming"
    /\ saved' = target /\ stream' = 1 /\ read' = {} /\ group' = {}
    /\ UNCHANGED <<target, left, hourly, coarse, forgone, marker, runs, faults>>

\* A point in the target: ReplaceRollupPoints replaces the bucket of (series, hour).
Point(rows) == [of |-> Bucket(CHOOSE x \in rows : TRUE), rows |-> rows]
Replaced(points, p) == {q \in points : q.of # p.of} \cup {p}

\* The rows of a stream come ordered by series, then by time.
Before(a, b) == a.series < b.series \/ (a.series = b.series /\ a.hour < b.hour)
Unread == (InStream(stream) \cap Kept) \ read
SameBucket(r) == \A g \in group : Bucket(g) = Bucket(r)

\* aggregator.Add: a row of another series or hour first flushes the group.
Add(r) ==
    /\ phase = "streaming" /\ r \in Unread /\ ~\E x \in Unread : Before(x, r)
    /\ read' = read \cup {r}
    /\ group' = IF SameBucket(r) THEN group \cup {r} ELSE {r}
    /\ hourly' = IF SameBucket(r) THEN hourly
                 ELSE [hourly EXCEPT ![target] = Replaced(@, Point(group))]
    /\ UNCHANGED <<phase, target, saved, left, stream, coarse, forgone, marker, runs, faults>>

\* Faulty variant: the stream ends without flushing the open hour.
LastFlushForgotten(points) == points
\* The flush after the last row of a stream.
LastFlush(points) == IF group = {} THEN points ELSE Replaced(points, Point(group))

EndStream ==
    /\ phase = "streaming" /\ Unread = {}
    /\ hourly' = [hourly EXCEPT ![target] = LastFlush(@)]
    /\ group' = {} /\ read' = {}
    /\ IF stream < Len(Streams) THEN stream' = stream + 1 /\ UNCHANGED phase
       ELSE UNCHANGED stream /\ phase' = "rebuilding"
    /\ UNCHANGED <<target, saved, left, coarse, forgone, marker, runs, faults>>

\* RebuildCoarserRollups: one transaction; coarse-only history stays.
Span(b) == [b EXCEPT !.hour = @ \div Day]
Composed(points) ==
    {[of |-> span, points |-> {p \in points : Span(p.of) = span}] : span \in {Span(p.of) : p \in points}}
Rebuild ==
    /\ phase = "rebuilding" /\ phase' = "vacuuming"
    /\ LET made == Composed(hourly[target]) IN
       coarse' = [coarse EXCEPT ![target] = made \cup {c \in @ : \A m \in made : c.of # m.of}]
    /\ UNCHANGED <<target, saved, left, stream, read, group, hourly, forgone, marker, runs, faults>>

\* Compact and ReclaimSpace of the target.
Vacuum ==
    /\ phase = "vacuuming" /\ phase' = "finalizing"
    /\ UNCHANGED <<target, saved, left, stream, read, group, hourly, coarse, forgone, marker, runs, faults>>

\* CompleteLegacyMonitoringMigration: the tables go one by one, the marker is last.
DropTable ==
    /\ phase = "finalizing" /\ left # {}
    /\ left' = left \ {Min(left)}
    /\ UNCHANGED <<phase, target, saved, stream, read, group, hourly, coarse, forgone, marker, runs, faults>>

Complete ==
    /\ phase = "finalizing" /\ left = {}
    /\ marker' = TRUE /\ phase' = "completed"
    /\ UNCHANGED <<target, saved, left, stream, read, group, hourly, coarse, forgone, runs, faults>>

Working == {"opening", "streaming", "rebuilding", "vacuuming", "finalizing"}

\* failTarget: the run ends, what it wrote stays.
Fail ==
    /\ phase \in Working /\ faults < MaxFaults
    /\ phase' = "failed" /\ faults' = faults + 1
    /\ UNCHANGED <<target, saved, left, stream, read, group, hourly, coarse, forgone, marker, runs>>

\* The process restarts: LegacyMonitoringMigrationRequired decides what it becomes.
Required == ~marker /\ Kept # {}
Restart ==
    /\ phase \in Working \cup {"failed", "completed"} /\ faults < MaxFaults
    /\ faults' = IF phase = "completed" THEN faults ELSE faults + 1
    /\ phase' = IF Required THEN "idle" ELSE "serving"
    /\ group' = {} /\ read' = {}
    /\ UNCHANGED <<target, saved, left, stream, hourly, coarse, forgone, marker, runs>>

Next ==
    \/ \E d \in Targets : StartLegacy(d)
    \/ \E r \in Rows : Add(r)
    \/ OpenAndSave \/ EndStream \/ Rebuild \/ Vacuum \/ DropTable \/ Complete \/ Fail \/ Restart

Spec == Init /\ [][Next]_lvars

-----------------------------------------------------------------------------
\* The rows that the hourly point of row r's series and hour is to be computed from.
Whole(r) == {x \in Rows \ forgone : Bucket(x) = Bucket(r)}

\* A legacy row is dropped only when some target holds the hourly point computed from all the
\* rows of its series and hour and a coarse point that contains it: after any failure, crash,
\* retry and change of target no row is lost or counted twice.  The code does not keep this for
\* the rows in forgone: when a failure falls between the drops of two tables that are streamed
\* together and the administrator starts over with the same target, the rows of the second table
\* alone replace the points that were made of both (DroppedRowsSurvive).  Those rows only are
\* lost, no other row with them, and none when the next target is another one.
DroppedRowsAreKept ==
    \A r \in Rows \ (Kept \cup forgone) : \E d \in Targets : \E p \in hourly[d] :
        /\ p.of = Bucket(r) /\ Whole(r) \subseteq p.rows
        /\ \E c \in coarse[d] : p \in c.points

\* What the drop of the tables after the copy is for; TLC refutes it: a dropped row stays in
\* some target, whatever fails after its table was dropped.
DroppedRowsSurvive ==
    \A r \in Rows \ Kept : \E d \in Targets : \E p \in hourly[d] : r \in p.rows
=============================================================================
