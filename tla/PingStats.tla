------------------------------ MODULE PingStats ------------------------------
(* The results of ping tasks from the record to the figures of the charts:    *)
(* two points per result (internal/metricstore/ping_records.go), buckets of   *)
(* them over the tier that answers, and the figures made of the buckets by    *)
(* getPingMetricStats (public.metric.go) and getRecords (common.record.go).   *)
(* A result is a latency, or -1 for a lost one.  Buckets are those Summaries  *)
(* shows the store to answer with.                                            *)
EXTENDS Integers, Sequences, FiniteSets, SequencesExt, FiniteSetsExt

CONSTANTS Tasks, Latencies,    \* tasks of one client, latencies of its results
          MaxTime, Widths, MaxResults   \* bound; intervals of a bucket; bound

VARIABLES results,             \* what the client sent: [task, ts, value]
          latencyOff, lossOff  \* the metric is disabled: its points are dropped
pvars == <<results, latencyOff, lossOff>>

Lost == -1
Start(t, width) == (t \div width) * width
Nobody == -2   \* a figure that is left out
SumBy(S, F(_)) == FoldSet(LAMBDA s, acc : acc + F(s), 0, S)

Init == results = {} /\ latencyOff \in BOOLEAN /\ lossOff \in BOOLEAN

\* writePingRecords
Write(task, ts, value) ==
    /\ Cardinality(results) < MaxResults
    /\ \A r \in results : ~(r.task = task /\ r.ts = ts)
    /\ results' = results \cup {[task |-> task, ts |-> ts, value |-> value]}
    /\ UNCHANGED <<latencyOff, lossOff>>
Next == \E task \in Tasks, ts \in 0..MaxTime, value \in Latencies \cup {Lost} : Write(task, ts, value)
Spec == Init /\ [][Next]_pvars

LatencyPoints(task) == IF latencyOff THEN {} ELSE {r \in results : r.task = task}
LossPoints(task) == IF lossOff THEN {} ELSE
    {[r EXCEPT !.value = IF r.value < 0 THEN 1 ELSE 0] : r \in {s \in results : s.task = task}}

\* The buckets of one series: count, sum, extremes and last value.
Bucket(ps, at) ==
    [at |-> at, count |-> Cardinality(ps), sum |-> SumBy(ps, LAMBDA p : p.value),
     min |-> Min({p.value : p \in ps}), max |-> Max({p.value : p \in ps}),
     last |-> (CHOOSE p \in ps : \A q \in ps : q.ts <= p.ts).value]
Buckets(ps, width) ==
    {Bucket({p \in ps : Start(p.ts, width) = at}, at) : at \in {Start(p.ts, width) : p \in ps}}

-----------------------------------------------------------------------------
(* publicPingStatsFromAggregateGroups *)

Count(bs) == SumBy(bs, LAMBDA b : b.count)
TotalOf(latency, loss) == IF latency # {} THEN Count(latency) ELSE Count(loss)

\* publicPingLossRate: lost and valid results, and whether they are a guess.
LossRate(latency, loss, total) ==
    IF loss # {}
      THEN LET lost == Min({SumBy(loss, LAMBDA b : b.sum), total})
           IN  [lost |-> SumBy(loss, LAMBDA b : b.sum), valid |-> total - lost, approximate |-> FALSE]
      ELSE [lost |-> Count({b \in latency : b.sum < 0}), valid |-> Count({b \in latency : b.sum >= 0}),
            approximate |-> TRUE]

\* positiveAggregateMin, positiveAggregateMax, latestPositiveAggregate
PositiveMin(bs) == LET vs == {b.min : b \in bs} \ {Lost} IN IF vs = {} THEN Nobody ELSE Min(vs)
PositiveMax(bs) == LET vs == {b.max : b \in bs} \ {Lost} IN IF vs = {} THEN Nobody ELSE Max(vs)
LatestOf(bs) ==
    LET answered == {b \in bs : b.last # Lost}
        means == {b \in bs : b.sum >= 0}
    IN  IF answered # {} THEN (CHOOSE b \in answered : \A c \in answered : c.at <= b.at).last
        ELSE IF means = {} THEN Nobody
        ELSE LET b == CHOOSE b \in means : \A c \in means : c.at <= b.at IN b.sum \div b.count

TaskStats(task, width) ==
    LET latency == Buckets(LatencyPoints(task), width)
        loss == Buckets(LossPoints(task), width)
        total == TotalOf(latency, loss)
        rate == LossRate(latency, loss, total)
    IN  [total |-> total, lost |-> rate.lost, valid |-> rate.valid, approximate |-> rate.approximate,
         min |-> PositiveMin(latency), max |-> PositiveMax(latency), latest |-> LatestOf(latency)]
\* A task without a bucket has no figures.
Stats(width) == {<<task, TaskStats(task, width)>> :
                   task \in {t \in Tasks : LatencyPoints(t) \cup LossPoints(t) # {}}}

-----------------------------------------------------------------------------
(* GetPingRecords and the ping half of getRecords *)

\* The last result of every bucket, the newest first.
PingRecords(width) ==
    SetToSortSeq(UNION {{[task |-> task, ts |-> b.at, value |-> b.last] : b \in Buckets(LatencyPoints(task), width)}
                        : task \in Tasks},
                 LAMBDA x, y : x.ts > y.ts \/ (x.ts = y.ts /\ x.task < y.task))

\* The running minimum takes a latency of 0 for "none yet".
Minimum(vs) == FoldLeft(LAMBDA m, v : IF m = 0 \/ v < m THEN v ELSE m, 0, vs)
Maximum(vs) == FoldLeft(LAMBDA m, v : IF v > m THEN v ELSE m, 0, vs)

\* getPercentileInt: linear between the two neighbours, rounded half up.
Percentile(sorted, percent) ==
    LET pos == (Len(sorted) - 1) * percent
        lo == sorted[pos \div 100 + 1]
        hi == sorted[(pos + 99) \div 100 + 1]
    IN  (2 * (lo * 100 + (hi - lo) * (pos % 100)) + 100) \div 200

\* The figures of a task, nothing but 0 and "no latest" without results.
Summary(records, task) ==
    LET mine == SelectSeq(records, LAMBDA r : r.task = task)
        valid == SelectSeq(mine, LAMBDA r : r.value >= 0)
        vs == [i \in DOMAIN valid |-> valid[i].value]
        sorted == SortSeq(vs, <)
    IN  [total |-> Len(mine), lost |-> Len(mine) - Len(valid), min |-> Minimum(vs), max |-> Maximum(vs),
         avg |-> IF vs = <<>> THEN 0 ELSE FoldLeft(+, 0, vs) \div Len(vs),
         latest |-> IF valid = <<>> THEN Lost ELSE valid[1].value,
         p50 |-> IF vs = <<>> THEN 0 ELSE Percentile(sorted, 50),
         p99 |-> IF vs = <<>> THEN 0 ELSE Percentile(sorted, 99)]

\* getPingStatsForNode, over the last hour and kept for a minute: the same
\* figures, the latest by its time, and the tail in percent of the median.
\* A task without a record has no figures.
NodeStats(records, task) ==
    LET f == Summary(records, task)
        valid == {r \in ToSet(records) : r.task = task /\ r.value >= 0}
    IN  [latest |-> IF valid = {} THEN Lost ELSE (CHOOSE r \in valid : \A s \in valid : s.ts <= r.ts).value,
         avg |-> f.avg, loss |-> (100 * f.lost) \div f.total, min |-> f.min, max |-> f.max,
         tail |-> IF f.p50 > 0 /\ f.p99 >= f.p50 THEN (100 * (f.p99 - f.p50)) \div f.p50 ELSE 0]

\* The figures of the client itself, over the records of all its tasks.
ClientStats(records) ==
    LET valid == SelectSeq(records, LAMBDA r : r.value >= 0)
        vs == [i \in DOMAIN valid |-> valid[i].value]
    IN  [total |-> Len(records), lost |-> Len(records) - Len(valid), min |-> Minimum(vs), max |-> Maximum(vs)]

-----------------------------------------------------------------------------
Of(task) == {r \in results : r.task = task}
Answered(task) == {r \in Of(task) : r.value # Lost}
Newest(S) == CHOOSE r \in S : \A s \in S : s.ts <= r.ts

(* Whatever buckets the results fall into and whichever of the two metrics is *)
(* kept, a task's total, losses and valid results are exact unless they are   *)
(* marked approximate; the marked ones never lose a result and never blame a  *)
(* task all of whose results arrived (publicPingLossRate).                    *)
LossIsExact ==
    \A width \in Widths : \A s \in Stats(width) :
        LET task == s[1] f == s[2] IN
        /\ f.total = Cardinality(Of(task)) /\ f.lost + f.valid = f.total
        /\ ~f.approximate => f.valid = Cardinality(Answered(task))
        /\ Answered(task) = Of(task) => f.lost = 0
        /\ Answered(task) = {} => f.valid = 0

(* The greatest latency is exact, the smallest is one that was measured, and  *)
(* the latest is the newest result when that one arrived                      *)
(* (positiveAggregateMax, latestPositiveAggregate).                           *)
ExtremesAreMeasured ==
    \A width \in Widths : \A s \in Stats(width) :
        LET task == s[1] f == s[2] vs == {r.value : r \in Answered(task)} IN
        ~latencyOff =>
            /\ f.max = IF vs = {} THEN Nobody ELSE Max(vs)
            /\ f.min \in vs \cup {Nobody}
            /\ f.min # Nobody => f.min <= f.max
            /\ Newest(Of(task)).value # Lost => f.latest = Newest(Of(task)).value
            /\ vs = {} => f.latest = Nobody

(* The figures of a task agree with one another and with its records: the     *)
(* percentiles lie between the extremes and in order, whatever the number of  *)
(* records, and the minimum is exact as long as no latency is 0, which is     *)
(* taken for "no minimum yet".  The figures of the client are those of its    *)
(* tasks together, and the three pages that show them name the same latest    *)
(* result (getRecords, getPingStatsForNode, publicGetPingRecords).            *)
FiguresAgree ==
    \A width \in Widths :
        LET records == PingRecords(width)
            f == [task \in Tasks |-> Summary(records, task)]
            all == ClientStats(records)
        IN
        /\ all.total = SumBy(Tasks, LAMBDA task : f[task].total)
        /\ all.lost = SumBy(Tasks, LAMBDA task : f[task].lost)
        /\ all.max = Max({f[task].max : task \in Tasks})
        /\ \A task \in Tasks :
             LET vs == {r.value : r \in {x \in ToSet(records) : x.task = task}} \ {Lost}
                 node == NodeStats(records, task)
             IN  vs # {} =>
                 /\ f[task].p50 <= f[task].p99 /\ f[task].p99 <= f[task].max /\ Min(vs) <= f[task].p50
                 /\ Min(vs) <= f[task].avg /\ f[task].avg <= f[task].max
                 /\ f[task].latest \in vs /\ f[task].min \in vs
                 /\ 0 \notin vs => f[task].min = Min(vs)
                 /\ (\A r \in ToSet(records) : r.value # 0) => all.min <= f[task].min
                 /\ node.latest = f[task].latest
                 /\ 0 \notin vs => (node.tail = 0 => f[task].p99 < 2 * f[task].p50)
=============================================================================
