---------------------------- MODULE SeriesReads -----------------------------
(* Chart queries (pkg/metric: SeriesBatch, Series, Stats, EntityIDs; the RPC  *)
(* methods queryMetrics and getPingMetricStats): the interval asked for is    *)
(* fitted to a tier, the tier is chosen, the dictionary of series is read,    *)
(* and then rows and memory are read under the view lock, while samples are   *)
(* written, buckets flushed and old rows deleted. Time is in minutes, the     *)
(* finest interval; a sample is a series and its minute.                      *)
EXTENDS Integers, FiniteSets, FiniteSetsExt

CONSTANTS Series,
          Tiers,        \* the store's policy: a sequence of [interval, retention]
          Retentions,   \* retentions a metric's definition may have
          MaxTime, MaxAsks      \* bounds

VARIABLES now,
          retention,    \* the metric's retention
          written,      \* history: every sample
          hot,          \* samples of minutes not flushed
          coarse, rows, \* buckets in memory and in the table: [tier, series, bucket, minutes]
          reader,       \* the query under way, and its answer
          asks
qvars == <<now, retention, written, hot, coarse, rows, reader, asks>>

Idle == [pc |-> "idle"]
Init == /\ now = 0 /\ retention \in Retentions /\ written = {} /\ hot = {} /\ coarse = {} /\ rows = {}
        /\ reader = Idle /\ asks = 0

-----------------------------------------------------------------------------
\* withMetricRetention: fine tiers are capped, the last follows the metric, and
\* a tier that keeps nothing longer than a finer one is left out.
Levels == DOMAIN Tiers
Interval(i) == Tiers[i].interval
Last == Cardinality(Levels)
Capped(i) == IF i = Last THEN retention
             ELSE IF Tiers[i].retention > retention THEN retention ELSE Tiers[i].retention
Kept == {i \in Levels : \A j \in 1..(i - 1) : Capped(i) > Capped(j)}
Above(i) == {j \in Kept : j > i}
BucketOf(t, i) == t - (t % Interval(i))

\* seriesResolutionForPolicy, bestRollupTier.
Divides(i, interval) == interval >= Interval(i) /\ interval % Interval(i) = 0
Best(interval, start, at) == {i \in Kept : Divides(i, interval) /\ at - Capped(i) <= start}
SeriesResolution(interval, start, at) ==
  LET fallback == {i \in Kept : Divides(i, interval)} \cup {1} IN
  Max(IF Best(interval, start, at) # {} THEN Best(interval, start, at) ELSE fallback)

\* CompatibleSeriesInterval asks the store's policy, not the metric's.
\* Faulty variant: it only rounds to the finest tier.
CompatibleFinest(start, at, interval) == interval + ((-interval) % Interval(1))

CompatibleSeriesInterval(start, at, interval) ==
  LET covering == {i \in Levels : at - Tiers[i].retention <= start}
      backing == Interval(IF covering = {} THEN Last ELSE Min(covering))
      floor == IF interval < Interval(1) THEN Interval(1) ELSE interval
  IN IF floor <= backing THEN backing ELSE floor + ((-floor) % backing)
DownsampleInterval(range, maxPoints) == (range + maxPoints - 1) \div maxPoints

-----------------------------------------------------------------------------
Tick == now < MaxTime /\ now' = now + 1 /\ UNCHANGED <<retention, written, hot, coarse, rows, reader, asks>>
Write(s) == /\ [series |-> s, at |-> now] \notin written
            /\ written' = written \cup {[series |-> s, at |-> now]}
            /\ hot' = hot \cup {[series |-> s, at |-> now]}
            /\ UNCHANGED <<now, retention, coarse, rows, reader, asks>>

\* A flushed bucket joins its parent of the next tier, in memory.
Fed(children, below) ==
  IF Above(below) = {} THEN coarse
  ELSE LET tier == Min(Above(below))
           parents == {<<c.series, BucketOf(c.bucket, tier)>> : c \in children}
           Of(p) == [tier |-> tier, series |-> p[1], bucket |-> p[2],
                     minutes |-> UNION {c.minutes : c \in {d \in children \cup coarse :
                       d.series = p[1] /\ BucketOf(d.bucket, tier) = p[2]
                       /\ (d \in children \/ d.tier = tier)}}]
       IN {c \in coarse : ~(c.tier = tier /\ <<c.series, c.bucket>> \in parents)} \cup {Of(p) : p \in parents}
FlushHot == LET closed == {h \in hot : h.at < now}
                flushed == {[tier |-> 1, series |-> h.series, bucket |-> h.at, minutes |-> {h.at}] : h \in closed}
            IN /\ closed # {} /\ hot' = hot \ closed
               /\ rows' = rows \cup flushed /\ coarse' = Fed(flushed, 1)
               /\ UNCHANGED <<now, retention, written, reader, asks>>
FlushCoarse(i) == LET closed == {c \in coarse : c.tier = i /\ c.bucket + Interval(i) <= now}
                  IN /\ closed # {} /\ rows' = rows \cup closed
                     /\ coarse' = Fed(closed, i) \ closed
                     /\ UNCHANGED <<now, retention, written, hot, reader, asks>>

\* cleanupRetained: a bucket that straddles the cutoff stays.
Cutoff(i) == BucketOf(now - Capped(i), i)
Cleanup == LET old == {r \in rows : r.tier \notin Kept \/ r.bucket < Cutoff(r.tier)}
           IN old # {} /\ rows' = rows \ old
              /\ UNCHANGED <<now, retention, written, hot, coarse, reader, asks>>

-----------------------------------------------------------------------------
\* A query takes the time, the definitions and the dictionary: the series with rows.
Dictionary == {r.series : r \in rows}
Ask(start, end, maxPoints) ==
  LET interval == CompatibleSeriesInterval(start, now, DownsampleInterval(end - start, maxPoints)) IN
  /\ reader.pc = "idle" /\ asks < MaxAsks /\ asks' = asks + 1 /\ start < end
  /\ reader' = [pc |-> "scan", start |-> start, end |-> end, at |-> now, series |-> Dictionary,
                tier |-> SeriesResolution(interval, start, now), interval |-> interval,
                due |-> written, answer |-> {}]
  /\ UNCHANGED <<now, retention, written, hot, coarse, rows>>

\* scanPersistedRollupGroup, scanMemoryRollupGroup; consume sorts every bucket into
\* the output bucket it begins in. An answer holds what each source counted.
InRange(bucket) == BucketOf(reader.start, reader.tier) <= bucket /\ bucket <= reader.end
Scanned(source, buckets) == {[source |-> source, bucket |-> b.bucket - (b.bucket % reader.interval),
                              series |-> b.series, at |-> t] : <<b, t>> \in
                             {<<c, m>> \in buckets \X (0..MaxTime) : m \in c.minutes}}
Persisted == Scanned("rows", {r \in rows : r.tier = reader.tier /\ r.series \in reader.series /\ InRange(r.bucket)})
Memory == IF reader.tier = 1
          THEN Scanned("hot", {[tier |-> 1, series |-> h.series, bucket |-> h.at, minutes |-> {h.at}] :
                               h \in {g \in hot : InRange(g.at)}})
          ELSE Scanned("coarse", {c \in coarse : c.tier = reader.tier /\ InRange(c.bucket)})
Scan == /\ reader.pc = "scan"
        /\ reader' = [reader EXCEPT !.pc = "answered", !.answer = Persisted \cup Memory]
        /\ UNCHANGED <<now, retention, written, hot, coarse, rows, asks>>
Done == /\ reader.pc = "answered" /\ reader' = Idle
        /\ UNCHANGED <<now, retention, written, hot, coarse, rows, asks>>

Next == \/ Tick \/ \E s \in Series : Write(s)
        \/ FlushHot \/ \E i \in Levels : FlushCoarse(i)
        \/ Cleanup
        \/ \E start \in (now - 2 * Tiers[Last].retention)..now, maxPoints \in 1..2 : Ask(start, now, maxPoints)
        \/ Scan \/ Done
Spec == Init /\ [][Next]_qvars

-----------------------------------------------------------------------------
\* A sample is in a sealed bucket of the tier below when it can be seen at all.
Sealed(sample) == \/ reader.tier = 1
                  \/ LET below == Max({i \in Kept : i < reader.tier})
                     IN \E r \in rows \cup {c \in coarse : c.tier = reader.tier} :
                          r.series = sample.series /\ sample.at \in r.minutes
                          /\ r.tier \in {below, reader.tier}
Retained(sample) == /\ sample.at >= now - retention
                    /\ sample.at >= reader.start + (now - reader.at) /\ sample.at <= reader.end
Counted(sample, answer) == {a \in answer : a.series = sample.series /\ a.at = sample.at}
Answers == reader.pc = "scan" /\ reader'.pc = "answered"

(* An answer counts every sample in its range that the metric retains, once,  *)
(* in the output bucket of its time, whatever tier and interval were chosen   *)
(* and whatever was flushed or deleted while the query ran (SeriesBatch), for *)
(* the series that had rows when it began.                                    *)
AnswersAreExact == Answers =>
  /\ \A sample \in written : Cardinality(Counted(sample, reader'.answer)) <= 1
  /\ \A sample \in reader.due : sample.series \in reader.series /\ Retained(sample) /\ Sealed(sample)
                                => Counted(sample, reader'.answer) # {}
  /\ \A a \in reader'.answer : a.bucket = a.at - (a.at % reader.interval)
AnswerExact == [][AnswersAreExact]_qvars

(* Rows and memory are one view while closed buckets move into the database   *)
(* (pkg/metric/store.go:63): what was written before the query is in it.      *)
OneQueryableView == [][Answers /\ reader.tier = 1 =>
  \A sample \in reader.due : Retained(sample) /\ sample.at >= now - Capped(1)
                             => Counted(sample, reader'.answer) # {}]_qvars
=============================================================================
