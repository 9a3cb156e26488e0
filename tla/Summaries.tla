------------------------------ MODULE Summaries ------------------------------
(* What is computed from the samples of one series: the summaries of its      *)
(* minutes, which are added to, written, read back, merged and cascaded into  *)
(* coarser ones, and the answers made from them (pkg/metric: rollup.go,       *)
(* aggregate.go, batch_series.go, rollup_store.go, store.go).  A t-digest is  *)
(* the bag of its values.  Duplicate timestamps, which rebuild a minute, are  *)
(* in RollupStore; here a label set has one sample per timestamp.             *)
EXTENDS Integers, Sequences, FiniteSets, SequencesExt, FiniteSetsExt

CONSTANTS Labels, Values, MaxTime, Minute, Hour, MaxWrites
          \* Hour is a multiple of Minute

VARIABLES points,   \* the samples, in the order they were accepted
          raw,      \* how many of the oldest ones the exact window forgot
          hot, row  \* per label set and minute: summary in memory, stored row
svars == <<points, raw, hot, row>>

Time == 0..MaxTime
Start(t, width) == (t \div width) * width
Minutes == {Start(t, Minute) : t \in Time}
Ordered(S) == SetToSortSeq(S, <)
NoDigest == [v \in {} |-> 0]
NoValues == [v \in Values |-> 0]

-----------------------------------------------------------------------------
(* rollupBucket *)

NewBucket == [count |-> 0, sum |-> 0, sumSq |-> 0, min |-> 0, max |-> 0,
              firstVal |-> 0, firstTS |-> 0, lastVal |-> 0, lastTS |-> 0, digest |-> NoValues]
OfPoint(v, t) == [count |-> 1, sum |-> v, sumSq |-> v * v, min |-> v, max |-> v,
                  firstVal |-> v, firstTS |-> t, lastVal |-> v, lastTS |-> t,
                  digest |-> [NoValues EXCEPT ![v] = 1]]

Both(b, o) ==
    [b EXCEPT !.count = @ + o.count, !.sum = @ + o.sum, !.sumSq = @ + o.sumSq,
              !.min = Min({@, o.min}), !.max = Max({@, o.max}),
              !.firstVal = IF o.firstTS < b.firstTS THEN o.firstVal ELSE @, !.firstTS = Min({@, o.firstTS}),
              !.lastVal = IF o.lastTS > b.lastTS THEN o.lastVal ELSE @, !.lastTS = Max({@, o.lastTS}),
              !.digest = [v \in Values |-> @[v] + o.digest[v]]]
\* mergeStored, mergeRollupValues: nothing comes of an empty side.
Merge(b, o) == IF o.count = 0 THEN b ELSE IF b.count = 0 THEN o ELSE Both(b, o)
AddPoint(b, v, t) == Merge(b, OfPoint(v, t))

\* A row keeps no digest of a constant bucket; the reader builds it again.
\* Faulty variant: a bucket of two samples is written without its digest too.
EncodedSmall(b) == IF b.count = 0 \/ b.count = 2 \/ b.min = b.max THEN [b EXCEPT !.digest = NoDigest] ELSE b
Encoded(b) == IF b.count = 0 \/ b.min = b.max THEN [b EXCEPT !.digest = NoDigest] ELSE b
Decoded(b) == IF b.digest = NoDigest THEN [b EXCEPT !.digest = [NoValues EXCEPT ![b.min] = b.count]] ELSE b
Unwritten == [NewBucket EXCEPT !.digest = NoDigest]
Read(l, m) == IF row[l][m] = Unwritten THEN NewBucket ELSE Decoded(row[l][m])

MergeAll(bs) == FoldLeft(Merge, NewBucket, bs)

-----------------------------------------------------------------------------
Init == /\ points = <<>> /\ raw = 0
        /\ hot = [l \in Labels |-> [m \in Minutes |-> NewBucket]]
        /\ row = [l \in Labels |-> [m \in Minutes |-> Unwritten]]

Write(l, v, t) ==
    /\ Len(points) < MaxWrites
    /\ \A i \in DOMAIN points : ~(points[i].label = l /\ points[i].ts = t)
    /\ points' = Append(points, [label |-> l, value |-> v, ts |-> t])
    /\ hot' = [hot EXCEPT ![l][Start(t, Minute)] = AddPoint(@, v, t)]
    /\ UNCHANGED <<raw, row>>

\* A closed minute is merged into the row it may already have.
Stored(l, m) == Encoded(Merge(Read(l, m), hot[l][m]))
Flush(l, m) ==
    /\ hot[l][m].count > 0
    /\ row' = [row EXCEPT ![l][m] = Stored(l, m)] /\ hot' = [hot EXCEPT ![l][m] = NewBucket]
    /\ UNCHANGED <<points, raw>>

\* The oldest samples leave the exact window; a restart empties it.
Forget == /\ \E n \in raw+1..Len(points) : raw' = n
          /\ UNCHANGED <<points, hot, row>>

Next == \/ \E l \in Labels, v \in Values, t \in Time : Write(l, v, t)
        \/ \E l \in Labels, m \in Minutes : Flush(l, m)
        \/ Forget
Spec == Init /\ [][Next]_svars

-----------------------------------------------------------------------------
(* Answers *)

\* The stored rows by bucket, then the hot buckets in the order of the map.
Consumed(b, width) ==
    LET ms == Ordered({m \in Minutes : Start(m, width) = b})
        Rows(m) == MergeAll([i \in 1..Cardinality(Labels) |-> Read(SetToSeq(Labels)[i], m)])
        Hots(m) == MergeAll([i \in 1..Cardinality(Labels) |-> hot[SetToSeq(Labels)[i]][m]])
    IN  MergeAll([i \in DOMAIN ms |-> Rows(ms[i])] \o [i \in DOMAIN ms |-> Hots(ms[i])])

\* An hour's row is the merge of its minutes' rows, written and read back.
Cascaded(l, b) ==
    LET ms == Ordered({m \in Minutes : Start(m, Hour) = b})
    IN  Merge(NewBucket, MergeAll([i \in DOMAIN ms |-> Merge(Read(l, ms[i]), hot[l][ms[i]])]))
HourOf(l, b) == LET c == Cascaded(l, b) IN IF c.count = 0 THEN c ELSE Decoded(Encoded(c))
ConsumedHours(b) == MergeAll([i \in 1..Cardinality(Labels) |-> HourOf(SetToSeq(Labels)[i], b)])

\* rollupBucket.value: exact fractions, the variance times the count squared.
Avg(b) == <<b.sum, b.count>>
Variance(b) == b.count * b.sumSq - b.sum * b.sum
\* A percentile lies between two neighbours of the ordered samples; the k-th of them.
Quantile(bag, k) == Min({v \in DOMAIN bag : FoldFunctionOnSet(+, 0, bag, {u \in DOMAIN bag : u <= v}) >= k})

\* counterRate and rollupCounterRate: only growth counts.
Increase(vs) == FoldLeft(LAMBDA acc, i : acc + Max({0, vs[i + 1] - vs[i]}), 0, [i \in 1..Len(vs)-1 |-> i])
\* The last sample of every summary stands for it in a rate.
MinuteSummaries ==
    {b \in {Read(l, m) : l \in Labels, m \in Minutes} \cup {hot[l][m] : l \in Labels, m \in Minutes} : b.count > 0}
Representatives == {[ts |-> b.lastTS, value |-> b.lastVal] : b \in MinuteSummaries}

\* pageBuckets.
Page(bs, limit, offset) ==
    IF offset >= Len(bs) THEN <<>>
    ELSE SubSeq(bs, offset + 1, IF limit > 0 THEN Min({offset + limit, Len(bs)}) ELSE Len(bs))

\* LatestBefore: the newest exact sample, unless a summary ends later.
Exact(before) == {i \in raw+1..Len(points) : points[i].ts < before}
Hours == {Start(t, Hour) : t \in Time}
Ends(before) == {b \in MinuteSummaries \cup {HourOf(l, h) : l \in Labels, h \in Hours} : b.count > 0 /\ b.lastTS < before}
LatestBefore(before) ==
    LET exact == {[ts |-> points[i].ts, value |-> points[i].value] : i \in Exact(before)}
        ends == {[ts |-> b.lastTS, value |-> b.lastVal] : b \in Ends(before)}
        Newest(S) == {s \in S : \A u \in S : u.ts <= s.ts}
    IN  IF exact = {} \/ \E e \in ends : \A s \in exact : e.ts > s.ts THEN Newest(ends) ELSE Newest(exact)

-----------------------------------------------------------------------------
Inside(b, width) == {i \in DOMAIN points : Start(points[i].ts, width) = b}
BagOf(I) == [v \in Values |-> Cardinality({i \in I : points[i].value = v})]
SumOf(I, F(_)) == FoldSet(LAMBDA i, acc : acc + F(points[i].value), 0, I)
ValuesAt(I, t) == {points[i].value : i \in {j \in I : points[j].ts = t}}
Times(I) == {points[i].ts : i \in I}

\* The definitions of aggregate.go, over the samples themselves.
IsSummaryOf(b, I) ==
    /\ b.count = Cardinality(I) /\ b.sum = SumOf(I, LAMBDA v : v) /\ b.sumSq = SumOf(I, LAMBDA v : v * v)
    /\ I # {} =>
         /\ b.min = Min({points[i].value : i \in I}) /\ b.max = Max({points[i].value : i \in I})
         /\ b.firstTS = Min(Times(I)) /\ b.firstVal \in ValuesAt(I, b.firstTS)
         /\ b.lastTS = Max(Times(I)) /\ b.lastVal \in ValuesAt(I, b.lastTS)
         /\ b.digest = BagOf(I)
         /\ \A k \in 1..b.count :
              LET v == Quantile(b.digest, k) IN
              /\ Cardinality({i \in I : points[i].value < v}) < k
              /\ Cardinality({i \in I : points[i].value <= v}) >= k
         /\ Variance(b) = SumOf(I, LAMBDA v : (b.count * v - b.sum) * (b.count * v - b.sum)) \div b.count

(* However the samples of a bucket are split over memory, rows and tiers, and *)
(* however often they are written and read back, count, sum, extremes, first, *)
(* last, deviation and percentiles are those of the samples, and the hourly   *)
(* tier answers what the minutes answer (mergeStored, encodedDigest).         *)
SummariesExact ==
    /\ \A m \in Minutes : IsSummaryOf(Consumed(m, Minute), Inside(m, Minute))
    /\ \A h \in Hours : /\ IsSummaryOf(Consumed(h, Hour), Inside(h, Hour))
                        /\ IsSummaryOf(ConsumedHours(h), Inside(h, Hour))

(* A rate never exceeds what the samples grew by, although it is taken from   *)
(* one sample of every summary (rollupCounterRate).                           *)
ByTime(S) == SetToSortSeq(S, LAMBDA x, y : x.ts < y.ts \/ (x.ts = y.ts /\ x.value < y.value))
Series(S) == LET s == ByTime(S) IN [i \in DOMAIN s |-> s[i].value]
RateIsGrowth ==
    Increase(Series(Representatives))
      <= Increase(Series({[ts |-> points[i].ts, value |-> points[i].value] : i \in DOMAIN points}))

(* The base of a report's traffic is never a sample of its own time or later, *)
(* is the newest sample when all are earlier, and is at least as new as the   *)
(* window and the finished minutes know (LatestBefore).                       *)
LatestIsNewest ==
    \A before \in 1..MaxTime + 1 :
        LET latest == LatestBefore(before)
            earlier == {i \in DOMAIN points : points[i].ts < before}
            Newer(t) == \A s \in latest : s.ts >= t
        IN  /\ \A s \in latest : s.ts < before /\ s.value \in ValuesAt(DOMAIN points, s.ts)
            /\ earlier = DOMAIN points /\ points # <<>> => latest # {} /\ Newer(Max(Times(earlier)))
            /\ \A i \in earlier :
                 i > raw \/ Start(points[i].ts, Minute) + Minute <= before => latest # {} /\ Newer(points[i].ts)

(* The pages of an answer, whatever their size, put together are the answer.  *)
PagesAreWhole ==
    \A n \in 0..4, limit \in 1..3 :
        LET bs == [i \in 1..n |-> i]
            pages == [i \in 1..5 |-> Page(bs, limit, (i - 1) * limit)]
        IN  FlattenSeq(pages) = bs
=============================================================================
