------------------------------ MODULE Sampling -------------------------------
(* What a chart is thinned to and what is filled in: the shares of groups and *)
(* the records sampled from each (web/rpc/jsonrpc/common.record.go), and the  *)
(* null points that mark gaps (web/rpc/jsonrpc/public.metric.go). The inputs  *)
(* are enumerated; a record is its position, a point its time.                *)
EXTENDS Integers, FiniteSets, FiniteSetsExt, SequencesExt, TLC

CONSTANTS Groups, MaxLength, MaxCounts, MaxPointTime, Intervals     \* bounds on the inputs

VARIABLES request,     \* the records of each group and the limit, or the points of a series
          response
fvars == <<request, response>>

None == [kind |-> "none"]
Lengths == [Groups -> 0..MaxLength]
Init == /\ request \in [kind : {"records"}, length : Lengths, maxCount : MaxCounts \cup {-1}]
                       \cup [kind : {"series"}, times : SUBSET (0..MaxPointTime), nulls : {{}, {1}, {2}},
                             interval : Intervals]
        /\ response = None

-----------------------------------------------------------------------------
Total(length) == MapThenSumSet(LAMBDA g : length[g], DOMAIN length)
Floor(length, max, g) == (length[g] * max) \div Total(length)
Fraction(length, max, g) == (length[g] * max) % Total(length)

\* allocateTargets: the floors of the proportional shares, then one more for the
\* largest remainders; equal remainders are taken in any order.
Allocations(length, max) ==
  IF max < 0 \/ Total(length) <= max THEN {length}
  ELSE LET floors == [g \in DOMAIN length |-> Floor(length, max, g)]
           eligible == {g \in DOMAIN length : floors[g] < length[g]}
           need == max - Total(floors)
           Largest(more) == \A g \in more, h \in eligible \ more :
                              Fraction(length, max, g) >= Fraction(length, max, h)
       IN {[g \in DOMAIN length |-> floors[g] + (IF g \in more THEN 1 ELSE 0)] :
           more \in {s \in SUBSET eligible : Cardinality(s) = need /\ Largest(s)}}

\* sampleEvenly: the nearest of evenly spread positions, from the first to the last.
\* Faulty variant: the spread is one step too long.
EvenlyShort(n, k) == IF k >= n THEN [i \in 1..n |-> i]
                     ELSE [i \in 1..k |-> 1 + (2 * (i - 1) * (n - 1) + k) \div (2 * k)]

Evenly(n, k) == IF k >= n THEN [i \in 1..n |-> i]
                ELSE IF k = 1 THEN <<n>>
                ELSE [i \in 1..k |-> 1 + (2 * (i - 1) * (n - 1) + (k - 1)) \div (2 * (k - 1))]

GetRecords == /\ request.kind = "records" /\ response = None
              /\ \E targets \in Allocations(request.length, request.maxCount) :
                   response' = [kind |-> "records",
                                picked |-> [g \in Groups |-> Evenly(request.length[g], targets[g])]]
              /\ UNCHANGED request

-----------------------------------------------------------------------------
\* adaptiveFillPublicMetricSeries: the cadence is the lower quartile of the steps
\* when there are two, and at least the interval of the buckets.
Times == [i \in 1..Cardinality(request.times) |->
            CHOOSE t \in request.times : Cardinality({u \in request.times : u < t}) = i - 1]
Steps == [i \in 1..(Len(Times) - 1) |-> Times[i + 1] - Times[i]]
Cadence == LET sorted == SortSeq(Steps, LAMBDA a, b : a < b)
               observed == IF Len(sorted) < 2 THEN 0 ELSE sorted[1 + (Len(sorted) - 1) \div 4]
           IN IF observed > request.interval THEN observed ELSE request.interval
\* Faulty variant: a step of the cadence itself is a gap.
GapAtCadence(step) == Cadence > 0 /\ step >= Cadence

Gap(step) == Cadence > 0 /\ 2 * step > 3 * Cadence

Null(t) == [time |-> t, real |-> FALSE]
Real(t) == [time |-> t, real |-> TRUE]
HasValue(i) == i \notin request.nulls
Filled == LET before == IF Times = <<>> \/ Times[1] > 0 THEN <<Null(0)>> ELSE <<>>
              Part(i) == (IF i > 1 /\ Gap(Times[i] - Times[i - 1]) /\ HasValue(i) /\ HasValue(i - 1)
                          THEN <<Null(Times[i - 1] + Cadence)>> ELSE <<>>) \o <<Real(Times[i])>>
          IN before \o FlattenSeq([i \in DOMAIN Times |-> Part(i)])
             \o (IF Times = <<>> THEN <<Null(MaxPointTime)>> ELSE <<>>)
FillSeries == /\ request.kind = "series" /\ response = None
              /\ response' = [kind |-> "series", points |-> Filled]
              /\ UNCHANGED request

Next == GetRecords \/ FillSeries
Spec == Init /\ [][Next]_fvars

-----------------------------------------------------------------------------
Exact(g) == request.length[g] * request.maxCount
Picked(g) == response.picked[g]

(* A thinned answer has exactly the records allowed; no group is more than    *)
(* one record from its proportional share; what a group shows are different   *)
(* records in order that end with its newest, and begin with its oldest when  *)
(* there is room for two (allocateTargets, sampleEvenly).                     *)
ThinnedFairly == response.kind = "records" =>
  LET all == Total(request.length)
      shown == Total([g \in Groups |-> Len(Picked(g))])
  IN /\ shown = IF request.maxCount < 0 \/ all <= request.maxCount THEN all ELSE request.maxCount
     /\ \A g \in Groups :
          /\ shown < all => /\ Len(Picked(g)) * all < Exact(g) + all
                            /\ Len(Picked(g)) * all > Exact(g) - all
          /\ \A i, j \in DOMAIN Picked(g) : i < j => Picked(g)[i] < Picked(g)[j]
          /\ Len(Picked(g)) > 0 => Picked(g)[Len(Picked(g))] = request.length[g]
          /\ Len(Picked(g)) > 1 => Picked(g)[1] = 1

(* Filling keeps every point and its order, marks a gap strictly between two  *)
(* points, and never ends a series that has points with a null.               *)
FillKeepsPoints == response.kind = "series" =>
  LET points == response.points IN
  /\ {points[i].time : i \in {j \in DOMAIN points : points[j].real}} = request.times
  /\ \A i, j \in DOMAIN points : i < j => points[i].time < points[j].time
  /\ request.times # {} => points[Len(points)].real
=============================================================================
