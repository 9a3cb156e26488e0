-------------------------- MODULE ReportBatcherProofs --------------------------
(***************************************************************************)
(* ReportBatcher keeps what it accepts and stores it once, for any number  *)
(* of reports, any capacity of the queue and any counters.                 *)
(*                                                                         *)
(* A batch that failed is written again with more reports behind it, so    *)
(* the argument needs to know that its reports get the same timestamps.    *)
(* They do because a timestamp depends on the agent's traffic state and    *)
(* the reports before it only, and that state has not moved (InPlace).     *)
(* The traffic is exact because that state is the one of the latest point  *)
(* in the store but for the batch that will be written again (Continued).  *)
(***************************************************************************)
EXTENDS ReportBatcher, SequenceLemmas

\* The number of reports is one; what the code gives a default or a limit.
ConstantsTyped == MaxReports \in Nat /\ QueueSize \in Nat /\ MaxUptime \in Nat

-----------------------------------------------------------------------------
(* The inductive invariant *)

\* The timestamps of a batch: each is later than the one before it.
Timing(T, batch, base) ==
  T = [i \in 0..Len(batch) |->
         IF i = 0 THEN base
         ELSE IF Stamp(batch[i]) <= T[i-1] THEN T[i-1] + 1 ELSE Stamp(batch[i])]

Typed ==
  /\ pc \in [Reports -> {"new", "enqueue", "queued", "rejected",
                         "direct", "writing", "saved", "failed"}]
  /\ registered \in BOOLEAN /\ stopping \in BOOLEAN
  /\ queue \in Seq(Reports) /\ pending \in Seq(Reports)
  /\ requests \in Seq({"flush", "stop"})
  /\ wstate \in {"waiting", "writing", "exited"}
  /\ current \in {"none", "ticker", "flush", "stop"}
  /\ stop \in {"idle", "send", "sent", "ok", "error", "timeout"}
  /\ traffic.ts \in Int /\ (~traffic.known => traffic.ts = -1)
  /\ DOMAIN plan = Reports

\* Handlers write by themselves once the worker is gone, and a worker that
\* takes the stop or has taken it finds nothing new in its queue.
Control ==
  /\ ~registered => wstate = "exited"
  /\ \A n \in Reports : pc[n] \in {"direct", "writing", "saved", "failed"} => wstate = "exited"
  /\ \/ wstate = "exited" \/ stop # "idle" \/ current = "stop" \/ "stop" \in Range(requests)
     => stopping
  /\ current = "stop" \/ wstate = "exited" => queue = <<>>
  /\ stop \in {"ok", "error"} => wstate = "exited"
  /\ wstate = "waiting" => current = "none"
  /\ wstate # "exited" => dropped = {}

\* A report is in one place of the queue or of the batch.
Placed ==
  /\ IsInjective(queue) /\ IsInjective(pending)
  /\ Range(queue) \cap Range(pending) = {}
  /\ \A n \in Range(queue) \cup Range(pending) : pc[n] = "queued"

\* What is stored has been drained, or its handler wrote it.
StoredLate ==
  \A t \in Times : stored[t].report # 0 =>
    /\ stored[t].report \in Reports \ Range(queue)
    /\ pc[stored[t].report] \in {"queued", "saved", "failed"}

\* What an earlier attempt has stored of a batch is where the next one puts it.
InPlace ==
  wstate # "exited" =>
    \E T : /\ Timing(T, pending, traffic.ts)
           /\ \A t \in Times : stored[t].report \in Range(pending) =>
                \E i \in 1..Len(pending) : pending[i] = stored[t].report /\ t = T[i]

\* A handler that writes by itself has prepared one point of its report.
Single(points, n) ==
  \E t : \A u \in Times : points[u] # NoPoint => u = t /\ points[u].report = n
Planned ==
  \A n \in Reports : pc[n] = "writing" =>
    /\ plan[n].values.ts \in Int /\ plan[n].values.known
    /\ Single(plan[n].points, n)

IInv == Typed /\ Control /\ Placed /\ StoredLate /\ InPlace /\ Planned
        /\ StoredOnce /\ AcceptedIsKept

\* What makes the traffic exact, as long as only the worker writes and every
\* base could be read. A stored report has its own counter, and what the store
\* held before the process is older than every report.
Clean == ~lookupFailed /\ \A n \in Reports : pc[n] \notin {"writing", "saved", "failed"}
Labelled ==
  \A t \in Times : stored[t] # NoPoint =>
    IF stored[t].report = 0 THEN t = 0 ELSE stored[t].counter = total[stored[t].report]

\* The traffic state is that of the latest point but for the points of the
\* batch that will be written again.
Continued ==
  /\ \A t \in Times : t > traffic.ts /\ stored[t] # NoPoint =>
       stored[t].report \in Range(pending) \/ (~traffic.known /\ stored[t].report = 0)
  /\ traffic.known =>
       /\ traffic.ts >= 0
       /\ traffic.ts \in Times => /\ stored[traffic.ts].report # 0
                                  /\ stored[traffic.ts].counter = traffic.counter
                                  /\ uptime[stored[traffic.ts].report] = traffic.uptime

Exact ==
  /\ DOMAIN total = Reports /\ DOMAIN uptime = Reports
  /\ \A n \in Reports : uptime[n] \in Int /\ uptime[n] >= 0
  /\ Clean => Labelled /\ (wstate # "exited" => Continued) /\ TrafficExact

-----------------------------------------------------------------------------
(* What a batch prepares *)

Folding(g, batch, first, m) ==
  g = [i \in 0..m |-> IF i = 0 THEN first ELSE Step(g[i-1], batch[i])]

\* The recursion over a batch defines a function, for every length.
LEMMA FoldingExists ==
  ASSUME NEW batch, NEW first, NEW m \in Nat
  PROVE  \E g : Folding(g, batch, first, m)
<1> DEFINE S == {n \in Nat : ~ \E g : Folding(g, batch, first, n)}
<1>1. SUFFICES ASSUME S # {}
               PROVE  FALSE
  OBVIOUS
<1>2. PICK n \in S : \A k \in S : n <= k
  <2>1. S \in SUBSET Nat
    OBVIOUS
  <2> HIDE DEF S
  <2> QED
    BY <1>1, <2>1, LeastNat
<1>3. n \in Nat /\ ~ \E g : Folding(g, batch, first, n)
  OBVIOUS
<1>4. CASE n = 0
  <2> DEFINE g == [i \in 0..0 |-> first]
  <2>1. Folding(g, batch, first, 0)
    BY DEF Folding
  <2> QED
    BY <1>3, <1>4, <2>1
<1>5. CASE n # 0
  <2>1. n - 1 \in Nat /\ ~(n <= n - 1)
    BY <1>3, <1>5
  <2>2. PICK g : Folding(g, batch, first, n - 1)
    BY <1>2, <2>1
  <2> DEFINE h == [i \in 0..n |-> IF i = n THEN Step(g[n-1], batch[n]) ELSE g[i]]
  <2>3. ASSUME NEW i \in 0..n
        PROVE  h[i] = IF i = 0 THEN first ELSE Step(h[i-1], batch[i])
    <3>1. CASE i = n
      <4>1. h[i-1] = g[n-1]
        BY <1>3, <1>5, <3>1
      <4>2. h[i] = Step(g[n-1], batch[n])
        BY <3>1
      <4> HIDE DEF h
      <4> QED
        BY <1>5, <3>1, <4>1, <4>2
    <3>2. CASE i # n
      <4>1. i \in 0..(n - 1) /\ h[i] = g[i]
        BY <1>3, <3>2
      <4>2. i # 0 => h[i-1] = g[i-1]
        BY <1>3, <4>1
      <4>3. g[i] = IF i = 0 THEN first ELSE Step(g[i-1], batch[i])
        BY <2>2, <4>1 DEF Folding
      <4> HIDE DEF h
      <4> QED
        BY <4>1, <4>2, <4>3
    <3> QED
      BY <3>1, <3>2
  <2>4. h = [i \in 0..n |-> h[i]]
    OBVIOUS
  <2> HIDE DEF h
  <2>5. h = [i \in 0..n |-> IF i = 0 THEN first ELSE Step(h[i-1], batch[i])]
    BY <2>3, <2>4
  <2>6. Folding(h, batch, first, n)
    BY <2>5 DEF Folding
  <2> QED
    BY <1>3, <2>6
<1> QED
  BY <1>4, <1>5

\* The timestamps of a batch are those the recursion gives.
LEMMA TimingOf ==
  ASSUME NEW batch, NEW first, NEW g, Len(batch) \in Nat,
         Folding(g, batch, first, Len(batch))
  PROVE  Timing([i \in 0..Len(batch) |-> g[i].values.ts], batch, first.values.ts)
<1> DEFINE T == [i \in 0..Len(batch) |-> g[i].values.ts]
<1>1. ASSUME NEW i \in 0..Len(batch)
      PROVE  T[i] = IF i = 0 THEN first.values.ts
                    ELSE IF Stamp(batch[i]) <= T[i-1] THEN T[i-1] + 1 ELSE Stamp(batch[i])
  <2>1. CASE i = 0
    BY <2>1 DEF Folding
  <2>2. CASE i # 0
    <3>1. i - 1 \in 0..Len(batch)
      BY <2>2
    <3>2. g[i] = Step(g[i-1], batch[i])
      BY <2>2 DEF Folding
    <3>3. Step(g[i-1], batch[i]).values.ts
            = IF Stamp(batch[i]) <= g[i-1].values.ts THEN g[i-1].values.ts + 1 ELSE Stamp(batch[i])
      BY DEF Step
    <3> QED
      BY <2>2, <3>1, <3>2, <3>3
  <2> QED
    BY <2>1, <2>2
<1>2. T = [i \in 0..Len(batch) |-> T[i]]
  OBVIOUS
<1> HIDE DEF T
<1>3. Timing(T, batch, first.values.ts)
  BY <1>1, <1>2 DEF Timing
<1> QED
  BY <1>3 DEF T

\* Every batch has its timestamps.
LEMMA TimingExists ==
  ASSUME NEW batch, Len(batch) \in Nat, NEW base
  PROVE  \E T : Timing(T, batch, base)
<1> DEFINE first == [values |-> [ts |-> base]]
<1>1. PICK g : Folding(g, batch, first, Len(batch))
  BY FoldingExists
<1>2. first.values.ts = base
  OBVIOUS
<1> HIDE DEF first
<1> QED
  BY <1>1, <1>2, TimingOf

\* Each timestamp of a batch is later than those before it.
LEMMA TimingGrows ==
  ASSUME ConstantsTyped, NEW batch \in Seq(Reports), NEW base \in Int, NEW T, Timing(T, batch, base)
  PROVE  /\ T \in [0..Len(batch) -> Int]
         /\ \A i, j \in 0..Len(batch) : i < j => T[i] < T[j]
<1> DEFINE P(n) == T[n] \in Int /\ \A i \in 0..Len(batch) : i < n => T[i] < T[n]
           S == {n \in 0..Len(batch) : ~P(n)}
<1>1. S = {}
  <2>1. SUFFICES ASSUME S # {}
                 PROVE  FALSE
    OBVIOUS
  <2>2. PICK n \in S : \A k \in S : n <= k
    <3>1. S \in SUBSET Nat
      OBVIOUS
    <3> HIDE DEF S
    <3> QED
      BY <2>1, <3>1, LeastNat
  <2>3. n \in 0..Len(batch) /\ ~P(n)
    OBVIOUS
  <2>4. CASE n = 0
    BY <2>3, <2>4 DEF Timing
  <2>5. CASE n # 0
    <3>1. n - 1 \in 0..Len(batch) /\ ~(n <= n - 1) /\ n \in 1..Len(batch) /\ n \in Int
      BY <2>3, <2>5
    <3>2. P(n - 1)
      BY <2>2, <3>1
    <3>3. Stamp(batch[n]) \in Int
      BY <3>1 DEF Stamp, K, Reports, ConstantsTyped
    <3>4. T[n] = IF Stamp(batch[n]) <= T[n-1] THEN T[n-1] + 1 ELSE Stamp(batch[n])
      BY <2>3, <2>5 DEF Timing
    <3>5. T[n] \in Int /\ T[n-1] < T[n] /\ T[n-1] \in Int
      BY <3>2, <3>3, <3>4
    <3>6. ASSUME NEW i \in 0..Len(batch), i < n
          PROVE  T[i] < T[n]
      <4>1. CASE i = n - 1
        BY <3>5, <4>1
      <4>2. CASE i # n - 1
        <5>1. i < n - 1
          BY <3>1, <3>6, <4>2
        <5>2. T[i] < T[n-1]
          BY <3>2, <5>1
        <5>3. T[i] \in Int
          <6>1. i \notin S
            BY <2>2, <3>1, <3>6
          <6> QED
            BY <6>1
        <5> QED
          BY <3>5, <5>2, <5>3
      <4> QED
        BY <4>1, <4>2
    <3> QED
      BY <2>3, <3>5, <3>6
  <2> QED
    BY <2>4, <2>5
<1>2. \A n \in 0..Len(batch) : P(n)
  BY <1>1
<1>3. T = [i \in 0..Len(batch) |-> T[i]]
  BY DEF Timing
<1> QED
  BY <1>2, <1>3

\* Reports that come behind a batch change none of its timestamps.
LEMMA TimingAgrees ==
  ASSUME NEW batch \in Seq(Reports), NEW longer \in Seq(Reports), Len(batch) <= Len(longer),
         \A i \in 1..Len(batch) : longer[i] = batch[i],
         NEW base, NEW T, NEW U, Timing(T, batch, base), Timing(U, longer, base)
  PROVE  \A i \in 0..Len(batch) : T[i] = U[i]
<1> DEFINE S == {n \in 0..Len(batch) : T[n] # U[n]}
<1>1. SUFFICES ASSUME S # {}
               PROVE  FALSE
  OBVIOUS
<1>2. PICK n \in S : \A k \in S : n <= k
  <2>1. S \in SUBSET Nat
    OBVIOUS
  <2> HIDE DEF S
  <2> QED
    BY <1>1, <2>1, LeastNat
<1>3. n \in 0..Len(batch) /\ n \in 0..Len(longer) /\ T[n] # U[n]
  OBVIOUS
<1>4. CASE n = 0
  BY <1>3, <1>4 DEF Timing
<1>5. CASE n # 0
  <2>1. n - 1 \in 0..Len(batch) /\ ~(n <= n - 1) /\ n \in 1..Len(batch)
    BY <1>3, <1>5
  <2>2. T[n-1] = U[n-1] /\ longer[n] = batch[n]
    BY <1>2, <2>1
  <2>3. T[n] = IF Stamp(batch[n]) <= T[n-1] THEN T[n-1] + 1 ELSE Stamp(batch[n])
    BY <1>3, <1>5 DEF Timing
  <2>4. U[n] = IF Stamp(longer[n]) <= U[n-1] THEN U[n-1] + 1 ELSE Stamp(longer[n])
    BY <1>3, <1>5 DEF Timing
  <2> QED
    BY <1>3, <2>2, <2>3, <2>4
<1> QED
  BY <1>4, <1>5

\* The point of a report that follows on a traffic state, and the state after it.
PointOf(n, values) == [report |-> n, counter |-> total[n], delta |-> Increase(values, n)]
After(ts, n) == [known |-> TRUE, ts |-> ts, counter |-> total[n], uptime |-> uptime[n]]

\* What a batch prepares, report by report: T are its timestamps, V the traffic
\* states between its reports.
Chained(T, V, batch, found) ==
  /\ Timing(T, batch, traffic.ts)
  /\ V[0] = Restored(batch[1], found)
  /\ \A i \in 1..Len(batch) : V[i] = After(T[i], batch[i])
  /\ Prepared(batch, found).values = V[Len(batch)]
  /\ \A i \in 1..Len(batch) : T[i] \in Times =>
       Prepared(batch, found).points[T[i]] = PointOf(batch[i], V[i-1])
  /\ \A t \in Times : Prepared(batch, found).points[t] # NoPoint =>
       \E i \in 1..Len(batch) : t = T[i]

\* Every report of a batch follows on the one before it, the first on the
\* agent's traffic state.
LEMMA PreparedChain ==
  ASSUME ConstantsTyped, Typed, NEW batch \in Seq(Reports), batch # <<>>, NEW found
  PROVE  \E T, V : Chained(T, V, batch, found)
<1> DEFINE first == [points |-> NoPoints, values |-> Restored(batch[1], found)]
           g == CHOOSE f : Folding(f, batch, first, Len(batch))
           T == [i \in 0..Len(batch) |-> g[i].values.ts]
           V == [i \in 0..Len(batch) |-> g[i].values]
<1>1. Folding(g, batch, first, Len(batch))
  <2>1. Len(batch) \in Nat
    OBVIOUS
  <2>2. \E f : Folding(f, batch, first, Len(batch))
    BY <2>1, FoldingExists
  <2> QED
    BY <2>2
<1>2. Prepared(batch, found) = g[Len(batch)]
  BY DEF Prepared, Folding
<1>3. first.values.ts = traffic.ts
  <2>1. CASE traffic.known
    BY <2>1 DEF Restored
  <2>2. CASE ~traffic.known
    BY <2>2 DEF Restored, NoTraffic, Typed
  <2> QED
    BY <2>1, <2>2
<1>4. first.points = NoPoints /\ first.values = Restored(batch[1], found)
  OBVIOUS
<1> HIDE DEF first, g
<1>5. Timing(T, batch, traffic.ts)
  <2>1. Len(batch) \in Nat
    OBVIOUS
  <2> QED
    BY <1>1, <1>3, <2>1, TimingOf
<1>6. T \in [0..Len(batch) -> Int] /\ \A i, j \in 0..Len(batch) : i < j => T[i] < T[j]
  BY <1>5, TimingGrows DEF Typed
<1>7. ASSUME NEW n \in 1..Len(batch)
      PROVE  /\ g[n].values = After(T[n], batch[n])
             /\ g[n].points = [g[n-1].points EXCEPT ![T[n]] = PointOf(batch[n], V[n-1])]
  <2>1. n \in 0..Len(batch) /\ n - 1 \in 0..Len(batch) /\ n # 0
    OBVIOUS
  <2>2. g[n] = Step(g[n-1], batch[n])
    BY <1>1, <2>1 DEF Folding
  <2>3. T[n] = g[n].values.ts /\ V[n-1] = g[n-1].values
    BY <2>1
  <2> DEFINE ts == IF Stamp(batch[n]) <= g[n-1].values.ts THEN g[n-1].values.ts + 1
                   ELSE Stamp(batch[n])
  <2>4. /\ g[n].values = After(ts, batch[n])
        /\ g[n].points = [g[n-1].points EXCEPT ![ts] = PointOf(batch[n], g[n-1].values)]
    BY <2>2 DEF Step, After, PointOf
  <2>5. g[n].values.ts = ts
    BY <2>4 DEF After
  <2> HIDE DEF ts
  <2> QED
    BY <2>3, <2>4, <2>5
<1> DEFINE P(n) == /\ DOMAIN g[n].points = Times
                   /\ \A i \in 1..n : T[i] \in Times => g[n].points[T[i]] = PointOf(batch[i], V[i-1])
                   /\ \A t \in Times : g[n].points[t] # NoPoint => \E i \in 1..n : t = T[i]
           S == {n \in 0..Len(batch) : ~P(n)}
<1>8. g[0].points = NoPoints /\ V[0] = Restored(batch[1], found)
  <2>1. 0 \in 0..Len(batch)
    OBVIOUS
  <2>2. g[0] = first
    BY <1>1, <2>1 DEF Folding
  <2> QED
    BY <1>4, <2>1, <2>2
<1>9. \A n \in 1..Len(batch) : V[n] = g[n].values
  OBVIOUS
<1> HIDE DEF T, V
<1>10. S = {}
  <2>1. SUFFICES ASSUME S # {}
                 PROVE  FALSE
    OBVIOUS
  <2>2. PICK n \in S : \A k \in S : n <= k
    <3>1. S \in SUBSET Nat
      OBVIOUS
    <3> HIDE DEF S
    <3> QED
      BY <2>1, <3>1, LeastNat
  <2>3. n \in 0..Len(batch) /\ ~P(n)
    OBVIOUS
  <2>4. CASE n = 0
    <3>1. DOMAIN g[0].points = Times /\ \A t \in Times : g[0].points[t] = NoPoint
      BY <1>8 DEF NoPoints
    <3> QED
      BY <2>3, <2>4, <3>1
  <2>5. CASE n # 0
    <3>1. n - 1 \in 0..Len(batch) /\ ~(n <= n - 1) /\ n \in 1..Len(batch) /\ n \in Int
      BY <2>3, <2>5
    <3>2. P(n - 1)
      BY <2>2, <3>1
    <3>3. g[n].points = [g[n-1].points EXCEPT ![T[n]] = PointOf(batch[n], V[n-1])]
      BY <1>7, <3>1
    <3>4. DOMAIN g[n].points = Times /\ DOMAIN g[n-1].points = Times
      BY <3>2, <3>3
    <3>5. ASSUME NEW i \in 1..n, T[i] \in Times
          PROVE  g[n].points[T[i]] = PointOf(batch[i], V[i-1])
      <4>1. CASE i = n
        BY <3>3, <3>4, <3>5, <4>1
      <4>2. CASE i # n
        <5>1. i \in 1..(n - 1) /\ i \in 0..Len(batch) /\ i < n /\ n \in 0..Len(batch)
          BY <2>3, <3>1, <4>2
        <5>2. T[i] # T[n]
          BY <1>6, <5>1
        <5> QED
          BY <3>2, <3>3, <3>4, <3>5, <5>1, <5>2
      <4> QED
        BY <4>1, <4>2
    <3>6. ASSUME NEW t \in Times, g[n].points[t] # NoPoint
          PROVE  \E i \in 1..n : t = T[i]
      <4>1. CASE t = T[n]
        BY <3>1, <4>1
      <4>2. CASE t # T[n]
        <5>1. PICK i \in 1..(n - 1) : t = T[i]
          BY <3>2, <3>3, <3>4, <3>6, <4>2
        <5>2. i \in 1..n
          BY <3>1
        <5> QED
          BY <5>1, <5>2
      <4> QED
        BY <4>1, <4>2
    <3> QED
      BY <2>3, <3>4, <3>5, <3>6
  <2> QED
    BY <2>4, <2>5
<1>11. Len(batch) \in 0..Len(batch) /\ Len(batch) \in 1..Len(batch)
  OBVIOUS
<1>12. P(Len(batch))
  BY <1>10, <1>11
<1>13. Chained(T, V, batch, found)
  <2>1. \A i \in 1..Len(batch) : V[i] = After(T[i], batch[i])
    BY <1>7, <1>9
  <2>2. Prepared(batch, found).values = V[Len(batch)]
    BY <1>2, <1>9, <1>11
  <2> QED
    BY <1>2, <1>5, <1>8, <1>12, <2>1, <2>2 DEF Chained
<1> QED
  BY <1>13

\* A batch prepares one point for each of its reports, at its timestamp.
LEMMA PreparedPoints ==
  ASSUME ConstantsTyped, Typed, NEW batch \in Seq(Reports), batch # <<>>, NEW found
  PROVE  \E T : /\ Timing(T, batch, traffic.ts)
                /\ Prepared(batch, found).values.ts = T[Len(batch)]
                /\ Prepared(batch, found).values.known
                /\ \A t \in Times : Prepared(batch, found).points[t] # NoPoint =>
                     \E i \in 1..Len(batch) :
                       t = T[i] /\ Prepared(batch, found).points[t].report = batch[i]
<1>1. PICK T, V : Chained(T, V, batch, found)
  BY PreparedChain
<1>2. Len(batch) \in 1..Len(batch)
  OBVIOUS
<1>3. /\ Prepared(batch, found).values.ts = T[Len(batch)]
      /\ Prepared(batch, found).values.known
  <2>1. Prepared(batch, found).values = After(T[Len(batch)], batch[Len(batch)])
    BY <1>1, <1>2 DEF Chained
  <2> QED
    BY <2>1 DEF After
<1>4. ASSUME NEW t \in Times, Prepared(batch, found).points[t] # NoPoint
      PROVE  \E i \in 1..Len(batch) :
               t = T[i] /\ Prepared(batch, found).points[t].report = batch[i]
  <2>1. PICK i \in 1..Len(batch) : t = T[i]
    BY <1>1, <1>4 DEF Chained
  <2>2. Prepared(batch, found).points[t] = PointOf(batch[i], V[i-1])
    BY <1>1, <2>1 DEF Chained
  <2> QED
    BY <2>1, <2>2 DEF PointOf
<1> QED
  BY <1>1, <1>3, <1>4 DEF Chained

-----------------------------------------------------------------------------
(* What the writes do *)

\* An attempt of the worker changes points of its batch only, each at its
\* timestamp, and the traffic state only when it succeeds.
LEMMA BatchWrite ==
  ASSUME ConstantsTyped, Typed, NEW o \in Outcomes, WritePending(o)
  PROVE  \E T : /\ Timing(T, pending, traffic.ts)
                /\ IF o = "written" THEN traffic'.ts = T[Len(pending)] /\ traffic'.known
                                    ELSE traffic' = traffic
                /\ \A t \in Times : \/ stored'[t] = stored[t]
                                    \/ \E i \in 1..Len(pending) :
                                         t = T[i] /\ stored'[t].report = pending[i]
<1>1. PICK found \in BOOLEAN : WritePrepared(Prepared(pending, found), pending, o)
  BY DEF WritePending
<1>2. pending \in Seq(Reports) /\ pending # <<>>
  BY DEF WritePending, Typed
<1> DEFINE p == Prepared(pending, found)
<1>3. PICK T : /\ Timing(T, pending, traffic.ts)
               /\ p.values.ts = T[Len(pending)] /\ p.values.known
               /\ \A t \in Times : p.points[t] # NoPoint =>
                    \E i \in 1..Len(pending) : t = T[i] /\ p.points[t].report = pending[i]
  BY <1>2, PreparedPoints
<1>4. /\ traffic' = IF o = "written" THEN p.values ELSE traffic
      /\ stored' = IF o = "refused" THEN stored ELSE Upserted(p.points)
  BY <1>1 DEF WritePrepared, KeptTraffic
<1> HIDE DEF p
<1>5. ASSUME NEW t \in Times, stored'[t] # stored[t]
      PROVE  \E i \in 1..Len(pending) : t = T[i] /\ stored'[t].report = pending[i]
  BY <1>3, <1>4, <1>5 DEF Upserted
<1> QED
  BY <1>3, <1>4, <1>5

\* A handler that writes by itself writes the point it prepared.
LEMMA OwnWrite ==
  ASSUME Typed, Planned, NEW n \in Reports, DirectWrite(n)
  PROVE  /\ traffic' = traffic \/ (traffic'.ts \in Int /\ traffic'.known)
         /\ \E t : \A u \in Times : stored'[u] = stored[u] \/ (u = t /\ stored'[u].report = n)
<1>1. PICK o \in Outcomes : WritePrepared(plan[n], <<n>>, o)
  BY DEF DirectWrite
<1>2. /\ traffic' = IF o = "written" THEN plan[n].values ELSE traffic
      /\ stored' = IF o = "refused" THEN stored ELSE Upserted(plan[n].points)
  BY <1>1 DEF WritePrepared, KeptTraffic
<1>3. plan[n].values.ts \in Int /\ plan[n].values.known /\ Single(plan[n].points, n)
  BY DEF DirectWrite, Planned
<1>4. PICK t : \A u \in Times : plan[n].points[u] # NoPoint => u = t /\ plan[n].points[u].report = n
  BY <1>3 DEF Single
<1>5. \A u \in Times : stored'[u] = stored[u] \/ (u = t /\ stored'[u].report = n)
  BY <1>2, <1>4 DEF Upserted
<1> QED
  BY <1>2, <1>3, <1>5

\* What the worker drains goes behind what it has left.
LEMMA Draining ==
  ASSUME Tick \/ TakeRequest
  PROVE  /\ wstate = "waiting" /\ wstate' = "writing"
         /\ pending' = pending \o queue /\ queue' = <<>>
         /\ \/ current' = "ticker" /\ requests' = requests
            \/ requests # <<>> /\ current' = Head(requests) /\ requests' = Tail(requests)
         /\ UNCHANGED <<handlers, registered, stopping, callers, store, plan, dropped>>
  BY DEF Tick, TakeRequest, Drain

-----------------------------------------------------------------------------
(* The traffic of what is written *)

\* The latest point before a timestamp, and what TrafficExact says of a point,
\* of any points.
LatestPoint(points, ts) ==
  LET earlier == {t \in Times : t < ts /\ points[t] # NoPoint}
  IN  IF earlier = {} THEN NoPoint
      ELSE points[CHOOSE t \in earlier : \A u \in earlier : u <= t]
FollowsAt(points, t) ==
  LET n      == points[t].report
      before == LatestPoint(points, t)
      lower  == before.report # 0 /\ uptime[n] < uptime[before.report]
  IN  points[t].delta =
        IF before.counter = -1 \/ total[n] < before.counter \/ lower
          THEN 0 ELSE total[n] - before.counter

\* A timestamp is past the start, where the store's older point is.
LEMMA StampPositive ==
  ASSUME ConstantsTyped, NEW n \in Reports
  PROVE  Stamp(n) \in Int /\ Stamp(n) > 0
<1>1. n \in Int /\ n > 0 /\ K \in Int /\ K > 0
  BY DEF ConstantsTyped, Reports, K
<1> QED
  BY <1>1 DEF Stamp

\* Times that are not empty have a latest one.
LEMMA LatestTime ==
  ASSUME ConstantsTyped, NEW S \in SUBSET Times, S # {}
  PROVE  \E t \in S : \A u \in S : u <= t
<1>1. Times \subseteq Int /\ K * K \in Int /\ \A t \in Times : t >= 0 /\ t <= K * K
  BY DEF ConstantsTyped, Times, K
<1> DEFINE far == {K * K - t : t \in S}
<1>2. far \in SUBSET Nat /\ far # {}
  BY <1>1
<1>3. PICK d \in far : \A e \in far : d <= e
  <2> HIDE DEF far
  <2> QED
    BY <1>2, LeastNat
<1>4. PICK t \in S : d = K * K - t
  OBVIOUS
<1>5. ASSUME NEW u \in S
      PROVE  u <= t
  <2>1. K * K - t <= K * K - u
    BY <1>3, <1>4
  <2>2. t \in Int /\ u \in Int
    BY <1>1
  <2> QED
    BY <1>1, <2>1, <2>2
<1> QED
  BY <1>5

\* The latest point is the one before.
LEMMA LatestIs ==
  ASSUME ConstantsTyped, NEW points, NEW t \in Times, NEW u \in Times,
         u < t, points[u] # NoPoint,
         \A w \in Times : w < t /\ points[w] # NoPoint => w <= u
  PROVE  LatestPoint(points, t) = points[u]
<1> DEFINE earlier == {w \in Times : w < t /\ points[w] # NoPoint}
<1>1. u \in earlier /\ \A w \in earlier : w <= u
  OBVIOUS
<1>2. (CHOOSE w \in earlier : \A v \in earlier : v <= w) = u
  <2>1. \A w \in earlier : (\A v \in earlier : v <= w) => w = u
    <3>1. Times \subseteq Int
      BY DEF Times
    <3> QED
      BY <1>1, <3>1
  <2> HIDE DEF earlier
  <2> QED
    BY <1>1, <2>1
<1>3. LatestPoint(points, t)
        = IF earlier = {} THEN NoPoint
          ELSE points[CHOOSE w \in earlier : \A v \in earlier : v <= w]
  BY DEF LatestPoint
<1> HIDE DEF earlier
<1> QED
  BY <1>1, <1>2, <1>3

\* Points that agree before a timestamp give it the same base.
LEMMA SameBefore ==
  ASSUME ConstantsTyped, NEW points, NEW others, NEW t \in Times,
         \A w \in Times : w < t => points[w] = others[w]
  PROVE  LatestPoint(points, t) = LatestPoint(others, t)
<1> DEFINE earlier == {w \in Times : w < t /\ points[w] # NoPoint}
           same == {w \in Times : w < t /\ others[w] # NoPoint}
<1>1. earlier = same
  OBVIOUS
<1>2. /\ LatestPoint(points, t)
           = IF earlier = {} THEN NoPoint
             ELSE points[CHOOSE w \in earlier : \A v \in earlier : v <= w]
      /\ LatestPoint(others, t)
           = IF same = {} THEN NoPoint
             ELSE others[CHOOSE w \in same : \A v \in same : v <= w]
  BY DEF LatestPoint
<1>3. earlier # {} => (CHOOSE w \in earlier : \A v \in earlier : v <= w) \in earlier
  <2>1. earlier \in SUBSET Times
    OBVIOUS
  <2> HIDE DEF earlier
  <2> QED
    BY <2>1, LatestTime
<1>4. \A w \in earlier : points[w] = others[w]
  OBVIOUS
<1> HIDE DEF earlier, same
<1> QED
  BY <1>1, <1>2, <1>3, <1>4

\* A point that was prepared from the state of the point before it is exact;
\* before the first report of the process there is no uptime to compare.
LEMMA PointFollows ==
  ASSUME NEW points, NEW t \in Times, NEW n, NEW values, points[t] = PointOf(n, values),
         uptime[n] \in Int, uptime[n] >= 0,
         LatestPoint(points, t).counter = values.counter,
         IF LatestPoint(points, t).report = 0 THEN values.uptime = -1
         ELSE uptime[LatestPoint(points, t).report] = values.uptime
  PROVE  FollowsAt(points, t)
<1>1. points[t].report = n /\ points[t].delta = Increase(values, n)
  BY DEF PointOf
<1> DEFINE before == LatestPoint(points, t)
<1>2. (before.report # 0 /\ uptime[n] < uptime[before.report]) <=> uptime[n] < values.uptime
  <2>1. CASE before.report = 0
    BY <2>1
  <2>2. CASE before.report # 0
    BY <2>2
  <2> QED
    BY <2>1, <2>2
<1>3. before.counter = values.counter
  OBVIOUS
<1> HIDE DEF before
<1>4. points[t].delta = IF before.counter = -1 \/ total[n] < before.counter
                             \/ (before.report # 0 /\ uptime[n] < uptime[before.report])
                          THEN 0 ELSE total[n] - before.counter
  <2> DEFINE lower == before.report # 0 /\ uptime[n] < uptime[before.report]
  <2>1. lower <=> uptime[n] < values.uptime
    BY <1>2
  <2> HIDE DEF lower
  <2>2. points[t].delta = IF values.counter = -1 \/ uptime[n] < values.uptime
                               \/ total[n] < values.counter
                            THEN 0 ELSE total[n] - values.counter
    BY <1>1 DEF Increase
  <2>3. points[t].delta = IF before.counter = -1 \/ total[n] < before.counter \/ lower
                            THEN 0 ELSE total[n] - before.counter
    BY <1>3, <2>1, <2>2
  <2> QED
    BY <2>3 DEF lower
<1> QED
  BY <1>1, <1>4 DEF FollowsAt, before

-----------------------------------------------------------------------------
(* Each part of the invariant is kept *)

\* Types.
LEMMA TypedStep ==
  ASSUME ConstantsTyped, IInv, [Next]_vars
  PROVE  Typed'
<1> USE DEF handlers, worker, callers, store
<1>0. Typed /\ Planned
  BY DEF IInv
<1>1. ASSUME NEW n \in Reports, Receive(n) \/ Enqueue(n)
      PROVE  Typed'
  <2>1. CASE Receive(n)
    BY <1>0, <2>1 DEF Receive, Typed
  <2>2. CASE Enqueue(n)
    <3>1. queue' = queue \/ queue' = Append(queue, n)
      BY <2>2 DEF Enqueue
    <3>2. queue' \in Seq(Reports)
      <4>1. queue \in Seq(Reports)
        BY <1>0 DEF Typed
      <4>2. Append(queue, n) \in Seq(Reports)
        BY <4>1, AppendProperties
      <4> QED
        BY <3>1, <4>1, <4>2
    <3>3. pc' \in [Reports -> {"new", "enqueue", "queued", "rejected",
                               "direct", "writing", "saved", "failed"}]
      BY <1>0, <2>2 DEF Enqueue, Typed
    <3> QED
      BY <1>0, <2>2, <3>2, <3>3 DEF Enqueue, Typed
  <2> QED
    BY <1>1, <2>1, <2>2
<1>2. ASSUME NEW n \in Reports, DirectPrepare(n)
      PROVE  Typed'
  BY <1>0, <1>2 DEF DirectPrepare, Typed
<1>3. ASSUME NEW n \in Reports, DirectWrite(n)
      PROVE  Typed'
  <2>1. traffic'.ts \in Int /\ (~traffic'.known => traffic'.ts = -1)
    BY <1>0, <1>3, OwnWrite DEF Typed
  <2>2. pc' \in [Reports -> {"new", "enqueue", "queued", "rejected",
                             "direct", "writing", "saved", "failed"}]
    BY <1>0, <1>3 DEF DirectWrite, Typed
  <2>3. DOMAIN plan' = Reports
    BY <1>0, <1>3 DEF DirectWrite, Typed
  <2>4. UNCHANGED <<registered, stopping, queue, pending, requests, wstate, current, stop>>
    BY <1>3 DEF DirectWrite
  <2> QED
    BY <1>0, <2>1, <2>2, <2>3, <2>4 DEF Typed
<1>4. CASE Tick \/ TakeRequest
  <2>1. pending' \in Seq(Reports) /\ queue' \in Seq(Reports)
    <3>1. pending' = pending \o queue /\ queue' = <<>>
      BY <1>4, Draining
    <3>2. pending \in Seq(Reports) /\ queue \in Seq(Reports)
      BY <1>0 DEF Typed
    <3> QED
      BY <3>1, <3>2, ConcatProperties, EmptySeq
  <2>2. /\ current' \in {"none", "ticker", "flush", "stop"}
        /\ requests' \in Seq({"flush", "stop"})
    <3>1. requests # <<>> => Head(requests) \in {"flush", "stop"} /\ Tail(requests) \in Seq({"flush", "stop"})
      BY <1>0 DEF Typed
    <3> QED
      BY <1>0, <1>4, <3>1, Draining DEF Typed
  <2> QED
    BY <1>0, <1>4, <2>1, <2>2, Draining DEF Typed
<1>5. CASE WriteNothing
  BY <1>0, <1>5 DEF WriteNothing, Finish, Typed
<1>6. ASSUME NEW o \in Outcomes, WritePending(o)
      PROVE  Typed'
  <2>1. traffic'.ts \in Int /\ (~traffic'.known => traffic'.ts = -1)
    <3>1. PICK T : /\ Timing(T, pending, traffic.ts)
                   /\ IF o = "written" THEN traffic'.ts = T[Len(pending)] /\ traffic'.known
                                       ELSE traffic' = traffic
      BY <1>0, <1>6, BatchWrite
    <3>2. pending \in Seq(Reports) /\ traffic.ts \in Int
      BY <1>0 DEF Typed
    <3>3. T \in [0..Len(pending) -> Int]
      BY <3>1, <3>2, TimingGrows
    <3>4. Len(pending) \in 0..Len(pending)
      BY <3>2
    <3> QED
      BY <1>0, <3>1, <3>3, <3>4 DEF Typed
  <2>2. /\ pending' \in Seq(Reports) /\ current' = "none"
        /\ wstate' \in {"waiting", "writing", "exited"}
        /\ stop' \in {"idle", "send", "sent", "ok", "error", "timeout"}
        /\ UNCHANGED <<handlers, registered, stopping, queue, requests, plan>>
    BY <1>0, <1>6 DEF WritePending, Finish, Left, Typed
  <2> QED
    BY <1>0, <2>1, <2>2 DEF Typed
<1>7. CASE BeginFlush \/ SendFlush \/ LeaveFlush
  <2>1. requests' = requests \/ requests' = <<"flush">>
    BY <1>7 DEF BeginFlush, SendFlush, LeaveFlush
  <2>2. requests' \in Seq({"flush", "stop"})
    <3>1. requests \in Seq({"flush", "stop"})
      BY <1>0 DEF Typed
    <3>2. <<"flush">> \in Seq({"flush", "stop"})
      OBVIOUS
    <3> QED
      BY <2>1, <3>1, <3>2
  <2>3. UNCHANGED <<pc, registered, stopping, queue, pending, wstate, current, stop, traffic, plan>>
    BY <1>7 DEF BeginFlush, SendFlush, LeaveFlush
  <2> QED
    BY <1>0, <2>2, <2>3 DEF Typed
<1>8. CASE BeginStop \/ SendStop \/ LeaveStop
  <2>1. requests' = requests \/ requests' = <<"stop">>
    BY <1>8 DEF BeginStop, SendStop, LeaveStop
  <2>2. requests' \in Seq({"flush", "stop"})
    <3>1. requests \in Seq({"flush", "stop"})
      BY <1>0 DEF Typed
    <3>2. <<"stop">> \in Seq({"flush", "stop"})
      OBVIOUS
    <3> QED
      BY <2>1, <3>1, <3>2
  <2>3. /\ UNCHANGED <<pc, queue, pending, wstate, current, traffic, plan>>
        /\ registered' \in BOOLEAN /\ stopping' \in BOOLEAN
        /\ stop' \in {"idle", "send", "sent", "ok", "error", "timeout"}
    BY <1>0, <1>8 DEF BeginStop, SendStop, LeaveStop, Typed
  <2> QED
    BY <1>0, <2>2, <2>3 DEF Typed
<1>9. CASE UNCHANGED vars
  BY <1>0, <1>9 DEF vars, Typed
<1> QED
  BY <1>1, <1>2, <1>3, <1>4, <1>5, <1>6, <1>7, <1>8, <1>9 DEF Next, Handlers, Worker, Callers

\* Who runs when.
LEMMA ControlStep ==
  ASSUME ConstantsTyped, IInv, [Next]_vars
  PROVE  Control'
<1> USE DEF handlers, worker, callers, store
<1>0. Typed /\ Control
  BY DEF IInv
<1>1. ASSUME NEW n \in Reports, Receive(n)
      PROVE  Control'
  BY <1>0, <1>1 DEF Receive, Control, Typed
<1>2. ASSUME NEW n \in Reports, Enqueue(n)
      PROVE  Control'
  <2>1. queue' = queue \/ ~stopping
    BY <1>2 DEF Enqueue, Accepts
  <2>2. /\ \A m \in Reports : pc'[m] = pc[m] \/ pc'[m] \in {"queued", "rejected"}
        /\ UNCHANGED <<registered, stopping, stop, current, requests, wstate, dropped>>
    BY <1>0, <1>2 DEF Enqueue, Typed
  <2> QED
    BY <1>0, <2>1, <2>2 DEF Control
<1>3. ASSUME NEW n \in Reports, DirectPrepare(n) \/ DirectWrite(n)
      PROVE  Control'
  <2>1. /\ \A m \in Reports : pc'[m] = pc[m] \/ pc[m] \in {"direct", "writing"}
        /\ UNCHANGED <<registered, stopping, stop, current, requests, queue, wstate, dropped>>
    BY <1>0, <1>3 DEF DirectPrepare, DirectWrite, Typed
  <2> QED
    BY <1>0, <2>1 DEF Control
<1>4. CASE Tick \/ TakeRequest
  <2>1. \/ current' = "stop" \/ "stop" \in Range(requests') => "stop" \in Range(requests)
    <3>1. requests # <<>> => /\ Head(requests) \in Range(requests)
                             /\ Range(Tail(requests)) \subseteq Range(requests)
      BY <1>0 DEF Typed, Range
    <3> QED
      BY <1>4, <3>1, Draining
  <2> QED
    BY <1>0, <1>4, <2>1, Draining DEF Control
<1>5. CASE WriteNothing
  BY <1>0, <1>5 DEF WriteNothing, Finish, Control, Typed
<1>6. ASSUME NEW o \in Outcomes, WritePending(o)
      PROVE  Control'
  BY <1>0, <1>6 DEF WritePending, Finish, Control, Typed
<1>7. CASE BeginFlush \/ SendFlush \/ LeaveFlush
  <2>1. "stop" \in Range(requests') => "stop" \in Range(requests)
    BY <1>7 DEF BeginFlush, SendFlush, LeaveFlush, Range
  <2> QED
    BY <1>0, <1>7, <2>1 DEF BeginFlush, SendFlush, LeaveFlush, Control
<1>8. CASE BeginStop \/ SendStop \/ LeaveStop
  <2>1. /\ \/ UNCHANGED requests \/ stop = "send"
        /\ UNCHANGED <<pc, queue, wstate, current, dropped>>
        /\ stopping' = (stopping \/ BeginStop)
        /\ stop' # "idle"
    BY <1>0, <1>8 DEF BeginStop, SendStop, LeaveStop, Typed
  <2>2. stopping'
    BY <1>0, <1>8 DEF BeginStop, SendStop, LeaveStop, Control
  <2>3. /\ ~registered' => wstate = "exited"
        /\ stop' \in {"ok", "error"} => wstate = "exited"
    BY <1>0, <1>8 DEF BeginStop, SendStop, LeaveStop, Control
  <2> QED
    BY <1>0, <2>1, <2>2, <2>3 DEF Control
<1>9. CASE UNCHANGED vars
  BY <1>0, <1>9 DEF vars, Control
<1> QED
  BY <1>1, <1>2, <1>3, <1>4, <1>5, <1>6, <1>7, <1>8, <1>9 DEF Next, Handlers, Worker, Callers

\* A report has one place.
LEMMA PlacedStep ==
  ASSUME ConstantsTyped, IInv, [Next]_vars
  PROVE  Placed'
<1> USE DEF handlers, worker, callers, store
<1>0. /\ Typed /\ Placed
      /\ queue \in Seq(Reports) /\ pending \in Seq(Reports)
      /\ Range(queue) \subseteq Reports /\ Range(pending) \subseteq Reports
  BY DEF IInv, Typed, Range
<1>1. ASSUME NEW n \in Reports, \/ Receive(n) \/ DirectPrepare(n) \/ DirectWrite(n)
                                \/ Enqueue(n) /\ queue' = queue
      PROVE  Placed'
  <2>1. UNCHANGED <<queue, pending>> /\ pc[n] # "queued" /\ \A m \in Reports \ {n} : pc'[m] = pc[m]
    BY <1>0, <1>1 DEF Receive, DirectPrepare, DirectWrite, Enqueue, Typed
  <2> QED
    BY <1>0, <2>1 DEF Placed
<1>2. ASSUME NEW n \in Reports, Enqueue(n), queue' # queue
      PROVE  Placed'
  <2>1. /\ queue' = Append(queue, n) /\ pending' = pending /\ pc[n] # "queued"
        /\ pc' = [pc EXCEPT ![n] = "queued"]
    BY <1>2 DEF Enqueue
  <2>2. Range(queue') = Range(queue) \cup {n}
    BY <1>0, <2>1, AppendAdds
  <2>3. n \notin Range(queue) /\ n \notin Range(pending)
    BY <1>0, <2>1 DEF Placed
  <2>4. IsInjective(queue')
    BY <1>0, <2>1, <2>3 DEF Placed, IsInjective, Range
  <2>5. \A m \in Reports : pc'[m] = IF m = n THEN "queued" ELSE pc[m]
    BY <1>0, <2>1 DEF Typed
  <2> QED
    BY <1>0, <2>1, <2>2, <2>3, <2>4, <2>5 DEF Placed
<1>3. CASE Tick \/ TakeRequest
  <2>1. pending' = pending \o queue /\ queue' = <<>> /\ pc' = pc
    BY <1>3, Draining
  <2>2. /\ Range(pending') = Range(pending) \cup Range(queue)
        /\ IsInjective(pending')
    BY <1>0, <2>1, ConcatOfPlaces DEF Placed
  <2>3. Range(queue') = {} /\ IsInjective(queue')
    BY <2>1 DEF Range, IsInjective
  <2> QED
    BY <1>0, <2>1, <2>2, <2>3 DEF Placed
<1>4. CASE WriteNothing \/ \E o \in Outcomes : WritePending(o)
  <2>1. /\ pending' = <<>> \/ pending' = pending
        /\ UNCHANGED <<pc, queue>>
    BY <1>4 DEF WriteNothing, WritePending, Finish, Left
  <2>2. Range(pending') \subseteq Range(pending) /\ IsInjective(pending')
    BY <1>0, <2>1 DEF Range, IsInjective, Placed
  <2> QED
    BY <1>0, <2>1, <2>2 DEF Placed
<1>5. CASE BeginFlush \/ SendFlush \/ LeaveFlush \/ BeginStop \/ SendStop \/ LeaveStop \/ UNCHANGED vars
  <2>1. UNCHANGED <<pc, queue, pending>>
    BY <1>5 DEF BeginFlush, SendFlush, LeaveFlush, BeginStop, SendStop, LeaveStop, vars
  <2> QED
    BY <1>0, <2>1 DEF Placed
<1> QED
  BY <1>1, <1>2, <1>3, <1>4, <1>5 DEF Next, Handlers, Worker, Callers

\* Nothing is stored before it is drained or written by its handler.
LEMMA StoredLateStep ==
  ASSUME ConstantsTyped, IInv, [Next]_vars
  PROVE  StoredLate'
<1> USE DEF handlers, worker, callers, store
<1>0. /\ Typed /\ Placed /\ StoredLate /\ Planned
      /\ queue \in Seq(Reports) /\ pending \in Seq(Reports)
      /\ Range(queue) \subseteq Reports /\ Range(pending) \subseteq Reports
  BY DEF IInv, Typed, Range
<1>1. ASSUME NEW n \in Reports, Receive(n) \/ DirectPrepare(n) \/ Enqueue(n)
      PROVE  StoredLate'
  <2>1. /\ stored' = stored /\ pc[n] \in {"new", "direct", "enqueue"}
        /\ \A m \in Reports \ {n} : pc'[m] = pc[m]
        /\ queue' = queue \/ queue' = Append(queue, n)
    BY <1>0, <1>1 DEF Receive, DirectPrepare, Enqueue, Typed
  <2>2. Range(queue') \subseteq Range(queue) \cup {n}
    BY <1>0, <2>1, AppendAdds
  <2> QED
    BY <1>0, <2>1, <2>2 DEF StoredLate
<1>2. ASSUME NEW n \in Reports, DirectWrite(n)
      PROVE  StoredLate'
  <2>1. PICK t : \A u \in Times : stored'[u] = stored[u] \/ (u = t /\ stored'[u].report = n)
    BY <1>0, <1>2, OwnWrite
  <2>2. /\ queue' = queue /\ pc[n] = "writing" /\ pc'[n] \in {"saved", "failed"}
        /\ \A m \in Reports \ {n} : pc'[m] = pc[m]
    BY <1>0, <1>2 DEF DirectWrite, Typed
  <2>3. n \notin Range(queue)
    BY <1>0, <2>2 DEF Placed
  <2> QED
    BY <1>0, <2>1, <2>2, <2>3 DEF StoredLate
<1>3. CASE Tick \/ TakeRequest
  <2>1. stored' = stored /\ pc' = pc /\ Range(queue') = {}
    BY <1>3, Draining DEF Range
  <2> QED
    BY <1>0, <2>1 DEF StoredLate
<1>4. ASSUME NEW o \in Outcomes, WritePending(o)
      PROVE  StoredLate'
  <2>1. PICK T : \A t \in Times : \/ stored'[t] = stored[t]
                                  \/ \E i \in 1..Len(pending) :
                                       t = T[i] /\ stored'[t].report = pending[i]
    BY <1>0, <1>4, BatchWrite
  <2>2. \A t \in Times : stored'[t] = stored[t] \/ stored'[t].report \in Range(pending)
    BY <1>0, <2>1 DEF Range
  <2>3. UNCHANGED <<pc, queue>>
    BY <1>4 DEF WritePending, Finish
  <2>4. \A n \in Range(pending) : n \in Reports \ Range(queue) /\ pc[n] = "queued"
    BY <1>0 DEF Placed
  <2> QED
    BY <1>0, <2>2, <2>3, <2>4 DEF StoredLate
<1>5. CASE \/ WriteNothing \/ BeginFlush \/ SendFlush \/ LeaveFlush
           \/ BeginStop \/ SendStop \/ LeaveStop \/ UNCHANGED vars
  <2>1. UNCHANGED <<pc, queue, stored>>
    BY <1>5 DEF WriteNothing, Finish, BeginFlush, SendFlush, LeaveFlush, BeginStop, SendStop, LeaveStop, vars
  <2> QED
    BY <1>0, <2>1 DEF StoredLate
<1> QED
  BY <1>1, <1>2, <1>3, <1>4, <1>5 DEF Next, Handlers, Worker, Callers

\* A batch that is tried again finds what is stored of it in place.
LEMMA InPlaceStep ==
  ASSUME ConstantsTyped, IInv, [Next]_vars
  PROVE  InPlace'
<1> USE DEF handlers, worker, callers, store
<1>0. /\ Typed /\ Control /\ Placed /\ StoredLate /\ InPlace
      /\ queue \in Seq(Reports) /\ pending \in Seq(Reports) /\ traffic.ts \in Int
  BY DEF IInv, Typed
<1>1. CASE /\ UNCHANGED <<pending, traffic, stored>>
           /\ wstate' = wstate \/ wstate' = "exited"
  BY <1>0, <1>1 DEF InPlace, Timing
<1>2. ASSUME NEW n \in Reports, DirectWrite(n)
      PROVE  InPlace'
  BY <1>0, <1>2 DEF DirectWrite, Control, InPlace
<1>3. CASE Tick \/ TakeRequest
  <2>1. /\ wstate = "waiting" /\ pending' = pending \o queue
        /\ UNCHANGED <<stored, traffic>>
    BY <1>3, Draining
  <2>2. PICK T : /\ Timing(T, pending, traffic.ts)
                 /\ \A t \in Times : stored[t].report \in Range(pending) =>
                      \E i \in 1..Len(pending) : pending[i] = stored[t].report /\ t = T[i]
    BY <1>0, <2>1 DEF InPlace
  <2> DEFINE longer == pending \o queue
  <2>3. /\ longer \in Seq(Reports) /\ Len(longer) \in Nat /\ Len(pending) <= Len(longer)
        /\ \A i \in 1..Len(pending) : longer[i] = pending[i]
        /\ Range(longer) = Range(pending) \cup Range(queue)
    <3>1. /\ longer \in Seq(Reports) /\ Len(longer) = Len(pending) + Len(queue)
          /\ \A i \in 1..(Len(pending) + Len(queue)) :
               longer[i] = IF i <= Len(pending) THEN pending[i] ELSE queue[i - Len(pending)]
          /\ Range(longer) = Range(pending) \cup Range(queue)
      BY <1>0, ConcatProperties, ConcatOfPlaces
    <3>2. Len(pending) \in Nat /\ Len(queue) \in Nat
      BY <1>0
    <3> HIDE DEF longer
    <3> QED
      BY <3>1, <3>2
  <2> HIDE DEF longer
  <2>4. PICK U : Timing(U, longer, traffic.ts)
    BY <2>3, TimingExists
  <2>5. \A i \in 0..Len(pending) : T[i] = U[i]
    BY <1>0, <2>2, <2>3, <2>4, TimingAgrees
  <2>6. ASSUME NEW t \in Times, stored[t].report \in Range(longer)
        PROVE  \E i \in 1..Len(longer) : longer[i] = stored[t].report /\ t = U[i]
    <3>1. stored[t].report \in Range(pending)
      <4>1. stored[t].report \notin Range(queue)
        <5>1. 0 \notin Range(queue)
          <6>1. Range(queue) \subseteq Reports
            BY <1>0 DEF Range
          <6> QED
            BY <6>1 DEF Reports, ConstantsTyped
        <5> QED
          BY <1>0, <5>1 DEF StoredLate
      <4> QED
        BY <2>3, <2>6, <4>1
    <3>2. PICK i \in 1..Len(pending) : pending[i] = stored[t].report /\ t = T[i]
      BY <2>2, <3>1
    <3>3. i \in 1..Len(longer) /\ i \in 0..Len(pending)
      BY <1>0, <2>3
    <3> QED
      BY <2>3, <2>5, <3>2, <3>3
  <2>7. pending' = longer /\ traffic' = traffic /\ stored' = stored
    BY <2>1 DEF longer
  <2> QED
    BY <2>4, <2>6, <2>7 DEF InPlace, Timing
<1>4. CASE \/ WriteNothing \/ \E o \in Outcomes : WritePending(o) /\ pending' = <<>>
  <2>1. pending' = <<>>
    BY <1>4 DEF WriteNothing, Finish
  <2>2. Len(pending') \in Nat /\ Range(pending') = {}
    BY <2>1 DEF Range
  <2>3. PICK T : Timing(T, pending', traffic'.ts)
    BY <2>2, TimingExists
  <2> QED
    BY <2>2, <2>3 DEF InPlace, Timing
<1>5. ASSUME NEW o \in Outcomes, WritePending(o), pending' # <<>>
      PROVE  InPlace'
  <2>1. PICK T : /\ Timing(T, pending, traffic.ts)
                 /\ IF o = "written" THEN traffic'.ts = T[Len(pending)] /\ traffic'.known
                                     ELSE traffic' = traffic
                 /\ \A t \in Times : \/ stored'[t] = stored[t]
                                     \/ \E i \in 1..Len(pending) :
                                          t = T[i] /\ stored'[t].report = pending[i]
    BY <1>0, <1>5, BatchWrite
  <2>2. pending' = pending /\ traffic' = traffic /\ wstate # "exited"
    BY <1>5, <2>1 DEF WritePending, Finish, Left
  <2>3. PICK U : /\ Timing(U, pending, traffic.ts)
                 /\ \A t \in Times : stored[t].report \in Range(pending) =>
                      \E i \in 1..Len(pending) : pending[i] = stored[t].report /\ t = U[i]
    BY <1>0, <2>2 DEF InPlace
  <2>4. \A i \in 1..Len(pending) : T[i] = U[i]
    <3>1. Len(pending) <= Len(pending) /\ 1..Len(pending) \subseteq 0..Len(pending)
      BY <1>0
    <3> QED
      BY <1>0, <2>1, <2>3, <3>1, TimingAgrees
  <2>5. \A t \in Times : stored'[t].report \in Range(pending) =>
          \E i \in 1..Len(pending) : pending[i] = stored'[t].report /\ t = T[i]
    BY <2>1, <2>3, <2>4
  <2> QED
    BY <2>1, <2>2, <2>5 DEF InPlace, Timing
<1>6. ASSUME NEW n \in Reports, Receive(n) \/ Enqueue(n) \/ DirectPrepare(n)
      PROVE  InPlace'
  BY <1>1, <1>6 DEF Receive, Enqueue, DirectPrepare
<1>7. CASE BeginFlush \/ SendFlush \/ LeaveFlush \/ BeginStop \/ SendStop \/ LeaveStop \/ UNCHANGED vars
  BY <1>1, <1>7 DEF BeginFlush, SendFlush, LeaveFlush, BeginStop, SendStop, LeaveStop, vars
<1> QED
  BY <1>2, <1>3, <1>4, <1>5, <1>6, <1>7 DEF Next, Handlers, Worker, Callers

\* A handler that writes by itself writes one point.
LEMMA PlannedStep ==
  ASSUME ConstantsTyped, IInv, [Next]_vars
  PROVE  Planned'
<1> USE DEF handlers, worker, callers, store
<1>0. Typed /\ Planned /\ traffic.ts \in Int /\ DOMAIN plan = Reports
  BY DEF IInv, Typed
<1>1. ASSUME NEW n \in Reports, Receive(n) \/ Enqueue(n)
      PROVE  Planned'
  <2>1. plan' = plan /\ \A m \in Reports : pc'[m] = "writing" => pc[m] = "writing"
    BY <1>0, <1>1 DEF Receive, Enqueue, Typed
  <2> QED
    BY <1>0, <2>1 DEF Planned
<1>2. ASSUME NEW n \in Reports, DirectPrepare(n)
      PROVE  Planned'
  <2>1. PICK found \in BOOLEAN : plan' = [plan EXCEPT ![n] = Prepared(<<n>>, found)]
    BY <1>2 DEF DirectPrepare
  <2>0. PICK b : b = <<n>>
    OBVIOUS
  <2> DEFINE p == Prepared(b, found)
  <2>2. b \in Seq(Reports) /\ b # <<>> /\ Len(b) = 1 /\ b[1] = n
    BY <2>0
  <2>3. PICK T : /\ Timing(T, b, traffic.ts)
                 /\ p.values.ts = T[Len(b)] /\ p.values.known
                 /\ \A t \in Times : p.points[t] # NoPoint =>
                      \E i \in 1..Len(b) : t = T[i] /\ p.points[t].report = b[i]
    <3> HIDE DEF p
    <3>1. \E T : /\ Timing(T, b, traffic.ts)
                 /\ Prepared(b, found).values.ts = T[Len(b)] /\ Prepared(b, found).values.known
                 /\ \A t \in Times : Prepared(b, found).points[t] # NoPoint =>
                      \E i \in 1..Len(b) : t = T[i] /\ Prepared(b, found).points[t].report = b[i]
      <4>1. Typed
        BY <1>0
      <4>2. b \in Seq(Reports) /\ b # <<>>
        BY <2>2
      <4> QED
        BY <4>1, <4>2, PreparedPoints
    <3>2. p = Prepared(b, found)
      BY DEF p
    <3> QED
      BY <3>1, <3>2
  <2>4. T[1] \in Int
    <3>1. T \in [0..Len(b) -> Int] /\ 1 \in 0..Len(b)
      BY <1>0, <2>2, <2>3, TimingGrows
    <3> QED
      BY <3>1
  <2>5. \A t \in Times : p.points[t] # NoPoint => t = T[1] /\ p.points[t].report = n
    BY <2>2, <2>3
  <2>6. plan'[n] = p /\ \A m \in Reports \ {n} : plan'[m] = plan[m] /\ pc'[m] = pc[m]
    BY <1>0, <1>2, <2>0, <2>1 DEF DirectPrepare, Typed
  <2> HIDE DEF p
  <2>7. plan'[n].values.ts \in Int /\ plan'[n].values.known /\ Single(plan'[n].points, n)
    <3>1. p.values.ts \in Int /\ p.values.known
      BY <2>2, <2>3, <2>4
    <3>2. Single(p.points, n)
      BY <2>5 DEF Single
    <3> QED
      BY <2>6, <3>1, <3>2
  <2> QED
    BY <1>0, <2>6, <2>7 DEF Planned
<1>3. ASSUME NEW n \in Reports, DirectWrite(n)
      PROVE  Planned'
  <2>1. /\ pc'[n] \in {"saved", "failed"}
        /\ \A m \in Reports \ {n} : plan'[m] = plan[m] /\ pc'[m] = pc[m]
    BY <1>0, <1>3 DEF DirectWrite, Typed
  <2> QED
    BY <1>0, <2>1 DEF Planned
<1>4. CASE Tick \/ TakeRequest
  <2>1. UNCHANGED <<pc, plan>>
    BY <1>4 DEF Tick, TakeRequest, Drain
  <2> QED
    BY <1>0, <2>1 DEF Planned, Single
<1>5. CASE \/ WriteNothing \/ \E o \in Outcomes : WritePending(o)
           \/ BeginFlush \/ SendFlush \/ LeaveFlush
           \/ BeginStop \/ SendStop \/ LeaveStop \/ UNCHANGED vars
  <2>1. UNCHANGED <<pc, plan>>
    BY <1>5 DEF WriteNothing, WritePending, Finish, BeginFlush, SendFlush, LeaveFlush,
                BeginStop, SendStop, LeaveStop, vars
  <2> QED
    BY <1>0, <2>1 DEF Planned, Single
<1> QED
  BY <1>1, <1>2, <1>3, <1>4, <1>5 DEF Next, Handlers, Worker, Callers

\* No write gives a report a second point.
LEMMA OnceStep ==
  ASSUME ConstantsTyped, IInv, [Next]_vars
  PROVE  StoredOnce'
<1> USE DEF handlers, worker, callers, store
<1>0. /\ Typed /\ Control /\ Placed /\ StoredLate /\ InPlace /\ Planned /\ StoredOnce
      /\ pending \in Seq(Reports) /\ traffic.ts \in Int
  BY DEF IInv, Typed
<1>1. CASE stored' = stored
  BY <1>0, <1>1 DEF StoredOnce
<1>2. ASSUME NEW n \in Reports, DirectWrite(n)
      PROVE  StoredOnce'
  <2>1. PICK t : \A u \in Times : stored'[u] = stored[u] \/ (u = t /\ stored'[u].report = n)
    BY <1>0, <1>2, OwnWrite
  <2>2. n # 0 /\ \A u \in Times : stored[u].report # n
    BY <1>0, <1>2 DEF DirectWrite, StoredLate, Reports
  <2> QED
    BY <1>0, <2>1, <2>2 DEF StoredOnce
<1>3. ASSUME NEW o \in Outcomes, WritePending(o)
      PROVE  StoredOnce'
  <2>1. PICK T : /\ Timing(T, pending, traffic.ts)
                 /\ \A t \in Times : \/ stored'[t] = stored[t]
                                     \/ \E i \in 1..Len(pending) :
                                          t = T[i] /\ stored'[t].report = pending[i]
    BY <1>0, <1>3, BatchWrite
  <2>2. PICK U : /\ Timing(U, pending, traffic.ts)
                 /\ \A t \in Times : stored[t].report \in Range(pending) =>
                      \E i \in 1..Len(pending) : pending[i] = stored[t].report /\ t = U[i]
    BY <1>0, <1>3 DEF InPlace, WritePending
  <2>3. \A i \in 1..Len(pending) : T[i] = U[i]
    <3>1. Len(pending) <= Len(pending) /\ 1..Len(pending) \subseteq 0..Len(pending)
      BY <1>0
    <3> QED
      BY <1>0, <2>1, <2>2, <3>1, TimingAgrees
  <2>4. \A t \in Times : stored'[t].report \in Range(pending) =>
          \E i \in 1..Len(pending) : pending[i] = stored'[t].report /\ t = T[i]
    BY <2>1, <2>2, <2>3
  <2>5. \A t \in Times : stored'[t].report \notin Range(pending) => stored'[t] = stored[t]
    BY <1>0, <2>1 DEF Range
  <2>6. ASSUME NEW t \in Times, NEW u \in Times,
               stored'[t].report = stored'[u].report, stored'[t].report # 0
        PROVE  t = u
    <3>1. CASE stored'[t].report \in Range(pending)
      <4>1. PICK i \in 1..Len(pending) : pending[i] = stored'[t].report /\ t = T[i]
        BY <2>4, <3>1
      <4>2. PICK j \in 1..Len(pending) : pending[j] = stored'[u].report /\ u = T[j]
        BY <2>4, <2>6, <3>1
      <4>3. i = j
        BY <1>0, <2>6, <4>1, <4>2 DEF Placed, IsInjective
      <4> QED
        BY <4>1, <4>2, <4>3
    <3>2. CASE stored'[t].report \notin Range(pending)
      <4>1. stored'[t] = stored[t] /\ stored'[u] = stored[u]
        BY <2>5, <2>6, <3>2
      <4> QED
        BY <1>0, <2>6, <4>1 DEF StoredOnce
    <3> QED
      BY <3>1, <3>2
  <2> QED
    BY <2>6 DEF StoredOnce
<1>4. CASE Tick \/ TakeRequest \/ WriteNothing
  BY <1>1, <1>4 DEF Tick, TakeRequest, Drain, WriteNothing
<1>5. ASSUME NEW n \in Reports, Receive(n) \/ Enqueue(n) \/ DirectPrepare(n)
      PROVE  StoredOnce'
  BY <1>1, <1>5 DEF Receive, Enqueue, DirectPrepare
<1>6. CASE BeginFlush \/ SendFlush \/ LeaveFlush \/ BeginStop \/ SendStop \/ LeaveStop \/ UNCHANGED vars
  BY <1>1, <1>6 DEF BeginFlush, SendFlush, LeaveFlush, BeginStop, SendStop, LeaveStop, vars
<1> QED
  BY <1>2, <1>3, <1>4, <1>5, <1>6 DEF Next, Handlers, Worker, Callers

\* No step loses an accepted report, and no stop that succeeds leaves one.
LEMMA KeptStep ==
  ASSUME ConstantsTyped, IInv, [Next]_vars
  PROVE  AcceptedIsKept'
<1> USE DEF handlers, worker, callers, store
<1>0. /\ Typed /\ Control /\ NothingVanishes /\ StopFlushes
      /\ queue \in Seq(Reports) /\ pending \in Seq(Reports)
  BY DEF IInv, Typed, AcceptedIsKept
<1>1. ASSUME NEW n \in Reports, \/ Receive(n) \/ DirectPrepare(n) \/ DirectWrite(n)
                                \/ Enqueue(n) /\ queue' = queue
      PROVE  AcceptedIsKept'
  <2>1. /\ \A m \in Reports : pc'[m] = "queued" => pc[m] = "queued"
        /\ UNCHANGED <<queue, pending, wstate, stop, dropped>>
    BY <1>0, <1>1 DEF Receive, DirectPrepare, DirectWrite, Enqueue, Typed
  <2>2. committed \subseteq committed'
    BY <1>1 DEF Receive, DirectPrepare, DirectWrite, Enqueue, WritePrepared
  <2> QED
    BY <1>0, <2>1, <2>2 DEF AcceptedIsKept, NothingVanishes, StopFlushes
<1>2. ASSUME NEW n \in Reports, Enqueue(n), queue' # queue
      PROVE  AcceptedIsKept'
  <2>1. /\ queue' = Append(queue, n) /\ pending' = pending /\ ~stopping
        /\ pc' = [pc EXCEPT ![n] = "queued"]
        /\ UNCHANGED <<committed, dropped, wstate, stop>>
    BY <1>2 DEF Enqueue, Accepts
  <2>2. Range(queue') = Range(queue) \cup {n}
    BY <1>0, <2>1, AppendAdds
  <2>3. wstate # "exited" /\ stop # "ok"
    BY <1>0, <2>1 DEF Control
  <2>4. \A m \in Reports : pc'[m] = IF m = n THEN "queued" ELSE pc[m]
    BY <1>0, <2>1 DEF Typed
  <2> QED
    BY <1>0, <2>1, <2>2, <2>3, <2>4 DEF AcceptedIsKept, NothingVanishes, StopFlushes
<1>3. CASE Tick \/ TakeRequest
  <2>1. /\ pending' = pending \o queue /\ wstate' # "exited"
        /\ UNCHANGED <<pc, committed, dropped, stop>>
    BY <1>3, Draining
  <2>2. Range(pending') = Range(pending) \cup Range(queue)
    BY <1>0, <2>1, ConcatOfPlaces
  <2> QED
    BY <1>0, <2>1, <2>2 DEF AcceptedIsKept, NothingVanishes, StopFlushes
<1>4. ASSUME wstate = "writing", UNCHANGED <<pc, queue>>,
             \/ Range(pending) \subseteq committed' /\ committed \subseteq committed'
             \/ Range(pending) \subseteq Range(pending') /\ committed' = committed,
             IF current = "stop"
               THEN wstate' = "exited" /\ dropped' = dropped \cup Range(pending')
               ELSE wstate' = "waiting" /\ dropped' = dropped,
             stop' = stop \/ (current = "stop" /\ (stop' = "ok" => Range(pending) \subseteq committed'))
      PROVE  AcceptedIsKept'
  <2>1. \A n \in Reports : pc[n] = "queued" =>
          n \in committed \cup dropped \/ n \in Range(queue) \cup Range(pending)
    BY <1>0 DEF NothingVanishes
  <2>2. current = "stop" => Range(queue) = {} /\ dropped = {}
    BY <1>0, <1>4 DEF Control, Range
  <2>3. NothingVanishes'
    BY <1>4, <2>1, <2>2 DEF NothingVanishes
  <2>4. StopFlushes'
    <3>1. stop # "ok"
      BY <1>0, <1>4 DEF Control
    <3> QED
      BY <1>4, <2>1, <2>2, <3>1 DEF StopFlushes
  <2> QED
    BY <2>3, <2>4 DEF AcceptedIsKept
<1>5. CASE WriteNothing
  <2>1. Range(pending) = {} /\ pending' = pending
    BY <1>5 DEF WriteNothing, Finish, Range
  <2>2. /\ wstate = "writing" /\ UNCHANGED <<pc, queue, committed>>
        /\ IF current = "stop"
             THEN wstate' = "exited" /\ dropped' = dropped \cup Range(pending')
             ELSE wstate' = "waiting" /\ dropped' = dropped
        /\ stop' = stop \/ current = "stop"
    BY <1>5 DEF WriteNothing, Finish
  <2> QED
    BY <1>4, <2>1, <2>2
<1>6. ASSUME NEW o \in Outcomes, WritePending(o)
      PROVE  AcceptedIsKept'
  <2>1. committed' = IF o = "written" THEN committed \cup Range(pending) ELSE committed
    BY <1>6 DEF WritePending, WritePrepared
  <2>2. /\ wstate = "writing" /\ UNCHANGED <<pc, queue>>
        /\ pending' = IF o = "written" THEN <<>> ELSE pending
        /\ IF current = "stop"
             THEN wstate' = "exited" /\ dropped' = dropped \cup Range(pending')
             ELSE wstate' = "waiting" /\ dropped' = dropped
        /\ stop' = stop \/ (current = "stop" /\ (stop' = "ok" => o = "written"))
    BY <1>6 DEF WritePending, Finish, Left
  <2> QED
    BY <1>4, <2>1, <2>2
<1>7. CASE BeginFlush \/ SendFlush \/ LeaveFlush \/ BeginStop \/ SendStop \/ LeaveStop \/ UNCHANGED vars
  <2>1. /\ UNCHANGED <<pc, queue, pending, wstate, committed, dropped>>
        /\ stop' = "ok" => stop = "ok"
    BY <1>7 DEF BeginFlush, SendFlush, LeaveFlush, BeginStop, SendStop, LeaveStop, vars
  <2> QED
    BY <1>0, <2>1 DEF AcceptedIsKept, NothingVanishes, StopFlushes
<1> QED
  BY <1>1, <1>2, <1>3, <1>5, <1>6, <1>7 DEF Next, Handlers, Worker, Callers

\* A batch that reached the store, whole or in memory only, leaves the traffic
\* exact: all its reports are written anew, each after the one before it.
LEMMA WriteExact ==
  ASSUME ConstantsTyped, IInv, Exact, NEW o \in Outcomes, o # "refused", WritePending(o), Clean'
  PROVE  Exact'
<1> USE DEF handlers, worker, callers, store
<1>0. /\ Typed /\ Control /\ Placed /\ StoredLate /\ InPlace
      /\ pending \in Seq(Reports) /\ pending # <<>> /\ traffic.ts \in Int
      /\ ~traffic.known => traffic.ts = -1
      /\ wstate = "writing" /\ UNCHANGED <<pc, total, uptime>>
      /\ \A n \in Reports : uptime[n] \in Int /\ uptime[n] >= 0
  BY DEF IInv, Typed, WritePending, Finish, Exact
<1>1. PICK found \in BOOLEAN : /\ WritePrepared(Prepared(pending, found), pending, o)
                               /\ LookupFails(pending[1], found)
  BY DEF WritePending
<1>2. Clean /\ ~lookupFailed' /\ Labelled /\ Continued /\ TrafficExact
  BY <1>0, <1>1 DEF Clean, LookupFails, Exact
<1>3. PICK T, V : Chained(T, V, pending, found)
  BY <1>0, PreparedChain
<1>4. /\ T \in [0..Len(pending) -> Int]
      /\ \A i, j \in 0..Len(pending) : i < j => T[i] < T[j]
      /\ Timing(T, pending, traffic.ts)
  BY <1>0, <1>3, TimingGrows DEF Chained
<1>5. T[0] = traffic.ts /\ \A i \in 1..Len(pending) : T[i] > traffic.ts /\ T[i] > 0
  <2>1. T[0] = traffic.ts
    BY <1>0, <1>4 DEF Timing
  <2>2. ASSUME NEW i \in 1..Len(pending)
        PROVE  T[i] > traffic.ts /\ T[i] > 0
    <3>1. i \in 0..Len(pending) /\ 0 \in 0..Len(pending) /\ i - 1 \in 0..Len(pending) /\ i # 0 /\ 0 < i
      BY <1>0
    <3>2. T[i] = IF Stamp(pending[i]) <= T[i-1] THEN T[i-1] + 1 ELSE Stamp(pending[i])
      BY <1>4, <3>1 DEF Timing
    <3>3. Stamp(pending[i]) \in Int /\ Stamp(pending[i]) > 0
      BY <1>0, StampPositive
    <3>4. T[i] \in Int /\ T[i-1] \in Int /\ T[0] < T[i]
      BY <1>4, <3>1
    <3> QED
      BY <2>1, <3>2, <3>3, <3>4
  <2> QED
    BY <2>1, <2>2
<1>6. \A i, j \in 1..Len(pending) : T[i] <= T[j] <=> i <= j
  <2>1. ASSUME NEW i \in 1..Len(pending), NEW j \in 1..Len(pending)
        PROVE  T[i] <= T[j] <=> i <= j
    <3>1. i \in 0..Len(pending) /\ j \in 0..Len(pending) /\ T[i] \in Int /\ T[j] \in Int
      BY <1>4
    <3>2. (i < j => T[i] < T[j]) /\ (j < i => T[j] < T[i])
      BY <1>4, <3>1
    <3>3. i \in Int /\ j \in Int
      OBVIOUS
    <3> QED
      BY <3>1, <3>2, <3>3
  <2> QED
    BY <2>1
<1>7. /\ \A i \in 1..Len(pending) : T[i] \in Times => stored'[T[i]] = PointOf(pending[i], V[i-1])
      /\ \A t \in Times : (\A i \in 1..Len(pending) : t # T[i]) => stored'[t] = stored[t]
  <2> DEFINE p == Prepared(pending, found)
  <2>1. stored' = Upserted(p.points)
    BY <1>1 DEF WritePrepared
  <2>2. /\ \A i \in 1..Len(pending) : T[i] \in Times => p.points[T[i]] = PointOf(pending[i], V[i-1])
        /\ \A t \in Times : p.points[t] # NoPoint => \E i \in 1..Len(pending) : t = T[i]
    BY <1>3 DEF Chained
  <2>3. \A i \in 1..Len(pending) : PointOf(pending[i], V[i-1]) # NoPoint
    <3>1. ASSUME NEW i \in 1..Len(pending)
          PROVE  PointOf(pending[i], V[i-1]).report # NoPoint.report
      <4>1. pending[i] \in Reports
        BY <1>0
      <4> QED
        BY <4>1 DEF PointOf, NoPoint, Reports
    <3> QED
      BY <3>1
  <2> HIDE DEF p
  <2> QED
    BY <2>1, <2>2, <2>3 DEF Upserted
<1>8. ASSUME NEW t \in Times, t <= traffic.ts
      PROVE  stored'[t] = stored[t]
  <2>1. ASSUME NEW i \in 1..Len(pending)
        PROVE  t # T[i]
    <3>1. t \in Int
      BY DEF Times
    <3>2. T[i] > traffic.ts
      BY <1>5
    <3>3. i \in 0..Len(pending) /\ T[i] \in Int
      BY <1>4
    <3> QED
      BY <1>0, <1>8, <3>1, <3>2, <3>3
  <2> QED
    BY <1>7, <2>1
\* Past the traffic state there is nothing but the batch.
<1>9. ASSUME NEW t \in Times, ~(t <= traffic.ts), stored'[t] # NoPoint,
             \A i \in 1..Len(pending) : t # T[i]
      PROVE  ~traffic.known /\ t = 0 /\ stored'[t].report = 0 /\ stored'[t] = stored[t]
  <2>1. stored'[t] = stored[t] /\ t > traffic.ts
    <3>1. t \in Int
      BY DEF Times
    <3> QED
      BY <1>0, <1>7, <1>9, <3>1
  <2>2. PICK U : /\ Timing(U, pending, traffic.ts)
                 /\ \A u \in Times : stored[u].report \in Range(pending) =>
                      \E i \in 1..Len(pending) : pending[i] = stored[u].report /\ u = U[i]
    BY <1>0 DEF InPlace
  <2>3. \A i \in 1..Len(pending) : T[i] = U[i]
    <3>1. Len(pending) <= Len(pending) /\ 1..Len(pending) \subseteq 0..Len(pending)
      BY <1>0
    <3> QED
      BY <1>0, <1>4, <2>2, <3>1, TimingAgrees
  <2>4. stored[t].report \notin Range(pending)
    BY <1>9, <2>2, <2>3
  <2>5. ~traffic.known /\ stored[t].report = 0
    BY <1>2, <1>9, <2>1, <2>4 DEF Continued
  <2>6. t = 0
    BY <1>2, <1>9, <2>1, <2>5 DEF Labelled
  <2> QED
    BY <2>1, <2>5, <2>6
<1>10. ASSUME NEW i \in 1..Len(pending)
       PROVE  /\ V[i] = After(T[i], pending[i]) /\ pending[i] \in Reports /\ pending[i] # 0
              /\ T[i] \in Int
              /\ V[i].counter = total[pending[i]] /\ V[i].uptime = uptime[pending[i]]
              /\ V[i].ts = T[i] /\ V[i].known
  <2>1. V[i] = After(T[i], pending[i])
    BY <1>3 DEF Chained
  <2>2. pending[i] \in Reports /\ pending[i] # 0
    <3>1. pending[i] \in Reports
      BY <1>0
    <3> QED
      BY <3>1 DEF Reports
  <2>3. T[i] \in Int
    BY <1>4
  <2> QED
    BY <2>1, <2>2, <2>3 DEF After
<1>11. ASSUME NEW i \in 1..Len(pending), T[i] \in Times
       PROVE  stored'[T[i]].report = pending[i] /\ stored'[T[i]].counter = total[pending[i]]
  <2>1. stored'[T[i]] = PointOf(pending[i], V[i-1])
    BY <1>7, <1>11
  <2> QED
    BY <2>1 DEF PointOf
<1>12. Labelled'
  <2>1. ASSUME NEW t \in Times, stored'[t] # NoPoint
        PROVE  IF stored'[t].report = 0 THEN t = 0 ELSE stored'[t].counter = total[stored'[t].report]
    <3>1. CASE \E i \in 1..Len(pending) : t = T[i]
      <4>1. PICK i \in 1..Len(pending) : t = T[i]
        BY <3>1
      <4>2. stored'[t] = PointOf(pending[i], V[i-1])
        BY <1>7, <4>1
      <4> QED
        BY <1>10, <4>2 DEF PointOf
    <3>2. CASE \A i \in 1..Len(pending) : t # T[i]
      <4>1. stored'[t] = stored[t]
        BY <1>7, <3>2
      <4> QED
        BY <1>2, <2>1, <4>1 DEF Labelled
    <3> QED
      BY <3>1, <3>2
  <2> QED
    BY <1>0, <2>1 DEF Labelled
\* The base of each report of the batch is the point before it.
<1>13. ASSUME NEW i \in 1..Len(pending), T[i] \in Times
       PROVE  FollowsAt(stored', T[i])
  <2>1. stored'[T[i]] = PointOf(pending[i], V[i-1])
    BY <1>7, <1>13
  <2>2. CASE i # 1
    <3>1. i - 1 \in 1..Len(pending) /\ ~(i <= i - 1) /\ i - 1 <= i /\ i \in Int
      BY <2>2
    <3>2. T[i-1] \in Int /\ T[i-1] < T[i] /\ T[i-1] > 0 /\ T[i] \in Int
      BY <1>5, <1>6, <1>10, <3>1
    <3>3. T[i-1] \in Times
      BY <1>13, <3>2 DEF Times, K, ConstantsTyped
    <3>4. stored'[T[i-1]] = PointOf(pending[i-1], V[i-1-1])
      BY <1>7, <3>1, <3>3
    <3>5. /\ stored'[T[i-1]].counter = V[i-1].counter
          /\ stored'[T[i-1]].report # 0
          /\ uptime[stored'[T[i-1]].report] = V[i-1].uptime
      BY <1>10, <3>1, <3>4 DEF PointOf
    <3>6. ASSUME NEW w \in Times, w < T[i], stored'[w] # NoPoint
          PROVE  w <= T[i-1]
      <4>0. w \in Int
        BY DEF Times
      <4>1. CASE \E j \in 1..Len(pending) : w = T[j]
        <5>1. PICK j \in 1..Len(pending) : w = T[j]
          BY <4>1
        <5>2. ~(i <= j)
          BY <1>6, <3>2, <3>6, <4>0, <5>1
        <5>3. j <= i - 1
          BY <3>1, <5>2
        <5> QED
          BY <1>6, <3>1, <5>1, <5>3
      <4>2. CASE \A j \in 1..Len(pending) : w # T[j]
        <5>1. CASE w <= traffic.ts
          <6>1. T[i-1] > traffic.ts
            BY <1>5, <3>1
          <6> QED
            BY <1>0, <3>2, <4>0, <5>1, <6>1
        <5>2. CASE ~(w <= traffic.ts)
          BY <1>9, <3>2, <3>6, <4>2, <5>2
        <5> QED
          BY <5>1, <5>2
      <4> QED
        BY <4>1, <4>2
    <3>7. LatestPoint(stored', T[i]) = stored'[T[i-1]]
      <4>1. stored'[T[i-1]] # NoPoint
        BY <3>5 DEF NoPoint
      <4> QED
        BY <1>13, <3>2, <3>3, <3>6, <4>1, LatestIs
    <3>8. uptime[pending[i]] \in Int /\ uptime[pending[i]] >= 0
      BY <1>0, <1>10
    <3> DEFINE point == LatestPoint(stored', T[i])
    <3>9. /\ point.counter = V[i-1].counter /\ point.report # 0
          /\ uptime[point.report] = V[i-1].uptime
      BY <3>5, <3>7
    <3> QED
      BY <1>13, <2>1, <3>8, <3>9, PointFollows
  <2>3. CASE i = 1 /\ traffic.known
    <3>1. V[0] = traffic
      BY <1>3, <2>3 DEF Chained, Restored
    <3>2. traffic.ts < T[1] /\ traffic.ts >= 0 /\ T[1] \in Int
      <4>1. traffic.ts >= 0
        BY <1>2, <2>3 DEF Continued
      <4> QED
        BY <1>0, <1>5, <1>10, <2>3, <4>1
    <3>3. traffic.ts \in Times
      BY <1>0, <1>13, <2>3, <3>2 DEF Times, K, ConstantsTyped
    <3>4. /\ stored'[traffic.ts].report # 0
          /\ stored'[traffic.ts].counter = traffic.counter
          /\ uptime[stored'[traffic.ts].report] = traffic.uptime
      <4>1. stored'[traffic.ts] = stored[traffic.ts]
        BY <1>0, <1>8, <3>3
      <4> QED
        BY <1>2, <2>3, <3>3, <4>1 DEF Continued
    <3>5. ASSUME NEW w \in Times, w < T[1], stored'[w] # NoPoint
          PROVE  w <= traffic.ts
      <4>0. w \in Int
        BY DEF Times
      <4>1. SUFFICES ASSUME ~(w <= traffic.ts)
                     PROVE  FALSE
        OBVIOUS
      <4>2. PICK j \in 1..Len(pending) : w = T[j]
        BY <1>9, <2>3, <3>5, <4>1
      <4>3. T[1] <= T[j]
        <5>1. 1 <= j
          OBVIOUS
        <5> QED
          BY <1>6, <2>3, <5>1
      <4> QED
        BY <3>2, <3>5, <4>0, <4>2, <4>3
    <3>6. LatestPoint(stored', T[1]) = stored'[traffic.ts]
      <4>1. stored'[traffic.ts] # NoPoint
        BY <3>4 DEF NoPoint
      <4> QED
        BY <1>13, <2>3, <3>2, <3>3, <3>5, <4>1, LatestIs
    <3> QED
      BY <1>0, <1>10, <1>13, <2>1, <2>3, <3>1, <3>4, <3>6, PointFollows
  <2>4. CASE i = 1 /\ ~traffic.known
    <3>1. V[0] = [NoTraffic EXCEPT !.known = TRUE,
                                   !.counter = IF found THEN CounterBefore(Stamp(pending[1])) ELSE -1]
      BY <1>3, <2>4 DEF Chained, Restored
    <3>2. /\ V[0].counter = IF found THEN CounterBefore(Stamp(pending[1])) ELSE -1
          /\ V[0].uptime = -1
      BY <3>1 DEF NoTraffic
    <3>3. V[0].counter = CounterBefore(Stamp(pending[1]))
      BY <1>1, <1>2, <2>4, <3>2 DEF LookupFails
    <3>4. T[1] = Stamp(pending[1])
      <4>1. T[1] = IF Stamp(pending[1]) <= T[0] THEN T[0] + 1 ELSE Stamp(pending[1])
        BY <1>4, <2>4 DEF Timing
      <4>2. Stamp(pending[1]) \in Int /\ Stamp(pending[1]) > 0 /\ T[0] = -1
        BY <1>0, <1>5, <2>4, StampPositive
      <4> QED
        BY <4>1, <4>2
    <3>5. ASSUME NEW w \in Times, w < T[1]
          PROVE  stored'[w] = stored[w]
      <4>1. ASSUME NEW j \in 1..Len(pending)
            PROVE  w # T[j]
        <5>1. T[1] <= T[j] /\ T[1] \in Int /\ T[j] \in Int /\ w \in Int
          <6>1. 1 <= j
            OBVIOUS
          <6> QED
            BY <1>6, <1>10, <2>4, <6>1 DEF Times
        <5> QED
          BY <3>5, <5>1
      <4> QED
        BY <1>7, <4>1
    <3>6. LatestPoint(stored', T[1]) = LatestPoint(stored, T[1])
      BY <1>13, <2>4, <3>5, SameBefore
    <3>7. LatestPoint(stored, T[1]).counter = CounterBefore(T[1])
      BY DEF LatestPoint, PointBefore, CounterBefore
    \* What the process finds in the store is older than its first report.
    <3>8. LatestPoint(stored, T[1]).report = 0
      <4> DEFINE earlier == {t \in Times : t < T[1] /\ stored[t] # NoPoint}
                 last == CHOOSE t \in earlier : \A u \in earlier : u <= t
      <4>1. CASE earlier = {}
        BY <4>1 DEF LatestPoint, NoPoint
      <4>2. CASE earlier # {}
        <5>1. last \in earlier
          <6>1. earlier \in SUBSET Times
            OBVIOUS
          <6> HIDE DEF earlier
          <6> QED
            BY <4>2, <6>1, LatestTime
        <5>2. LatestPoint(stored, T[1]) = stored[last]
          BY <4>2 DEF LatestPoint
        <5>3. last \in Times /\ last < T[1] /\ stored[last] # NoPoint
          BY <5>1
        <5> HIDE DEF last
        <5>4. stored'[last] = stored[last]
          BY <3>5, <5>3
        <5>5. last \in Int /\ last >= 0
          BY <5>3 DEF Times
        <5>6. ~(last <= traffic.ts) /\ \A j \in 1..Len(pending) : last # T[j]
          <6>1. ~(last <= traffic.ts)
            BY <1>0, <2>4, <5>5
          <6>2. ASSUME NEW j \in 1..Len(pending)
                PROVE  last # T[j]
            <7>1. T[1] <= T[j] /\ T[1] \in Int /\ T[j] \in Int
              <8>1. 1 <= j
                OBVIOUS
              <8> QED
                BY <1>6, <1>10, <2>4, <8>1
            <7> QED
              BY <5>3, <5>5, <7>1
          <6> QED
            BY <6>1, <6>2
        <5>7. stored'[last].report = 0
          BY <1>9, <5>3, <5>4, <5>6
        <5> QED
          BY <5>2, <5>4, <5>7
      <4> QED
        BY <4>1, <4>2
    <3> QED
      BY <1>0, <1>10, <1>13, <2>1, <2>4, <3>2, <3>3, <3>4, <3>6, <3>7, <3>8, PointFollows
  <2> QED
    BY <2>2, <2>3, <2>4
<1>14. TrafficExact'
  <2>1. \A t \in Times : stored[t].report # 0 => FollowsAt(stored, t)
    BY <1>2 DEF Clean, TrafficExact, FollowsAt, LatestPoint, PointBefore
  <2>2. ASSUME NEW t \in Times, stored'[t].report # 0
        PROVE  FollowsAt(stored', t)
    <3>1. CASE \E i \in 1..Len(pending) : t = T[i]
      BY <1>13, <3>1
    <3>2. CASE \A i \in 1..Len(pending) : t # T[i]
      <4>1. t <= traffic.ts /\ t \in Int
        <5>1. stored'[t] # NoPoint
          BY <2>2 DEF NoPoint
        <5>2. t \in Int
          BY DEF Times
        <5> QED
          BY <1>9, <2>2, <3>2, <5>1, <5>2
      <4>2. \A w \in Times : w <= t => stored'[w] = stored[w]
        <5>1. ASSUME NEW w \in Times, w <= t
              PROVE  w <= traffic.ts
          BY <1>0, <4>1, <5>1 DEF Times
        <5> QED
          BY <1>8, <5>1
      <4>3. stored'[t] = stored[t]
        BY <4>1, <4>2
      <4>4. \A w \in Times : w < t => stored'[w] = stored[w]
        <5>1. \A w \in Times : w < t => w <= t
          BY <4>1 DEF Times
        <5> QED
          BY <4>2, <5>1
      <4>5. LatestPoint(stored', t) = LatestPoint(stored, t)
        BY <4>4, SameBefore
      <4>6. FollowsAt(stored, t)
        BY <2>1, <2>2, <4>3
      <4> QED
        BY <4>3, <4>5, <4>6 DEF FollowsAt
    <3> QED
      BY <3>1, <3>2
  <2> QED
    BY <1>0, <2>2 DEF TrafficExact, FollowsAt, LatestPoint, PointBefore
<1>15. wstate' # "exited" => Continued'
  <2>1. CASE o = "written"
    <3>1. pending' = <<>> /\ traffic' = V[Len(pending)]
      <4>1. traffic' = Prepared(pending, found).values
        BY <1>1, <2>1 DEF WritePrepared, KeptTraffic
      <4> QED
        BY <1>3, <2>1, <4>1 DEF Chained, WritePending, Finish, Left
    <3>2. Len(pending) \in 1..Len(pending)
      BY <1>0
    <3> DEFINE m == Len(pending)
    <3>3. /\ traffic'.ts = T[m] /\ traffic'.known /\ T[m] \in Int /\ T[m] > 0 /\ T[m] > traffic.ts
          /\ traffic'.counter = total[pending[m]] /\ traffic'.uptime = uptime[pending[m]]
          /\ pending[m] # 0
      BY <1>5, <1>10, <3>1, <3>2
    <3>4. ASSUME NEW t \in Times, t > T[m], stored'[t] # NoPoint
          PROVE  FALSE
      <4>0. t \in Int
        BY DEF Times
      <4>1. CASE \E j \in 1..m : t = T[j]
        <5>1. PICK j \in 1..m : t = T[j]
          BY <4>1
        <5>2. j <= m
          BY <1>0
        <5>3. T[j] <= T[m]
          BY <1>6, <3>2, <5>2
        <5> QED
          BY <3>3, <3>4, <4>0, <5>1, <5>3
      <4>2. CASE \A j \in 1..m : t # T[j]
        <5>1. ~(t <= traffic.ts)
          BY <1>0, <3>3, <3>4, <4>0
        <5>2. t = 0
          BY <1>9, <3>4, <4>2, <5>1
        <5> QED
          BY <3>3, <3>4, <5>2
      <4> QED
        BY <4>1, <4>2
    <3>5. T[m] \in Times => /\ stored'[T[m]].report = pending[m]
                            /\ stored'[T[m]].counter = total[pending[m]]
      BY <1>11, <3>2
    <3> HIDE DEF m
    <3> QED
      BY <1>0, <3>3, <3>4, <3>5 DEF Continued
  <2>2. CASE o # "written"
    <3>1. pending' = pending /\ traffic' = traffic
      BY <1>1, <2>2 DEF WritePrepared, KeptTraffic, WritePending, Finish, Left
    <3>2. ASSUME NEW t \in Times, t > traffic.ts, stored'[t] # NoPoint
          PROVE  stored'[t].report \in Range(pending) \/ (~traffic.known /\ stored'[t].report = 0)
      <4>1. ~(t <= traffic.ts)
        BY <1>0, <3>2 DEF Times
      <4>2. CASE \E j \in 1..Len(pending) : t = T[j]
        <5>1. PICK j \in 1..Len(pending) : t = T[j]
          BY <4>2
        <5>2. stored'[t].report = pending[j]
          BY <1>11, <5>1
        <5> QED
          BY <1>0, <5>2 DEF Range
      <4>3. CASE \A j \in 1..Len(pending) : t # T[j]
        BY <1>9, <3>2, <4>1, <4>3
      <4> QED
        BY <4>2, <4>3
    <3>3. traffic.ts \in Times => stored'[traffic.ts] = stored[traffic.ts]
      BY <1>0, <1>8
    <3> QED
      BY <1>0, <1>2, <3>1, <3>2, <3>3 DEF Continued
  <2> QED
    BY <2>1, <2>2
<1> QED
  BY <1>0, <1>12, <1>14, <1>15 DEF Exact

\* Every step keeps the traffic exact.
LEMMA ExactStep ==
  ASSUME ConstantsTyped, IInv, Exact, [Next]_vars
  PROVE  Exact'
<1> USE DEF handlers, worker, callers, store
<1>0. /\ Typed /\ StoredLate /\ pc \in [Reports -> {"new", "enqueue", "queued", "rejected",
                                                    "direct", "writing", "saved", "failed"}]
      /\ queue \in Seq(Reports) /\ pending \in Seq(Reports) /\ traffic.ts \in Int
      /\ DOMAIN total = Reports /\ DOMAIN uptime = Reports
      /\ \A n \in Reports : uptime[n] \in Int /\ uptime[n] >= 0
  BY DEF IInv, Typed, Exact
\* Steps that write nothing, and change the batch at its end only.
<1>1. ASSUME UNCHANGED <<total, uptime, traffic, stored, lookupFailed>>, Clean' => Clean,
             wstate' # "exited" => wstate # "exited" /\ Range(pending) \subseteq Range(pending')
      PROVE  Exact'
  <2>1. SUFFICES ASSUME Clean'
                 PROVE  Labelled' /\ (wstate' # "exited" => Continued') /\ TrafficExact'
    BY <1>0, <1>1 DEF Exact
  <2>2. Clean /\ Labelled /\ (wstate # "exited" => Continued) /\ TrafficExact
    BY <1>1, <2>1 DEF Exact
  <2>3. Labelled'
    BY <1>1, <2>2 DEF Labelled
  <2>4. wstate' # "exited" => Continued'
    BY <1>1, <2>2 DEF Continued
  <2>5. TrafficExact'
    <3>1. \A t \in Times : PointBefore(t)' = PointBefore(t)
      BY <1>1 DEF PointBefore
    <3> QED
      BY <1>1, <2>1, <2>2, <3>1 DEF TrafficExact, Clean
  <2> QED
    BY <2>3, <2>4, <2>5
<1>2. ASSUME NEW n \in Reports, Receive(n)
      PROVE  Exact'
  <2>1. /\ UNCHANGED <<wstate, pending, traffic, stored, lookupFailed>> /\ pc[n] = "new"
        /\ pc'[n] \in {"enqueue", "direct"} /\ \A m \in Reports \ {n} : pc'[m] = pc[m]
        /\ DOMAIN total' = Reports /\ DOMAIN uptime' = Reports
        /\ \A m \in Reports \ {n} : total'[m] = total[m] /\ uptime'[m] = uptime[m]
        /\ uptime'[n] \in Int /\ uptime'[n] >= 0
    BY <1>0, <1>2 DEF Receive, ConstantsTyped
  <2>2. SUFFICES ASSUME Clean'
                 PROVE  Labelled' /\ (wstate' # "exited" => Continued') /\ TrafficExact'
    BY <1>0, <2>1 DEF Exact
  <2>3. Clean
    BY <2>1, <2>2 DEF Clean
  <2>4. Labelled /\ (wstate # "exited" => Continued) /\ TrafficExact
    BY <2>3 DEF Exact
  <2>5. \A t \in Times : stored[t].report # 0 =>
          /\ total'[stored[t].report] = total[stored[t].report]
          /\ uptime'[stored[t].report] = uptime[stored[t].report]
    BY <1>0, <2>1 DEF StoredLate
  <2>6. Labelled'
    BY <2>1, <2>4, <2>5 DEF Labelled
  <2>7. wstate' # "exited" => Continued'
    BY <2>1, <2>4, <2>5 DEF Continued
  <2>8. TrafficExact'
    <3>1. \A t \in Times : PointBefore(t)' = PointBefore(t)
      BY <2>1 DEF PointBefore
    <3>2. ASSUME NEW t \in Times
          PROVE  PointBefore(t).report # 0 =>
                   uptime'[PointBefore(t).report] = uptime[PointBefore(t).report]
      <4> DEFINE earlier == {u \in Times : u < t /\ stored[u] # NoPoint}
                 last == CHOOSE u \in earlier : \A w \in earlier : w <= u
      <4>1. CASE earlier = {}
        BY <4>1 DEF PointBefore, NoPoint
      <4>2. CASE earlier # {}
        <5>1. last \in Times
          <6>1. earlier \in SUBSET Times
            OBVIOUS
          <6> HIDE DEF earlier
          <6> QED
            BY <4>2, <6>1, LatestTime
        <5>2. PointBefore(t) = stored[last]
          BY <4>2 DEF PointBefore
        <5> HIDE DEF last
        <5> QED
          BY <2>5, <5>1, <5>2
      <4> QED
        BY <4>1, <4>2
    <3> QED
      BY <2>1, <2>3, <2>4, <2>5, <3>1, <3>2 DEF TrafficExact, Clean
  <2> QED
    BY <2>6, <2>7, <2>8
<1>3. ASSUME NEW n \in Reports, Enqueue(n)
      PROVE  Exact'
  <2>1. UNCHANGED <<total, uptime, traffic, stored, lookupFailed, wstate, pending>>
    BY <1>3 DEF Enqueue
  <2>2. \A m \in Reports : pc'[m] \notin {"writing", "saved", "failed"}
                            => pc[m] \notin {"writing", "saved", "failed"}
    BY <1>0, <1>3 DEF Enqueue
  <2> QED
    BY <1>1, <2>1, <2>2 DEF Clean
<1>4. ASSUME NEW n \in Reports, DirectPrepare(n) \/ DirectWrite(n)
      PROVE  Exact'
  <2>1. pc'[n] \in {"writing", "saved", "failed"} /\ UNCHANGED <<total, uptime>>
    BY <1>0, <1>4 DEF DirectPrepare, DirectWrite
  <2> QED
    BY <1>0, <2>1 DEF Clean, Exact
<1>5. CASE Tick \/ TakeRequest
  <2>1. /\ UNCHANGED <<pc, total, uptime, traffic, stored, lookupFailed>> /\ wstate = "waiting"
        /\ pending' = pending \o queue
    BY <1>5, Draining
  <2>2. Range(pending') = Range(pending) \cup Range(queue)
    BY <1>0, <2>1, ConcatOfPlaces
  <2> QED
    BY <1>1, <2>1, <2>2 DEF Clean
<1>6. CASE WriteNothing
  <2>1. /\ UNCHANGED <<pc, total, uptime, traffic, stored, lookupFailed>> /\ wstate = "writing"
        /\ pending' = pending
    BY <1>6 DEF WriteNothing, Finish
  <2> QED
    BY <1>1, <2>1 DEF Clean
<1>7. ASSUME NEW o \in Outcomes, WritePending(o)
      PROVE  Exact'
  <2>1. CASE ~Clean'
    BY <1>0, <1>7, <2>1 DEF WritePending, Finish, Exact
  <2>2. CASE Clean' /\ o # "refused"
    BY <1>7, <2>2, WriteExact
  <2>3. CASE Clean' /\ o = "refused"
    <3>1. /\ UNCHANGED <<pc, total, uptime, traffic, stored>> /\ wstate = "writing"
          /\ pending' = pending /\ (lookupFailed => lookupFailed')
      BY <1>7, <2>3 DEF WritePending, Finish, Left, WritePrepared, KeptTraffic, LookupFails
    <3>2. Clean /\ ~lookupFailed /\ ~lookupFailed'
      BY <2>3, <3>1 DEF Clean
    <3>3. Labelled' /\ Continued'
      BY <3>1, <3>2 DEF Exact, Labelled, Continued
    <3>4. \A t \in Times : PointBefore(t)' = PointBefore(t)
      BY <3>1 DEF PointBefore
    <3>5. TrafficExact'
      BY <3>1, <3>2, <3>4 DEF Exact, TrafficExact, Clean
    <3> QED
      BY <1>0, <3>1, <3>3, <3>5 DEF Exact
  <2> QED
    BY <2>1, <2>2, <2>3
<1>8. CASE BeginFlush \/ SendFlush \/ LeaveFlush \/ BeginStop \/ SendStop \/ LeaveStop \/ UNCHANGED vars
  <2>1. UNCHANGED <<pc, total, uptime, traffic, stored, lookupFailed, wstate, pending>>
    BY <1>8 DEF BeginFlush, SendFlush, LeaveFlush, BeginStop, SendStop, LeaveStop, vars
  <2> QED
    BY <1>1, <2>1 DEF Clean
<1> QED
  BY <1>2, <1>3, <1>4, <1>5, <1>6, <1>7, <1>8 DEF Next, Handlers, Worker, Callers

-----------------------------------------------------------------------------
(* What the invariant gives *)

\* It holds initially.
LEMMA InvInit == ConstantsTyped /\ Init => IInv
<1> SUFFICES ASSUME ConstantsTyped, Init
             PROVE  IInv
  OBVIOUS
<1>1. PICK c \in -1..MaxTotal : stored = [NoPoints EXCEPT ![0].counter = c]
  BY DEF Init
<1>2. \A t \in Times : stored[t].report = 0
  BY <1>1 DEF NoPoints, NoPoint
<1>3. Range(queue) = {} /\ Range(pending) = {} /\ Range(requests) = {}
  BY DEF Init, Range
<1>4. Typed
  <2>1. queue \in Seq(Reports) /\ pending \in Seq(Reports) /\ requests \in Seq({"flush", "stop"})
    BY DEF Init
  <2>2. traffic.ts = -1
    BY DEF Init, NoTraffic
  <2>3. pc \in [Reports -> {"new", "enqueue", "queued", "rejected",
                            "direct", "writing", "saved", "failed"}]
    BY DEF Init
  <2>4. /\ registered \in BOOLEAN /\ stopping \in BOOLEAN
        /\ wstate = "waiting" /\ current = "none" /\ stop = "idle"
    BY DEF Init
  <2>5. DOMAIN plan = Reports
    BY DEF Init
  <2> QED
    BY <2>1, <2>2, <2>3, <2>4, <2>5 DEF Typed
<1>5. Control /\ Planned
  BY <1>3 DEF Init, Control, Planned
<1>6. Placed
  BY <1>3 DEF Init, Placed, IsInjective
<1>7. StoredLate /\ StoredOnce
  BY <1>2 DEF StoredLate, StoredOnce
<1>8. InPlace
  <2>1. Len(pending) \in Nat
    BY DEF Init
  <2>2. PICK T : Timing(T, pending, traffic.ts)
    BY <2>1, TimingExists
  <2> QED
    BY <1>3, <2>2 DEF InPlace
<1>9. AcceptedIsKept
  BY DEF Init, AcceptedIsKept, NothingVanishes, StopFlushes
<1> QED
  BY <1>4, <1>5, <1>6, <1>7, <1>8, <1>9 DEF IInv

\* Every step keeps it.
LEMMA InvStep == ConstantsTyped /\ IInv /\ [Next]_vars => IInv'
  BY TypedStep, ControlStep, PlacedStep, StoredLateStep, InPlaceStep, PlannedStep,
     OnceStep, KeptStep DEF IInv

\* However often a batch is tried again, with more reports behind it each time,
\* no report is stored at two timestamps. A report the handler was told is
\* accepted is queued with a live worker, written, or given up by the worker
\* whose last flush failed, and a stop that reports success has written them all.
THEOREM ReportsAlwaysKept ==
  ASSUME ConstantsTyped
  PROVE  Spec => []ReportsKept
<1>1. Init => IInv
  BY InvInit
<1>2. IInv /\ [Next]_vars => IInv'
  BY InvStep
<1>3. IInv => ReportsKept
  BY DEF IInv, ReportsKept
<1> QED
  BY <1>1, <1>2, <1>3, PTL DEF Spec

\* Before the first write nothing is stored but a point older than the process.
LEMMA ExactInit == ConstantsTyped /\ Init => Exact
<1> SUFFICES ASSUME ConstantsTyped, Init
             PROVE  Exact
  OBVIOUS
<1>1. PICK c \in -1..MaxTotal : stored = [NoPoints EXCEPT ![0].counter = c]
  BY DEF Init
<1>2. 0 \in Times
  BY DEF Times, K, ConstantsTyped
<1>3. \A t \in Times : stored[t].report = 0 /\ (t # 0 => stored[t] = NoPoint)
  BY <1>1, <1>2 DEF NoPoints, NoPoint
<1>4. Labelled /\ TrafficExact
  BY <1>3 DEF Labelled, TrafficExact
<1>5. Continued
  BY <1>3 DEF Init, Continued, NoTraffic
<1> QED
  BY <1>4, <1>5 DEF Init, Exact

\* The traffic of a stored report is the increase of the agent's counter since
\* the point before it, and zero when its counter or its uptime is below that
\* point's, over any sequence of batches, failed attempts and late handlers:
\* the next report always counts from what is stored.
THEOREM TrafficIsExact ==
  ASSUME ConstantsTyped
  PROVE  Spec => []TrafficExact
<1>1. Init => IInv /\ Exact
  BY InvInit, ExactInit
<1>2. (IInv /\ Exact) /\ [Next]_vars => (IInv /\ Exact)'
  BY InvStep, ExactStep
<1>3. IInv /\ Exact => TrafficExact
  BY DEF Exact, Clean, TrafficExact
<1> QED
  BY <1>1, <1>2, <1>3, PTL DEF Spec
=============================================================================
