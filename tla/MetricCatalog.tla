--------------------------- MODULE MetricCatalog ----------------------------
(* The definitions of the metrics and their retention: pkg/metric/store.go,   *)
(* internal/metricstore (definitions, deletion, maintenance) and the RPC      *)
(* method updateMetricDefinition.  A retention of zero disables a metric and  *)
(* deletes its data in the background, while reports go on, the hourly        *)
(* cleanup applies the retentions, a reload creates the built-in definitions  *)
(* again, and a reclamation drops the others.  A sample of a metric is the    *)
(* time it was written; memory and rows hold sets of them.                    *)
EXTENDS Integers, FiniteSets, FiniteSetsExt, TLAPS

CONSTANTS Metrics, Builtin,     \* defined at first; those of builtinMetricNames
          PolicyTiers,          \* the store's policy: two of [interval, retention]
          Default, Retentions,  \* of new definitions; of an administrator's edits
          MaxTime, MaxEdits, MaxFaults   \* bounds

VARIABLES now,
          def,        \* retention per metric, None without a definition
          hot, staged,   \* memory: open minutes, parents of the second tier
          row,        \* per metric and tier: the samples in its rows
          deleting,   \* metrics an asynchronous deletion is on its way for
          opening,    \* the store a reload opens: built-in metrics left, what it read
          floor, accepted,   \* history: smallest retention and samples since it was enabled
          missed,     \* history: metrics whose deletion failed
          edits, faults
mvars == <<now, def, hot, staged, row, deleting, opening, floor, accepted, missed, edits, faults>>

None == -1
NoMetric == "none"
Closed == [on |-> FALSE, left |-> {}, metric |-> NoMetric, read |-> None]
CatalogInit == /\ now = 0 /\ def = [m \in Metrics |-> Default]
               /\ hot = [m \in Metrics |-> {}] /\ staged = hot /\ row = [m \in Metrics |-> [i \in 1..2 |-> {}]]
               /\ deleting = {} /\ opening = Closed
               /\ floor = def /\ accepted = hot /\ missed = {} /\ edits = 0 /\ faults = 0

\* What administrators ask for.
Request == edits < MaxEdits /\ edits' = edits + 1
Fault == faults < MaxFaults /\ faults' = faults + 1
Data == <<hot, staged, row>>
History == <<floor, accepted, missed>>
Serving == opening = Closed

-----------------------------------------------------------------------------
\* withMetricRetention: the last tier follows the metric, and is left out when
\* it keeps nothing longer; a disabled metric has no tier.
Capped(d, i) == IF i = 2 \/ PolicyTiers[i].retention > d THEN d ELSE PolicyTiers[i].retention
KeptTiers(d) == IF d <= 0 THEN {} ELSE IF Capped(d, 2) > Capped(d, 1) THEN {1, 2} ELSE {1}
BucketOf(t, i) == t - (t % PolicyTiers[i].interval)

\* A definition is written; a metric that was not enabled begins anew.
Define(m, d) ==
    /\ def' = [def EXCEPT ![m] = d]
    /\ floor' = [floor EXCEPT ![m] = IF def[m] <= 0 THEN d ELSE Min({@, d})]
    /\ accepted' = IF def[m] <= 0 THEN [accepted EXCEPT ![m] = {}] ELSE accepted

\* filterDisabledMetricPoints: an unknown name refuses the batch, a disabled one is dropped.
\* Faulty variant: only unknown names are looked at.
FilteredUnknown(batch) == batch
Filtered(batch) == {m \in batch : def[m] > 0}

\* The closed minutes of the hot buckets go to the first tier and to their
\* parents, under the policy the definition has now.
ClosedHot(h, m) == {t \in h[m] : BucketOf(t, 1) + PolicyTiers[1].interval <= now}
FlushFrom(h) ==
    /\ hot' = [m \in Metrics |-> h[m] \ ClosedHot(h, m)]
    /\ row' = [m \in Metrics |-> IF 1 \in KeptTiers(def[m]) THEN [row[m] EXCEPT ![1] = @ \cup ClosedHot(h, m)] ELSE row[m]]
    /\ staged' = [m \in Metrics |-> IF 2 \in KeptTiers(def[m]) THEN staged[m] \cup ClosedHot(h, m) ELSE staged[m]]

WriteBatch(batch) ==
    /\ Serving /\ \A m \in batch : def[m] # None
    /\ LET kept == Filtered(batch) IN
       /\ kept # {}
       /\ FlushFrom([m \in Metrics |-> IF m \in kept THEN hot[m] \cup {now} ELSE hot[m]])
       /\ accepted' = [m \in Metrics |-> IF m \in kept THEN accepted[m] \cup {now} ELSE accepted[m]]
    /\ UNCHANGED <<now, def, deleting, opening, floor, missed, edits, faults>>
Flush == /\ Serving /\ \E m \in Metrics : ClosedHot(hot, m) # {}
         /\ FlushFrom(hot)
         /\ UNCHANGED <<now, def, deleting, opening, History, edits, faults>>

\* A parent that is due and whose tier the metric no longer has is dropped.
Due(m) == {t \in staged[m] : BucketOf(t, 2) + PolicyTiers[2].interval <= now}
FlushCoarse ==
    /\ Serving /\ \E m \in Metrics : Due(m) # {}
    /\ staged' = [m \in Metrics |-> staged[m] \ Due(m)]
    /\ row' = [m \in Metrics |-> IF 2 \in KeptTiers(def[m]) THEN [row[m] EXCEPT ![2] = @ \cup Due(m)] ELSE row[m]]
    /\ UNCHANGED <<now, def, hot, deleting, opening, History, edits, faults>>

-----------------------------------------------------------------------------
\* Everything there is of a metric, in one hold of retentionMu.
\* Faulty variant: the parents in memory are forgotten.
DroppedUnstaged(ms) ==
    /\ row' = [m \in Metrics |-> IF m \in ms THEN [i \in 1..2 |-> {}] ELSE row[m]]
    /\ hot' = [m \in Metrics |-> IF m \in ms THEN {} ELSE hot[m]]
    /\ UNCHANGED staged
Dropped(ms) ==
    /\ row' = [m \in Metrics |-> IF m \in ms THEN [i \in 1..2 |-> {}] ELSE row[m]]
    /\ hot' = [m \in Metrics |-> IF m \in ms THEN {} ELSE hot[m]]
    /\ staged' = [m \in Metrics |-> IF m \in ms THEN {} ELSE staged[m]]

\* updateMetricDefinition: an unknown name is refused.
UpdateRetention(m, d) ==
    /\ Request /\ def[m] # None
    /\ Define(m, d)
    /\ deleting' = IF d = 0 THEN deleting \cup {m} ELSE deleting
    /\ missed' = IF d = 0 THEN missed \ {m} ELSE missed
    /\ UNCHANGED <<now, Data, opening, faults>>

\* DeleteMetricDataIfDisabled reads the retention in the transaction that deletes.
\* Faulty variant: the caller knew the metric was disabled.
StillDisabledKnown(m) == TRUE
StillDisabled(m) == def[m] = 0
DeleteIfDisabled(m) ==
    /\ m \in deleting /\ deleting' = deleting \ {m}
    /\ Dropped(IF StillDisabled(m) THEN {m} ELSE {})
    /\ UNCHANGED <<now, def, opening, History, edits, faults>>
DeleteFails(m) ==
    /\ m \in deleting /\ deleting' = deleting \ {m} /\ Fault
    /\ missed' = missed \cup {m}
    /\ UNCHANGED <<now, def, Data, opening, floor, accepted, edits>>

\* CleanupExpired, one transaction.  A bucket that straddles the cutoff stays.
Retained(m, i, t) == i \in KeptTiers(def[m]) /\ BucketOf(t, i) >= BucketOf(now - Capped(def[m], i), i)
Cleanup ==
    LET off == {m \in Metrics : def[m] = 0} IN
    /\ Serving
    /\ hot' = [m \in Metrics |-> IF m \in off THEN {} ELSE hot[m]]
    /\ staged' = [m \in Metrics |-> IF m \in off THEN {} ELSE staged[m]]
    /\ row' = [m \in Metrics |-> [i \in 1..2 |->
                 IF def[m] = None THEN row[m][i] ELSE {t \in row[m][i] : Retained(m, i, t)}]]
    /\ missed' = missed \ off
    /\ UNCHANGED <<now, def, deleting, opening, floor, accepted, edits, faults>>

\* ReclaimSpace first deletes the metrics that are not built in, one by one.
DeleteUndefined(m) ==
    /\ Request /\ Serving /\ m \notin Builtin /\ def[m] # None
    /\ Define(m, None) /\ Dropped({m}) /\ missed' = missed \ {m}
    /\ UNCHANGED <<now, deleting, opening, faults>>

-----------------------------------------------------------------------------
\* A reload opens a second store on the tables, which reads every built-in
\* definition and writes it back, while administrators still edit through the
\* old one; a disabled one is left alone.
BeginReload == /\ Request /\ Serving /\ opening' = [Closed EXCEPT !.on = TRUE, !.left = Builtin]
               /\ UNCHANGED <<now, def, Data, deleting, History, faults>>
ReadDefinition(m) ==
    /\ m \in opening.left /\ opening.metric = NoMetric
    /\ opening' = IF def[m] = 0 THEN [opening EXCEPT !.left = @ \ {m}]
                  ELSE [opening EXCEPT !.left = @ \ {m}, !.metric = m, !.read = def[m]]
    /\ UNCHANGED <<now, def, Data, deleting, History, edits, faults>>
UpsertMetric ==
    /\ opening.metric # NoMetric
    /\ Define(opening.metric, opening.read)
    /\ opening' = [opening EXCEPT !.metric = NoMetric, !.read = None]
    /\ UNCHANGED <<now, Data, deleting, missed, edits, faults>>

\* Close persists all of the open minutes and drops the parents; the deletions
\* that hold the closed store fail.
Persisted == [m \in Metrics |-> IF 1 \in KeptTiers(def[m]) THEN [row[m] EXCEPT ![1] = @ \cup hot[m]] ELSE row[m]]
EndReload ==
    /\ ~Serving /\ opening.left = {} /\ opening.metric = NoMetric /\ opening' = Closed
    /\ row' = Persisted /\ hot' = [m \in Metrics |-> {}] /\ staged' = [m \in Metrics |-> {}]
    /\ \E lost \in SUBSET deleting : deleting' = deleting \ lost /\ missed' = missed \cup lost
    /\ UNCHANGED <<now, def, floor, accepted, edits, faults>>

\* The process is killed and starts again: memory and deletions are gone.
Crash ==
    /\ Fault /\ opening' = Closed
    /\ hot' = [m \in Metrics |-> {}] /\ staged' = [m \in Metrics |-> {}]
    /\ accepted' = [m \in Metrics |-> accepted[m] \ hot[m]]
    /\ missed' = missed \cup deleting /\ deleting' = {}
    /\ UNCHANGED <<now, def, row, floor, edits>>

TimePasses == now < MaxTime /\ now' = now + 1 /\ UNCHANGED <<def, Data, deleting, opening, History, edits, faults>>

CatalogNext == \/ \E batch \in SUBSET Metrics : WriteBatch(batch)
               \/ Flush \/ FlushCoarse \/ Cleanup \/ TimePasses
               \/ \E m \in Metrics : \/ \E d \in Retentions : UpdateRetention(m, d)
                                     \/ DeleteIfDisabled(m) \/ DeleteFails(m) \/ DeleteUndefined(m)
               \/ BeginReload \/ \E m \in Builtin : ReadDefinition(m)
               \/ UpsertMetric \/ EndReload \/ Crash
CatalogSpec == CatalogInit /\ [][CatalogNext]_mvars

-----------------------------------------------------------------------------
(* A disabled or deleted metric has no data anywhere, unless its deletion is  *)
(* still on its way or failed, which the hourly cleanup makes up for: no late *)
(* write, flush, sealed parent or reload brings data back                     *)
(* (DeleteMetricDataIfDisabled, WriteBatch, CleanupExpired).                  *)
DisabledIsEmpty ==
    \A m \in Metrics : (def[m] <= 0 /\ m \notin deleting \cup missed) =>
        hot[m] = {} /\ staged[m] = {} /\ row[m][1] = {} /\ row[m][2] = {}

(* No cleanup, late deletion of an earlier disabling, reclamation or reload   *)
(* removes a sample of an enabled metric that its retention, as small as it   *)
(* ever was since, still covers: it is in memory or in the minute rows.       *)
YoungIsKept ==
    \A m \in Metrics : def[m] > 0 =>
        \A t \in accepted[m] : t >= now - Capped(floor[m], 1) => t \in hot[m] \cup row[m][1]

(* However edits, deletions, cleanups and reloads overlap.                    *)
RetentionObeyed == DisabledIsEmpty /\ YoungIsKept

-----------------------------------------------------------------------------
(* Why they hold: for any metrics, tiers and retentions, and any number of    *)
(* edits, reloads and faults.                                                 *)

ConstantsTyped ==
  /\ Builtin \subseteq Metrics /\ NoMetric \notin Metrics
  /\ PolicyTiers \in [1..2 -> [interval : Nat \ {0}, retention : Nat]]
  /\ Default \in Nat /\ Retentions \subseteq Nat

Typed ==
  /\ now \in Nat /\ def \in [Metrics -> Nat \cup {None}] /\ floor \in [Metrics -> Nat \cup {None}]
  /\ hot \in [Metrics -> SUBSET Nat] /\ staged \in [Metrics -> SUBSET Nat]
  /\ row \in [Metrics -> [1..2 -> SUBSET Nat]] /\ accepted \in [Metrics -> SUBSET Nat]
  /\ deleting \subseteq Metrics

\* The store that is being opened writes back only what it read enabled.
ReadEnabled ==
  /\ opening \in [on : BOOLEAN, left : SUBSET Builtin, metric : Builtin \cup {NoMetric}, read : Nat \cup {None}]
  /\ opening.metric # NoMetric => opening.read \in Nat \ {0}

\* Without a definition nothing is left, not even for a deletion on its way, and
\* a built-in metric always has one.
Empty(m) == hot[m] = {} /\ staged[m] = {} /\ row[m][1] = {} /\ row[m][2] = {}
UndefinedIsEmpty == \A m \in Metrics : def[m] = None => m \notin Builtin /\ Empty(m)

\* The smallest retention of an enabled metric is one of those it had.
FloorBelow == \A m \in Metrics : def[m] > 0 => floor[m] \in 1..def[m]

IInv == Typed /\ ReadEnabled /\ UndefinedIsEmpty /\ DisabledIsEmpty /\ FloorBelow /\ YoungIsKept

\* The invariant holds of the first definitions.
LEMMA InvInit == ConstantsTyped /\ CatalogInit => IInv
  BY DEF ConstantsTyped, CatalogInit, IInv, Typed, ReadEnabled, UndefinedIsEmpty, Empty, DisabledIsEmpty,
         FloorBelow, YoungIsKept, Closed, None, NoMetric

-----------------------------------------------------------------------------
(* What the policy keeps *)

\* The first tier keeps what the metric and the tier both keep.
LEMMA CappedFirst ==
  ASSUME ConstantsTyped, NEW d \in Int
  PROVE  /\ Capped(d, 1) = (IF PolicyTiers[1].retention > d THEN d ELSE PolicyTiers[1].retention)
         /\ Capped(d, 1) \in Int
         /\ \A e \in Int : d <= e => Capped(d, 1) <= Capped(e, 1)
<1>1. PolicyTiers[1].retention \in Nat
  BY DEF ConstantsTyped
<1> QED
  BY <1>1 DEF Capped

\* A metric has a first tier as long as it is enabled, and no tier otherwise.
LEMMA MinuteKept ==
  ASSUME NEW d \in Int
  PROVE  /\ d > 0 => 1 \in KeptTiers(d)
         /\ d <= 0 => KeptTiers(d) = {}
  BY DEF KeptTiers

\* Buckets are ordered as the times in them.
LEMMA BucketsOrdered ==
  ASSUME ConstantsTyped, NEW s \in Int, NEW t \in Int, s <= t
  PROVE  BucketOf(s, 1) <= BucketOf(t, 1)
<1> DEFINE w == PolicyTiers[1].interval
           q == s \div w
           r == t \div w
<1>1. w \in Nat \ {0}
  BY DEF ConstantsTyped
<1> HIDE DEF w
<1>2. /\ q \in Int /\ s - (s % w) = q * w /\ s >= q * w
      /\ r \in Int /\ t - (t % w) = r * w /\ t < r * w + w
  BY <1>1
<1> HIDE DEF q, r
<1>3. q * w < r * w + w
  BY <1>1, <1>2
<1>4. CASE q <= r
  <2>1. q * w <= r * w
    BY <1>1, <1>2, <1>4
  <2> QED
    BY <1>2, <2>1 DEF BucketOf, w
<1>5. CASE q >= r + 1
  <2>1. q * w >= (r + 1) * w
    BY <1>1, <1>2, <1>5
  <2>2. (r + 1) * w = r * w + w
    BY <1>1, <1>2
  <2>3. q * w \in Int /\ r * w \in Int
    BY <1>1, <1>2
  <2> QED
    BY <1>1, <1>3, <2>1, <2>2, <2>3
<1> QED
  BY <1>2, <1>4, <1>5

\* The cleanup keeps the rows a retention covers.
LEMMA CoveredIsRetained ==
  ASSUME ConstantsTyped, Typed, FloorBelow, NEW m \in Metrics, def[m] > 0,
         NEW t \in Nat, t >= now - Capped(floor[m], 1)
  PROVE  Retained(m, 1, t)
<1>1. def[m] \in Int /\ floor[m] \in Int /\ floor[m] <= def[m] /\ now \in Int
  BY DEF Typed, FloorBelow, None
<1>2. Capped(floor[m], 1) <= Capped(def[m], 1) /\ Capped(floor[m], 1) \in Int /\ Capped(def[m], 1) \in Int
  BY <1>1, CappedFirst
<1>3. BucketOf(now - Capped(def[m], 1), 1) <= BucketOf(t, 1)
  <2>1. now - Capped(def[m], 1) \in Int /\ now - Capped(def[m], 1) <= t
    BY <1>1, <1>2
  <2> QED
    BY <2>1, BucketsOrdered
<1>4. 1 \in KeptTiers(def[m])
  BY <1>1, MinuteKept
<1>5. BucketOf(t, 1) \in Int /\ BucketOf(now - Capped(def[m], 1), 1) \in Int
  <2>1. PolicyTiers[1].interval \in Nat \ {0}
    BY DEF ConstantsTyped
  <2> QED
    BY <1>1, <1>2, <2>1 DEF BucketOf
<1> QED
  BY <1>3, <1>4, <1>5 DEF Retained

-----------------------------------------------------------------------------
(* What the actions make of the data *)

\* A flush takes nothing from an enabled metric, and leaves the rows of the others.
LEMMA FlushEffect ==
  ASSUME ConstantsTyped, Typed, NEW h \in [Metrics -> SUBSET Nat], FlushFrom(h)
  PROVE  /\ hot' \in [Metrics -> SUBSET Nat] /\ staged' \in [Metrics -> SUBSET Nat]
         /\ row' \in [Metrics -> [1..2 -> SUBSET Nat]]
         /\ \A m \in Metrics :
              /\ hot'[m] \subseteq h[m]
              /\ def[m] > 0 => h[m] \cup row[m][1] \subseteq hot'[m] \cup row'[m][1]
              /\ def[m] <= 0 => row'[m] = row[m] /\ staged'[m] = staged[m]
<1>1. \A m \in Metrics : ClosedHot(h, m) \subseteq h[m] /\ h[m] \subseteq Nat
  BY DEF ClosedHot
<1>2. \A m \in Metrics : def[m] \in Int
  BY DEF Typed, None
<1>3. \A m \in Metrics : (def[m] > 0 => 1 \in KeptTiers(def[m])) /\ (def[m] <= 0 => KeptTiers(def[m]) = {})
  BY <1>2, MinuteKept
<1> HIDE DEF ClosedHot
<1>4. hot' \in [Metrics -> SUBSET Nat] /\ staged' \in [Metrics -> SUBSET Nat]
  BY <1>1 DEF FlushFrom, Typed
<1>5. ASSUME NEW m \in Metrics
      PROVE  /\ row'[m] \in [1..2 -> SUBSET Nat]
             /\ 1 \in KeptTiers(def[m]) => row'[m][1] = row[m][1] \cup ClosedHot(h, m)
             /\ 1 \notin KeptTiers(def[m]) => row'[m] = row[m]
  BY <1>1 DEF FlushFrom, Typed
<1>6. row' \in [Metrics -> [1..2 -> SUBSET Nat]]
  BY <1>5 DEF FlushFrom
<1>7. \A m \in Metrics : hot'[m] = h[m] \ ClosedHot(h, m)
  BY DEF FlushFrom
<1>8. \A m \in Metrics : KeptTiers(def[m]) = {} => staged'[m] = staged[m]
  BY DEF FlushFrom
<1> QED
  BY <1>1, <1>3, <1>4, <1>5, <1>6, <1>7, <1>8

\* A deletion takes everything of its metrics and leaves the others alone.
LEMMA DropEffect ==
  ASSUME Typed, NEW ms \in SUBSET Metrics, Dropped(ms)
  PROVE  /\ hot' \in [Metrics -> SUBSET Nat] /\ staged' \in [Metrics -> SUBSET Nat]
         /\ row' \in [Metrics -> [1..2 -> SUBSET Nat]]
         /\ \A m \in ms : Empty(m)'
         /\ \A m \in Metrics \ ms : hot'[m] = hot[m] /\ staged'[m] = staged[m] /\ row'[m] = row[m]
  BY DEF Typed, Dropped, Empty

\* A definition moves the floor and, from a disabled metric, the samples due.
LEMMA DefineEffect ==
  ASSUME Typed, FloorBelow, NEW m \in Metrics, NEW d \in Nat \cup {None}, Define(m, d)
  PROVE  /\ def' \in [Metrics -> Nat \cup {None}] /\ floor' \in [Metrics -> Nat \cup {None}]
         /\ accepted' \in [Metrics -> SUBSET Nat]
         /\ def'[m] = d /\ \A n \in Metrics \ {m} : def'[n] = def[n]
         /\ FloorBelow'
         /\ \A n \in Metrics : def'[n] > 0 =>
              \/ accepted'[n] = {}
              \/ def[n] > 0 /\ floor'[n] <= floor[n] /\ accepted'[n] = accepted[n]
<1>1. def[m] \in Int /\ floor[m] \in Nat \cup {None} /\ d \in Int /\ floor[m] \in Int
  BY DEF Typed, None
<1>2. Min({floor[m], d}) = IF floor[m] <= d THEN floor[m] ELSE d
  BY <1>1 DEF Min
<1>3. floor' = [floor EXCEPT ![m] = IF def[m] <= 0 THEN d ELSE IF floor[m] <= d THEN floor[m] ELSE d]
  BY <1>2 DEF Define, Typed
<1>4. def' = [def EXCEPT ![m] = d] /\ accepted' = IF def[m] <= 0 THEN [accepted EXCEPT ![m] = {}] ELSE accepted
  BY DEF Define
<1>5. /\ def' \in [Metrics -> Nat \cup {None}] /\ floor' \in [Metrics -> Nat \cup {None}]
      /\ accepted' \in [Metrics -> SUBSET Nat]
      /\ def'[m] = d /\ \A n \in Metrics \ {m} : def'[n] = def[n] /\ floor'[n] = floor[n]
  BY <1>1, <1>3, <1>4 DEF Typed
<1>6. FloorBelow'
  <2>1. d > 0 => floor'[m] \in 1..d
    BY <1>1, <1>3 DEF Typed, FloorBelow, None
  <2> QED
    BY <1>5, <2>1 DEF FloorBelow
<1>7. ASSUME NEW n \in Metrics, def'[n] > 0
      PROVE  \/ accepted'[n] = {}
             \/ def[n] > 0 /\ floor'[n] <= floor[n] /\ accepted'[n] = accepted[n]
  <2>1. CASE n # m
    <3>1. def[n] > 0 /\ floor'[n] = floor[n] /\ floor[n] \in Int
      BY <1>5, <1>7, <2>1 DEF Typed, None
    <3>2. accepted'[n] = accepted[n]
      BY <1>4, <2>1 DEF Typed
    <3> QED
      BY <3>1, <3>2
  <2>2. CASE n = m /\ def[m] <= 0
    BY <1>4, <2>2 DEF Typed
  <2>3. CASE n = m /\ ~(def[m] <= 0)
    <3>1. floor'[m] <= floor[m]
      BY <1>1, <1>3, <2>3 DEF Typed
    <3> QED
      BY <1>1, <1>4, <2>3, <3>1
  <2> QED
    BY <2>1, <2>2, <2>3
<1> QED
  BY <1>5, <1>6, <1>7

-----------------------------------------------------------------------------
(* One step preserves the invariant *)

\* The types stay.
LEMMA TypedStep ==
  ASSUME ConstantsTyped, Typed, ReadEnabled, FloorBelow, CatalogNext
  PROVE  Typed'
<1>1. CASE \E batch \in SUBSET Metrics : WriteBatch(batch)
  <2>1. PICK batch \in SUBSET Metrics : WriteBatch(batch)
    BY <1>1
  <2> DEFINE h == [m \in Metrics |-> IF m \in Filtered(batch) THEN hot[m] \cup {now} ELSE hot[m]]
  <2>2. h \in [Metrics -> SUBSET Nat] /\ FlushFrom(h)
    BY <2>1 DEF WriteBatch, Typed
  <2>3. accepted' \in [Metrics -> SUBSET Nat]
    BY <2>1 DEF WriteBatch, Typed
  <2> HIDE DEF h
  <2> QED
    BY <2>1, <2>2, <2>3, FlushEffect DEF WriteBatch, Typed
<1>2. CASE Flush
  <2>1. hot \in [Metrics -> SUBSET Nat] /\ FlushFrom(hot)
    BY <1>2 DEF Flush, Typed
  <2> QED
    BY <1>2, <2>1, FlushEffect DEF Flush, Typed, History
<1>3. CASE FlushCoarse
  <2>1. \A m \in Metrics : Due(m) \subseteq staged[m] /\ staged[m] \subseteq Nat
    BY DEF Due, Typed
  <2>2. staged' \in [Metrics -> SUBSET Nat] /\ row' \in [Metrics -> [1..2 -> SUBSET Nat]]
    BY <1>3, <2>1 DEF FlushCoarse, Typed
  <2> QED
    BY <1>3, <2>2 DEF FlushCoarse, Typed, History
<1>4. CASE Cleanup
  <2>1. /\ hot' \in [Metrics -> SUBSET Nat] /\ staged' \in [Metrics -> SUBSET Nat]
        /\ row' \in [Metrics -> [1..2 -> SUBSET Nat]]
    BY <1>4 DEF Cleanup, Typed
  <2> QED
    BY <1>4, <2>1 DEF Cleanup, Typed
<1>5. CASE TimePasses
  BY <1>5 DEF TimePasses, Typed, Data, History
<1>6. ASSUME NEW m \in Metrics, NEW d \in Retentions, UpdateRetention(m, d)
      PROVE  Typed'
  <2>1. d \in Nat \cup {None} /\ Define(m, d)
    BY <1>6 DEF ConstantsTyped, UpdateRetention
  <2>2. /\ def' \in [Metrics -> Nat \cup {None}] /\ floor' \in [Metrics -> Nat \cup {None}]
        /\ accepted' \in [Metrics -> SUBSET Nat]
    BY <2>1, DefineEffect
  <2> QED
    BY <1>6, <2>2 DEF UpdateRetention, Typed, Data
<1>7. ASSUME NEW m \in Metrics, DeleteIfDisabled(m)
      PROVE  Typed'
  <2>1. PICK ms \in SUBSET Metrics : Dropped(ms)
    BY <1>7 DEF DeleteIfDisabled
  <2> QED
    BY <1>7, <2>1, DropEffect DEF DeleteIfDisabled, Typed, History
<1>8. ASSUME NEW m \in Metrics, DeleteFails(m)
      PROVE  Typed'
  BY <1>8 DEF DeleteFails, Typed, Data
<1>9. ASSUME NEW m \in Metrics, DeleteUndefined(m)
      PROVE  Typed'
  <2>1. /\ def' \in [Metrics -> Nat \cup {None}] /\ floor' \in [Metrics -> Nat \cup {None}]
        /\ accepted' \in [Metrics -> SUBSET Nat]
    BY <1>9, DefineEffect DEF DeleteUndefined
  <2>2. /\ hot' \in [Metrics -> SUBSET Nat] /\ staged' \in [Metrics -> SUBSET Nat]
        /\ row' \in [Metrics -> [1..2 -> SUBSET Nat]]
    BY <1>9, DropEffect DEF DeleteUndefined
  <2> QED
    BY <1>9, <2>1, <2>2 DEF DeleteUndefined, Typed
<1>10. CASE BeginReload \/ \E m \in Builtin : ReadDefinition(m)
  BY <1>10 DEF BeginReload, ReadDefinition, Typed, Data, History
<1>11. CASE UpsertMetric
  <2>1. opening.metric \in Metrics /\ opening.read \in Nat \cup {None} /\ Define(opening.metric, opening.read)
    BY <1>11 DEF UpsertMetric, ReadEnabled, ConstantsTyped
  <2>2. /\ def' \in [Metrics -> Nat \cup {None}] /\ floor' \in [Metrics -> Nat \cup {None}]
        /\ accepted' \in [Metrics -> SUBSET Nat]
    BY <2>1, DefineEffect
  <2> QED
    BY <1>11, <2>2 DEF UpsertMetric, Typed, Data
<1>12. CASE EndReload
  <2>1. Persisted \in [Metrics -> [1..2 -> SUBSET Nat]]
    BY DEF Persisted, Typed
  <2> QED
    BY <1>12, <2>1 DEF EndReload, Typed
<1>13. CASE Crash
  BY <1>13 DEF Crash, Typed
<1> QED
  BY <1>1, <1>2, <1>3, <1>4, <1>5, <1>6, <1>7, <1>8, <1>9, <1>10, <1>11, <1>12, <1>13 DEF CatalogNext

\* A reload reads a disabled metric as disabled and leaves it alone.
LEMMA ReadStep ==
  ASSUME ConstantsTyped, Typed, ReadEnabled, UndefinedIsEmpty, CatalogNext
  PROVE  ReadEnabled'
<1>1. CASE \E m \in Builtin : ReadDefinition(m)
  <2>1. PICK m \in Builtin : ReadDefinition(m)
    BY <1>1
  <2>2. m \in Metrics /\ def[m] \in Nat
    BY DEF ConstantsTyped, Typed, UndefinedIsEmpty
  <2>3. CASE def[m] = 0
    BY <2>1, <2>3 DEF ReadDefinition, ReadEnabled
  <2>4. CASE def[m] # 0
    <3>1. opening' = [opening EXCEPT !.left = @ \ {m}, !.metric = m, !.read = def[m]]
      BY <2>1, <2>4 DEF ReadDefinition
    <3> QED
      BY <2>1, <2>2, <2>4, <3>1 DEF ReadEnabled
  <2> QED
    BY <2>3, <2>4
<1>2. CASE UpsertMetric
  BY <1>2 DEF UpsertMetric, ReadEnabled
<1>4. CASE BeginReload
  BY <1>4 DEF BeginReload, ReadEnabled, Closed
<1>5. CASE EndReload \/ Crash
  <2>1. opening' = Closed
    BY <1>5 DEF EndReload, Crash
  <2> QED
    BY <2>1 DEF ReadEnabled, Closed
<1>3. CASE UNCHANGED opening
  BY <1>3 DEF ReadEnabled
<1> QED
  BY <1>1, <1>2, <1>3, <1>4, <1>5 DEF CatalogNext, WriteBatch, Flush, FlushCoarse, Cleanup, TimePasses, UpdateRetention,
     DeleteIfDisabled, DeleteFails, DeleteUndefined

\* Nothing of a metric that is not enabled comes back.
LEMMA NothingComesBack ==
  ASSUME ConstantsTyped, Typed, CatalogNext, NEW m \in Metrics, def[m] <= 0, Empty(m)
  PROVE  Empty(m)'
<1>1. CASE \E batch \in SUBSET Metrics : WriteBatch(batch)
  <2>1. PICK batch \in SUBSET Metrics : WriteBatch(batch)
    BY <1>1
  <2> DEFINE h == [n \in Metrics |-> IF n \in Filtered(batch) THEN hot[n] \cup {now} ELSE hot[n]]
  <2>2. h \in [Metrics -> SUBSET Nat] /\ FlushFrom(h)
    BY <2>1 DEF WriteBatch, Typed
  <2>3. h[m] = {}
    <3>1. ~(def[m] > 0)
      BY DEF Typed, None
    <3>2. m \notin Filtered(batch)
      BY <3>1 DEF Filtered
    <3> QED
      BY <3>2 DEF Empty
  <2> HIDE DEF h
  <2> QED
    BY <2>2, <2>3, FlushEffect DEF Empty
<1>2. CASE Flush
  <2>1. hot \in [Metrics -> SUBSET Nat] /\ FlushFrom(hot)
    BY <1>2 DEF Flush, Typed
  <2> QED
    BY <2>1, FlushEffect DEF Empty
<1>3. CASE FlushCoarse
  <2>1. KeptTiers(def[m]) = {}
    BY MinuteKept DEF Typed, None
  <2>2. Due(m) = {}
    BY DEF Due, Empty
  <2> QED
    BY <1>3, <2>1, <2>2 DEF FlushCoarse, Empty
<1>4. CASE Cleanup
  <2>1. \A i \in 1..2 : row'[m][i] \subseteq row[m][i]
    BY <1>4 DEF Cleanup
  <2> QED
    BY <1>4, <2>1 DEF Cleanup, Empty
<1>5. CASE \E n \in Metrics : DeleteIfDisabled(n) \/ DeleteUndefined(n)
  <2>1. PICK ms \in SUBSET Metrics : Dropped(ms)
    BY <1>5 DEF DeleteIfDisabled, DeleteUndefined
  <2> QED
    BY <2>1, DropEffect DEF Empty
<1>6. CASE EndReload
  <2>1. KeptTiers(def[m]) = {}
    BY MinuteKept DEF Typed, None
  <2> QED
    BY <1>6, <2>1 DEF EndReload, Persisted, Empty
<1>7. CASE Crash
  BY <1>7 DEF Crash, Empty
<1>8. CASE UNCHANGED Data
  BY <1>8 DEF Data, Empty
<1> QED
  BY <1>1, <1>2, <1>3, <1>4, <1>5, <1>6, <1>7, <1>8
     DEF CatalogNext, TimePasses, UpdateRetention, DeleteFails, BeginReload, ReadDefinition, UpsertMetric

\* Only an administrator or a reload that read another definition changes one.
LEMMA DefinitionMoves ==
  ASSUME ConstantsTyped, Typed, ReadEnabled, FloorBelow, CatalogNext, NEW m \in Metrics, def'[m] # def[m]
  PROVE  \/ def'[m] = None /\ m \notin Builtin /\ Empty(m)'
         \/ def'[m] = 0 /\ m \in deleting' /\ def[m] # None
         \/ def'[m] \in Nat \ {0}
<1>1. ASSUME NEW n \in Metrics, NEW d \in Retentions, UpdateRetention(n, d)
      PROVE  def'[m] \in Nat /\ (def'[m] = 0 => m \in deleting') /\ def[m] # None
  <2>1. d \in Nat /\ Define(n, d) /\ def[n] # None
    BY <1>1 DEF ConstantsTyped, UpdateRetention
  <2>2. def'[n] = d /\ n = m
    BY <2>1, DefineEffect
  <2> QED
    BY <1>1, <2>1, <2>2 DEF UpdateRetention
<1>2. ASSUME NEW n \in Metrics, DeleteUndefined(n)
      PROVE  def'[m] = None /\ m \notin Builtin /\ Empty(m)'
  <2>1. def'[n] = None /\ n = m
    BY <1>2, DefineEffect DEF DeleteUndefined
  <2> QED
    BY <1>2, <2>1, DropEffect DEF DeleteUndefined
<1>3. CASE UpsertMetric
  <2>1. opening.metric \in Metrics /\ opening.read \in Nat \ {0} /\ Define(opening.metric, opening.read)
    BY <1>3 DEF UpsertMetric, ReadEnabled, ConstantsTyped
  <2> QED
    BY <2>1, DefineEffect
<1>4. CASE UNCHANGED def
  BY <1>4
<1> QED
  BY <1>1, <1>2, <1>3, <1>4
     DEF CatalogNext, WriteBatch, Flush, FlushCoarse, Cleanup, TimePasses, DeleteIfDisabled, DeleteFails,
         BeginReload, ReadDefinition, EndReload, Crash

\* A deletion ends with the data of a disabled metric gone or as a failed one, and
\* the cleanup makes up for that.
LEMMA DeletionEnds ==
  ASSUME ConstantsTyped, Typed, CatalogNext, NEW m \in Metrics, def[m] = 0, def'[m] = 0,
         m \in deleting \cup missed, m \notin deleting' \cup missed'
  PROVE  Empty(m)'
<1>1. CASE \E n \in Metrics : DeleteIfDisabled(n)
  <2>1. PICK n \in Metrics : DeleteIfDisabled(n)
    BY <1>1
  <2>2. n = m /\ Dropped({m})
    BY <2>1 DEF DeleteIfDisabled, StillDisabled, History
  <2> QED
    BY <2>2, DropEffect
<1>2. CASE Cleanup
  <2>1. def[m] # None /\ KeptTiers(def[m]) = {}
    BY MinuteKept DEF None
  <2>2. \A i \in 1..2 : row'[m][i] = {}
    BY <1>2, <2>1 DEF Cleanup, Retained
  <2> QED
    BY <1>2, <2>2 DEF Cleanup, Empty
<1>3. ASSUME NEW n \in Metrics, DeleteUndefined(n)
      PROVE  FALSE
  <2>1. missed' = missed \ {n} /\ deleting' = deleting /\ def' = [def EXCEPT ![n] = None]
    BY <1>3 DEF DeleteUndefined, Define
  <2> QED
    BY <2>1 DEF Typed, None
<1>4. ASSUME NEW n \in Metrics, NEW d \in Retentions, UpdateRetention(n, d)
      PROVE  FALSE
  <2>1. CASE d = 0
    BY <1>4, <2>1 DEF UpdateRetention
  <2>2. CASE d # 0
    BY <1>4, <2>2 DEF UpdateRetention
  <2> QED
    BY <2>1, <2>2
<1>5. CASE Crash \/ EndReload \/ \E n \in Metrics : DeleteFails(n)
  BY <1>5 DEF Crash, EndReload, DeleteFails
<1>6. CASE UNCHANGED <<deleting, missed>>
  BY <1>6
<1> QED
  BY <1>1, <1>2, <1>3, <1>4, <1>5, <1>6
     DEF CatalogNext, WriteBatch, Flush, FlushCoarse, TimePasses, BeginReload, ReadDefinition, UpsertMetric, History

\* What is not enabled stays empty, or a deletion of it is on its way or failed.
LEMMA EmptyStep ==
  ASSUME ConstantsTyped, Typed, ReadEnabled, FloorBelow, UndefinedIsEmpty, DisabledIsEmpty, CatalogNext
  PROVE  UndefinedIsEmpty' /\ DisabledIsEmpty'
<1>1. ASSUME NEW m \in Metrics, def'[m] <= 0
      PROVE  /\ def'[m] = None => m \notin Builtin /\ Empty(m)'
             /\ m \notin deleting' \cup missed' => Empty(m)'
  <2>1. def[m] \in Nat \cup {None} /\ def'[m] \in Nat \cup {None}
    BY TypedStep DEF Typed
  <2>2. def'[m] \in {None, 0}
    BY <1>1, <2>1 DEF None
  <2>3. CASE def'[m] # def[m]
    BY <2>2, <2>3, DefinitionMoves DEF None
  <2>4. CASE def[m] = None /\ def'[m] = None
    BY <2>4, NothingComesBack DEF UndefinedIsEmpty, None
  <2>5. CASE def[m] = 0 /\ def'[m] = 0
    <3>1. m \notin deleting \cup missed => Empty(m)
      BY <2>5 DEF DisabledIsEmpty, Empty
    <3>2. m \notin deleting' \cup missed' => Empty(m)'
      BY <2>5, <3>1, NothingComesBack, DeletionEnds
    <3> QED
      BY <2>5, <3>2 DEF None
  <2> QED
    BY <2>2, <2>3, <2>4, <2>5
<1>2. \A m \in Metrics : def'[m] = None => def'[m] <= 0
  BY DEF None
<1> QED
  BY <1>1, <1>2 DEF UndefinedIsEmpty, DisabledIsEmpty, Empty

\* A sample that its retention covers now was covered before the step.
LEMMA CoveredBefore ==
  ASSUME ConstantsTyped, Typed, Typed', YoungIsKept, NEW m \in Metrics, def[m] > 0,
         now' >= now, floor'[m] <= floor[m],
         NEW t \in accepted[m], t >= now' - Capped(floor'[m], 1)
  PROVE  t \in Nat /\ t >= now - Capped(floor[m], 1) /\ t \in hot[m] \cup row[m][1]
<1>1. floor[m] \in Int /\ floor'[m] \in Int /\ now \in Int /\ now' \in Int /\ t \in Nat
  BY DEF Typed, None
<1>2. /\ Capped(floor'[m], 1) <= Capped(floor[m], 1)
      /\ Capped(floor'[m], 1) \in Int /\ Capped(floor[m], 1) \in Int
  BY <1>1, CappedFirst
<1>3. t >= now - Capped(floor[m], 1)
  BY <1>1, <1>2
<1> QED
  BY <1>1, <1>3 DEF YoungIsKept

\* A step takes no covered sample of an enabled metric away.
LEMMA CoveredStays ==
  ASSUME ConstantsTyped, Typed, FloorBelow, CatalogNext, NEW m \in Metrics, def[m] > 0, def'[m] > 0,
         NEW t \in Nat, t >= now - Capped(floor[m], 1), t \in hot[m] \cup row[m][1],
         t \in accepted'[m]
  PROVE  t \in hot'[m] \cup row'[m][1]
<1>1. CASE \E batch \in SUBSET Metrics : WriteBatch(batch)
  <2>1. PICK batch \in SUBSET Metrics : WriteBatch(batch)
    BY <1>1
  <2> DEFINE h == [n \in Metrics |-> IF n \in Filtered(batch) THEN hot[n] \cup {now} ELSE hot[n]]
  <2>2. h \in [Metrics -> SUBSET Nat] /\ FlushFrom(h) /\ hot[m] \subseteq h[m]
    BY <2>1 DEF WriteBatch, Typed
  <2> HIDE DEF h
  <2> QED
    BY <2>2, FlushEffect
<1>2. CASE Flush
  <2>1. hot \in [Metrics -> SUBSET Nat] /\ FlushFrom(hot)
    BY <1>2 DEF Flush, Typed
  <2> QED
    BY <2>1, FlushEffect
<1>3. CASE FlushCoarse
  <2>1. row'[m][1] = row[m][1]
    BY <1>3 DEF FlushCoarse, Typed
  <2> QED
    BY <1>3, <2>1 DEF FlushCoarse
<1>4. CASE Cleanup
  <2>1. def[m] \in Int /\ def[m] # 0 /\ def[m] # None
    BY DEF Typed, None
  <2>2. hot'[m] = hot[m]
    BY <1>4, <2>1 DEF Cleanup
  <2>3. row'[m][1] = {u \in row[m][1] : Retained(m, 1, u)}
    BY <1>4, <2>1 DEF Cleanup
  <2> QED
    BY <2>2, <2>3, CoveredIsRetained
<1>5. ASSUME NEW n \in Metrics, DeleteIfDisabled(n)
      PROVE  t \in hot'[m] \cup row'[m][1]
  <2>1. PICK ms \in SUBSET Metrics : Dropped(ms) /\ m \notin ms
    <3>1. def[m] # 0
      BY DEF Typed, None
    <3>2. m \notin (IF StillDisabled(n) THEN {n} ELSE {})
      BY <3>1 DEF StillDisabled
    <3> QED
      BY <1>5, <3>2 DEF DeleteIfDisabled
  <2> QED
    BY <2>1, DropEffect
<1>6. ASSUME NEW n \in Metrics, DeleteUndefined(n)
      PROVE  t \in hot'[m] \cup row'[m][1]
  <2>1. def'[n] = None
    BY <1>6, DefineEffect DEF DeleteUndefined
  <2>2. m # n
    BY <2>1 DEF None
  <2> QED
    BY <1>6, <2>2, DropEffect DEF DeleteUndefined
<1>7. CASE EndReload
  <2>1. 1 \in KeptTiers(def[m])
    BY MinuteKept DEF Typed, None
  <2>2. row'[m][1] = row[m][1] \cup hot[m]
    BY <1>7, <2>1 DEF EndReload, Persisted, Typed
  <2> QED
    BY <2>2
<1>8. CASE Crash
  <2>1. accepted'[m] = accepted[m] \ hot[m] /\ row' = row
    BY <1>8 DEF Crash
  <2> QED
    BY <2>1
<1>9. CASE UNCHANGED Data
  BY <1>9 DEF Data
<1> QED
  BY <1>1, <1>2, <1>3, <1>4, <1>5, <1>6, <1>7, <1>8, <1>9
     DEF CatalogNext, TimePasses, UpdateRetention, DeleteFails, BeginReload, ReadDefinition, UpsertMetric

\* What an enabled metric still has to keep it had to keep before the step, or
\* wrote in it.
NoNewDuty ==
  /\ FloorBelow'
  /\ \A m \in Metrics : def'[m] > 0 =>
       \/ accepted'[m] = {}
       \/ /\ def[m] > 0 /\ floor'[m] <= floor[m]
          /\ \A t \in accepted'[m] : t \in accepted[m] \/ t \in hot'[m] \cup row'[m][1]

\* So it is in every step.
LEMMA HistoryMoves ==
  ASSUME ConstantsTyped, Typed, ReadEnabled, FloorBelow, CatalogNext
  PROVE  now' >= now /\ NoNewDuty
<1>1. now' >= now
  <2>1. TimePasses \/ now' = now
    BY DEF CatalogNext, WriteBatch, Flush, FlushCoarse, Cleanup, UpdateRetention, DeleteIfDisabled, DeleteFails,
           DeleteUndefined, BeginReload, ReadDefinition, UpsertMetric, EndReload, Crash
  <2> QED
    BY <2>1 DEF TimePasses, Typed
<1>2. ASSUME NEW n \in Metrics, NEW d \in Nat \cup {None}, Define(n, d)
      PROVE  NoNewDuty
  BY <1>2, DefineEffect DEF NoNewDuty
<1>3. ASSUME NEW n \in Metrics, (\E d \in Retentions : UpdateRetention(n, d)) \/ DeleteUndefined(n)
      PROVE  NoNewDuty
  <2>1. \E d \in Nat \cup {None} : Define(n, d)
    BY <1>3 DEF UpdateRetention, DeleteUndefined, ConstantsTyped
  <2> QED
    BY <1>2, <2>1
<1>4. CASE UpsertMetric
  <2>1. \E n \in Metrics, d \in Nat \cup {None} : Define(n, d)
    BY <1>4 DEF UpsertMetric, ReadEnabled, ConstantsTyped
  <2> QED
    BY <1>1, <1>2, <2>1
<1>5. \A m \in Metrics : floor[m] <= floor[m]
  BY DEF Typed, None
<1>6. CASE \E batch \in SUBSET Metrics : WriteBatch(batch)
  <2>1. PICK batch \in SUBSET Metrics : WriteBatch(batch)
    BY <1>6
  <2> DEFINE h == [n \in Metrics |-> IF n \in Filtered(batch) THEN hot[n] \cup {now} ELSE hot[n]]
  <2>2. h \in [Metrics -> SUBSET Nat] /\ FlushFrom(h)
    BY <2>1 DEF WriteBatch, Typed
  <2>3. UNCHANGED <<def, floor>>
    BY <2>1 DEF WriteBatch
  <2>4. ASSUME NEW m \in Metrics, def[m] > 0, NEW t \in accepted'[m]
        PROVE  t \in accepted[m] \/ t \in hot'[m] \cup row'[m][1]
    <3>1. t \in accepted[m] \/ (m \in Filtered(batch) /\ t = now)
      BY <2>1, <2>4 DEF WriteBatch
    <3>2. t \in accepted[m] \/ t \in h[m]
      BY <3>1
    <3> HIDE DEF h
    <3> QED
      BY <2>2, <2>4, <3>2, FlushEffect
  <2> HIDE DEF h
  <2>5. FloorBelow'
    BY <2>3 DEF FloorBelow
  <2>6. ASSUME NEW m \in Metrics, def'[m] > 0
        PROVE  def[m] > 0 /\ floor'[m] <= floor[m]
    BY <1>5, <2>3, <2>6
  <2> QED
    BY <1>1, <2>4, <2>5, <2>6 DEF NoNewDuty
<1> DEFINE Shrinks == UNCHANGED <<def, floor>> /\ \A m \in Metrics : accepted'[m] \subseteq accepted[m]
<1>7. CASE Shrinks
  <2>1. FloorBelow'
    BY <1>7 DEF FloorBelow
  <2>2. ASSUME NEW m \in Metrics, def'[m] > 0
        PROVE  def[m] > 0 /\ floor'[m] <= floor[m]
    BY <1>5, <1>7, <2>2
  <2> QED
    BY <1>1, <1>7, <2>1, <2>2 DEF NoNewDuty
<1>8. CASE Crash \/ UNCHANGED <<def, floor, accepted>>
  <2>1. Shrinks
    BY <1>8 DEF Crash
  <2> HIDE DEF Shrinks
  <2> QED
    BY <1>7, <2>1
<1>9. NoNewDuty
  <2> QED
    BY <1>3, <1>4, <1>6, <1>8 DEF CatalogNext, Flush, FlushCoarse, Cleanup, TimePasses, DeleteIfDisabled, DeleteFails,
         BeginReload, ReadDefinition, EndReload, History
<1> QED
  BY <1>1, <1>9

\* What is due is kept by each step.
LEMMA YoungStep ==
  ASSUME ConstantsTyped, Typed, ReadEnabled, FloorBelow, YoungIsKept, CatalogNext
  PROVE  FloorBelow' /\ YoungIsKept'
<1>1. ASSUME NEW m \in Metrics, def'[m] > 0, NEW t \in accepted'[m], t >= now' - Capped(floor'[m], 1)
      PROVE  t \in hot'[m] \cup row'[m][1]
  <2>1. /\ now' >= now /\ def[m] > 0 /\ floor'[m] <= floor[m]
        /\ t \in accepted[m] \/ t \in hot'[m] \cup row'[m][1]
    BY <1>1, HistoryMoves DEF NoNewDuty
  <2>2. CASE t \in accepted[m]
    <3>1. t \in Nat /\ t >= now - Capped(floor[m], 1) /\ t \in hot[m] \cup row[m][1]
      BY <1>1, <2>1, <2>2, TypedStep, CoveredBefore
    <3> QED
      BY <1>1, <2>1, <3>1, CoveredStays
  <2> QED
    BY <2>1, <2>2
<1>2. \A m \in Metrics : Capped(floor[m], 1)' = Capped(floor'[m], 1)
  BY DEF Capped
<1> QED
  BY <1>1, <1>2, HistoryMoves DEF YoungIsKept, NoNewDuty

\* Every step preserves the invariant.
LEMMA InvStep == ConstantsTyped /\ IInv /\ [CatalogNext]_mvars => IInv'
<1> SUFFICES ASSUME ConstantsTyped, IInv, [CatalogNext]_mvars
             PROVE  IInv'
  OBVIOUS
<1>1. CASE CatalogNext
  BY <1>1, TypedStep, ReadStep, EmptyStep, YoungStep DEF IInv
<1>2. CASE UNCHANGED mvars
  BY <1>2 DEF mvars, IInv, Typed, ReadEnabled, UndefinedIsEmpty, DisabledIsEmpty, FloorBelow, YoungIsKept,
              Empty, Capped
<1> QED
  BY <1>1, <1>2

\* A disabled metric has no data but what a deletion on its way or the hourly
\* cleanup will take: no late write, flush, sealed parent or reload brings any
\* back (DeleteMetricDataIfDisabled, WriteBatch, CleanupExpired).  And no
\* cleanup, late deletion, reclamation or reload removes a sample of an enabled
\* metric that every retention it had since still covers.
THEOREM RetentionAlways ==
  ASSUME ConstantsTyped
  PROVE  CatalogSpec => []RetentionObeyed
<1>1. IInv => RetentionObeyed
  BY DEF IInv, RetentionObeyed
<1> QED
  BY <1>1, InvInit, InvStep, PTL DEF CatalogSpec
=============================================================================
