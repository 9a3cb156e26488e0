---------------------------- MODULE RollupStore ----------------------------
(***************************************************************************)
(* The write side of pkg/metric's Store for one series (one metric, entity *)
(* and tag set): the exact raw window, the in-memory ("hot") minute        *)
(* buckets, the durable minute tier, and the coarse parents that are       *)
(* staged in memory and sealed into their tiers after a grace period.      *)
(*                                                                         *)
(* A bucket is abstracted to the bag of observations it summarises, and,   *)
(* because an observation determines its bucket in every tier, one bag     *)
(* [Point -> Nat] stands for all the buckets of a tier: the bucket with    *)
(* key k is its restriction to the points whose key is k.                  *)
(***************************************************************************)
EXTENDS Integers, Sequences, FiniteSets, FiniteSetsExt

CONSTANTS
  Minute,      \* width of a minute bucket, in clock ticks
  Direct,      \* directRawRetention
  RawWindow,   \* rawMemoryRetention
  Grace,       \* coarseRollupGrace
  Width,       \* Width[t]: interval of coarse tier t, finest first
  Labels,      \* label sets (labelsHash)
  Values,      \* sample values
  Cutoffs,     \* the cutoffs DeleteBefore is called with
  Stamps,      \* bound: timestamps the writers use
  MaxTime,     \* bound: last clock tick
  MaxWrites,   \* bound: calls of WriteBatch
  MaxBatch,    \* bound: points of one batch
  MaxRestarts  \* bound: Close/Open cycles and crashes

NoSample == [label |-> "none", value |-> "none"]

Time   == 0..MaxTime
Tiers  == DOMAIN Width
Sample == [label : Labels, value : Values]
Point  == [ts : Time, label : Labels, value : Values]

ASSUME ConstantsAssumption ==
  /\ Minute \in Nat \ {0} /\ Direct \in Nat /\ RawWindow \in Nat
  /\ Grace \in Nat
  /\ MaxTime \in Nat /\ MaxWrites \in Nat /\ MaxBatch \in Nat
  /\ MaxRestarts \in Nat
  /\ Stamps \subseteq Time /\ Cutoffs \subseteq Nat
  /\ IsFiniteSet(Labels) /\ IsFiniteSet(Values)

ASSUME NoSampleAssumption == NoSample \notin Sample

\* RollupPolicy.Validate: intervals grow, each a multiple of the one before.
ASSUME PolicyAssumption ==
  /\ Width \in Seq(Nat \ {0})
  /\ \A t \in DOMAIN Width :
       LET finer == IF t = 1 THEN Minute ELSE Width[t-1]
       IN  Width[t] > finer /\ Width[t] % finer = 0

VARIABLES
  now,      \* the clock
  raw,      \* exact samples by timestamp (compressed and direct together)
  hot,      \* bag of the observations in in-memory minute buckets
  replace,  \* hotReplace: keys whose hot bucket overwrites the stored row
  row,      \* bag of the persisted minute rows
  staged,   \* staged[t]: bag of the unsealed parents of tier t
  sealed,   \* sealed[t]: bag of the persisted rows of tier t
  pc,       \* "sealing" while a call is inside flushClosedCoarseRollups
  writes, restarts, \* bounds
  last,     \* history: last sample accepted for each timestamp
  dirty,    \* history: minutes whose exact samples are not all in raw
  gaps      \* history: minutes some flush of which did not reach a parent

mem     == <<raw, hot, replace, staged>>
disk    == <<row, sealed>>
history == <<last, dirty, gaps>>
vars    == <<now, mem, disk, pc, writes, restarts, history>>

----------------------------------------------------------------------------
(* Buckets *)

Start(t, width) == (t \div width) * width        \* bucketStartMillis
MinuteOf(t)     == Start(t, Minute)
KeyOf(p)        == <<p.label, MinuteOf(p.ts)>>
Minutes         == {MinuteOf(t) : t \in Time}
Keys            == Labels \X Minutes
SampleOf(p)     == [label |-> p.label, value |-> p.value]
Empty           == [p \in Point |-> 0]

DirectCutoff    == now - Direct
RawCutoff       == Start(now - RawWindow, Minute)
\* Faulty variant: the minute before the current one is taken for open.
ClosedLate(key) == key[2] + Minute < MinuteOf(now)
Closed(key)     == key[2] < MinuteOf(now)

Present(bag, keys, key) ==
  key \in keys \/ \E p \in Point : KeyOf(p) = key /\ bag[p] > 0

\* The parent of tier t that covers a timestamp is outside its grace period.
Due(t, ts) == Start(ts, Width[t]) + Width[t] + Grace <= now

SameParent(t, p, q) ==
  p.label = q.label /\ Start(p.ts, Width[t]) = Start(q.ts, Width[t])

ParentStaged(t, p) == \E q \in Point : SameParent(t, p, q) /\ staged[t][q] > 0

----------------------------------------------------------------------------
(* writeRawPointsAt *)

\* Faulty variant: the cutoff is not aligned to the minute.
PruneUnaligned(r) ==
  [t \in Time |-> IF t < now - RawWindow THEN NoSample ELSE r[t]]
Prune(r) == [t \in Time |-> IF t < RawCutoff THEN NoSample ELSE r[t]]

InWindow(b)    == {i \in DOMAIN b : b[i].ts >= RawCutoff}
LastOf(b, t)   == Max({i \in InWindow(b) : b[i].ts = t})
StampsOf(b)    == {b[i].ts : i \in InWindow(b)}

\* Faulty variant: the first sample of a timestamp wins.
RawAfterFirstWins(b) ==
  [t \in Time |-> IF Prune(raw)[t] # NoSample \/ t \notin StampsOf(b)
                    THEN Prune(raw)[t] ELSE SampleOf(b[LastOf(b, t)])]

\* Every sample of the window is upserted by timestamp, in batch order.
RawAfter(b) ==
  [t \in Time |-> IF t \in StampsOf(b) THEN SampleOf(b[LastOf(b, t)])
                                       ELSE Prune(raw)[t]]

Duplicate(b, i) ==
  \/ Prune(raw)[b[i].ts] # NoSample
  \/ \E j \in InWindow(b) : j # i /\ b[j].ts = b[i].ts

\* Faulty variant: the bucket of the replaced sample's labels is not rebuilt.
RebuiltOwnOnly(b) ==
  {KeyOf(b[i]) : i \in {j \in InWindow(b) : \/ b[j].ts < DirectCutoff
                                            \/ Duplicate(b, j)}}

\* markRawRebuild: a point of the compressed range always rebuilds its minute,
\* a duplicate timestamp rebuilds its own bucket and the replaced sample's.
Rebuilt(b) ==
  {KeyOf(b[i]) : i \in {j \in InWindow(b) : \/ b[j].ts < DirectCutoff
                                            \/ Duplicate(b, j)}}
  \cup {<<raw[t].label, MinuteOf(t)>> :
          t \in {u \in StampsOf(b) : Prune(raw)[u] # NoSample}}

(* writePreparedHotRollups, up to the flush *)

Occurrences(b, p) == Cardinality({i \in DOMAIN b : b[i] = p})

\* Faulty variant: a replaced observation is subtracted from its hot bucket.
HotAfterSubtract(b) ==
  [p \in Point |->
     hot[p] + Occurrences(b, p)
       - (IF p.ts \in StampsOf(b) /\ Prune(raw)[p.ts] = SampleOf(p) THEN 1 ELSE 0)]

\* addPoint for every point of the batch, the ones too old for raw included;
\* then rebuildHotRollupsLocked recounts the marked buckets from raw.
HotAfter(b) ==
  [p \in Point |->
     IF KeyOf(p) \in Rebuilt(b)
       THEN IF RawAfter(b)[p.ts] = SampleOf(p) THEN 1 ELSE 0
       ELSE hot[p] + Occurrences(b, p)]

----------------------------------------------------------------------------
(* flushClosedHotRollups, persistHotRollups, addMinuteParents *)

\* Faulty variant: a rebuilt bucket is merged into the stored row.
RowAfterMerge(h, rep, keys) ==
  [p \in Point |-> IF KeyOf(p) \in keys THEN row[p] + h[p] ELSE row[p]]

\* One row per flushed key: a rebuilt bucket overwrites, any other is merged.
RowAfter(h, rep, keys) ==
  [p \in Point |-> IF KeyOf(p) \notin keys THEN row[p]
                   ELSE IF KeyOf(p) \in rep THEN h[p] ELSE row[p] + h[p]]

\* Faulty variants: the child is added to the one staged before; an empty
\* child leaves the stale one in place; a sealed parent is staged again.
MinuteParentsAdd(h, keys) ==
  [t \in Tiers |->
     IF t # 1 THEN staged[t]
     ELSE [p \in Point |-> IF KeyOf(p) \in keys /\ ~Due(1, p.ts)
                             THEN staged[1][p] + h[p] ELSE staged[1][p]]]
MinuteParentsKeepStale(h, keys) ==
  [t \in Tiers |->
     IF t # 1 THEN staged[t]
     ELSE [p \in Point |-> IF KeyOf(p) \in keys /\ ~Due(1, p.ts)
                                /\ Present(h, {}, KeyOf(p))
                             THEN h[p] ELSE staged[1][p]]]
MinuteParentsLate(h, keys) ==
  [t \in Tiers |->
     IF t # 1 THEN staged[t]
     ELSE [p \in Point |-> IF KeyOf(p) \in keys THEN h[p] ELSE staged[1][p]]]

\* The flushed bucket becomes the child of its parent of the first coarse tier.
MinuteParents(h, keys) ==
  [t \in Tiers |->
     IF t # 1 THEN staged[t]
     ELSE [p \in Point |-> IF KeyOf(p) \in keys /\ ~Due(1, p.ts)
                             THEN h[p] ELSE staged[1][p]]]

\* Keys whose flush leaves the parent without the whole minute.
Gaps(h, rep, keys) ==
  {k[2] : k \in {c \in keys :
     \/ Tiers # {} /\ Due(1, c[2])
     \/ c \notin rep /\ \E p \in Point : KeyOf(p) = c /\ row[p] > 0}}

Without(bag, keys) == [p \in Point |-> IF KeyOf(p) \in keys THEN 0 ELSE bag[p]]

\* Persist the buckets `keys` of h in one transaction. A failed transaction
\* puts them back (restoreHotRollups).
Persist(h, rep, keys, ok) ==
  IF ok
    THEN /\ row' = RowAfter(h, rep, keys)
         /\ staged' = MinuteParents(h, keys)
         /\ gaps' = gaps \cup Gaps(h, rep, keys)
         /\ hot' = Without(h, keys)
         /\ replace' = rep \ keys
    ELSE /\ hot' = h /\ replace' = rep
         /\ UNCHANGED <<row, staged, gaps>>

ClosedKeys(h, rep) == {k \in Keys : Closed(k) /\ Present(h, rep, k)}

\* flushClosedCoarseRollups is entered only when some parent is due.
SealablePoints(t, st) == {p \in Point : st[t][p] > 0 /\ Due(t, p.ts)}
EnterSealing(st) == IF \E t \in Tiers : SealablePoints(t, st) # {}
                      THEN "sealing" ELSE "idle"

----------------------------------------------------------------------------
(* Store.WriteBatch *)

Batches ==
  UNION {[1..n -> [ts : {t \in Stamps : t <= now}, label : Labels,
                   value : Values]] : n \in 1..MaxBatch}

\* Minutes a batch reaches with a point that is older than the raw window.
TooLate(b) == {MinuteOf(b[i].ts) : i \in DOMAIN b \ InWindow(b)}

LastAfter(b) ==
  [t \in Time |->
     IF \E i \in DOMAIN b : b[i].ts = t
       THEN SampleOf(b[Max({i \in DOMAIN b : b[i].ts = t})]) ELSE last[t]]

\* ok: outcome of the minute transaction. When it fails the caller gets the
\* error although raw and hot already hold the batch.
WriteBatch(b, ok) ==
  /\ pc = "idle" /\ writes < MaxWrites
  /\ writes' = writes + 1
  /\ raw' = RawAfter(b)
  /\ LET h == HotAfter(b)
         rep == replace \cup Rebuilt(b)
     IN  Persist(h, rep, ClosedKeys(h, rep), ok)
  /\ pc' = IF ok THEN EnterSealing(staged') ELSE "idle"
  /\ last' = LastAfter(b)
  /\ dirty' = dirty \cup TooLate(b)
  /\ UNCHANGED <<now, sealed, restarts>>

(* Store.Flush: trim the raw window, persist the closed minutes. *)
Flush(ok) ==
  /\ pc = "idle"
  /\ raw' = Prune(raw)
  /\ Persist(hot, replace, ClosedKeys(hot, replace), ok)
  /\ UNCHANGED <<now, sealed, pc, writes, restarts, last, dirty>>

(* Store.FlushCoarse and the iterations of flushClosedCoarseRollups *)

FlushCoarse ==
  /\ pc = "idle" /\ EnterSealing(staged) = "sealing"
  /\ pc' = "sealing"
  /\ UNCHANGED <<now, mem, disk, writes, restarts, history>>

Sealing(t, p) == Due(t, p.ts) /\ ParentStaged(t, p)

\* Faulty variant: the sealed parent does not feed the next tier.
FedParentsDropped(s) ==
  [staged EXCEPT ![s] =
     [p \in Point |-> IF Sealing(s, p) THEN 0 ELSE staged[s][p]]]

\* The sealed bucket becomes a child of the next tier's parent.
FedParents(s) ==
  [t \in Tiers |->
     IF t = s THEN [p \in Point |-> IF Sealing(s, p) THEN 0 ELSE staged[s][p]]
     ELSE IF t = s + 1
       THEN [p \in Point |-> IF Sealing(s, p) THEN staged[s][p] ELSE staged[t][p]]
     ELSE staged[t]]

SealedRows(s) ==
  [sealed EXCEPT ![s] =
     [p \in Point |-> IF Sealing(s, p) THEN staged[s][p] ELSE sealed[s][p]]]

\* takeClosedCoarseRollups takes the finest tier that has a due parent.
SealTier(s) ==
  /\ pc = "sealing"
  /\ SealablePoints(s, staged) # {}
  /\ \A u \in Tiers : u < s => SealablePoints(u, staged) = {}
  /\ sealed' = SealedRows(s)
  /\ staged' = FedParents(s)
  /\ pc' = EnterSealing(staged')
  /\ UNCHANGED <<now, raw, hot, replace, row, writes, restarts, history>>

\* The transaction (or the policy read) failed: the parents are restored and
\* the call returns the error.
SealFails ==
  /\ pc = "sealing"
  /\ pc' = "idle"
  /\ UNCHANGED <<now, mem, disk, writes, restarts, history>>
----------------------------------------------------------------------------
(* Deletions *)

\* DeleteSeries, DeleteEntity, DeleteMetric, SetMetricRetention(0): the rows,
\* then the matching state in memory.
DeleteSeries ==
  /\ pc = "idle"
  /\ raw' = [t \in Time |-> NoSample]
  /\ hot' = Empty /\ replace' = {} /\ row' = Empty
  /\ staged' = [t \in Tiers |-> Empty]
  /\ sealed' = [t \in Tiers |-> Empty]
  /\ last' = [t \in Time |-> NoSample] /\ dirty' = {} /\ gaps' = {}
  /\ UNCHANGED <<now, pc, writes, restarts>>

\* DeleteBefore: the buckets that start before the cutoff's own bucket go, in
\* every persisted tier and in hot; raw goes up to the cutoff itself.
DeleteBefore(cutoff) ==
  LET before(p, w) == Start(p.ts, w) < Start(cutoff, w)
      gone == {m \in Minutes : m < MinuteOf(cutoff)}
  IN
  /\ pc = "idle"
  /\ raw' = [t \in Time |-> IF t < cutoff THEN NoSample ELSE raw[t]]
  /\ hot' = [p \in Point |-> IF before(p, Minute) THEN 0 ELSE hot[p]]
  /\ replace' = {k \in replace : k[2] >= MinuteOf(cutoff)}
  /\ row' = [p \in Point |-> IF before(p, Minute) THEN 0 ELSE row[p]]
  /\ sealed' = [t \in Tiers |-> [p \in Point |->
                  IF before(p, Width[t]) THEN 0 ELSE sealed[t][p]]]
  /\ last' = [t \in Time |-> IF MinuteOf(t) \in gone THEN NoSample ELSE last[t]]
  /\ dirty' = (dirty \cup {MinuteOf(t) : t \in {u \in Time :
                              u < cutoff /\ raw[u] # NoSample}}) \ gone
  /\ gaps' = gaps \cup {m \in Minutes : m <= cutoff}
  /\ UNCHANGED <<now, staged, pc, writes, restarts>>

(* Close and Open; a crash *)

\* Minutes whose exact samples are forgotten with the process.
Unfinished == {MinuteOf(t) : t \in {u \in Time : raw[u] # NoSample}}

Reopen ==
  /\ restarts < MaxRestarts
  /\ restarts' = restarts + 1
  /\ raw' = [t \in Time |-> NoSample]
  /\ hot' = Empty /\ replace' = {}
  /\ staged' = [t \in Tiers |-> Empty]
  /\ pc' = "idle"
  /\ gaps' = gaps \cup {m \in Minutes : m <= now}
  /\ UNCHANGED <<now, sealed, writes, last>>

\* Close persists every hot bucket, the open minute's too; parents are dropped.
Restart ==
  /\ pc = "idle"
  /\ row' = RowAfter(hot, replace, {k \in Keys : Present(hot, replace, k)})
  /\ dirty' = dirty \cup Unfinished
  /\ Reopen

\* A crash, or a Close whose flush fails: memory is lost.
Crash ==
  /\ dirty' = dirty \cup Unfinished
                    \cup {MinuteOf(p.ts) : p \in {q \in Point : hot[q] > 0}}
                    \cup {k[2] : k \in replace}
  /\ Reopen
  /\ UNCHANGED row

Tick ==
  /\ pc = "idle" /\ now < MaxTime
  /\ now' = now + 1
  /\ UNCHANGED <<mem, disk, pc, writes, restarts, history>>

----------------------------------------------------------------------------
Init ==
  /\ now = 0 /\ pc = "idle" /\ writes = 0 /\ restarts = 0
  /\ raw = [t \in Time |-> NoSample] /\ last = [t \in Time |-> NoSample]
  /\ hot = Empty /\ replace = {} /\ row = Empty
  /\ staged = [t \in Tiers |-> Empty] /\ sealed = [t \in Tiers |-> Empty]
  /\ dirty = {} /\ gaps = {}

Next ==
  \/ \E b \in Batches, ok \in BOOLEAN : WriteBatch(b, ok)
  \/ \E ok \in BOOLEAN : Flush(ok)
  \/ FlushCoarse \/ \E s \in Tiers : SealTier(s)
  \/ SealFails
  \/ DeleteSeries \/ \E c \in Cutoffs : DeleteBefore(c)
  \/ Restart \/ Crash \/ Tick

Spec == Init /\ [][Next]_vars

\* The scheduler runs Flush and FlushCoarse for ever; the database fails only
\* finitely often in a row.
FairSpec == /\ Spec
            /\ WF_vars(FlushCoarse)
            /\ SF_vars(Flush(TRUE)) /\ SF_vars(\E s \in Tiers : SealTier(s))
----------------------------------------------------------------------------
(* Properties *)

\* Every variable has its type.
TypeOK ==
  /\ now \in Time
  /\ raw \in [Time -> Sample \cup {NoSample}]
  /\ hot \in [Point -> Nat]
  /\ replace \subseteq Keys
  /\ row \in [Point -> Nat]
  /\ staged \in [Tiers -> [Point -> Nat]]
  /\ sealed \in [Tiers -> [Point -> Nat]]
  /\ pc \in {"idle", "sealing"}
  /\ writes \in Nat /\ restarts \in Nat
  /\ last \in [Time -> Sample \cup {NoSample}]
  /\ dirty \subseteq Minutes /\ gaps \subseteq Minutes

\* What the minute row of a point will hold once the hot bucket is persisted.
DurableView(p) ==
  IF KeyOf(p) \in replace THEN hot[p] ELSE row[p] + hot[p]

\* Last write wins: a timestamp counts once, for the sample accepted last.
Expected(p) == IF last[p.ts] = SampleOf(p) THEN 1 ELSE 0

\* The minute tier is exact: whatever mix of late points, duplicate
\* timestamps, label changes, failed flushes and retries a minute sees inside
\* the exact window, its row (with the hot bucket that will be merged into it
\* or will replace it) counts every accepted timestamp once, with the last
\* sample. Minutes cut by a restart, a partial delete or a point older than
\* the window are excluded: for them the code keeps no exact samples.
MinuteExact ==
  \A p \in Point : MinuteOf(p.ts) \notin dirty => DurableView(p) = Expected(p)

\* The exact window is whole: a timestamp inside it is answered with the last
\* sample accepted for it, and the oldest minute is there from its start, so
\* that a rebuild of any minute of the window finds all its samples.
WindowExact ==
  \A t \in Time :
    t >= RawCutoff /\ MinuteOf(t) \notin dirty => raw[t] = last[t]

\* A minute flushed once, or rebuilt, in time, is counted in its first coarse
\* parent exactly as in its own row, staged or sealed, across failed seals; and
\* what a tier has sealed is what the next tier holds, staged or sealed.
FirstTierComposed ==
  \A p \in Point :
    Tiers # {} /\ MinuteOf(p.ts) \notin gaps \cup dirty
      => staged[1][p] + sealed[1][p] = row[p]
NextTiersComposed ==
  \A t \in Tiers \ {1}, p \in Point :
    MinuteOf(p.ts) \notin gaps \cup dirty
      => staged[t][p] + sealed[t][p] = sealed[t-1][p]
CoarseComposed == FirstTierComposed /\ NextTiersComposed

Siblings(t, p) == {q \in Point : SameParent(t, p, q)}

\* A persisted parent is never written again ("must remain immutable"): a step
\* leaves all of it as it was or deletes it.
SealedOnce ==
  [][\A t \in Tiers, p \in Point :
       (\E q \in Siblings(t, p) : sealed[t][q] > 0)
         => \/ \A q \in Siblings(t, p) : sealed'[t][q] = sealed[t][q]
            \/ \A q \in Siblings(t, p) : sealed'[t][q] = 0]_vars

\* A closed minute does not stay in memory, and a due parent does not stay
\* unsealed: once the writes have ended the scheduled flushes get everything
\* to the database.
Settled ==
  /\ \A p \in Point : MinuteOf(p.ts) < MinuteOf(now) => hot[p] = 0
  /\ \A t \in Tiers, p \in Point : Due(t, p.ts) => staged[t][p] = 0
Drains == <>[]Settled

----------------------------------------------------------------------------
(* Claims of the repository that the code does not meet *)

\* rollup.go: "a coarse bucket is composed of whole finer buckets".
CoarseWhole ==
  \A p \in Point :
    (Tiers # {} /\ MinuteOf(p.ts) \notin dirty /\ ~Due(1, p.ts))
      => staged[1][p] + sealed[1][p] = row[p]

\* store.go, rollupViewMu: "keeps persisted and hot rollups as one queryable
\* view". A reader of the minute tier sums the stored row and the hot bucket.
ReadExact ==
  \A p \in Point : MinuteOf(p.ts) \notin dirty => row[p] + hot[p] = Expected(p)

\* store.go, DeleteBefore: deletes summaries older than the cutoff "across
\* every resolution": nothing deleted comes back as a coarse row.
DeletedStaysDeleted ==
  [][\A t \in Tiers, p \in Point :
       sealed'[t][p] > sealed[t][p] => last[p.ts] # NoSample]_vars

\* raw_points.go, rawMemoryCutoff: a late replacement rebuilds a minute
\* "without dropping its earlier samples".
RebuildKeepsSamples ==
  [][\A p \in Point :
       (row[p] > 0 /\ last'[p.ts] = SampleOf(p)) => row'[p] > 0]_vars
=============================================================================
