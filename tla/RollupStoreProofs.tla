------------------------- MODULE RollupStoreProofs -------------------------
(***************************************************************************)
(* Proofs about RollupStore for every value of its constants: bucket       *)
(* arithmetic, type correctness, the exactness of the minute tier, and the *)
(* coarse tiers: a sealed parent is never written again, and what one tier *)
(* holds is what the tier below it has sealed.                             *)
(***************************************************************************)
EXTENDS RollupStore, FiniteSetTheorems, WellFoundedInduction, SequenceLemmas, TLAPS

----------------------------------------------------------------------------
(* Bucket arithmetic *)

\* A bucket starts at a multiple of its width and contains the timestamp.
LEMMA StartBounds ==
  ASSUME NEW t \in Int, NEW w \in Nat \ {0}
  PROVE  /\ Start(t, w) \in Int
         /\ Start(t, w) <= t
         /\ t < Start(t, w) + w
  BY DEF Start

\* Buckets are ordered as the timestamps in them.
LEMMA StartAtLeast ==
  ASSUME NEW t \in Int, NEW c \in Int, NEW w \in Nat \ {0}, t >= Start(c, w)
  PROVE  Start(t, w) >= Start(c, w)
  <1> DEFINE q == t \div w
             r == c \div w
  <1>1. q \in Int /\ r \in Int /\ t < q * w + w /\ t >= r * w
    BY DEF Start
  <1>2. CASE q >= r
    <2>1. q * w >= r * w
      BY <1>1, <1>2
    <2> QED BY <2>1 DEF Start
  <1>3. CASE q + 1 <= r
    <2>1. (q + 1) * w <= r * w
      BY <1>1, <1>3
    <2>2. (q + 1) * w = q * w + w
      BY <1>1
    <2>3. q * w \in Int /\ r * w \in Int
      BY <1>1
    <2> QED BY <1>1, <2>1, <2>2, <2>3
  <1> QED BY <1>1, <1>2, <1>3

\* The cutoff of the exact window is the start of a minute, so it never parts
\* the timestamps of one minute.
LEMMA CutoffKeepsMinutes ==
  ASSUME NEW s \in Int, NEW t \in Int, NEW c \in Int, Minute \in Nat \ {0},
         MinuteOf(s) = MinuteOf(t), s >= Start(c, Minute)
  PROVE  t >= Start(c, Minute)
  <1>1. MinuteOf(s) >= Start(c, Minute)
    BY StartAtLeast DEF MinuteOf
  <1>2. t >= MinuteOf(t) /\ MinuteOf(t) \in Int /\ Start(c, Minute) \in Int
    BY StartBounds DEF MinuteOf
  <1> QED BY <1>1, <1>2

\* A non-empty set of positions of a batch has a last one: the position with
\* the fewest positions above it, by well-founded strict inclusion.
LEMMA MaxPosition ==
  ASSUME NEW n \in Nat, NEW S \in SUBSET (1..n), S # {}
  PROVE  Max(S) \in S
  <1> DEFINE Above(i) == {j \in S : j > i}
             T == {Above(i) : i \in S}
  <1>1. IsFiniteSet(S)
    <2>1. IsFiniteSet(1..n)
      BY FS_Interval
    <2> QED BY <2>1, FS_Subset
  <1>2. IsWellFoundedOn(StrictSubsetOrdering(S), SUBSET S)
    BY <1>1, FS_StrictSubsetOrderingWellFounded, FS_FiniteSubsetsOfFinite
  <1>3. T \subseteq SUBSET S /\ T # {}
    OBVIOUS
  <1>4. PICK x \in T : \A y \in T : ~ (<<y, x>> \in StrictSubsetOrdering(S))
    <2> HIDE DEF T
    <2> QED BY <1>2, <1>3, WFMin
  <1>5. PICK m \in S : x = Above(m)
    OBVIOUS
  <1>6. ASSUME NEW i \in S, i > m PROVE FALSE
    <2>1. /\ \A j \in Above(i) : j \in S /\ j > i
          /\ \A j \in S : j > m => j \in Above(m)
          /\ i \notin Above(i) /\ i \in Above(m)
      BY <1>6
    <2>2. \A j \in S : j \in Int
      OBVIOUS
    <2>3. Above(i) \subseteq Above(m)
      <3>1. ASSUME NEW j \in Above(i) PROVE j \in Above(m)
        <4>1. j \in S /\ j > i /\ j \in Int /\ i \in Int /\ m \in Int
          BY <2>1, <2>2, <1>6
        <4>2. j > m
          BY <4>1, <1>6
        <4> QED BY <4>1, <4>2, <2>1
      <3> QED BY <3>1
    <2>4. Above(i) # Above(m) /\ Above(m) \subseteq S /\ Above(i) \in T
      BY <2>1
    <2>5. <<Above(i), Above(m)>> \in StrictSubsetOrdering(S)
      <3> HIDE DEF Above
      <3> QED BY <2>3, <2>4 DEF StrictSubsetOrdering
    <2> QED BY <2>4, <2>5, <1>4, <1>5
  <1>7. \A i \in S : m >= i
    BY <1>6
  <1> QED BY <1>7 DEF Max

----------------------------------------------------------------------------
(* Typing of the helpers of WriteBatch *)

LEMMA BatchType ==
  ASSUME TypeOK, NEW b \in Batches
  PROVE  /\ \E n \in Nat : DOMAIN b = 1..n
         /\ \A i \in DOMAIN b : b[i] \in Point
         /\ InWindow(b) \subseteq DOMAIN b
  <1>1. PICK n \in 1..MaxBatch :
          b \in [1..n -> [ts : {t \in Stamps : t <= now}, label : Labels,
                          value : Values]]
    BY DEF Batches
  <1>2. {t \in Stamps : t <= now} \subseteq Time
    BY ConstantsAssumption
  <1>3. \A i \in DOMAIN b : b[i] \in Point
    BY <1>1, <1>2 DEF Point
  <1>4. n \in Nat /\ DOMAIN b = 1..n
    BY <1>1, ConstantsAssumption
  <1> QED BY <1>3, <1>4 DEF InWindow

\* The positions of a batch that write a timestamp have a last one.
LEMMA LastPosition ==
  ASSUME TypeOK, NEW b \in Batches, NEW S \in SUBSET DOMAIN b, S # {}
  PROVE  Max(S) \in S
  BY BatchType, MaxPosition

LEMMA StampTypes ==
  ASSUME NEW p \in Point
  PROVE  /\ p.ts \in Time /\ p.label \in Labels
         /\ SampleOf(p) \in Sample /\ SampleOf(p) # NoSample
         /\ KeyOf(p) \in Keys /\ KeyOf(p)[2] = MinuteOf(p.ts)
         /\ MinuteOf(p.ts) \in Minutes
  <1>1. p.ts \in Time /\ p.label \in Labels /\ SampleOf(p) \in Sample
    BY DEF Point, Sample, SampleOf
  <1> QED BY <1>1, NoSampleAssumption DEF KeyOf, Keys, Minutes

LEMMA WriteTypes ==
  ASSUME TypeOK, NEW b \in Batches
  PROVE  /\ RawAfter(b) \in [Time -> Sample \cup {NoSample}]
         /\ LastAfter(b) \in [Time -> Sample \cup {NoSample}]
         /\ HotAfter(b) \in [Point -> Nat]
         /\ Rebuilt(b) \subseteq Keys
         /\ TooLate(b) \subseteq Minutes
  <1> USE BatchType
  <1>1. Prune(raw) \in [Time -> Sample \cup {NoSample}]
    BY DEF TypeOK, Prune
  <1>2. ASSUME NEW t \in StampsOf(b)
        PROVE  SampleOf(b[LastOf(b, t)]) \in Sample
    <2> DEFINE S == {i \in InWindow(b) : b[i].ts = t}
    <2>1. S \subseteq DOMAIN b /\ S # {}
      BY DEF StampsOf
    <2>2. Max(S) \in DOMAIN b
      <3> HIDE DEF S
      <3> QED BY <2>1, LastPosition
    <2> QED BY <2>2, StampTypes DEF LastOf
  <1>3. RawAfter(b) \in [Time -> Sample \cup {NoSample}]
    BY <1>1, <1>2 DEF RawAfter
  <1>4. LastAfter(b) \in [Time -> Sample \cup {NoSample}]
    <2>1. ASSUME NEW t \in Time, \E i \in DOMAIN b : b[i].ts = t
          PROVE  SampleOf(b[Max({i \in DOMAIN b : b[i].ts = t})]) \in Sample
      <3> DEFINE S == {i \in DOMAIN b : b[i].ts = t}
      <3>1. S \subseteq DOMAIN b /\ S # {}
        BY <2>1
      <3>2. Max(S) \in DOMAIN b
        <4> HIDE DEF S
        <4> QED BY <3>1, LastPosition
      <3> QED BY <3>2, StampTypes
    <2> QED BY <2>1 DEF LastAfter, TypeOK
  <1>5. HotAfter(b) \in [Point -> Nat]
    <2>1. ASSUME NEW p \in Point PROVE Occurrences(b, p) \in Nat
      <3>1. IsFiniteSet(DOMAIN b)
        BY FS_Interval
      <3>2. IsFiniteSet({i \in DOMAIN b : b[i] = p})
        BY <3>1, FS_Subset
      <3> QED BY <3>2, FS_CardinalityType DEF Occurrences
    <2> QED BY <2>1 DEF HotAfter, TypeOK
  <1>6. Rebuilt(b) \subseteq Keys
    <2>1. \A i \in InWindow(b) : KeyOf(b[i]) \in Keys
      BY StampTypes
    <2>2. \A t \in StampsOf(b) : t \in Time
      BY StampTypes DEF StampsOf
    <2>3. ASSUME NEW t \in StampsOf(b), Prune(raw)[t] # NoSample
          PROVE  <<raw[t].label, MinuteOf(t)>> \in Keys
      <3>1. raw[t] \in Sample
        BY <2>2, <2>3 DEF Prune, TypeOK
      <3> QED BY <3>1, <2>2 DEF Sample, Keys, Minutes
    <2> QED BY <2>1, <2>3 DEF Rebuilt
  <1>7. TooLate(b) \subseteq Minutes
    BY StampTypes DEF TooLate
  <1> QED BY <1>3, <1>4, <1>5, <1>6, <1>7


----------------------------------------------------------------------------
(* Persisting buckets *)

\* Persist keeps the types of what it writes.
LEMMA PersistType ==
  ASSUME TypeOK, NEW h \in [Point -> Nat], NEW rep \in SUBSET Keys,
         NEW keys \in SUBSET Keys, NEW ok \in BOOLEAN,
         Persist(h, rep, keys, ok)
  PROVE  /\ hot' \in [Point -> Nat] /\ row' \in [Point -> Nat]
         /\ replace' \subseteq Keys
         /\ staged' \in [Tiers -> [Point -> Nat]]
         /\ gaps' \subseteq Minutes
  <1>1. CASE ok
    <2>1. Without(h, keys) \in [Point -> Nat]
      BY DEF Without
    <2>2. RowAfter(h, rep, keys) \in [Point -> Nat]
      BY DEF RowAfter, TypeOK
    <2>3. MinuteParents(h, keys) \in [Tiers -> [Point -> Nat]]
      BY DEF MinuteParents, TypeOK
    <2>4. Gaps(h, rep, keys) \subseteq Minutes
      BY DEF Gaps, Keys
    <2> QED BY <1>1, <2>1, <2>2, <2>3, <2>4 DEF Persist, TypeOK
  <1>2. CASE ~ok
    BY <1>2 DEF Persist, TypeOK
  <1> QED BY <1>1, <1>2

\* Whatever is persisted, and whether the transaction commits or not, the
\* durable view is that of the buckets handed to it.
LEMMA PersistView ==
  ASSUME TypeOK, NEW h \in [Point -> Nat], NEW rep \in SUBSET Keys,
         NEW keys \in SUBSET Keys, NEW ok \in BOOLEAN,
         Persist(h, rep, keys, ok), NEW p \in Point
  PROVE  DurableView(p)' = IF KeyOf(p) \in rep THEN h[p] ELSE row[p] + h[p]
  <1> USE DEF DurableView
  <1>0. KeyOf(p)' = KeyOf(p)
    BY DEF KeyOf, MinuteOf, Start
  <1>1. CASE ~ok
    BY <1>0, <1>1 DEF Persist
  <1>2. CASE ok /\ KeyOf(p) \notin keys
    <2>1. hot'[p] = h[p] /\ row'[p] = row[p]
      BY <1>2 DEF Persist, Without, RowAfter
    <2>2. KeyOf(p) \in replace' <=> KeyOf(p) \in rep
      BY <1>2 DEF Persist
    <2> QED BY <1>0, <2>1, <2>2
  <1>3. CASE ok /\ KeyOf(p) \in keys
    <2>1. hot'[p] = 0 /\ KeyOf(p) \notin replace'
      BY <1>3 DEF Persist, Without
    <2>2. row'[p] = IF KeyOf(p) \in rep THEN h[p] ELSE row[p] + h[p]
      BY <1>3 DEF Persist, RowAfter
    <2>3. row'[p] \in Nat
      BY PersistType
    <2> QED BY <1>0, <2>1, <2>2, <2>3
  <1> QED BY <1>1, <1>2, <1>3

----------------------------------------------------------------------------
(* Type correctness *)

LEMMA TypeInit == Init => TypeOK
  BY ConstantsAssumption DEF Init, TypeOK, Time, Empty

LEMMA TypeStep == TypeOK /\ [Next]_vars => TypeOK'
  <1> SUFFICES ASSUME TypeOK, [Next]_vars PROVE TypeOK'
    OBVIOUS
  <1>1. ASSUME NEW b \in Batches, NEW ok \in BOOLEAN, WriteBatch(b, ok)
        PROVE  TypeOK'
    <2> DEFINE h == HotAfter(b)
               rep == replace \cup Rebuilt(b)
    <2>1. h \in [Point -> Nat] /\ rep \in SUBSET Keys
      BY WriteTypes DEF TypeOK
    <2>2. Persist(h, rep, ClosedKeys(h, rep), ok)
      BY <1>1 DEF WriteBatch
    <2>3. ClosedKeys(h, rep) \in SUBSET Keys
      BY DEF ClosedKeys
    <2>4. /\ hot' \in [Point -> Nat] /\ row' \in [Point -> Nat]
          /\ replace' \subseteq Keys
          /\ staged' \in [Tiers -> [Point -> Nat]]
          /\ gaps' \subseteq Minutes
      <3> HIDE DEF h, rep
      <3> QED BY <2>1, <2>2, <2>3, PersistType
    <2>5. raw' \in [Time -> Sample \cup {NoSample}]
      BY <1>1, WriteTypes DEF WriteBatch
    <2>6. /\ last' \in [Time -> Sample \cup {NoSample}]
          /\ dirty' \subseteq Minutes
      BY <1>1, WriteTypes DEF WriteBatch, TypeOK
    <2>7. pc' \in {"idle", "sealing"} /\ writes' \in Nat
      BY <1>1 DEF WriteBatch, EnterSealing, TypeOK
    <2> QED BY <1>1, <2>4, <2>5, <2>6, <2>7 DEF WriteBatch, TypeOK
  <1>2. ASSUME NEW ok \in BOOLEAN, Flush(ok) PROVE TypeOK'
    <2>1. ClosedKeys(hot, replace) \in SUBSET Keys
      BY DEF ClosedKeys
    <2>2. /\ hot' \in [Point -> Nat] /\ row' \in [Point -> Nat]
          /\ replace' \subseteq Keys
          /\ staged' \in [Tiers -> [Point -> Nat]]
          /\ gaps' \subseteq Minutes
      BY <1>2, <2>1, PersistType DEF Flush, TypeOK
    <2>3. raw' \in [Time -> Sample \cup {NoSample}]
      BY <1>2 DEF Flush, Prune, TypeOK
    <2> QED BY <1>2, <2>2, <2>3 DEF Flush, TypeOK
  <1>3. CASE FlushCoarse
    BY <1>3 DEF FlushCoarse, TypeOK, mem, disk, history
  <1>4. ASSUME NEW s \in Tiers, SealTier(s) PROVE TypeOK'
    <2>1. SealedRows(s) \in [Tiers -> [Point -> Nat]]
      BY DEF SealedRows, TypeOK
    <2>2. FedParents(s) \in [Tiers -> [Point -> Nat]]
      BY DEF FedParents, TypeOK
    <2>3. pc' \in {"idle", "sealing"}
      BY <1>4 DEF SealTier, EnterSealing
    <2> QED BY <1>4, <2>1, <2>2, <2>3 DEF SealTier, TypeOK, history
  <1>5. CASE SealFails
    BY <1>5 DEF SealFails, TypeOK, mem, disk, history
  <1>6. CASE DeleteSeries
    BY <1>6 DEF DeleteSeries, TypeOK, Empty
  <1>7. ASSUME NEW c \in Cutoffs, DeleteBefore(c) PROVE TypeOK'
    <2>1. /\ hot' \in [Point -> Nat] /\ row' \in [Point -> Nat]
          /\ sealed' \in [Tiers -> [Point -> Nat]]
      BY <1>7 DEF DeleteBefore, TypeOK
    <2>2. /\ raw' \in [Time -> Sample \cup {NoSample}]
          /\ last' \in [Time -> Sample \cup {NoSample}]
      BY <1>7 DEF DeleteBefore, TypeOK
    <2>3. replace' \subseteq Keys /\ gaps' \subseteq Minutes
      BY <1>7 DEF DeleteBefore, TypeOK
    <2>4. dirty' \subseteq Minutes
      BY <1>7 DEF DeleteBefore, TypeOK, Minutes
    <2> QED BY <1>7, <2>1, <2>2, <2>3, <2>4 DEF DeleteBefore, TypeOK
  <1>8. ASSUME Reopen, row' \in [Point -> Nat], dirty' \subseteq Minutes
        PROVE  TypeOK'
    BY <1>8 DEF Reopen, TypeOK, Empty
  <1>9. Unfinished \subseteq Minutes
    BY DEF Unfinished, Minutes
  <1>10. CASE Restart
    <2>1. row' \in [Point -> Nat]
      BY <1>10 DEF Restart, RowAfter, TypeOK
    <2> QED BY <1>8, <1>9, <1>10, <2>1 DEF Restart, TypeOK
  <1>11. CASE Crash
    <2>1. {MinuteOf(p.ts) : p \in {q \in Point : hot[q] > 0}} \subseteq Minutes
      BY StampTypes
    <2>2. {k[2] : k \in replace} \subseteq Minutes
      BY DEF TypeOK, Keys
    <2>3. dirty' \subseteq Minutes
      BY <1>9, <1>11, <2>1, <2>2 DEF Crash, TypeOK
    <2> QED BY <1>8, <1>11, <2>3 DEF Crash, TypeOK
  <1>12. CASE Tick
    BY <1>12, ConstantsAssumption DEF Tick, TypeOK, Time, mem, disk, history
  <1>13. CASE UNCHANGED vars
    BY <1>13 DEF vars, TypeOK, mem, disk, history
  <1> QED
    BY <1>1, <1>2, <1>3, <1>4, <1>5, <1>6, <1>7, <1>10, <1>11, <1>12, <1>13
       DEF Next

\* Every variable keeps its type in every behaviour.
THEOREM TypeCorrect == Spec => []TypeOK
  BY TypeInit, TypeStep, PTL DEF Spec

----------------------------------------------------------------------------
(* The exact window and the minute tier *)

\* The cutoff of the exact window is an integer.
LEMMA CutoffType ==
  ASSUME TypeOK
  PROVE  RawCutoff \in Int /\ now \in Int /\ now - RawWindow \in Int
  <1>1. now \in Int /\ now - RawWindow \in Int
    BY ConstantsAssumption DEF TypeOK, Time
  <1> QED BY <1>1, StartBounds, ConstantsAssumption DEF RawCutoff

\* Inside the window the exact samples of a batch are the last ones accepted.
LEMMA WriteWindow ==
  ASSUME TypeOK, WindowExact, NEW b \in Batches, NEW t \in Time,
         t >= RawCutoff, MinuteOf(t) \notin dirty
  PROVE  RawAfter(b)[t] = LastAfter(b)[t]
  <1>1. {i \in DOMAIN b : b[i].ts = t} = {i \in InWindow(b) : b[i].ts = t}
    BY DEF InWindow
  <1>2. (\E i \in DOMAIN b : b[i].ts = t) <=> t \in StampsOf(b)
    BY <1>1 DEF StampsOf, InWindow
  <1>3. CASE t \in StampsOf(b)
    BY <1>1, <1>2, <1>3 DEF RawAfter, LastAfter, LastOf
  <1>4. CASE t \notin StampsOf(b)
    <2>1. RawAfter(b)[t] = raw[t]
      BY <1>4, CutoffType, ConstantsAssumption DEF RawAfter, Prune, Time
    <2>2. LastAfter(b)[t] = last[t]
      BY <1>2, <1>4 DEF LastAfter
    <2> QED BY <2>1, <2>2 DEF WindowExact
  <1> QED BY <1>3, <1>4

\* A marked bucket lies inside the window.
LEMMA RebuiltInWindow ==
  ASSUME TypeOK, NEW b \in Batches, NEW p \in Point, KeyOf(p) \in Rebuilt(b)
  PROVE  p.ts >= RawCutoff
  <1>1. \E t \in Time : t >= RawCutoff /\ MinuteOf(t) = MinuteOf(p.ts)
    <2>1. CASE \E i \in InWindow(b) : KeyOf(p) = KeyOf(b[i])
      BY <2>1, BatchType, StampTypes DEF KeyOf, InWindow
    <2>2. CASE \E t \in StampsOf(b) : KeyOf(p) = <<raw[t].label, MinuteOf(t)>>
      BY <2>2, BatchType, StampTypes DEF KeyOf, StampsOf, InWindow
    <2> QED BY <2>1, <2>2 DEF Rebuilt
  <1>2. PICK t \in Time : t >= RawCutoff /\ MinuteOf(t) = MinuteOf(p.ts)
    BY <1>1
  <1>3. t \in Int /\ p.ts \in Int /\ now - RawWindow \in Int
    BY StampTypes, CutoffType, ConstantsAssumption DEF Time
  <1> QED
    BY <1>2, <1>3, CutoffKeepsMinutes, ConstantsAssumption DEF RawCutoff

\* A batch counts an observation of an unmarked bucket once if it is the one
\* that its timestamp now has, and the timestamp had none before.
LEMMA UnmarkedCount ==
  ASSUME TypeOK, WindowExact, NEW b \in Batches, NEW p \in Point,
         KeyOf(p) \notin Rebuilt(b),
         MinuteOf(p.ts) \notin dirty \cup TooLate(b)
  PROVE  Occurrences(b, p) \in Nat /\
         (IF LastAfter(b)[p.ts] = SampleOf(p) THEN 1 ELSE 0)
           = Expected(p) + Occurrences(b, p)
  <1> DEFINE W == {i \in DOMAIN b : b[i].ts = p.ts}
             O == {i \in DOMAIN b : b[i] = p}
  <1>1. p.ts \in Time /\ p.ts \in Int /\ RawCutoff \in Int
    BY StampTypes, CutoffType, ConstantsAssumption DEF Time
  <1>2. W \subseteq InWindow(b)
    BY BatchType, StampTypes DEF TooLate
  <1>3. O \subseteq W
    OBVIOUS
  <1>4. CASE W = {}
    <2>1. O = {}
      BY <1>3, <1>4
    <2>2. Occurrences(b, p) = 0
      BY <2>1, FS_EmptySet DEF Occurrences
    <2>3. LastAfter(b)[p.ts] = last[p.ts]
      BY <1>1, <1>4 DEF LastAfter
    <2> QED BY <2>2, <2>3 DEF Expected
  <1>5. ASSUME W # {}
        PROVE  /\ p.ts >= RawCutoff /\ p.ts \in StampsOf(b)
               /\ Prune(raw)[p.ts] = raw[p.ts] /\ raw[p.ts] = last[p.ts]
               /\ Max(W) \in W /\ LastAfter(b)[p.ts] = SampleOf(b[Max(W)])
    <2>1. p.ts \in StampsOf(b) /\ p.ts >= RawCutoff
      BY <1>2, <1>5 DEF StampsOf, InWindow
    <2>2. Prune(raw)[p.ts] = raw[p.ts]
      BY <1>1, <2>1 DEF Prune
    <2>3. raw[p.ts] = last[p.ts]
      BY <1>1, <2>1 DEF WindowExact
    <2>4. Max(W) \in W
      <3>1. W \in SUBSET DOMAIN b
        OBVIOUS
      <3> HIDE DEF W
      <3> QED BY <1>5, <3>1, LastPosition
    <2>5. LastAfter(b)[p.ts] = SampleOf(b[Max(W)])
      BY <1>1, <1>5 DEF LastAfter
    <2> QED BY <2>1, <2>2, <2>3, <2>4, <2>5
  <1>6. CASE \E i \in W : b[i].label = p.label
    <2>1. PICK i \in W : b[i].label = p.label
      BY <1>6
    <2>2. KeyOf(b[i]) = KeyOf(p) /\ i \in InWindow(b)
      BY <1>2, <2>1 DEF KeyOf
    <2>3. ~Duplicate(b, i)
      BY <2>2 DEF Rebuilt
    <2>4. raw[p.ts] = NoSample
      BY <1>5, <2>1, <2>3 DEF Duplicate
    <2>5. Expected(p) = 0
      BY <1>5, <2>1, <2>4, StampTypes DEF Expected
    <2>6. W = {i}
      BY <1>2, <2>1, <2>3 DEF Duplicate
    <2>7. LastAfter(b)[p.ts] = SampleOf(b[i])
      BY <1>5, <2>6
    <2>8. CASE b[i] = p
      <3>1. O = {i}
        BY <1>3, <2>6, <2>8
      <3>2. Occurrences(b, p) = 1
        BY <3>1, FS_Singleton DEF Occurrences
      <3> QED BY <2>5, <2>7, <2>8, <3>2
    <2>9. CASE b[i] # p
      <3>1. O = {}
        BY <1>3, <2>6, <2>9
      <3>2. Occurrences(b, p) = 0
        BY <3>1, FS_EmptySet DEF Occurrences
      <3>3. b[i].value # p.value
        BY <2>1, <2>9, BatchType DEF Point
      <3>4. SampleOf(b[i]) # SampleOf(p)
        BY <3>3 DEF SampleOf
      <3> QED BY <2>5, <2>7, <3>2, <3>4
    <2> QED BY <2>8, <2>9
  <1>7. CASE W # {} /\ \A i \in W : b[i].label # p.label
    <2>1. O = {}
      BY <1>7
    <2>2. Occurrences(b, p) = 0
      BY <2>1, FS_EmptySet DEF Occurrences
    <2>3. LastAfter(b)[p.ts] # SampleOf(p)
      <3>1. PICK i \in W : LastAfter(b)[p.ts] = SampleOf(b[i])
        BY <1>5, <1>7
      <3>2. b[i].label # p.label
        BY <1>7
      <3> QED BY <3>1, <3>2 DEF SampleOf
    <2>4. last[p.ts] # SampleOf(p)
      <3>1. SUFFICES ASSUME raw[p.ts] = SampleOf(p) PROVE FALSE
        BY <1>5, <1>7
      <3>2. raw[p.ts].label = p.label /\ Prune(raw)[p.ts] # NoSample
        BY <1>5, <1>7, <3>1, StampTypes DEF SampleOf
      <3>3. <<raw[p.ts].label, MinuteOf(p.ts)>> \in Rebuilt(b)
        BY <1>5, <1>7, <3>2 DEF Rebuilt
      <3> QED BY <3>2, <3>3 DEF KeyOf
    <2> QED BY <2>2, <2>3, <2>4 DEF Expected
  <1> QED BY <1>4, <1>6, <1>7

----------------------------------------------------------------------------
(* The inductive invariant *)

\* MinuteExact is not inductive alone: a rebuild writes what the window holds,
\* so the window has to hold the last samples (WindowExact), and both need the
\* types.
IInv == TypeOK /\ WindowExact /\ MinuteExact

LEMMA IInvInit == Init => IInv
  <1> SUFFICES ASSUME Init PROVE IInv
    OBVIOUS
  <1>1. WindowExact
    BY DEF Init, WindowExact
  <1>2. ASSUME NEW p \in Point PROVE DurableView(p) = Expected(p)
    <2>1. row[p] = 0 /\ hot[p] = 0 /\ replace = {}
      BY DEF Init, Empty
    <2>2. last[p.ts] # SampleOf(p)
      BY StampTypes DEF Init
    <2> QED BY <2>1, <2>2 DEF DurableView, Expected
  <1> QED BY <1>1, <1>2, TypeInit DEF IInv, MinuteExact

\* The window stays exact.
LEMMA WindowStep == IInv /\ [Next]_vars => WindowExact'
  <1> SUFFICES ASSUME IInv, [Next]_vars, NEW t \in Time,
                      t >= RawCutoff', MinuteOf(t) \notin dirty'
               PROVE  raw'[t] = last'[t]
    BY DEF WindowExact, MinuteOf, Start
  <1> USE DEF IInv
  <1>0. ASSUME t >= RawCutoff, MinuteOf(t) \notin dirty
        PROVE  raw[t] = last[t]
    BY <1>0 DEF WindowExact
  <1>1. ASSUME NEW b \in Batches, NEW ok \in BOOLEAN, WriteBatch(b, ok)
        PROVE  raw'[t] = last'[t]
    <2>1. t >= RawCutoff /\ MinuteOf(t) \notin dirty
      BY <1>1 DEF WriteBatch, RawCutoff
    <2> QED BY <1>1, <2>1, WriteWindow DEF WriteBatch
  <1>2. ASSUME NEW ok \in BOOLEAN, Flush(ok) PROVE raw'[t] = last'[t]
    <2>1. t >= RawCutoff /\ MinuteOf(t) \notin dirty
      BY <1>2 DEF Flush, RawCutoff
    <2>2. t \in Int /\ RawCutoff \in Int
      BY CutoffType, ConstantsAssumption DEF Time
    <2>3. Prune(raw)[t] = raw[t]
      BY <2>1, <2>2 DEF Prune
    <2> QED BY <1>0, <1>2, <2>1, <2>3 DEF Flush
  <1>3. CASE UNCHANGED <<now, raw, last, dirty>>
    BY <1>0, <1>3 DEF RawCutoff
  <1>4. CASE DeleteSeries
    BY <1>4 DEF DeleteSeries
  <1>5. ASSUME NEW c \in Cutoffs, DeleteBefore(c) PROVE raw'[t] = last'[t]
    <2>1. t \in Int /\ c \in Int /\ MinuteOf(t) \in Minutes
      BY ConstantsAssumption DEF Time, Minutes
    <2>2. CASE MinuteOf(t) < MinuteOf(c)
      <3>1. t < c
        <4>1. SUFFICES ASSUME t >= c PROVE FALSE
          BY <2>1
        <4>2. Start(c, Minute) <= c /\ Start(c, Minute) \in Int
          BY <2>1, StartBounds, ConstantsAssumption
        <4>3. t >= Start(c, Minute)
          BY <2>1, <4>1, <4>2
        <4>4. Start(t, Minute) >= Start(c, Minute)
          BY <2>1, <4>3, StartAtLeast, ConstantsAssumption
        <4>5. Start(t, Minute) \in Int
          BY <2>1, StartBounds, ConstantsAssumption
        <4> QED BY <2>2, <4>2, <4>4, <4>5 DEF MinuteOf
      <3> QED BY <1>5, <2>1, <2>2, <3>1 DEF DeleteBefore
    <2>3. CASE ~(MinuteOf(t) < MinuteOf(c))
      <3>1. t >= RawCutoff /\ MinuteOf(t) \notin dirty
        BY <1>5, <2>3 DEF DeleteBefore, RawCutoff
      <3>2. last'[t] = last[t]
        BY <1>5, <2>3 DEF DeleteBefore
      <3>3. raw'[t] = raw[t]
        <4>1. CASE t < c
          <5>1. raw[t] = NoSample
            BY <1>5, <2>3, <4>1 DEF DeleteBefore
          <5> QED BY <1>5, <4>1, <5>1 DEF DeleteBefore
        <4>2. CASE ~(t < c)
          BY <1>5, <4>2 DEF DeleteBefore
        <4> QED BY <4>1, <4>2
      <3> QED BY <1>0, <3>1, <3>2, <3>3
    <2> QED BY <2>2, <2>3
  <1>6. ASSUME Reopen, Unfinished \subseteq dirty', dirty \subseteq dirty'
        PROVE  raw'[t] = last'[t]
    <2>1. raw[t] = NoSample
      BY <1>6 DEF Unfinished
    <2>2. t >= RawCutoff /\ MinuteOf(t) \notin dirty
      BY <1>6 DEF Reopen, RawCutoff
    <2> QED BY <1>0, <1>6, <2>1, <2>2 DEF Reopen
  <1>7. CASE Restart
    BY <1>6, <1>7 DEF Restart
  <1>8. CASE Crash
    BY <1>6, <1>8 DEF Crash
  <1>9. CASE Tick
    <2>1. RawCutoff' >= RawCutoff
      <3> DEFINE early == now - RawWindow
                 late == (now + 1) - RawWindow
      <3>1. early \in Int /\ late \in Int /\ late >= early
        BY CutoffType, ConstantsAssumption
      <3>2. Start(early, Minute) <= early /\ Start(early, Minute) \in Int
        BY <3>1, StartBounds, ConstantsAssumption
      <3>3. late >= Start(early, Minute)
        BY <3>1, <3>2
      <3>4. Start(late, Minute) >= Start(early, Minute)
        BY <3>1, <3>3, StartAtLeast, ConstantsAssumption
      <3>5. now' = now + 1
        BY <1>9 DEF Tick
      <3>6. RawCutoff' = Start(late, Minute)
        <4>1. now' - RawWindow = late
          BY <3>5
        <4>2. RawCutoff' = Start(now' - RawWindow, Minute)
          BY DEF RawCutoff, Start
        <4> HIDE DEF late
        <4> QED BY <4>1, <4>2
      <3>7. RawCutoff = Start(early, Minute)
        BY DEF RawCutoff
      <3> QED BY <3>4, <3>6, <3>7
    <2>2. RawCutoff \in Int /\ RawCutoff' \in Int /\ t \in Int
      <3>1. TypeOK'
        BY TypeStep
      <3>2. now' \in Int /\ now' - RawWindow \in Int
        BY <3>1, ConstantsAssumption DEF TypeOK, Time
      <3> QED BY <3>2, CutoffType, StartBounds, ConstantsAssumption
              DEF RawCutoff, Time
    <2>3. t >= RawCutoff
      BY <2>1, <2>2
    <2> QED BY <1>0, <1>9, <2>3 DEF Tick, mem, history
  <1> QED
    BY <1>1, <1>2, <1>3, <1>4, <1>5, <1>7, <1>8, <1>9
       DEF Next, vars, mem, disk, history, FlushCoarse, SealTier, SealFails

\* The minute tier stays exact.
LEMMA MinuteStep == IInv /\ [Next]_vars => MinuteExact'
  <1> SUFFICES ASSUME IInv, [Next]_vars, NEW p \in Point,
                      MinuteOf(p.ts) \notin dirty'
               PROVE  DurableView(p)' = Expected(p)'
    BY DEF MinuteExact, MinuteOf, Start, Point, Time
  <1> USE DEF IInv
  <1>0. /\ KeyOf(p) \in Keys /\ KeyOf(p)[2] = MinuteOf(p.ts)
        /\ p.ts \in Time /\ SampleOf(p) # NoSample
        /\ hot[p] \in Nat /\ row[p] \in Nat
        /\ KeyOf(p)' = KeyOf(p) /\ SampleOf(p)' = SampleOf(p)
    BY StampTypes DEF TypeOK, KeyOf, MinuteOf, Start, SampleOf
  <1>a. ASSUME MinuteOf(p.ts) \notin dirty
        PROVE  DurableView(p) = Expected(p)
    BY <1>a DEF MinuteExact
  <1>1. ASSUME NEW b \in Batches, NEW ok \in BOOLEAN, WriteBatch(b, ok)
        PROVE  DurableView(p)' = Expected(p)'
    <2> DEFINE h == HotAfter(b)
               rep == replace \cup Rebuilt(b)
               after == IF LastAfter(b)[p.ts] = SampleOf(p) THEN 1 ELSE 0
    <2>1. MinuteOf(p.ts) \notin dirty \cup TooLate(b)
      BY <1>1 DEF WriteBatch
    <2>2. DurableView(p)' = IF KeyOf(p) \in rep THEN h[p] ELSE row[p] + h[p]
      <3>1. h \in [Point -> Nat] /\ rep \in SUBSET Keys
        BY WriteTypes DEF TypeOK
      <3>2. Persist(h, rep, ClosedKeys(h, rep), ok)
        BY <1>1 DEF WriteBatch
      <3>3. ClosedKeys(h, rep) \in SUBSET Keys
        BY DEF ClosedKeys
      <3> HIDE DEF h, rep
      <3> QED BY <3>1, <3>2, <3>3, PersistView
    <2>3. Expected(p)' = after
      BY <1>0, <1>1 DEF WriteBatch, Expected
    <2>4. CASE KeyOf(p) \in Rebuilt(b)
      <3>1. h[p] = IF RawAfter(b)[p.ts] = SampleOf(p) THEN 1 ELSE 0
        BY <2>4 DEF HotAfter
      <3>2. RawAfter(b)[p.ts] = LastAfter(b)[p.ts]
        BY <1>0, <2>1, <2>4, RebuiltInWindow, WriteWindow
      <3> QED BY <2>2, <2>3, <2>4, <3>1, <3>2
    <2>5. CASE KeyOf(p) \notin Rebuilt(b)
      <3>1. h[p] = hot[p] + Occurrences(b, p)
        BY <2>5 DEF HotAfter
      <3>2. Occurrences(b, p) \in Nat /\ after = Expected(p) + Occurrences(b, p)
        BY <2>1, <2>5, UnmarkedCount
      <3>3. DurableView(p)' = DurableView(p) + Occurrences(b, p)
        <4> HIDE DEF h
        <4> QED BY <1>0, <2>2, <2>5, <3>1, <3>2 DEF DurableView
      <3> QED BY <1>a, <2>1, <2>3, <3>2, <3>3
    <2> QED BY <2>4, <2>5
  <1>2. ASSUME NEW ok \in BOOLEAN, Flush(ok)
        PROVE  DurableView(p)' = Expected(p)'
    <2>1. ClosedKeys(hot, replace) \in SUBSET Keys
      BY DEF ClosedKeys
    <2>2. DurableView(p)' = DurableView(p)
      <3>1. hot \in [Point -> Nat] /\ replace \in SUBSET Keys
        BY DEF TypeOK
      <3>2. Persist(hot, replace, ClosedKeys(hot, replace), ok)
        BY <1>2 DEF Flush
      <3>3. DurableView(p)' = IF KeyOf(p) \in replace THEN hot[p]
                                                     ELSE row[p] + hot[p]
        BY <2>1, <3>1, <3>2, PersistView
      <3> QED BY <3>3 DEF DurableView
    <2>3. Expected(p)' = Expected(p) /\ MinuteOf(p.ts) \notin dirty
      BY <1>0, <1>2 DEF Flush, Expected
    <2> QED BY <1>a, <2>2, <2>3
  <1>3. CASE UNCHANGED <<hot, replace, row, last, dirty>>
    <2>1. DurableView(p)' = DurableView(p) /\ Expected(p)' = Expected(p)
      BY <1>0, <1>3 DEF DurableView, Expected
    <2> QED BY <1>a, <1>3, <2>1
  <1>4. CASE DeleteSeries
    <2>1. Expected(p)' = 0
      BY <1>0, <1>4 DEF DeleteSeries, Expected
    <2>2. DurableView(p)' = 0
      BY <1>0, <1>4 DEF DeleteSeries, DurableView, Empty
    <2> QED BY <2>1, <2>2
  <1>5. ASSUME NEW c \in Cutoffs, DeleteBefore(c)
        PROVE  DurableView(p)' = Expected(p)'
    <2>0. KeyOf(p) \in replace' <=>
            KeyOf(p) \in replace /\ MinuteOf(p.ts) >= MinuteOf(c)
      BY <1>0, <1>5 DEF DeleteBefore
    <2>1. MinuteOf(p.ts) \in Int /\ MinuteOf(c) \in Int
      <3>1. p.ts \in Int /\ c \in Int /\ Minute \in Nat \ {0}
        BY <1>0, ConstantsAssumption DEF Time
      <3> QED BY <3>1, StartBounds DEF MinuteOf
    <2>2. CASE MinuteOf(p.ts) < MinuteOf(c)
      <3>1. hot'[p] = 0 /\ row'[p] = 0
        BY <1>5, <2>2 DEF DeleteBefore, MinuteOf
      <3>2. last'[p.ts] = NoSample
        BY <1>0, <1>5, <2>2 DEF DeleteBefore, Minutes
      <3> QED BY <1>0, <2>0, <2>1, <2>2, <3>1, <3>2 DEF DurableView, Expected
    <2>3. CASE ~(MinuteOf(p.ts) < MinuteOf(c))
      <3>1. hot'[p] = hot[p] /\ row'[p] = row[p]
        BY <1>5, <2>3 DEF DeleteBefore, MinuteOf
      <3>2. last'[p.ts] = last[p.ts] /\ MinuteOf(p.ts) \notin dirty
        BY <1>0, <1>5, <2>3 DEF DeleteBefore, Minutes
      <3>3. KeyOf(p) \in replace' <=> KeyOf(p) \in replace
        BY <2>0, <2>1, <2>3
      <3>4. DurableView(p)' = DurableView(p) /\ Expected(p)' = Expected(p)
        BY <1>0, <3>1, <3>2, <3>3 DEF DurableView, Expected
      <3> QED BY <1>a, <3>2, <3>4
    <2> QED BY <2>2, <2>3
  <1>6. ASSUME Reopen, dirty \subseteq dirty', row'[p] = DurableView(p)
        PROVE  DurableView(p)' = Expected(p)'
    <2>1. DurableView(p)' = row'[p]
      BY <1>0, <1>6, <1>a DEF Reopen, DurableView, Empty, Expected
    <2>2. Expected(p)' = Expected(p)
      BY <1>0, <1>6 DEF Reopen, Expected
    <2> QED BY <1>6, <1>a, <2>1, <2>2
  <1>7. CASE Restart
    <2>1. row'[p] = DurableView(p)
      <3> DEFINE keys == {k \in Keys : Present(hot, replace, k)}
      <3>1. row'[p] = IF KeyOf(p) \in keys THEN DurableView(p) ELSE row[p]
        BY <1>7 DEF Restart, RowAfter, DurableView
      <3>2. ASSUME KeyOf(p) \notin keys
            PROVE  KeyOf(p) \notin replace /\ hot[p] = 0
        BY <1>0, <3>2 DEF Present
      <3> QED BY <1>0, <3>1, <3>2 DEF DurableView
    <2> QED BY <1>6, <1>7, <2>1 DEF Restart
  <1>8. CASE Crash
    <2>1. hot[p] = 0 /\ KeyOf(p) \notin replace
      BY <1>0, <1>8 DEF Crash
    <2>2. row'[p] = DurableView(p)
      BY <1>0, <1>8, <2>1 DEF Crash, DurableView
    <2> QED BY <1>6, <1>8, <2>2 DEF Crash
  <1> QED
    BY <1>1, <1>2, <1>3, <1>4, <1>5, <1>7, <1>8
       DEF Next, vars, mem, disk, history, FlushCoarse, SealTier, SealFails,
           Tick

\* The invariant is preserved by every step.
LEMMA IInvStep == IInv /\ [Next]_vars => IInv'
  BY TypeStep, WindowStep, MinuteStep DEF IInv

\* A minute's row, with the hot bucket that is merged into it or replaces it,
\* counts every accepted timestamp once, with its last sample (raw_points.go,
\* hot_rollup.go), for any widths, windows, label sets and batches.
THEOREM MinuteTierExact == Spec => []MinuteExact
  <1>1. IInv => MinuteExact
    BY DEF IInv
  <1> QED BY <1>1, IInvInit, IInvStep, PTL DEF Spec

\* The exact window answers each of its timestamps with the last sample
\* accepted for it, and its oldest minute is whole (raw_points.go).
THEOREM WindowIsExact == Spec => []WindowExact
  <1>1. IInv => WindowExact
    BY DEF IInv
  <1> QED BY <1>1, IInvInit, IInvStep, PTL DEF Spec

-----------------------------------------------------------------------------
(* The coarse tiers *)

\* Nothing is stored of a time that has not come.
PastOnly ==
  /\ \A t \in Time : raw[t] # NoSample => t <= now
  /\ \A p \in Point : hot[p] # 0 \/ row[p] # 0 => p.ts <= now
  /\ \A t \in Tiers, p \in Point : sealed[t][p] # 0 => p.ts <= now

\* A parent is sealed after its grace period, once nothing of it is left in
\* memory, in its own tier or in a finer one.
SealedWhole ==
  \A t \in Tiers, p \in Point : sealed[t][p] # 0 =>
     /\ Due(t, p.ts)
     /\ \A q \in Point : SameParent(t, p, q) => \A u \in 1..t : staged[u][q] = 0

CInv == TypeOK /\ PastOnly /\ SealedWhole /\ CoarseComposed

-----------------------------------------------------------------------------
(* Buckets of different widths *)

\* A bucket ends inside every bucket whose width is a multiple of its own.
LEMMA EndsInside ==
  ASSUME NEW ts \in Int, NEW w \in Nat \ {0}, NEW v \in Nat \ {0}, v % w = 0
  PROVE  Start(ts, w) + w <= Start(ts, v) + v
<1> DEFINE k == v \div w
           q == ts \div v
           r == ts \div w
           m == (q + 1) * k
<1>1. k \in Nat /\ v = k * w
  OBVIOUS
<1>2. q \in Int /\ r \in Int /\ ts < q * v + v /\ r * w <= ts
  OBVIOUS
<1> HIDE DEF k, q, r
<1>3. m \in Int /\ q * v + v = m * w
  BY <1>1, <1>2
<1>4. r * w < m * w
  BY <1>2, <1>3
<1> HIDE DEF m
<1>5. r < m
  <2>1. CASE m <= r
    <3>1. m * w <= r * w
      BY <1>2, <1>3, <2>1
    <3>2. m * w \in Int /\ r * w \in Int
      BY <1>2, <1>3
    <3> QED
      BY <1>4, <3>1, <3>2
  <2> QED
    BY <1>2, <1>3, <2>1
<1>6. (r + 1) * w <= m * w
  BY <1>2, <1>3, <1>5
<1>7. (r + 1) * w = r * w + w
  BY <1>2
<1>8. Start(ts, w) = r * w /\ Start(ts, v) = q * v
  BY DEF Start, r, q
<1> QED
  BY <1>2, <1>3, <1>6, <1>7, <1>8

\* The tiers are numbered from one, and their widths are positive.
LEMMA TierTypes ==
  /\ Tiers = 1..Len(Width) /\ Len(Width) \in Nat
  /\ \A t \in Tiers : Width[t] \in Nat \ {0}
  BY PolicyAssumption DEF Tiers

\* A parent whose grace period is over has children whose own is.
LEMMA DueFiner ==
  ASSUME NEW t \in Tiers, NEW u \in 1..t, NEW ts \in Int, now \in Int, Due(t, ts)
  PROVE  Due(u, ts)
<1> DEFINE T == {v \in u..t : Due(v, ts)}
<1>1. t \in Nat /\ u \in Nat /\ u >= 1 /\ u <= t /\ T \in SUBSET Nat /\ T # {}
  BY TierTypes
<1>2. PICK n \in T : \A m \in T : n <= m
  <2> HIDE DEF T
  <2> QED
    BY <1>1, LeastNat
<1>3. n \in Nat /\ n >= u /\ n <= t /\ Due(n, ts)
  BY <1>1
<1>4. CASE n = u
  BY <1>3, <1>4
<1>5. CASE n > u
  <2>1. n \in Tiers /\ n # 1 /\ n - 1 \in Tiers /\ n - 1 \in u..t /\ ~(n <= n - 1)
    BY <1>1, <1>3, <1>5, TierTypes
  <2>2. Width[n] % Width[n-1] = 0
    BY <2>1, PolicyAssumption DEF Tiers
  <2>3. Start(ts, Width[n-1]) + Width[n-1] <= Start(ts, Width[n]) + Width[n]
    BY <2>1, <2>2, TierTypes, EndsInside
  <2>4. /\ Start(ts, Width[n-1]) \in Int /\ Start(ts, Width[n]) \in Int
        /\ Width[n] \in Nat /\ Width[n-1] \in Nat
    BY <2>1, TierTypes, StartBounds
  <2>5. Due(n - 1, ts)
    BY <1>3, <2>3, <2>4, ConstantsAssumption DEF Due
  <2> QED
    BY <1>2, <2>1, <2>5
<1> QED
  BY <1>1, <1>3, <1>4, <1>5

\* The points of one parent are due together, and are each other's siblings.
LEMMA ParentTogether ==
  ASSUME NEW t \in Tiers, NEW p \in Point, NEW q \in Point, SameParent(t, p, q)
  PROVE  /\ Due(t, p.ts) <=> Due(t, q.ts)
         /\ Sealing(t, p) <=> Sealing(t, q)
         /\ SameParent(t, q, p) /\ SameParent(t, p, p)
         /\ \A r \in Point : SameParent(t, p, r) <=> SameParent(t, q, r)
  BY DEF SameParent, Due, Sealing, ParentStaged

\* A point lies in its parent of every tier.
LEMMA ParentBounds ==
  ASSUME NEW t \in Tiers, NEW p \in Point
  PROVE  /\ p.ts \in Time /\ p.ts \in Int /\ Width[t] \in Nat \ {0}
         /\ Start(p.ts, Width[t]) \in Int /\ Start(p.ts, Width[t]) <= p.ts
         /\ p.ts < Start(p.ts, Width[t]) + Width[t]
<1>1. p.ts \in Time /\ p.ts \in Int
  BY StampTypes, ConstantsAssumption DEF Time
<1>2. Width[t] \in Nat \ {0}
  BY TierTypes
<1> QED
  BY <1>1, <1>2, StartBounds

-----------------------------------------------------------------------------
(* What is written in advance *)

\* A timestamp of a batch is not in the future.
LEMMA BatchPast ==
  ASSUME NEW b \in Batches
  PROVE  /\ \A i \in DOMAIN b : b[i] \in Point /\ b[i].ts <= now
         /\ \A t \in StampsOf(b) : t <= now
<1>1. PICK n \in 1..MaxBatch : b \in [1..n -> [ts : {t \in Stamps : t <= now}, label : Labels, value : Values]]
  BY DEF Batches
<1>2. \A i \in DOMAIN b : b[i] \in Point /\ b[i].ts <= now
  BY <1>1, ConstantsAssumption DEF Point
<1> QED
  BY <1>2 DEF StampsOf, InWindow

\* A batch adds nothing of the future, to the exact samples or to the minutes.
LEMMA WritePast ==
  ASSUME TypeOK, PastOnly, NEW b \in Batches
  PROVE  /\ \A t \in Time : RawAfter(b)[t] # NoSample => t <= now
         /\ \A p \in Point : HotAfter(b)[p] # 0 => p.ts <= now
<1>1. ASSUME NEW t \in Time, RawAfter(b)[t] # NoSample
      PROVE  t <= now
  <2>1. CASE t \in StampsOf(b)
    BY <2>1, BatchPast
  <2>2. CASE t \notin StampsOf(b)
    BY <1>1, <2>2 DEF RawAfter, Prune, PastOnly
  <2> QED
    BY <2>1, <2>2
<1>2. ASSUME NEW p \in Point, HotAfter(b)[p] # 0
      PROVE  p.ts <= now
  <2>0. p.ts \in Time /\ SampleOf(p) # NoSample
    BY StampTypes
  <2>1. CASE KeyOf(p) \in Rebuilt(b)
    <3>1. RawAfter(b)[p.ts] = SampleOf(p)
      BY <1>2, <2>1 DEF HotAfter
    <3> QED
      BY <1>1, <2>0, <3>1
  <2>2. CASE KeyOf(p) \notin Rebuilt(b)
    <3>1. CASE \E i \in DOMAIN b : b[i] = p
      BY <3>1, BatchPast
    <3>2. CASE ~ \E i \in DOMAIN b : b[i] = p
      <4>1. Occurrences(b, p) = 0
        <5>1. {i \in DOMAIN b : b[i] = p} = {}
          BY <3>2
        <5> QED
          BY <5>1, FS_EmptySet DEF Occurrences
      <4>2. hot[p] # 0
        BY <1>2, <2>2, <4>1 DEF HotAfter, TypeOK
      <4> QED
        BY <4>2 DEF PastOnly
    <3> QED
      BY <3>1, <3>2
  <2> QED
    BY <2>1, <2>2
<1> QED
  BY <1>1, <1>2

\* Persisting moves points from memory to rows.
LEMMA PersistPast ==
  ASSUME TypeOK, PastOnly, NEW h \in [Point -> Nat], NEW rep, NEW keys, NEW ok \in BOOLEAN,
         \A p \in Point : h[p] # 0 => p.ts <= now, Persist(h, rep, keys, ok)
  PROVE  \A p \in Point : hot'[p] # 0 \/ row'[p] # 0 => p.ts <= now
<1>1. CASE ok
  <2>1. hot' = Without(h, keys) /\ row' = RowAfter(h, rep, keys)
    BY <1>1 DEF Persist
  <2>2. \A p \in Point : row[p] \in Nat /\ h[p] \in Nat
    BY DEF TypeOK
  <2> QED
    BY <2>1, <2>2 DEF Without, RowAfter, PastOnly
<1>2. CASE ~ok
  BY <1>2 DEF Persist, PastOnly
<1> QED
  BY <1>1, <1>2

\* No step writes in advance.
LEMMA PastStep ==
  ASSUME TypeOK, PastOnly, [Next]_vars
  PROVE  PastOnly'
<1> USE DEF PastOnly
<1>0. now \in Int /\ \A p \in Point : p.ts \in Time /\ row[p] \in Nat /\ hot[p] \in Nat
  BY StampTypes, CutoffType DEF TypeOK
<1>1. ASSUME NEW b \in Batches, NEW ok \in BOOLEAN, WriteBatch(b, ok)
      PROVE  PastOnly'
  <2> DEFINE h == HotAfter(b)
             rep == replace \cup Rebuilt(b)
  <2>1. h \in [Point -> Nat] /\ (\A p \in Point : h[p] # 0 => p.ts <= now)
    BY WriteTypes, WritePast
  <2>2. Persist(h, rep, ClosedKeys(h, rep), ok)
    BY <1>1 DEF WriteBatch
  <2>3. \A p \in Point : hot'[p] # 0 \/ row'[p] # 0 => p.ts <= now
    <3> HIDE DEF h, rep
    <3> QED
      BY <2>1, <2>2, PersistPast
  <2>4. raw' = RawAfter(b) /\ UNCHANGED <<now, sealed>>
    BY <1>1 DEF WriteBatch
  <2> QED
    BY <2>3, <2>4, WritePast
<1>2. ASSUME NEW ok \in BOOLEAN, Flush(ok)
      PROVE  PastOnly'
  <2>1. \A p \in Point : hot'[p] # 0 \/ row'[p] # 0 => p.ts <= now
    BY <1>2, PersistPast DEF Flush, TypeOK
  <2> QED
    BY <1>2, <2>1 DEF Flush, Prune
<1>3. ASSUME NEW s \in Tiers, SealTier(s)
      PROVE  PastOnly'
  <2>1. \A t \in Tiers, p \in Point : sealed'[t][p] = 0 \/ sealed'[t][p] = sealed[t][p] \/ Due(t, p.ts)
    BY <1>3 DEF SealTier, SealedRows, TypeOK, Sealing
  <2>2. ASSUME NEW t \in Tiers, NEW p \in Point, Due(t, p.ts)
        PROVE  p.ts <= now
    <3>1. /\ p.ts \in Int /\ p.ts < Start(p.ts, Width[t]) + Width[t] /\ Width[t] \in Nat
          /\ Start(p.ts, Width[t]) \in Int
      BY ParentBounds
    <3> QED
      BY <1>0, <2>2, <3>1, ConstantsAssumption DEF Due
  <2> QED
    BY <1>3, <2>1, <2>2 DEF SealTier
<1>4. CASE DeleteSeries
  BY <1>4 DEF DeleteSeries, Empty
<1>5. ASSUME NEW c \in Cutoffs, DeleteBefore(c)
      PROVE  PastOnly'
  <2>1. now' = now /\ \A t \in Time : raw'[t] # NoSample => raw[t] # NoSample
    BY <1>5 DEF DeleteBefore
  <2>2. \A p \in Point : hot'[p] \in {0, hot[p]} /\ row'[p] \in {0, row[p]}
    BY <1>5 DEF DeleteBefore
  <2>3. \A t \in Tiers, p \in Point : sealed'[t][p] \in {0, sealed[t][p]}
    BY <1>5 DEF DeleteBefore
  <2> QED
    BY <2>1, <2>2, <2>3
<1>6. CASE Restart
  <2>1. \A p \in Point : row'[p] # 0 => p.ts <= now
    BY <1>0, <1>6 DEF Restart, RowAfter
  <2> QED
    BY <1>6, <2>1 DEF Restart, Reopen, Empty
<1>7. CASE Crash
  BY <1>7 DEF Crash, Reopen, Empty
<1>8. CASE Tick
  <2>1. now' = now + 1 /\ UNCHANGED <<mem, disk>>
    BY <1>8 DEF Tick
  <2>2. \A t \in Time : t <= now => t <= now + 1
    BY <1>0 DEF Time
  <2> QED
    BY <1>0, <2>1, <2>2 DEF mem, disk
<1>9. CASE FlushCoarse \/ SealFails \/ UNCHANGED vars
  BY <1>9 DEF FlushCoarse, SealFails, vars, mem, disk
<1> QED
  BY <1>1, <1>2, <1>3, <1>4, <1>5, <1>6, <1>7, <1>8, <1>9 DEF Next

-----------------------------------------------------------------------------
(* A sealed parent has nothing left in memory *)

\* A step that stages nothing of a due parent, seals nothing and does not turn
\* back the clock keeps the sealed parents whole.
LEMMA WholeKept ==
  ASSUME TypeOK, SealedWhole, now' \in Int, now <= now',
         \A t \in Tiers, p \in Point : sealed'[t][p] \in {0, sealed[t][p]},
         \A t \in Tiers, p \in Point :
           staged'[t][p] \in {0, staged[t][p]} \/ ~Due(t, p.ts)
  PROVE  SealedWhole'
<1>1. ASSUME NEW t \in Tiers, NEW p \in Point, sealed'[t][p] # 0
      PROVE  /\ Due(t, p.ts)'
             /\ \A q \in Point : SameParent(t, p, q) => \A u \in 1..t : staged'[u][q] = 0
  <2>1. now \in Int /\ sealed[t][p] # 0 /\ Due(t, p.ts)
    BY <1>1, CutoffType DEF SealedWhole
  <2>2. Due(t, p.ts)'
    BY <2>1, ParentBounds, ConstantsAssumption DEF Due
  <2>3. ASSUME NEW q \in Point, SameParent(t, p, q), NEW u \in 1..t
        PROVE  staged'[u][q] = 0
    <3>1. u \in Tiers /\ q.ts \in Int
      BY TierTypes, ParentBounds
    <3>2. Due(t, q.ts)
      BY <2>1, <2>3, ParentTogether
    <3>3. Due(u, q.ts)
      BY <2>1, <3>1, <3>2, DueFiner
    <3>4. staged[u][q] = 0
      BY <2>1, <2>3 DEF SealedWhole
    <3> QED
      BY <3>1, <3>3, <3>4
  <2> QED
    BY <2>2, <2>3
<1> QED
  BY <1>1 DEF SealedWhole, SameParent

\* Persisting stages only parents that are not due.
LEMMA PersistStages ==
  ASSUME TypeOK, NEW h \in [Point -> Nat], NEW rep, NEW keys, NEW ok \in BOOLEAN,
         Persist(h, rep, keys, ok), NEW t \in Tiers, NEW p \in Point
  PROVE  staged'[t][p] = IF ok /\ t = 1 /\ KeyOf(p) \in keys /\ ~Due(1, p.ts)
                           THEN h[p] ELSE staged[t][p]
<1>1. CASE ok
  <2>1. staged' = MinuteParents(h, keys)
    BY <1>1 DEF Persist
  <2> QED
    BY <1>1, <2>1 DEF MinuteParents
<1>2. CASE ~ok
  BY <1>2 DEF Persist
<1> QED
  BY <1>1, <1>2

\* What sealing tier s does to each tier.
LEMMA SealPoint ==
  ASSUME TypeOK, NEW s \in Tiers, SealTier(s), NEW t \in Tiers, NEW p \in Point
  PROVE  /\ sealed'[t][p] = IF t = s /\ Sealing(s, p) THEN staged[s][p] ELSE sealed[t][p]
         /\ staged'[t][p] = IF t = s
                              THEN IF Sealing(s, p) THEN 0 ELSE staged[s][p]
                            ELSE IF t = s + 1 /\ Sealing(s, p) THEN staged[s][p]
                            ELSE staged[t][p]
<1>1. sealed' = SealedRows(s) /\ staged' = FedParents(s)
  BY DEF SealTier
<1>2. s # s + 1
  BY TierTypes
<1> QED
  BY <1>1, <1>2 DEF SealedRows, FedParents, TypeOK

\* Sealing goes tier by tier, the finest first, so it leaves nothing behind.
LEMMA SealWhole ==
  ASSUME TypeOK, SealedWhole, NEW s \in Tiers, SealTier(s)
  PROVE  SealedWhole'
<1>0. now' = now /\ now \in Int
  BY CutoffType DEF SealTier
<1>1. ASSUME NEW t \in Tiers, NEW p \in Point, sealed'[t][p] # 0
      PROVE  /\ Due(t, p.ts)
             /\ \A q \in Point : SameParent(t, p, q) => \A u \in 1..t : staged'[u][q] = 0
  <2>1. CASE t = s /\ Sealing(s, p)
    <3>1. Due(t, p.ts)
      BY <2>1 DEF Sealing
    <3>2. ASSUME NEW q \in Point, SameParent(t, p, q), NEW u \in 1..t
          PROVE  staged'[u][q] = 0
      <4>1. u \in Tiers /\ q.ts \in Int /\ u <= s /\ u # s + 1
        BY <2>1, TierTypes, ParentBounds
      <4>2. Due(s, q.ts) /\ Sealing(s, q)
        BY <2>1, <3>1, <3>2, ParentTogether
      <4>3. CASE u = s
        BY <4>1, <4>2, <4>3, SealPoint
      <4>4. CASE u # s
        <5>1. Due(u, q.ts)
          BY <1>0, <2>1, <4>2, <4>1, DueFiner
        <5>2. SealablePoints(u, staged) = {}
          BY <4>1, <4>4, TierTypes DEF SealTier
        <5>3. staged[u][q] \in Nat /\ ~(staged[u][q] > 0)
          BY <4>1, <5>1, <5>2 DEF SealablePoints, TypeOK
        <5> QED
          BY <4>1, <4>4, <5>3, SealPoint
      <4> QED
        BY <4>3, <4>4
    <3> QED
      BY <3>1, <3>2
  <2>2. CASE ~(t = s /\ Sealing(s, p))
    <3>1. sealed[t][p] # 0
      BY <1>1, <2>2, SealPoint
    <3>2. ASSUME NEW q \in Point, SameParent(t, p, q), NEW u \in 1..t
          PROVE  staged'[u][q] = 0
      <4>1. u \in Tiers /\ staged[u][q] = 0
        BY <3>1, <3>2, TierTypes DEF SealedWhole
      <4>2. u = s + 1 => staged[s][q] = 0
        <5>1. u = s + 1 => s \in 1..t
          BY TierTypes
        <5> QED
          BY <3>1, <3>2, <5>1 DEF SealedWhole
      <4>3. u = s => staged[s][q] = 0
        BY <4>1
      <4> QED
        BY <4>1, <4>2, <4>3, SealPoint
    <3> QED
      BY <3>1, <3>2 DEF SealedWhole
  <2> QED
    BY <2>1, <2>2
<1>2. ASSUME NEW t \in Tiers, NEW ts
      PROVE  Due(t, ts)' <=> Due(t, ts)
  BY <1>0 DEF Due
<1> QED
  BY <1>1, <1>2 DEF SealedWhole, SameParent

\* No step leaves part of a sealed parent in memory.
LEMMA WholeStep ==
  ASSUME TypeOK, SealedWhole, [Next]_vars
  PROVE  SealedWhole'
<1>0. now \in Int /\ now <= now
  BY CutoffType
<1>1. ASSUME NEW b \in Batches, NEW ok \in BOOLEAN, WriteBatch(b, ok)
      PROVE  SealedWhole'
  <2> DEFINE h == HotAfter(b)
             rep == replace \cup Rebuilt(b)
             keys == ClosedKeys(h, rep)
  <2>1. h \in [Point -> Nat] /\ Persist(h, rep, keys, ok)
    BY <1>1, WriteTypes DEF WriteBatch
  <2>2. \A t \in Tiers, p \in Point : staged'[t][p] = staged[t][p] \/ ~Due(t, p.ts)
    <3> HIDE DEF h, rep, keys
    <3> QED
      BY <2>1, PersistStages
  <2>3. now' = now /\ sealed' = sealed
    BY <1>1 DEF WriteBatch
  <2> QED
    BY <1>0, <2>2, <2>3, WholeKept
<1>2. ASSUME NEW ok \in BOOLEAN, Flush(ok)
      PROVE  SealedWhole'
  <2>1. \A t \in Tiers, p \in Point : staged'[t][p] = staged[t][p] \/ ~Due(t, p.ts)
    <3>1. hot \in [Point -> Nat] /\ Persist(hot, replace, ClosedKeys(hot, replace), ok)
      BY <1>2 DEF Flush, TypeOK
    <3> QED
      BY <3>1, PersistStages
  <2> QED
    BY <1>0, <1>2, <2>1, WholeKept DEF Flush
<1>3. ASSUME NEW s \in Tiers, SealTier(s)
      PROVE  SealedWhole'
  BY <1>3, SealWhole
<1>4. CASE DeleteSeries
  BY <1>0, <1>4, WholeKept DEF DeleteSeries, Empty
<1>5. ASSUME NEW c \in Cutoffs, DeleteBefore(c)
      PROVE  SealedWhole'
  <2>1. \A t \in Tiers, p \in Point : sealed'[t][p] \in {0, sealed[t][p]}
    BY <1>5 DEF DeleteBefore
  <2>2. now' = now /\ staged' = staged
    BY <1>5 DEF DeleteBefore
  <2> QED
    BY <1>0, <2>1, <2>2, WholeKept
<1>6. CASE Restart \/ Crash
  BY <1>0, <1>6, WholeKept DEF Restart, Crash, Reopen, Empty
<1>7. CASE Tick
  BY <1>0, <1>7, WholeKept DEF Tick, mem, disk
<1>8. CASE FlushCoarse \/ SealFails \/ UNCHANGED vars
  BY <1>0, <1>8, WholeKept DEF FlushCoarse, SealFails, vars, mem, disk
<1> QED
  BY <1>1, <1>2, <1>3, <1>4, <1>5, <1>6, <1>7, <1>8 DEF Next

-----------------------------------------------------------------------------
(* One tier holds what the tier below it has sealed *)

\* The parts of CoarseComposed at one point.
Composed(p) ==
  /\ Tiers # {} => staged[1][p] + sealed[1][p] = row[p]
  /\ \A t \in Tiers \ {1} : staged[t][p] + sealed[t][p] = sealed[t-1][p]

\* The property, point by point.
LEMMA ComposedPoints ==
  CoarseComposed <=> \A p \in Point : MinuteOf(p.ts) \notin gaps \cup dirty => Composed(p)
  BY DEF CoarseComposed, FirstTierComposed, NextTiersComposed, Composed

\* The same of the next state.
LEMMA ComposedPointsNext ==
  ASSUME \A p \in Point : MinuteOf(p.ts) \notin gaps' \cup dirty' => Composed(p)'
  PROVE  CoarseComposed'
  BY DEF CoarseComposed, FirstTierComposed, NextTiersComposed, Composed, MinuteOf, Start

\* A point that no step touches stays composed.
LEMMA ComposedKept ==
  ASSUME NEW p \in Point, Composed(p), row'[p] = row[p],
         \A t \in Tiers : staged'[t][p] = staged[t][p] /\ sealed'[t][p] = sealed[t][p]
  PROVE  Composed(p)'
<1>1. \A t \in Tiers \ {1} : t - 1 \in Tiers
  BY TierTypes
<1>2. Tiers # {} => 1 \in Tiers
  BY TierTypes
<1> QED
  BY <1>1, <1>2 DEF Composed

\* A point of which nothing is stored is composed.
LEMMA ComposedEmpty ==
  ASSUME NEW p \in Point, row'[p] = 0,
         \A t \in Tiers : staged'[t][p] = 0 /\ sealed'[t][p] = 0
  PROVE  Composed(p)'
<1>1. \A t \in Tiers \ {1} : t - 1 \in Tiers
  BY TierTypes
<1>2. Tiers # {} => 1 \in Tiers
  BY TierTypes
<1> QED
  BY <1>1, <1>2 DEF Composed

\* A point is in the parent of its minute: if the point's parent is due, so is
\* the minute's.
LEMMA MinuteDue ==
  ASSUME TypeOK, NEW t \in Tiers, NEW p \in Point, Due(t, p.ts)
  PROVE  Due(t, MinuteOf(p.ts))
<1> DEFINE m == MinuteOf(p.ts)
<1>1. m \in Int /\ m <= p.ts /\ p.ts \in Int /\ Width[t] \in Nat \ {0} /\ now \in Int
  BY ParentBounds, StartBounds, CutoffType, ConstantsAssumption DEF MinuteOf
<1> HIDE DEF m
<1>2. /\ Start(m, Width[t]) <= m /\ Start(m, Width[t]) \in Int
      /\ Start(p.ts, Width[t]) \in Int
  BY <1>1, StartBounds
<1>3. Start(p.ts, Width[t]) >= Start(m, Width[t])
  BY <1>1, <1>2, StartAtLeast
<1>4. Due(t, m)
  BY <1>1, <1>2, <1>3, ConstantsAssumption DEF Due
<1> QED
  BY <1>4 DEF m

\* Persisting gives the first parent what it gives the row, or notes the gap.
LEMMA PersistComposed ==
  ASSUME TypeOK, SealedWhole, NEW h \in [Point -> Nat], NEW rep, NEW keys,
         NEW ok \in BOOLEAN, Persist(h, rep, keys, ok), sealed' = sealed,
         NEW p \in Point, Composed(p), MinuteOf(p.ts) \notin gaps'
  PROVE  Composed(p)'
<1>1. CASE ok /\ KeyOf(p) \in keys /\ Tiers # {}
  <2>1. 1 \in Tiers
    BY <1>1, TierTypes
  <2>2. row' = RowAfter(h, rep, keys) /\ gaps' = gaps \cup Gaps(h, rep, keys)
    BY <1>1 DEF Persist
  <2>3. MinuteOf(p.ts) \notin Gaps(h, rep, keys)
    BY <2>2
  <2>4. ~Due(1, MinuteOf(p.ts)) /\ (KeyOf(p) \notin rep => ~(row[p] > 0))
    <3>1. KeyOf(p)[2] = MinuteOf(p.ts)
      BY DEF KeyOf
    <3> QED
      BY <1>1, <2>3, <3>1 DEF Gaps
  <2>5. ~Due(1, p.ts)
    BY <2>1, <2>4, MinuteDue
  <2>6. sealed[1][p] = 0
    BY <2>1, <2>5 DEF SealedWhole
  <2>7. row'[p] = h[p]
    BY <1>1, <2>2, <2>4 DEF RowAfter, TypeOK
  <2>8. staged'[1][p] = h[p] /\ \A t \in Tiers : t # 1 => staged'[t][p] = staged[t][p]
    BY <1>1, <2>1, <2>5 DEF Persist, MinuteParents
  <2>9. \A t \in Tiers \ {1} : t - 1 \in Tiers
    BY TierTypes
  <2> QED
    BY <2>6, <2>7, <2>8, <2>9 DEF Composed
<1>2. CASE ~(ok /\ KeyOf(p) \in keys)
  <2>1. row'[p] = row[p]
    BY <1>2 DEF Persist, RowAfter
  <2>2. \A t \in Tiers : staged'[t][p] = staged[t][p]
    BY <1>2, PersistStages
  <2> QED
    BY <2>1, <2>2, ComposedKept
<1>3. CASE Tiers = {}
  BY <1>3 DEF Composed
<1> QED
  BY <1>1, <1>2, <1>3

\* Sealing moves a point from the staged to the persisted parent of its tier,
\* and stages it one tier up, where nothing of it was.
LEMMA SealComposed ==
  ASSUME TypeOK, SealedWhole, NEW s \in Tiers, SealTier(s), NEW p \in Point, Composed(p)
  PROVE  Composed(p)'
<1>1. row' = row
  BY DEF SealTier
<1>2. CASE ~Sealing(s, p)
  <2>1. \A t \in Tiers : staged'[t][p] = staged[t][p] /\ sealed'[t][p] = sealed[t][p]
    BY <1>2, SealPoint
  <2> QED
    BY <1>1, <2>1, ComposedKept
<1>3. CASE Sealing(s, p)
  <2>0. s \in Nat /\ s >= 1 /\ (\A t \in Tiers \ {1} : t \in Nat /\ t > 1 /\ t - 1 \in Tiers)
        /\ 1 \in Tiers
    BY TierTypes
  <2>1. \A t \in Tiers : staged[t][p] \in Nat /\ sealed[t][p] \in Nat
    BY DEF TypeOK
  <2>2. sealed[s][p] = 0
    <3>1. PICK q \in Point : SameParent(s, p, q) /\ staged[s][q] > 0
      BY <1>3 DEF Sealing, ParentStaged
    <3>2. s \in 1..s
      BY <2>0
    <3> QED
      BY <3>1, <3>2 DEF SealedWhole
  <2>3. s + 1 \in Tiers => staged[s+1][p] = 0 /\ sealed[s+1][p] = 0
    <3>1. ASSUME s + 1 \in Tiers
          PROVE  staged[s+1][p] = 0 /\ sealed[s+1][p] = 0
      <4>1. s + 1 # 1 /\ (s + 1) - 1 = s
        BY <2>0
      <4>2. staged[s+1][p] + sealed[s+1][p] = sealed[s][p]
        BY <3>1, <4>1 DEF Composed
      <4> QED
        BY <2>1, <2>2, <3>1, <4>2
    <3> QED
      BY <3>1
  <2>4. staged'[s][p] = 0 /\ sealed'[s][p] = staged[s][p]
    BY <1>3, SealPoint
  <2>5. s + 1 \in Tiers => staged'[s+1][p] = staged[s][p] /\ sealed'[s+1][p] = 0
    <3>1. s # s + 1
      BY <2>0
    <3> QED
      BY <1>3, <2>3, <3>1, SealPoint
  <2>6. \A t \in Tiers : t # s /\ t # s + 1
                      => staged'[t][p] = staged[t][p] /\ sealed'[t][p] = sealed[t][p]
    BY SealPoint
  <2>7. staged'[1][p] + sealed'[1][p] = row'[p]
    <3>1. staged[1][p] + sealed[1][p] = row[p]
      BY <2>0 DEF Composed
    <3>2. CASE s = 1
      BY <1>1, <2>1, <2>2, <2>4, <3>1, <3>2
    <3>3. CASE s # 1
      <4>1. 1 # s /\ 1 # s + 1
        BY <2>0, <3>3
      <4> QED
        BY <1>1, <2>0, <2>6, <3>1, <4>1
    <3> QED
      BY <3>2, <3>3
  <2>8. ASSUME NEW t \in Tiers \ {1}
        PROVE  staged'[t][p] + sealed'[t][p] = sealed'[t-1][p]
    <3>1. staged[t][p] + sealed[t][p] = sealed[t-1][p] /\ t - 1 \in Tiers /\ t \in Nat
      BY <2>0 DEF Composed
    <3>2. CASE t = s
      <4>1. t - 1 # s /\ t - 1 # s + 1
        BY <2>0, <3>2
      <4>2. sealed'[t-1][p] = sealed[t-1][p]
        BY <2>6, <3>1, <4>1
      <4> QED
        BY <2>1, <2>2, <2>4, <3>1, <3>2, <4>2
    <3>3. CASE t = s + 1
      <4>1. t - 1 = s
        BY <2>0, <3>3
      <4> QED
        BY <2>1, <2>4, <2>5, <3>3, <4>1
    <3>4. CASE t # s /\ t # s + 1
      <4>1. t - 1 # s
        BY <2>0, <3>1, <3>4
      <4>2. sealed'[t-1][p] = sealed[t-1][p]
        <5>1. CASE t - 1 = s + 1
          BY <2>3, <2>5, <3>1, <5>1
        <5>2. CASE t - 1 # s + 1
          BY <2>6, <3>1, <4>1, <5>2
        <5> QED
          BY <5>1, <5>2
      <4> QED
        BY <2>6, <3>1, <3>4, <4>2
    <3> QED
      BY <3>2, <3>3, <3>4
  <2> QED
    BY <2>7, <2>8 DEF Composed
<1> QED
  BY <1>2, <1>3

\* What begins after a cutoff is in no bucket that goes.
LEMMA AfterCutoff ==
  ASSUME TypeOK, NEW c \in Cutoffs, NEW p \in Point,
         ~(MinuteOf(p.ts) <= c), NEW w \in Nat \ {0}
  PROVE  /\ ~(Start(p.ts, w) < Start(c, w))
         /\ ~(MinuteOf(p.ts) < MinuteOf(c))
<1>1. /\ p.ts \in Int /\ c \in Int /\ MinuteOf(p.ts) \in Int /\ MinuteOf(p.ts) <= p.ts
      /\ MinuteOf(c) \in Int /\ MinuteOf(c) <= c /\ Start(c, w) \in Int
      /\ Start(c, w) <= c /\ Start(p.ts, w) \in Int
  <2>1. p.ts \in Int /\ c \in Int
    BY StampTypes, ConstantsAssumption DEF Time
  <2> QED
    BY <2>1, StartBounds, ConstantsAssumption DEF MinuteOf
<1>2. p.ts >= Start(c, w)
  BY <1>1
<1> QED
  BY <1>1, <1>2, StartAtLeast

\* Every step keeps the tiers composed.
LEMMA ComposedStep ==
  ASSUME CInv, [Next]_vars
  PROVE  CoarseComposed'
<1> USE DEF CInv
<1> SUFFICES ASSUME NEW p \in Point, MinuteOf(p.ts) \notin gaps' \cup dirty'
             PROVE  Composed(p)'
  BY ComposedPointsNext
<1>0. MinuteOf(p.ts) \notin gaps \cup dirty => Composed(p)
  BY ComposedPoints
<1>1. ASSUME NEW b \in Batches, NEW ok \in BOOLEAN, WriteBatch(b, ok)
      PROVE  Composed(p)'
  <2> DEFINE h == HotAfter(b)
             rep == replace \cup Rebuilt(b)
             keys == ClosedKeys(h, rep)
  <2>1. h \in [Point -> Nat] /\ Persist(h, rep, keys, ok)
    BY <1>1, WriteTypes DEF WriteBatch
  <2>2. sealed' = sealed /\ dirty \subseteq dirty'
    BY <1>1 DEF WriteBatch
  <2> HIDE DEF h, rep, keys
  <2>3. gaps \subseteq gaps'
    BY <2>1 DEF Persist
  <2> QED
    BY <1>0, <2>1, <2>2, <2>3, PersistComposed
<1>2. ASSUME NEW ok \in BOOLEAN, Flush(ok)
      PROVE  Composed(p)'
  <2>1. hot \in [Point -> Nat] /\ Persist(hot, replace, ClosedKeys(hot, replace), ok)
    BY <1>2 DEF Flush, TypeOK
  <2>2. sealed' = sealed /\ dirty' = dirty
    BY <1>2 DEF Flush
  <2>3. gaps \subseteq gaps'
    BY <2>1 DEF Persist
  <2> QED
    BY <1>0, <2>1, <2>2, <2>3, PersistComposed
<1>3. ASSUME NEW s \in Tiers, SealTier(s)
      PROVE  Composed(p)'
  BY <1>0, <1>3, SealComposed DEF SealTier, history
<1>4. CASE DeleteSeries
  BY <1>4, ComposedEmpty DEF DeleteSeries, Empty
<1>5. ASSUME NEW c \in Cutoffs, DeleteBefore(c)
      PROVE  Composed(p)'
  <2>1. MinuteOf(p.ts) \in Minutes
    BY StampTypes
  <2>2. ~(MinuteOf(p.ts) <= c) /\ MinuteOf(p.ts) \notin gaps
    BY <1>5, <2>1 DEF DeleteBefore
  <2>3. ~(MinuteOf(p.ts) < MinuteOf(c))
    BY <2>2, AfterCutoff, ConstantsAssumption
  <2>4. MinuteOf(p.ts) \notin dirty
    BY <1>5, <2>3 DEF DeleteBefore
  <2>5. row'[p] = row[p]
    BY <1>5, <2>2, AfterCutoff, ConstantsAssumption DEF DeleteBefore
  <2>6. \A t \in Tiers : sealed'[t][p] = sealed[t][p] /\ staged'[t][p] = staged[t][p]
    BY <1>5, <2>2, AfterCutoff, TierTypes DEF DeleteBefore
  <2> QED
    BY <1>0, <2>2, <2>4, <2>5, <2>6, ComposedKept
<1>6. ASSUME Reopen
      PROVE  Composed(p)'
  <2>1. MinuteOf(p.ts) \in Minutes
    BY StampTypes
  <2>2. ~(MinuteOf(p.ts) <= now)
    BY <1>6, <2>1 DEF Reopen
  <2>3. p.ts \in Int /\ now \in Int /\ MinuteOf(p.ts) \in Int /\ MinuteOf(p.ts) <= p.ts
    <3>1. p.ts \in Int
      BY StampTypes, ConstantsAssumption DEF Time
    <3>2. now \in Int
      BY CutoffType
    <3> QED
      BY <3>1, <3>2, StartBounds, ConstantsAssumption DEF MinuteOf
  <2>4. ~(p.ts <= now)
    BY <2>2, <2>3
  <2>5. PastOnly' /\ now' = now
    BY <1>6, PastStep DEF Reopen
  <2>6. row'[p] = 0 /\ \A t \in Tiers : sealed'[t][p] = 0
    BY <2>4, <2>5 DEF PastOnly
  <2> QED
    BY <1>6, <2>6, ComposedEmpty DEF Reopen, Empty
<1>7. CASE Tick \/ FlushCoarse \/ SealFails \/ UNCHANGED vars
  <2>1. UNCHANGED <<row, staged, sealed, gaps, dirty>>
    BY <1>7 DEF Tick, FlushCoarse, SealFails, vars, mem, disk, history
  <2> QED
    BY <1>0, <2>1, ComposedKept
<1> QED
  BY <1>1, <1>2, <1>3, <1>4, <1>5, <1>6, <1>7 DEF Next, Restart, Crash

-----------------------------------------------------------------------------
(* The inductive invariant, and what follows from it *)

\* CInv holds initially and every step keeps it.
LEMMA CoarseInit == Init => CInv
<1> SUFFICES ASSUME Init
             PROVE  CInv
  OBVIOUS
<1>1. TypeOK
  BY TypeInit
<1>2. PastOnly /\ SealedWhole
  BY DEF Init, Empty, PastOnly, SealedWhole
<1>3. \A p \in Point : Composed(p)
  <2>1. \A t \in Tiers \ {1} : t - 1 \in Tiers
    BY TierTypes
  <2>2. Tiers # {} => 1 \in Tiers
    BY TierTypes
  <2> QED
    BY <2>1, <2>2 DEF Init, Empty, Composed
<1> QED
  BY <1>1, <1>2, <1>3, ComposedPoints DEF CInv

\* Every step keeps the inductive invariant.
LEMMA CoarseStep == CInv /\ [Next]_vars => CInv'
  BY TypeStep, PastStep, WholeStep, ComposedStep DEF CInv

\* In every behaviour each tier is composed of what the tier below it has
\* sealed, for any rollup policy, outside the minutes the history names.
THEOREM CoarseTiersComposed == Spec => []CoarseComposed
<1>1. CInv => CoarseComposed
  BY DEF CInv
<1> QED
  BY <1>1, CoarseInit, CoarseStep, PTL DEF Spec

\* No step writes a parent that has a persisted point, except to delete it.
LEMMA SealedStep ==
  ASSUME CInv, [Next]_vars, NEW t \in Tiers, NEW p \in Point,
         \E q \in Siblings(t, p) : sealed[t][q] > 0
  PROVE  \/ \A q \in Siblings(t, p) : sealed'[t][q] = sealed[t][q]
         \/ \A q \in Siblings(t, p) : sealed'[t][q] = 0
<1>1. ASSUME NEW s \in Tiers, SealTier(s)
      PROVE  \A q \in Siblings(t, p) : sealed'[t][q] = sealed[t][q]
  <2>1. PICK q \in Point : SameParent(t, p, q) /\ sealed[t][q] > 0
    BY DEF Siblings
  <2>2. ASSUME NEW r \in Point, SameParent(t, p, r)
        PROVE  ~Sealing(t, r)
    <3>1. \A x \in Point : SameParent(t, r, x) => SameParent(t, q, x)
      BY <2>1, <2>2, ParentTogether
    <3>2. t \in 1..t
      BY TierTypes
    <3>3. \A x \in Point : SameParent(t, r, x) => staged[t][x] = 0
      BY <2>1, <3>1, <3>2 DEF CInv, SealedWhole, TypeOK
    <3> QED
      BY <3>3 DEF Sealing, ParentStaged
  <2> QED
    BY <1>1, <2>2, SealPoint DEF Siblings, CInv
<1>2. ASSUME NEW c \in Cutoffs, DeleteBefore(c)
      PROVE  \/ \A q \in Siblings(t, p) : sealed'[t][q] = sealed[t][q]
             \/ \A q \in Siblings(t, p) : sealed'[t][q] = 0
  <2>1. \A q \in Siblings(t, p) : q \in Point /\ Start(q.ts, Width[t]) = Start(p.ts, Width[t])
    BY DEF Siblings, SameParent
  <2>2. \A q \in Point : sealed'[t][q] = IF Start(q.ts, Width[t]) < Start(c, Width[t])
                                           THEN 0 ELSE sealed[t][q]
    BY <1>2 DEF DeleteBefore
  <2> QED
    BY <2>1, <2>2
<1>3. CASE DeleteSeries
  BY <1>3 DEF DeleteSeries, Empty, Siblings
<1>4. CASE \/ \E b \in Batches, ok \in BOOLEAN : WriteBatch(b, ok)
           \/ \E ok \in BOOLEAN : Flush(ok)
           \/ FlushCoarse \/ SealFails \/ Restart \/ Crash \/ Tick \/ UNCHANGED vars
  BY <1>4 DEF WriteBatch, Flush, FlushCoarse, SealFails, Restart, Crash, Reopen, Tick, vars, disk
<1> QED
  BY <1>1, <1>2, <1>3, <1>4 DEF Next

\* A persisted parent is immutable: a step leaves it or deletes it whole.
THEOREM SealedParentsStay == Spec => SealedOnce
<1>1. CInv /\ [Next]_vars
        => [\A t \in Tiers, p \in Point :
              (\E q \in Siblings(t, p) : sealed[t][q] > 0)
                => \/ \A q \in Siblings(t, p) : sealed'[t][q] = sealed[t][q]
                   \/ \A q \in Siblings(t, p) : sealed'[t][q] = 0]_vars
  BY SealedStep
<1> QED
  BY <1>1, CoarseInit, CoarseStep, PTL DEF Spec, SealedOnce

=============================================================================
