------------------------- MODULE StoreLifecycleProofs -------------------------
(***************************************************************************)
(* Proofs about StoreLifecycle for any number of databases, samples,       *)
(* instances, migrations and faults: who holds the gate keeps its store,   *)
(* the migration ends before the reports are flushed, and no database      *)
(* counts a sample twice. And about BackupRestore, which replaces the data *)
(* directory before the store is opened: the data can be recovered.        *)
(***************************************************************************)
EXTENDS StoreLifecycle, BackupRestore, SequenceLemmas

Everyone == Users \cup {"ping"}
Stages == {"none", "migration", "batcher", "store", "closing", "exit"}

\* The types of what the proofs reason about.
Typed ==
  /\ held \subseteq Users /\ queue \in Seq(Users)
  /\ pc \in [Everyone -> {"idle", "wait", "use"}]
  /\ opened \in Seq(Targets) /\ Len(opened) \in 1..MaxOpens
  /\ store \in 0..Len(opened) /\ isOpen \subseteq 1..Len(opened)
  /\ uses \in [Everyone -> 0..Len(opened)]
  /\ hot \in [1..MaxOpens -> [Samples -> Nat]] /\ row \in [Targets -> [Samples -> Nat]]
  /\ config \in Targets /\ source \in Targets
  /\ produced \in 0..MaxSamples /\ pending \subseteq 1..produced
  /\ closing \in BOOLEAN /\ expired \in BOOLEAN
  /\ migration \in {"none", "running", "finishing"}
  /\ proc \in {"serving", "stopping", "down", "recovery"} /\ stage \in Stages

\* Whoever works holds the gate, and who holds it exclusively holds it alone;
\* a process that has ended leaves nobody at the gate.
Exclusion ==
  /\ \A p \in held : p \in Exclusive => held = {p}
  /\ \A p \in Users : pc[p] = "use" => p \in held
  /\ ~Alive => held = {} /\ queue = <<>>

\* The active instance is open, and the one that a reload closes is another.
ActiveIsOpen ==
  /\ store # 0 => store \in isOpen
  /\ pc["reload"] = "use" => uses["reload"] # store

\* A migration holds the gate from its start to its end, never waits for it,
\* and after the migration cleanup none can start.
MigrationEnds ==
  /\ "migrate" \notin Range(queue)
  /\ "migrate" \in held => migration = "running"
  /\ migration = "running" => pc["migrate"] = "use" /\ uses["migrate"] # 0
  /\ stage # "none" => proc = "stopping"
  /\ (stage \in {"batcher", "store", "closing", "exit"} /\ ~expired) => closing /\ migration = "none"

\* A sample is nowhere before it is written, then in the memory of one
\* instance, then in rows, once in each.
WrittenOnce ==
  \A i \in Samples :
    /\ i > produced \/ i \in pending
         => (\A n \in 1..MaxOpens : hot[n][i] = 0) /\ (\A t \in Targets : row[t][i] = 0)
    /\ \A t \in Targets : row[t][i] <= 1
    /\ \A n \in 1..MaxOpens :
         /\ hot[n][i] <= 1
         /\ hot[n][i] # 0 => /\ \A m \in 1..MaxOpens \ {n} : hot[m][i] = 0
                             /\ \A t \in Targets : row[t][i] = 0

IInv == /\ Typed /\ Exclusion /\ ActiveIsOpen /\ GateKeepsStore
        /\ MigrationEnds /\ ShutdownInOrder /\ WrittenOnce

-----------------------------------------------------------------------------
\* The start satisfies the invariant.
LEMMA InitInv == Init => IInv
<1> SUFFICES ASSUME Init
             PROVE  IInv
  OBVIOUS
<1> USE BoundsAssumption DEF Init
<1>1. Typed
  <2>1. NoRow \in [Samples -> Nat]
    BY DEF NoRow
  <2>2. opened = <<1>> /\ opened \in Seq(Targets) /\ Len(opened) = 1
    OBVIOUS
  <2>3. queue = <<>> /\ queue \in Seq(Users)
    OBVIOUS
  <2>4. pc \in [Everyone -> {"idle", "wait", "use"}] /\ uses \in [Everyone -> 0..Len(opened)]
    BY <2>2 DEF Everyone
  <2>5. hot \in [1..MaxOpens -> [Samples -> Nat]] /\ row \in [Targets -> [Samples -> Nat]]
    BY <2>1
  <2>6. store \in 0..Len(opened) /\ isOpen \subseteq 1..Len(opened) /\ Len(opened) \in 1..MaxOpens
    BY <2>2
  <2>7. produced \in 0..MaxSamples /\ pending \subseteq 1..produced
    OBVIOUS
  <2>8. /\ closing \in BOOLEAN /\ expired \in BOOLEAN
        /\ migration \in {"none", "running", "finishing"}
        /\ proc \in {"serving", "stopping", "down", "recovery"} /\ stage \in Stages
    BY DEF Stages
  <2> QED
    BY <2>2, <2>3, <2>4, <2>5, <2>6, <2>7, <2>8 DEF Typed
<1>2. Exclusion /\ ActiveIsOpen /\ GateKeepsStore
  BY DEF Exclusion, ActiveIsOpen, GateKeepsStore, Alive, Users, Shared, Exclusive
<1>3. MigrationEnds /\ ShutdownInOrder
  BY DEF MigrationEnds, ShutdownInOrder, Range
<1>4. WrittenOnce
  BY DEF WrittenOnce, NoRow, Samples
<1> QED
  BY <1>1, <1>2, <1>3, <1>4 DEF IInv

\* The cleanups run one after the other.
LEMMA CleanupOrder == After("migration") = "batcher" /\ After("batcher") = "store" /\ After("store") = "exit"
<1>1. DOMAIN Cleanups = 1..3 /\ Len(Cleanups) = 3
      /\ Cleanups[1] = "migration" /\ Cleanups[2] = "batcher" /\ Cleanups[3] = "store"
  BY DEF Cleanups
<1>2. (CHOOSE i \in DOMAIN Cleanups : Cleanups[i] = "migration") = 1
  BY <1>1
<1>3. (CHOOSE i \in DOMAIN Cleanups : Cleanups[i] = "batcher") = 2
  BY <1>1
<1> QED
  BY <1>1, <1>2, <1>3 DEF After

\* Joining the gate: the user enters if it fits, or waits.
LEMMA EnterEffect ==
  ASSUME Typed, NEW p \in Users \ {"migrate"}, Enter(p, "wait")
  PROVE  /\ \/ held' = held \cup {p} /\ Fits(p)
            \/ held' = held
         /\ held' \subseteq Users
         /\ queue' \in Seq(Users) /\ Range(queue') \subseteq Range(queue) \cup {p}
         /\ pc' \in [Everyone -> {"idle", "wait", "use"}] /\ pc'[p] = "wait"
         /\ \A q \in Everyone \ {p} : pc'[q] = pc[q]
<1>1. p \in Users /\ held \subseteq Users /\ queue \in Seq(Users)
  BY DEF Typed
<1>2. /\ pc' \in [Everyone -> {"idle", "wait", "use"}] /\ pc'[p] = "wait"
      /\ \A q \in Everyone \ {p} : pc'[q] = pc[q]
  BY DEF Typed, Enter, Everyone
<1>3. CASE queue = <<>> /\ Fits(p)
  BY <1>1, <1>2, <1>3 DEF Enter
<1>4. CASE ~(queue = <<>> /\ Fits(p))
  <2>1. held' = held /\ queue' = Append(queue, p)
    BY <1>4 DEF Enter
  <2>2. Append(queue, p) \in Seq(Users) /\ Range(Append(queue, p)) = Range(queue) \cup {p}
    BY <1>1, AppendAdds
  <2> QED
    BY <1>1, <1>2, <2>1, <2>2
<1> QED
  BY <1>3, <1>4

\* Leaving it.
LEMMA LeaveEffect ==
  ASSUME Typed, NEW p \in Users, Leave(p)
  PROVE  /\ held' = held \ {p} /\ queue' = queue
         /\ pc' \in [Everyone -> {"idle", "wait", "use"}] /\ pc'[p] = "idle"
         /\ \A q \in Everyone \ {p} : pc'[q] = pc[q]
         /\ uses' \in [Everyone -> 0..Len(opened)]
         /\ \A q \in Everyone \ {p} : uses'[q] = uses[q]
  BY DEF Leave, Typed, Everyone

\* A flush keeps the types of what is stored.
LEMMA FlushedType ==
  ASSUME Typed, NEW n \in 1..Len(opened), Flushed(n)
  PROVE  /\ hot' \in [1..MaxOpens -> [Samples -> Nat]] /\ row' \in [Targets -> [Samples -> Nat]]
         /\ \A i \in Samples : /\ hot'[n][i] = 0
                               /\ row'[opened[n]][i] = row[opened[n]][i] + hot[n][i]
         /\ \A m \in 1..MaxOpens \ {n} : hot'[m] = hot[m]
         /\ \A t \in Targets \ {opened[n]} : row'[t] = row[t]
<1>1. opened[n] \in Targets /\ n \in 1..MaxOpens
  BY BoundsAssumption DEF Typed
<1>2. Plus(row[opened[n]], hot[n]) \in [Samples -> Nat] /\ NoRow \in [Samples -> Nat]
  <2>1. row[opened[n]] \in [Samples -> Nat] /\ hot[n] \in [Samples -> Nat]
    BY <1>1 DEF Typed
  <2> QED
    BY <2>1 DEF Plus, NoRow
<1>3. /\ hot' = [hot EXCEPT ![n] = NoRow] /\ row' = [row EXCEPT ![opened[n]] = Plus(@, hot[n])]
  BY DEF Flushed
<1>4. /\ hot' \in [1..MaxOpens -> [Samples -> Nat]] /\ row' \in [Targets -> [Samples -> Nat]]
      /\ hot'[n] = NoRow /\ row'[opened[n]] = Plus(row[opened[n]], hot[n])
      /\ \A m \in 1..MaxOpens \ {n} : hot'[m] = hot[m]
      /\ \A t \in Targets \ {opened[n]} : row'[t] = row[t]
  BY <1>1, <1>2, <1>3 DEF Typed
<1> QED
  BY <1>4 DEF NoRow, Plus

\* Rows add up to rows.
LEMMA PlusType == \A a, b \in [Samples -> Nat] : Plus(a, b) \in [Samples -> Nat]
  BY DEF Plus

\* One more instance fits under the bound.
LEMMA OneMore ==
  ASSUME NEW l \in Nat, l < MaxOpens, NEW O \in SUBSET (1..l)
  PROVE  l + 1 \in 0..(l + 1) /\ l + 1 \in 1..MaxOpens /\ O \cup {l + 1} \subseteq 1..(l + 1)
  BY BoundsAssumption

\* An open instance has its memory and its database.
LEMMA OpenInstances ==
  ASSUME Typed
  PROVE  \A n \in isOpen : n \in 1..MaxOpens /\ hot[n] \in [Samples -> Nat] /\ opened[n] \in Targets
<1> SUFFICES ASSUME NEW n \in isOpen
             PROVE  n \in 1..MaxOpens /\ hot[n] \in [Samples -> Nat] /\ opened[n] \in Targets
  OBVIOUS
<1>1. n \in 1..Len(opened) /\ Len(opened) \in 1..MaxOpens
  BY DEF Typed
<1>2. n \in 1..MaxOpens
  BY <1>1, BoundsAssumption
<1> QED
  BY <1>1, <1>2 DEF Typed

\* Every step keeps the types.
LEMMA TypedStep ==
  ASSUME Typed, MigrationEnds, [Next]_vars
  PROVE  Typed'
<1> USE BoundsAssumption DEF Typed, vars, gate, instances, data, settings, reports, mig, life, bounds
<1>1. CASE Grant
  <2> PICK p \in Range(queue) : held' = held \cup {p} /\ queue' = RemoveFirst(queue, p)
    BY <1>1 DEF Grant
  <2>1. p \in Users
    BY RangeOfSeq
  <2>2. queue' \in Seq(Users)
    BY RemoveFirstType
  <2> QED
    BY <1>1, <2>1, <2>2 DEF Grant
<1>2. ASSUME NEW p \in Shared \cup {"reclaim"}, Read(p)
      PROVE  Typed'
  BY <1>2 DEF Read, Everyone, Users, Shared, Exclusive
<1>3. ASSUME NEW p \in {"reload", "query"}, GiveUp(p)
      PROVE  Typed'
  <2>1. queue' = RemoveFirst(queue, p)
    BY <1>3 DEF GiveUp
  <2>2. queue' \in Seq(Users)
    BY <2>1, RemoveFirstType
  <2> QED
    BY <1>3, <2>2 DEF GiveUp
<1>4. CASE Report
  BY <1>4 DEF Report
<1>5. CASE BatchEnter
  <2>1. "batch" \in Users \ {"migrate"} /\ Enter("batch", "wait")
    BY <1>5 DEF BatchEnter, Users, Shared, Exclusive
  <2>2. /\ held' \subseteq Users /\ queue' \in Seq(Users)
        /\ pc' \in [Everyone -> {"idle", "wait", "use"}]
    BY <2>1, EnterEffect
  <2> QED
    BY <1>5, <2>2 DEF BatchEnter
<1>6. CASE BatchWrite
  <2>1. "batch" \in Users /\ "batch" \in Everyone /\ Leave("batch")
    BY <1>6 DEF BatchWrite, Everyone, Users, Shared
  <2>2. /\ held' \subseteq Users /\ queue' \in Seq(Users)
        /\ pc' \in [Everyone -> {"idle", "wait", "use"}] /\ uses' \in [Everyone -> 0..Len(opened)]
    BY <2>1, LeaveEffect
  <2>3. hot' \in [1..MaxOpens -> [Samples -> Nat]]
    <3> DEFINE n == uses["batch"]
               h == [i \in Samples |-> hot[n][i] + (IF i \in pending THEN 1 ELSE 0)]
    <3>1. CASE n \in isOpen
      <4>1. hot[n] \in [Samples -> Nat]
        BY <3>1, OpenInstances
      <4>2. h \in [Samples -> Nat]
        BY <4>1
      <4>3. hot' = [hot EXCEPT ![n] = h] \/ hot' = hot
        BY <1>6, <3>1 DEF BatchWrite
      <4> QED
        BY <4>2, <4>3
    <3>2. CASE n \notin isOpen
      BY <1>6, <3>2 DEF BatchWrite
    <3> QED
      BY <3>1, <3>2
  <2>4. pending' \subseteq pending
    BY <1>6 DEF BatchWrite
  <2> QED
    BY <1>6, <2>2, <2>3, <2>4 DEF BatchWrite
<1>7. CASE CompactEnter
  <2>1. "compact" \in Users \ {"migrate"} /\ Enter("compact", "wait")
    BY <1>7 DEF CompactEnter, Users, Shared, Exclusive
  <2>2. /\ held' \subseteq Users /\ queue' \in Seq(Users)
        /\ pc' \in [Everyone -> {"idle", "wait", "use"}]
    BY <2>1, EnterEffect
  <2> QED
    BY <1>7, <2>2 DEF CompactEnter
<1>8. CASE CompactFlush
  <2>1. "compact" \in Users /\ Leave("compact")
    BY <1>8 DEF CompactFlush, Users, Shared, Exclusive
  <2>2. /\ held' \subseteq Users /\ queue' \in Seq(Users)
        /\ pc' \in [Everyone -> {"idle", "wait", "use"}] /\ uses' \in [Everyone -> 0..Len(opened)]
    BY <2>1, LeaveEffect
  <2>3. /\ hot' \in [1..MaxOpens -> [Samples -> Nat]] /\ row' \in [Targets -> [Samples -> Nat]]
    <3>1. CASE Flushed(uses["compact"]) /\ uses["compact"] \in 1..Len(opened)
      BY <3>1, FlushedType
    <3>2. CASE UNCHANGED data
      BY <3>2 DEF data
    <3> QED
      BY <1>8, <3>1, <3>2 DEF Everyone, Users, Shared, Exclusive, CompactFlush
  <2> QED
    BY <1>8, <2>2, <2>3 DEF CompactFlush
<1>9. CASE QueryEnter
  <2>1. "query" \in Users \ {"migrate"} /\ Enter("query", "wait")
    BY <1>9 DEF QueryEnter, Users, Shared, Exclusive
  <2>2. /\ held' \subseteq Users /\ queue' \in Seq(Users)
        /\ pc' \in [Everyone -> {"idle", "wait", "use"}]
    BY <2>1, EnterEffect
  <2> QED
    BY <1>9, <2>2 DEF QueryEnter
<1>10. CASE QueryRelease
  <2>1. "query" \in Users /\ Leave("query")
    BY <1>10 DEF QueryRelease, Users, Shared, Exclusive
  <2>2. /\ held' \subseteq Users /\ queue' \in Seq(Users)
        /\ pc' \in [Everyone -> {"idle", "wait", "use"}] /\ uses' \in [Everyone -> 0..Len(opened)]
    BY <2>1, LeaveEffect
  <2> QED
    BY <1>10, <2>2 DEF QueryRelease
<1>11. CASE PingRead
  BY <1>11 DEF PingRead
<1>12. CASE PingWrite
  <2>1. "ping" \in Everyone
    BY DEF Everyone
  <2>2. hot' \in [1..MaxOpens -> [Samples -> Nat]]
    <3> DEFINE n == uses["ping"]
    <3>1. CASE n \in isOpen
      <4>1. hot[n] \in [Samples -> Nat]
        BY <3>1, OpenInstances
      <4>2. One(produced + 1) \in [Samples -> Nat]
        BY DEF One
      <4>5. Plus(hot[n], One(produced + 1)) \in [Samples -> Nat]
        BY <4>1, <4>2, PlusType
      <4>3. hot' = [hot EXCEPT ![n] = Plus(hot[n], One(produced + 1))] \/ hot' = hot
        BY <1>12 DEF PingWrite
      <4> QED
        BY <4>5, <4>3
    <3>2. CASE n \notin isOpen
      BY <1>12, <3>2 DEF PingWrite
    <3> QED
      BY <3>1, <3>2
  <2>3. produced' \in 0..MaxSamples /\ pending' \subseteq 1..produced'
    BY <1>12 DEF PingWrite
  <2>4. pc' \in [Everyone -> {"idle", "wait", "use"}] /\ uses' \in [Everyone -> 0..Len(opened)]
    BY <1>12, <2>1 DEF PingWrite
  <2> QED
    BY <1>12, <2>2, <2>3, <2>4 DEF PingWrite
<1>13. CASE ReclaimEnter
  <2>1. "reclaim" \in Users \ {"migrate"} /\ Enter("reclaim", "wait")
    BY <1>13 DEF ReclaimEnter, Users, Shared, Exclusive
  <2>2. /\ held' \subseteq Users /\ queue' \in Seq(Users)
        /\ pc' \in [Everyone -> {"idle", "wait", "use"}]
    BY <2>1, EnterEffect
  <2> QED
    BY <1>13, <2>2 DEF ReclaimEnter
<1>14. CASE ReclaimDone
  <2>1. "reclaim" \in Users /\ Leave("reclaim")
    BY <1>14 DEF ReclaimDone, Users, Shared, Exclusive
  <2>2. /\ held' \subseteq Users /\ queue' \in Seq(Users)
        /\ pc' \in [Everyone -> {"idle", "wait", "use"}] /\ uses' \in [Everyone -> 0..Len(opened)]
    BY <2>1, LeaveEffect
  <2> QED
    BY <1>14, <2>2 DEF ReclaimDone
<1>15. CASE EditSettings
  <2>1. "reload" \in Users \ {"migrate"} /\ Enter("reload", "wait")
    BY <1>15 DEF EditSettings, Users, Shared, Exclusive
  <2>2. /\ held' \subseteq Users /\ queue' \in Seq(Users)
        /\ pc' \in [Everyone -> {"idle", "wait", "use"}]
    BY <2>1, EnterEffect
  <2> QED
    BY <1>15, <2>2 DEF EditSettings
<1>16. CASE ReloadRefused
  <2>1. "reload" \in Users /\ Leave("reload")
    BY <1>16 DEF ReloadRefused, Users, Shared, Exclusive
  <2>2. /\ held' \subseteq Users /\ queue' \in Seq(Users)
        /\ pc' \in [Everyone -> {"idle", "wait", "use"}] /\ uses' \in [Everyone -> 0..Len(opened)]
    BY <2>1, LeaveEffect
  <2> QED
    BY <1>16, <2>2 DEF ReloadRefused
<1>17. CASE ReloadSwap
  <2>1. /\ opened' \in Seq(Targets) /\ Len(opened') = Len(opened) + 1
    BY <1>17 DEF ReloadSwap
  <2>2. uses' \in [Everyone -> 0..Len(opened)] /\ pc' \in [Everyone -> {"idle", "wait", "use"}]
    BY <1>17 DEF ReloadSwap
  <2>3. uses' \in [Everyone -> 0..Len(opened')]
    BY <2>1, <2>2
  <2>4. store' \in 0..Len(opened') /\ isOpen' \subseteq 1..Len(opened') /\ Len(opened') \in 1..MaxOpens
    <3>1. /\ Len(opened) \in Nat /\ isOpen \subseteq 1..Len(opened) /\ Len(opened) < MaxOpens
          /\ store' = Len(opened) + 1 /\ isOpen' = isOpen \cup {Len(opened) + 1}
      BY <1>17 DEF ReloadSwap
    <3> QED
      BY <2>1, <3>1, OneMore
  <2> QED
    BY <1>17, <2>1, <2>2, <2>3, <2>4 DEF ReloadSwap
<1>18. CASE ReloadClose
  <2>1. "reload" \in Users /\ Leave("reload")
    BY <1>18 DEF ReloadClose, Users, Shared, Exclusive
  <2>2. /\ held' \subseteq Users /\ queue' \in Seq(Users)
        /\ pc' \in [Everyone -> {"idle", "wait", "use"}] /\ uses' \in [Everyone -> 0..Len(opened)]
    BY <2>1, LeaveEffect
  <2>3. /\ hot' \in [1..MaxOpens -> [Samples -> Nat]] /\ row' \in [Targets -> [Samples -> Nat]]
    <3>1. CASE Flushed(uses["reload"]) /\ uses["reload"] \in 1..Len(opened)
      BY <3>1, FlushedType
    <3>2. CASE UNCHANGED data
      BY <3>2 DEF data
    <3>3. (Flushed(uses["reload"]) /\ uses["reload"] # 0) \/ UNCHANGED data
      BY <1>18 DEF ReloadClose
    <3>4. uses["reload"] \in 0..Len(opened) /\ Len(opened) \in Nat
      BY DEF Everyone, Users, Exclusive
    <3> QED
      BY <3>1, <3>2, <3>3, <3>4
  <2> QED
    BY <1>18, <2>2, <2>3 DEF ReloadClose
<1>19. CASE StartMigration
  <2>1. held' \subseteq Users /\ queue' \in Seq(Users)
    BY <1>19 DEF StartMigration, Users, Exclusive
  <2>2. pc' \in [Everyone -> {"idle", "wait", "use"}] /\ uses' \in [Everyone -> 0..Len(opened)]
    BY <1>19 DEF StartMigration
  <2> QED
    BY <1>19, <2>1, <2>2 DEF StartMigration
<1>20. CASE MigrateBatch
  <2> DEFINE t == opened[uses["migrate"]]
  <2>1. row[source] \in [Samples -> Nat]
    OBVIOUS
  <2>2. row' = [row EXCEPT ![t] = Imported(row[t], row[source])]
    BY <1>20 DEF MigrateBatch
  <2>3. row' \in [Targets -> [Samples -> Nat]]
    <3>1. CASE t \in Targets
      <4>1. Imported(row[t], row[source]) \in [Samples -> Nat]
        BY <2>1, <3>1 DEF Imported
      <4> QED
        BY <2>2, <3>1, <4>1
    <3>2. CASE t \notin Targets
      BY <2>2, <3>2
    <3> QED
      BY <3>1, <3>2
  <2> QED
    BY <1>20, <2>3 DEF MigrateBatch
<1>21. CASE MigrateEnd
  <2>1. "migrate" \in Users /\ "migrate" \in Everyone /\ Leave("migrate")
    BY <1>21 DEF MigrateEnd, Everyone, Users, Exclusive
  <2>2. /\ held' \subseteq Users /\ queue' \in Seq(Users)
        /\ pc' \in [Everyone -> {"idle", "wait", "use"}] /\ uses' \in [Everyone -> 0..Len(opened)]
    BY <2>1, LeaveEffect
  <2>3. uses["migrate"] \in 1..Len(opened)
    BY <1>21, <2>1 DEF MigrateEnd, MigrationEnds
  <2>4. source' \in Targets
    BY <1>21, <2>3 DEF MigrateEnd
  <2> QED
    BY <1>21, <2>2, <2>4 DEF MigrateEnd
<1>22. CASE MigrateCleared
  BY <1>22 DEF MigrateCleared
<1>23. CASE CancelMigration
  BY <1>23 DEF CancelMigration
<1>24. CASE BeginShutdown
  BY <1>24 DEF BeginShutdown, Cleanups, Stages
<1>25. CASE StopMigration
  <2>1. stage' \in Stages /\ closing' \in BOOLEAN
    BY <1>25, CleanupOrder DEF StopMigration, Stages
  <2> QED
    BY <1>25, <2>1 DEF StopMigration
<1>26. CASE StopBatcher
  BY <1>26, CleanupOrder DEF StopBatcher, Stages
<1>27. CASE CloseEnter
  <2>1. "close" \in Users \ {"migrate"} /\ Enter("close", "wait")
    BY <1>27 DEF CloseEnter, Users, Shared, Exclusive
  <2>2. /\ held' \subseteq Users /\ queue' \in Seq(Users)
        /\ pc' \in [Everyone -> {"idle", "wait", "use"}]
    BY <2>1, EnterEffect
  <2> QED
    BY <1>27, <2>2 DEF CloseEnter, Stages
<1>28. CASE CloseStore
  <2>1. "close" \in Users /\ Leave("close")
    BY <1>28 DEF CloseStore, Users, Shared, Exclusive
  <2>2. /\ held' \subseteq Users /\ queue' \in Seq(Users)
        /\ pc' \in [Everyone -> {"idle", "wait", "use"}] /\ uses' \in [Everyone -> 0..Len(opened)]
    BY <2>1, LeaveEffect
  <2>3. /\ hot' \in [1..MaxOpens -> [Samples -> Nat]] /\ row' \in [Targets -> [Samples -> Nat]]
    <3>1. CASE Flushed(store) /\ store \in 1..Len(opened)
      BY <3>1, FlushedType
    <3>2. CASE UNCHANGED data
      BY <3>2 DEF data
    <3>3. (Flushed(store) /\ store # 0) \/ UNCHANGED data
      BY <1>28 DEF CloseStore
    <3>4. store \in 0..Len(opened) /\ Len(opened) \in Nat
      BY DEF Everyone, Users, Exclusive
    <3> QED
      BY <3>1, <3>2, <3>3, <3>4
  <2> QED
    BY <1>28, <2>2, <2>3, CleanupOrder DEF CloseStore, Stages
<1>29. CASE CleanupTimesOut
  <2>1. queue' \in Seq(Users)
    BY <1>29, RemoveFirstType DEF CleanupTimesOut
  <2>2. pc' \in [Everyone -> {"idle", "wait", "use"}]
    BY <1>29 DEF CleanupTimesOut
  <2>3. stage' \in Stages /\ closing' \in BOOLEAN /\ expired' \in BOOLEAN
    BY <1>29, CleanupOrder DEF CleanupTimesOut, Stages
  <2> QED
    BY <1>29, <2>1, <2>2, <2>3 DEF CleanupTimesOut
<1>30. CASE Exit
  <2>1. pc' \in [Everyone -> {"idle", "wait", "use"}] /\ uses' \in [Everyone -> 0..Len(opened)]
    BY <1>30 DEF Exit
  <2>2. hot' \in [1..MaxOpens -> [Samples -> Nat]]
    BY <1>30 DEF Exit, NoRow
  <2>3. held' \subseteq Users /\ queue' \in Seq(Users)
    BY <1>30 DEF Exit
  <2>4. /\ UNCHANGED <<opened, config, source, row, produced, expired>> /\ isOpen' = {} /\ store' = 0
        /\ pending' = {} /\ migration' = "none" /\ closing' = FALSE /\ proc' = "down"
        /\ stage' = "none"
    BY <1>30 DEF Exit
  <2>5. closing' \in BOOLEAN
    BY <2>4
  <2>6. store' \in 0..Len(opened)
    BY <2>4
  <2> QED
    BY <2>1, <2>2, <2>3, <2>4, <2>5, <2>6 DEF Stages
<1>31. CASE Boot
  <2>1. \/ UNCHANGED <<opened, store, isOpen, settings>> /\ proc' = "recovery"
        \/ /\ config' \in Targets /\ source' \in Targets /\ proc' = "serving"
           /\ opened' = Append(opened, config') /\ store' = Len(opened) + 1
           /\ isOpen' = {Len(opened) + 1}
    BY <1>31 DEF Boot
  <2>2. opened' \in Seq(Targets) /\ Len(opened') \in {Len(opened), Len(opened) + 1}
    <3>1. CASE opened' = opened
      BY <3>1
    <3>2. CASE opened' = Append(opened, config') /\ config' \in Targets
      BY <3>2
    <3> QED
      BY <2>1, <3>1, <3>2
  <2>3. Len(opened') \in 1..MaxOpens /\ store' \in 0..Len(opened') /\ isOpen' \subseteq 1..Len(opened')
    <3>1. Len(opened) \in Nat /\ Len(opened) < MaxOpens /\ store \in 0..Len(opened)
          /\ isOpen \subseteq 1..Len(opened)
      BY <1>31 DEF Boot
    <3>2. CASE UNCHANGED <<opened, store, isOpen, settings>>
      BY <3>2
    <3>3. CASE /\ opened' = Append(opened, config') /\ store' = Len(opened) + 1
               /\ isOpen' = {Len(opened) + 1} /\ config' \in Targets
      <4>1. Len(opened') = Len(opened) + 1
        BY <3>3
      <4> QED
        BY <3>1, <3>3, <4>1
    <3> QED
      BY <2>1, <3>2, <3>3
  <2>4. uses' \in [Everyone -> 0..Len(opened')]
    <3>1. uses' \in [Everyone -> 0..Len(opened)]
      BY <1>31 DEF Boot
    <3> QED
      BY <2>2, <3>1
  <2>5. config' \in Targets /\ source' \in Targets /\ proc' \in {"serving", "recovery"}
    BY <2>1
  <2> QED
    BY <1>31, <2>2, <2>3, <2>4, <2>5 DEF Boot
<1>32. CASE UNCHANGED vars
  BY <1>32
<1> QED
  BY <1>1, <1>2, <1>3, <1>4, <1>5, <1>6, <1>7, <1>8, <1>9, <1>10, <1>11, <1>12, <1>13, <1>14,
     <1>15, <1>16, <1>17, <1>18, <1>19, <1>20, <1>21, <1>22, <1>23, <1>24, <1>25, <1>26, <1>27,
     <1>28, <1>29, <1>30, <1>31, <1>32 DEF Next

\* Who fits leaves the gate exclusive.
LEMMA FitsExclusive ==
  ASSUME Exclusion, NEW p \in Users, Fits(p)
  PROVE  \A q \in held \cup {p} : q \in Exclusive => held \cup {p} = {q}
<1>1. CASE p \in Shared
  BY <1>1 DEF Fits, Shared, Exclusive
<1>2. CASE p \notin Shared
  BY <1>2 DEF Fits
<1> QED
  BY <1>1, <1>2

\* Who is let in at once leaves the gate as exclusive as it was.
LEMMA EnterExclusion ==
  ASSUME Typed, Exclusion, Alive', NEW p \in Users \ {"migrate"}, Enter(p, "wait"), Alive
  PROVE  Exclusion'
<1>1. /\ (held' = held \cup {p} /\ Fits(p)) \/ held' = held
      /\ pc'[p] = "wait" /\ \A q \in Everyone \ {p} : pc'[q] = pc[q]
  BY EnterEffect
<1>2. \A q \in Users : pc'[q] = "use" => pc[q] = "use"
  BY <1>1 DEF Everyone
<1>3. \A q \in held' : q \in Exclusive => held' = {q}
  BY <1>1, FitsExclusive DEF Exclusion
<1> QED
  BY <1>1, <1>2, <1>3 DEF Exclusion

\* So does who leaves.
LEMMA LeaveExclusion ==
  ASSUME Typed, Exclusion, Alive', NEW p \in Users, Leave(p)
  PROVE  Exclusion'
<1>1. /\ held' = held \ {p}
      /\ pc'[p] = "idle" /\ \A q \in Everyone \ {p} : pc'[q] = pc[q]
  BY LeaveEffect
<1> QED
  BY <1>1 DEF Exclusion, Everyone

\* The gate is a readers-writer lock: every step keeps it exclusive.
LEMMA ExclusionStep ==
  ASSUME Typed, Exclusion, [Next]_vars
  PROVE  Exclusion'
<1> USE DEF vars, gate, life
<1>1. CASE Grant
  <2> PICK p \in Range(queue) : Fits(p) /\ held' = held \cup {p} /\ queue' = RemoveFirst(queue, p)
    BY <1>1 DEF Grant
  <2>1. p \in Users /\ Alive
    BY <1>1, RangeOfSeq DEF Grant, Typed, Exclusion
  <2>2. Alive' /\ pc' = pc
    BY <1>1, <2>1 DEF Grant, Alive
  <2> QED
    BY <2>1, <2>2, FitsExclusive DEF Exclusion
<1>2. ASSUME NEW p \in Shared \cup {"reclaim"}, Read(p)
      PROVE  Exclusion'
  <2>1. pc'[p] = "use" /\ \A q \in Users \ {p} : pc'[q] = pc[q]
    BY <1>2 DEF Read, Typed, Everyone, Users
  <2> QED
    BY <1>2, <2>1 DEF Read, Exclusion, Alive
<1>3. ASSUME NEW p \in {"reload", "query"}, GiveUp(p)
      PROVE  Exclusion'
  <2>1. \A q \in Users : pc'[q] = "use" => pc[q] = "use"
    BY <1>3 DEF GiveUp, Typed, Everyone
  <2> QED
    BY <1>3, <2>1 DEF GiveUp, Exclusion, Alive
<1>4. CASE Report
  BY <1>4 DEF Report, Exclusion, Alive
<1>5. CASE BatchEnter
  <2>1. "batch" \in Users \ {"migrate"} /\ Enter("batch", "wait") /\ Alive /\ Alive'
    BY <1>5 DEF BatchEnter, Users, Shared, Exclusive, Alive
  <2> QED
    BY <2>1, EnterExclusion
<1>6. CASE BatchWrite
  <2>1. "batch" \in Users /\ Leave("batch") /\ Alive'
    BY <1>6 DEF BatchWrite, Users, Shared, Exclusive, Alive
  <2> QED
    BY <2>1, LeaveExclusion
<1>7. CASE CompactEnter
  <2>1. "compact" \in Users \ {"migrate"} /\ Enter("compact", "wait") /\ Alive /\ Alive'
    BY <1>7 DEF CompactEnter, Users, Shared, Exclusive, Alive
  <2> QED
    BY <2>1, EnterExclusion
<1>8. CASE CompactFlush
  <2>1. "compact" \in Users /\ Leave("compact") /\ Alive'
    BY <1>8 DEF CompactFlush, Users, Shared, Exclusive, Alive
  <2> QED
    BY <2>1, LeaveExclusion
<1>9. CASE QueryEnter
  <2>1. "query" \in Users \ {"migrate"} /\ Enter("query", "wait") /\ Alive /\ Alive'
    BY <1>9 DEF QueryEnter, Users, Shared, Exclusive, Alive
  <2> QED
    BY <2>1, EnterExclusion
<1>10. CASE QueryRelease
  <2>1. "query" \in Users /\ Leave("query") /\ Alive'
    BY <1>10 DEF QueryRelease, Users, Shared, Exclusive, Alive
  <2> QED
    BY <2>1, LeaveExclusion
<1>11. CASE PingRead
  <2>1. \A q \in Users : pc'[q] = pc[q]
    BY <1>11 DEF PingRead, Typed, Everyone, Users, Shared, Exclusive
  <2> QED
    BY <1>11, <2>1 DEF PingRead, Exclusion, Alive
<1>12. CASE PingWrite
  <2>1. \A q \in Users : pc'[q] = pc[q]
    BY <1>12 DEF PingWrite, Typed, Everyone, Users, Shared, Exclusive
  <2> QED
    BY <1>12, <2>1 DEF PingWrite, Exclusion, Alive
<1>13. CASE ReclaimEnter
  <2>1. "reclaim" \in Users \ {"migrate"} /\ Enter("reclaim", "wait") /\ Alive /\ Alive'
    BY <1>13 DEF ReclaimEnter, Users, Shared, Exclusive, Alive
  <2> QED
    BY <2>1, EnterExclusion
<1>14. CASE ReclaimDone
  <2>1. "reclaim" \in Users /\ Leave("reclaim") /\ Alive'
    BY <1>14 DEF ReclaimDone, Users, Shared, Exclusive, Alive
  <2> QED
    BY <2>1, LeaveExclusion
<1>15. CASE EditSettings
  <2>1. "reload" \in Users \ {"migrate"} /\ Enter("reload", "wait") /\ Alive /\ Alive'
    BY <1>15 DEF EditSettings, Users, Shared, Exclusive, Alive
  <2> QED
    BY <2>1, EnterExclusion
<1>16. CASE ReloadRefused
  <2>1. "reload" \in Users /\ Leave("reload") /\ Alive'
    BY <1>16 DEF ReloadRefused, Users, Shared, Exclusive, Alive
  <2> QED
    BY <2>1, LeaveExclusion
<1>17. CASE ReloadSwap
  <2>1. "reload" \in held /\ \A q \in Users \ {"reload"} : pc'[q] = pc[q]
    BY <1>17 DEF ReloadSwap, Typed, Everyone
  <2> QED
    BY <1>17, <2>1 DEF ReloadSwap, Exclusion, Alive
<1>18. CASE ReloadClose
  <2>1. "reload" \in Users /\ Leave("reload") /\ Alive'
    BY <1>18 DEF ReloadClose, Users, Shared, Exclusive, Alive
  <2> QED
    BY <2>1, LeaveExclusion
<1>19. CASE StartMigration
  <2>1. held' = {"migrate"} /\ held = {} /\ Alive' /\ \A q \in Users \ {"migrate"} : pc'[q] = pc[q]
    BY <1>19 DEF StartMigration, Typed, Everyone, Alive
  <2> QED
    BY <2>1 DEF Exclusion
<1>20. CASE MigrateBatch
  BY <1>20 DEF MigrateBatch, Exclusion, Alive
<1>21. CASE MigrateEnd
  <2>1. "migrate" \in Users /\ Leave("migrate") /\ Alive'
    BY <1>21 DEF MigrateEnd, Users, Shared, Exclusive, Alive
  <2> QED
    BY <2>1, LeaveExclusion
<1>22. CASE MigrateCleared
  BY <1>22 DEF MigrateCleared, Exclusion, Alive
<1>23. CASE CancelMigration
  BY <1>23 DEF CancelMigration, Exclusion, Alive
<1>24. CASE BeginShutdown
  BY <1>24 DEF BeginShutdown, Exclusion, Alive
<1>25. CASE StopMigration
  BY <1>25 DEF StopMigration, Exclusion, Alive
<1>26. CASE StopBatcher
  BY <1>26 DEF StopBatcher, Exclusion, Alive
<1>27. CASE CloseEnter
  <2>1. "close" \in Users \ {"migrate"} /\ Enter("close", "wait") /\ Alive /\ Alive'
    BY <1>27 DEF CloseEnter, Users, Shared, Exclusive, Alive
  <2> QED
    BY <2>1, EnterExclusion
<1>28. CASE CloseStore
  <2>1. "close" \in Users /\ Leave("close") /\ Alive'
    BY <1>28 DEF CloseStore, Users, Shared, Exclusive, Alive
  <2> QED
    BY <2>1, LeaveExclusion
<1>29. CASE CleanupTimesOut
  <2>1. \A q \in Users : pc'[q] = "use" => pc[q] = "use"
    BY <1>29 DEF CleanupTimesOut, Typed, Everyone
  <2> QED
    BY <1>29, <2>1 DEF CleanupTimesOut, Exclusion, Alive
<1>30. CASE Exit
  <2>1. held' = {} /\ queue' = <<>> /\ \A q \in Users : pc'[q] # "use"
    BY <1>30 DEF Exit, Typed, Everyone
  <2> QED
    BY <2>1 DEF Exclusion
<1>31. CASE Boot
  <2>1. held' = {} /\ queue' = <<>> /\ pc' = pc /\ held = {}
    BY <1>31 DEF Boot, Exclusion, Alive
  <2> QED
    BY <2>1 DEF Exclusion
<1>32. CASE UNCHANGED vars
  BY <1>32 DEF Exclusion, Alive
<1> QED
  BY <1>1, <1>2, <1>3, <1>4, <1>5, <1>6, <1>7, <1>8, <1>9, <1>10, <1>11, <1>12, <1>13, <1>14,
     <1>15, <1>16, <1>17, <1>18, <1>19, <1>20, <1>21, <1>22, <1>23, <1>24, <1>25, <1>26, <1>27,
     <1>28, <1>29, <1>30, <1>31, <1>32 DEF Next

\* When nobody begins to work and the instances stay, whoever works keeps its
\* store.
LEMMA OthersUse ==
  ASSUME Typed, ActiveIsOpen, GateKeepsStore, UNCHANGED instances,
         \A q \in Everyone : pc'[q] = "use" => pc[q] = "use" /\ uses'[q] = uses[q]
  PROVE  ActiveIsOpen' /\ GateKeepsStore'
  BY DEF ActiveIsOpen, GateKeepsStore, instances, Everyone, Users, Shared, Exclusive

\* The active instance changes only while nobody else works: a reload and the
\* shutdown hold the gate alone, a restart finds it empty.
LEMMA GateStep ==
  ASSUME Typed, Exclusion, ActiveIsOpen, GateKeepsStore, [Next]_vars
  PROVE  ActiveIsOpen' /\ GateKeepsStore'
<1> USE DEF Typed, vars, gate, life, instances
<1>1. CASE Grant
  BY <1>1 DEF Grant, ActiveIsOpen, GateKeepsStore
<1>2. ASSUME NEW p \in Shared \cup {"reclaim"}, Read(p)
      PROVE  ActiveIsOpen' /\ GateKeepsStore'
  <2>1. \A q \in Everyone \ {p} : pc'[q] = pc[q] /\ uses'[q] = uses[q]
    BY <1>2 DEF Read
  <2>2. uses'[p] = store /\ p \in Everyone /\ p # "reload"
    BY <1>2 DEF Read, Everyone, Users, Shared, Exclusive
  <2> QED
    BY <1>2, <2>1, <2>2 DEF Read, ActiveIsOpen, GateKeepsStore, Everyone, Users, Exclusive
<1>3. ASSUME NEW p \in {"reload", "query"}, GiveUp(p)
      PROVE  ActiveIsOpen' /\ GateKeepsStore'
  <2>1. \A q \in Everyone : pc'[q] = "use" => pc[q] = "use"
    BY <1>3 DEF GiveUp
  <2>2. UNCHANGED <<uses, instances>>
    BY <1>3 DEF GiveUp
  <2> QED
    BY <2>1, <2>2, OthersUse
<1>4. CASE Report
  BY <1>4 DEF Report, ActiveIsOpen, GateKeepsStore
<1>5. CASE BatchEnter
  <2>1. "batch" \in Users \ {"migrate"} /\ Enter("batch", "wait") /\ UNCHANGED <<uses, instances>>
    BY <1>5 DEF BatchEnter, Users, Shared, Exclusive
  <2> QED
    BY <2>1, EnterEffect, OthersUse
<1>6. CASE BatchWrite
  <2>1. "batch" \in Users /\ Leave("batch") /\ UNCHANGED instances
    BY <1>6 DEF BatchWrite, Users, Shared, Exclusive
  <2> QED
    BY <2>1, LeaveEffect, OthersUse
<1>7. CASE CompactEnter
  <2>1. "compact" \in Users \ {"migrate"} /\ Enter("compact", "wait") /\ UNCHANGED <<uses, instances>>
    BY <1>7 DEF CompactEnter, Users, Shared, Exclusive
  <2> QED
    BY <2>1, EnterEffect, OthersUse
<1>8. CASE CompactFlush
  <2>1. "compact" \in Users /\ Leave("compact") /\ UNCHANGED instances
    BY <1>8 DEF CompactFlush, Users, Shared, Exclusive
  <2> QED
    BY <2>1, LeaveEffect, OthersUse
<1>9. CASE QueryEnter
  <2>1. "query" \in Users \ {"migrate"} /\ Enter("query", "wait") /\ UNCHANGED <<uses, instances>>
    BY <1>9 DEF QueryEnter, Users, Shared, Exclusive
  <2> QED
    BY <2>1, EnterEffect, OthersUse
<1>10. CASE QueryRelease
  <2>1. "query" \in Users /\ Leave("query") /\ UNCHANGED instances
    BY <1>10 DEF QueryRelease, Users, Shared, Exclusive
  <2> QED
    BY <2>1, LeaveEffect, OthersUse
<1>11. CASE PingRead
  <2>1. \A q \in Users : pc'[q] = pc[q] /\ uses'[q] = uses[q]
    BY <1>11 DEF PingRead, Everyone, Users, Shared, Exclusive
  <2>2. UNCHANGED instances
    BY <1>11 DEF PingRead
  <2> QED
    BY <2>1, <2>2 DEF ActiveIsOpen, GateKeepsStore, Users, Exclusive
<1>12. CASE PingWrite
  <2>1. \A q \in Users : pc'[q] = pc[q] /\ uses'[q] = uses[q]
    BY <1>12 DEF PingWrite, Everyone, Users, Shared, Exclusive
  <2>2. UNCHANGED instances
    BY <1>12 DEF PingWrite
  <2> QED
    BY <2>1, <2>2 DEF ActiveIsOpen, GateKeepsStore, Users, Exclusive
<1>13. CASE ReclaimEnter
  <2>1. "reclaim" \in Users \ {"migrate"} /\ Enter("reclaim", "wait") /\ UNCHANGED <<uses, instances>>
    BY <1>13 DEF ReclaimEnter, Users, Shared, Exclusive
  <2> QED
    BY <2>1, EnterEffect, OthersUse
<1>14. CASE ReclaimDone
  <2>1. "reclaim" \in Users /\ Leave("reclaim") /\ UNCHANGED instances
    BY <1>14 DEF ReclaimDone, Users, Shared, Exclusive
  <2> QED
    BY <2>1, LeaveEffect, OthersUse
<1>15. CASE EditSettings
  <2>1. "reload" \in Users \ {"migrate"} /\ Enter("reload", "wait") /\ UNCHANGED <<uses, instances>>
    BY <1>15 DEF EditSettings, Users, Shared, Exclusive
  <2> QED
    BY <2>1, EnterEffect, OthersUse
<1>16. CASE ReloadRefused
  <2>1. "reload" \in Users /\ Leave("reload") /\ UNCHANGED instances
    BY <1>16 DEF ReloadRefused, Users, Shared, Exclusive
  <2> QED
    BY <2>1, LeaveEffect, OthersUse
<1>17. CASE ReloadSwap
  <2>1. held = {"reload"}
    BY <1>17 DEF ReloadSwap, Exclusion, Exclusive
  <2>2. \A q \in Users \ {"reload"} : pc'[q] # "use"
    BY <1>17, <2>1 DEF ReloadSwap, Exclusion, Everyone
  <2>3. uses'["reload"] = store /\ store' = Len(opened) + 1 /\ isOpen' = isOpen \cup {Len(opened) + 1}
    BY <1>17 DEF ReloadSwap, Everyone, Users, Exclusive
  <2> QED
    BY <2>2, <2>3 DEF ActiveIsOpen, GateKeepsStore, Users, Exclusive, Shared
<1>18. CASE ReloadClose
  <2>0. "reload" \in Users /\ "reload" \in Everyone /\ pc["reload"] = "use"
    BY <1>18 DEF ReloadClose, Users, Exclusive, Everyone
  <2>1. held = {"reload"}
    BY <2>0 DEF Exclusion, Exclusive
  <2>2. pc'["reload"] # "use" /\ \A q \in Users \ {"reload"} : pc'[q] # "use"
    BY <1>18, <2>0, <2>1, LeaveEffect DEF ReloadClose, Exclusion, Everyone
  <2>3. store' = store /\ isOpen' = isOpen \ {uses["reload"]}
    BY <1>18 DEF ReloadClose
  <2> QED
    BY <2>0, <2>2, <2>3 DEF ActiveIsOpen, GateKeepsStore, Users, Exclusive, Shared
<1>19. CASE StartMigration
  <2>1. held = {} /\ \A q \in Users \ {"migrate"} : pc'[q] = pc[q] /\ uses'[q] = uses[q]
    BY <1>19 DEF StartMigration, Everyone
  <2>2. \A q \in Users \ {"migrate"} : pc'[q] # "use"
    BY <2>1 DEF Exclusion
  <2>3. uses'["migrate"] = store /\ store # 0 /\ UNCHANGED <<store, isOpen>>
    BY <1>19 DEF StartMigration, instances, Everyone, Users, Exclusive
  <2> QED
    BY <2>2, <2>3 DEF ActiveIsOpen, GateKeepsStore, Users, Exclusive, Shared
<1>20. CASE MigrateBatch
  BY <1>20 DEF MigrateBatch, ActiveIsOpen, GateKeepsStore
<1>21. CASE MigrateEnd
  <2>1. "migrate" \in Users /\ Leave("migrate") /\ UNCHANGED instances
    BY <1>21 DEF MigrateEnd, Users, Shared, Exclusive
  <2> QED
    BY <2>1, LeaveEffect, OthersUse
<1>22. CASE MigrateCleared
  BY <1>22 DEF MigrateCleared, ActiveIsOpen, GateKeepsStore
<1>23. CASE CancelMigration
  BY <1>23 DEF CancelMigration, ActiveIsOpen, GateKeepsStore
<1>24. CASE BeginShutdown
  BY <1>24 DEF BeginShutdown, ActiveIsOpen, GateKeepsStore
<1>25. CASE StopMigration
  BY <1>25 DEF StopMigration, ActiveIsOpen, GateKeepsStore
<1>26. CASE StopBatcher
  BY <1>26 DEF StopBatcher, ActiveIsOpen, GateKeepsStore
<1>27. CASE CloseEnter
  <2>1. "close" \in Users \ {"migrate"} /\ Enter("close", "wait") /\ UNCHANGED <<uses, instances>>
    BY <1>27 DEF CloseEnter, Users, Shared, Exclusive
  <2> QED
    BY <2>1, EnterEffect, OthersUse
<1>28. CASE CloseStore
  <2>0. "close" \in Users /\ "close" \in Everyone /\ "close" \in held
    BY <1>28 DEF CloseStore, Users, Exclusive, Everyone
  <2>1. held = {"close"}
    BY <2>0 DEF Exclusion, Exclusive
  <2>2. pc'["close"] # "use" /\ \A q \in Users \ {"close"} : pc'[q] # "use"
    BY <1>28, <2>0, <2>1, LeaveEffect DEF CloseStore, Exclusion, Everyone
  <2>3. store' = 0
    BY <1>28 DEF CloseStore
  <2> QED
    BY <2>2, <2>3 DEF ActiveIsOpen, GateKeepsStore, Users, Exclusive, Shared
<1>29. CASE CleanupTimesOut
  <2>1. \A q \in Everyone : pc'[q] = "use" => pc[q] = "use"
    BY <1>29 DEF CleanupTimesOut
  <2>2. UNCHANGED <<uses, instances>>
    BY <1>29 DEF CleanupTimesOut
  <2> QED
    BY <2>1, <2>2, OthersUse
<1>30. CASE Exit
  <2>1. store' = 0 /\ \A q \in Users : pc'[q] # "use"
    BY <1>30 DEF Exit, Everyone
  <2> QED
    BY <2>1 DEF ActiveIsOpen, GateKeepsStore, Users, Exclusive
<1>31. CASE Boot
  <2>1. pc' = pc /\ held = {} /\ (UNCHANGED <<store, isOpen>> \/ store' \in isOpen')
    BY <1>31 DEF Boot, Exclusion, Alive
  <2>2. \A q \in Users : pc'[q] # "use"
    BY <2>1 DEF Exclusion
  <2> QED
    BY <2>1, <2>2 DEF ActiveIsOpen, GateKeepsStore, Users, Exclusive
<1>32. CASE UNCHANGED vars
  BY <1>32 DEF ActiveIsOpen, GateKeepsStore
<1> QED
  BY <1>1, <1>2, <1>3, <1>4, <1>5, <1>6, <1>7, <1>8, <1>9, <1>10, <1>11, <1>12, <1>13, <1>14,
     <1>15, <1>16, <1>17, <1>18, <1>19, <1>20, <1>21, <1>22, <1>23, <1>24, <1>25, <1>26, <1>27,
     <1>28, <1>29, <1>30, <1>31, <1>32 DEF Next

\* A migration cannot start once the migration cleanup has ended, until that
\* is over or its time is.
LEMMA EndsStep ==
  ASSUME Typed, MigrationEnds, ShutdownInOrder, [Next]_vars
  PROVE  MigrationEnds' /\ ShutdownInOrder'
<1> USE DEF vars, gate, life, mig
<1>1. CASE Grant
  <2> PICK p \in Range(queue) : held' = held \cup {p} /\ queue' = RemoveFirst(queue, p)
    BY <1>1 DEF Grant
  <2>1. queue' = RemoveFirst(queue, p) /\ queue \in Seq(Users)
    BY DEF Typed
  <2>2. "migrate" \notin Range(queue') /\ ("migrate" \in held' => "migrate" \in held)
    BY <2>1, RemoveFirstLeaves DEF MigrationEnds
  <2> QED
    BY <1>1, <2>2 DEF Grant, MigrationEnds, ShutdownInOrder
<1>2. ASSUME NEW p \in Shared \cup {"reclaim"}, Read(p)
      PROVE  MigrationEnds' /\ ShutdownInOrder'
  <2>1. pc'["migrate"] = pc["migrate"] /\ uses'["migrate"] = uses["migrate"]
    BY <1>2 DEF Read, Typed, Everyone, Users, Shared, Exclusive
  <2> QED
    BY <1>2, <2>1 DEF Read, MigrationEnds, ShutdownInOrder
<1>3. ASSUME NEW p \in {"reload", "query"}, GiveUp(p)
      PROVE  MigrationEnds' /\ ShutdownInOrder'
  <2>1. queue' = RemoveFirst(queue, p) /\ queue \in Seq(Users)
    BY <1>3 DEF GiveUp, Typed
  <2>2. "migrate" \notin Range(queue')
    BY <2>1, RemoveFirstLeaves DEF MigrationEnds
  <2>3. pc'["migrate"] = pc["migrate"]
    BY <1>3 DEF GiveUp, Typed, Everyone, Users, Shared, Exclusive
  <2> QED
    BY <1>3, <2>2, <2>3 DEF GiveUp, MigrationEnds, ShutdownInOrder
<1>4. CASE Report
  BY <1>4 DEF Report, MigrationEnds, ShutdownInOrder
<1>5. CASE BatchEnter
  <2>1. "batch" \in Users \ {"migrate"} /\ Enter("batch", "wait")
    BY <1>5 DEF BatchEnter, Users, Shared, Exclusive
  <2>2. "migrate" \notin Range(queue') /\ ("migrate" \in held' => "migrate" \in held) /\ pc'["migrate"] = pc["migrate"]
    BY <2>1, EnterEffect DEF MigrationEnds, Everyone, Users, Exclusive
  <2> QED
    BY <1>5, <2>2 DEF BatchEnter, MigrationEnds, ShutdownInOrder
<1>6. CASE BatchWrite
  <2>1. "batch" \in Users \ {"migrate"} /\ Leave("batch")
    BY <1>6 DEF BatchWrite, Users, Shared, Exclusive
  <2>2. queue' = queue /\ ("migrate" \in held' => "migrate" \in held) /\ pc'["migrate"] = pc["migrate"]
        /\ uses'["migrate"] = uses["migrate"]
    BY <2>1, LeaveEffect DEF Everyone, Users, Exclusive
  <2> QED
    BY <1>6, <2>2 DEF BatchWrite, MigrationEnds, ShutdownInOrder
<1>7. CASE CompactEnter
  <2>1. "compact" \in Users \ {"migrate"} /\ Enter("compact", "wait")
    BY <1>7 DEF CompactEnter, Users, Shared, Exclusive
  <2>2. "migrate" \notin Range(queue') /\ ("migrate" \in held' => "migrate" \in held) /\ pc'["migrate"] = pc["migrate"]
    BY <2>1, EnterEffect DEF MigrationEnds, Everyone, Users, Exclusive
  <2> QED
    BY <1>7, <2>2 DEF CompactEnter, MigrationEnds, ShutdownInOrder
<1>8. CASE CompactFlush
  <2>1. "compact" \in Users \ {"migrate"} /\ Leave("compact")
    BY <1>8 DEF CompactFlush, Users, Shared, Exclusive
  <2>2. queue' = queue /\ ("migrate" \in held' => "migrate" \in held) /\ pc'["migrate"] = pc["migrate"]
        /\ uses'["migrate"] = uses["migrate"]
    BY <2>1, LeaveEffect DEF Everyone, Users, Exclusive
  <2> QED
    BY <1>8, <2>2 DEF CompactFlush, MigrationEnds, ShutdownInOrder
<1>9. CASE QueryEnter
  <2>1. "query" \in Users \ {"migrate"} /\ Enter("query", "wait")
    BY <1>9 DEF QueryEnter, Users, Shared, Exclusive
  <2>2. "migrate" \notin Range(queue') /\ ("migrate" \in held' => "migrate" \in held) /\ pc'["migrate"] = pc["migrate"]
    BY <2>1, EnterEffect DEF MigrationEnds, Everyone, Users, Exclusive
  <2> QED
    BY <1>9, <2>2 DEF QueryEnter, MigrationEnds, ShutdownInOrder
<1>10. CASE QueryRelease
  <2>1. "query" \in Users \ {"migrate"} /\ Leave("query")
    BY <1>10 DEF QueryRelease, Users, Shared, Exclusive
  <2>2. queue' = queue /\ ("migrate" \in held' => "migrate" \in held) /\ pc'["migrate"] = pc["migrate"]
        /\ uses'["migrate"] = uses["migrate"]
    BY <2>1, LeaveEffect DEF Everyone, Users, Exclusive
  <2> QED
    BY <1>10, <2>2 DEF QueryRelease, MigrationEnds, ShutdownInOrder
<1>11. CASE PingRead
  <2>1. pc'["migrate"] = pc["migrate"] /\ uses'["migrate"] = uses["migrate"]
    BY <1>11 DEF PingRead, Typed, Everyone, Users, Shared, Exclusive
  <2> QED
    BY <1>11, <2>1 DEF PingRead, MigrationEnds, ShutdownInOrder
<1>12. CASE PingWrite
  <2>1. pc'["migrate"] = pc["migrate"] /\ uses'["migrate"] = uses["migrate"]
    BY <1>12 DEF PingWrite, Typed, Everyone, Users, Shared, Exclusive
  <2> QED
    BY <1>12, <2>1 DEF PingWrite, MigrationEnds, ShutdownInOrder
<1>13. CASE ReclaimEnter
  <2>1. "reclaim" \in Users \ {"migrate"} /\ Enter("reclaim", "wait")
    BY <1>13 DEF ReclaimEnter, Users, Shared, Exclusive
  <2>2. "migrate" \notin Range(queue') /\ ("migrate" \in held' => "migrate" \in held) /\ pc'["migrate"] = pc["migrate"]
    BY <2>1, EnterEffect DEF MigrationEnds, Everyone, Users, Exclusive
  <2> QED
    BY <1>13, <2>2 DEF ReclaimEnter, MigrationEnds, ShutdownInOrder
<1>14. CASE ReclaimDone
  <2>1. "reclaim" \in Users \ {"migrate"} /\ Leave("reclaim")
    BY <1>14 DEF ReclaimDone, Users, Shared, Exclusive
  <2>2. queue' = queue /\ ("migrate" \in held' => "migrate" \in held) /\ pc'["migrate"] = pc["migrate"]
        /\ uses'["migrate"] = uses["migrate"]
    BY <2>1, LeaveEffect DEF Everyone, Users, Exclusive
  <2> QED
    BY <1>14, <2>2 DEF ReclaimDone, MigrationEnds, ShutdownInOrder
<1>15. CASE EditSettings
  <2>1. "reload" \in Users \ {"migrate"} /\ Enter("reload", "wait")
    BY <1>15 DEF EditSettings, Users, Shared, Exclusive
  <2>2. "migrate" \notin Range(queue') /\ ("migrate" \in held' => "migrate" \in held) /\ pc'["migrate"] = pc["migrate"]
    BY <2>1, EnterEffect DEF MigrationEnds, Everyone, Users, Exclusive
  <2> QED
    BY <1>15, <2>2 DEF EditSettings, MigrationEnds, ShutdownInOrder
<1>16. CASE ReloadRefused
  <2>1. "reload" \in Users \ {"migrate"} /\ Leave("reload")
    BY <1>16 DEF ReloadRefused, Users, Shared, Exclusive
  <2>2. queue' = queue /\ ("migrate" \in held' => "migrate" \in held) /\ pc'["migrate"] = pc["migrate"]
        /\ uses'["migrate"] = uses["migrate"]
    BY <2>1, LeaveEffect DEF Everyone, Users, Exclusive
  <2> QED
    BY <1>16, <2>2 DEF ReloadRefused, MigrationEnds, ShutdownInOrder
<1>17. CASE ReloadSwap
  <2>1. pc'["migrate"] = pc["migrate"] /\ uses'["migrate"] = uses["migrate"]
    BY <1>17 DEF ReloadSwap, Typed, Everyone, Users, Shared, Exclusive
  <2> QED
    BY <1>17, <2>1 DEF ReloadSwap, MigrationEnds, ShutdownInOrder
<1>18. CASE ReloadClose
  <2>1. "reload" \in Users \ {"migrate"} /\ Leave("reload")
    BY <1>18 DEF ReloadClose, Users, Shared, Exclusive
  <2>2. queue' = queue /\ ("migrate" \in held' => "migrate" \in held) /\ pc'["migrate"] = pc["migrate"]
        /\ uses'["migrate"] = uses["migrate"]
    BY <2>1, LeaveEffect DEF Everyone, Users, Exclusive
  <2> QED
    BY <1>18, <2>2 DEF ReloadClose, MigrationEnds, ShutdownInOrder
<1>19. CASE StartMigration
  <2>1. /\ pc'["migrate"] = "use" /\ uses'["migrate"] # 0 /\ migration' = "running" /\ migration = "none"
        /\ ~closing /\ queue' = queue /\ UNCHANGED life
    BY <1>19 DEF StartMigration, Registers, Typed, Everyone, Users, Shared, Exclusive
  <2> QED
    BY <2>1 DEF MigrationEnds, ShutdownInOrder
<1>20. CASE MigrateBatch
  BY <1>20 DEF MigrateBatch, MigrationEnds, ShutdownInOrder
<1>21. CASE MigrateEnd
  <2>1. "migrate" \in Users /\ Leave("migrate")
    BY <1>21 DEF MigrateEnd, Users, Exclusive
  <2>2. queue' = queue /\ "migrate" \notin held' /\ migration = "running" /\ migration' = "finishing"
        /\ UNCHANGED <<life, closing>>
    BY <1>21, <2>1, LeaveEffect DEF MigrateEnd
  <2> QED
    BY <2>2 DEF MigrationEnds, ShutdownInOrder
<1>22. CASE MigrateCleared
  BY <1>22 DEF MigrateCleared, MigrationEnds, ShutdownInOrder
<1>23. CASE CancelMigration
  BY <1>23 DEF CancelMigration, MigrationEnds, ShutdownInOrder
<1>24. CASE BeginShutdown
  BY <1>24 DEF BeginShutdown, Cleanups, MigrationEnds, ShutdownInOrder
<1>25. CASE StopMigration
  BY <1>25, CleanupOrder DEF StopMigration, MigrationEnds, ShutdownInOrder
<1>26. CASE StopBatcher
  BY <1>26, CleanupOrder DEF StopBatcher, MigrationEnds, ShutdownInOrder
<1>27. CASE CloseEnter
  <2>1. "close" \in Users \ {"migrate"} /\ Enter("close", "wait")
    BY <1>27 DEF CloseEnter, Users, Shared, Exclusive
  <2>2. "migrate" \notin Range(queue') /\ ("migrate" \in held' => "migrate" \in held) /\ pc'["migrate"] = pc["migrate"]
    BY <2>1, EnterEffect DEF MigrationEnds, Everyone, Users, Exclusive
  <2> QED
    BY <1>27, <2>2 DEF CloseEnter, MigrationEnds, ShutdownInOrder
<1>28. CASE CloseStore
  <2>1. "close" \in Users \ {"migrate"} /\ Leave("close")
    BY <1>28 DEF CloseStore, Users, Shared, Exclusive
  <2>2. queue' = queue /\ ("migrate" \in held' => "migrate" \in held) /\ pc'["migrate"] = pc["migrate"]
        /\ uses'["migrate"] = uses["migrate"]
    BY <2>1, LeaveEffect DEF Everyone, Users, Exclusive
  <2> QED
    BY <1>28, <2>2, CleanupOrder DEF CloseStore, MigrationEnds, ShutdownInOrder
<1>29. CASE CleanupTimesOut
  <2>1. "migrate" \notin Range(queue')
    BY <1>29, RemoveFirstLeaves DEF CleanupTimesOut, MigrationEnds, Typed
  <2>2. "migrate" \notin Waited
    BY DEF Waited, MigrationEnds
  <2>3. "migrate" \notin blockers' /\ expired' /\ proc' = "stopping"
    BY <1>29, <2>2 DEF CleanupTimesOut, ShutdownInOrder
  <2>4. pc'["migrate"] = pc["migrate"] /\ UNCHANGED <<held, uses, mig>>
    BY <1>29 DEF CleanupTimesOut, Typed, Everyone, Users, Shared, Exclusive
  <2> QED
    BY <2>1, <2>3, <2>4 DEF MigrationEnds, ShutdownInOrder, mig
<1>30. CASE Exit
  <2>1. /\ queue' = <<>> /\ held' = {} /\ migration' = "none" /\ stage' = "none" /\ blockers' = blockers
    BY <1>30 DEF Exit
  <2> QED
    BY <2>1 DEF MigrationEnds, ShutdownInOrder, Range
<1>31. CASE Boot
  <2>1. /\ UNCHANGED <<gate, pc, uses, closing, migration, stage>> /\ proc # "stopping" /\ blockers' = {}
    BY <1>31 DEF Boot
  <2> QED
    BY <2>1 DEF MigrationEnds, ShutdownInOrder
<1>32. CASE UNCHANGED vars
  BY <1>32 DEF MigrationEnds, ShutdownInOrder
<1> QED
  BY <1>1, <1>2, <1>3, <1>4, <1>5, <1>6, <1>7, <1>8, <1>9, <1>10, <1>11, <1>12, <1>13, <1>14,
     <1>15, <1>16, <1>17, <1>18, <1>19, <1>20, <1>21, <1>22, <1>23, <1>24, <1>25, <1>26, <1>27,
     <1>28, <1>29, <1>30, <1>31, <1>32 DEF Next

\* The steps that move samples.
LEMMA DataMoves ==
  ASSUME Typed, MigrationEnds, [Next]_vars
  PROVE  \/ Report \/ BatchWrite \/ PingWrite \/ MigrateBatch \/ Exit
         \/ \E n \in 1..Len(opened) : Flushed(n) /\ UNCHANGED reports
         \/ UNCHANGED <<data, reports>>
<1> USE DEF vars, data, reports
<1>1. ASSUME CompactFlush
      PROVE  \/ \E n \in 1..Len(opened) : Flushed(n) /\ UNCHANGED reports
             \/ UNCHANGED <<data, reports>>
  BY <1>1 DEF CompactFlush, Typed
<1>2. ASSUME ReloadClose
      PROVE  \/ \E n \in 1..Len(opened) : Flushed(n) /\ UNCHANGED reports
             \/ UNCHANGED <<data, reports>>
  <2>1. CASE uses["reload"] = 0
    BY <1>2, <2>1 DEF ReloadClose
  <2>2. CASE uses["reload"] # 0
    <3>1. uses["reload"] \in 0..Len(opened) /\ Len(opened) \in Nat
      BY DEF Typed, Everyone, Users, Exclusive
    <3>2. uses["reload"] \in 1..Len(opened) /\ Flushed(uses["reload"]) /\ UNCHANGED reports
      BY <1>2, <2>2, <3>1 DEF ReloadClose
    <3> QED
      BY <3>2
  <2> QED
    BY <2>1, <2>2
<1>3. ASSUME CloseStore
      PROVE  \/ \E n \in 1..Len(opened) : Flushed(n) /\ UNCHANGED reports
             \/ UNCHANGED <<data, reports>>
  <2>1. CASE store = 0
    BY <1>3, <2>1 DEF CloseStore
  <2>2. CASE store # 0
    <3>1. store \in 0..Len(opened) /\ Len(opened) \in Nat
      BY DEF Typed
    <3>2. store \in 1..Len(opened) /\ Flushed(store) /\ UNCHANGED reports
      BY <1>3, <2>2, <3>1 DEF CloseStore
    <3> QED
      BY <3>2
  <2> QED
    BY <2>1, <2>2
<1>4. \/ Grant \/ (\E p \in Shared \cup {"reclaim"} : Read(p)) \/ (\E p \in {"reload", "query"} : GiveUp(p))
      \/ BatchEnter \/ CompactEnter \/ QueryEnter \/ QueryRelease \/ PingRead \/ ReclaimEnter \/ ReclaimDone
      => UNCHANGED <<data, reports>>
  BY DEF Grant, Read, GiveUp, BatchEnter, CompactEnter, QueryEnter, QueryRelease, PingRead, ReclaimEnter,
     ReclaimDone
<1>5. \/ EditSettings \/ ReloadRefused \/ ReloadSwap \/ StartMigration \/ MigrateEnd \/ MigrateCleared
      \/ CancelMigration \/ BeginShutdown \/ StopMigration \/ StopBatcher \/ CloseEnter \/ CleanupTimesOut \/ Boot
      => UNCHANGED <<data, reports>>
  BY DEF EditSettings, ReloadRefused, ReloadSwap, StartMigration, MigrateEnd, MigrateCleared, CancelMigration,
     BeginShutdown, StopMigration, StopBatcher, CloseEnter, CleanupTimesOut, Boot
<1> QED
  BY <1>1, <1>2, <1>3, <1>4, <1>5 DEF Next

\* A sample goes from the reports or a ping to one instance, from there to one
\* row, and a migration copies rows as they are.
LEMMA OnceStep ==
  ASSUME Typed, MigrationEnds, WrittenOnce, [Next]_vars
  PROVE  WrittenOnce'
<1> USE BoundsAssumption
<1>0. /\ produced \in Nat /\ pending \subseteq 1..produced /\ MaxSamples \in Nat
      /\ \A n \in 1..MaxOpens, i \in Samples : hot[n][i] \in Nat
      /\ \A t \in Targets, i \in Samples : row[t][i] \in Nat
      /\ \A i \in Samples : i \in Nat
  <2>1. \A n \in 1..MaxOpens, i \in Samples : hot[n][i] \in Nat
    BY DEF Typed
  <2>2. \A t \in Targets, i \in Samples : row[t][i] \in Nat
    BY DEF Typed
  <2>3. produced \in Nat /\ pending \subseteq 1..produced
    BY DEF Typed
  <2> QED
    BY <2>1, <2>2, <2>3 DEF Samples
<1>1. CASE Report
  BY <1>0, <1>1 DEF Report, data, WrittenOnce
<1>2. CASE BatchWrite
  <2> DEFINE n == uses["batch"]
             h == [i \in Samples |-> hot[n][i] + (IF i \in pending THEN 1 ELSE 0)]
  <2>1. CASE n \in isOpen /\ hot' = [hot EXCEPT ![n] = h] /\ pending' = {}
    <3>1. n \in 1..MaxOpens
      BY <2>1, OpenInstances
    <3>2. /\ \A i \in Samples : hot'[n][i] = hot[n][i] + (IF i \in pending THEN 1 ELSE 0)
          /\ \A m \in 1..MaxOpens \ {n} : hot'[m] = hot[m]
      BY <2>1, <3>1 DEF Typed
    <3>3. row' = row /\ produced' = produced /\ \A i \in pending : ~(i > produced)
      BY <1>0, <1>2 DEF BatchWrite
    <3> HIDE DEF n
    <3> QED
      BY <1>0, <2>1, <3>1, <3>2, <3>3 DEF WrittenOnce
  <2>2. CASE UNCHANGED <<hot, pending>>
    BY <1>2, <2>2 DEF BatchWrite, WrittenOnce
  <2> QED
    BY <1>2, <2>1, <2>2 DEF BatchWrite
<1>3. CASE PingWrite
  <2> DEFINE n == uses["ping"]
  <2>1. row' = row /\ pending' = pending
    BY <1>3 DEF PingWrite
  <2>2. CASE n \in isOpen /\ produced < MaxSamples
    <3>1. n \in 1..MaxOpens /\ hot[n] \in [Samples -> Nat]
      BY <2>2, OpenInstances
    <3>2. hot' = [hot EXCEPT ![n] = Plus(hot[n], One(produced + 1))] /\ produced' = produced + 1
      BY <1>3, <2>2 DEF PingWrite
    <3>3. hot'[n] = Plus(hot[n], One(produced + 1)) /\ \A m \in 1..MaxOpens \ {n} : hot'[m] = hot[m]
      BY <3>1, <3>2 DEF Typed
    <3> HIDE DEF n
    <3>4. \A i \in Samples : hot'[n][i] = hot[n][i] + (IF i = produced + 1 THEN 1 ELSE 0)
      BY <3>1, <3>3 DEF Plus, One
    <3>5. SUFFICES ASSUME NEW i \in Samples
                   PROVE  /\ i > produced' \/ i \in pending'
                               => (\A m \in 1..MaxOpens : hot'[m][i] = 0) /\ (\A t \in Targets : row'[t][i] = 0)
                          /\ \A t \in Targets : row'[t][i] <= 1
                          /\ \A m \in 1..MaxOpens :
                               /\ hot'[m][i] <= 1
                               /\ hot'[m][i] # 0 => /\ \A k \in 1..MaxOpens \ {m} : hot'[k][i] = 0
                                                    /\ \A t \in Targets : row'[t][i] = 0
      BY DEF WrittenOnce
    <3>6. CASE i = produced + 1
      <4>1. i > produced /\ ~(i > produced') /\ i \notin pending
        BY <1>0, <3>2, <3>6
      <4>2. (\A m \in 1..MaxOpens : hot[m][i] = 0) /\ (\A t \in Targets : row[t][i] = 0)
        BY <4>1 DEF WrittenOnce
      <4>3. hot'[n][i] = 1 /\ \A m \in 1..MaxOpens \ {n} : hot'[m][i] = 0
        BY <3>1, <3>3, <3>4, <3>6, <4>2
      <4> QED
        BY <2>1, <3>1, <4>1, <4>2, <4>3
    <3>7. CASE i # produced + 1
      <4>1. \A m \in 1..MaxOpens : hot'[m][i] = hot[m][i]
        BY <1>0, <3>1, <3>3, <3>4, <3>7
      <4>2. i > produced' => i > produced
        BY <1>0, <3>2
      <4> QED
        BY <2>1, <4>1, <4>2 DEF WrittenOnce
    <3> QED
      BY <3>6, <3>7
  <2>3. CASE ~(n \in isOpen /\ produced < MaxSamples)
    <3>1. hot' = hot /\ \A i \in Samples : i > produced' => i > produced
      BY <1>0, <1>3, <2>3 DEF PingWrite
    <3> QED
      BY <2>1, <3>1 DEF WrittenOnce
  <2> QED
    BY <2>2, <2>3
<1>4. CASE MigrateBatch
  <2> DEFINE t == opened[uses["migrate"]]
  <2>1. /\ row' = [row EXCEPT ![t] = Imported(row[t], row[source])] /\ source \in Targets
        /\ UNCHANGED <<hot, reports>>
    BY <1>4 DEF MigrateBatch, Typed
  <2>2. \A d \in Targets : row'[d] = row[d] \/ row'[d] = row[source]
    BY <2>1 DEF Typed, Imported
  <2> HIDE DEF t
  <2> QED
    BY <2>1, <2>2 DEF WrittenOnce, reports
<1>5. CASE Exit
  <2>1. /\ \A n \in 1..MaxOpens, i \in Samples : hot'[n][i] = 0
        /\ pending' = {} /\ UNCHANGED <<row, produced>>
    BY <1>5 DEF Exit, Typed, NoRow
  <2> QED
    BY <2>1 DEF WrittenOnce
<1>6. ASSUME NEW n \in 1..Len(opened), Flushed(n), UNCHANGED reports
      PROVE  WrittenOnce'
  <2>1. n \in 1..MaxOpens /\ opened[n] \in Targets
    BY DEF Typed
  <2>2. /\ \A i \in Samples : /\ hot'[n][i] = 0
                              /\ row'[opened[n]][i] = row[opened[n]][i] + hot[n][i]
        /\ \A m \in 1..MaxOpens \ {n} : hot'[m] = hot[m]
        /\ \A t \in Targets \ {opened[n]} : row'[t] = row[t]
    BY <1>6, FlushedType
  <2> DEFINE d == opened[n]
  <2> HIDE DEF d
  <2>3. /\ d \in Targets /\ UNCHANGED <<produced, pending>>
        /\ \A i \in Samples : hot'[n][i] = 0 /\ row'[d][i] = row[d][i] + hot[n][i]
        /\ \A t \in Targets \ {d} : row'[t] = row[t]
    BY <1>6, <2>1, <2>2 DEF d, reports
  <2> SUFFICES ASSUME NEW i \in Samples
               PROVE  /\ i > produced' \/ i \in pending'
                           => (\A m \in 1..MaxOpens : hot'[m][i] = 0) /\ (\A t \in Targets : row'[t][i] = 0)
                      /\ \A t \in Targets : row'[t][i] <= 1
                      /\ \A m \in 1..MaxOpens :
                           /\ hot'[m][i] <= 1
                           /\ hot'[m][i] # 0 => /\ \A k \in 1..MaxOpens \ {m} : hot'[k][i] = 0
                                                /\ \A t \in Targets : row'[t][i] = 0
    BY DEF WrittenOnce
  <2>4. /\ hot[n][i] \in Nat /\ hot[n][i] <= 1
        /\ \A t \in Targets : row[t][i] \in Nat /\ row[t][i] <= 1
        /\ hot[n][i] # 0 => (\A t \in Targets : row[t][i] = 0) /\ \A m \in 1..MaxOpens \ {n} : hot[m][i] = 0
        /\ i > produced \/ i \in pending => hot[n][i] = 0 /\ \A t \in Targets : row[t][i] = 0
    BY <1>0, <2>1 DEF WrittenOnce
  <2>5. \A t \in Targets : row'[t][i] = IF t = d THEN row[t][i] + hot[n][i] ELSE row[t][i]
    BY <2>3
  <2>6. \A m \in 1..MaxOpens : hot'[m][i] = IF m = n THEN 0 ELSE hot[m][i]
    BY <2>2
  <2>7. \A t \in Targets : row'[t][i] <= 1
    BY <2>4, <2>5
  <2>8. \A m \in 1..MaxOpens : hot'[m][i] # 0 => hot[n][i] = 0 /\ m # n /\ hot[m][i] # 0
    BY <1>0, <2>1, <2>6 DEF WrittenOnce
  <2>9. ASSUME i > produced' \/ i \in pending'
        PROVE  (\A m \in 1..MaxOpens : hot'[m][i] = 0) /\ (\A t \in Targets : row'[t][i] = 0)
    <3>1. (\A m \in 1..MaxOpens : hot[m][i] = 0) /\ (\A t \in Targets : row[t][i] = 0)
      BY <2>3, <2>9 DEF WrittenOnce
    <3> QED
      BY <2>1, <2>5, <2>6, <3>1
  <2>10. \A m \in 1..MaxOpens : hot'[m][i] <= 1
    BY <2>6 DEF WrittenOnce
  <2>11. ASSUME NEW m \in 1..MaxOpens, hot'[m][i] # 0
         PROVE  /\ \A k \in 1..MaxOpens \ {m} : hot'[k][i] = 0
                /\ \A t \in Targets : row'[t][i] = 0
    <3>1. hot[n][i] = 0 /\ m # n /\ hot[m][i] # 0
      BY <2>8, <2>11
    <3>2. /\ \A k \in 1..MaxOpens \ {m} : hot[k][i] = 0
          /\ \A t \in Targets : row[t][i] = 0
      BY <3>1 DEF WrittenOnce
    <3> QED
      BY <2>5, <2>6, <3>1, <3>2
  <2> QED
    BY <2>7, <2>9, <2>10, <2>11
<1>7. CASE UNCHANGED <<data, reports>>
  BY <1>7 DEF data, reports, WrittenOnce
<1> QED
  BY <1>1, <1>2, <1>3, <1>4, <1>5, <1>6, <1>7, DataMoves

-----------------------------------------------------------------------------
\* The invariant holds throughout.
THEOREM Invariant == Spec => []IInv
<1>1. IInv /\ [Next]_vars => IInv'
  BY TypedStep, ExclusionStep, GateStep, EndsStep, OnceStep DEF IInv
<1> QED
  BY InitInv, <1>1, PTL DEF Spec

\* Through reloads, reclaims, migrations, recovery and shutdown, whoever holds
\* the operation gate works on the active store and finds it open
\* (storeOperationGate, acquireStoreOperation).
THEOREM GateAlways == Spec => []GateKeepsStore
<1>1. IInv => GateKeepsStore
  BY DEF IInv
<1> QED
  BY Invariant, <1>1, PTL

\* Whatever runs out of time at shutdown, no migration keeps the last flush of
\* the reports waiting, and none runs or starts after its cleanup ended in time.
THEOREM OrderedShutdown == Spec => []ShutdownInOrder
<1>1. IInv => ShutdownInOrder
  BY DEF IInv
<1> QED
  BY Invariant, <1>1, PTL

\* Migrations may be cancelled, fail and be started again, and stores may be
\* switched in between: no database counts a sample twice, in its row and the
\* memory of its active store together.
THEOREM NeverTwice == Spec => []NoDuplicates
<1>1. IInv => NoDuplicates
  <2> SUFFICES ASSUME IInv, NEW t \in Targets, NEW i \in Samples
               PROVE  row[t][i] + (IF store # 0 /\ opened[store] = t THEN hot[store][i] ELSE 0) <= 1
    BY DEF NoDuplicates
  <2>1. row[t][i] \in Nat /\ row[t][i] <= 1
    BY DEF IInv, Typed, WrittenOnce
  <2>2. CASE store # 0
    <3>1. store \in 1..MaxOpens /\ hot[store] \in [Samples -> Nat]
      BY <2>2, OpenInstances DEF IInv, ActiveIsOpen
    <3>2. hot[store][i] \in Nat /\ hot[store][i] <= 1 /\ (hot[store][i] # 0 => row[t][i] = 0)
      BY <3>1 DEF IInv, WrittenOnce
    <3> QED
      BY <2>1, <3>2
  <2>3. CASE store = 0
    BY <2>1, <2>3
  <2> QED
    BY <2>2, <2>3
<1> QED
  BY Invariant, <1>1, PTL


-----------------------------------------------------------------------------
(* Why the data stay recoverable: for any entries, any uploads, and any      *)
(* number of faults, crashes and starts.                                     *)

\* The steps of a start after which the live data are no longer whole.
Touching == {"clear", "move", "rollback"}

\* While the data are being replaced, the snapshot to go back to is one of the
\* complete ones; and the data the service stopped with are among those, or
\* have not been touched.
RestoreInv ==
  /\ boot \in [pc : {"serving", "off", "opening", "stage", "snapshot"} \cup Touching,
               snap : {None} \cup snapshots, left : SUBSET DataEntries]
  /\ boot.pc \in Touching => boot.snap \in snapshots /\ stopped \in snapshots
  /\ OriginalRecoverable

\* The invariant holds when the service runs first.
LEMMA RestoreInvInit == RestoreInit => RestoreInv
  BY DEF RestoreInit, RestoreInv, OriginalRecoverable, Serving, Touching

\* While the service runs it may write its data as it likes, and stops with them.
LEMMA ServiceStep ==
  ASSUME RestoreInv,
         \/ \E u \in Uploads : \/ InitUpload(u) \/ Cancel(u) \/ Merge(u) \/ Merged(u) \/ Acquire(u)
                               \/ Validate(u) \/ Publish(u) \/ ReleaseLock(u) \/ ExitAfter(u)
                               \/ \E i \in 1..UploadChunks : SaveChunk(u, i) \/ ReplaceChunk(u, i)
         \/ Restart
  PROVE  RestoreInv'
<1>1. CASE \/ \E u \in Uploads : \/ InitUpload(u) \/ Cancel(u) \/ Merge(u) \/ Merged(u) \/ Acquire(u)
                                 \/ Validate(u) \/ Publish(u) \/ ReleaseLock(u)
                                 \/ \E i \in 1..UploadChunks : SaveChunk(u, i) \/ ReplaceChunk(u, i)
  <2>1. UNCHANGED <<boot, live, snapshots, stopped>>
    BY <1>1 DEF InitUpload, Cancel, Merge, Merged, Acquire, Validate, Publish, ReleaseLock,
                SaveChunk, ReplaceChunk, Keep
  <2> QED
    BY <2>1 DEF RestoreInv, OriginalRecoverable, Serving
<1>2. CASE Restart \/ \E u \in Uploads : ExitAfter(u)
  <2>1. /\ boot' = [pc |-> "off", snap |-> None, left |-> {}]
        /\ stopped' = live /\ UNCHANGED <<live, snapshots>>
    BY <1>2 DEF Restart, ExitAfter, Stop
  <2> QED
    BY <2>1 DEF RestoreInv, OriginalRecoverable, Touching
<1> QED
  BY <1>1, <1>2

\* A start: the step it goes to, and what it has done until then.
LEMMA RestoreStep ==
  ASSUME RestoreInv,
         \/ Start \/ Stage \/ Snapshot \/ Abort \/ Cleared \/ Undo \/ Rollback
         \/ RollbackFails \/ Consume \/ Open \/ Crash
         \/ \E e \in DataEntries : Clear(e) \/ Move(e)
  PROVE  RestoreInv'
<1> USE DEF At, StartKeeps
<1>1. CASE Snapshot
  <2>1. /\ boot' = [pc |-> "clear", snap |-> live, left |-> {}]
        /\ snapshots' = snapshots \cup {live} /\ UNCHANGED <<live, stopped>>
        /\ live = stopped \/ stopped \in snapshots
    BY <1>1 DEF Snapshot, RestoreInv, OriginalRecoverable, Serving
  <2> QED
    BY <2>1 DEF RestoreInv, OriginalRecoverable, Touching
<1>2. CASE Start \/ Stage \/ Abort \/ Undo \/ Rollback \/ RollbackFails \/ Consume \/ Open
  <2>1. PICK at \in {"serving", "opening", "stage", "snapshot", "rollback"} :
          /\ boot' = [boot EXCEPT !.pc = at]
          /\ at = "rollback" => boot.pc \in Touching
          /\ at = "serving" \/ boot.pc \in Touching \/ live' = live
    BY <1>2 DEF Start, Stage, Abort, Undo, Rollback, RollbackFails, Consume, Open, Go, Touching
  <2>2. UNCHANGED <<snapshots, stopped>> /\ boot.pc # "serving"
    BY <1>2 DEF Start, Stage, Abort, Undo, Rollback, RollbackFails, Consume, Open
  <2>3. boot'.pc = at /\ boot'.snap = boot.snap /\ boot'.left = boot.left
    BY <2>1 DEF RestoreInv
  <2> QED
    BY <2>1, <2>2, <2>3 DEF RestoreInv, OriginalRecoverable, Serving, Touching
<1>3. CASE Cleared \/ \E e \in DataEntries : Clear(e) \/ Move(e)
  <2> DEFINE Replaces == /\ boot.pc \in Touching /\ UNCHANGED <<snapshots, stopped>>
                         /\ \E at \in Touching, left \in SUBSET DataEntries :
                              boot' = [boot EXCEPT !.pc = at, !.left = left]
  <2>1. Replaces
    <3>1. CASE Cleared
      BY <3>1 DEF Cleared, Touching
    <3>2. ASSUME NEW e \in DataEntries, Clear(e)
          PROVE  Replaces
      <4>1. boot' = [boot EXCEPT !.pc = boot.pc, !.left = boot.left] /\ boot.left \subseteq DataEntries
        BY <3>2 DEF Clear, RestoreInv
      <4> QED
        BY <3>2, <4>1 DEF Clear, Touching
    <3>3. ASSUME NEW e \in DataEntries, Move(e)
          PROVE  Replaces
      <4>1. boot' = [boot EXCEPT !.pc = boot.pc, !.left = boot.left \ {e}] /\ boot.left \ {e} \subseteq DataEntries
        BY <3>3 DEF Move, RestoreInv
      <4> QED
        BY <3>3, <4>1 DEF Move, Touching
    <3> QED
      BY <1>3, <3>1, <3>2, <3>3
  <2> QED
    BY <2>1 DEF RestoreInv, OriginalRecoverable, Serving, Touching
<1>4. CASE Crash
  <2>1. /\ boot' = [pc |-> "off", snap |-> None, left |-> {}] /\ boot.pc # "serving"
        /\ UNCHANGED <<live, snapshots, stopped>>
    BY <1>4 DEF Crash
  <2> QED
    BY <2>1 DEF RestoreInv, OriginalRecoverable, Serving, Touching
<1> QED
  BY <1>1, <1>2, <1>3, <1>4

\* Whatever fails and wherever a start is cut off, the data the service stopped
\* with are still in place or complete in a snapshot.
THEOREM OriginalStays == RestoreSpec => []OriginalRecoverable
<1>1. RestoreInv /\ [RestoreNext]_bvars => RestoreInv'
  <2>1. RestoreInv /\ UNCHANGED bvars => RestoreInv'
    BY DEF RestoreInv, OriginalRecoverable, Serving, bvars
  <2>2. RestoreInv /\ RestoreNext => RestoreInv'
    BY ServiceStep, RestoreStep DEF RestoreNext
  <2> QED
    BY <2>1, <2>2
<1>2. RestoreInv => OriginalRecoverable
  BY DEF RestoreInv
<1> QED
  BY <1>1, <1>2, RestoreInvInit, PTL DEF RestoreSpec
=============================================================================
