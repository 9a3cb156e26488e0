---------------------------- MODULE StoreLifecycle ----------------------------
(* The life of the process-wide metric store (internal/metricstore): the      *)
(* operation gate that reports, compaction, queries, reload, reclaim and the  *)
(* store-to-store migration share, the settings handler that reloads it, the  *)
(* recovery page, and the ordered shutdown (internal/server).                 *)
(*                                                                            *)
(* Samples are numbered in the order they are produced.  All of them fall     *)
(* into one minute, the minute in which targets are switched, so a database   *)
(* holds one rollup row: how often it counts each sample.                     *)
EXTENDS Integers, Sequences, FiniteSets, SequencesExt

CONSTANTS
  Targets,      \* metric databases, numbered; the first is the configured one
  MaxSamples,   \* bound: samples produced
  MaxOpens,     \* bound: store instances opened
  MaxReloads,   \* bound: settings changes
  MaxMigrations,\* bound: migrations started
  MaxFaults,    \* bound: databases that cannot be opened, batches that fail
  MaxTimeouts   \* bound: waits that time out

ASSUME BoundsAssumption ==
  /\ 1 \in Targets /\ MaxSamples \in Nat /\ MaxOpens \in Nat \ {0}
  /\ MaxReloads \in Nat /\ MaxMigrations \in Nat /\ MaxFaults \in Nat /\ MaxTimeouts \in Nat

Shared == {"batch", "compact", "query"}
Exclusive == {"reload", "reclaim", "migrate", "close"}
Users == Shared \cup Exclusive
Samples == 1..MaxSamples
NoRow == [i \in Samples |-> 0]
One(i) == [j \in Samples |-> IF j = i THEN 1 ELSE 0]
Plus(r, q) == [i \in Samples |-> r[i] + q[i]]

VARIABLES
  held,       \* users holding the gate
  queue,      \* users waiting for it, first come first served
  pc,         \* what each user does
  uses,       \* the instance each user has read from the global, 0 when none
  store,      \* the active instance, 0 when nil
  opened,     \* targets of the instances opened so far
  isOpen,     \* instances not yet closed
  hot,        \* per instance: samples of its open minute
  row,        \* per target: the stored row
  config,     \* the configured target
  source,     \* MigrationTargetKey: the target a migration reads by default
  produced,   \* samples produced so far
  pending,    \* reports accepted and not yet written
  closing,    \* storeClosing
  migration,  \* "none", "running", "finishing": storeMigCancel is set unless none
  cancelled,  \* its context is cancelled
  copied,     \* the row batch has been imported
  proc,       \* "serving", "stopping", "down" or "recovery"
  stage,      \* the cleanup that runs
  expired,    \* the cleanup context is over
  blockers,   \* who kept the report flush from ending in time
  reloads, migrations, faults, timeouts

gate == <<held, queue>>
instances == <<store, opened, isOpen>>
data == <<hot, row>>
settings == <<config, source>>
reports == <<produced, pending>>
mig == <<migration, cancelled, copied>>
life == <<proc, stage, expired, blockers>>
bounds == <<reloads, migrations, faults, timeouts>>
vars == <<gate, pc, uses, instances, data, settings, reports, closing, mig, life, bounds>>

Init ==
  /\ held = {} /\ queue = <<>>
  /\ pc = [p \in Users \cup {"ping"} |-> "idle"]
  /\ uses = [p \in Users \cup {"ping"} |-> 0]
  /\ store = 1 /\ opened = <<1>> /\ isOpen = {1}
  /\ hot = [n \in 1..MaxOpens |-> NoRow]
  /\ row = [t \in Targets |-> NoRow]
  /\ config = 1 /\ source = 1
  /\ produced = 0 /\ pending = {}
  /\ closing = FALSE
  /\ migration = "none" /\ cancelled = FALSE /\ copied = FALSE
  /\ proc = "serving" /\ stage = "none" /\ expired = FALSE /\ blockers = {}
  /\ reloads = 0 /\ migrations = 0 /\ faults = 0 /\ timeouts = 0

-----------------------------------------------------------------------------
(* The gate: a weighted semaphore.  A user that fits and finds nobody waiting *)
(* enters; otherwise it waits, and only the first of the queue is let in.     *)
Fits(p) == IF p \in Shared THEN held \cap Exclusive = {} ELSE held = {}

Enter(p, next) ==
  /\ IF queue = <<>> /\ Fits(p)
     THEN held' = held \cup {p} /\ queue' = queue
     ELSE held' = held /\ queue' = Append(queue, p)
  /\ pc' = [pc EXCEPT ![p] = next]

(* Faulty variant: whoever fits is let in, whatever waits before it.          *)
ServedAny(p) == TRUE

Served(p) == p = Head(queue)

Grant ==
  /\ queue # <<>>
  /\ \E p \in Range(queue) : Served(p) /\ Fits(p) /\ held' = held \cup {p} /\ queue' = RemoveFirst(queue, p)
  /\ UNCHANGED <<pc, uses, instances, data, settings, reports, closing, mig, life, bounds>>

Leave(p) ==
  /\ held' = held \ {p} /\ queue' = queue
  /\ pc' = [pc EXCEPT ![p] = "idle"] /\ uses' = [uses EXCEPT ![p] = 0]

Alive == proc \in {"serving", "stopping"}

(* A handler that waits for the gate gives up when its context ends.          *)
GiveUp(p) ==
  /\ Alive /\ pc[p] = "wait" /\ p \in Range(queue) /\ p \notin held
  /\ timeouts < MaxTimeouts
  /\ queue' = RemoveFirst(queue, p) /\ pc' = [pc EXCEPT ![p] = "idle"]
  /\ timeouts' = timeouts + 1
  /\ UNCHANGED <<held, uses, instances, data, settings, reports, closing, mig, life, reloads, migrations, faults>>

-----------------------------------------------------------------------------
(* An instance: the samples of its open minute are in memory; Compact and     *)
(* Close add them to the row of its database.                                 *)
Flushed(n) == row' = [row EXCEPT ![opened[n]] = Plus(@, hot[n])] /\ hot' = [hot EXCEPT ![n] = NoRow]

(* WriteReport, and the worker writing what is pending under a shared lease.  *)
Report ==
  /\ proc = "serving" \/ stage = "migration"
  /\ produced < MaxSamples
  /\ produced' = produced + 1 /\ pending' = pending \cup {produced + 1}
  /\ UNCHANGED <<gate, pc, uses, instances, data, settings, closing, mig, life, bounds>>

BatchEnter ==
  /\ Alive /\ pc["batch"] = "idle" /\ pending # {} /\ stage \notin {"store", "closing"}
  /\ Enter("batch", "wait")
  /\ UNCHANGED <<uses, instances, data, settings, reports, closing, mig, life, bounds>>

Read(p) ==
  /\ Alive /\ pc[p] = "wait" /\ p \in held
  /\ pc' = [pc EXCEPT ![p] = "use"] /\ uses' = [uses EXCEPT ![p] = store]
  /\ UNCHANGED <<gate, instances, data, settings, reports, closing, mig, life, bounds>>

BatchWrite ==
  /\ Alive /\ pc["batch"] = "use"
  /\ LET n == uses["batch"] IN
       IF n # 0 /\ n \in isOpen
       THEN /\ hot' = [hot EXCEPT ![n] = [i \in Samples |-> @[i] + (IF i \in pending THEN 1 ELSE 0)]]
            /\ pending' = {}
       ELSE UNCHANGED <<hot, pending>>
  /\ Leave("batch")
  /\ UNCHANGED <<instances, row, settings, produced, closing, mig, life, bounds>>

(* Compact and CleanupExpired, under a shared lease and one at a time; the    *)
(* open minute may have closed by then.                                       *)
CompactEnter ==
  /\ proc = "serving" /\ pc["compact"] = "idle"
  /\ Enter("compact", "wait")
  /\ UNCHANGED <<uses, instances, data, settings, reports, closing, mig, life, bounds>>

CompactFlush ==
  /\ Alive /\ pc["compact"] = "use"
  /\ IF uses["compact"] \in isOpen THEN Flushed(uses["compact"]) ELSE UNCHANGED data
  /\ Leave("compact")
  /\ UNCHANGED <<instances, settings, reports, closing, mig, life, bounds>>

(* QueryForDriver and InspectStorage: the lease is kept while the rows are    *)
(* read and given back by the caller.                                         *)
QueryEnter ==
  /\ proc = "serving" /\ pc["query"] = "idle"
  /\ Enter("query", "wait")
  /\ UNCHANGED <<uses, instances, data, settings, reports, closing, mig, life, bounds>>

(* Faulty variant: the caller ends without giving the lease back.             *)
QueryForgotten ==
  /\ Alive /\ pc["query"] = "use"
  /\ pc' = [pc EXCEPT !["query"] = "done"] /\ uses' = [uses EXCEPT !["query"] = 0]
  /\ UNCHANGED <<gate, instances, data, settings, reports, closing, mig, life, bounds>>

QueryRelease ==
  /\ Alive /\ pc["query"] = "use"
  /\ Leave("query")
  /\ UNCHANGED <<instances, data, settings, reports, closing, mig, life, bounds>>

(* WritePingRecord, deletions and the metric readers take the pointer and no  *)
(* lease.                                                                     *)
PingRead ==
  /\ proc = "serving" /\ pc["ping"] = "idle" /\ store # 0 /\ produced < MaxSamples
  /\ pc' = [pc EXCEPT !["ping"] = "use"] /\ uses' = [uses EXCEPT !["ping"] = store]
  /\ UNCHANGED <<gate, instances, data, settings, reports, closing, mig, life, bounds>>

PingWrite ==
  /\ Alive /\ pc["ping"] = "use"
  /\ produced' = produced + (IF produced < MaxSamples THEN 1 ELSE 0)
  /\ IF uses["ping"] \in isOpen /\ produced < MaxSamples
     THEN hot' = [hot EXCEPT ![uses["ping"]] = Plus(@, One(produced + 1))]
     ELSE UNCHANGED hot
  /\ pc' = [pc EXCEPT !["ping"] = "idle"] /\ uses' = [uses EXCEPT !["ping"] = 0]
  /\ UNCHANGED <<gate, instances, row, settings, pending, closing, mig, life, bounds>>

(* ReclaimSpace and ExecContext hold the whole gate.                          *)
ReclaimEnter ==
  /\ proc = "serving" /\ pc["reclaim"] = "idle"
  /\ Enter("reclaim", "wait")
  /\ UNCHANGED <<uses, instances, data, settings, reports, closing, mig, life, bounds>>

ReclaimDone ==
  /\ Alive /\ pc["reclaim"] = "use"
  /\ Leave("reclaim")
  /\ UNCHANGED <<instances, data, settings, reports, closing, mig, life, bounds>>

-----------------------------------------------------------------------------
(* adminEditSettings: the tested settings are saved, then Reload waits for    *)
(* the gate, refuses while the store is closing, keeps the running store when *)
(* the new one cannot be opened or has an old structure (which asks for a     *)
(* restart into the upgrade guide), and otherwise swaps and closes the old    *)
(* one.                                                                       *)
EditSettings ==
  /\ Alive /\ stage # "exit" /\ pc["reload"] = "idle" /\ reloads < MaxReloads /\ Len(opened) < MaxOpens
  /\ \E t \in Targets : config' = t
  /\ reloads' = reloads + 1
  /\ Enter("reload", "wait")
  /\ UNCHANGED <<uses, instances, data, source, reports, closing, mig, life, migrations, faults, timeouts>>

ReloadRefused ==
  /\ Alive /\ pc["reload"] = "wait" /\ "reload" \in held
  /\ \/ closing /\ UNCHANGED faults
     \/ ~closing /\ faults < MaxFaults /\ faults' = faults + 1
  /\ Leave("reload")
  /\ UNCHANGED <<instances, data, settings, reports, closing, mig, life, reloads, migrations, timeouts>>

(* Faulty variant: the swap does not wait for the gate.                       *)
ReloadSwapUngated ==
  /\ Alive /\ pc["reload"] = "wait"
  /\ ~closing /\ Len(opened) < MaxOpens
  /\ opened' = Append(opened, config)
  /\ store' = Len(opened) + 1
  /\ isOpen' = isOpen \cup {Len(opened) + 1}
  /\ uses' = [uses EXCEPT !["reload"] = store]
  /\ pc' = [pc EXCEPT !["reload"] = "use"]
  /\ UNCHANGED <<gate, data, settings, reports, closing, mig, life, bounds>>

ReloadSwap ==
  /\ Alive /\ pc["reload"] = "wait" /\ "reload" \in held
  /\ ~closing /\ Len(opened) < MaxOpens
  /\ opened' = Append(opened, config)
  /\ store' = Len(opened) + 1
  /\ isOpen' = isOpen \cup {Len(opened) + 1}
  /\ uses' = [uses EXCEPT !["reload"] = store]
  /\ pc' = [pc EXCEPT !["reload"] = "use"]
  /\ UNCHANGED <<gate, data, settings, reports, closing, mig, life, bounds>>

ReloadClose ==
  /\ Alive /\ pc["reload"] = "use"
  /\ isOpen' = isOpen \ {uses["reload"]}
  /\ IF uses["reload"] # 0 THEN Flushed(uses["reload"]) ELSE UNCHANGED data
  /\ Leave("reload")
  /\ UNCHANGED <<store, opened, settings, reports, closing, mig, life, bounds>>

-----------------------------------------------------------------------------
(* StartStoreMigration takes the whole gate without waiting, wants the active *)
(* store to be the configured target, and registers under storeMigMu unless   *)
(* the store is closing.                                                      *)
Registers == closing = FALSE /\ migration = "none"

StartMigration ==
  /\ Alive /\ stage # "exit" /\ migrations < MaxMigrations
  /\ source # config
  /\ held = {} /\ queue = <<>>
  /\ store # 0 /\ opened[store] = config
  /\ Registers
  /\ held' = {"migrate"} /\ queue' = queue
  /\ pc' = [pc EXCEPT !["migrate"] = "use"] /\ uses' = [uses EXCEPT !["migrate"] = store]
  /\ migration' = "running" /\ cancelled' = FALSE /\ copied' = FALSE
  /\ migrations' = migrations + 1
  /\ UNCHANGED <<instances, data, settings, reports, closing, life, reloads, faults, timeouts>>

(* Faulty variant: the imported row is merged into the stored one.            *)
ImportedMerge(dst, src) == Plus(dst, src)

(* ImportRollups replaces the row under its key in one transaction.           *)
Imported(dst, src) == IF src = NoRow THEN dst ELSE src

MigrateBatch ==
  /\ Alive /\ migration = "running" /\ ~cancelled /\ ~copied
  /\ LET t == opened[uses["migrate"]] IN row' = [row EXCEPT ![t] = Imported(@, row[source])]
  /\ copied' = TRUE
  /\ UNCHANGED <<gate, pc, uses, instances, hot, settings, reports, closing, migration, cancelled, life, bounds>>

(* The goroutine ends: the target is remembered when all was copied, and the  *)
(* gate is given back before the registration is cleared.                     *)
MigrateEnd ==
  /\ Alive /\ migration = "running"
  /\ \/ copied /\ ~cancelled /\ source' = opened[uses["migrate"]] /\ UNCHANGED faults
     \/ cancelled /\ UNCHANGED <<source, faults>>
     \/ ~cancelled /\ faults < MaxFaults /\ faults' = faults + 1 /\ UNCHANGED source
  /\ migration' = "finishing"
  /\ Leave("migrate")
  /\ UNCHANGED <<instances, data, config, reports, closing, cancelled, copied, life, reloads, migrations, timeouts>>

MigrateCleared ==
  /\ migration = "finishing" /\ migration' = "none"
  /\ UNCHANGED <<gate, pc, uses, instances, data, settings, reports, closing, cancelled, copied, life, bounds>>

CancelMigration ==
  /\ proc = "serving" /\ migration # "none" /\ ~cancelled
  /\ cancelled' = TRUE
  /\ UNCHANGED <<gate, pc, uses, instances, data, settings, reports, closing, migration, copied, life, bounds>>

-----------------------------------------------------------------------------
(* Shutdown: HTTP first, then the cleanups in reverse order of registration:  *)
(* migration, report batcher, store, all within one cleanup context.  Handlers*)
(* on hijacked connections or past the HTTP timeout still run meanwhile.      *)
(* Faulty variant: the report batcher is stopped first.                       *)
CleanupsBatcherFirst == <<"batcher", "migration", "store">>

Cleanups == <<"migration", "batcher", "store">>
After(s) == IF s = Cleanups[Len(Cleanups)] THEN "exit"
            ELSE Cleanups[1 + CHOOSE i \in DOMAIN Cleanups : Cleanups[i] = s]

BeginShutdown ==
  /\ proc = "serving"
  /\ proc' = "stopping" /\ stage' = Cleanups[1]
  /\ UNCHANGED <<gate, pc, uses, instances, data, settings, reports, closing, mig, expired, blockers, bounds>>

StopMigration ==
  /\ proc = "stopping" /\ stage = "migration"
  /\ closing' = TRUE
  /\ cancelled' = (cancelled \/ migration # "none")
  /\ stage' = IF migration = "none" THEN After("migration") ELSE "migration"
  /\ (migration # "none") => ~(closing /\ cancelled)
  /\ UNCHANGED <<gate, pc, uses, instances, data, settings, reports, migration, copied, proc, expired, blockers, bounds>>

(* Faulty variant: the batcher stops without its last flush.                  *)
StopBatcherUnflushed ==
  /\ proc = "stopping" /\ stage = "batcher"
  /\ pc["batch"] = "idle"
  /\ stage' = After("batcher")
  /\ UNCHANGED <<gate, pc, uses, instances, data, settings, reports, closing, mig, proc, expired, blockers, bounds>>

StopBatcher ==
  /\ proc = "stopping" /\ stage = "batcher"
  /\ pending = {} /\ pc["batch"] = "idle"
  /\ stage' = After("batcher")
  /\ UNCHANGED <<gate, pc, uses, instances, data, settings, reports, closing, mig, proc, expired, blockers, bounds>>

(* CloseStoreContext.                                                         *)
CloseEnter ==
  /\ proc = "stopping" /\ stage = "store" /\ ~expired /\ migration = "none" /\ pc["close"] = "idle"
  /\ closing' = TRUE
  /\ Enter("close", "wait")
  /\ stage' = "closing"
  /\ UNCHANGED <<uses, instances, data, settings, reports, mig, proc, expired, blockers, bounds>>

CloseStore ==
  /\ proc = "stopping" /\ stage = "closing" /\ "close" \in held
  /\ isOpen' = isOpen \ {store}
  /\ IF store # 0 THEN Flushed(store) ELSE UNCHANGED data
  /\ store' = 0
  /\ Leave("close")
  /\ stage' = After("store")
  /\ UNCHANGED <<opened, settings, reports, closing, mig, proc, expired, blockers, bounds>>

(* The cleanup context ends while a cleanup waits: it gives up, and so does   *)
(* every later one.                                                           *)
Waited == IF stage = "batcher" /\ ~expired THEN held \cup Range(queue) ELSE {}

CleanupTimesOut ==
  /\ proc = "stopping" /\ stage \notin {"none", "exit"}
  /\ timeouts < MaxTimeouts \/ expired
  /\ (stage = "migration") => migration # "none" /\ closing
  /\ (stage = "batcher") => (pending # {} \/ pc["batch"] # "idle") /\ "batch" \notin held
  /\ (stage = "store") => expired \/ migration # "none"
  /\ (stage = "closing") => "close" \notin held
  /\ expired' = TRUE
  /\ timeouts' = IF expired THEN timeouts ELSE timeouts + 1
  /\ blockers' = blockers \cup Waited
  /\ closing' = IF stage \in {"store", "closing"} THEN FALSE ELSE closing
  /\ queue' = IF stage = "closing" THEN RemoveFirst(queue, "close") ELSE queue
  /\ pc' = [pc EXCEPT !["close"] = "idle"]
  /\ stage' = IF stage = "closing" THEN After("store") ELSE After(stage)
  /\ UNCHANGED <<held, uses, instances, data, settings, reports, mig, proc, reloads, migrations, faults>>

(* The process exits; what is in memory is gone.                              *)
Exit ==
  /\ proc = "stopping" /\ stage = "exit"
  /\ proc' = "down" /\ stage' = "none"
  /\ held' = {} /\ queue' = <<>>
  /\ pc' = [p \in DOMAIN pc |-> "idle"] /\ uses' = [p \in DOMAIN uses |-> 0]
  /\ store' = 0 /\ isOpen' = {} /\ hot' = [n \in DOMAIN hot |-> NoRow]
  /\ pending' = {} /\ migration' = "none" /\ cancelled' = FALSE /\ closing' = FALSE
  /\ UNCHANGED <<opened, row, settings, produced, copied, expired, blockers, bounds>>

(* The next process: an outdated target goes through the upgrade guide, a     *)
(* target that cannot be opened through the recovery page, which saves the    *)
(* new target as the source of later migrations.                              *)
Boot ==
  /\ proc \in {"down", "recovery"} /\ Len(opened) < MaxOpens
  /\ \/ /\ proc = "down" /\ faults < MaxFaults
        /\ faults' = faults + 1 /\ proc' = "recovery"
        /\ UNCHANGED <<opened, store, isOpen, settings>>
     \/ /\ \/ proc = "down" /\ UNCHANGED settings
           \/ proc = "recovery" /\ \E t \in Targets : config' = t /\ source' = t
        /\ opened' = Append(opened, config') /\ store' = Len(opened) + 1
        /\ isOpen' = {Len(opened) + 1}
        /\ proc' = "serving"
        /\ UNCHANGED faults
  /\ expired' = FALSE /\ blockers' = {}
  /\ UNCHANGED <<gate, pc, uses, data, reports, closing, mig, stage, reloads, migrations, timeouts>>

Next ==
  \/ Grant
  \/ \E p \in Shared \cup {"reclaim"} : Read(p)
  \/ \E p \in {"reload", "query"} : GiveUp(p)
  \/ Report \/ BatchEnter \/ BatchWrite \/ CompactEnter \/ CompactFlush \/ QueryEnter \/ QueryRelease
  \/ PingRead \/ PingWrite \/ ReclaimEnter \/ ReclaimDone
  \/ EditSettings \/ ReloadRefused \/ ReloadSwap \/ ReloadClose
  \/ StartMigration \/ MigrateBatch \/ MigrateEnd \/ MigrateCleared \/ CancelMigration
  \/ BeginShutdown \/ StopMigration \/ StopBatcher \/ CloseEnter \/ CloseStore \/ CleanupTimesOut \/ Exit
  \/ Boot

(* Whoever holds the gate finishes, the semaphore wakes its first waiter, and *)
(* the shutdown goes on; requests, restarts and timeouts are owed by nobody.  *)
Fairness ==
  /\ WF_vars(Grant)
  /\ \A p \in Shared \cup {"reclaim"} : WF_vars(Read(p))
  /\ WF_vars(BatchEnter) /\ WF_vars(BatchWrite) /\ WF_vars(CompactFlush) /\ WF_vars(QueryRelease)
  /\ WF_vars(ReclaimDone) /\ WF_vars(ReloadRefused \/ ReloadSwap) /\ WF_vars(ReloadClose)
  /\ WF_vars(MigrateBatch \/ MigrateEnd) /\ WF_vars(MigrateCleared)
  /\ WF_vars(StopMigration) /\ WF_vars(StopBatcher) /\ WF_vars(CloseEnter) /\ WF_vars(CloseStore)
  /\ WF_vars(expired /\ CleanupTimesOut) /\ WF_vars(Exit)

Spec == Init /\ [][Next]_vars /\ Fairness

-----------------------------------------------------------------------------
(* storeOperationGate keeps the active store stable: a user of the gate that  *)
(* has read the store works on the active instance and on one that is open,   *)
(* through reload, migration, recovery and shutdown.                          *)
GateKeepsStore ==
  \A p \in (Shared \cup {"reclaim", "migrate"}) :
    pc[p] = "use" /\ uses[p] # 0 => uses[p] \in isOpen /\ uses[p] = store

(* Comment of InitStores: the migration is stopped before the report batcher  *)
(* flushes, which needs the shared lease.  A flush that runs out of time was  *)
(* never kept waiting by a migration, and once the migration cleanup ended in *)
(* time none runs or starts.                                                  *)
ShutdownInOrder ==
  /\ "migrate" \notin blockers
  /\ (proc = "stopping" /\ stage \in {"batcher", "store", "closing", "exit"} /\ ~expired) => migration = "none"

(* Comment of CancelStoreMigration: a cancelled migration can be started      *)
(* again without producing duplicate data.  No database counts a sample       *)
(* twice, in its row and the memory of its open store together.               *)
NoDuplicates ==
  \A t \in Targets, i \in Samples :
    row[t][i] + (IF store # 0 /\ opened[store] = t THEN hot[store][i] ELSE 0) <= 1

(* A shutdown within its time leaves nothing behind in memory: every report   *)
(* it accepted is in the row of a database unless a migration replaced it.    *)
ShutdownFlushes ==
  (proc = "stopping" /\ stage = "exit" /\ ~expired)
     => pending = {} /\ store = 0 /\ (\A n \in DOMAIN opened : hot[n] = NoRow)

(* The gate is first come first served: a settings change waits for the       *)
(* operations before it, not for all the reports and queries that keep        *)
(* coming.                                                                    *)
ReloadServed == (pc["reload"] = "wait") ~> (pc["reload"] # "wait")

(* The shutdown ends.                                                         *)
ShutdownEnds == (proc = "stopping") ~> (proc # "stopping")

(* Comment of storeOperationGate: the gate keeps an active store stable while *)
(* allowing regular reads.  A user that took the pointer without a lease may  *)
(* find its store closed.                                                     *)
ReadersKeepStore == pc["ping"] = "use" => uses["ping"] \in isOpen
=============================================================================
