# A TLA+ verification of KomariX

KomariX is a monitoring panel. Agents on the monitored machines report load,
traffic and ping results over HTTP or WebSocket; the server keeps them in a
time-series store of its own (`pkg/metric`), shows which agents are online,
notifies, and runs plugins written in JavaScript. These modules model the parts
of the Go code where order, failure, time or arithmetic decide whether the data
and the behaviour are right. Every definition is translated from the code at the
lines `PROJECT.json` names under `map`.

## The system and its modules

| part | modules | state in the code | what is hard | what must hold |
|---|---|---|---|---|
| metric store, write path (`pkg/metric`) | `RollupStore`, `RawSeries`, abstract `RawWindow` | raw window, hot minute buckets, staged parents (memory); minute and coarse rows (SQL) | late and duplicate points, a flush or seal that fails half-way, restarts | each accepted timestamp is counted once, in every tier |
| metric store, readers | `SeriesReads`, `Summaries`, `Sampling`, `PingStats` | dictionary, rows, memory under the view lock | a flush or a deletion between two reads | an answer has every sample of its range once; figures follow from the samples |
| metric definitions | `MetricCatalog` | definitions, retention, background deletion | a deletion that runs after its metric was enabled again | disabled means empty, covered means kept |
| structure upgrade | `MetricUpgrade`, abstract `AtomicUpgrade` | managed, shadow and backup tables, guide | a crash after every statement, three databases | history kept, one atomic switch, a retry recognises what is left |
| legacy monitoring, import, transfer | `LegacyMonitoring`, `StoreLifecycle` | legacy tables, marker, target rows | attempts that were interrupted | no row dropped uncopied (but for those of a half-finished drop), none counted twice |
| batch worker (`internal/metricstore`) | `ReportBatcher`, `PingResults` | queues, worker, pending batches, traffic per agent | stop against enqueue, retries, chunks | nothing accepted is lost in silence; traffic exact |
| store lifecycle, shutdown | `StoreLifecycle` | store pointer, operation gate, migration | leases, order of the cleanups | no use of a closed store under a lease; the shutdown ends |
| agent connections, presence, notifications | `AgentPresence` | registry, POST sessions, notification state | overlapping handlers, late goroutines and timers | one notice per outage; registry follows the handlers |
| V2 event queue | `EventQueue`, abstract `EventDelivery` | bounded queue, long polls, agent's memory | answers that repeat, a push against a poll | an event runs once, leaves the queue only when it may |
| scheduler and its tables | `Schedules`, `Renewals` | jobs, rows, dates | reload from a snapshot, overlapping checks | schedule follows the rows; a date moves once |
| plugins and their market | `Plugins`, `PluginMarket`, `PluginStreams`, `ResponseBuffers`, `FrameHooks` | instances, hooks, saved state, caches, buffers | overlapping requests, scripts that throw, hooks that are late | nothing leaks; bytes and frames keep their order |
| JavaScript runtime | `JsRuntime`, `ScriptCalls`, `HttpExchange`, `FetchSignals`, `ChildStreams`, `ConfinedFiles`, `PathNames` | handles, event loop, roots | completions after close, links that change | all is released; a script stays in its roots |
| backup, restore, themes, settings | `BackupRestore`, `Themes`, `Settings` | upload sessions, `backup.zip`, snapshots; theme directories; settings, events, providers | crashes between renames; goroutine per event | the old data can be recovered; what is in force is what the table says, once edits have not overlapped |
| start-up migrations | `StartupMigrations` | tables of the main database | a start that is killed and repeated | no value lost or shifted twice |
| agent (`components/komarix-agent`) | `AgentProcess`, `EventQueue`, `PingResults` | traffic file, caches, token | counters that reset, exit between flush and save | traffic counted once, saved at exit |

Calls between them: a handler of `web/api/client` stamps a report, hands it to
the batch worker, then updates the registry, the protocol flag and the POST
session; session and WebSocket handlers call the notifier. The worker calls
`Store.WriteBatch` under a lease of the operation gate; the scheduler calls
`Flush` and `FlushCoarse`. Where two parts interact in a way that matters, one
module holds both: `StoreLifecycle` has the gate with all its users (reports,
queries, compaction, reload, reclaim, migration, close), `EventQueue` the server
and the agent, `PingResults` the agent's measurement, the worker and the
administrator's deletion, `AgentPresence` the connections and the notifier,
`BackupRestore` the uploads, the exit and the next start.

### How state and actions correspond

The variables carry the names of the code's fields or say in their comment which
one they stand for. A handler is cut into several actions where it can be
interrupted by something the model has: a lock that is released, an `await`, a
goroutine, a statement after which the process may die. It is one action where a
lock keeps everybody else out. The choices that need a word:

* `RollupStore`: one series. A bucket is the *bag* of the observations it
  summarises; as an observation determines its bucket in every tier, one bag
  `[Point -> Nat]` stands for a whole tier. `WriteBatch` is the whole call
  (prune, upsert, add to hot, rebuild, flush, stage, seal) in one step up to the
  sealing, since `ingestMu` and `retentionMu` are held. `ok = FALSE` is the failed
  transaction. `DeleteSeries` also stands for DeleteEntity and DeleteMetric.
  Points lie in the past or present: the server stamps them.
* `RawSeries`: the sorted slice of the newest minute and the packed rest, with
  interned labels; implements `RawWindow`, a plain map of the last writes.
* `SeriesReads`: the reader is cut at the choice of the tier, the reading of the
  dictionary and the view lock. `Summaries`: a t-digest is the bag of its values.
* `MetricUpgrade`: every statement or transaction is a step, after each of which
  the process may crash or the statement fail; the driver and the shape of what
  an earlier version left are chosen at the start. Implements `AtomicUpgrade`:
  readers see the history change in one step.
* `ReportBatcher`, `PingResults`: the two halves of the worker. They share no
  data, only the loop, so each has its own module. The clearing of the traffic
  state by deletions is left out. The model starts after `InitStores`.
* `StoreLifecycle`: samples all lie in one minute, the minute in which targets
  are switched, so a database is one row. The wait for the semaphore is a FIFO.
* `AgentPresence`: one agent; each WebSocket connection is a process; `fired` and
  `expired` are timer callbacks at their two await points, `onlines` are
  `go OnlineNotification(...)` that have not run. Clocks are ticks left.
* `EventQueue`: one agent, pings only; other events take the same way. The server's
  answer to a poll and the agent's handling of it are steps of their own. Implements
  `EventDelivery`: an event leaves the queue only if the agent has it, it was
  written to a connection, it expired, or newer ones crowd it out.
* `Plugins`: one name; each admin request is a process cut at the points where
  the manager's lock is not held. `PluginMarket`: two requests on two sources.
* `JsRuntime`: what a handle goes through from its opening in a goroutine to its
  release, against `Close`; what each kind of module does with it is in the other
  modules of the runtime.
* `ConfinedFiles`: a small tree with a link, chosen at the start; the check of a
  name and the operation are separate steps. `PathNames` enumerates names.
* `LegacyMonitoring`: a stream is a set of tables, because `records` and
  `records_long_term` are read as one `UNION ALL`; a point belongs to the stream,
  the series and the hour, and is the set of rows it was made from. The tables
  are dropped one by one.
* `Themes`: an install is cut at each rename. Both may fail, and so may the one
  that puts the old theme back, whose error the code ignores; `Kill` ends the
  process between any two. `aside` are the versions left in rollback directories,
  from which nothing in the code brings a theme back: `ThemeKept` says that the
  version installed last is not destroyed, and that only a kill or a failed
  rename leaves a theme out of place.
* `Settings`: one goroutine per event and subscriber, and nobody waits for them:
  edits of one setting that overlap may be put into force in any order. `raced`
  records the settings whose edits have overlapped; it restricts no action.
* `StartupMigrations`: one timestamp, one ping task; cut at each statement.
* `AgentProcess`: one interface, days as the unit of time; what is older than
  `Preserve` days is purged by each save.

`Sampling`, `PingStats`, `Summaries` and `PathNames` model pure algorithms: the
inputs are enumerated as initial states or built up by steps, and the result is
compared with a definition made without the algorithm (the samples themselves,
a walk through the tree of names).

## Runs

`MCServer`, `MCData` and `MCLiveness` are model-checking modules that put several
components side by side. A variable `scenario` chooses one at the start and never
changes, so a behaviour of the run is a behaviour of one component. This is one
TLC run per question asked of a group of components, and not a composition: the
components in one group share no state.

A component about which there are theorems is extended by its MC module
(`EventQueue`, `BackupRestore`, `PingResults` and `AgentProcess` by `MCServer`,
`ReportBatcher` and `MetricCatalog` by `MCData`): its own variables, its constants from the cfg,
its `Next` behind the name of its scenario, and the very formula the theorem
states as the property of the run. It rests in an initial state (`Resting`) while
the behaviour is of another component, where its properties hold and cost little.
The other components are instances over the shared variables `s1`, `s2`, ..., and
the properties about them begin with their scenario.

| run | what it asks |
|---|---|
| `tiers` | minute tier, window and two coarse tiers of one series over late points, failed flushes and seals, a restart: `MinuteExact`, `WindowExact`, `CoarseComposed`, `SealedOnce` |
| `presence` | two connections and two POST sessions of one agent: `RegistryTracksHandlers`, `RecentReportIsOnline`, `OneNoticePerOutage`, `GraceIsKept` |
| `lifecycle` | everybody who uses the store, and the shutdown: `GateKeepsStore`, `ShutdownInOrder`, `NoDuplicates`, `ReloadServed`, `ShutdownEnds` |
| `data` | `RelabelledExact`, `ComputedExactly`, `DroppedRowsAreKept`, `UpgradeSafe`, `RetentionObeyed`, `ReportsKept`, `TrafficExact`, `AnswerExact`, and the refinements `WindowRefined` and `SwitchIsAtomic` |
| `server` | `EventsRunOnce`, `ScheduleFollows`, `PluginsSettle`, `ExchangesIntact`, `FilesConfined`, `OriginalRecoverable`, `SettledInForce`, `UpgradeKeepsData`, `AgentCounts`, `ResultsKept`, `RenewedOnce`, and the refinement `DeliveryRefined` |
| `liveness` | what must happen in the end: `Drains`, `GoesOffline`, `UpgradeEnds`, `CloseReleases`, `Delivered` |
| `delete`, `presence_race`, `view`, `stream`, `defaults`, `history` | claims of comments that the code does not meet, below |

`view` starts the `reads` scenario of `MCData` alone (`ReadsSpec`).

Every passing property has a mutant in `PROJECT.json`: a form of a mapped
definition as a plausible bug would leave it (the operators called "Faulty
variant" in the modules), under which TLC finds the property violated.

### Bounds

The bounds are the CONSTANTS marked `bound`; they occur in guards only.

* `tiers`: a minute of 2 ticks, 10 ticks, coarse tiers of 4 and 8, three writes
  at stamps 0, 1, 2, 5, one restart. The clock outlives the raw window, the grace
  period and the end of both parents of the first stamps, so a write meets each
  of its cases: direct, compressed, too old; minute hot, closed, flushed, parent
  sealed. The `labels` scenario of `data` adds two label sets, batches of two and
  a `DeleteBefore`.
* `presence`: both connections (one of them v2) and both sessions can overlap and
  end while callbacks are delayed; TTL and grace of one tick make every timer a
  race with what it waits for.
* `lifecycle`: two targets, one sample, one reload, two migrations, one fault,
  one timeout: a migration can be cancelled and repeated, and the one sample can
  be in any of the places a copy may be made from. Duplicates need one only.
* `data`: in `reports` the queue of one fills, a batch of two forms behind a
  failed one, the counter grows and is reset, the uptime falls, and the stop meets
  every position. In `upgrade` the rows of the first day are half pruned, the last
  minute is open, one point has no definition, one minute has both a row and a
  point, and up to two crashes and a fault fall on any statement of three
  databases. In `monitoring` there are three tables; the first two are one stream
  and share an hour, the third shares their series and day, and three runs and
  three faults allow a failure between two drops, a retry and another one.
  `catalog` has a metric that comes back after a reload and one that does not.
  Each pure algorithm has more inputs than its largest window, so that the first,
  the last and the crossing of a limit occur.
* `server`: two requests at a time for everything that requests can race on
  (plugins, market, themes, schedules, scripts' calls), three operations so that a
  third can meet what two left; two crashes or faults for restore and start-up, so
  that the handling of a fault can fail too; three installs, one other edit and
  one kill for themes, three edits or reads for settings, so that two can overlap
  and a third comes after them; queues and limits of one or two, so that they are
  reached. In `results` chunks of one make a batch that is half written, and one
  of the two tasks measures handshakes, that of the first result. The market
  starts with one of two sources that only their names tell apart.
* `liveness`: smaller instances of five components; the lasso checks do not need
  more actors than the overlap of two.

Deadlock is checked in the runs whose system goes on for ever (`tiers`,
`presence`). The others have `CHECK_DEADLOCK FALSE` because their systems really
stop: a closed runtime, a finished response, a process that exited and may not
start again within the bound.

### Fairness

Each conjunct of a fairness condition is about one goroutine, timer or loop.

* `Drains`: the scheduler calls `FlushCoarse` and `Flush` for ever
  (`internal/metricstore/compaction.go`), and a database that is tried again and
  again succeeds at last: weak fairness for entering the seal, strong fairness
  for the outcomes that succeed.
* `GoesOffline`: goroutines, timers and handlers run, a connection that is silent
  ends (`readWait`). Reports are bounded, so the agent it describes leaves.
* `UpgradeEnds`: the goroutine of the guide and the start of a process run; none
  of their statements is promised to succeed.
* `CloseReleases`: the event loop and the goroutines of the handles run. `Close`
  itself need not come.
* `Delivered`: the ticker ticks and, under strong fairness, a write succeeds at
  last; callers and handlers need none.
* `ReloadServed`, `ShutdownEnds`: whoever holds the gate finishes, the semaphore
  wakes its first waiter (`golang.org/x/sync/semaphore` is FIFO), the cleanups go
  on when their context is over. Requests, restarts and timeouts are owed by
  nobody.

### Refinements

* `RawSeries` implements `RawWindow` (`WindowRefined`): a write, a slide or a
  deletion of the packed representation is one of the plain map, and both answer
  queries alike.
* `EventQueue` implements `EventDelivery` (`DeliveryRefined`).
* `MetricUpgrade` implements `AtomicUpgrade` (`SwitchIsAtomic`).

### Claims the code does not meet

Each has a run that expects the violation:

* `DeletedStaysDeleted` (`delete`): `DeleteBefore` leaves staged parents, which
  seal the deleted observations later.
* `OfflineOnlyWhenGone` (`presence_race`): the goroutine of an old connection can
  make that connection the current session again; its end then sends an offline
  notice while the newer one is served.
* `OneQueryableView` (`view`): a query reads the dictionary of series before it
  takes the view lock. A series whose first row is flushed in between is in
  neither part of the answer. `AnswerExact` holds for the series that were in the
  dictionary.
* `StreamDelivered` (`stream`): the pump of a streamed plugin response may choose
  the end before the chunks that are still buffered.
* `DefaultOnSparesExisting` (`defaults`): an old migration runs at every start
  and gives tasks meant for new servers to the existing ones.
* `HistoryGoesWithTask` (`history`): results that are queued while their ping
  task is deleted are stored after the clean-up, and nothing removes them.

Other claims are stated in the modules and refuted by TLC under the constants of
the passing runs, without a run of their own:

* `CoarseWhole` (`RollupStore`; `rollup.go`, `coarse_rollup.go:99`): a second
  flush of a minute that is no rebuild carries only the late point, and this takes
  the place of all that the staged parent had of the minute.
* `ReadExact` (`RollupStore`; `rollupViewMu`): after the flush of a rebuilt minute
  has failed, a reader adds the stored row to the hot bucket that is to replace it.
* `RebuildKeepsSamples` (`RollupStore`; `rawMemoryCutoff`): after a restart the
  window is empty, and a rebuild counts only what came since.
* `ReportMarksProtocol` (`AgentPresence`): a v2 report that opens a POST session
  leaves the client marked v1.
* `ReadersKeepStore` (`StoreLifecycle`): deletions, metric readers and the writer of
  ping results take the pointer without a lease, so a reload may close the store
  they work on.
* `StagedBackupHeld` (`BackupRestore`): after a backup was published and before
  the process exits, another upload can replace `backup.zip`.
* `RestoreIsTransactional` (`BackupRestore`; `dbcore.go` calls the restore so): a
  rollback that fails, or a crash before it, leaves a mixture in place. What does
  hold is `OriginalRecoverable`.
* `DroppedRowsSurvive` (`LegacyMonitoring`; `legacy_monitoring.go:248`, `:666`): a
  failure between the drops of `records` and `records_long_term`, then a retry
  into the same target: the rows of the second table alone replace the points
  that were made of both. `DroppedRowsAreKept` leaves out these rows (`forgone`)
  and holds for all others.
* `DailyKept` (`MetricUpgrade`; comment of `rebuildDailyRollups`): a partial day is
  rebuilt from the points that are left.
* `LateHooksChangeNothing` (`FrameHooks`; `wshook.go:24`): a hook that is not
  waited for may still have changed the frame.

`CoarseComposed` and `MinuteExact` hold outside the histories `gaps` and `dirty`:
`gaps` are the minutes whose flush could not reach the parent as a whole (the
parent was sealed already, or the flush was a delta), `dirty` the minutes whose
exact samples are not in memory (restart, partial delete, a point older than the
window).

## Proofs

TLAPS proves the following for every value of the constants. The bounds of the
model-checking runs (`MaxWrites`, `MaxOpens`, ...) are constants too, so a theorem
holds for runs of any length. Each invariant was checked by TLC on a small
instance before it was proved. The assumptions are those on the constants that
the code makes: widths and windows are positive and one a multiple of the other,
names are distinct, counts are natural numbers.

| module | theorem | states |
|---|---|---|
| `RollupStoreProofs` | `TypeCorrect`, `WindowIsExact`, `MinuteTierExact` | `[]TypeOK`, `[]WindowExact`, `[]MinuteExact` |
| | `CoarseTiersComposed`, `SealedParentsStay` | `[]CoarseComposed`, the action property `SealedOnce` |
| `AgentPresenceProofs` | `RegistryAlways`, `RecentReportAlways`, `OneNotice`, `GraceKept` | `[]RegistryTracksHandlers`, `[]RecentReportIsOnline`, `[]OneNoticePerOutage`, the action property `GraceIsKept` |
| | `AgentAlwaysCounts` | `[]AgentCounts`, of `AgentProcess` |
| `StoreLifecycleProofs` | `GateAlways`, `OrderedShutdown`, `NeverTwice` | `[]GateKeepsStore`, `[]ShutdownInOrder`, `[]NoDuplicates` |
| | `OriginalStays` | `[]OriginalRecoverable`, of `BackupRestore`: the other exit and start of the server |
| `EventQueueProofs` | `QueueImplementsDelivery` | `DeliveryRefined`: `EventQueue` implements `EventDelivery` |
| | `LongPollsWake`, `AnswersRunOnce` | `[]NoMissedSignal`; `[]EventsRunOnce` if `SeenLimit >= MaxPings` |
| `ReportBatcherProofs` | `ReportsAlwaysKept`, `TrafficIsExact` | `[]ReportsKept`, `[]TrafficExact` |
| `PingResults` | `ResultsAlwaysKept` | `[]ResultsKept` |
| `MetricCatalog` | `RetentionAlways` | `[]RetentionObeyed` |

`SequenceLemmas` holds what several of them cite: the least number with a
property, the first place of an element, and what removing, appending and
joining do to the places of a sequence.

### The invariants, and why they are needed

* **Minute tier.** `IInv == TypeOK /\ WindowExact /\ MinuteExact`. `MinuteExact`
  alone is not inductive: a rebuild recounts a minute from `raw`, so `raw` must
  answer all of the minute with the last accepted samples. That is
  `WindowExact`, and it survives the pruning only because the cutoff lies on a
  minute boundary: `StartBounds`, `StartAtLeast` and `CutoffKeepsMinutes` prove
  that arithmetic with multiplication by an unknown width. `PersistView` says
  that a flush, failed or not, leaves row and hot bucket together unchanged.
* **Coarse tiers.** `CInv` adds that nothing is stored of the future (`PastOnly`)
  and that a parent is sealed only when its grace is over and nothing of it is
  staged in its own tier or a finer one (`SealedWhole`). `CoarseComposed` compares
  a tier with the sealed points of the one below; a seal moves a parent up, and
  without `SealedWhole` a point still staged below could be added to a parent
  that is sealed. It rests on the multiples of the policy: a bucket ends inside
  every wider one (`EndsInside`).
* **Presence.** A POST session is opened once (`SessionsOnce`), so a callback that
  is still under way cannot name a later session; a session refreshed within the
  TTL is open with its timer set (`FreshIsShown`); a pending outage was announced
  by a session which has ended and told the notifier (`OutagesOnce`); the goroutine
  that waits for the grace wakes up no earlier than the grace is over (`GraceRuns`).
* **Store lifecycle.** Who works holds the gate, and an exclusive holder is alone
  (`Exclusion`); the active instance is open (`ActiveIsOpen`); a migration never
  queues, and after its cleanup none can start (`MigrationEnds`); a sample is in
  the memory of one instance, or in rows, once in each (`WrittenOnce`). The FIFO
  enters through `EnterEffect` and `LeaveEffect`: a user who leaves admits a
  prefix of the waiters that fits with those inside.
* **Event queue.** A queue has no event twice and none that never entered it
  (`QueueSound`), pings are dispatched in the order of their numbers (`InOrder`),
  the agent acknowledges only what it ran and the server marks only what it
  wrote (`Owed`). The refinement maps the queue's own variables to those of
  `EventDelivery`; a step that prunes and crowds out at once is one abstract
  step (`Settling`). The filter of the queue is a recursive function: `FilterExists`
  and `WithoutFacts` prove that it is one and what it keeps.
  `AnswersRunOnce` needs `SeenLimit >= MaxPings`, and only so it is true: the agent
  forgets the oldest event when its memory is full, and an answer may then
  repeat one it forgot. The theorem is about the events an agent can
  remember together.
* **Report batcher.** A batch that failed is written again, with more reports
  behind the old ones. `StoredOnce` needs that the reports written before get the
  same timestamps again (`InPlace`): a timestamp depends on the traffic state
  and the reports before it, and the state moves only when a batch is written.
  `TimingGrows` and `TimingAgrees` say that the timestamps of a batch grow and
  that those of a longer one agree; `Placed`, `StoredLate`, `Control` and `Planned`
  place each report with the worker or its handler.
* **Traffic.** `TrafficExact` speaks of a point and the one before it, which may be
  of another batch or of the process before. Uptimes are any numbers: the code
  takes one below that of the last report for a restart and counts nothing, also
  when the report is an earlier one of the same boot that a handler delivers late;
  such a report lowers the base, and the next one counts from there. The property
  says so: zero if counter or uptime is below that of the point before, the
  difference otherwise. It is inductive together with
  `Labelled` (a point carries the counter its report had) and `Continued`: the
  traffic state of the worker is that of the newest point written, except for
  points of the batch that is written again, whose reports are still pending.
  `PreparedChain` says that in a batch each delta is taken from the report before,
  the first one from the state, so that a batch written again puts the same points
  in place and those behind it go on from them. All of it is stated for histories
  in which no lookup of the stored base failed and no report was written past the
  worker (`Clean`), which is where `TrafficExact` itself is stated.
* **Ping results.** A result that was queued is in one place of the queue or of the
  batch, without repetition, and leaves it written (`Placed`); the worker takes
  nothing after the stop and gives up nothing before it (`Control`), so what it
  gives up is what its last flush held. A point is what was sent (`Stored`), and a
  task whose deletion has begun is never spared again, because the row goes before
  the deletion ends (`RowGone`): without that the two points of a result could
  differ when the deletion is over. The tries before the last were slow (`Tried`).
  `Parts` says that a chunk and the rest are the two disjoint parts of a batch.
* **Agent.** Memory and file hold, beside what the next sample will read, no more
  than was moved (`Bounded`); the part still to be read is needed because a sample
  counts traffic of any time since the last one. `TotalGrows`, `TotalMonotone` and
  `TotalUnexpired` count the bytes of all days as a finite set, so no sum has to be
  defined by recursion. `Owing` says that after the body of the shutdown both the
  file and the memory hold what Stop saved: netstatic may be started again by a
  report while the process ends, and its ticker then writes the memory over the
  file. `ExitSaves` asks nothing of a Stop that could not write.
* **Restore.** While the data are being replaced, the snapshot to go back to is a
  complete one and the data the service stopped with are among them; any step
  before that has not touched them.
* **Retentions.** A metric without a definition is empty even for a deletion that
  is still on its way (`UndefinedIsEmpty`), a store that is being opened writes
  back only definitions it read enabled (`ReadEnabled`), and the smallest retention
  since a metric was enabled is at most the present one (`FloorBelow`), so what
  the history covers the cleanup keeps (`CoveredIsRetained`, from the order of the
  buckets in `BucketsOrdered`).

The induction theorems of the library take an operator as a parameter, which the
installed provers cannot instantiate. Where a recursive function has to be
reasoned about, the proofs take the least number at which the claim fails
(`LeastNat`, from the minimum of a well-founded relation) and refute it.

### Only model-checked

* Liveness (`Drains`, `GoesOffline`, `UpgradeEnds`, `CloseReleases`, `Delivered`,
  `ReloadServed`, `ShutdownEnds`) and fairness: beyond the prover.
* `WindowRefined`: `RawSeries` sorts, merges and filters with the operators of the
  community modules that take an operator or fold over a sequence. What they
  compute for every input needs an induction over data, which is out of the
  prover's reach. `RelabelledExact`, the same store with two label sets and
  `DeleteBefore`, is an instance of the theorems of `RollupStoreProofs`.
* `RenewedOnce`: a date that passed more than 30 days ago is renewed from today, any
  other from itself, by a cycle that may be any number of days, so how far one
  renewal leads depends on the cycle. The run has a cycle longer than that limit;
  a theorem would need it as an assumption, and the code compares the two nowhere.
* `SwitchIsAtomic` and `UpgradeSafe`: the guide of `MetricUpgrade` decides by the
  shape of the tables it finds, over three databases, and its invariant would be
  the list of the shapes each crash point can leave, which TLC enumerates.
* The modules no theorem is about. Of these `Sampling`, `Summaries`, `PingStats` and
  `PathNames` compute over recursive data and are compared with a reference over
  bounded inputs.

The proofs worth adding next: that `PluginMarket` keeps its sources distinct
(the lists seen by requests are distinct, and the number a creation takes is
fresh); the refinement of `AtomicUpgrade`.

## Not modelled

* Accounts, sessions, 2FA, rate limits, permissions of RPC methods: decisions
  about who may call, over single rows. The project states what the functions do
  once they are called.
* A removed client's WebSocket, which goes on reporting (`admin.client.go:136`):
  the removal itself is two deletions, and no promise relates them.
* Traffic reminders: messages computed from one query, with no promise about
  repetition. The delivery of mails, webhooks and bot messages is external.
* The numbers inside a t-digest, and floating-point rounding: TLC has integers
  only. A digest is the bag of its values.
* SQL text and dialects, the building of JSON, cron expressions, and names, units
  and descriptions of metrics: formatting and parsing without state.
* The JavaScript interpreter (third-party), the crypto, event and stream
  libraries of the runtime, whose promises are those of the libraries they copy.
* The reading of hardware data in the agent.
* Frontends and theme pages.
