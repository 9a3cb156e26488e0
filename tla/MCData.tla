--------------------------- MODULE MCData ------------------------------------
(***************************************************************************)
(* Small instances of the parts of the metric store, and of what reads and *)
(* feeds it, that share no state with one another; one run of TLC checks   *)
(* them all.  The scenario is chosen once: every behaviour is a behaviour  *)
(* of one component, and its variables are those of that component.        *)
(***************************************************************************)
EXTENDS ReportBatcher, MetricCatalog, TLC

VARIABLES scenario,   \* the component this behaviour is of
          s1, s2, s3, s4, s5, s6, s7, s8, s9, s10, s11, s12, s13, s14, s15, s16, s17, s18, s19,
          s20, s21   \* its variables
small == <<s1, s2, s3, s4, s5, s6, s7, s8, s9, s10, s11, s12, s13, s14, s15, s16, s17, s18, s19, s20, s21>>
mcVars == <<scenario, small, vars, mvars>>

\* A component of n variables uses s1..sn and leaves the others off.
MCOff(n) ==
    /\ IF n < 1 THEN s1 = "off" ELSE TRUE
    /\ IF n < 2 THEN s2 = "off" ELSE TRUE
    /\ IF n < 3 THEN s3 = "off" ELSE TRUE
    /\ IF n < 4 THEN s4 = "off" ELSE TRUE
    /\ IF n < 5 THEN s5 = "off" ELSE TRUE
    /\ IF n < 6 THEN s6 = "off" ELSE TRUE
    /\ IF n < 7 THEN s7 = "off" ELSE TRUE
    /\ IF n < 8 THEN s8 = "off" ELSE TRUE
    /\ IF n < 9 THEN s9 = "off" ELSE TRUE
    /\ IF n < 10 THEN s10 = "off" ELSE TRUE
    /\ IF n < 11 THEN s11 = "off" ELSE TRUE
    /\ IF n < 12 THEN s12 = "off" ELSE TRUE
    /\ IF n < 13 THEN s13 = "off" ELSE TRUE
    /\ IF n < 14 THEN s14 = "off" ELSE TRUE
    /\ IF n < 15 THEN s15 = "off" ELSE TRUE
    /\ IF n < 16 THEN s16 = "off" ELSE TRUE
    /\ IF n < 17 THEN s17 = "off" ELSE TRUE
    /\ IF n < 18 THEN s18 = "off" ELSE TRUE
    /\ IF n < 19 THEN s19 = "off" ELSE TRUE
    /\ IF n < 20 THEN s20 = "off" ELSE TRUE
    /\ IF n < 21 THEN s21 = "off" ELSE TRUE
MCKeep(n) ==
    /\ IF n < 1 THEN UNCHANGED s1 ELSE TRUE
    /\ IF n < 2 THEN UNCHANGED s2 ELSE TRUE
    /\ IF n < 3 THEN UNCHANGED s3 ELSE TRUE
    /\ IF n < 4 THEN UNCHANGED s4 ELSE TRUE
    /\ IF n < 5 THEN UNCHANGED s5 ELSE TRUE
    /\ IF n < 6 THEN UNCHANGED s6 ELSE TRUE
    /\ IF n < 7 THEN UNCHANGED s7 ELSE TRUE
    /\ IF n < 8 THEN UNCHANGED s8 ELSE TRUE
    /\ IF n < 9 THEN UNCHANGED s9 ELSE TRUE
    /\ IF n < 10 THEN UNCHANGED s10 ELSE TRUE
    /\ IF n < 11 THEN UNCHANGED s11 ELSE TRUE
    /\ IF n < 12 THEN UNCHANGED s12 ELSE TRUE
    /\ IF n < 13 THEN UNCHANGED s13 ELSE TRUE
    /\ IF n < 14 THEN UNCHANGED s14 ELSE TRUE
    /\ IF n < 15 THEN UNCHANGED s15 ELSE TRUE
    /\ IF n < 16 THEN UNCHANGED s16 ELSE TRUE
    /\ IF n < 17 THEN UNCHANGED s17 ELSE TRUE
    /\ IF n < 18 THEN UNCHANGED s18 ELSE TRUE
    /\ IF n < 19 THEN UNCHANGED s19 ELSE TRUE
    /\ IF n < 20 THEN UNCHANGED s20 ELSE TRUE
    /\ IF n < 21 THEN UNCHANGED s21 ELSE TRUE
MCStep(name, n, A) == scenario = name /\ A /\ MCKeep(n) /\ UNCHANGED <<scenario, vars, mvars>>

\* The components this module extends have their own variables, and rest in an
\* initial state while the behaviour is of another component.
ReportsRest == Init /\ stored = NoPoints
CatalogRests == CatalogInit
Resting == ReportsRest /\ CatalogRests

\* Points of the raw window: one, or two of one moment whose labels differ.
WindowPoints == [at : 0..5, value : {1}, label : {"a", "b"}]
WindowBatches == {<<p>> : p \in WindowPoints}
                 \cup {pq \in WindowPoints \X WindowPoints : pq[1].at = pq[2].at /\ pq[1].label # pq[2].label}

ReadTiers == <<[interval |-> 1, retention |-> 2], [interval |-> 2, retention |-> 4]>>

\* Three legacy tables, the first two streamed together: they share an hour of
\* one series, and have another hour of that day and of the next for themselves.
MonitoringRows ==
    {[table |-> 1, series |-> 1, hour |-> 0, id |-> 1], [table |-> 1, series |-> 1, hour |-> 1, id |-> 2],
     [table |-> 1, series |-> 2, hour |-> 0, id |-> 3], [table |-> 2, series |-> 1, hour |-> 0, id |-> 4],
     [table |-> 2, series |-> 1, hour |-> 2, id |-> 5], [table |-> 3, series |-> 1, hour |-> 0, id |-> 6]}

\* Two days of four minutes and two hours each.  The hours of the first day are
\* half pruned, the last minute is open, one point has no definition and one
\* minute has a stored row besides its point.
UpgradeRows == (<<"minute", 5>> :> {5}) @@ (<<"hour", 1>> :> {2, 3}) @@ (<<"hour", 2>> :> {4, 5})
               @@ (<<"day", 0>> :> {0, 1, 2, 3}) @@ (<<"day", 1>> :> {4, 5})
UpgradeKept == {<<"minute", m>> : m \in 5..7} \cup {<<"hour", h>> : h \in 1..3} \cup {<<"day", d>> : d \in 0..1}
UpgradeTiers == ("minute" :> 1) @@ ("hour" :> 2) @@ ("day" :> 4)

CatalogTiers == <<[interval |-> 1, retention |-> 2], [interval |-> 2, retention |-> 9]>>

Relabelling == INSTANCE RollupStore WITH
    Minute <- 2, Direct <- 2, RawWindow <- 2, Grace <- 2, Width <- <<4>>, Labels <- {"a", "b"},
    Values <- {"v"}, Cutoffs <- {3}, Stamps <- {0, 1}, MaxTime <- 6, MaxWrites <- 2,
    MaxBatch <- 2, MaxRestarts <- 0, now <- s1, raw <- s2, hot <- s3, replace <- s4, row <- s5,
    staged <- s6, sealed <- s7, pc <- s8, writes <- s9, restarts <- s10, last <- s11,
    dirty <- s12, gaps <- s13
Window == INSTANCE RawSeries WITH
    Minute <- 2, Retention <- 4, Batches <- WindowBatches, MaxTime <- 5, MaxWrites <- 2,
    now <- s1, series <- s2, answer <- s3, found <- s4, writes <- s5
Reads == INSTANCE SeriesReads WITH
    Series <- {"a"}, Tiers <- ReadTiers, Retentions <- {1, 6}, MaxTime <- 4, MaxAsks <- 1,
    now <- s1, retention <- s2, written <- s3, hot <- s4, coarse <- s5, rows <- s6, reader <- s7,
    asks <- s8
Samples == INSTANCE Sampling WITH
    Groups <- {"a", "b", "c"}, MaxLength <- 4, MaxCounts <- {0, 1, 2, 3, 5, 7},
    MaxPointTime <- 7, Intervals <- {0, 1, 2}, request <- s1, response <- s2
Rollups == INSTANCE Summaries WITH
    Labels <- {"a", "b"}, Values <- {1, 3}, MaxTime <- 3, Minute <- 2, Hour <- 4, MaxWrites <- 3,
    points <- s1, raw <- s2, hot <- s3, row <- s4
Pings == INSTANCE PingStats WITH
    Tasks <- {1, 2}, Latencies <- {0, 3, 10}, MaxTime <- 3, Widths <- {1, 2, 4}, MaxResults <- 3,
    results <- s1, latencyOff <- s2, lossOff <- s3
Monitoring == INSTANCE LegacyMonitoring WITH
    Rows <- MonitoringRows, Streams <- <<{1, 2}, {3}>>, Targets <- {"a", "b"}, Day <- 2,
    MaxRuns <- 3, MaxFaults <- 3, phase <- s1, target <- s2, saved <- s3, left <- s4,
    stream <- s5, read <- s6, group <- s7, hourly <- s8, coarse <- s9, forgone <- s10,
    marker <- s11, runs <- s12, faults <- s13
Upgrade == INSTANCE MetricUpgrade WITH
    Drivers <- {"sqlite", "mysql", "postgresql"},
    Shapes <- {"points", "partial", "unlinked", "leftover", "broken"}, Points <- 4..7,
    Ghosts <- {6}, LegacyRows <- UpgradeRows, Kept <- UpgradeKept, MinutesIn <- UpgradeTiers,
    Now <- 7, MaxCrashes <- 2, MaxFaults <- 1, driver <- s1, shape <- s2, live <- s3,
    linked <- s4, backups <- s5, shadow <- s6, rows <- s7, points <- s8, defs <- s9,
    shRows <- s10, shDefs <- s11, hot <- s12, after <- s13, op <- s14, pc <- s15, guide <- s16,
    proc <- s17, discarded <- s18, digests <- s19, crashes <- s20, faults <- s21

MCInit ==
    \/ scenario = "reports" /\ Init /\ MCOff(0) /\ CatalogRests
    \/ scenario = "catalog" /\ CatalogInit /\ MCOff(0) /\ ReportsRest
    \/ scenario = "labels" /\ Relabelling!Init /\ MCOff(13) /\ Resting
    \/ scenario = "window" /\ Window!Init /\ MCOff(5) /\ Resting
    \/ scenario = "reads" /\ Reads!Init /\ MCOff(8) /\ Resting
    \/ scenario = "sampling" /\ Samples!Init /\ MCOff(2) /\ Resting
    \/ scenario = "summaries" /\ Rollups!Init /\ MCOff(4) /\ Resting
    \/ scenario = "pings" /\ Pings!Init /\ MCOff(3) /\ Resting
    \/ scenario = "monitoring" /\ Monitoring!Init /\ MCOff(13) /\ Resting
    \/ scenario = "upgrade" /\ Upgrade!Init /\ MCOff(21) /\ Resting
MCNext ==
    \/ scenario = "reports" /\ Next /\ UNCHANGED <<scenario, small, mvars>>
    \/ scenario = "catalog" /\ CatalogNext /\ UNCHANGED <<scenario, small, vars>>
    \/ MCStep("labels", 13, Relabelling!Next)
    \/ MCStep("window", 5, Window!Next)
    \/ MCStep("reads", 8, Reads!Next)
    \/ MCStep("sampling", 2, Samples!Next)
    \/ MCStep("summaries", 4, Rollups!Next)
    \/ MCStep("pings", 3, Pings!Next)
    \/ MCStep("monitoring", 13, Monitoring!Next)
    \/ MCStep("upgrade", 21, Upgrade!Next)
MCSpec == MCInit /\ [][MCNext]_mcVars

-----------------------------------------------------------------------------
(* A replaced sample that moves to another label set leaves no trace where  *)
(* it was: minute rows, window and staged parents stay exact (raw_points.go *)
(* markRawRebuild, hot_rollup.go, coarse_rollup.go).                        *)
RelabelledExact ==
    scenario = "labels" => Relabelling!MinuteExact /\ Relabelling!WindowExact /\ Relabelling!CoarseComposed

(* The packed and direct samples of a series implement the plain window of  *)
(* the samples written last: RawSeries implements RawWindow (raw_points.go).*)
WindowRefined ==
    /\ scenario = "window" => Window!Window!Init
    /\ [][scenario = "window" => [Window!Window!Next]_(Window!Window!vars)]_mcVars

(* A query answers with every sample of its range once, whatever flush or   *)
(* deletion runs meanwhile (batch_series.go, rollup_query.go).              *)
AnswerExact == [][scenario = "reads" => Reads!AnswersAreExact]_mcVars

(* Rows and memory are one view while closed buckets move into the database *)
(* (store.go:63): what was written before the query is in its answer.  The  *)
(* behaviours are those of the readers alone.                               *)
ReadsSpec == scenario = "reads" /\ Reads!Init /\ MCOff(8) /\ Resting /\ [][MCNext]_mcVars
OneQueryableView == Reads!OneQueryableView

(* What is computed from the samples is what the samples say: summaries     *)
(* merged, written, read back and cascaded in any order, rates, latest      *)
(* values and pages (rollup.go, aggregate.go, store.go), the figures of     *)
(* ping tasks (public.metric.go, common.record.go), and answers that are    *)
(* thinned and filled (common.record.go).                                   *)
ComputedExactly ==
    /\ scenario = "sampling" => Samples!ThinnedFairly /\ Samples!FillKeepsPoints
    /\ scenario = "summaries" =>
         Rollups!SummariesExact /\ Rollups!RateIsGrowth /\ Rollups!LatestIsNewest /\ Rollups!PagesAreWhole
    /\ scenario = "pings" => Pings!LossIsExact /\ Pings!ExtremesAreMeasured /\ Pings!FiguresAgree

(* A legacy table is dropped only when its rows are all kept as points; the *)
(* code loses those of a table that was dropped before a run into the same  *)
(* target starts over with the table it shares its hours with               *)
(* (legacy_monitoring.go).                                                  *)
DroppedRowsAreKept == scenario = "monitoring" => Monitoring!DroppedRowsAreKept

(* The structure upgrade keeps the history, never serves a half-built store *)
(* and recognises what an interrupted attempt left (restructure.go).        *)
UpgradeSafe ==
    scenario = "upgrade" => Upgrade!HistoryKept /\ Upgrade!ServesComplete /\ Upgrade!RetryRecognises

(* Readers see the history change in one step only: MetricUpgrade           *)
(* implements AtomicUpgrade.                                                *)
SwitchIsAtomic ==
    /\ scenario = "upgrade" => Upgrade!Atomic!Init
    /\ [][scenario = "upgrade" => [Upgrade!Atomic!Next]_(Upgrade!Atomic!vars)]_mcVars
=============================================================================
