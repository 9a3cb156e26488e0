--------------------------- MODULE MCLiveness --------------------------------
(***************************************************************************)
(* Small instances of the components with something that must happen in    *)
(* the end, under the fairness of each; one run of TLC checks them all.    *)
(* The scenario is chosen once: every behaviour is a behaviour of one      *)
(* component, and its variables are those of that component.               *)
(***************************************************************************)
EXTENDS Integers, Sequences, FiniteSets, TLC

VARIABLES scenario,   \* the component this behaviour is of
          s1, s2, s3, s4, s5, s6, s7, s8, s9, s10, s11, s12, s13, s14, s15, s16, s17, s18, s19,
          s20, s21   \* its variables
vars == <<scenario, s1, s2, s3, s4, s5, s6, s7, s8, s9, s10, s11, s12, s13, s14, s15, s16, s17, s18, s19, s20, s21>>

\* A component of n variables uses s1..sn and leaves the others off.
Off(n) ==
    /\ IF n < 12 THEN s12 = "off" ELSE TRUE
    /\ IF n < 13 THEN s13 = "off" ELSE TRUE
    /\ IF n < 14 THEN s14 = "off" ELSE TRUE
    /\ IF n < 15 THEN s15 = "off" ELSE TRUE
    /\ IF n < 16 THEN s16 = "off" ELSE TRUE
    /\ IF n < 17 THEN s17 = "off" ELSE TRUE
    /\ IF n < 18 THEN s18 = "off" ELSE TRUE
    /\ IF n < 19 THEN s19 = "off" ELSE TRUE
    /\ IF n < 20 THEN s20 = "off" ELSE TRUE
    /\ IF n < 21 THEN s21 = "off" ELSE TRUE
Keep(n) ==
    /\ IF n < 12 THEN UNCHANGED s12 ELSE TRUE
    /\ IF n < 13 THEN UNCHANGED s13 ELSE TRUE
    /\ IF n < 14 THEN UNCHANGED s14 ELSE TRUE
    /\ IF n < 15 THEN UNCHANGED s15 ELSE TRUE
    /\ IF n < 16 THEN UNCHANGED s16 ELSE TRUE
    /\ IF n < 17 THEN UNCHANGED s17 ELSE TRUE
    /\ IF n < 18 THEN UNCHANGED s18 ELSE TRUE
    /\ IF n < 19 THEN UNCHANGED s19 ELSE TRUE
    /\ IF n < 20 THEN UNCHANGED s20 ELSE TRUE
    /\ IF n < 21 THEN UNCHANGED s21 ELSE TRUE
Step(name, n, A) == scenario = name /\ A /\ Keep(n) /\ UNCHANGED scenario

\* Two days of four minutes and two hours each.  The hours of the first day are
\* half pruned, the last minute is open, one point has no definition and one
\* minute has a stored row besides its point.
UpgradeRows == (<<"minute", 5>> :> {5}) @@ (<<"hour", 1>> :> {2, 3}) @@ (<<"hour", 2>> :> {4, 5})
               @@ (<<"day", 0>> :> {0, 1, 2, 3}) @@ (<<"day", 1>> :> {4, 5})
UpgradeKept == {<<"minute", m>> : m \in 5..7} \cup {<<"hour", h>> : h \in 1..3} \cup {<<"day", d>> : d \in 0..1}
UpgradeTiers == ("minute" :> 1) @@ ("hour" :> 2) @@ ("day" :> 4)

Store == INSTANCE RollupStore WITH
    Minute <- 2, Direct <- 2, RawWindow <- 2, Grace <- 2, Width <- <<4>>, Labels <- {"a"},
    Values <- {"v"}, Cutoffs <- {}, Stamps <- {0, 1, 2}, MaxTime <- 7, MaxWrites <- 2,
    MaxBatch <- 1, MaxRestarts <- 1, now <- s1, raw <- s2, hot <- s3, replace <- s4, row <- s5,
    staged <- s6, sealed <- s7, pc <- s8, writes <- s9, restarts <- s10, last <- s11,
    dirty <- s12, gaps <- s13
Upgrade == INSTANCE MetricUpgrade WITH
    Drivers <- {"sqlite", "mysql", "postgresql"},
    Shapes <- {"points", "partial", "unlinked", "leftover", "broken"}, Points <- 4..7,
    Ghosts <- {6}, LegacyRows <- UpgradeRows, Kept <- UpgradeKept, MinutesIn <- UpgradeTiers,
    Now <- 7, MaxCrashes <- 2, MaxFaults <- 1, driver <- s1, shape <- s2, live <- s3,
    linked <- s4, backups <- s5, shadow <- s6, rows <- s7, points <- s8, defs <- s9,
    shRows <- s10, shDefs <- s11, hot <- s12, after <- s13, op <- s14, pc <- s15, guide <- s16,
    proc <- s17, discarded <- s18, digests <- s19, crashes <- s20, faults <- s21
Presence == INSTANCE AgentPresence WITH
    Conns <- {"c1", "c2"}, V2Conns <- {"c2"}, Sessions <- {"p1"}, TTL <- 1, Grace <- 1,
    MaxReports <- 1, pc <- s1, clients <- s2, v2 <- s3, presence <- s4, entry <- s5, fired <- s6,
    expired <- s7, used <- s8, state <- s9, onlines <- s10, timers <- s11, enabled <- s12,
    known <- s13, reports <- s14, latest <- s15, fresh <- s16, since <- s17
Script == INSTANCE JsRuntime WITH
    MaxHandles <- 2, MaxCalls <- 3, h <- s1, made <- s2, resources <- s3, refused <- s4,
    fsClosed <- s5, server <- s6, calls <- s7, turn <- s8, loop <- s9, closing <- s10,
    taken <- s11
Batch == INSTANCE ReportBatcher WITH
    MaxReports <- 1, MaxTotal <- 1, MaxUptime <- 1, QueueSize <- 1, pc <- s1, total <- s2,
    uptime <- s3, registered <- s4, stopping <- s5, queue <- s6, requests <- s7, wstate <- s8,
    current <- s9, pending <- s10, flush <- s11, stop <- s12, traffic <- s13, stored <- s14,
    plan <- s15, committed <- s16, dropped <- s17, lookupFailed <- s18

Init ==
    \/ scenario = "store" /\ Store!Init /\ Off(13)
    \/ scenario = "upgrade" /\ Upgrade!Init /\ Off(21)
    \/ scenario = "presence" /\ Presence!Init /\ Off(17)
    \/ scenario = "script" /\ Script!Init /\ Off(11)
    \/ scenario = "reports" /\ Batch!Init /\ Off(18)
Next ==
    \/ Step("store", 13, Store!Next)
    \/ Step("upgrade", 21, Upgrade!Next)
    \/ Step("presence", 17, Presence!Next)
    \/ Step("script", 11, Script!Next)
    \/ Step("reports", 18, Batch!Next)
Spec == Init /\ [][Next]_vars

-----------------------------------------------------------------------------
(* The fairness of each component, as its module states it: the scheduler   *)
(* keeps flushing and the database fails only finitely often in a row;      *)
(* goroutines and timers run and a silent connection ends; the upgrade's    *)
(* goroutine and the start of the process run; the script's loop and the    *)
(* goroutines of its handles run; the batch worker's ticker keeps ticking,  *)
(* and a store that is asked again and again answers at last.               *)
FairSpec ==
    /\ Spec
    /\ WF_vars(Step("store", 13, Store!FlushCoarse))
    /\ SF_vars(Step("store", 13, Store!Flush(TRUE)))
    /\ SF_vars(Step("store", 13, Store!SealTier(1)))
    /\ WF_vars(Step("presence", 17, Presence!Tick))
    /\ WF_vars(Step("presence", 17, Presence!TimerFires))
    /\ WF_vars(Step("presence", 17, Presence!CallbackRuns))
    /\ WF_vars(Step("presence", 17, Presence!GraceEnds))
    /\ WF_vars(Step("presence", 17, Presence!ClearPresence("p1")))
    /\ WF_vars(Step("presence", 17, Presence!NotifyExpired("p1")))
    /\ \A c \in {"c1", "c2"} :
         /\ WF_vars(Step("presence", 17, Presence!Register(c)))
         /\ WF_vars(Step("presence", 17, Presence!Announce(c)))
         /\ WF_vars(Step("presence", 17, Presence!SocketFails(c)))
         /\ WF_vars(Step("presence", 17, Presence!Remove(c)))
         /\ WF_vars(Step("presence", 17, Presence!End(c)))
    /\ \A id \in {"c1", "c2", "p1"} : WF_vars(Step("presence", 17, Presence!RunOnline(id)))
    /\ WF_vars(Step("script", 11, Script!Next))
    /\ WF_vars(Step("upgrade", 21, Upgrade!Work)) /\ WF_vars(Step("upgrade", 21, Upgrade!Startup))
    /\ WF_vars(Step("reports", 18, Batch!Tick \/ Batch!TakeRequest))
    /\ WF_vars(Step("reports", 18, Batch!WriteNothing))
    /\ SF_vars(Step("reports", 18, Batch!WritePending("written")))

(* Closed minutes leave memory and due parents are sealed in the end, late  *)
(* flushes, failures and a restart notwithstanding (hot_rollup.go,          *)
(* coarse_rollup.go).                                                       *)
Drains == <>[](scenario = "store" => Store!Settled)

(* An agent that goes away is shown offline in the end, and its outage is   *)
(* settled (report.go, offline.go).                                         *)
GoesOffline ==
    /\ <>[](scenario = "presence" => ~Presence!Online)
    /\ (scenario = "presence" /\ Presence!Pending) ~> (scenario = "presence" /\ ~Presence!Pending)

(* A structure upgrade that was started ends, whatever fails: the guide is  *)
(* not left active, which would refuse every retry (migration.go).          *)
UpgradeEnds ==
    /\ (scenario = "upgrade" /\ Upgrade!Runs) ~> (scenario = "upgrade" /\ Upgrade!Ended)
    /\ (scenario = "upgrade" /\ Upgrade!Completed) ~> (scenario = "upgrade" /\ Upgrade!Left)

(* Once a script's runtime is closed nothing it opened outlives the         *)
(* goroutines that hold it, whenever Close comes (jsruntime/runtime.go),    *)
(* and a server closed while its listen was in progress keeps no port       *)
(* (net.go).                                                                *)
CloseReleases ==
    /\ [](scenario = "script" => Script!ClosedServerKeepsNoPort)
    /\ (scenario = "script" /\ Script!IsClosed) ~> (scenario = "script" /\ Script!AllReleased)

(* An accepted report is written in the end, unless the worker gave it up   *)
(* when it stopped (report_batcher.go).                                     *)
Delivered ==
    (scenario = "reports" /\ Batch!Accepted(1)) ~> (scenario = "reports" /\ Batch!SettledFor(1))
=============================================================================
