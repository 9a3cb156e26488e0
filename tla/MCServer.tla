--------------------------- MODULE MCServer ----------------------------------
(***************************************************************************)
(* Small instances of the components around the server that share no state *)
(* with one another; one run of TLC checks them all.  The scenario is      *)
(* chosen once: every behaviour is a behaviour of one component, and its   *)
(* variables are those of that component.                                  *)
(***************************************************************************)
EXTENDS EventQueue, BackupRestore, PingResults, AgentProcess, TLC

VARIABLES scenario,   \* the component this behaviour is of
          s1, s2, s3, s4, s5, s6, s7, s8, s9, s10, s11, s12, s13, s14, s15, s16   \* its variables
small == <<s1, s2, s3, s4, s5, s6, s7, s8, s9, s10, s11, s12, s13, s14, s15, s16>>
mcVars == <<scenario, small, vars, bvars, pingVars, gvars>>

\* A component of n variables uses s1..sn and leaves the others off.
MCOff(n) ==
    /\ IF n < 1 THEN s1 = "off" ELSE TRUE
    /\ IF n < 2 THEN s2 = "off" ELSE TRUE
    /\ IF n < 3 THEN s3 = "off" ELSE TRUE
    /\ IF n < 4 THEN s4 = "off" ELSE TRUE
    /\ IF n < 5 THEN s5 = "off" ELSE TRUE
    /\ IF n < 6 THEN s6 = "off" ELSE TRUE
    /\ IF n < 7 THEN s7 = "off" ELSE TRUE
    /\ IF n < 8 THEN s8 = "off" ELSE TRUE
    /\ IF n < 9 THEN s9 = "off" ELSE TRUE
    /\ IF n < 10 THEN s10 = "off" ELSE TRUE
    /\ IF n < 11 THEN s11 = "off" ELSE TRUE
    /\ IF n < 12 THEN s12 = "off" ELSE TRUE
    /\ IF n < 13 THEN s13 = "off" ELSE TRUE
    /\ IF n < 14 THEN s14 = "off" ELSE TRUE
    /\ IF n < 15 THEN s15 = "off" ELSE TRUE
    /\ IF n < 16 THEN s16 = "off" ELSE TRUE
MCKeep(n) ==
    /\ IF n < 1 THEN UNCHANGED s1 ELSE TRUE
    /\ IF n < 2 THEN UNCHANGED s2 ELSE TRUE
    /\ IF n < 3 THEN UNCHANGED s3 ELSE TRUE
    /\ IF n < 4 THEN UNCHANGED s4 ELSE TRUE
    /\ IF n < 5 THEN UNCHANGED s5 ELSE TRUE
    /\ IF n < 6 THEN UNCHANGED s6 ELSE TRUE
    /\ IF n < 7 THEN UNCHANGED s7 ELSE TRUE
    /\ IF n < 8 THEN UNCHANGED s8 ELSE TRUE
    /\ IF n < 9 THEN UNCHANGED s9 ELSE TRUE
    /\ IF n < 10 THEN UNCHANGED s10 ELSE TRUE
    /\ IF n < 11 THEN UNCHANGED s11 ELSE TRUE
    /\ IF n < 12 THEN UNCHANGED s12 ELSE TRUE
    /\ IF n < 13 THEN UNCHANGED s13 ELSE TRUE
    /\ IF n < 14 THEN UNCHANGED s14 ELSE TRUE
    /\ IF n < 15 THEN UNCHANGED s15 ELSE TRUE
    /\ IF n < 16 THEN UNCHANGED s16 ELSE TRUE
MCStep(name, n, A) == scenario = name /\ A /\ MCKeep(n) /\ UNCHANGED <<scenario, vars, bvars, pingVars, gvars>>

\* The components this module extends have their own variables, and rest in an
\* initial state while the behaviour is of another component.
EventsRest == Init
RestoreRests == RestoreInit /\ ~wizard
ResultsRest == ResultsInit /\ \A r \in Results : taskOf[r] \in TcpTasks
AgentRests == AgentInit /\ disk.kind = "none"
Resting == EventsRest /\ RestoreRests /\ ResultsRest /\ AgentRests

\* What a script finds: a file outside its roots, a file and a directory in the
\* first root, perhaps a link in that directory, and a second root.
Directory == [kind |-> "dir", up |-> 0, down |-> <<>>]
File == [kind |-> "file", up |-> 0, down |-> <<>>]
Bare == (<<"a">> :> File) @@ (<<"base">> :> Directory) @@ (<<"base", "a">> :> File)
        @@ (<<"base", "b">> :> Directory) @@ (<<"ext">> :> Directory)
Linked == Bare @@ (<<"base", "b", "a">> :> [kind |-> "link", up |-> 1, down |-> <<"a">>])

\* Where a script that only works on names may be.
PathDirectories == {[vol |-> <<>>, dir |-> <<"b">>], [vol |-> <<"C:">>, dir |-> <<"a", "b", "b", "b", "b">>]}

\* What it does with them: names are relative, but for one in the second root.
Name(up, down) == [root |-> <<>>, up |-> up, down |-> down]
A == Name(0, <<"a">>)
B == Name(0, <<"b">>)
BA == Name(0, <<"b", "a">>)
Async(op, names) == [op |-> op, sync |-> FALSE, names |-> names]
Sync(op, names) == [op |-> op, sync |-> TRUE, names |-> names]
FileCalls ==
    {Sync("chdir", <<B>>), Async("read", <<A>>), Async("read", <<Name(1, <<"a">>)>>), Sync("write", <<BA>>),
     Async("write", <<A>>), Async("unlink", <<BA>>), Async("unlink", <<A>>), Sync("rm", <<B>>),
     Async("rename", <<BA, A>>), Sync("symlink", <<A, BA>>), Async("mkdir", <<A>>), Async("mkdirp", <<BA>>),
     Async("copy", <<A, [root |-> <<"ext">>, up |-> 0, down |-> <<"a">>]>>)}

\* The theme market offers a version, or names an older one that it does not offer.
Archive(v, m, i) == [short |-> "t", version |-> v, manifest |-> m, index |-> i]
ThemeArchives == {Archive(1, TRUE, TRUE), Archive(2, TRUE, TRUE), Archive(2, FALSE, TRUE), Archive(1, TRUE, FALSE)}
Offer(v, installable, w) == [entry |-> [short |-> "t", version |-> v, installable |-> installable],
                             archive |-> Archive(w, TRUE, TRUE)]
ThemeOffers == {Offer(2, TRUE, 2), Offer(1, FALSE, 1)}

\* Saved together: settings whose handlers take the event's value and one that is
\* loaded anew, like the provider saved with the setting that had no value yet.
SettingEdits == {{"oauth", "origins", "geoip"}, {"sender", "lazy"}}

Timetable == INSTANCE Schedules WITH
    PingTasks <- {1}, LoadTasks <- {2}, Clients <- {1, 2}, ClientSets <- {{1}, {1, 2}},
    Editors <- {1, 2}, Intervals <- {1, 2}, MaxTime <- 1, MaxJobs <- 3, MaxCalls <- 2,
    clock <- s1, rows <- s2, calls <- s3, jobs <- s4, runs <- s5, made <- s6, clean <- s7
Renewal == INSTANCE Renewals WITH
    Clients <- {"c1"}, MaxDay <- 2, Dates <- {0, 2}, Cycle <- 3, LongAgo <- 1, LeadDays <- 1,
    day <- s1, connected <- s2, expiry <- s3, renewer <- s4, touched <- s5
Plugin == INSTANCE Plugins WITH
    Admins <- {"a1", "a2"}, Packages <- {"v1", "v2"}, Broken <- {"v2"}, Guarded <- {"v1"},
    None <- "none", MaxLoads <- 3, MaxOps <- 3, live <- s1, loads <- s2, inst <- s3, hooks <- s4,
    rpc <- s5, jobs <- s6, dir <- s7, saved <- s8, req <- s9, ops <- s10
Market == INSTANCE PluginMarket WITH
    Requests <- {"r1", "r2"}, URLs <- {"u", "w"}, Versions <- {1, 2}, TTL <- 1, MaxTime <- 1,
    sources <- s1, catalog <- s2, package <- s3, cache <- s4, req <- s5, installed <- s6,
    now <- s7, clock <- s8
Response == INSTANCE ResponseBuffers WITH
    MaxOps <- 3, HookLimit <- 1, InjectLimit <- 2, NoHeader <- 0, stage <- s1, wraps <- s2,
    hw <- s3, iw <- s4, net <- s5, wrote <- s6, rewritten <- s7, flushed <- s8
Files == INSTANCE ConfinedFiles WITH
    Base <- <<"base">>, Extras <- {<<"ext">>}, Trees <- {Bare, Linked}, Calls <- FileCalls,
    Slots <- {1, 2}, MaxCalls <- 3, tree <- s1, cwd <- s2, closed <- s3, calls <- s4,
    acted <- s5, made <- s6
Paths == INSTANCE PathNames WITH
    Names <- {"a"}, Drives <- {"C:", "D:"}, Directories <- PathDirectories, MaxTokens <- 6,
    windows <- s1, cwd <- s2, args <- s3
ScriptCall == INSTANCE ScriptCalls WITH
    Callers <- {"c1", "c2"}, MaxCalls <- 3, calls <- s1, waiting <- s2, answers <- s3,
    mutex <- s4, turn <- s5, closed <- s6
Exchange == INSTANCE HttpExchange WITH
    Requests <- {"r1", "r2"}, Codes <- {200, 404}, MaxChunks <- 1, pc <- s1, state <- s2,
    script <- s3, sent <- s4, open <- s5
Fetching == INSTANCE FetchSignals WITH
    Requests <- {"r1", "r2"}, Signals <- {"g1", "g2"}, NoSignal <- "none", requests <- s1,
    table <- s2, aborted <- s3, loop <- s4
Frames == INSTANCE FrameHooks WITH
    Chain <- 2, Writers <- {"w1"}, MaxFrames <- 2, MaxDropped <- 2, MaxTimeouts <- 2, conn <- s1,
    closing <- s2, frames <- s3, reader <- s4, mutex <- s5, jobs <- s6, running <- s7,
    open <- s8, out <- s9, timeouts <- s10
Child == INSTANCE ChildStreams WITH
    Limits <- {1, 2}, MaxOutput <- 3, MaxInput <- 2, child <- s1, pipe <- s2, wrote <- s3,
    reader <- s4, kept <- s5, jobs <- s6, seen <- s7, input <- s8, loop <- s9
Theme == INSTANCE Themes WITH
    Requests <- {"r1", "r2"}, Shorts <- {"t"}, Versions <- {1, 2}, Archives <- ThemeArchives,
    Remotes <- ThemeOffers, MaxInstalls <- 3, MaxEdits <- 1, MaxKills <- 1, dir <- s1,
    rollback <- s2, aside <- s3, req <- s4, setting <- s5, choosing <- s6, source <- s7,
    remote <- s8, cache <- s9, wanted <- s10, displaced <- s11, installs <- s12, edits <- s13,
    kills <- s14
Setting == INSTANCE Settings WITH
    Tasks <- {"t1", "t2"}, Values <- {"a", "b"}, Default <- "a", Edits <- SettingEdits,
    MaxOps <- 3, stored <- s1, saved <- s2, task <- s3, events <- s4, loaders <- s5,
    origins <- s6, provider <- s7, raced <- s8, running <- s9, ops <- s10
Startup == INSTANCE StartupMigrations WITH
    Clients <- {"c1", "c2"}, Tasks <- {"t1"}, Zones <- {0, 8}, LegacyZone <- 8, MaxFaults <- 2,
    MaxStarts <- 3, pc <- s1, legacy <- s2, zone <- s3, configs <- s4, tables <- s5,
    providers <- s6, stamp <- s7, infos <- s8, copied <- s9, alerts <- s10, clients <- s11,
    tasks <- s12, chosen <- s13, unread <- s14, starts <- s15, faults <- s16

MCInit ==
    \/ scenario = "events" /\ Init /\ MCOff(0) /\ RestoreRests /\ ResultsRest /\ AgentRests
    \/ scenario = "restore" /\ RestoreInit /\ MCOff(0) /\ EventsRest /\ ResultsRest /\ AgentRests
    \/ scenario = "results" /\ ResultsInit /\ taskOf[1] \in TcpTasks /\ MCOff(0) /\ EventsRest /\ RestoreRests /\ AgentRests
    \/ scenario = "agent" /\ AgentInit /\ MCOff(0) /\ EventsRest /\ RestoreRests /\ ResultsRest
    \/ scenario = "schedules" /\ Timetable!Init /\ MCOff(7) /\ Resting
    \/ scenario = "renewals" /\ Renewal!Init /\ MCOff(5) /\ Resting
    \/ scenario = "plugins" /\ Plugin!Init /\ MCOff(10) /\ Resting
    \/ scenario = "market" /\ Market!Init /\ MCOff(8) /\ Resting /\ \A s \in s1 : s.url = "u"
    \/ scenario = "responses" /\ Response!Init /\ MCOff(8) /\ Resting
    \/ scenario = "files" /\ Files!Init /\ MCOff(6) /\ Resting
    \/ scenario = "paths" /\ Paths!Init /\ MCOff(3) /\ Resting
    \/ scenario = "calls" /\ ScriptCall!Init /\ MCOff(6) /\ Resting
    \/ scenario = "exchange" /\ Exchange!Init /\ MCOff(5) /\ Resting
    \/ scenario = "fetch" /\ Fetching!Init /\ MCOff(4) /\ Resting
    \/ scenario = "frames" /\ Frames!Init /\ MCOff(10) /\ Resting
    \/ scenario = "child" /\ Child!Init /\ MCOff(9) /\ Resting
    \/ scenario = "themes" /\ Theme!Init /\ MCOff(14) /\ Resting
    \/ scenario = "settings" /\ Setting!Init /\ MCOff(10) /\ Resting
    \/ scenario = "startup" /\ Startup!Init /\ MCOff(16) /\ Resting
MCNext ==
    \/ scenario = "events" /\ Next /\ UNCHANGED <<scenario, small, bvars, pingVars, gvars>>
    \/ scenario = "restore" /\ RestoreNext /\ UNCHANGED <<scenario, small, vars, pingVars, gvars>>
    \/ scenario = "results" /\ ResultsNext /\ UNCHANGED <<scenario, small, vars, bvars, gvars>>
    \/ scenario = "agent" /\ AgentNext /\ UNCHANGED <<scenario, small, vars, bvars, pingVars>>
    \/ MCStep("schedules", 7, Timetable!Next)
    \/ MCStep("renewals", 5, Renewal!Next)
    \/ MCStep("plugins", 10, Plugin!Next)
    \/ MCStep("market", 8, Market!Next)
    \/ MCStep("responses", 8, Response!Next)
    \/ MCStep("files", 6, Files!Next)
    \/ MCStep("paths", 3, Paths!Next)
    \/ MCStep("calls", 6, ScriptCall!Next)
    \/ MCStep("exchange", 5, Exchange!Next)
    \/ MCStep("fetch", 4, Fetching!Next)
    \/ MCStep("frames", 10, Frames!Next)
    \/ MCStep("child", 9, Child!Next)
    \/ MCStep("themes", 14, Theme!Next)
    \/ MCStep("settings", 10, Setting!Next)
    \/ MCStep("startup", 16, Startup!Next)
MCSpec == MCInit /\ [][MCNext]_mcVars

-----------------------------------------------------------------------------
(* A replaced job dispatches at most one more ping, and the jobs hold the   *)
(* rows of the tables once the calls that edit them have ended              *)
(* (scheduler.go, pingSchedule.go).                                         *)
ScheduleFollows == scenario = "schedules" => Timetable!OneLatePing /\ Timetable!ScheduleCurrent

(* However many checks see a date that is due, it moves once (renewal.go).  *)
RenewedOnce == [][scenario = "renewals" => Renewal!RenewsDueOnce]_mcVars

(* No request, load, failure or overlap leaves a runtime, job, method or    *)
(* hook behind, and a failed update puts the old version back (plugin.go,   *)
(* install.go).  The market installs what is listed now, from sources that  *)
(* stay distinct (plugin_market.go).                                        *)
PluginsSettle ==
    /\ scenario = "plugins" => Plugin!NothingLeaks /\ Plugin!FailedUpdateRollsBack
    /\ scenario = "market" => Market!SourcesDistinct /\ Market!InstalledIsCurrent

(* Buffering for hooks and injection never alters, repeats or drops what    *)
(* the application wrote (hook.go, inject.go).  What scripts exchange comes *)
(* out as it was made: an answer goes to its own call, a request is         *)
(* answered by all its chunks, a fetch that was aborted brings nothing, and *)
(* output and input of a child keep their order (runtime.go, http.go,       *)
(* fetch.go, child_process.go).  Frames keep their order through the hooks, *)
(* and a drop that came in time is the only way to lose one (wshook.go,     *)
(* safe_conn.go).                                                           *)
ExchangesIntact ==
    /\ scenario = "responses" => Response!ResponseIntact
    /\ scenario = "calls" => ScriptCall!OwnAnswer /\ ScriptCall!CloseCutsNobody
    /\ scenario = "exchange" => Exchange!AnswerIsWhole
    /\ scenario = "fetch" => Fetching!AbortWins /\ Fetching!TableIsCurrent
    /\ scenario = "frames" => Frames!FramesInOrder /\ Frames!ChainInOrder /\ Frames!EndToldOnce
    /\ scenario = "frames" => Frames!GivesUpFiltered
    /\ scenario = "child" => Child!StreamsInOrder /\ Child!ExecTellsTheLimit

(* Whatever becomes of directories and links meanwhile, a call of a script  *)
(* stays in its roots and on what its name meant, and removes the entry of  *)
(* the name (fs.go, root.go).  What the path module makes of names, posix   *)
(* or win32, leads to the place the names lead to (path.go).                *)
FilesConfined ==
    /\ scenario = "files" => Files!Confined /\ Files!NamedAtCall /\ Files!RemovesTheEntry
    /\ scenario = "paths" => Paths!ResolveWalks /\ Paths!NormalizeKeeps /\ Paths!JoinWalks
    /\ scenario = "paths" => Paths!RelativeLeads /\ Paths!PartsLead

(* What is in force is what the table says, but for settings whose edits    *)
(* overlapped (config.go, reload.go). The version of a theme installed last *)
(* is not destroyed until it is deleted: it is in place or lies whole in a  *)
(* rollback directory, and a theme is out of place only after a kill or a   *)
(* failed rename (theme.go).                                                *)
SettledInForce ==
    /\ scenario = "settings" => Setting!SettledInForce
    /\ scenario = "themes" => Theme!ThemeKept

(* No crash point of the start-up migrations loses or shifts data.          *)
UpgradeKeepsData == scenario = "startup" => Startup!UpgradeKeepsData
=============================================================================
