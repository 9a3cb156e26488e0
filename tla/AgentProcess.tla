---------------------------- MODULE AgentProcess ----------------------------
(***************************************************************************)
(* One agent process with --month-rotate: the traffic bookkeeping of       *)
(* netstatic (samples cached, flushed and saved on two tickers), its       *)
(* start from cmd/root.go, auto-discovery, the update check and the        *)
(* shutdown coordinator.  One network interface stands for all; time is    *)
(* counted in days, a month is Month of them.                              *)
(***************************************************************************)
EXTENDS Integers, FiniteSets

CONSTANTS Month, Preserve,    \* days of a counting period; DataPreserveDay
          MaxDay, MaxMoved, MaxAgentFaults, MaxVersion

ASSUME AgentAssumption ==
    /\ Month \in Nat \ {0} /\ Preserve \in Nat
    /\ MaxDay \in Nat /\ MaxMoved \in Nat /\ MaxAgentFaults \in Nat /\ MaxVersion \in Nat

VARIABLES
    proc,      \* "down", "config", "discover", "update", "run", "exited"
    day,       \* the clock
    counter,   \* byte counter of the interface
    moved,     \* ghost: bytes moved, all counters together
    last,      \* lastCounters, -1 when there is none
    cache,     \* staticCache: bytes not flushed
    store,     \* store.Interfaces: bytes per day
    disk,      \* the save file
    running,   \* netstatic samples
    code,      \* exit code asked for, -1 before any shutdown
    closing,   \* shutdown's once body: "no", "stop", "exit"
    owed,      \* ghost: bytes of each day counted when Stop was called and could write
    token, saved, granted,      \* auto-discovery: token in use, in the file, given by the server
    version, newest,            \* version of the binary, newest release
    faults              \* ghost: the save file could not be read; faults so far

gvars == <<proc, day, counter, moved, last, cache, store, disk, running, code, closing, owed,
           token, saved, granted, version, newest, faults>>

Days == 0..MaxDay
Empty == [d \in Days |-> 0]
Bytes(f) == {b \in Days \X (1..MaxMoved) : b[2] <= f[b[1]]}
Total(f) == Cardinality(Bytes(f))

AgentInit ==
    /\ proc = "down" /\ day = 0 /\ counter = 0 /\ moved = 0 /\ last = -1 /\ cache = 0
    /\ store = Empty /\ disk \in {[kind |-> k, days |-> Empty] : k \in {"none", "bad"}}
    /\ running = FALSE /\ code = -1 /\ closing = "no" /\ owed = Empty
    /\ token = 0 /\ saved = 0 /\ granted = 0 /\ version = 1 /\ newest = 1
    /\ faults = 0

Broken == faults < MaxAgentFaults /\ faults' = faults + 1
Works == UNCHANGED faults

-----------------------------------------------------------------------------
\* The world outside: traffic, a counter that starts over, a day, a release.
Traffic ==
    /\ moved < MaxMoved /\ moved' = moved + 1 /\ counter' = counter + 1
    /\ UNCHANGED <<proc, day, last, cache, store, disk, running, code, closing, owed, token,
                   saved, granted, version, newest, faults>>
CounterReset ==
    /\ counter > 0 /\ Broken /\ counter' = 0
    /\ UNCHANGED <<proc, day, moved, last, cache, store, disk, running, code, closing, owed,
                   token, saved, granted, version, newest>>
NextDay ==
    /\ day < MaxDay /\ day' = day + 1
    /\ UNCHANGED <<proc, counter, moved, last, cache, store, disk, running, code, closing, owed,
                   token, saved, granted, version, newest, faults>>
Release ==
    /\ newest < MaxVersion /\ newest' = newest + 1
    /\ UNCHANGED <<proc, day, counter, moved, last, cache, store, disk, running, code, closing,
                   owed, token, saved, granted, version, faults>>

-----------------------------------------------------------------------------
\* netstatic
Unexpired(f) == [d \in Days |-> IF d < day - Preserve THEN 0 ELSE f[d]]
SafeDelta(cur, prev) == IF cur >= prev THEN cur - prev ELSE 0

\* flushCacheLocked: the deltas of the cache become one entry of today.
Flushed == [store EXCEPT ![day] = @ + cache]
\* Faulty variant: the entry is added but the cache is not emptied.
CacheKept == cache
\* ... and the cache is emptied.
CacheCleared == 0

\* saveToFileLocked writes a file beside and renames it: all or nothing.
Saved(f) == [kind |-> "ok", days |-> f]

\* loadFromFileLocked; an unreadable file is an error, a corrupt one is set aside.
Loaded ==
    /\ store' = IF disk.kind = "ok" THEN Unexpired(disk.days) ELSE store
    /\ disk' = IF disk.kind = "bad" THEN [kind |-> "none", days |-> Empty] ELSE disk
    /\ running' = TRUE
StartOrContinue ==
    \/ running /\ Works /\ UNCHANGED <<store, disk, running>>
    \/ ~running /\ Works /\ Loaded
    \/ ~running /\ Broken /\ disk.kind = "ok" /\ UNCHANGED <<store, disk, running>>

StartAgent ==
    /\ proc = "down" /\ proc' = "config"
    /\ StartOrContinue
    /\ UNCHANGED <<day, counter, moved, last, cache, code, closing, owed, token, saved,
                   granted, version, newest>>

\* SetNewConfig writes the file at once, whatever the load returned, and purges afterwards.
SetNewConfig ==
    /\ proc = "config" /\ proc' = "discover"
    /\ disk' = Saved(store) /\ store' = Unexpired(store)
    /\ UNCHANGED <<day, counter, moved, last, cache, running, code, closing, owed, token, saved,
                   granted, version, newest, faults>>

Sample ==
    /\ running /\ proc \notin {"down", "exited"}
    /\ cache' = IF last < 0 THEN cache ELSE cache + SafeDelta(counter, last)
    /\ last' = counter
    /\ UNCHANGED <<proc, day, counter, moved, store, disk, running, code, closing, owed, token,
                   saved, granted, version, newest, faults>>

\* The save ticker: flush, purge, save; a failed save is ignored.
SaveTick ==
    /\ running /\ proc \notin {"down", "exited"}
    /\ store' = Unexpired(Flushed) /\ cache' = CacheCleared
    /\ \/ Works /\ disk' = Saved(Unexpired(Flushed))
       \/ Broken /\ UNCHANGED disk
    /\ UNCHANGED <<proc, day, counter, moved, last, running, code, closing, owed, token, saved,
                   granted, version, newest>>

\* NetworkSpeed of the report loop makes sure netstatic runs.
ReportSpeed ==
    /\ proc = "run" /\ ~running /\ StartOrContinue
    /\ UNCHANGED <<proc, day, counter, moved, last, cache, code, closing, owed, token, saved,
                   granted, version, newest>>
ResetDay == (day \div Month) * Month
MonthTotal == Total([d \in Days |-> IF d >= ResetDay THEN store[d] ELSE 0]) + cache

-----------------------------------------------------------------------------
\* handleAutoDiscovery: the saved token, or a registration that must reach the file.
Discover ==
    /\ proc = "discover" /\ closing = "no"
    /\ IF saved > 0 THEN token' = saved /\ proc' = "update" /\ UNCHANGED <<saved, granted>> /\ Works
       ELSE \/ /\ Works /\ granted' = granted + 1
               /\ saved' = granted' /\ token' = granted' /\ proc' = "update"
            \/ /\ Broken /\ granted' \in {granted, granted + 1}
               /\ proc' = "exited" /\ UNCHANGED <<saved, token>>
    /\ UNCHANGED <<day, counter, moved, last, cache, store, disk, running, code, closing, owed,
                   version, newest>>

Higher(c) == IF c > code THEN c ELSE code
\* shutdown(c): the code is raised, the body runs once.
Shut(c) == code' = Higher(c) /\ closing' = (IF closing = "no" THEN "stop" ELSE closing)

\* CheckAndUpdate, at the start and on a ticker: nothing newer, an error, or installed.
CheckUpdate ==
    /\ proc \in {"update", "run"} /\ code < 42
    /\ \/ /\ version = newest \/ faults < MaxAgentFaults
          /\ proc' = "run" /\ faults' = IF version = newest THEN faults ELSE faults + 1
          /\ UNCHANGED <<version, code, closing>>
       \/ version # newest /\ Works /\ version' = newest /\ Shut(42) /\ UNCHANGED proc
    /\ UNCHANGED <<day, counter, moved, last, cache, store, disk, running, owed, token, saved,
                   granted, newest>>

Signal ==
    /\ proc \notin {"down", "exited"} /\ code < 0 /\ Shut(0)
    /\ UNCHANGED <<proc, day, counter, moved, last, cache, store, disk, running, owed, token,
                   saved, granted, version, newest, faults>>

\* The once body: netstatic.Stop, then the exit code is read and the process ends.
StopAgent ==
    /\ closing = "stop" /\ proc \notin {"down", "exited"} /\ closing' = "exit"
    /\ IF ~running THEN Works /\ UNCHANGED <<store, cache, disk, running, owed>>
       ELSE /\ running' = FALSE /\ store' = Unexpired(Flushed) /\ cache' = 0
            /\ \/ Works /\ disk' = Saved(Unexpired(Flushed)) /\ owed' = Unexpired(Flushed)
               \/ Broken /\ UNCHANGED <<disk, owed>>
    /\ UNCHANGED <<proc, day, counter, moved, last, code, token, saved, granted, version, newest>>
Exit ==
    /\ closing = "exit" /\ proc \notin {"down", "exited"} /\ proc' = "exited"
    /\ UNCHANGED <<day, counter, moved, last, cache, store, disk, running, code, closing, owed,
                   token, saved, granted, version, newest, faults>>

\* The process is killed; the supervisor starts it again, also after an exit.
Kill ==
    /\ proc \notin {"down", "exited"} /\ Broken /\ proc' = "exited"
    /\ UNCHANGED <<day, counter, moved, last, cache, store, disk, running, code, closing, owed,
                   token, saved, granted, version, newest>>
Again ==
    /\ proc = "exited" /\ proc' = "down"
    /\ last' = -1 /\ cache' = 0 /\ store' = Empty /\ running' = FALSE
    /\ code' = -1 /\ closing' = "no" /\ owed' = Empty /\ token' = 0
    /\ UNCHANGED <<day, counter, moved, disk, saved, granted, version, newest, faults>>

AgentNext ==
    \/ Traffic \/ CounterReset \/ NextDay \/ Release
    \/ StartAgent \/ SetNewConfig \/ Sample \/ SaveTick \/ ReportSpeed
    \/ Discover \/ CheckUpdate \/ Signal \/ StopAgent \/ Exit \/ Kill \/ Again

AgentSpec == AgentInit /\ [][AgentNext]_gvars

-----------------------------------------------------------------------------
\* What the agent counts was moved, once: over restarts, crashes, failed saves, a counter that
\* starts over and days that are purged, neither the month's total it reports nor the save file
\* ever exceeds the traffic there was.
TrafficCountedOnce == /\ MonthTotal <= moved /\ Total(store) + cache <= moved
                      /\ Total(disk.days) <= moved

\* A shutdown loses nothing that was counted when it began, whatever failed before and whatever
\* still runs while it ends, unless its own write fails: at the exit the file holds at least that
\* much of every day that has not expired since.
ExitSaves ==
    (proc = "exited" /\ closing = "exit") =>
        \A d \in Days : d >= day - Preserve => disk.days[d] >= owed[d]

\* The agent counts traffic once and saves it when it exits (static.go, shutdown.go).
AgentCounts == TrafficCountedOnce /\ ExitSaves
=============================================================================
