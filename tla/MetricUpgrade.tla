---------------------------- MODULE MetricUpgrade ----------------------------
(* The structure upgrade of the metric store (pkg/metric/restructure.go), the *)
(* guide that starts it (web/migration) and the startup that waits for it.    *)
(* A store of an earlier version is rebuilt in shadow tables, which replace   *)
(* the managed ones in one transaction (SQLite, PostgreSQL) or in one         *)
(* multi-table RENAME between single DDL statements (MySQL).  Each statement  *)
(* or transaction is a step; after each the process may crash or the          *)
(* statement may fail, and the administrator tries again.                     *)
(*                                                                            *)
(* A row of the rollup table is the multiset of samples it aggregates: a      *)
(* function from samples to how often each is counted.                        *)
EXTENDS Integers, Sequences, FiniteSetsExt, TLC

CONSTANTS
  Drivers,      \* the database drivers in use
  Shapes,       \* the stored layouts the store may be found with
  Points,       \* samples of the legacy point table, in id order: minutes
  Ghosts,       \* the points whose metric has no definition
  LegacyRows,   \* the rollup rows of the stored layout: <<tier, bucket>> -> samples
  Kept,         \* the keys that retention still keeps
  MinutesIn,    \* tier -> minutes per bucket
  Now,          \* the minute the upgrade runs in, still open
  MaxCrashes,   \* bound: crashes of the process
  MaxFaults     \* bound: statements that fail

Tables == <<"points", "watermarks", "rollups", "dictionaries", "definitions", "state">>
Required == {"definitions", "dictionaries", "rollups"}
Samples == Points \cup UNION {LegacyRows[k] : k \in DOMAIN LegacyRows}
Key(tier, p) == <<tier, p \div MinutesIn[tier]>>
Keys == {Key(tier, p) : tier \in DOMAIN MinutesIn, p \in Samples}
NoRow == [p \in Samples |-> 0]
NoRows == [k \in Keys |-> NoRow]
Once(ps) == [p \in Samples |-> IF p \in ps THEN 1 ELSE 0]
Sum2(r, q) == [p \in Samples |-> r[p] + q[p]]
Stored == [k \in Keys |-> IF k \in DOMAIN LegacyRows THEN Once(LegacyRows[k]) ELSE NoRow]

VARIABLES
  driver,    \* the configured driver
  shape,     \* the layout the store was found with
  live,      \* layout of each managed table: "none", "legacy" or "new"
  linked,    \* the managed tables carry their foreign keys
  backups,   \* MySQL: the tables kept under their _legacy name
  shadow,    \* the rebuild_ tables that exist
  rows,      \* rows of the managed rollup table
  points,    \* points of the managed point table
  defs,      \* the metric definitions can be read from the managed table
  shRows,    \* rows of the shadow rollup table
  shDefs,    \* the definitions are in the shadow table
  hot,       \* open minutes held in memory by the shadow store
  after,     \* id of the last point read
  op,        \* "restructure", "discard" or "none"
  pc,        \* the next statement of the operation
  guide,     \* the status the guide shows
  proc,      \* "down", "boot", "guide" or "serving"
  discarded, \* an administrator asked to discard the history
  digests,   \* SQLite: the rowid cursor of the digest pass, -1 when finished
  crashes, faults

tables == <<live, linked, backups, rows, points, defs>>
shadows == <<shadow, shRows, shDefs, hot, after>>
bounds == <<crashes, faults>>
fixed == <<driver, shape>>
vars == <<fixed, tables, shadows, op, pc, guide, proc, discarded, digests, bounds>>

Active == {"copying", "discarding", "reclaiming"}

(* metricSchemaShape: what the statements of inspectSchema find.              *)
ColumnsComplete == \A t \in Required : live[t] = "new"
Complete == ColumnsComplete /\ linked
Leftover == live["points"] # "none" \/ live["watermarks"] # "none" \/ backups # {}
(* Faulty variant: missing relationships are no reason to rebuild.            *)
NeedsRestructureIgnoringLinks ==
  IF ColumnsComplete THEN Leftover ELSE \E t \in Required \cup {"points", "watermarks"} : live[t] # "none"

NeedsRestructure ==
  IF Complete THEN Leftover ELSE \E t \in Required \cup {"points", "watermarks"} : live[t] # "none"
Recognised ==
  /\ live["definitions"] # "none"
  /\ live["rollups"] # "new" \/ ColumnsComplete

(* validateNormalizedRestructure of a set of tables: they exist and hold the  *)
(* definitions that were read.                                                *)
ValidShadow == Required \subseteq shadow /\ shDefs
ValidLive == ColumnsComplete /\ defs

Layout(s) ==
  [t \in {Tables[i] : i \in DOMAIN Tables} |->
    CASE s = "points" -> IF t \in {"points", "rollups", "definitions", "watermarks"} THEN "legacy" ELSE "none"
      [] s = "partial" -> CASE t = "definitions" -> "new" [] t = "rollups" -> "legacy" [] OTHER -> "none"
      [] s = "unlinked" -> IF t \in Required THEN "new" ELSE "none"
      [] s = "leftover" -> IF t \in {"points", "watermarks"} THEN "legacy" ELSE "new"
      [] s = "broken" -> IF t \in {"definitions", "rollups"} THEN "new" ELSE "none"]

Init ==
  /\ driver \in Drivers
  /\ shape \in Shapes
  /\ live = Layout(shape)
  /\ linked = (shape = "leftover")
  /\ backups = {}
  /\ \E left \in {{}, {"definitions", "dictionaries", "rollups"}} : shadow = left
  /\ rows = Stored
  /\ points = IF live["points"] = "legacy" THEN Points ELSE {}
  /\ defs = TRUE
  /\ shRows = [NoRows EXCEPT ![Key("minute", Now)] = IF shadow = {} THEN NoRow ELSE Once({Now})]
  /\ shDefs = FALSE
  /\ hot = {} /\ after = -1
  /\ op = "none" /\ pc = "idle" /\ guide = "ready" /\ proc = "boot"
  /\ discarded = FALSE /\ digests = 0
  /\ crashes = 0 /\ faults = 0

-----------------------------------------------------------------------------
(* RunServer: an old structure opens the guide and nothing else; otherwise    *)
(* the store is opened with AutoMigrate and normal service starts.            *)
OpenGuide ==
  /\ proc = "boot" /\ NeedsRestructure
  /\ proc' = "guide" /\ guide' = "ready"
  /\ UNCHANGED <<fixed, tables, shadows, op, pc, discarded, digests, bounds>>

Migrated(l) == [t \in DOMAIN l |-> IF t \in Required \cup {"state"} /\ l[t] = "none" THEN "new" ELSE l[t]]

Serve ==
  /\ proc = "boot" /\ ~NeedsRestructure
  /\ live' = Migrated(live)
  /\ proc' = "serving"
  /\ UNCHANGED <<fixed, linked, backups, rows, points, defs, shadows, op, pc, guide, discarded, digests, bounds>>

(* start and discard of the guide, refused while an operation runs and after  *)
(* one has completed.                                                         *)
StartStructure ==
  /\ proc = "guide" /\ guide \notin Active \cup {"completed"}
  /\ guide' = "copying" /\ op' = "restructure" /\ pc' = "inspect"
  /\ UNCHANGED <<fixed, tables, shadows, proc, discarded, digests, bounds>>

StartDiscard ==
  /\ proc = "guide" /\ guide \notin Active \cup {"completed"}
  /\ guide' = "discarding" /\ op' = "discard" /\ pc' = "inspect" /\ discarded' = TRUE
  /\ UNCHANGED <<fixed, tables, shadows, proc, digests, bounds>>

(* completeLater: the guide's server stops and startup looks again.           *)
LeaveGuide ==
  /\ proc = "guide" /\ guide = "completed"
  /\ proc' = "boot"
  /\ UNCHANGED <<fixed, tables, shadows, op, pc, guide, discarded, digests, bounds>>

-----------------------------------------------------------------------------
(* The operation, one statement or transaction at a time.                     *)
To(next) == pc' = next

(* Faulty variant: the error ends the operation but not its status.           *)
FailSilently ==
  /\ pc # "idle" /\ faults < MaxFaults
  /\ faults' = faults + 1
  /\ pc' = "idle" /\ op' = "none" /\ hot' = {}
  /\ UNCHANGED <<fixed, tables, shadow, shRows, shDefs, after, guide, proc, discarded, digests, crashes>>

Fail ==
  /\ pc # "idle" /\ faults < MaxFaults
  /\ faults' = faults + 1
  /\ pc' = "idle" /\ op' = "none" /\ guide' = "failed" /\ hot' = {}
  /\ UNCHANGED <<fixed, tables, shadow, shRows, shDefs, after, proc, discarded, digests, crashes>>

Refuse ==
  /\ pc' = "idle" /\ op' = "none" /\ guide' = "failed"
  /\ UNCHANGED <<fixed, tables, shadows, proc, discarded, digests, bounds>>

Goto(next) ==
  /\ pc' = next
  /\ UNCHANGED <<fixed, tables, shadows, op, guide, proc, discarded, digests, bounds>>

(* Restructure and DiscardHistory choose their path from the layout.          *)
Inspect ==
  /\ pc = "inspect"
  /\ \/ op = "restructure" /\ ~NeedsRestructure /\ Goto("reencode")
     \/ op = "restructure" /\ NeedsRestructure /\ Complete
        /\ (IF ValidLive THEN Goto("dropObsolete") ELSE Refuse)
     \/ op = "restructure" /\ NeedsRestructure /\ ~Complete
        /\ (IF Recognised THEN Goto("dropShadow") ELSE Refuse)
     \/ op = "discard" /\ Complete /\ Goto("deleteRows")
     \/ op = "discard" /\ ~Complete
        /\ (IF live["definitions"] # "none" THEN Goto("dropShadow") ELSE Refuse)

(* dropNormalizedTables(shadow): what an interrupted rebuild left behind.     *)
(* Faulty variant: the rows of an interrupted rebuild stay.                   *)
DropShadowTablesOnly ==
  /\ pc = "dropShadow"
  /\ shadow' = {} /\ shDefs' = FALSE /\ hot' = {} /\ after' = -1
  /\ To("create")
  /\ UNCHANGED <<fixed, tables, shRows, op, guide, proc, discarded, digests, bounds>>

DropShadow ==
  /\ pc = "dropShadow"
  /\ shadow' = {} /\ shRows' = NoRows /\ shDefs' = FALSE /\ hot' = {} /\ after' = -1
  /\ To("create")
  /\ UNCHANGED <<fixed, tables, op, guide, proc, discarded, digests, bounds>>

(* shadow.Migrate, one CREATE TABLE IF NOT EXISTS at a time.                  *)
CreateShadow ==
  /\ pc = "create"
  /\ \E t \in (Required \cup {"state"}) \ shadow :
       /\ shadow' = shadow \cup {t}
       /\ (t # "definitions") => "definitions" \in shadow
       /\ (t = "rollups") => "dictionaries" \in shadow
       /\ (t = "state") => "rollups" \in shadow
       /\ To(IF t = "state" THEN "define" ELSE "create")
  /\ UNCHANGED <<fixed, tables, shRows, shDefs, hot, after, op, guide, proc, discarded, digests, bounds>>

Define ==
  /\ pc = "define"
  /\ shDefs' = TRUE
  /\ To(CASE op = "discard" -> "validate"
          [] op = "restructure" /\ ColumnsComplete -> "copyRollups"
          [] OTHER -> "copyPoints")
  /\ UNCHANGED <<fixed, tables, shadow, shRows, hot, after, op, guide, proc, discarded, digests, bounds>>

(* copyLegacyPoints: the next point by id goes through WriteBatch, which      *)
(* persists a closed minute and keeps the open one in memory; a point of a    *)
(* metric without definition is skipped.                                      *)
NextPoint(p) == p \in points /\ p > after /\ \A q \in points : q > after => p <= q

Written(r, p) ==
  IF p \in Ghosts \/ p = Now THEN r
  ELSE [r EXCEPT ![Key("minute", p)] = Sum2(@, Once({p}))]

CopyPoint ==
  /\ pc = "copyPoints"
  /\ \E p \in points :
       /\ NextPoint(p)
       /\ after' = p
       /\ shRows' = Written(shRows, p)
       /\ hot' = IF p = Now /\ p \notin Ghosts THEN hot \cup {p} ELSE hot
  /\ UNCHANGED <<fixed, tables, shadow, shDefs, op, pc, guide, proc, discarded, digests, bounds>>

PointsDone ==
  /\ pc = "copyPoints" /\ \A p \in points : p <= after
  /\ Goto("copyRollups")

(* copyLegacyRollups and copyNormalizedRollups: a stored row replaces what    *)
(* the points have built under its key; rows of the relationship rebuild go   *)
(* through neither memory nor the daily rebuild.                              *)
Copied(r) == [k \in Keys |-> IF rows[k] # NoRow THEN rows[k] ELSE r[k]]

CopyRollups ==
  /\ pc = "copyRollups"
  /\ shRows' = Copied(shRows)
  /\ To(IF ColumnsComplete THEN "validate" ELSE "flush")
  /\ UNCHANGED <<fixed, tables, shadow, shDefs, hot, after, op, guide, proc, discarded, digests, bounds>>

FlushHot ==
  /\ pc = "flush"
  /\ shRows' = IF hot = {} THEN shRows
               ELSE [shRows EXCEPT ![Key("minute", Now)] = Sum2(@, Once(hot))]
  /\ hot' = {}
  /\ To("daily")
  /\ UNCHANGED <<fixed, tables, shadow, shDefs, after, op, guide, proc, discarded, digests, bounds>>

(* rebuildDailyRollups: a day with hourly rows becomes their merge.           *)
HoursOf(r, k) == {h \in Keys : h[1] = "hour" /\ r[h] # NoRow
                            /\ (h[2] * MinutesIn["hour"]) \div MinutesIn["day"] = k[2]}
Merge(r, ks) == [p \in Samples |-> MapThenSumSet(LAMBDA k : r[k][p], ks)]
Daily(r) == [k \in Keys |-> IF k[1] = "day" /\ HoursOf(r, k) # {} THEN Merge(r, HoursOf(r, k)) ELSE r[k]]

RebuildDaily ==
  /\ pc = "daily"
  /\ shRows' = Daily(shRows)
  /\ To("compact")
  /\ UNCHANGED <<fixed, tables, shadow, shDefs, hot, after, op, guide, proc, discarded, digests, bounds>>

(* shadow.Compact: rows past the retention of their tier go.                  *)
Compact ==
  /\ pc = "compact"
  /\ shRows' = [k \in Keys |-> IF k \in Kept THEN shRows[k] ELSE NoRow]
  /\ To("validate")
  /\ UNCHANGED <<fixed, tables, shadow, shDefs, hot, after, op, guide, proc, discarded, digests, bounds>>

Validate ==
  /\ pc = "validate"
  /\ IF ValidShadow THEN Goto(IF driver = "mysql" THEN "dropBackups" ELSE "switch") ELSE Refuse

Replaced == [t \in DOMAIN live |-> IF t \in shadow THEN "new" ELSE "none"]

(* Faulty variant: the old tables are dropped before the transaction that     *)
(* renames the new ones.                                                      *)
SwitchInSteps ==
  /\ pc = "switch"
  /\ IF live["rollups"] # "none"
     THEN /\ live' = [t \in DOMAIN live |-> IF t = "definitions" THEN live[t] ELSE "none"]
          /\ rows' = NoRows /\ points' = {}
          /\ UNCHANGED <<fixed, linked, backups, defs, shadows, op, pc, guide, proc, discarded, digests, bounds>>
     ELSE /\ live' = Replaced /\ linked' = TRUE /\ shadow' = {}
          /\ rows' = shRows /\ points' = {} /\ defs' = shDefs
          /\ shRows' = NoRows /\ shDefs' = FALSE /\ digests' = 0
          /\ To("check")
          /\ UNCHANGED <<fixed, backups, hot, after, op, guide, proc, discarded, bounds>>

(* replaceLegacyTables: drops, renames and indexes in one transaction.        *)
Switch ==
  /\ pc = "switch"
  /\ live' = Replaced /\ linked' = TRUE /\ shadow' = {}
  /\ rows' = shRows /\ points' = {} /\ defs' = shDefs
  /\ shRows' = NoRows /\ shDefs' = FALSE
  /\ digests' = 0
  /\ To("check")
  /\ UNCHANGED <<fixed, backups, hot, after, op, guide, proc, discarded, bounds>>

(* replaceLegacyMySQLTables: stale backups go, then the maintenance state,    *)
(* then one RENAME TABLE moves every managed table aside and the shadow in;   *)
(* indexes are finished before the backups are dropped one by one.            *)
DropStaleBackup ==
  /\ pc = "dropBackups"
  /\ \/ \E t \in backups : backups' = backups \ {t} /\ pc' = pc
     \/ backups = {} /\ backups' = {} /\ To("dropState")
  /\ UNCHANGED <<fixed, live, linked, rows, points, defs, shadows, op, guide, proc, discarded, digests, bounds>>

DropState ==
  /\ pc = "dropState"
  /\ live' = [live EXCEPT !["state"] = "none"] /\ digests' = 0
  /\ To("rename")
  /\ UNCHANGED <<fixed, linked, backups, rows, points, defs, shadows, op, guide, proc, discarded, bounds>>

(* Faulty variant: one table after the other is renamed.                      *)
RenameInSteps ==
  /\ pc = "rename"
  /\ backups' = {t \in DOMAIN live : live[t] # "none"}
  /\ live' = [t \in DOMAIN live |-> IF t = "definitions" THEN "none" ELSE live[t]]
  /\ pc' = "dropState" /\ defs' = FALSE
  /\ UNCHANGED <<fixed, linked, rows, points, shadows, op, guide, proc, discarded, digests, bounds>>

Rename ==
  /\ pc = "rename"
  /\ backups' = {t \in DOMAIN live : live[t] # "none"}
  /\ live' = Replaced /\ linked' = TRUE /\ shadow' = {}
  /\ rows' = shRows /\ points' = {} /\ defs' = shDefs
  /\ shRows' = NoRows /\ shDefs' = FALSE
  /\ To("indexes")
  /\ UNCHANGED <<fixed, hot, after, op, guide, proc, discarded, digests, bounds>>

FinishIndexes ==
  /\ pc = "indexes"
  /\ Goto("dropRenamed")

DropRenamed ==
  /\ pc = "dropRenamed"
  /\ \/ \E t \in backups : backups' = backups \ {t} /\ pc' = pc
     \/ backups = {} /\ backups' = {} /\ To("check")
  /\ UNCHANGED <<fixed, live, linked, rows, points, defs, shadows, op, guide, proc, discarded, digests, bounds>>

(* removeObsoleteRawTables, and the end of discardNormalizedHistory: points   *)
(* and watermarks are dropped; a restructure finishes the indexes before the  *)
(* renamed tables of an interrupted MySQL switch go.                          *)
DropObsolete ==
  /\ pc = "dropObsolete"
  /\ \/ \E t \in {"points", "watermarks"} :
          /\ live[t] # "none"
          /\ live' = [live EXCEPT ![t] = "none"]
          /\ points' = IF t = "points" THEN {} ELSE points
          /\ pc' = pc
     \/ /\ live["points"] = "none" /\ live["watermarks"] = "none"
        /\ To(IF op = "discard" THEN "dropRenamed" ELSE "indexes")
        /\ UNCHANGED <<live, points>>
  /\ UNCHANGED <<fixed, linked, backups, rows, defs, shadows, op, guide, proc, discarded, digests, bounds>>

(* discardNormalizedHistory: one transaction deletes children before parents. *)
DeleteRows ==
  /\ pc = "deleteRows"
  /\ rows' = NoRows /\ points' = {}
  /\ To("dropObsolete")
  /\ UNCHANGED <<fixed, live, linked, backups, defs, shadows, op, guide, proc, discarded, digests, bounds>>

Check ==
  /\ pc = "check"
  /\ IF ValidLive THEN Goto("reencode") ELSE Refuse

(* ReclaimSpace: SQLite converts the digests of the rows below a bound in     *)
(* batches whose cursor is committed with them, then every driver vacuums.    *)
Reencode ==
  /\ pc = "reencode"
  /\ guide' = "reclaiming"
  /\ \/ driver = "sqlite" /\ digests \in 0..1 /\ digests' = digests + 1 /\ pc' = pc
     \/ driver = "sqlite" /\ digests = 2 /\ digests' = -1 /\ pc' = pc
     \/ (driver # "sqlite" \/ digests = -1) /\ To("vacuum") /\ UNCHANGED digests
  /\ UNCHANGED <<fixed, tables, shadows, op, proc, discarded, bounds>>

Vacuum ==
  /\ pc = "vacuum"
  /\ pc' = "idle" /\ op' = "none" /\ guide' = "completed"
  /\ UNCHANGED <<fixed, tables, shadows, proc, discarded, digests, bounds>>

(* The process dies, or is stopped while the guide runs: memory is gone.      *)
Crash ==
  /\ proc # "down" /\ crashes < MaxCrashes
  /\ crashes' = crashes + 1
  /\ proc' = "down" /\ pc' = "idle" /\ op' = "none" /\ hot' = {}
  /\ UNCHANGED <<fixed, tables, shadow, shRows, shDefs, after, guide, discarded, digests, faults>>

Boot ==
  /\ proc = "down" /\ proc' = "boot" /\ guide' = "ready"
  /\ UNCHANGED <<fixed, tables, shadows, op, pc, discarded, digests, bounds>>

Work ==
  \/ Inspect \/ DropShadow \/ CreateShadow \/ Define \/ CopyPoint \/ PointsDone \/ CopyRollups
  \/ FlushHot \/ RebuildDaily \/ Compact \/ Validate \/ Switch \/ DropStaleBackup \/ DropState
  \/ Rename \/ FinishIndexes \/ DropRenamed \/ DropObsolete \/ DeleteRows \/ Check \/ Reencode \/ Vacuum

Startup == OpenGuide \/ Serve \/ LeaveGuide \/ Boot

Next == Startup \/ StartStructure \/ StartDiscard \/ Work \/ Fail \/ Crash

(* The goroutine of a started operation runs on, and startup and the guide's  *)
(* completion timer go on by themselves; the administrator owes nothing.      *)
Spec == Init /\ [][Next]_vars /\ WF_vars(Work) /\ WF_vars(Startup)

-----------------------------------------------------------------------------
(* What the history amounts to once it is rebuilt, for every kept key of a    *)
(* metric that is defined: the stored row, and the points of a minute that    *)
(* has no stored row.  Days are stated apart, because their rows are rebuilt. *)
PointMinutes(p) == shape = "points" /\ p \in Points \ Ghosts /\ Stored[Key("minute", p)] = NoRow
Expected(k) ==
  IF Stored[k] # NoRow THEN Stored[k]
  ELSE IF k[1] = "minute" THEN Once({p \in Points : PointMinutes(p) /\ Key("minute", p) = k}) ELSE NoRow
Fine == {k \in Kept : k[1] # "day"}

(* A reader of the managed tables: the rollup row of a key, plus the points   *)
(* where the layout still has them.                                           *)
Readable(k) ==
  IF k[1] = "minute" /\ rows[k] = NoRow
  THEN Once({p \in points : PointMinutes(p) /\ Key("minute", p) = k}) ELSE rows[k]

(* Until an administrator asks to discard it, the history stays readable in   *)
(* the managed tables with the counts it had, at every crash, every failed    *)
(* statement and every retry; the definitions stay readable even then.        *)
HistoryKept ==
  /\ defs /\ live["definitions"] # "none"
  /\ ~discarded => /\ live["rollups"] # "none"
                   /\ \A k \in Fine : Readable(k) = Expected(k)

(* Normal service never starts on a half-built structure: the five tables are *)
(* there with their relationships, no table of the earlier layout and no      *)
(* renamed backup is left, and every kept row has exactly its counts.         *)
ServesComplete ==
  proc = "serving" => Complete /\ ~Leftover /\ (discarded \/ \A k \in Fine : rows[k] = Expected(k))

(* Whatever an interrupted or failed attempt left behind, the next attempt on *)
(* a layout that was recognised at first recognises it again and its rebuilt  *)
(* tables pass the validation before the switch.                              *)
RetryRecognises ==
  /\ (pc = "inspect" /\ shape # "broken") => (IF Complete THEN ValidLive ELSE Recognised)
  /\ (pc = "validate") => ValidShadow
  /\ (pc = "check") => ValidLive

(* An operation that was started comes to an end, whatever fails: the guide   *)
(* is not left showing it as active, which would refuse every retry, and      *)
(* after a completed one the server starts.                                   *)
Runs == guide \in Active
Ended == guide \in {"failed", "completed"} \/ proc = "down"
Completed == guide = "completed" /\ proc = "guide"
Left == proc \in {"serving", "down"}
StartedEnds == (Runs ~> Ended) /\ (Completed ~> Left)

(* Comment of rebuildDailyRollups: only partial daily contributions are       *)
(* removed and older daily buckets are preserved.  No kept day may lose a     *)
(* sample it aggregated.                                                      *)
DailyKept ==
  ~discarded => \A k \in Kept : k[1] = "day" => \A p \in Samples : Stored[k][p] <= rows[k][p]

(* Readers of the managed tables see the history change only by the one       *)
(* atomic step of the abstract specification.                                 *)
Atomic == INSTANCE AtomicUpgrade WITH
  history <- IF live["rollups"] = "none" THEN "missing"
             ELSE IF rows = NoRows /\ points = {} THEN "empty"
             ELSE IF shape = "leftover" \/ ~Complete THEN "stored" ELSE "rebuilt",
  discard <- discarded
SwitchIsAtomic == Atomic!Spec
=============================================================================
