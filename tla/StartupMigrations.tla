------------------------- MODULE StartupMigrations -------------------------
(***************************************************************************)
(* The one-shot migrations of the main SQLite database that every start    *)
(* runs before anything else (internal/migrations Run, timestamp.go), cut  *)
(* at the statements between which the process may be killed.  One        *)
(* timestamp stands for all of them: a naive text carries the local time   *)
(* of the old process, a converted one carries its UTC offset.             *)
(***************************************************************************)
EXTENDS Integers, FiniteSets

CONSTANTS Clients, Tasks, Zones, LegacyZone,
          MaxFaults,   \* crashes and failed statements
          MaxStarts    \* starts of the process

VARIABLES
    pc,          \* where the start stands: "down", a step of Run, "running"
    legacy,      \* legacyConfigTable, read once when Run begins
    zone,        \* TZ of this process
    configs,     \* table configs: its shape and the values in it
    tables,      \* provider tables that exist
    providers,   \* provider rows
    stamp,       \* a stored timestamp
    infos,       \* table client_infos still has its name
    copied,      \* clients whose info is in table clients
    alerts,      \* shape of table load_notifications
    clients,     \* registered servers
    tasks,       \* rows of ping_tasks
    chosen,      \* ghost: the servers somebody asked for, per task
    unread,      \* ghost: the read of the configs row failed
    starts, faults

mvars == <<pc, legacy, zone, configs, tables, providers, stamp, infos, copied,
           alerts, clients, tasks, chosen, unread, starts, faults>>

NoTask == [present |-> FALSE, all |-> FALSE, clients |-> {}]
Noon == 12                       \* the instant the timestamp means
Providers == {"oidc", "sender"}

\* Databases an older release leaves behind: before 1.0.2 the providers are columns of
\* configs, before 1.1.4 the settings are its columns, later they are items.
Init ==
    /\ pc = "down" /\ legacy = FALSE /\ zone = LegacyZone
    /\ \/ /\ configs = [kind |-> "legacy", held |-> Providers \cup {"site"}]
          /\ tables = {} /\ providers = {} /\ infos \in BOOLEAN
       \/ /\ configs = [kind |-> "legacy", held |-> {"site"}]
          /\ tables = Providers /\ providers = Providers /\ infos = FALSE
       \/ /\ configs = [kind |-> "items", held |-> {"site", "oldMarket", "retired"}]
          /\ tables = Providers /\ providers = Providers /\ infos = FALSE
    /\ stamp = [at |-> Noon + LegacyZone, utc |-> FALSE]
    /\ alerts \in {"old", "new"} /\ clients \in SUBSET Clients
    /\ copied = IF infos THEN {} ELSE clients
    /\ tasks \in [Tasks -> {NoTask, [present |-> TRUE, all |-> TRUE, clients |-> {}]}]
    /\ chosen = [t \in Tasks |-> IF tasks[t].present THEN clients ELSE {}]
    /\ unread = FALSE /\ starts = 0 /\ faults = 0

Done == configs.kind = "items" /\ "marker" \in configs.held   \* timestampMigrationDone

\* Run begins; the environment's TZ matters only while a naive value is left.
Start ==
    /\ pc = "down" /\ starts < MaxStarts
    /\ pc' = "stamps" /\ legacy' = (configs.kind = "legacy")
    /\ zone' \in IF stamp.utc THEN Zones ELSE {LegacyZone}
    /\ starts' = starts + 1
    /\ UNCHANGED <<configs, tables, providers, stamp, infos, copied, alerts, clients, tasks,
                   chosen, unread, faults>>

\* Faulty variant: the stored text is always read in the local zone.
ParsedLocal(s) == [at |-> s.at - zone, utc |-> TRUE]
\* parseLegacyTimestamp(...).UTC(): a text with an offset is its own instant.
Parsed(s) == [at |-> IF s.utc THEN s.at ELSE s.at - zone, utc |-> TRUE]

Stamps ==
    /\ pc = "stamps" /\ pc' = "oidc"
    /\ stamp' = IF Done THEN stamp ELSE Parsed(stamp)
    /\ UNCHANGED <<legacy, zone, configs, tables, providers, infos, copied, alerts, clients,
                   tasks, chosen, unread, starts, faults>>

\* migrateLegacyOidcConfig, migrateLegacyMessageSenderConfig: a table that exists counts
\* as migrated; the row is a statement of its own.
After(p) == IF p = "oidc" THEN "sender" ELSE "infos"
ProviderTable(p) ==
    /\ pc = p
    /\ IF legacy /\ p \notin tables
       THEN tables' = tables \cup {p} /\ pc' = IF p = "oidc" THEN "oidcRow" ELSE "senderRow"
       ELSE UNCHANGED tables /\ pc' = After(p)
    /\ UNCHANGED <<legacy, zone, configs, providers, stamp, infos, copied, alerts, clients,
                   tasks, chosen, unread, starts, faults>>

OidcRow ==
    /\ pc = "oidcRow" /\ pc' = "sender" /\ providers' = providers \cup {"oidc"}
    /\ UNCHANGED <<legacy, zone, configs, tables, stamp, infos, copied, alerts, clients,
                   tasks, chosen, unread, starts, faults>>

SenderRow ==
    /\ pc = "senderRow" /\ pc' = "senderColumns"
    /\ providers' = providers \cup (configs.held \cap {"sender"})
    /\ UNCHANGED <<legacy, zone, configs, tables, stamp, infos, copied, alerts, clients,
                   tasks, chosen, unread, starts, faults>>

SenderColumns ==
    /\ pc = "senderColumns" /\ pc' = "infos"
    /\ configs' = [configs EXCEPT !.held = @ \ {"sender"}]
    /\ UNCHANGED <<legacy, zone, tables, providers, stamp, infos, copied, alerts, clients,
                   tasks, chosen, unread, starts, faults>>

\* migrateLegacyClientInfo: one save per known client, then the rename.
CopyInfo(c) ==
    /\ pc = "infos" /\ infos /\ c \in clients \ copied
    /\ copied' = copied \cup {c}
    /\ UNCHANGED <<pc, legacy, zone, configs, tables, providers, stamp, infos, alerts, clients,
                   tasks, chosen, unread, starts, faults>>

\* Faulty variant: the table is renamed before the copies are complete.
InfosDoneEarly(copies) == TRUE
InfosDone(copies) == clients \subseteq copies

RenameInfos ==
    /\ pc = "infos"
    /\ infos => InfosDone(copied)
    /\ pc' = "alerts" /\ infos' = FALSE
    /\ UNCHANGED <<legacy, zone, configs, tables, providers, stamp, copied, alerts, clients,
                   tasks, chosen, unread, starts, faults>>

\* migrateLegacyLoadNotification
RebuildAlerts ==
    /\ pc = "alerts" /\ pc' = "pings"
    /\ alerts' = IF alerts = "old" THEN "none" ELSE alerts
    /\ UNCHANGED <<legacy, zone, configs, tables, providers, stamp, infos, copied, clients,
                   tasks, chosen, unread, starts, faults>>

\* migrateLegacyPingAllClientsExpansion: every start, while the column all_clients exists.
ExpandPings ==
    /\ pc = "pings" /\ pc' = "items"
    /\ tasks' = [t \in Tasks |->
          IF tasks[t].present /\ tasks[t].all /\ tasks[t].clients = {}
          THEN [tasks[t] EXCEPT !.clients = clients] ELSE tasks[t]]
    /\ UNCHANGED <<legacy, zone, configs, tables, providers, stamp, infos, copied, alerts,
                   clients, chosen, unread, starts, faults>>

\* migrateLegacyConfigToItems: any error of the read counts as an empty table.
ConfigToItems(readable) ==
    /\ pc = "items" /\ pc' = "market"
    /\ readable \/ (legacy /\ faults < MaxFaults)
    /\ faults' = IF readable THEN faults ELSE faults + 1
    /\ unread' = (unread \/ ~readable)
    /\ configs' = IF legacy THEN [kind |-> "items",
                                  held |-> IF readable THEN configs.held \cap {"site"} ELSE {}]
                  ELSE configs
    /\ UNCHANGED <<legacy, zone, tables, providers, stamp, infos, copied, alerts, clients,
                   tasks, chosen, starts>>

\* migrateLegacyPluginMarketSources, then the two deletions of retired keys.
Markets ==
    /\ pc = "market" /\ pc' = "retire"
    /\ configs' = IF "oldMarket" \in configs.held
                  THEN [configs EXCEPT !.held = (@ \ {"oldMarket"}) \cup {"market"}] ELSE configs
    /\ UNCHANGED <<legacy, zone, tables, providers, stamp, infos, copied, alerts, clients,
                   tasks, chosen, unread, starts, faults>>

Retire ==
    /\ pc = "retire" /\ pc' = "mark"
    /\ configs' = [configs EXCEPT !.held = @ \ {"retired"}]
    /\ UNCHANGED <<legacy, zone, tables, providers, stamp, infos, copied, alerts, clients,
                   tasks, chosen, unread, starts, faults>>

\* markTimestampMigrationDone, then doInitialize's AutoMigrate.
Mark ==
    /\ pc = "mark" /\ configs.kind # "legacy" /\ pc' = "running"
    /\ configs' = [configs EXCEPT !.held = @ \cup {"marker"}]
    /\ tables' = Providers /\ alerts' = "new"
    /\ UNCHANGED <<legacy, zone, providers, stamp, infos, copied, clients, tasks, chosen,
                   unread, starts, faults>>

Crash ==
    /\ pc \notin {"down", "running"} /\ faults < MaxFaults
    /\ pc' = "down" /\ faults' = faults + 1
    /\ UNCHANGED <<legacy, zone, configs, tables, providers, stamp, infos, copied, alerts,
                   clients, tasks, chosen, unread, starts>>

Stop ==
    /\ pc = "running" /\ pc' = "down"
    /\ UNCHANGED <<legacy, zone, configs, tables, providers, stamp, infos, copied, alerts,
                   clients, tasks, chosen, unread, starts, faults>>

\* AddPingTask: without default_on the list may not be empty (admin.ping.go).
AddTask(t, on, cs) ==
    /\ pc = "running" /\ ~tasks[t].present /\ (on \/ cs # {})
    /\ tasks' = [tasks EXCEPT ![t] = [present |-> TRUE, all |-> on, clients |-> cs]]
    /\ chosen' = [chosen EXCEPT ![t] = cs]
    /\ UNCHANGED <<pc, legacy, zone, configs, tables, providers, stamp, infos, copied, alerts,
                   clients, unread, starts, faults>>

\* A server registers: AddClientToDefaultOnPingTasks.
Register(c) ==
    /\ pc = "running" /\ c \notin clients /\ clients' = clients \cup {c} /\ copied' = copied \cup {c}
    /\ LET on == {t \in Tasks : tasks[t].present /\ tasks[t].all} IN
       /\ tasks' = [t \in Tasks |-> IF t \in on THEN [tasks[t] EXCEPT !.clients = @ \cup {c}] ELSE tasks[t]]
       /\ chosen' = [t \in Tasks |-> IF t \in on THEN chosen[t] \cup {c} ELSE chosen[t]]
    /\ UNCHANGED <<pc, legacy, zone, configs, tables, providers, stamp, infos, alerts, unread,
                   starts, faults>>

Next ==
    \/ Start \/ Stamps \/ OidcRow \/ SenderRow \/ SenderColumns \/ RenameInfos
    \/ RebuildAlerts \/ ExpandPings \/ Markets \/ Retire \/ Mark \/ Crash \/ Stop
    \/ \E p \in Providers : ProviderTable(p)
    \/ \E c \in Clients : CopyInfo(c) \/ Register(c)
    \/ \E readable \in BOOLEAN : ConfigToItems(readable)
    \/ \E t \in Tasks, on \in BOOLEAN, cs \in SUBSET clients : AddTask(t, on, cs)

Spec == Init /\ [][Next]_mvars

-----------------------------------------------------------------------------
\* Whatever step the upgrade was killed at and however often it was repeated, a converted
\* timestamp is the instant the old process meant, the info of every server known before
\* the rename has been copied, and the site's settings are gone from the old table only
\* once they are items (a failed read of the row aside).
UpgradeKeepsData ==
    /\ stamp.utc => stamp.at = Noon
    /\ pc = "running" => stamp.utc
    /\ ~infos => clients \subseteq copied
    /\ "site" \in configs.held \/ unread

\* models/pingTask.go:20 on DefaultOn: existing servers are not affected by this field.
DefaultOnSparesExisting ==
    \A t \in Tasks : tasks[t].present => tasks[t].clients \subseteq chosen[t]
=============================================================================
