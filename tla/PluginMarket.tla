----------------------------- MODULE PluginMarket -----------------------------
(***************************************************************************)
(* The plugin market (web/api/admin/plugin_market.go): requests that edit  *)
(* the list of catalog sources, list their catalogs and install from them. *)
(* The list is a setting that each request reads and saves without a lock; *)
(* catalogs are cached by URL.  A catalog offers one plugin, of which its  *)
(* author publishes version after version, package and catalog apart.      *)
(***************************************************************************)
EXTENDS Integers, FiniteSets, FiniteSetsExt

CONSTANTS Requests, URLs,
          Versions,    \* what an author publishes at a URL
          TTL,         \* marketCacheTTL
          MaxTime      \* bound

VARIABLES sources,     \* the saved list: [id, url, enabled]
          catalog,     \* what the catalog of a URL offers: version and checksum
          package,     \* what is behind the download link of a URL
          cache,       \* pluginMarketCache: [version, expires]
          req,         \* the requests
          installed,   \* history: [version, listed] of each install, with what was
                     \* listed when its request began
          now, clock   \* time; how many sources got an id
marketVars == <<sources, catalog, package, cache, req, installed, now, clock>>

NoEntry == [version |-> 0, expires |-> 0]
NoSource == [id |-> 0, url |-> "", enabled |-> FALSE]
Idle == [pc |-> "idle", op |-> "", arg |-> NoSource, seen |-> {}, drop |-> {}, got |-> 0, data |-> 0, listed |-> [u \in URLs |-> 0]]

\* The setting starts with one source.
Init ==
    /\ sources \in {{[id |-> 1, url |-> u, enabled |-> TRUE]} : u \in URLs} /\ clock = 1 /\ now = 0 /\ installed = {}
    /\ catalog = [u \in URLs |-> Min(Versions)] /\ package = [u \in URLs |-> Min(Versions)]
    /\ cache = [u \in URLs |-> NoEntry] /\ req = [r \in Requests |-> Idle]

At(r, pc) == req[r].pc = pc
Goto(r, pc) == req' = [req EXCEPT ![r].pc = pc]
Done(r) == req' = [req EXCEPT ![r] = [Idle EXCEPT !.pc = "done"]]

-----------------------------------------------------------------------------
(* The list of sources *)

Arguments(op) == CASE op = "update" -> [id : 1..clock, url : URLs, enabled : BOOLEAN]
                   [] op \in {"delete", "install"} -> [id : 1..clock, url : {""}, enabled : {FALSE}]
                   [] OTHER -> {NoSource}
\* A new source gets a random id before the list is read.
Begin(r) ==
    /\ At(r, "idle")
    /\ \/ \E u \in URLs : /\ req' = [req EXCEPT ![r].pc = "read", ![r].op = "create",
                                                ![r].arg = [id |-> clock + 1, url |-> u, enabled |-> TRUE]]
                          /\ clock' = clock + 1
       \/ \E op \in {"update", "delete", "list", "refresh", "install"} : \E s \in Arguments(op) :
              req' = [req EXCEPT ![r].pc = "read", ![r].op = op, ![r].arg = s] /\ UNCHANGED clock
    /\ UNCHANGED <<sources, catalog, package, cache, installed, now>>

ReadSources(r) ==
    /\ At(r, "read")
    /\ req' = [req EXCEPT ![r].seen = sources, ![r].listed = IF req[r].op = "install" THEN catalog ELSE @,
                          ![r].pc = IF req[r].op \in {"create", "update", "delete"} THEN "save" ELSE "fetch"]
    /\ UNCHANGED <<sources, catalog, package, cache, installed, now, clock>>

Taken(r) == \E s \in req[r].seen : s.id # req[r].arg.id /\ s.url = req[r].arg.url
Named(r) == {s \in req[r].seen : s.id = req[r].arg.id}
Edited(r) == CASE req[r].op = "create" -> req[r].seen \cup {req[r].arg}
               [] req[r].op = "update" -> (req[r].seen \ Named(r)) \cup {req[r].arg}
               [] req[r].op = "delete" -> req[r].seen \ Named(r)
Refused(r) == \/ req[r].op \in {"create", "update"} /\ Taken(r)
              \/ req[r].op \in {"update", "delete"} /\ Named(r) = {}
Save(r, fails) ==
    /\ At(r, "save")
    /\ IF Refused(r) \/ fails THEN Done(r) /\ UNCHANGED sources
       ELSE /\ sources' = Edited(r)
            /\ req' = [req EXCEPT ![r].pc = "invalidate", ![r].seen = {}, ![r].arg = NoSource,
                                  ![r].drop = {s.url : s \in Named(r)} \cup (IF req[r].op = "update" THEN {req[r].arg.url} ELSE {})]
    /\ UNCHANGED <<catalog, package, cache, installed, now, clock>>
Invalidate(r) ==
    /\ At(r, "invalidate")
    /\ IF req[r].drop = {} THEN Done(r) /\ UNCHANGED cache
       ELSE \E u \in req[r].drop : /\ cache' = [cache EXCEPT ![u] = NoEntry]
                                   /\ req' = [req EXCEPT ![r].drop = @ \ {u}]
    /\ UNCHANGED <<sources, catalog, package, installed, now, clock>>

-----------------------------------------------------------------------------
(* fetchPluginMarketCatalog, for an enabled source of the list read: an       *)
(* install and a refresh do not ask the cache, and all of them fill it.       *)

Sources(r) == {s \in req[r].seen : s.enabled /\ (req[r].op = "install" => s.id = req[r].arg.id)}
Forced(r) == req[r].op \in {"refresh", "install"}
Fetch(r) ==
    /\ At(r, "fetch")
    /\ IF Sources(r) = {} THEN Done(r)
       ELSE \E s \in Sources(r) :
              LET hit == ~Forced(r) /\ now < cache[s.url].expires IN
              req' = [req EXCEPT ![r].arg = s, ![r].seen = {}, ![r].pc = IF hit THEN "offered" ELSE "download",
                                 ![r].got = IF hit THEN cache[s.url].version ELSE @]
    /\ UNCHANGED <<sources, catalog, package, cache, installed, now, clock>>

\* The download fails or what it brings is not valid.
Download(r, fails) ==
    /\ At(r, "download")
    /\ IF fails THEN Done(r) ELSE req' = [req EXCEPT ![r].pc = "keep", ![r].got = catalog[req[r].arg.url]]
    /\ UNCHANGED <<sources, catalog, package, cache, installed, now, clock>>
Keep(r) ==
    /\ At(r, "keep") /\ Goto(r, "offered")
    /\ cache' = [cache EXCEPT ![req[r].arg.url] = [version |-> req[r].got, expires |-> now + TTL]]
    /\ UNCHANGED <<sources, catalog, package, installed, now, clock>>

-----------------------------------------------------------------------------
(* InstallPluginFromMarket *)

Offered(r) ==
    /\ At(r, "offered")
    /\ IF req[r].op # "install" THEN Done(r)
       ELSE req' = [req EXCEPT ![r].pc = "check", ![r].data = package[req[r].arg.url]]
    /\ UNCHANGED <<sources, catalog, package, cache, installed, now, clock>>

\* Its checksum and the version in its manifest are those of the catalog.
Matches(r) == req[r].data = req[r].got
Install(r) ==
    /\ At(r, "check") /\ Done(r)
    /\ installed' = IF Matches(r) THEN installed \cup {[version |-> req[r].data, listed |-> req[r].listed[req[r].arg.url]]}
                    ELSE installed
    /\ UNCHANGED <<sources, catalog, package, cache, now, clock>>

-----------------------------------------------------------------------------
\* The author, and time.
PublishPackage(u) == /\ package[u] < Max(Versions) /\ package' = [package EXCEPT ![u] = @ + 1]
                     /\ UNCHANGED <<sources, catalog, cache, req, installed, now, clock>>
PublishCatalog(u) == /\ catalog[u] < Max(Versions) /\ catalog' = [catalog EXCEPT ![u] = @ + 1]
                     /\ UNCHANGED <<sources, package, cache, req, installed, now, clock>>
Tick == now < MaxTime /\ now' = now + 1 /\ UNCHANGED <<sources, catalog, package, cache, req, installed, clock>>

Next ==
    \/ \E r \in Requests : \/ Begin(r) \/ ReadSources(r) \/ Invalidate(r) \/ Fetch(r) \/ Keep(r) \/ Offered(r) \/ Install(r)
                           \/ \E fails \in BOOLEAN : Save(r, fails) \/ Download(r, fails)
    \/ Tick \/ \E u \in URLs : PublishPackage(u) \/ PublishCatalog(u)
Spec == Init /\ [][Next]_marketVars

-----------------------------------------------------------------------------
(* No two sources share a URL or an id, although each request checks and    *)
(* saves a list it read earlier: the cache knows a source by its URL only.  *)
SourcesDistinct == \A s, t \in sources : s.url = t.url \/ s.id = t.id => s = t

(* A plugin is installed in no older version than was listed when the       *)
(* administrator asked, whatever other requests cached or its author        *)
(* published meanwhile.                                                     *)
InstalledIsCurrent == \A i \in installed : i.version >= i.listed
=============================================================================
