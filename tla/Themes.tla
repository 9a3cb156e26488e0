------------------------------- MODULE Themes --------------------------------
(* Themes: the archive installer shared by uploads, imports, updates and the  *)
(* market (web/api/admin/theme.go, theme_market.go), what the public pages    *)
(* serve (web/public/public.go), and the market's sources, catalog and cache. *)
(* A handler is a request that interleaves with others at each file system    *)
(* or network call; an archive is what its manifest says of it. The process   *)
(* may be killed between any two of them.                                     *)
EXTENDS Naturals, FiniteSets

CONSTANTS Requests,     \* concurrent handlers that install
          Shorts, Versions,
          Archives,     \* what is uploaded or downloaded: [short, version, manifest, index],
                        \* a root with a valid manifest or not, its files complete or not
          Remotes,      \* what the network answers: a catalog entry and its package
          MaxInstalls, MaxEdits, MaxKills   \* bounds

VARIABLES dir,          \* data/theme/<short>: the version in place, 0 without one
          rollback,     \* per request: the version its install has moved aside
          aside,        \* [short, version] in rollback directories that nothing puts back
          req,          \* per request: its step and what it has read
          setting,      \* the configured theme
          choosing,     \* a SetTheme that has checked its theme
          source,       \* the market source: its identity, enabled or not
          remote,       \* what the network answers: catalog entry and package
          cache,        \* themeMarketCache of the source's URL
          wanted,       \* history: the version installed last, 0 once it was deleted
          displaced,    \* history: themes a kill or a failed rename has left out of place
          installs, edits, kills
tvars == <<dir, rollback, aside, req, setting, choosing, source, remote, cache, wanted, displaced,
           installs, edits, kills>>

BuiltIn == "PurCarte"
None == "none"
Uncached == [entry |-> None, source |-> 0]
Idle == [pc |-> "idle", expected |-> None, archive |-> None, entry |-> None, source |-> 0]

Init == /\ dir = [s \in Shorts |-> 0] /\ rollback = [r \in Requests |-> 0] /\ aside = {}
        /\ req = [r \in Requests |-> Idle] /\ setting = BuiltIn /\ choosing = None
        /\ source = [id |-> 1, enabled |-> TRUE]
        /\ remote \in Remotes /\ cache = Uncached
        /\ wanted = [s \in Shorts |-> 0] /\ displaced = {} /\ installs = 0 /\ edits = 0 /\ kills = 0

Market == <<source, remote, cache>>
Choice == <<setting, choosing>>
Bounds == <<installs, edits, kills>>
Disk == <<dir, rollback, aside, wanted, displaced>>
Step(r, pc) == req' = [req EXCEPT ![r].pc = pc]
Done(r) == req' = [req EXCEPT ![r] = Idle]
Begin(r, record) == /\ req[r].pc = "idle" /\ installs < MaxInstalls /\ installs' = installs + 1
                    /\ req' = [req EXCEPT ![r] = record]
Quiet == UNCHANGED <<Disk, Choice>>
\* The manifest is valid and, where one is expected, that of the expected theme.
ValidManifest(a, expected) == a.manifest /\ expected \in {None, a.short}

-----------------------------------------------------------------------------
\* The four ways to an archive.
Upload(r, a) == /\ Begin(r, [Idle EXCEPT !.pc = "extract", !.archive = a])
                /\ Quiet /\ UNCHANGED <<Market, edits, kills>>
\* An import reads the manifest first; a preview ends there.
Import(r, a) == /\ Begin(r, [Idle EXCEPT !.pc = "peek", !.archive = a])
                /\ Quiet /\ UNCHANGED <<Market, edits, kills>>
Peek(r) == /\ req[r].pc = "peek"
           /\ \/ Done(r)
              \/ ValidManifest(req[r].archive, None) /\ Step(r, "extract")
           /\ Quiet /\ UNCHANGED <<Market, Bounds>>
\* An update needs the theme in place, and tries its own URL, its repository,
\* then the URL or repository of the request.
Update(r, s) == /\ dir[s] # 0 /\ Begin(r, [Idle EXCEPT !.pc = "download", !.expected = s])
                /\ Quiet /\ UNCHANGED <<Market, edits, kills>>
Download(r) == /\ req[r].pc = "download"
               /\ \/ Done(r)
                  \/ \E a \in Archives : req' = [req EXCEPT ![r].pc = "extract", ![r].archive = a]
               /\ Quiet /\ UNCHANGED <<Market, Bounds>>
InstallFromMarket(r) == /\ source.enabled
                        /\ Begin(r, [Idle EXCEPT !.pc = "catalog", !.source = source.id])
                        /\ Quiet /\ UNCHANGED <<Market, edits, kills>>
\* The catalog is fetched anew and cached under the source's URL.
FetchCatalog(r) == /\ req[r].pc = "catalog"
                   /\ \/ Done(r) /\ UNCHANGED cache
                      \/ /\ cache' = [entry |-> remote.entry, source |-> req[r].source]
                         /\ IF remote.entry.installable
                            THEN req' = [req EXCEPT ![r].pc = "package", ![r].entry = remote.entry,
                                                    ![r].expected = remote.entry.short]
                            ELSE Done(r)
                   /\ Quiet /\ UNCHANGED <<source, remote, Bounds>>
\* The checksum and the manifest must be those of the entry.
FetchPackage(r) == /\ req[r].pc = "package"
                   /\ LET a == remote.archive IN
                      \/ Done(r)
                      \/ /\ ValidManifest(a, req[r].entry.short) /\ a.version = req[r].entry.version
                         /\ req' = [req EXCEPT ![r].pc = "extract", ![r].archive = a]
                   /\ Quiet /\ UNCHANGED <<Market, Bounds>>

-----------------------------------------------------------------------------
\* extractAndValidateTheme: into a staging directory, then two renames.
Extract(r) == LET a == req[r].archive IN
    /\ req[r].pc = "extract"
    /\ IF ValidManifest(a, req[r].expected) /\ a.index
       THEN Step(r, "retire") ELSE Done(r)
    /\ Quiet /\ UNCHANGED <<Market, Bounds>>
\* The directory in place is looked for, then moved aside.
Retire(r) == LET s == req[r].archive.short IN
    /\ req[r].pc = "retire"
    /\ IF dir[s] = 0 THEN Step(r, "publish") ELSE Step(r, "move")
    /\ Quiet /\ UNCHANGED <<Market, Bounds>>
MoveAside(r) == LET s == req[r].archive.short IN
    /\ req[r].pc = "move"
    /\ \/ /\ dir[s] # 0 /\ rollback' = [rollback EXCEPT ![r] = dir[s]]
          /\ dir' = [dir EXCEPT ![s] = 0] /\ Step(r, "publish")
       \/ Done(r) /\ UNCHANGED <<dir, rollback>>   \* gone meanwhile, or refused
    /\ UNCHANGED <<aside, wanted, displaced, Choice, Market, Bounds>>
Publish(r) == LET s == req[r].archive.short
                  v == req[r].archive.version IN
    /\ req[r].pc = "publish" /\ dir[s] = 0
    /\ dir' = [dir EXCEPT ![s] = v] /\ wanted' = [wanted EXCEPT ![s] = v]
    /\ displaced' = displaced \ {s}
    /\ rollback' = [rollback EXCEPT ![r] = 0] /\ Done(r)
    /\ UNCHANGED <<aside, Choice, Market, Bounds>>
\* Another install was faster, or the rename fails: the old theme goes back,
\* unless that rename fails, too, which nobody is told.
PublishFails(r) == LET s == req[r].archive.short IN
    /\ req[r].pc = "publish" /\ Done(r) /\ rollback' = [rollback EXCEPT ![r] = 0]
    /\ \/ rollback[r] = 0 /\ UNCHANGED <<dir, aside, displaced>>
       \/ /\ rollback[r] # 0 /\ dir[s] = 0 /\ dir' = [dir EXCEPT ![s] = rollback[r]]
          /\ displaced' = displaced \ {s} /\ UNCHANGED aside
       \/ /\ rollback[r] # 0 /\ aside' = aside \cup {[short |-> s, version |-> rollback[r]]}
          /\ displaced' = IF dir[s] = 0 THEN displaced \cup {s} ELSE displaced
          /\ UNCHANGED dir
    /\ UNCHANGED <<wanted, Choice, Market, Bounds>>
\* The process is killed and started again: nothing looks for directories that
\* its installs had moved aside.
Kill == LET moved == {r \in Requests : rollback[r] # 0} IN
    /\ kills < MaxKills /\ kills' = kills + 1
    /\ req' = [r \in Requests |-> Idle] /\ rollback' = [r \in Requests |-> 0]
    /\ aside' = aside \cup {[short |-> req[r].archive.short, version |-> rollback[r]] : r \in moved}
    /\ displaced' = displaced \cup {s \in Shorts : dir[s] = 0 /\ \E r \in moved : req[r].archive.short = s}
    /\ choosing' = None /\ cache' = Uncached
    /\ UNCHANGED <<dir, setting, source, remote, wanted, installs, edits>>

-----------------------------------------------------------------------------
DeleteTheme(s) == /\ dir[s] # 0 /\ edits < MaxEdits /\ edits' = edits + 1
                  /\ dir' = [dir EXCEPT ![s] = 0] /\ wanted' = [wanted EXCEPT ![s] = 0]
                  /\ UNCHANGED <<rollback, aside, displaced, req, Choice, Market, installs, kills>>
\* SetTheme looks for the manifest, then writes the setting.
CheckTheme(s) == /\ choosing = None /\ s \in {BuiltIn} \cup {t \in Shorts : dir[t] # 0}
                 /\ edits < MaxEdits /\ edits' = edits + 1 /\ choosing' = s
                 /\ UNCHANGED <<Disk, req, setting, Market, installs, kills>>
SetTheme == /\ choosing # None /\ setting' = choosing /\ choosing' = None
            /\ UNCHANGED <<Disk, req, Market, Bounds>>

\* The market: its author publishes, admins edit the source and list.
PublishRemote == /\ edits < MaxEdits /\ edits' = edits + 1
                 /\ remote' \in Remotes
                 /\ Quiet /\ UNCHANGED <<req, source, cache, installs, kills>>
UpdateSource == /\ edits < MaxEdits /\ edits' = edits + 1
                /\ source' = [source EXCEPT !.enabled = ~@] /\ cache' = Uncached
                /\ Quiet /\ UNCHANGED <<req, remote, installs, kills>>
\* Deleted, and created again under a new identity.
RecreateSource == /\ edits < MaxEdits /\ edits' = edits + 1
                  /\ source' = [id |-> source.id + 1, enabled |-> TRUE] /\ cache' = Uncached
                  /\ Quiet /\ UNCHANGED <<req, remote, installs, kills>>
ListCatalog == /\ source.enabled /\ cache.source = 0
               /\ cache' = [entry |-> remote.entry, source |-> source.id]
               /\ Quiet /\ UNCHANGED <<req, source, remote, Bounds>>
Expire == /\ cache.source # 0 /\ cache' = Uncached
          /\ Quiet /\ UNCHANGED <<req, source, remote, Bounds>>

Next == \/ \E r \in Requests : \/ \E a \in Archives : Upload(r, a) \/ Import(r, a)
                               \/ \E s \in Shorts : Update(r, s)
                               \/ Peek(r) \/ Download(r) \/ InstallFromMarket(r) \/ FetchCatalog(r)
                               \/ FetchPackage(r) \/ Extract(r) \/ Retire(r) \/ MoveAside(r)
                               \/ Publish(r) \/ PublishFails(r)
        \/ \E s \in Shorts : DeleteTheme(s) \/ CheckTheme(s)
        \/ CheckTheme(BuiltIn) \/ SetTheme \/ Kill
        \/ PublishRemote \/ UpdateSource \/ RecreateSource \/ ListCatalog \/ Expire

Spec == Init /\ [][Next]_tvars

-----------------------------------------------------------------------------
Replacing(s, v) == \E r \in Requests : /\ req[r].pc = "publish" /\ req[r].archive.short = s
                                        /\ rollback[r] = v
Present(s) == dir[s] # 0 \/ \E v \in Versions : Replacing(s, v)
(* The version of a theme installed last is not destroyed until somebody     *)
(* deletes it: however installs of it overlap, fail or are killed, it is in  *)
(* place, or an install has moved it aside, or it lies in a rollback         *)
(* directory. Nothing in the code brings it back from there: a theme without *)
(* a version in place is one whose install was killed between its two        *)
(* renames (web/api/admin/theme.go:363, :370), or whose rename back failed   *)
(* with the first (:372), and no other.                                      *)
ThemeKept == \A s \in Shorts : wanted[s] # 0 =>
    /\ \/ dir[s] = wanted[s] \/ Replacing(s, wanted[s])
       \/ [short |-> s, version |-> wanted[s]] \in aside
    /\ Present(s) \/ s \in displaced
==============================================================================
