--------------------------- MODULE AgentPresence ---------------------------
(***************************************************************************)
(* The online state of one agent: the WebSocket registry and the POST      *)
(* presence of web/agent and web/api/client, and the offline and online    *)
(* notifications of utils/notifier.                                        *)
(*                                                                         *)
(* A WebSocket handler is a process of its own; OnlineNotification runs in *)
(* a goroutine that may be delayed; the POST session's timer, its callback *)
(* and the grace period of a notification run on their own too. Clocks are *)
(* the ticks left on each timer.                                           *)
(***************************************************************************)
EXTENDS Naturals, FiniteSets

CONSTANTS
  Conns,      \* WebSocket connections (SafeConn.ID), each used once
  V2Conns,    \* those that speak protocol v2
  Sessions,   \* connIDs of POST sessions, each used once
  TTL,        \* postPresenceTTL
  Grace,      \* the client's grace period
  MaxReports  \* bound: reports and pulls that refresh the POST session

None == "none"
Ids  == Conns \cup Sessions

ASSUME PresenceAssumption ==
  /\ V2Conns \subseteq Conns /\ Conns \cap Sessions = {} /\ None \notin Ids
  /\ TTL \in Nat \ {0} /\ Grace \in Nat \ {0} /\ MaxReports \in Nat

VARIABLES
  pc,        \* where the handler of each connection is
  clients,   \* connectedClients[uuid]
  v2,        \* connectedClientV2[uuid]
  presence,  \* presenceOnly[uuid]: id and ticks left
  entry,     \* postPresenceStates[uuid] with its timer
  fired,     \* postPresenceExpired callbacks that wait for postPresenceMu
  expired,   \* callbacks past the check: <<id, next step>>
  used,      \* POST sessions opened so far
  state,     \* notificationState; pending is pendingOfflineSince # 0
  onlines,   \* OnlineNotification goroutines not run yet
  timers,    \* offline goroutines asleep: <<expected id, ticks left>>
  enabled,   \* notifications are enabled for this client
  known,     \* the client exists in the database
  reports,   \* bound
  latest,    \* history: the connection registered last, until removed
  fresh,     \* history: ticks left of the TTL of the last POST refresh
  since      \* history: ticks since pending was set, up to Grace

handlers == <<pc, latest>>
registry == <<clients, v2>>
post     == <<presence, entry, fired, expired, used, fresh, reports>>
notice   == <<state, timers, since>>
world    == <<enabled, known>>
vars     == <<handlers, registry, post, notice, onlines, world>>

NoEntry == [id |-> None, gen |-> 0, armed |-> FALSE, left |-> 0]
Absent  == [id |-> None, left |-> 0]

----------------------------------------------------------------------------
(* utils/notifier *)

\* Faulty variant: the goroutine sleeps one tick too long.
PendLonger(id) ==
  /\ state' = [state EXCEPT !.pending = TRUE]
  /\ timers' = timers \cup {<<id, Grace + 1>>}
  /\ since' = 0

Pend(id) ==
  /\ state' = [state EXCEPT !.pending = TRUE]
  /\ timers' = timers \cup {<<id, Grace>>}
  /\ since' = 0

\* Faulty variant: the end of any connection counts, not only the current one.
OfflineOfAny(id) ==
  IF known /\ enabled /\ ~state.pending THEN Pend(id) ELSE UNCHANGED notice

\* OfflineNotification: ignored unless the current session ended; then the
\* goroutine sleeps for the grace period.
Offline(id) ==
  IF known /\ enabled /\ ~state.pending /\ state.id = id
    THEN Pend(id) ELSE UNCHANGED notice

\* Faulty variant: the goroutine does not compare the connection.
StillPending(t) == state.pending
StillGone(t)    == state.pending /\ state.id = t[1]

\* The goroutine wakes up: it sends the notification or finds the client back.
GraceOver(t) ==
  /\ t \in timers /\ t[2] = 0
  /\ timers' = timers \ {t}
  /\ state' = IF StillGone(t)
                THEN [state EXCEPT !.pending = FALSE, !.exist = FALSE]
                ELSE state
  /\ UNCHANGED <<handlers, registry, post, since, onlines, world>>

\* Faulty variant: a pending outage is left for its goroutine to clear.
OnlineStateKeepsPending(id) ==
  [id |-> id, first |-> FALSE, pending |-> state.pending,
   exist |-> IF state.pending /\ ~state.first THEN state.exist ELSE TRUE]

\* updateOnlineState: a reconnection within the grace period leaves exist.
OnlineState(id) ==
  [id |-> id, first |-> FALSE, pending |-> FALSE,
   exist |-> IF state.pending /\ ~state.first THEN state.exist ELSE TRUE]

\* OnlineNotification in its goroutine: the connection is recorded whether or
\* not notifications are enabled.
RunOnline(id) ==
  /\ id \in onlines
  /\ onlines' = onlines \ {id}
  /\ state' = IF known THEN OnlineState(id) ELSE state
  /\ UNCHANGED <<handlers, registry, post, timers, since, world>>

----------------------------------------------------------------------------
(* web/api/client: the POST session *)

\* refreshPostPresence, without the protocol flag.
Refresh ==
  /\ reports < MaxReports /\ reports' = reports + 1
  /\ fresh' = TTL
  /\ UNCHANGED <<fired, expired>>
  /\ \/ /\ entry # NoEntry
        /\ entry' = [entry EXCEPT !.gen = @ + 1, !.armed = TRUE, !.left = TTL]
        /\ presence' = [id |-> entry.id, left |-> TTL]
        /\ UNCHANGED <<used, onlines>>
     \/ /\ entry = NoEntry
        /\ \E s \in Sessions \ used :
             /\ used' = used \cup {s}
             /\ entry' = [id |-> s, gen |-> 0, armed |-> TRUE, left |-> TTL]
             /\ presence' = [id |-> s, left |-> TTL]
             /\ onlines' = onlines \cup {s}

\* ingestReport of a POST: SetClientProtocolVersion(version), then
\* refreshPostPresence, which marks the client v1 when it opens a session.
IngestPost(version) ==
  /\ Refresh
  /\ v2' = (version = 2 /\ entry # NoEntry)

\* UploadReport (v1), or AgentReport over HTTP (v2).
PostReport(version) ==
  /\ known
  /\ IngestPost(version)
  /\ UNCHANGED <<handlers, clients, notice, world>>

\* AgentPull over HTTP: refresh, then SetClientProtocolVersion(2).
Pull ==
  /\ known
  /\ Refresh /\ v2' = TRUE
  /\ UNCHANGED <<handlers, clients, notice, world>>

\* The timer goes off; a later Stop does not reach its callback any more.
TimerFires ==
  /\ entry.armed /\ entry.left = 0
  /\ entry' = [entry EXCEPT !.armed = FALSE]
  /\ fired' = fired \cup {<<entry.id, entry.gen>>}
  /\ UNCHANGED <<handlers, registry, presence, expired, used, fresh, reports,
                 notice, onlines, world>>

\* Faulty variant: a callback of the same session is always current.
CurrentAnyGeneration(cb) == entry.id = cb[1]
Current(cb)              == entry.id = cb[1] /\ entry.gen = cb[2]

\* postPresenceExpired, under postPresenceMu.
PostExpired(cb) ==
  /\ cb \in fired
  /\ fired' = fired \ {cb}
  /\ IF Current(cb)
       THEN /\ entry' = NoEntry
            /\ expired' = expired \cup {<<cb[1], "presence">>}
       ELSE UNCHANGED <<entry, expired>>
  /\ UNCHANGED <<handlers, registry, presence, used, fresh, reports, notice,
                 onlines, world>>

\* Faulty variant: the presence is cleared whatever session it belongs to.
ClearedAny(id) == Absent
Cleared(id)    == IF presence.id = id THEN Absent ELSE presence

\* SetPresence(uuid, id, false).
ClearPresence(id) ==
  /\ <<id, "presence">> \in expired
  /\ expired' = (expired \ {<<id, "presence">>}) \cup {<<id, "notify">>}
  /\ presence' = Cleared(id)
  /\ UNCHANGED <<handlers, registry, entry, fired, used, fresh, reports, notice,
                 onlines, world>>

NotifyExpired(id) ==
  /\ <<id, "notify">> \in expired
  /\ expired' = expired \ {<<id, "notify">>}
  /\ Offline(id)
  /\ UNCHANGED <<handlers, registry, presence, entry, fired, used, fresh,
                 reports, onlines, world>>

----------------------------------------------------------------------------
(* web/api/client: WebSocketReport (v1) and WebSocketV2RPC (v2) *)

\* The old connection is read, and closed in a goroutine: SocketFails of the
\* old connection, which is possible anyway, is what Close leads to.
Accept(c) ==
  /\ pc[c] = "idle" /\ known
  /\ pc' = [pc EXCEPT ![c] = "accepted"]
  /\ UNCHANGED <<latest, registry, post, notice, onlines, world>>

\* SetConnectedClients, whatever the map holds by now.
Register(c) ==
  /\ pc[c] = "accepted"
  /\ pc' = [pc EXCEPT ![c] = "registered"]
  /\ clients' = c /\ latest' = c
  /\ UNCHANGED <<v2, post, notice, onlines, world>>

\* SetClientProtocolVersion (v2 only), and go OnlineNotification.
Announce(c) ==
  /\ pc[c] = "registered"
  /\ pc' = [pc EXCEPT ![c] = "serving"]
  /\ v2' = (v2 \/ c \in V2Conns)
  /\ onlines' = onlines \cup {c}
  /\ UNCHANGED <<latest, clients, post, notice, world>>

\* ingestReport of a message: over v2 it refreshes the POST session as well.
WsReport(c) ==
  /\ pc[c] = "serving"
  /\ IF c \in V2Conns THEN IngestPost(2)
                      ELSE v2' = FALSE /\ UNCHANGED <<post, onlines>>
  /\ UNCHANGED <<handlers, clients, notice, world>>

\* The read fails: the peer is gone, Close was called, or readWait is over.
SocketFails(c) ==
  /\ pc[c] = "serving"
  /\ pc' = [pc EXCEPT ![c] = "failed"]
  /\ UNCHANGED <<latest, registry, post, notice, onlines, world>>

\* Faulty variant: whatever connection is registered is deleted.
RegisteredAfterAny(c) == None
\* DeleteClientConditionally.
RegisteredAfter(c) == IF clients = c THEN None ELSE clients

Remove(c) ==
  /\ pc[c] = "failed"
  /\ pc' = [pc EXCEPT ![c] = "removed"]
  /\ clients' = RegisteredAfter(c)
  /\ v2' = (v2 /\ clients # c)
  /\ UNCHANGED <<latest, post, notice, onlines, world>>

End(c) ==
  /\ pc[c] = "removed"
  /\ pc' = [pc EXCEPT ![c] = "done"]
  /\ Offline(c)
  /\ UNCHANGED <<latest, registry, post, onlines, world>>

----------------------------------------------------------------------------
(* The administrator, the agent, time *)

\* adminRemoveClient: the row, then DeleteConnectedClients. The connection
\* itself stays open.
AdminRemove ==
  /\ known /\ known' = FALSE
  /\ clients' = None /\ v2' = FALSE /\ latest' = None
  /\ UNCHANGED <<pc, post, notice, onlines, enabled>>

SetEnabled ==
  /\ enabled' = ~enabled
  /\ UNCHANGED <<handlers, registry, post, notice, onlines, known>>

Less(n) == IF n = 0 THEN 0 ELSE n - 1

Tick ==
  /\ entry' = [entry EXCEPT !.left = Less(@)]
  /\ presence' = [presence EXCEPT !.left = Less(@)]
  /\ fresh' = Less(fresh)
  /\ timers' = {<<t[1], Less(t[2])>> : t \in timers}
  /\ since' = IF since < Grace THEN since + 1 ELSE since
  /\ UNCHANGED <<handlers, registry, fired, expired, used, reports, state,
                 onlines, world>>

----------------------------------------------------------------------------
Init ==
  /\ pc = [c \in Conns |-> "idle"] /\ latest = None
  /\ clients = None /\ v2 = FALSE
  /\ presence = Absent /\ entry = NoEntry /\ fired = {} /\ expired = {}
  /\ used = {} /\ fresh = 0 /\ reports = 0
  /\ state = [id |-> None, first |-> TRUE, exist |-> FALSE, pending |-> FALSE]
  /\ timers = {} /\ since = Grace /\ onlines = {}
  /\ enabled = TRUE /\ known = TRUE

\* A callback that was waiting runs; an offline goroutine wakes up.
CallbackRuns == \E cb \in fired : PostExpired(cb)
GraceEnds == \E t \in timers : GraceOver(t)

Next ==
  \/ \E c \in Conns : \/ Accept(c) \/ Register(c) \/ Announce(c) \/ WsReport(c)
                      \/ SocketFails(c) \/ Remove(c) \/ End(c)
  \/ \E version \in {1, 2} : PostReport(version)
  \/ Pull \/ TimerFires
  \/ CallbackRuns
  \/ \E s \in Sessions : ClearPresence(s) \/ NotifyExpired(s)
  \/ \E id \in Ids : RunOnline(id)
  \/ GraceEnds
  \/ AdminRemove \/ SetEnabled \/ Tick

Spec == Init /\ [][Next]_vars

\* Goroutines and timers run; every connection ends (readWait). The reports
\* end with MaxReports: what FairSpec describes is an agent that goes away.
FairSpec ==
  /\ Spec
  /\ WF_vars(Tick) /\ WF_vars(TimerFires)
  /\ \A c \in Conns :
       /\ WF_vars(Register(c)) /\ WF_vars(Announce(c))
       /\ WF_vars(SocketFails(c))
       /\ WF_vars(Remove(c)) /\ WF_vars(End(c))
  /\ WF_vars(CallbackRuns)
  /\ \A s \in Sessions : WF_vars(ClearPresence(s)) /\ WF_vars(NotifyExpired(s))
  /\ \A id \in Ids : WF_vars(RunOnline(id))
  /\ WF_vars(GraceEnds)
----------------------------------------------------------------------------
(* Properties *)

\* Every variable has its type.
TypeOK ==
  /\ pc \in [Conns -> {"idle", "accepted", "registered", "serving", "failed",
                       "removed", "done"}]
  /\ clients \in Conns \cup {None} /\ latest \in Conns \cup {None}
  /\ v2 \in BOOLEAN
  /\ presence \in [id : Sessions \cup {None}, left : 0..TTL]
  /\ entry \in [id : Sessions \cup {None}, gen : 0..MaxReports,
                armed : BOOLEAN, left : 0..TTL]
  /\ fired \subseteq Sessions \X (0..MaxReports)
  /\ expired \subseteq Sessions \X {"presence", "notify"}
  /\ used \subseteq Sessions
  /\ state \in [id : Ids \cup {None}, first : BOOLEAN, exist : BOOLEAN,
                pending : BOOLEAN]
  /\ onlines \subseteq Ids /\ timers \subseteq Ids \X (0..Grace)
  /\ enabled \in BOOLEAN /\ known \in BOOLEAN
  /\ reports \in 0..MaxReports /\ fresh \in 0..TTL /\ since \in 0..Grace

Online == clients # None \/ presence.left > 0    \* GetAllOnlineUUIDs

\* However connections replace each other, the registry follows their
\* handlers: the newest connection stays in the map while it is served, and no
\* connection stays there once its handler has cleaned up.
RegistryTracksHandlers ==
  /\ latest # None /\ pc[latest] \in {"registered", "serving"}
       => clients = latest
  /\ clients # None => pc[clients] \in {"registered", "serving", "failed"}

\* An agent that reported by POST within the TTL is online, however late the
\* callbacks of its earlier timers and sessions run.
RecentReportIsOnline == fresh > 0 => Online /\ presence.left > 0

\* A pending outage belongs to a client that was announced as connected: one
\* outage is never notified twice.
OneNoticePerOutage == state.pending => state.exist

Sends == state.exist /\ ~state'.exist

\* An offline notification is sent only when the whole grace period has
\* passed since the outage it reports began, not since an earlier one.
GraceIsKept == [][Sends => since = Grace]_vars

\* An agent that goes away is shown offline in the end, and its outage does
\* not stay pending.
Pending == state.pending
GoesOffline ==
  /\ <>[]~Online
  /\ Pending ~> ~Pending

----------------------------------------------------------------------------
(* Claims of the repository that the code does not meet *)

\* offline.go: the connection ID tells sessions apart "to prevent races" and
\* an offline event counts only if it comes from the current session: nothing
\* is reported offline while a connection is served and has been announced.
OfflineOnlyWhenGone ==
  [][Sends => \A c \in Conns : pc[c] = "serving" => c \in onlines]_vars

\* ingest.go: the protocol version of a report marks what the client can do:
\* after a v2 report the agent is taken for a v2 client.
ReportMarksProtocol == [][\A c \in V2Conns : WsReport(c) => v2']_vars
=============================================================================
