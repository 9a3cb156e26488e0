------------------------- MODULE AgentPresenceProofs --------------------------
(***************************************************************************)
(* Proofs about AgentPresence for any number of connections and sessions:  *)
(* the registry follows its handlers, a recent report keeps the agent      *)
(* online, an outage is notified once and after the whole grace period.    *)
(* The second part is about AgentProcess, for any days, amounts and        *)
(* faults: the traffic that the agent reports and saves.                   *)
(***************************************************************************)
EXTENDS AgentPresence, AgentProcess, FiniteSetTheorems, TLAPS

Steps == {"idle", "accepted", "registered", "serving", "failed", "removed", "done"}
Notices == [id : Ids \cup {None}, first : BOOLEAN, exist : BOOLEAN, pending : BOOLEAN]
Entry == [id : Sessions, gen : Nat, armed : BOOLEAN, left : 0..TTL]

\* The types of what the proofs reason about.
Typed ==
  /\ pc \in [Conns -> Steps]
  /\ clients \in Conns \cup {None} /\ latest \in Conns \cup {None}
  /\ presence \in [id : Sessions \cup {None}, left : 0..TTL]
  /\ entry \in Entry \cup {NoEntry}
  /\ fired \subseteq Sessions \X Nat
  /\ expired \subseteq Sessions \X {"presence", "notify"}
  /\ used \subseteq Sessions
  /\ state \in Notices
  /\ onlines \subseteq Ids /\ timers \subseteq Ids \X (0..Grace)
  /\ fresh \in 0..TTL /\ since \in 0..Grace

\* A POST session is opened once: what is left of an earlier one, a callback
\* that waits or one that is past the check, never names the open one as it is.
SessionsOnce ==
  /\ entry # NoEntry => entry.id \in used
  /\ \A cb \in fired : /\ cb[1] \in used
                       /\ cb[1] = entry.id => cb[2] <= entry.gen
                       /\ Current(cb) => entry.left = 0
  /\ \A e \in expired : e[1] \in used /\ e[1] # entry.id
  /\ \A s \in Sessions : ~(<<s, "presence">> \in expired /\ <<s, "notify">> \in expired)

\* A session that was refreshed within the TTL is open, with its timer set, and
\* is the one whose presence is shown.
FreshIsShown == fresh > 0 => /\ entry # NoEntry /\ entry.left = fresh
                             /\ presence = [id |-> entry.id, left |-> fresh]

\* The connection or session has ended and has told the notifier.
Over(id) == IF id \in Conns THEN pc[id] = "done"
            ELSE /\ id \in used /\ id # entry.id
                 /\ <<id, "presence">> \notin expired /\ <<id, "notify">> \notin expired

\* An outage was announced by the end of the session it is about, which ends
\* once; until then the client counts as announced.
OutagesOnce ==
  /\ state.pending => state.exist
  /\ state.id # None => state.exist \/ Over(state.id)
  /\ \A t \in timers : Over(t[1])

\* The goroutine of the pending outage wakes up when its grace period is over.
GraceRuns == \A t \in timers : state.pending /\ state.id = t[1] => t[2] + since >= Grace

IInv == /\ Typed /\ RegistryTracksHandlers /\ SessionsOnce /\ FreshIsShown
        /\ OutagesOnce /\ GraceRuns

-----------------------------------------------------------------------------
\* The start satisfies the invariant.
LEMMA InitInv == Init => IInv
  BY PresenceAssumption DEF Init, IInv, Typed, Steps, Notices, Entry, RegistryTracksHandlers, SessionsOnce,
     FreshIsShown, OutagesOnce, GraceRuns, Ids, Absent, NoEntry, None, Over

\* A refresh arms a session with the whole TTL: the open one as its next
\* generation, or one never used before.
LEMMA RefreshEffect ==
  ASSUME Typed, Refresh
  PROVE  /\ entry' \in Entry /\ entry'.left = TTL /\ fresh' = TTL
         /\ presence' = [id |-> entry'.id, left |-> TTL]
         /\ fired' = fired /\ expired' = expired
         /\ onlines' \subseteq Ids /\ used' \subseteq Sessions
         /\ \/ entry # NoEntry /\ entry'.id = entry.id /\ entry'.gen = entry.gen + 1 /\ used' = used
            \/ entry = NoEntry /\ entry'.id \notin used /\ used' = used \cup {entry'.id}
<1> USE PresenceAssumption DEF Typed, Entry
<1>1. CASE entry # NoEntry /\ entry' = [entry EXCEPT !.gen = @ + 1, !.armed = TRUE, !.left = TTL]
              /\ UNCHANGED <<used, onlines>> /\ presence' = [id |-> entry.id, left |-> TTL]
  <2>1. entry \in Entry
    BY <1>1
  <2>2. entry' = [id |-> entry.id, gen |-> entry.gen + 1, armed |-> TRUE, left |-> TTL]
    BY <1>1, <2>1
  <2>3. entry.gen + 1 \in Nat /\ entry.id \in Sessions
    BY <2>1
  <2>4. entry' \in Entry /\ entry'.left = TTL /\ entry'.id = entry.id /\ entry'.gen = entry.gen + 1
    BY <2>2, <2>3
  <2> QED
    BY <1>1, <2>2, <2>4 DEF Refresh
<1>2. CASE entry = NoEntry /\ \E s \in Sessions \ used :
              /\ used' = used \cup {s}
              /\ entry' = [id |-> s, gen |-> 0, armed |-> TRUE, left |-> TTL]
              /\ presence' = [id |-> s, left |-> TTL]
              /\ onlines' = onlines \cup {s}
  <2> PICK s \in Sessions \ used : /\ used' = used \cup {s}
                                   /\ entry' = [id |-> s, gen |-> 0, armed |-> TRUE, left |-> TTL]
                                   /\ presence' = [id |-> s, left |-> TTL]
                                   /\ onlines' = onlines \cup {s}
    BY <1>2
  <2> QED
    BY <1>2 DEF Refresh, Ids
<1> QED
  BY <1>1, <1>2 DEF Refresh

\* What the end of a session does to the notifier: nothing, or it begins an
\* outage of the current session.
LEMMA OfflineEffect ==
  ASSUME Typed, NEW id \in Ids, Offline(id)
  PROVE  \/ UNCHANGED notice
         \/ /\ ~state.pending /\ state.id = id
            /\ state' \in Notices /\ state'.pending /\ state'.id = id /\ state'.exist = state.exist
            /\ timers' = timers \cup {<<id, Grace>>} /\ since' = 0
  BY DEF Offline, Pend, Typed, Notices

\* The new connection is recorded, and its outage is not pending any more.
LEMMA OnlineEffect ==
  ASSUME Typed, NEW id \in Ids, RunOnline(id)
  PROVE  /\ \/ state' = state
            \/ /\ state' \in Notices /\ state'.id = id /\ ~state'.pending
               /\ state.pending /\ state.exist => state'.exist
               /\ ~state.pending => state'.exist
         /\ timers' = timers /\ since' = since
  BY DEF RunOnline, OnlineState, Typed, Notices, Ids

\* A goroutine that wakes up is gone, and clears the outage it waited for.
LEMMA GraceEffect ==
  ASSUME Typed, NEW t \in timers, GraceOver(t)
  PROVE  /\ t[2] = 0 /\ timers' = timers \ {t} /\ since' = since
         /\ \/ state' = state /\ ~(state.pending /\ state.id = t[1])
            \/ /\ state.pending /\ state.id = t[1]
               /\ state' \in Notices /\ state'.id = t[1] /\ ~state'.pending /\ ~state'.exist
  BY DEF GraceOver, StillGone, Typed, Notices

\* What time does to the session and to its presence.
LEMMA TickEffect ==
  ASSUME Typed, Tick
  PROVE  /\ entry' \in Entry \cup {NoEntry} /\ entry'.left = Less(entry.left)
         /\ entry'.id = entry.id /\ entry'.gen = entry.gen
         /\ entry' = NoEntry <=> entry = NoEntry
         /\ presence' = [id |-> presence.id, left |-> Less(presence.left)]
         /\ presence'.left \in 0..TTL
         /\ timers' \subseteq Ids \X (0..Grace)
         /\ since' \in 0..Grace /\ fresh' = Less(fresh) /\ fresh' \in 0..TTL
<1> USE PresenceAssumption DEF Typed, Entry, Tick
<1>1. \A n \in Nat : Less(n) \in Nat /\ Less(n) <= n
  BY DEF Less
<1>2. \/ entry' = NoEntry /\ entry = NoEntry
      \/ /\ entry \in Entry
         /\ entry' = [id |-> entry.id, gen |-> entry.gen, armed |-> entry.armed, left |-> Less(entry.left)]
         /\ Less(entry.left) \in 0..TTL
  <2>1. CASE entry = NoEntry
    BY <2>1 DEF NoEntry, Less
  <2>2. CASE entry \in Entry
    BY <1>1, <2>2
  <2> QED
    BY <2>1, <2>2
<1>3. None \notin Sessions
  BY DEF Ids
<1>4. entry' \in Entry \cup {NoEntry} /\ entry'.left = Less(entry.left) /\ entry'.id = entry.id
      /\ entry'.gen = entry.gen /\ (entry' = NoEntry <=> entry = NoEntry)
  <2>1. CASE entry' = NoEntry /\ entry = NoEntry
    BY <2>1 DEF NoEntry, Less
  <2>2. CASE /\ entry \in Entry
             /\ entry' = [id |-> entry.id, gen |-> entry.gen, armed |-> entry.armed, left |-> Less(entry.left)]
             /\ Less(entry.left) \in 0..TTL
    BY <1>3, <2>2 DEF NoEntry
  <2> QED
    BY <1>2, <2>1, <2>2
<1>5. presence' = [id |-> presence.id, left |-> Less(presence.left)] /\ presence'.left \in 0..TTL
  BY <1>1
<1>6. timers' \subseteq Ids \X (0..Grace)
  <2> SUFFICES ASSUME NEW t \in timers
               PROVE  <<t[1], Less(t[2])>> \in Ids \X (0..Grace)
    OBVIOUS
  <2> QED
    BY <1>1
<1>7. since' \in 0..Grace /\ fresh' = Less(fresh) /\ fresh' \in 0..TTL
  BY <1>1
<1> QED
  BY <1>4, <1>5, <1>6, <1>7

\* Every step keeps the types.
LEMMA TypedStep ==
  ASSUME Typed, [Next]_vars
  PROVE  Typed'
<1> USE PresenceAssumption DEF Typed, vars, handlers, registry, post, notice, world
<1>1. ASSUME NEW c \in Conns, Accept(c)
      PROVE  Typed'
  BY <1>1 DEF Accept, Steps
<1>2. ASSUME NEW c \in Conns, Register(c)
      PROVE  Typed'
  BY <1>2 DEF Register, Steps
<1>3. ASSUME NEW c \in Conns, Announce(c)
      PROVE  Typed'
  BY <1>3 DEF Announce, Steps, Ids
<1>4. ASSUME NEW c \in Conns, WsReport(c)
      PROVE  Typed'
  <2>1. CASE Refresh
    BY <1>4, <2>1, RefreshEffect DEF WsReport, Entry
  <2>2. CASE UNCHANGED <<post, onlines>>
    BY <1>4, <2>2 DEF WsReport
  <2> QED
    BY <1>4, <2>1, <2>2 DEF WsReport, IngestPost
<1>5. ASSUME NEW c \in Conns, SocketFails(c)
      PROVE  Typed'
  BY <1>5 DEF SocketFails, Steps
<1>6. ASSUME NEW c \in Conns, Remove(c)
      PROVE  Typed'
  BY <1>6 DEF Remove, RegisteredAfter, Steps
<1>7. ASSUME NEW c \in Conns, End(c)
      PROVE  Typed'
  <2>1. c \in Ids /\ Offline(c)
    BY <1>7 DEF End, Ids
  <2> QED
    BY <1>7, <2>1, OfflineEffect DEF End, Steps
<1>8. ASSUME NEW protocol \in {1, 2}, PostReport(protocol)
      PROVE  Typed'
  BY <1>8, RefreshEffect DEF PostReport, IngestPost, Entry
<1>9. CASE Pull
  BY <1>9, RefreshEffect DEF Pull, Entry
<1>10. CASE TimerFires
  <2>1. entry \in Entry
    BY <1>10 DEF TimerFires, NoEntry
  <2>2. entry' \in Entry
    BY <1>10, <2>1 DEF TimerFires, Entry
  <2> QED
    BY <1>10, <2>1, <2>2 DEF TimerFires, Entry
<1>11. ASSUME NEW cb \in fired, PostExpired(cb)
      PROVE  Typed'
  BY <1>11 DEF PostExpired, Current
<1>12. ASSUME NEW s \in Sessions, ClearPresence(s)
      PROVE  Typed'
  BY <1>12 DEF ClearPresence, Cleared, Absent
<1>13. ASSUME NEW s \in Sessions, NotifyExpired(s)
      PROVE  Typed'
  <2>1. s \in Ids /\ Offline(s)
    BY <1>13 DEF NotifyExpired, Ids
  <2> QED
    BY <1>13, <2>1, OfflineEffect DEF NotifyExpired
<1>14. ASSUME NEW id \in Ids, RunOnline(id)
      PROVE  Typed'
  BY <1>14, OnlineEffect DEF RunOnline
<1>15. ASSUME NEW t \in timers, GraceOver(t)
      PROVE  Typed'
  BY <1>15, GraceEffect DEF GraceOver
<1>16. CASE AdminRemove
  BY <1>16 DEF AdminRemove
<1>17. CASE SetEnabled
  BY <1>17 DEF SetEnabled
<1>18. CASE Tick
  BY <1>18, TickEffect DEF Tick
<1>19. CASE UNCHANGED vars
  BY <1>19
<1> QED
  BY <1>1, <1>2, <1>3, <1>4, <1>5, <1>6, <1>7, <1>8, <1>9, <1>10, <1>11, <1>12, <1>13, <1>14, <1>15, <1>16, <1>17, <1>18, <1>19 DEF Next, CallbackRuns, GraceEnds

\* Handlers overlap, but each deletes its own connection only.
LEMMA RegistryStep ==
  ASSUME Typed, RegistryTracksHandlers, [Next]_vars
  PROVE  RegistryTracksHandlers'
<1> USE PresenceAssumption DEF Typed, Steps, RegistryTracksHandlers, vars, handlers, registry, post, notice, world
<1>1. ASSUME NEW c \in Conns, Accept(c)
      PROVE  RegistryTracksHandlers'
  BY <1>1 DEF Accept
<1>2. ASSUME NEW c \in Conns, Register(c)
      PROVE  RegistryTracksHandlers'
  BY <1>2 DEF Register
<1>3. ASSUME NEW c \in Conns, Announce(c)
      PROVE  RegistryTracksHandlers'
  BY <1>3 DEF Announce
<1>4. ASSUME NEW c \in Conns, WsReport(c)
      PROVE  RegistryTracksHandlers'
  BY <1>4 DEF WsReport, IngestPost, Refresh
<1>5. ASSUME NEW c \in Conns, SocketFails(c)
      PROVE  RegistryTracksHandlers'
  BY <1>5 DEF SocketFails
<1>6. ASSUME NEW c \in Conns, Remove(c)
      PROVE  RegistryTracksHandlers'
  BY <1>6 DEF Remove, RegisteredAfter
<1>7. ASSUME NEW c \in Conns, End(c)
      PROVE  RegistryTracksHandlers'
  BY <1>7 DEF End, Offline, Pend
<1>8. ASSUME NEW protocol \in {1, 2}, PostReport(protocol)
      PROVE  RegistryTracksHandlers'
  BY <1>8 DEF PostReport, IngestPost, Refresh
<1>9. CASE Pull
  BY <1>9 DEF Pull, Refresh
<1>10. CASE TimerFires
  BY <1>10 DEF TimerFires
<1>11. ASSUME NEW cb \in fired, PostExpired(cb)
      PROVE  RegistryTracksHandlers'
  BY <1>11 DEF PostExpired, Current
<1>12. ASSUME NEW s \in Sessions, ClearPresence(s)
      PROVE  RegistryTracksHandlers'
  BY <1>12 DEF ClearPresence, Cleared
<1>13. ASSUME NEW s \in Sessions, NotifyExpired(s)
      PROVE  RegistryTracksHandlers'
  BY <1>13 DEF NotifyExpired, Offline, Pend
<1>14. ASSUME NEW id \in Ids, RunOnline(id)
      PROVE  RegistryTracksHandlers'
  BY <1>14 DEF RunOnline, OnlineState
<1>15. ASSUME NEW t \in timers, GraceOver(t)
      PROVE  RegistryTracksHandlers'
  BY <1>15 DEF GraceOver, StillGone
<1>16. CASE AdminRemove
  BY <1>16 DEF AdminRemove
<1>17. CASE SetEnabled
  BY <1>17 DEF SetEnabled
<1>18. CASE Tick
  BY <1>18 DEF Tick, Less
<1>19. CASE UNCHANGED vars
  BY <1>19
<1> QED
  BY <1>1, <1>2, <1>3, <1>4, <1>5, <1>6, <1>7, <1>8, <1>9, <1>10, <1>11, <1>12, <1>13, <1>14, <1>15, <1>16, <1>17, <1>18, <1>19 DEF Next, CallbackRuns, GraceEnds

\* The steps that touch the POST session.
LEMMA PostMoves ==
  ASSUME [Next]_vars
  PROVE  \/ Refresh \/ TimerFires \/ Tick
         \/ \E cb \in fired : PostExpired(cb)
         \/ \E s \in Sessions : ClearPresence(s) \/ NotifyExpired(s)
         \/ UNCHANGED post
  BY DEF Next, vars, notice, CallbackRuns, GraceEnds, Accept, Register, Announce, WsReport, IngestPost,
     SocketFails, Remove, End, PostReport, Pull, RunOnline, GraceOver, AdminRemove, SetEnabled

\* A refresh outdates every callback, and a session id is never used again.
LEMMA SessionsStep ==
  ASSUME Typed, SessionsOnce, FreshIsShown, [Next]_vars
  PROVE  SessionsOnce' /\ FreshIsShown'
<1> USE PresenceAssumption DEF SessionsOnce, FreshIsShown
<1>0. None \notin Sessions /\ NoEntry.id = None /\ NoEntry.left = 0
      /\ (entry \in Entry => entry.id \in Sessions /\ entry.gen \in Nat /\ entry.left \in 0..TTL)
      /\ (entry # NoEntry => entry \in Entry) /\ fresh \in 0..TTL /\ used \subseteq Sessions
      /\ (\A cb \in fired : cb = <<cb[1], cb[2]>> /\ cb[1] \in Sessions /\ cb[2] \in Nat)
      /\ (\A e \in expired : e = <<e[1], e[2]>> /\ e[1] \in Sessions)
  BY DEF Typed, NoEntry, Ids, Entry
<1>1. CASE Refresh
  <2>1. /\ entry' \in Entry /\ entry'.left = TTL /\ fresh' = TTL
        /\ presence' = [id |-> entry'.id, left |-> TTL]
        /\ fired' = fired /\ expired' = expired
        /\ \/ entry # NoEntry /\ entry'.id = entry.id /\ entry'.gen = entry.gen + 1 /\ used' = used
           \/ entry = NoEntry /\ entry'.id \notin used /\ used' = used \cup {entry'.id}
    BY <1>1, RefreshEffect
  <2>2. entry' # NoEntry /\ entry'.id \in Sessions /\ entry'.gen \in Nat
    BY <2>1, <1>0 DEF Entry
  <2>3. CASE entry # NoEntry /\ entry'.id = entry.id /\ entry'.gen = entry.gen + 1 /\ used' = used
    BY <1>0, <2>1, <2>2, <2>3 DEF Current
  <2>4. CASE entry = NoEntry /\ entry'.id \notin used /\ used' = used \cup {entry'.id}
    BY <1>0, <2>1, <2>2, <2>4 DEF Current
  <2> QED
    BY <2>1, <2>3, <2>4
<1>2. CASE TimerFires
  <2>1. entry \in Entry /\ entry.left = 0 /\ entry # NoEntry
    BY <1>0, <1>2 DEF TimerFires, NoEntry
  <2>2. /\ entry' \in Entry /\ entry'.id = entry.id /\ entry'.gen = entry.gen /\ entry'.left = 0
        /\ entry' # NoEntry
    BY <1>0, <1>2, <2>1 DEF TimerFires, Entry
  <2>3. fired' = fired \cup {<<entry.id, entry.gen>>} /\ UNCHANGED <<expired, used, fresh, presence>>
    BY <1>2 DEF TimerFires
  <2> QED
    BY <1>0, <2>1, <2>2, <2>3 DEF Current
<1>3. CASE Tick
  <2>1. /\ entry' \in Entry \cup {NoEntry} /\ entry'.left = Less(entry.left)
        /\ entry'.id = entry.id /\ entry'.gen = entry.gen
        /\ entry' = NoEntry <=> entry = NoEntry
        /\ presence' = [id |-> presence.id, left |-> Less(presence.left)]
        /\ fresh' = Less(fresh)
    BY <1>3, TickEffect
  <2>2. UNCHANGED <<fired, expired, used>>
    BY <1>3 DEF Tick
  <2>3. SessionsOnce'
    BY <1>0, <2>1, <2>2 DEF Current, Less
  <2>4. FreshIsShown'
    BY <1>0, <2>1, <2>2 DEF Less
  <2> QED
    BY <2>3, <2>4
<1>4. ASSUME NEW cb \in fired, PostExpired(cb)
      PROVE  SessionsOnce' /\ FreshIsShown'
  <2>1. fired' = fired \ {cb} /\ UNCHANGED <<used, fresh, presence>>
    BY <1>4 DEF PostExpired
  <2>2. CASE Current(cb)
    <3>1. entry' = NoEntry /\ expired' = expired \cup {<<cb[1], "presence">>} /\ fresh = 0
      BY <1>0, <1>4, <2>2 DEF PostExpired
    <3>2. \A e \in expired : e[1] # cb[1]
      BY <2>2 DEF Current
    <3> QED
      BY <1>0, <2>1, <2>2, <3>1, <3>2 DEF Current
  <2>3. CASE ~Current(cb)
    BY <1>0, <1>4, <2>1, <2>3 DEF PostExpired, Current
  <2> QED
    BY <2>2, <2>3
<1>5. ASSUME NEW s \in Sessions, ClearPresence(s)
      PROVE  SessionsOnce' /\ FreshIsShown'
  <2>1. /\ <<s, "presence">> \in expired
        /\ expired' = (expired \ {<<s, "presence">>}) \cup {<<s, "notify">>}
        /\ presence' = Cleared(s) /\ UNCHANGED <<entry, fired, used, fresh>>
    BY <1>5 DEF ClearPresence
  <2>2. s \in used /\ s # entry.id
    BY <2>1
  <2>3. SessionsOnce'
    BY <1>0, <2>1, <2>2 DEF Current
  <2>4. FreshIsShown'
    BY <1>0, <2>1, <2>2 DEF Cleared
  <2> QED
    BY <2>3, <2>4
<1>6. ASSUME NEW s \in Sessions, NotifyExpired(s)
      PROVE  SessionsOnce' /\ FreshIsShown'
  BY <1>0, <1>6 DEF NotifyExpired, Current
<1>7. CASE UNCHANGED post
  BY <1>7 DEF post, Current
<1> QED
  BY <1>1, <1>2, <1>3, <1>4, <1>5, <1>6, <1>7, PostMoves

\* What has ended does not begin again.
LEMMA OverStays ==
  ASSUME Typed, SessionsOnce, [Next]_vars, NEW id \in Ids, Over(id)
  PROVE  Over(id)'
<1> USE PresenceAssumption
<1>1. CASE id \in Conns
  <2>1. pc[id] = "done"
    BY <1>1 DEF Over
  <2>2. pc'[id] = "done"
    BY <1>1, <2>1 DEF Typed, Next, vars, handlers, post, CallbackRuns, GraceEnds, Accept, Register, Announce,
       WsReport, SocketFails, Remove, End, PostReport, Pull, TimerFires, PostExpired, ClearPresence,
       NotifyExpired, RunOnline, GraceOver, AdminRemove, SetEnabled, Tick
  <2> QED
    BY <1>1, <2>2 DEF Over
<1>2. CASE id \in Sessions
  <2>0. /\ id \notin Conns /\ id \in used /\ id # entry.id
        /\ <<id, "presence">> \notin expired /\ <<id, "notify">> \notin expired
    BY <1>2 DEF Over
  <2>1. CASE Refresh
    BY <2>0, <2>1, RefreshEffect DEF Over
  <2>2. CASE TimerFires
    <3>1. entry'.id = entry.id /\ UNCHANGED <<expired, used>>
      BY <2>2 DEF TimerFires, Typed, Entry, NoEntry
    <3> QED
      BY <2>0, <3>1 DEF Over
  <2>3. CASE Tick
    BY <2>0, <2>3, TickEffect DEF Over, Tick
  <2>4. ASSUME NEW cb \in fired, PostExpired(cb)
        PROVE  Over(id)'
    BY <1>2, <2>0, <2>4 DEF Over, PostExpired, Current, NoEntry, Ids
  <2>5. ASSUME NEW s \in Sessions, ClearPresence(s) \/ NotifyExpired(s)
        PROVE  Over(id)'
    BY <2>0, <2>5 DEF Over, ClearPresence, NotifyExpired
  <2>6. CASE UNCHANGED post
    BY <2>0, <2>6 DEF Over, post
  <2> QED
    BY <2>1, <2>2, <2>3, <2>4, <2>5, <2>6, PostMoves
<1> QED
  BY <1>1, <1>2 DEF Ids

\* The steps that touch what the notifier holds; a session that tells the
\* notifier of its end does so once.
LEMMA NoticeMoves ==
  ASSUME Typed, SessionsOnce, [Next]_vars
  PROVE  \/ \E id \in Ids : Offline(id) /\ ~Over(id) /\ Over(id)'
         \/ \E id \in Ids : RunOnline(id)
         \/ \E t \in timers : GraceOver(t)
         \/ Tick
         \/ UNCHANGED notice
<1>1. ASSUME NEW c \in Conns, End(c)
      PROVE  \E id \in Ids : Offline(id) /\ ~Over(id) /\ Over(id)'
  <2>1. c \in Ids /\ Offline(c) /\ ~Over(c) /\ Over(c)'
    BY <1>1 DEF End, Over, Ids, Typed
  <2> QED
    BY <2>1
<1>2. ASSUME NEW s \in Sessions, NotifyExpired(s)
      PROVE  \E id \in Ids : Offline(id) /\ ~Over(id) /\ Over(id)'
  <2>1. s \in Ids /\ s \notin Conns /\ Offline(s)
    BY <1>2, PresenceAssumption DEF NotifyExpired, Ids
  <2>2. /\ <<s, "notify">> \in expired /\ <<s, "presence">> \notin expired
        /\ s \in used /\ s # entry.id
        /\ expired' = expired \ {<<s, "notify">>} /\ UNCHANGED <<used, entry>>
    BY <1>2 DEF NotifyExpired, SessionsOnce
  <2> QED
    BY <2>1, <2>2 DEF Over
<1> QED
  BY <1>1, <1>2 DEF Next, vars, notice, CallbackRuns, GraceEnds, Accept, Register, Announce, WsReport,
     SocketFails, Remove, PostReport, Pull, TimerFires, PostExpired, ClearPresence, AdminRemove, SetEnabled

\* An outage begins when its session ends, which it does once, and its
\* goroutine starts with the whole grace period.
LEMMA OutagesStep ==
  ASSUME Typed, SessionsOnce, OutagesOnce, GraceRuns, [Next]_vars
  PROVE  OutagesOnce' /\ GraceRuns'
<1> USE PresenceAssumption DEF OutagesOnce, GraceRuns
<1>0. /\ None \notin Ids /\ (state.id # None => state.id \in Ids) /\ since \in 0..Grace
      /\ \A t \in timers : t[1] \in Ids /\ t[2] \in 0..Grace /\ t = <<t[1], t[2]>>
      /\ \A id \in Ids : Over(id) => Over(id)'
  BY OverStays DEF Typed, Notices
<1>1. ASSUME NEW id \in Ids, Offline(id), ~Over(id), Over(id)'
      PROVE  OutagesOnce' /\ GraceRuns'
  <2>1. CASE UNCHANGED notice
    BY <1>0, <2>1 DEF notice
  <2>2. CASE /\ ~state.pending /\ state.id = id
             /\ state' \in Notices /\ state'.pending /\ state'.id = id /\ state'.exist = state.exist
             /\ timers' = timers \cup {<<id, Grace>>} /\ since' = 0
    <3>1. \A t \in timers : t[1] # id
      BY <1>1
    <3>2. OutagesOnce'
      BY <1>0, <1>1, <2>2
    <3>3. GraceRuns'
      BY <1>0, <2>2, <3>1
    <3> QED
      BY <3>2, <3>3
  <2> QED
    BY <1>1, <2>1, <2>2, OfflineEffect
<1>2. ASSUME NEW id \in Ids, RunOnline(id)
      PROVE  OutagesOnce' /\ GraceRuns'
  BY <1>0, <1>2, OnlineEffect
<1>3. ASSUME NEW t \in timers, GraceOver(t)
      PROVE  OutagesOnce' /\ GraceRuns'
  BY <1>0, <1>3, GraceEffect
<1>4. CASE Tick
  <2>1. /\ timers' = {<<t[1], Less(t[2])>> : t \in timers} /\ state' = state
        /\ since' = IF since < Grace THEN since + 1 ELSE since
    BY <1>4 DEF Tick
  <2>2. OutagesOnce'
    BY <1>0, <2>1
  <2>3. ASSUME NEW t \in timers, state.pending, state.id = t[1]
        PROVE  Less(t[2]) + since' >= Grace
    BY <1>0, <2>1, <2>3 DEF Less
  <2> QED
    BY <2>1, <2>2, <2>3
<1>5. CASE UNCHANGED notice
  BY <1>0, <1>5 DEF notice
<1> QED
  BY <1>1, <1>2, <1>3, <1>4, <1>5, NoticeMoves

-----------------------------------------------------------------------------
\* The invariant holds throughout.
THEOREM Invariant == Spec => []IInv
<1>1. IInv /\ [Next]_vars => IInv'
  BY TypedStep, RegistryStep, SessionsStep, OutagesStep DEF IInv
<1> QED
  BY InitInv, <1>1, PTL DEF Spec

\* However many connections replace each other, in whatever order their
\* handlers run, the registry holds the newest while it is served and never
\* one whose handler has cleaned up (SetConnectedClients,
\* DeleteClientConditionally).
THEOREM RegistryAlways == Spec => []RegistryTracksHandlers
<1>1. IInv => RegistryTracksHandlers
  BY DEF IInv
<1> QED
  BY Invariant, <1>1, PTL

\* An agent that reported by POST within the TTL is online, however late the
\* expiry callbacks of earlier timers and sessions run.
THEOREM RecentReportAlways == Spec => []RecentReportIsOnline
<1>1. IInv => RecentReportIsOnline
  BY DEF IInv, Typed, FreshIsShown, RecentReportIsOnline, Online
<1> QED
  BY Invariant, <1>1, PTL

\* A pending outage is that of a client still announced as connected: it is
\* notified once.
THEOREM OneNotice == Spec => []OneNoticePerOutage
<1>1. IInv => OneNoticePerOutage
  BY DEF IInv, OutagesOnce, OneNoticePerOutage
<1> QED
  BY Invariant, <1>1, PTL

\* An offline notification is sent when the grace period of the outage it is
\* about has passed: no other step lets a client count as gone.
THEOREM GraceKept == Spec => GraceIsKept
<1>1. IInv /\ [Next]_vars => [Sends => since = Grace]_vars
  <2> SUFFICES ASSUME IInv, [Next]_vars, Sends
               PROVE  since = Grace
    OBVIOUS
  <2> USE DEF IInv
  <2>0. since \in 0..Grace /\ Grace \in Nat /\ state.exist /\ ~state'.exist
    BY PresenceAssumption DEF Typed, Sends
  <2>1. ASSUME NEW id \in Ids, Offline(id)
        PROVE  FALSE
    BY <2>0, <2>1, OfflineEffect DEF notice
  <2>2. ASSUME NEW id \in Ids, RunOnline(id)
        PROVE  FALSE
    BY <2>0, <2>2, OnlineEffect
  <2>3. ASSUME NEW t \in timers, GraceOver(t)
        PROVE  since = Grace
    BY <2>0, <2>3, GraceEffect DEF GraceRuns
  <2>4. ~Tick /\ ~(UNCHANGED notice)
    BY <2>0 DEF Tick, notice
  <2> QED
    BY <2>1, <2>2, <2>3, <2>4, NoticeMoves
<1> QED
  BY Invariant, <1>1, PTL DEF Spec, GraceIsKept

----------------------------------------------------------------------------
(* The traffic bookkeeping of AgentProcess. *)

\* What the next sample will find, with a counter that may have started over.
Unread == IF last < 0 THEN 0 ELSE SafeDelta(counter, last)

AgentTyped ==
  /\ day \in Days /\ counter \in Nat /\ moved \in Nat /\ last \in Nat \cup {-1} /\ cache \in Nat
  /\ store \in [Days -> Nat] /\ owed \in [Days -> Nat] /\ faults \in Nat
  /\ disk \in [kind : {"none", "bad", "ok"}, days : [Days -> Nat]] /\ running \in BOOLEAN

\* Memory and file hold, beside what is still to be read, no more than was moved.
Bounded ==
  /\ Total(store) + cache + Unread <= moved
  /\ Total(disk.days) + Unread <= moved
  /\ ~running => cache = 0

\* Once the shutdown's body has run, memory and file both hold what it saved.
Owing ==
  /\ closing # "exit" => owed = Empty
  /\ disk.kind # "ok" => disk.days = Empty
  /\ closing = "exit" =>
       \A d \in Days : d >= day - Preserve => owed[d] <= disk.days[d] /\ owed[d] <= store[d]

AgentInv == AgentTyped /\ Bounded /\ Owing

LEMMA BytesFinite ==
  ASSUME NEW f \in [Days -> Nat]
  PROVE  IsFiniteSet(Bytes(f)) /\ Total(f) = Cardinality(Bytes(f)) /\ Total(f) \in Nat
<1>1. IsFiniteSet(Days) /\ IsFiniteSet(1..MaxMoved)
  BY FS_Interval, AgentAssumption DEF Days
<1>2. IsFiniteSet(Days \X (1..MaxMoved))
  BY <1>1, FS_Product
<1>3. Bytes(f) \in SUBSET (Days \X (1..MaxMoved))
  BY DEF Bytes
<1>4. IsFiniteSet(Bytes(f))
  BY <1>2, <1>3, FS_Subset
<1> QED
  BY <1>4, FS_CardinalityType DEF Total

\* Days that lose bytes do not raise the total.
LEMMA TotalMonotone ==
  ASSUME NEW f \in [Days -> Nat], NEW g \in [Days -> Nat], \A d \in Days : f[d] <= g[d]
  PROVE  Total(f) <= Total(g)
<1>1. ASSUME NEW p \in Bytes(f)
      PROVE  p \in Bytes(g)
  BY <1>1, AgentAssumption DEF Bytes
<1>2. Bytes(f) \in SUBSET Bytes(g)
  BY <1>1
<1> QED
  BY <1>2, BytesFinite, FS_Subset

\* No bytes, no total.
LEMMA TotalEmpty == Empty \in [Days -> Nat] /\ Total(Empty) = 0
<1>1. Empty \in [Days -> Nat]
  BY DEF Empty
<1>2. Bytes(Empty) = {}
  BY AgentAssumption DEF Bytes, Empty
<1> QED
  BY <1>1, <1>2, BytesFinite, FS_EmptySet

\* An entry of c bytes raises the total by no more than c.
LEMMA TotalGrows ==
  ASSUME NEW f \in [Days -> Nat], NEW t \in Days, NEW c \in Nat
  PROVE  /\ [f EXCEPT ![t] = @ + c] \in [Days -> Nat]
         /\ Total([f EXCEPT ![t] = @ + c]) <= Total(f) + c
<1> DEFINE g == [f EXCEPT ![t] = @ + c]
           More == {t} \X ((f[t] + 1)..(f[t] + c))
<1>1. g \in [Days -> Nat]
  OBVIOUS
<1>2. IsFiniteSet({t}) /\ Cardinality({t}) = 1
  BY FS_Singleton
<1>3. \A n \in Nat : IsFiniteSet((n + 1)..(n + c)) /\ Cardinality((n + 1)..(n + c)) = c
  <2> TAKE n \in Nat
  <2>1. n + 1 \in Int /\ n + c \in Int
    OBVIOUS
  <2>2. /\ IsFiniteSet((n + 1)..(n + c))
        /\ Cardinality((n + 1)..(n + c)) = IF n + 1 > n + c THEN 0 ELSE (n + c) - (n + 1) + 1
    BY <2>1, FS_Interval
  <2> QED
    BY <2>2
<1>4. IsFiniteSet(More) /\ Cardinality(More) = c
  <2>1. f[t] \in Nat
    OBVIOUS
  <2>2. IsFiniteSet((f[t] + 1)..(f[t] + c)) /\ Cardinality((f[t] + 1)..(f[t] + c)) = c
    BY <1>3, <2>1
  <2>3. IsFiniteSet(More) /\ Cardinality(More) = 1 * c
    BY <1>2, <2>2, FS_Product
  <2> QED
    BY <2>3
<1>5. ASSUME NEW p \in Bytes(g)
      PROVE  p \in Bytes(f) \cup More
  <2>1. PICK d \in Days, i \in 1..MaxMoved : p = <<d, i>> /\ i <= g[d]
    BY <1>5 DEF Bytes
  <2>2. CASE i <= f[d]
    BY <2>1, <2>2 DEF Bytes
  <2>3. CASE ~(i <= f[d])
    <3>1. d = t /\ f[t] \in Nat /\ i \in Int /\ i > f[t] /\ i <= f[t] + c
      BY <2>1, <2>3, AgentAssumption
    <3>2. i \in (f[t] + 1)..(f[t] + c)
      BY <3>1
    <3> QED
      BY <2>1, <3>1, <3>2
  <2> QED
    BY <2>2, <2>3
<1>6. Bytes(g) \in SUBSET (Bytes(f) \cup More)
  BY <1>5
<1>7. IsFiniteSet(Bytes(f)) /\ Total(f) = Cardinality(Bytes(f)) /\ Total(f) \in Nat /\ Total(g) = Cardinality(Bytes(g))
      /\ Total(g) \in Nat
  BY <1>1, BytesFinite
<1>8. IsFiniteSet(Bytes(f) \cup More)
      /\ Cardinality(Bytes(f) \cup More) = Cardinality(Bytes(f)) + Cardinality(More) - Cardinality(Bytes(f) \cap More)
  BY <1>4, <1>7, FS_Union
<1>9. Cardinality(Bytes(f) \cap More) \in Nat
  BY <1>7, FS_Intersection, FS_CardinalityType
<1>10. Cardinality(Bytes(g)) <= Cardinality(Bytes(f) \cup More)
  BY <1>6, <1>8, FS_Subset
<1> HIDE DEF g, More
<1>11. Total(g) <= Total(f) + c
  BY <1>4, <1>7, <1>8, <1>9, <1>10
<1> QED
  BY <1>1, <1>11 DEF g

\* What expires only lowers the days.
LEMMA TotalUnexpired ==
  ASSUME NEW f \in [Days -> Nat], day \in Days
  PROVE  /\ Unexpired(f) \in [Days -> Nat] /\ Total(Unexpired(f)) <= Total(f)
         /\ \A d \in Days : d >= day - Preserve => Unexpired(f)[d] = f[d]
<1>1. Unexpired(f) \in [Days -> Nat] /\ \A d \in Days : Unexpired(f)[d] <= f[d]
  BY DEF Unexpired
<1>2. Days \subseteq Int /\ Preserve \in Int
  BY AgentAssumption DEF Days
<1> QED
  BY <1>1, <1>2, TotalMonotone DEF Unexpired

\* The flush of the tickers: the cache becomes an entry of today, old days go.
LEMMA FlushKeeps ==
  ASSUME AgentTyped
  PROVE  /\ Unexpired(Flushed) \in [Days -> Nat]
         /\ Total(Unexpired(Flushed)) <= Total(store) + cache
         /\ \A d \in Days : d >= day - Preserve => store[d] <= Unexpired(Flushed)[d]
<1> USE DEF AgentTyped
<1>1. Flushed \in [Days -> Nat] /\ Total(Flushed) <= Total(store) + cache
  BY TotalGrows DEF Flushed
<1>2. /\ Unexpired(Flushed) \in [Days -> Nat] /\ Total(Unexpired(Flushed)) <= Total(Flushed)
      /\ \A d \in Days : d >= day - Preserve => Unexpired(Flushed)[d] = Flushed[d]
  BY <1>1, TotalUnexpired
<1>3. Total(store) \in Nat /\ Total(Flushed) \in Nat /\ Total(Unexpired(Flushed)) \in Nat
  BY <1>1, <1>2, BytesFinite
<1>4. \A d \in Days : store[d] <= Flushed[d]
  BY DEF Flushed
<1>5. Total(Unexpired(Flushed)) <= Total(store) + cache
  BY <1>1, <1>2, <1>3
<1> QED
  BY <1>2, <1>4, <1>5

LEMMA AgentInitInv == AgentInit => AgentInv
<1> SUFFICES ASSUME AgentInit
             PROVE  AgentInv
  OBVIOUS
<1>1. AgentTyped
  <2>1. 0 \in Days
    BY AgentAssumption DEF Days
  <2>2. disk \in [kind : {"none", "bad", "ok"}, days : [Days -> Nat]]
    BY TotalEmpty DEF AgentInit
  <2> QED
    BY <2>1, <2>2, TotalEmpty DEF AgentInit, AgentTyped
<1>2. Bounded
  BY TotalEmpty DEF AgentInit, Bounded, Unread
<1>3. Owing
  BY DEF AgentInit, Owing
<1> QED
  BY <1>1, <1>2, <1>3 DEF AgentInv

\* What each piece of the bookkeeping leaves to be read.
LEMMA UnreadNat == AgentTyped => Unread \in Nat
BY DEF AgentTyped, Unread, SafeDelta

\* The start of netstatic: what it loads was in the file.
LEMMA StartKeeps ==
  ASSUME AgentInv, StartOrContinue, UNCHANGED <<day, counter, moved, last, cache, closing, owed>>
  PROVE  AgentInv'
<1> USE DEF AgentInv
<1>1. CASE UNCHANGED <<store, disk, running>> /\ (Works \/ Broken)
  <2>1. faults' \in Nat
    BY <1>1 DEF Works, Broken, AgentTyped
  <2>2. AgentTyped'
    BY <1>1, <2>1 DEF AgentTyped, Days
  <2>3. Bounded'
    BY <1>1 DEF Bounded, Unread, SafeDelta, Total, Bytes, Days
  <2>4. Owing'
    BY <1>1, <2>1 DEF Owing, Days, Empty
  <2> QED
    BY <2>2, <2>3, <2>4
<1>2. CASE ~running /\ Works /\ Loaded
  <2> USE <1>2
  <2>1. disk.days \in [Days -> Nat] /\ Total(disk.days) \in Nat /\ Total(store) \in Nat /\ Unread \in Nat
        /\ day \in Days /\ moved \in Nat /\ cache \in Nat
    BY BytesFinite, UnreadNat DEF AgentTyped
  <2>2. /\ Unexpired(disk.days) \in [Days -> Nat] /\ Total(Unexpired(disk.days)) <= Total(disk.days)
        /\ \A d \in Days : d >= day - Preserve => Unexpired(disk.days)[d] = disk.days[d]
    BY <2>1, TotalUnexpired
  <2>3. Unread' = Unread
    BY DEF Unread, SafeDelta
  <2>4. disk'.days = disk.days /\ (disk'.kind = "ok" <=> disk.kind = "ok")
    BY DEF Loaded, Owing
  <2>5. AgentTyped'
    BY <2>2, TotalEmpty DEF AgentTyped, Loaded, Works, Days
  <2>6. Total(store') + cache + Unread <= moved
    <3>1. CASE disk.kind = "ok"
      <4>1. store' = Unexpired(disk.days) /\ Total(Unexpired(disk.days)) \in Nat /\ cache = 0
        BY <3>1, <2>2, BytesFinite DEF Loaded, Bounded
      <4> QED
        BY <4>1, <2>1, <2>2 DEF Bounded
    <3>2. CASE disk.kind # "ok"
      BY <3>2 DEF Loaded, Bounded
    <3> QED
      BY <3>1, <3>2
  <2>7. Bounded'
    BY <2>3, <2>4, <2>6 DEF Bounded, Loaded, Total, Bytes, Days
  <2>8. Owing'
    <3>1. CASE disk.kind = "ok"
      BY <3>1, <2>2, <2>4 DEF Owing, Loaded, Works, Days, Empty
    <3>2. CASE disk.kind # "ok"
      BY <3>2, <2>4 DEF Owing, Loaded, Works, Days, Empty
    <3> QED
      BY <3>1, <3>2
  <2> QED
    BY <2>5, <2>7, <2>8
<1> QED
  BY <1>1, <1>2 DEF StartOrContinue

\* Steps that touch nothing of the bookkeeping but the clock, faults and closing.
LEMMA BookUntouched ==
  ASSUME AgentInv, UNCHANGED <<counter, moved, last, cache, store, disk, running, owed>>,
         day' \in Days, day' >= day, faults' \in Nat, closing' = "exit" <=> closing = "exit"
  PROVE  AgentInv'
<1> USE DEF AgentInv
<1>1. AgentTyped'
  BY DEF AgentTyped, Days
<1>2. Bounded'
  BY DEF Bounded, Unread, SafeDelta, Total, Bytes, Days
<1>3. \A d \in Days : d >= day' - Preserve => d >= day - Preserve
  <2>1. Days \subseteq Int /\ day \in Int /\ day' \in Int /\ Preserve \in Int
    BY AgentAssumption DEF AgentTyped, Days
  <2>2. \A d, a, b, p \in Int : b >= a /\ d >= b - p => d >= a - p
    OBVIOUS
  <2> QED
    BY <2>1, <2>2
<1>4. Owing'
  BY <1>3 DEF Owing, Days, Empty
<1> QED
  BY <1>1, <1>2, <1>4

\* Traffic, and a counter that starts over.
LEMMA CounterKeeps ==
  ASSUME AgentInv, Traffic \/ CounterReset
  PROVE  AgentInv'
<1> USE DEF AgentInv
<1>1. Total(store) \in Nat /\ Total(disk.days) \in Nat /\ Unread \in Nat /\ cache \in Nat /\ moved \in Nat
  BY BytesFinite, UnreadNat DEF AgentTyped
<1>2. UNCHANGED <<day, last, cache, store, disk, running, closing, owed>>
  BY DEF Traffic, CounterReset
<1>3. moved' \in Nat /\ counter' \in Nat /\ Unread' \in Nat /\ Unread' - Unread <= moved' - moved
  BY <1>1, <1>2 DEF Traffic, CounterReset, AgentTyped, Unread, SafeDelta
<1>4. faults' \in Nat
  BY DEF Traffic, CounterReset, Broken, AgentTyped
<1>5. AgentTyped'
  BY <1>2, <1>3, <1>4 DEF AgentTyped, Days
<1>6. Total(store') = Total(store) /\ Total(disk'.days) = Total(disk.days)
  BY <1>2
<1>7. Bounded'
  <2>1. Total(store) + cache + Unread' <= moved' /\ Total(disk.days) + Unread' <= moved'
    <3>1. Total(store) + cache + Unread <= moved /\ Total(disk.days) + Unread <= moved
      BY DEF Bounded
    <3>2. \A a, b, u, v, m, n \in Nat : (a + b + u <= m /\ v - u <= n - m) => a + b + v <= n
      OBVIOUS
    <3>3. \A a, u, v, m, n \in Nat : (a + u <= m /\ v - u <= n - m) => a + v <= n
      OBVIOUS
    <3>4. Total(store) + cache + Unread' <= moved'
      BY <1>1, <1>3, <3>1, <3>2
    <3>5. Total(disk.days) + Unread' <= moved'
      BY <1>1, <1>3, <3>1, <3>3
    <3> QED
      BY <3>4, <3>5
  <2> QED
    BY <1>2, <1>6, <2>1 DEF Bounded
<1>8. Owing'
  BY <1>2 DEF Owing, Days, Empty
<1> QED
  BY <1>5, <1>7, <1>8

\* The configuration is saved with what is in memory.
LEMMA ConfigKeeps ==
  ASSUME AgentInv, SetNewConfig
  PROVE  AgentInv'
<1> USE DEF AgentInv
<1>1. Total(store) \in Nat /\ Unread \in Nat /\ cache \in Nat /\ moved \in Nat
      /\ store \in [Days -> Nat] /\ day \in Days
  BY BytesFinite, UnreadNat DEF AgentTyped
<1>2. /\ Unexpired(store) \in [Days -> Nat] /\ Total(Unexpired(store)) <= Total(store)
      /\ \A d \in Days : d >= day - Preserve => Unexpired(store)[d] = store[d]
  BY <1>1, TotalUnexpired
<1>3. store' = Unexpired(store) /\ disk' = [kind |-> "ok", days |-> store]
      /\ UNCHANGED <<day, counter, moved, last, cache, running, closing, owed, faults>>
  BY DEF SetNewConfig, Saved
<1>4. AgentTyped'
  BY <1>1, <1>2, <1>3 DEF AgentTyped, Days
<1>5. Unread' = Unread /\ disk'.days = store /\ disk'.kind = "ok" /\ Total(store') \in Nat
  BY <1>2, <1>3, BytesFinite DEF Unread, SafeDelta
<1>6. Total(disk'.days) = Total(store)
  BY <1>5
<1>7. Bounded'
  BY <1>1, <1>2, <1>3, <1>5, <1>6 DEF Bounded
<1>8. Owing'
  BY <1>1, <1>2, <1>3, <1>5 DEF Owing, Days, Empty
<1> QED
  BY <1>4, <1>7, <1>8

\* A sample moves what was to be read into the cache.
LEMMA SampleKeeps ==
  ASSUME AgentInv, Sample
  PROVE  AgentInv'
<1> USE DEF AgentInv
<1>1. Total(store) \in Nat /\ Total(disk.days) \in Nat /\ Unread \in Nat /\ cache \in Nat /\ moved \in Nat
  BY BytesFinite, UnreadNat DEF AgentTyped
<1>2. UNCHANGED <<day, counter, moved, store, disk, running, closing, owed, faults>> /\ running
  BY DEF Sample
<1>3. cache' = cache + Unread /\ cache' \in Nat /\ last' \in Nat /\ Unread' = 0
  BY <1>1, <1>2 DEF Sample, Unread, SafeDelta, AgentTyped
<1>4. AgentTyped'
  BY <1>2, <1>3 DEF AgentTyped, Days
<1>5. Total(store') = Total(store) /\ Total(disk'.days) = Total(disk.days)
  BY <1>2
<1>6. Bounded'
  BY <1>1, <1>2, <1>3, <1>5 DEF Bounded
<1>7. Owing'
  BY <1>2 DEF Owing, Days, Empty
<1> QED
  BY <1>4, <1>6, <1>7

\* The flush into memory and file, by the save ticker and by Stop: a write that fails is a fault.
LEMMA SaveKeeps ==
  ASSUME AgentInv, running, store' = Unexpired(Flushed), cache' = 0,
         \/ Works /\ disk' = [kind |-> "ok", days |-> Unexpired(Flushed)]
         \/ Broken /\ UNCHANGED disk,
         \/ UNCHANGED <<running, closing, owed>>
         \/ /\ closing # "exit" /\ closing' = "exit" /\ running' = FALSE
            /\ \/ owed' = owed
               \/ owed' = Unexpired(Flushed) /\ disk' = [kind |-> "ok", days |-> Unexpired(Flushed)],
         UNCHANGED <<day, counter, moved, last>>
  PROVE  AgentInv'
<1> USE DEF AgentInv
<1>1. /\ Unexpired(Flushed) \in [Days -> Nat] /\ Total(Unexpired(Flushed)) <= Total(store) + cache
      /\ \A d \in Days : d >= day - Preserve => store[d] <= Unexpired(Flushed)[d]
  BY FlushKeeps
<1>2. /\ Total(store) \in Nat /\ Total(disk.days) \in Nat /\ Total(Unexpired(Flushed)) \in Nat
      /\ Unread \in Nat /\ cache \in Nat /\ moved \in Nat
  BY <1>1, BytesFinite, UnreadNat DEF AgentTyped
<1>3. Unread' = Unread
  BY DEF Unread, SafeDelta
<1>4. AgentTyped'
  <2>1. faults' \in Nat
    BY DEF AgentTyped, Works, Broken
  <2>2. disk' \in [kind : {"none", "bad", "ok"}, days : [Days -> Nat]]
    <3>1. [kind |-> "ok", days |-> Unexpired(Flushed)] \in [kind : {"none", "bad", "ok"}, days : [Days -> Nat]]
      BY <1>1
    <3> QED
      BY <3>1 DEF AgentTyped
  <2>3. owed' \in [Days -> Nat]
    BY <1>1 DEF AgentTyped
  <2>4. running' \in BOOLEAN
    BY DEF AgentTyped
  <2> QED
    BY <1>1, <2>1, <2>2, <2>3, <2>4 DEF AgentTyped, Days
<1>5. Total(store') = Total(Unexpired(Flushed))
      /\ (Total(disk'.days) = Total(Unexpired(Flushed)) \/ Total(disk'.days) = Total(disk.days))
  OBVIOUS
<1>6. Bounded'
  BY <1>1, <1>2, <1>3, <1>5 DEF Bounded
<1>7. /\ closing' # "exit" => owed' = Empty
      /\ disk'.kind # "ok" => disk'.days = Empty
  <2>1. closing' # "exit" => owed' = Empty
    BY DEF Owing
  <2>2. disk'.kind # "ok" => disk'.days = Empty
    BY DEF Owing
  <2> QED
    BY <2>1, <2>2
<1>8. ASSUME closing' = "exit", NEW d \in Days, d >= day - Preserve
      PROVE  owed'[d] <= disk'.days[d] /\ owed'[d] <= store'[d]
  <2>1. /\ store[d] \in Nat /\ disk.days[d] \in Nat /\ Unexpired(Flushed)[d] \in Nat /\ owed[d] \in Nat
        /\ store[d] <= Unexpired(Flushed)[d]
    BY <1>1, <1>8 DEF AgentTyped
  <2>2. owed[d] <= disk.days[d] /\ owed[d] <= store[d]
    BY <1>8, <2>1 DEF Owing, Empty
  <2>3. store' = Unexpired(Flushed) /\ disk'.days \in {disk.days, Unexpired(Flushed)}
    OBVIOUS
  <2>4. CASE owed' = owed
    BY <2>1, <2>2, <2>3, <2>4
  <2>5. CASE owed' = Unexpired(Flushed) /\ disk'.days = Unexpired(Flushed)
    BY <2>1, <2>3, <2>5
  <2>6. disk' = [kind |-> "ok", days |-> Unexpired(Flushed)] => disk'.days = Unexpired(Flushed)
    OBVIOUS
  <2>7. \/ owed' = owed
        \/ owed' = Unexpired(Flushed) /\ disk' = [kind |-> "ok", days |-> Unexpired(Flushed)]
    OBVIOUS
  <2> QED
    BY <2>4, <2>5, <2>6, <2>7
<1>9. Owing'
  BY <1>7, <1>8 DEF Owing, Days, Empty
<1> QED
  BY <1>4, <1>6, <1>9

\* Stop without netstatic running: nothing is owed.
LEMMA StopIdle ==
  ASSUME AgentInv, ~running, closing # "exit", closing' = "exit", Works,
         UNCHANGED <<day, counter, moved, last, cache, store, disk, running, owed>>
  PROVE  AgentInv'
<1> USE DEF AgentInv
<1>1. AgentTyped'
  BY DEF AgentTyped, Days, Works
<1>2. Bounded'
  BY DEF Bounded, Unread, SafeDelta, Total, Bytes, Days
<1>3. \A d \in Days : owed[d] <= disk.days[d] /\ owed[d] <= store[d]
  BY DEF Owing, Empty, AgentTyped
<1>4. Owing'
  BY <1>3 DEF Owing, Days, Empty
<1> QED
  BY <1>1, <1>2, <1>4

\* The process begins anew, with what is in the file only.
LEMMA AgainKeeps ==
  ASSUME AgentInv, Again
  PROVE  AgentInv'
<1> USE DEF AgentInv
<1>1. Total(disk.days) \in Nat /\ Unread \in Nat /\ moved \in Nat
  BY BytesFinite, UnreadNat DEF AgentTyped
<1>2. AgentTyped'
  BY TotalEmpty DEF AgentTyped, Again, Days
<1>3. Unread' = 0 /\ Total(store') = 0 /\ cache' = 0 /\ moved' = moved /\ Total(disk'.days) = Total(disk.days)
  BY TotalEmpty DEF Again, Unread
<1>4. Bounded'
  BY <1>1, <1>3 DEF Bounded
<1>5. Owing'
  BY DEF Owing, Again, Days, Empty
<1> QED
  BY <1>2, <1>4, <1>5

LEMMA AgentStep == AgentInv /\ [AgentNext]_gvars => AgentInv'
<1> SUFFICES ASSUME AgentInv, [AgentNext]_gvars
             PROVE  AgentInv'
  OBVIOUS
<1>0. day \in Days /\ day \in Int /\ faults \in Nat
  BY AgentAssumption DEF AgentInv, AgentTyped, Days
<1>1. CASE Traffic \/ CounterReset
  BY <1>1, CounterKeeps
<1>2. CASE NextDay
  <2>1. day' \in Days /\ day' >= day
    BY <1>0, <1>2, AgentAssumption DEF NextDay, Days
  <2> QED
    BY <2>1, <1>0, <1>2, BookUntouched DEF NextDay
<1>3. CASE Release \/ Discover \/ Exit \/ Kill
  BY <1>0, <1>3, BookUntouched DEF Release, Discover, Exit, Kill, Broken, Works
<1>4. CASE CheckUpdate \/ Signal
  BY <1>0, <1>4, BookUntouched DEF CheckUpdate, Signal, Shut, Works
<1>5. CASE StartAgent \/ ReportSpeed
  BY <1>5, StartKeeps DEF StartAgent, ReportSpeed
<1>6. CASE SetNewConfig
  BY <1>6, ConfigKeeps
<1>7. CASE Sample
  BY <1>7, SampleKeeps
<1>8. CASE SaveTick
  BY <1>8, SaveKeeps DEF SaveTick, CacheCleared, Saved
<1>9. CASE StopAgent
  <2>1. CASE ~running
    BY <1>9, <2>1, StopIdle DEF StopAgent
  <2>2. CASE running
    <3>1. /\ store' = Unexpired(Flushed) /\ cache' = 0 /\ running' = FALSE
          /\ closing # "exit" /\ closing' = "exit" /\ UNCHANGED <<day, counter, moved, last>>
      BY <1>9, <2>2 DEF StopAgent
    <3>2. \/ Works /\ disk' = [kind |-> "ok", days |-> Unexpired(Flushed)] /\ owed' = Unexpired(Flushed)
          \/ Broken /\ UNCHANGED <<disk, owed>>
      BY <1>9, <2>2 DEF StopAgent, Saved
    <3> QED
      BY <2>2, <3>1, <3>2, SaveKeeps
  <2> QED
    BY <2>1, <2>2
<1>10. CASE Again
  BY <1>10, AgainKeeps
<1>11. CASE UNCHANGED gvars
  BY <1>0, <1>11, BookUntouched DEF gvars
<1> QED
  BY <1>1, <1>2, <1>3, <1>4, <1>5, <1>6, <1>7, <1>8, <1>9, <1>10, <1>11 DEF AgentNext

\* Over any restarts, crashes, failed writes and counters that start over, the agent reports and
\* saves no more traffic than there was, and a shutdown in which no write failed leaves in the
\* file what was counted (static.go, shutdown.go).
THEOREM AgentAlwaysCounts == AgentSpec => []AgentCounts
<1>1. AgentInv => AgentCounts
  <2> SUFFICES ASSUME AgentInv
               PROVE  AgentCounts
    OBVIOUS
  <2> USE DEF AgentInv
  <2> DEFINE month == [d \in Days |-> IF d >= ResetDay THEN store[d] ELSE 0]
  <2>1. /\ Total(store) \in Nat /\ Total(disk.days) \in Nat /\ Unread \in Nat /\ cache \in Nat /\ moved \in Nat
        /\ store \in [Days -> Nat]
    BY BytesFinite, UnreadNat DEF AgentTyped
  <2>2. month \in [Days -> Nat] /\ \A d \in Days : month[d] <= store[d]
    BY <2>1
  <2>3. Total(month) <= Total(store) /\ Total(month) \in Nat
    BY <2>1, <2>2, TotalMonotone, BytesFinite
  <2>4. MonthTotal = Total(month) + cache
    BY DEF MonthTotal
  <2> HIDE DEF month
  <2>5. TrafficCountedOnce
    BY <2>1, <2>3, <2>4 DEF TrafficCountedOnce, Bounded
  <2>6. ExitSaves
    BY DEF ExitSaves, Owing, AgentTyped
  <2> QED
    BY <2>5, <2>6 DEF AgentCounts
<1> QED
  BY AgentInitInv, AgentStep, <1>1, PTL DEF AgentSpec

=============================================================================
