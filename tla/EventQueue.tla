----------------------------- MODULE EventQueue -----------------------------
(* How a scheduled ping reaches an agent (web/agent/v2_events.go, the v2      *)
(* handlers of web/api/client, and the agent's server package): through the   *)
(* WebSocket that is registered, or through a bounded queue of expiring       *)
(* events that the agent polls by POST while it has no WebSocket, and that is *)
(* pushed when the WebSocket comes back.  One agent; pings are numbered.      *)
EXTENDS Integers, Sequences, FiniteSets, SequencesExt

CONSTANTS
  EventTasks,  \* the ping tasks, numbered
  MaxPings,    \* bound: pings dispatched
  MaxConns,    \* bound: WebSocket connections of the agent
  QueueLimit,  \* v2EventQueueLimit
  SeenLimit,   \* v2SeenEventLimit
  ReportTake   \* events handed out with the answer to a report

Pings == 1..MaxPings
Conns == 1..MaxConns
Polls == {"pull", "report"}

VARIABLES
  queue,     \* the agent's queue, oldest first
  task,      \* the task of each ping, once dispatched
  expired,   \* pings whose event is past its time
  conn,      \* the registered connection, 0 when none
  v2,        \* the protocol flag of the agent
  session,   \* a POST session is open
  alive,     \* connections that work
  handler,   \* per connection: state of its handler on the server
  toPush,    \* events the handler has taken and not yet written
  pushed,    \* events the handler has written and not yet acknowledged
  disp,      \* per task: the dispatch that runs
  agent,     \* "down", "ws" or "post": what the agent's main loop does
  poll,      \* per kind of request: its state
  acks,      \* acknowledgements the agent owes
  seen,      \* events the agent has seen, oldest first
  runs,      \* per ping: how often the agent ran it from an answer
  written,   \* pings written to a connection that worked
  queued     \* pings that have entered the queue

server == <<queue, conn, v2, session>>
socket == <<alive, handler, toPush, pushed>>
client == <<agent, acks, seen, runs>>
vars == <<server, task, expired, socket, disp, client, poll, written, queued>>

Idle == [pc |-> "idle", ping |-> 0, conn |-> 0]
NoRequest == [pc |-> "idle", acks |-> {}, events |-> <<>>, woken |-> FALSE]

Init ==
  /\ queue = <<>> /\ conn = 0 /\ v2 = FALSE /\ session = FALSE
  /\ task = [e \in Pings |-> 0] /\ expired = {}
  /\ alive = {} /\ handler = [c \in Conns |-> "none"]
  /\ toPush = [c \in Conns |-> <<>>] /\ pushed = [c \in Conns |-> {}]
  /\ disp = [t \in EventTasks |-> Idle]
  /\ agent = "down" /\ acks = {} /\ seen = <<>> /\ runs = [e \in Pings |-> 0]
  /\ poll = [p \in Polls |-> NoRequest]
  /\ written = {} /\ queued = {}

-----------------------------------------------------------------------------
(* The queue.                                                                 *)
Without(q, es) ==
  LET kept[n \in 0..Len(q)] ==
        IF n = 0 THEN <<>>
        ELSE IF q[n] \in es THEN kept[n-1] ELSE Append(kept[n-1], q[n])
  IN  kept[Len(q)]
Pruned(q) == Without(q, expired)
Acked(q, ids) == Without(q, ids)
Coalesced(q, t) == Without(q, {e \in Pings : task[e] = t})
Limited(q) == IF Len(q) > QueueLimit THEN SubSeq(q, Len(q) - QueueLimit + 1, Len(q)) ELSE q
Taken(q, n) == IF n <= 0 \/ n > Len(q) THEN q ELSE SubSeq(q, 1, n)

Enqueued(e, t) == Limited(Append(Coalesced(Pruned(queue), t), e))

(* Faulty variant: the signal is only made anew, nobody is woken.             *)
WokenNobody == poll

(* close(q.signal): every request that waits is woken.                        *)
Woken == [p \in Polls |-> IF poll[p].pc = "waiting" THEN [poll[p] EXCEPT !.woken = TRUE] ELSE poll[p]]

Expire(e) ==
  /\ e \in Range(queue) \ expired
  /\ expired' = expired \cup {e}
  /\ UNCHANGED <<server, task, socket, disp, client, poll, written, queued>>

-----------------------------------------------------------------------------
(* DispatchPing: the connection is read, then the flag for the payload, the   *)
(* frame is written, and what could not be written is queued for a v2 agent.  *)
(* Tasks are numbered in the order of their first pings.                      *)
Dispatch(t) ==
  /\ disp[t].pc = "idle" /\ \A s \in EventTasks : s < t => \E e \in Pings : task[e] = s
  /\ \E e \in Pings :
       /\ task[e] = 0 /\ \A f \in Pings : f < e => task[f] # 0
       /\ task' = [task EXCEPT ![e] = t]
       /\ disp' = [disp EXCEPT ![t] = [pc |-> IF conn # 0 THEN "write" ELSE "flag", ping |-> e, conn |-> conn]]
  /\ UNCHANGED <<server, expired, socket, client, poll, written, queued>>

DispatchWrite(t) ==
  /\ disp[t].pc = "write"
  /\ IF disp[t].conn \in alive
     THEN /\ disp' = [disp EXCEPT ![t] = Idle]
          /\ written' = IF v2 THEN written \cup {disp[t].ping} ELSE written
     ELSE disp' = [disp EXCEPT ![t].pc = "flag"] /\ UNCHANGED written
  /\ UNCHANGED <<server, task, expired, socket, client, poll, queued>>

DispatchFlag(t) ==
  /\ disp[t].pc = "flag"
  /\ disp' = [disp EXCEPT ![t] = IF v2 THEN [@ EXCEPT !.pc = "enqueue"] ELSE Idle]
  /\ UNCHANGED <<server, task, expired, socket, client, poll, written, queued>>

Enqueue(t) ==
  /\ disp[t].pc = "enqueue"
  /\ queue' = Enqueued(disp[t].ping, t) /\ queued' = queued \cup {disp[t].ping}
  /\ poll' = Woken
  /\ disp' = [disp EXCEPT ![t] = Idle]
  /\ UNCHANGED <<conn, v2, session, task, expired, socket, client, written>>

-----------------------------------------------------------------------------
(* WebSocketV2RPC: the connection is registered, the flag set, and the queue  *)
(* pushed frame by frame; what was written is acknowledged in the end, or     *)
(* when a write fails.                                                        *)
Connect(c) ==
  /\ agent # "ws" /\ poll["report"].pc = "idle"
  /\ handler[c] = "none" /\ \A b \in Conns : b < c => handler[b] # "none"
  /\ agent' = "ws" /\ alive' = alive \cup {c}
  /\ handler' = [handler EXCEPT ![c] = "accepted"]
  /\ UNCHANGED <<server, task, expired, toPush, pushed, disp, acks, seen, runs, poll, written, queued>>

Register(c) ==
  /\ handler[c] = "accepted"
  /\ conn' = c
  /\ handler' = [handler EXCEPT ![c] = "registered"]
  /\ UNCHANGED <<queue, v2, session, task, expired, alive, toPush, pushed, disp, client, poll, written, queued>>

Flag(c) ==
  /\ handler[c] = "registered"
  /\ v2' = TRUE
  /\ handler' = [handler EXCEPT ![c] = "flagged"]
  /\ UNCHANGED <<queue, conn, session, task, expired, alive, toPush, pushed, disp, client, poll, written, queued>>

TakeAll(c) ==
  /\ handler[c] = "flagged"
  /\ queue' = Pruned(queue)
  /\ toPush' = [toPush EXCEPT ![c] = Taken(Pruned(queue), 0)]
  /\ handler' = [handler EXCEPT ![c] = "pushing"]
  /\ UNCHANGED <<conn, v2, session, task, expired, alive, pushed, disp, client, poll, written, queued>>

PushOne(c) ==
  /\ handler[c] = "pushing" /\ toPush[c] # <<>> /\ c \in alive
  /\ toPush' = [toPush EXCEPT ![c] = Tail(@)]
  /\ pushed' = [pushed EXCEPT ![c] = @ \cup {Head(toPush[c])}]
  /\ written' = written \cup {Head(toPush[c])}
  /\ UNCHANGED <<server, task, expired, alive, handler, disp, client, poll, queued>>

(* Faulty variant: the queue is emptied once it has been pushed.              *)
AfterPushAll(q, c) == <<>>

AfterPush(q, c) == Acked(q, pushed[c])

PushEnds(c) ==
  /\ handler[c] = "pushing" /\ (toPush[c] = <<>> \/ c \notin alive)
  /\ queue' = AfterPush(queue, c)
  /\ handler' = [handler EXCEPT ![c] = IF toPush[c] = <<>> THEN "serving" ELSE "failed"]
  /\ toPush' = [toPush EXCEPT ![c] = <<>>] /\ pushed' = [pushed EXCEPT ![c] = {}]
  /\ UNCHANGED <<conn, v2, session, task, expired, alive, disp, client, poll, written, queued>>

(* A report over the WebSocket: it marks version 2 and then refreshes the     *)
(* POST session, which marks version 1 when it opens; its answer carries no   *)
(* events, because the report has no id.                                      *)
WsReport(c) ==
  /\ handler[c] = "serving" /\ c \in alive
  /\ v2' = session /\ session' = TRUE
  /\ queue' = Pruned(queue)
  /\ UNCHANGED <<conn, task, expired, socket, disp, client, poll, written, queued>>

SocketBreaks(c) ==
  /\ c \in alive
  /\ alive' = alive \ {c}
  /\ agent' = IF agent = "ws" /\ \A b \in Conns : b > c => handler[b] = "none" THEN "down" ELSE agent
  /\ UNCHANGED <<server, task, expired, handler, toPush, pushed, disp, acks, seen, runs, poll, written, queued>>

HandlerEnds(c) ==
  /\ handler[c] \in {"serving", "failed"} /\ c \notin alive
  /\ conn' = IF conn = c THEN 0 ELSE conn
  /\ v2' = IF conn = c THEN FALSE ELSE v2
  /\ handler' = [handler EXCEPT ![c] = "ended"]
  /\ UNCHANGED <<queue, session, task, expired, alive, toPush, pushed, disp, client, poll, written, queued>>

SessionExpires ==
  /\ session /\ session' = FALSE
  /\ UNCHANGED <<queue, conn, v2, task, expired, socket, disp, client, poll, written, queued>>

-----------------------------------------------------------------------------
(* runPostFallback and runV2PullLoop: reports and long polls by POST, until   *)
(* the WebSocket is back, which cancels the pull; both acknowledge what the   *)
(* agent owed when they were built.                                           *)
FallBack ==
  /\ agent = "down"
  /\ agent' = "post"
  /\ UNCHANGED <<server, task, expired, socket, disp, acks, seen, runs, poll, written, queued>>

Send(p) ==
  /\ agent = "post" /\ poll[p].pc = "idle"
  /\ poll' = [poll EXCEPT ![p] = [@ EXCEPT !.pc = "sent", !.acks = acks]]
  /\ UNCHANGED <<server, task, expired, socket, disp, client, written, queued>>

(* TakeV2Events with the answer to a report; WaitV2Events reads the signal    *)
(* under the lock that found the queue empty.                                 *)
Arrive(p) ==
  /\ poll[p].pc = "sent"
  /\ LET q == Pruned(Acked(queue, poll[p].acks)) IN
       /\ queue' = q
       /\ poll' = [poll EXCEPT ![p] =
            IF p = "pull" /\ q = <<>>
            THEN [@ EXCEPT !.pc = "waiting"]
            ELSE [@ EXCEPT !.pc = "answered", !.events = Taken(q, IF p = "report" THEN ReportTake ELSE QueueLimit)]]
  /\ v2' = (p = "pull" \/ session) /\ session' = TRUE
  /\ UNCHANGED <<conn, task, expired, socket, disp, client, written, queued>>

(* The signal or the timer ends the wait, and the queue is taken again.       *)
WaitEnds ==
  /\ poll["pull"].pc = "waiting"
  /\ queue' = Pruned(queue)
  /\ poll' = [poll EXCEPT !["pull"] = [@ EXCEPT !.pc = "answered", !.woken = FALSE, !.events = Taken(Pruned(queue), QueueLimit)]]
  /\ UNCHANGED <<conn, v2, session, task, expired, socket, disp, client, written, queued>>

(* markV2EventSeen: the oldest of a full memory makes room.                   *)
Remembered(s, e) == Append(IF Len(s) >= SeenLimit THEN Tail(s) ELSE s, e)
(* Faulty variant: an event counts as seen while its acknowledgement is owed. *)
FreshOnceAcked(e) == e \notin acks

Fresh(e) == ~Contains(seen, e)

(* clearV2AckEventIDs: the acknowledgements that were sent are settled.       *)
Answer(p) ==
  /\ poll[p].pc = "answered" /\ (p = "pull" => agent = "post")
  /\ acks' = acks \ poll[p].acks
  /\ poll' = [poll EXCEPT ![p] = IF @.events = <<>> THEN NoRequest ELSE [@ EXCEPT !.pc = "received"]]
  /\ UNCHANGED <<server, task, expired, socket, disp, agent, seen, runs, written, queued>>

(* processV2ResponseEvents: one event after the other is run, or known, and   *)
(* its acknowledgement owed; the other request's answer may come between.     *)
Process(p) ==
  /\ poll[p].pc = "received"
  /\ LET e == Head(poll[p].events) IN
       /\ IF Fresh(e) THEN /\ runs' = [runs EXCEPT ![e] = @ + 1]
                           /\ seen' = Remembered(seen, e)
          ELSE UNCHANGED <<runs, seen>>
       /\ acks' = acks \cup {e}
  /\ poll' = [poll EXCEPT ![p] = IF Len(@.events) = 1 THEN NoRequest ELSE [@ EXCEPT !.events = Tail(poll[p].events)]]
  /\ UNCHANGED <<server, task, expired, socket, disp, agent, written, queued>>

(* The request or its answer is lost, or the pull is cancelled: the agent     *)
(* keeps what it owes and asks again.                                         *)
Lost(p) ==
  /\ poll[p].pc \in {"sent", "answered"}
  /\ poll' = [poll EXCEPT ![p] = NoRequest]
  /\ UNCHANGED <<server, task, expired, socket, disp, client, written, queued>>

Next ==
  \/ \E e \in Pings : Expire(e)
  \/ \E t \in EventTasks : Dispatch(t) \/ DispatchWrite(t) \/ DispatchFlag(t) \/ Enqueue(t)
  \/ \E c \in Conns : \/ Connect(c) \/ Register(c) \/ Flag(c) \/ TakeAll(c) \/ PushOne(c) \/ PushEnds(c)
                      \/ WsReport(c) \/ SocketBreaks(c) \/ HandlerEnds(c)
  \/ SessionExpires \/ FallBack \/ WaitEnds
  \/ \E p \in Polls : Send(p) \/ Arrive(p) \/ Answer(p) \/ Process(p) \/ Lost(p)

Spec == Init /\ [][Next]_vars

-----------------------------------------------------------------------------
(* An event the agent gets in answers runs at most once, although every       *)
(* answer repeats what is not acknowledged yet, acknowledgements travel with  *)
(* requests that may be lost, and a report and a long poll overlap.           *)
PolledOnce == \A e \in Pings : runs[e] <= 1

(* A long poll never sleeps through an event: when it waits and has not been  *)
(* signalled, nothing has been queued since it looked.                        *)
NoMissedSignal ==
  poll["pull"].pc = "waiting" /\ ~poll["pull"].woken => Pruned(queue) = <<>>

(* However pings, pushes, reports, polls and lost answers overlap.            *)
EventsRunOnce == PolledOnce /\ NoMissedSignal

(* The queue keeps the promise of EventDelivery: an event leaves it only when *)
(* the agent has it, it was written to a connection, it is out of date, or    *)
(* newer ones crowd it out, whatever is enqueued while a push or a poll runs. *)
Received == {e \in Pings : runs[e] > 0} \cup written
Superseded == {e \in queued : \E f \in queued : f > e /\ task[f] = task[e]}
Delivery == INSTANCE EventDelivery WITH
  Capacity <- QueueLimit, kept <- Range(queue) \ expired,
  got <- Received, outdated <- expired \cup Superseded
DeliveryRefined == Delivery!Spec
=============================================================================
