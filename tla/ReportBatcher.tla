--------------------------- MODULE ReportBatcher ---------------------------
(***************************************************************************)
(* The report half of internal/metricstore's batch worker, for one agent:  *)
(* request handlers put reports on the worker's queue, the worker drains   *)
(* it on a ticker or on request and writes what it drained to the store,   *)
(* StopReportBatcher ends it after a last flush. The traffic of a report   *)
(* is the increase of the agent's cumulative counter since the report      *)
(* before it. Ping results take the same way: see PingResults.             *)
(*                                                                         *)
(* Report n is the n-th stamped with its receive time, n * K; one moved    *)
(* behind another (values.timestamp + 1 ms) gets that one's time + 1. One  *)
(* counter stands for upload and download. A report comes with any uptime:  *)
(* it is smaller than that of the report before it when the agent          *)
(* restarted, or when the two have overtaken each other.                   *)
(***************************************************************************)
EXTENDS Integers, Sequences, SequencesExt

CONSTANTS
  MaxReports,  \* bound: reports of the agent
  MaxTotal,    \* bound: the agent's traffic counter
  MaxUptime,   \* bound: the agent's uptime
  QueueSize    \* reportBatchQueueSize

Reports == 1..MaxReports
K       == MaxReports + 1
Times   == 0..(K * K)

VARIABLES
  pc,                   \* where the handler of each report is
  total, uptime,        \* the counter and the uptime in each report
  registered, stopping, \* reportBatcher # nil; worker.stopping
  queue, requests,      \* the worker's channels
  wstate, current, pending, \* run: where it is, its request, its reports
  flush, stop,          \* the callers of FlushReportBatch, StopReportBatcher
  traffic,              \* reportTrafficStates[uuid]
  stored,               \* the agent's points in the store, by timestamp
  plan,                 \* what a handler that writes by itself has prepared
  committed, dropped,   \* history: reports written; given up by the worker
  lookupFailed          \* history: a base counter could not be read

handlers == <<pc, total, uptime>>
worker   == <<queue, requests, wstate, current, pending>>
callers  == <<flush, stop>>
store    == <<traffic, stored, committed, lookupFailed>>
vars     == <<handlers, registered, stopping, worker, callers, store, plan, dropped>>

NoPoint   == [report |-> 0, counter |-> -1, delta |-> 0]
NoTraffic == [known |-> FALSE, ts |-> -1, counter |-> -1, uptime |-> -1]
NoPoints  == [t \in Times |-> NoPoint]
NoPlan    == [points |-> NoPoints, values |-> NoTraffic]

Stamp(n) == n * K

----------------------------------------------------------------------------
(* writeReportBatch *)

\* latestReportCounter: the counter of the latest point before a timestamp.
PointBefore(ts) ==
  LET earlier == {t \in Times : t < ts /\ stored[t] # NoPoint}
  IN  IF earlier = {} THEN NoPoint
      ELSE stored[CHOOSE t \in earlier : \A u \in earlier : u <= t]
CounterBefore(ts) == PointBefore(ts).counter

\* The state a batch starts from. The stored counter is looked up when the
\* process has no state yet, and an error of that lookup is only logged.
Restored(n, found) ==
  IF traffic.known THEN traffic
  ELSE [NoTraffic EXCEPT !.known = TRUE,
                         !.counter = IF found THEN CounterBefore(Stamp(n)) ELSE -1]

\* No base, an uptime or a counter below the last one: no traffic. The process
\* knows no uptime before its first report, and that is below none.
Increase(values, n) ==
  IF \/ values.counter = -1
     \/ uptime[n] < values.uptime
     \/ total[n] < values.counter
    THEN 0 ELSE total[n] - values.counter

\* Faulty variant: every report of a batch counts from the batch's base.
StepFromBase(acc, n) ==
  LET ts == IF Stamp(n) <= acc.values.ts THEN acc.values.ts + 1 ELSE Stamp(n)
  IN  [points |-> [acc.points EXCEPT ![ts] =
                     [report |-> n, counter |-> total[n],
                      delta |-> Increase(acc.values, n)]],
       values |-> [acc.values EXCEPT !.ts = ts]]

\* One report of the batch: its point, and the state after it.
Step(acc, n) ==
  LET ts == IF Stamp(n) <= acc.values.ts THEN acc.values.ts + 1 ELSE Stamp(n)
  IN  [points |-> [acc.points EXCEPT ![ts] =
                     [report |-> n, counter |-> total[n],
                      delta |-> Increase(acc.values, n)]],
       values |-> [known |-> TRUE, ts |-> ts, counter |-> total[n], uptime |-> uptime[n]]]

Prepared(batch, found) ==
  LET after[i \in 0..Len(batch)] ==
        IF i = 0 THEN [points |-> NoPoints, values |-> Restored(batch[1], found)]
                 ELSE Step(after[i-1], batch[i])
  IN  after[Len(batch)]

\* WriteBatch upserts by timestamp.
Upserted(points) ==
  [t \in Times |-> IF points[t] # NoPoint THEN points[t] ELSE stored[t]]

\* refused: no lease of the gate, or no store. failed: WriteBatch returned an
\* error when its memory already held the points. written: it succeeded.
Outcomes == {"refused", "failed", "written"}

\* Faulty variant: the state advances although the write failed.
KeptTrafficAlways(values, outcome) == values
KeptTraffic(values, outcome) == IF outcome = "written" THEN values ELSE traffic

WritePrepared(p, batch, outcome) ==
  /\ stored' = IF outcome = "refused" THEN stored ELSE Upserted(p.points)
  /\ traffic' = KeptTraffic(p.values, outcome)
  /\ committed' = IF outcome = "written" THEN committed \cup Range(batch) ELSE committed

LookupFails(n, found) ==
  lookupFailed' = (lookupFailed \/ (~found /\ ~traffic.known
                                    /\ CounterBefore(Stamp(n)) # -1))

----------------------------------------------------------------------------
(* WriteReport, called by the handlers *)

\* The handler stamps the report and reads reportBatcher, under a mutex that it
\* releases before it uses what it read. The counter has grown or been reset, the
\* agent has restarted, or the report was sent before one stamped earlier.
Receive(n) ==
  /\ pc[n] = "new" /\ (n > 1 => pc[n-1] # "new")
  /\ pc' = [pc EXCEPT ![n] = IF registered THEN "enqueue" ELSE "direct"]
  /\ \E c \in 0..MaxTotal, up \in 0..MaxUptime :
       /\ total' = [total EXCEPT ![n] = c]
       /\ uptime' = [uptime EXCEPT ![n] = up]
  /\ UNCHANGED <<registered, stopping, worker, callers, store, plan, dropped>>

Accepts(q) == ~stopping /\ Len(q) < QueueSize

\* enqueue, under the worker's mutex.
Enqueue(n) ==
  /\ pc[n] = "enqueue"
  /\ IF Accepts(queue)
       THEN pc' = [pc EXCEPT ![n] = "queued"] /\ queue' = Append(queue, n)
       ELSE pc' = [pc EXCEPT ![n] = "rejected"] /\ UNCHANGED queue
  /\ UNCHANGED <<total, uptime, registered, stopping, requests, wstate, current,
                 pending, callers, store, plan, dropped>>

\* Without a worker the handler prepares and writes the report itself.
DirectPrepare(n) ==
  /\ pc[n] = "direct"
  /\ pc' = [pc EXCEPT ![n] = "writing"]
  /\ \E found \in BOOLEAN :
       /\ plan' = [plan EXCEPT ![n] = Prepared(<<n>>, found)]
       /\ LookupFails(n, found)
  /\ UNCHANGED <<total, uptime, registered, stopping, worker, callers, traffic,
                 stored, committed, dropped>>

DirectWrite(n) ==
  /\ pc[n] = "writing"
  /\ \E outcome \in Outcomes :
       /\ pc' = [pc EXCEPT ![n] = IF outcome = "written" THEN "saved" ELSE "failed"]
       /\ WritePrepared(plan[n], <<n>>, outcome)
  /\ plan' = [plan EXCEPT ![n] = NoPlan]
  /\ UNCHANGED <<total, uptime, registered, stopping, worker, callers,
                 lookupFailed, dropped>>

----------------------------------------------------------------------------
(* reportBatchWorker.run *)

Drain ==
  /\ wstate = "waiting" /\ wstate' = "writing"
  /\ pending' = pending \o queue
  /\ queue' = <<>>
  /\ UNCHANGED <<handlers, registered, stopping, callers, store, plan, dropped>>

Tick == Drain /\ current' = "ticker" /\ UNCHANGED requests

TakeRequest ==
  /\ requests # <<>>
  /\ Drain
  /\ current' = Head(requests) /\ requests' = Tail(requests)

\* Faulty variant: a failed batch is not kept for the next round.
LeftNone(batch, outcome) == <<>>
Left(batch, outcome) == IF outcome = "written" THEN <<>> ELSE batch

\* After the write: keep what is left for the next round, or exit. A caller
\* whose context has ended does not read the answer.
Finish(left, result) ==
  /\ pending' = left /\ current' = "none"
  /\ IF current = "stop" THEN wstate' = "exited" /\ dropped' = dropped \cup Range(left)
                         ELSE wstate' = "waiting" /\ UNCHANGED dropped
  /\ flush' = IF current = "flush" /\ flush = "sent" THEN "left" ELSE flush
  /\ stop' = IF current = "stop" /\ stop = "sent" THEN result ELSE stop
  /\ UNCHANGED <<handlers, registered, stopping, queue, requests, plan>>

\* writePendingReports: nothing to write, or all of pending as one batch.
WriteNothing ==
  /\ wstate = "writing" /\ pending = <<>>
  /\ Finish(<<>>, "ok")
  /\ UNCHANGED store

WritePending(outcome) ==
  /\ wstate = "writing" /\ pending # <<>>
  /\ \E found \in BOOLEAN :
       /\ WritePrepared(Prepared(pending, found), pending, outcome)
       /\ LookupFails(pending[1], found)
  /\ Finish(Left(pending, outcome), IF outcome = "written" THEN "ok" ELSE "error")

----------------------------------------------------------------------------
(* FlushReportBatch and StopReportBatcher *)

\* FlushReportBatch: the check of stopping, and the send after it.
BeginFlush ==
  /\ flush = "idle"
  /\ flush' = IF registered /\ ~stopping THEN "send" ELSE "left"
  /\ UNCHANGED <<handlers, registered, stopping, worker, stop, store, plan, dropped>>

SendFlush ==
  /\ flush = "send" /\ requests = <<>>
  /\ flush' = "sent" /\ requests' = <<"flush">>
  /\ UNCHANGED <<handlers, registered, stopping, queue, wstate, current, pending,
                 stop, store, plan, dropped>>

\* The context ends, or worker.done is found closed.
LeaveFlush ==
  /\ flush \in {"send", "sent"} /\ flush' = "left"
  /\ UNCHANGED <<handlers, registered, stopping, worker, stop, store, plan, dropped>>

BeginStop ==
  /\ stop = "idle" /\ registered
  /\ stop' = "send" /\ stopping' = TRUE
  /\ UNCHANGED <<handlers, registered, worker, flush, store, plan, dropped>>

SendStop ==
  /\ stop = "send" /\ requests = <<>>
  /\ stop' = "sent" /\ requests' = <<"stop">>
  /\ UNCHANGED <<handlers, registered, stopping, queue, wstate, current, pending,
                 flush, store, plan, dropped>>

\* The answer has come: the worker is unregistered. Or the context ends first,
\* which leaves the stopping worker registered.
LeaveStop ==
  /\ \/ stop \in {"ok", "error"} /\ registered /\ registered' = FALSE /\ UNCHANGED stop
     \/ stop \in {"send", "sent"} /\ stop' = "timeout" /\ UNCHANGED registered
  /\ UNCHANGED <<handlers, stopping, worker, flush, store, plan, dropped>>

----------------------------------------------------------------------------
\* After InitStores, which starts the worker before the server takes requests;
\* the store may hold a point from before the process started.
Init ==
  /\ pc = [n \in Reports |-> "new"]
  /\ total = [n \in Reports |-> 0] /\ uptime = [n \in Reports |-> 0]
  /\ registered = TRUE /\ stopping = FALSE
  /\ queue = <<>> /\ requests = <<>>
  /\ wstate = "waiting" /\ current = "none" /\ pending = <<>>
  /\ flush = "idle" /\ stop = "idle"
  /\ traffic = NoTraffic
  /\ \E c \in -1..MaxTotal : stored = [NoPoints EXCEPT ![0].counter = c]
  /\ plan = [n \in Reports |-> NoPlan]
  /\ committed = {} /\ dropped = {} /\ lookupFailed = FALSE

Handlers == \E n \in Reports :
  Receive(n) \/ Enqueue(n) \/ DirectPrepare(n) \/ DirectWrite(n)
Worker  == Tick \/ TakeRequest \/ WriteNothing \/ \E o \in Outcomes : WritePending(o)
Callers == \/ BeginFlush \/ SendFlush \/ LeaveFlush
           \/ BeginStop \/ SendStop \/ LeaveStop

Next == Handlers \/ Worker \/ Callers

Spec == Init /\ [][Next]_vars

----------------------------------------------------------------------------
(* Properties *)

\* The queue and the request channel stay within their capacities.
TypeOK ==
  /\ pc \in [Reports -> {"new", "enqueue", "queued", "rejected",
                         "direct", "writing", "saved", "failed"}]
  /\ total \in [Reports -> 0..MaxTotal] /\ uptime \in [Reports -> 0..MaxUptime]
  /\ registered \in BOOLEAN /\ stopping \in BOOLEAN
  /\ queue \in Seq(Reports) /\ Len(queue) <= QueueSize
  /\ requests \in Seq({"flush", "stop"}) /\ Len(requests) <= 1
  /\ wstate \in {"waiting", "writing", "exited"}
  /\ current \in {"none", "ticker", "flush", "stop"}
  /\ pending \in Seq(Reports)
  /\ flush \in {"idle", "send", "sent", "left"}
  /\ stop \in {"idle", "send", "sent", "ok", "error", "timeout"}
  /\ traffic \in [known : BOOLEAN, ts : Times \cup {-1},
                  counter : -1..MaxTotal, uptime : -1..MaxUptime]
  /\ stored \in [Times -> [report : 0..MaxReports, counter : -1..MaxTotal,
                           delta : 0..MaxTotal]]
  /\ committed \subseteq Reports /\ dropped \subseteq Reports
  /\ lookupFailed \in BOOLEAN

\* A report whose handler was told that it is accepted is on its way with a
\* live worker, written, or given up by a worker whose last flush failed: the
\* check of stopping and the send are one step for the worker's mutex.
NothingVanishes ==
  \A n \in Reports : pc[n] = "queued" =>
    \/ n \in committed \cup dropped
    \/ wstate # "exited" /\ n \in Range(queue) \cup Range(pending)

\* When StopReportBatcher returns without an error, every accepted report has
\* been written.
StopFlushes ==
  stop = "ok" => \A n \in Reports : pc[n] = "queued" => n \in committed
AcceptedIsKept == NothingVanishes /\ StopFlushes

\* However often a batch is written again after an error, a report has one
\* point only: the state that decides its time and traffic advances with the
\* success, not with the attempt.
StoredOnce ==
  \A t, u \in Times : stored[t].report = stored[u].report /\ stored[t].report # 0 => t = u

\* However handlers, failing writes and the stop overlap.
ReportsKept == AcceptedIsKept /\ StoredOnce

\* The traffic of a point is the increase of the counter since the point
\* before it, across batches, retries, reordered handlers and the start of the
\* process, whose first report continues from the store; it is zero when the
\* counter is below that point's, or the uptime is below that of the report
\* there. The process computes it from what it remembers of the last success:
\* the property relates it to what the store holds. A report that was
\* overtaken lowers the base, so that the one after it counts an increase
\* anew. Not covered: a base that could not be read, and handlers that write
\* without the worker.
TrafficExact ==
  \/ lookupFailed
  \/ \E n \in Reports : pc[n] \in {"writing", "saved", "failed"}
  \/ \A t \in Times : stored[t].report # 0 =>
       LET n      == stored[t].report
           before == PointBefore(t)
           lower  == before.report # 0 /\ uptime[n] < uptime[before.report]
       IN  stored[t].delta =
             IF before.counter = -1 \/ total[n] < before.counter \/ lower
               THEN 0 ELSE total[n] - before.counter

\* What an accepted report comes to in the end.
Accepted(n)    == pc[n] = "queued"
SettledFor(n)  == n \in committed \cup dropped

=============================================================================
