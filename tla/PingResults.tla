----------------------------- MODULE PingResults -----------------------------
(***************************************************************************)
(* The way of ping results: the agent tries a target (server/task.go), the *)
(* answer is accepted by a handler of the server (ingest.go) and put on    *)
(* the ping queue of the batch worker, which stores it in chunks as two    *)
(* points, latency and loss (report_batcher.go, ping_records.go), while an *)
(* administrator deletes tasks (database/tasks/ping.go).                   *)
(***************************************************************************)
EXTENDS Integers, Sequences, SequencesExt, FiniteSets, FiniteSetsExt, SequenceLemmas

CONSTANTS PingTasks, TcpTasks,      \* ping tasks, and those that measure a handshake
          Times,                    \* what a try may take, in ms
          Threshold, DropLimit,     \* highLatencyThreshold, retryDropThresholdTcping
          Retries,                  \* PingHighLatencyRetries
          QueueSize, ChunkSize,     \* reportBatchQueueSize, pingBatchMaxRecords
          MaxResults                \* results of the agent (bound)

Results == 1..MaxResults
LostPing == -1
NoValue == -2

VARIABLES
  rows, schedule,         \* tasks in the database, and those that are dispatched
  place, taskOf, tries,   \* of each result: where it is, its task, its measurements
  value,                  \* of each result: what was sent
  registered, stopping,   \* reportBatcher # nil; worker.stopping
  pingQueue, wstate,      \* run: its ping channel, where it is
  pending,                \* run: what it holds
  current, request,       \* whom run serves; whether StopReportBatcher asked it
  stop,                   \* StopReportBatcher
  latency, loss,          \* points of the two metrics
  del,                    \* DeletePingTask: [at, task]
  inStore, given          \* history: results written; given up by the worker

agentVars == <<place, taskOf, tries, value>>
workerVars == <<pingQueue, wstate, pending, current, request, given>>
storeVars == <<latency, loss, inStore>>
taskVars == <<rows, schedule, del>>
stopVars == <<registered, stopping, stop>>
pingVars == <<taskVars, agentVars, stopVars, workerVars, storeVars>>

ResultsInit ==
    /\ rows = PingTasks /\ schedule = PingTasks
    /\ place = [r \in Results |-> "idle"] /\ taskOf \in [Results -> PingTasks]
    /\ tries = [r \in Results |-> <<>>] /\ value = [r \in Results |-> NoValue]
    /\ registered = TRUE /\ stopping = FALSE
    /\ pingQueue = <<>> /\ wstate = "waiting" /\ pending = <<>> /\ current = "none"
    /\ request = FALSE /\ stop = "idle" /\ inStore = {} /\ given = {}
    /\ latency = [r \in Results |-> NoValue] /\ loss = [r \in Results |-> NoValue]
    /\ del = [at |-> "idle", task |-> CHOOSE t \in PingTasks : TRUE]

-----------------------------------------------------------------------------
(* NewPingTask *)

\* A retry is made only while all answers were slow.
Slow(t) == t > Threshold
Finished(ts) == ts # <<>> /\ (~Slow(Last(ts)) \/ Len(ts) = 1 + Retries)

\* A fast handshake right after a slow one means that a packet was lost.
Resent(r, ts) == taskOf[r] \in TcpTasks /\ ts[1] - Last(ts) > DropLimit
Judged(r, ts) == IF Last(ts) = LostPing \/ Slow(Last(ts)) \/ Resent(r, ts) THEN LostPing ELSE Last(ts)

DispatchPing(r) ==
    /\ place[r] = "idle" /\ (r > 1 => place[r - 1] # "idle") /\ taskOf[r] \in schedule
    /\ place' = [place EXCEPT ![r] = "trying"]
    /\ UNCHANGED <<taskOf, tries, value, taskVars, stopVars, workerVars, storeVars>>

Try(r, t) ==
    /\ place[r] = "trying"
    /\ LET ts == Append(tries[r], t) IN
       IF Finished(ts)
         THEN /\ place' = [place EXCEPT ![r] = "sending"] /\ value' = [value EXCEPT ![r] = Judged(r, ts)]
              /\ tries' = [tries EXCEPT ![r] = <<>>]
         ELSE tries' = [tries EXCEPT ![r] = ts] /\ UNCHANGED <<place, value>>
    /\ UNCHANGED <<taskOf, taskVars, stopVars, workerVars, storeVars>>

\* Over the WebSocket or by POST: nothing is sent twice.
SendResult(r, arrives) ==
    /\ place[r] = "sending"
    /\ place' = [place EXCEPT ![r] = IF arrives THEN "received" ELSE "lost"]
    /\ UNCHANGED <<taskOf, tries, value, taskVars, stopVars, workerVars, storeVars>>

-----------------------------------------------------------------------------
(* WritePingRecord *)

\* The handler reads reportBatcher under a mutex that it releases before it
\* uses what it read.
Receive(r) ==
    /\ place[r] = "received"
    /\ place' = [place EXCEPT ![r] = IF registered THEN "enqueue" ELSE "direct"]
    /\ UNCHANGED <<taskOf, tries, value, taskVars, stopVars, workerVars, storeVars>>

EnqueueResult(r) ==
    /\ place[r] = "enqueue"
    /\ IF ~stopping /\ Len(pingQueue) < QueueSize
         THEN place' = [place EXCEPT ![r] = "queued"] /\ pingQueue' = Append(pingQueue, r)
         ELSE place' = [place EXCEPT ![r] = "refused"] /\ UNCHANGED pingQueue
    /\ UNCHANGED <<taskOf, tries, value, taskVars, stopVars, wstate, pending, current, request, given, storeVars>>

\* refused: no store. failed: an error after memory took the points.
Outcomes == {"refused", "failed", "written"}
LossOf(v) == IF v < 0 THEN 1 ELSE 0
WriteRecords(records, outcome) ==
    LET Points(old, new) == IF outcome = "refused" THEN old
                            ELSE [r \in Results |-> IF r \in records THEN new[r] ELSE old[r]]
    IN  /\ latency' = Points(latency, value)
        /\ loss' = Points(loss, [r \in Results |-> LossOf(value[r])])
        /\ inStore' = IF outcome = "written" THEN inStore \cup records ELSE inStore

DirectWrite(r, outcome) ==
    /\ place[r] = "direct"
    /\ place' = [place EXCEPT ![r] = IF outcome = "written" THEN "saved" ELSE "refused"]
    /\ WriteRecords({r}, outcome)
    /\ UNCHANGED <<taskOf, tries, value, taskVars, stopVars, workerVars>>

-----------------------------------------------------------------------------
(* The ping half of reportBatchWorker.run *)

Drain(for) ==
    /\ wstate = "waiting" /\ wstate' = "writing" /\ current' = for
    /\ pending' = pending \o pingQueue /\ pingQueue' = <<>>
    /\ UNCHANGED <<agentVars, taskVars, stopVars, given, storeVars>>
TakeTick == Drain("ticker") /\ UNCHANGED request
TakeStop == request /\ request' = FALSE /\ Drain("stop")

\* The answer joins the error of the pings with that of the reports.
EndRound(failed) ==
    /\ IF current = "stop"
         THEN /\ wstate' = "exited" /\ given' = given \cup Range(pending)
              /\ stop' \in IF stop # "sent" THEN {stop} ELSE IF failed THEN {"error"} ELSE {"ok", "error"}
         ELSE wstate' = "waiting" /\ UNCHANGED <<given, stop>>
    /\ current' = "none"
    /\ UNCHANGED <<agentVars, taskVars, registered, stopping, pingQueue, pending, request>>

\* writePendingPingRecords: chunk by chunk; what was not written is kept.
Chunk == SubSeq(pending, 1, Min({ChunkSize, Len(pending)}))
\* Faulty variant: the batch counts as written after its first chunk.
RestNone == <<>>
Rest == SubSeq(pending, Len(Chunk) + 1, Len(pending))
WriteChunk ==
    /\ wstate = "writing" /\ pending # <<>>
    /\ WriteRecords(Range(Chunk), "written")
    /\ pending' = Rest
    /\ UNCHANGED <<agentVars, taskVars, stopVars, pingQueue, wstate, current, request, given>>
FailChunk(outcome) ==
    /\ wstate = "writing" /\ pending # <<>> /\ outcome # "written"
    /\ WriteRecords(Range(Chunk), outcome) /\ EndRound(TRUE)
AllWritten == wstate = "writing" /\ pending = <<>> /\ EndRound(FALSE) /\ UNCHANGED storeVars

-----------------------------------------------------------------------------
(* StopReportBatcher *)

BeginStop == /\ stop = "idle" /\ stop' = "send" /\ stopping' = TRUE
             /\ UNCHANGED <<agentVars, taskVars, registered, workerVars, storeVars>>
SendStop == /\ stop = "send" /\ stop' = "sent" /\ request' = TRUE
            /\ UNCHANGED <<agentVars, taskVars, registered, stopping, pingQueue, wstate, pending, current,
                           given, storeVars>>
\* Its context ends, or the answer is there and the worker is forgotten.
LeaveStop == /\ \/ stop \in {"send", "sent"} /\ stop' = "timeout" /\ UNCHANGED registered
                \/ stop \in {"ok", "error"} /\ registered /\ registered' = FALSE /\ UNCHANGED stop
             /\ UNCHANGED <<agentVars, taskVars, stopping, workerVars, storeVars>>

-----------------------------------------------------------------------------
(* DeletePingTask: the points of each metric, then the row, then the schedule.*)

Purged(points) == [r \in Results |-> IF taskOf[r] = del.task THEN NoValue ELSE points[r]]
Deleting(at, next) == del.at = at /\ del' = [del EXCEPT !.at = next]
BeginDelete(t) == /\ del.at = "idle" /\ t \in rows /\ del' = [at |-> "latency", task |-> t]
                  /\ UNCHANGED <<rows, schedule, agentVars, stopVars, workerVars, storeVars>>
DeleteLatency == /\ Deleting("latency", "loss") /\ latency' = Purged(latency)
                 /\ UNCHANGED <<rows, schedule, agentVars, stopVars, workerVars, loss, inStore>>
DeleteLoss == /\ Deleting("loss", "row") /\ loss' = Purged(loss)
              /\ UNCHANGED <<rows, schedule, agentVars, stopVars, workerVars, latency, inStore>>
DeleteRow == /\ Deleting("row", "reload") /\ rows' = rows \ {del.task}
             /\ UNCHANGED <<schedule, agentVars, stopVars, workerVars, storeVars>>
Reload == /\ Deleting("reload", "idle") /\ schedule' = rows
          /\ UNCHANGED <<rows, agentVars, stopVars, workerVars, storeVars>>
\* An error of any of the statements ends the call.
DeleteFails == /\ del.at \in {"latency", "loss", "row"} /\ del' = [del EXCEPT !.at = "failed"]
               /\ UNCHANGED <<rows, schedule, agentVars, stopVars, workerVars, storeVars>>

ResultsNext ==
    \/ \E r \in Results : \/ DispatchPing(r) \/ Receive(r) \/ EnqueueResult(r)
                          \/ \E t \in Times \cup {LostPing} : Try(r, t)
                          \/ \E arrives \in BOOLEAN : SendResult(r, arrives)
                          \/ \E outcome \in Outcomes : DirectWrite(r, outcome)
    \/ TakeTick \/ TakeStop \/ WriteChunk \/ AllWritten \/ \E outcome \in Outcomes : FailChunk(outcome)
    \/ BeginStop \/ SendStop \/ LeaveStop
    \/ DeleteLatency \/ DeleteLoss \/ DeleteRow \/ Reload \/ DeleteFails \/ \E t \in PingTasks : BeginDelete(t)
ResultsSpec == ResultsInit /\ [][ResultsNext]_pingVars

-----------------------------------------------------------------------------
Spared(r) == taskOf[r] \in rows /\ ~(del.task = taskOf[r] /\ del.at # "idle")

(* A result the server accepted is on its way with a live worker, written,  *)
(* or given up by a worker whose last flush failed, whatever chunk failed;  *)
(* and a stop without an error has written them all.                        *)
NoneVanishes ==
    \A r \in Results : place[r] = "queued" =>
        /\ r \in inStore \cup given \/ (wstate # "exited" /\ r \in Range(pingQueue \o pending))
        /\ stop = "ok" => r \in inStore
        /\ r \in Range(pending) => r \notin inStore

(* What was written of a task nobody deletes is there, once in each metric, *)
(* and the two say the same of it, also after chunks that failed halfway.   *)
PointsAgree ==
    \A r \in Results : Spared(r) =>
        /\ latency[r] = NoValue <=> loss[r] = NoValue
        /\ r \in inStore => latency[r] # NoValue
        /\ latency[r] # NoValue => loss[r] = 1 <=> latency[r] = LostPing

(* A latency that is sent was measured by the last try, after slow ones     *)
(* only, and neither a slow answer nor the fast one after a lost packet is  *)
(* taken for it; an answer in time at the first try always is.              *)
JudgedFairly ==
    \A r \in Results, t \in Times \cup {LostPing} :
        LET ts == Append(tries[r], t)
            sent == Judged(r, ts)
        IN  place[r] = "trying" /\ Finished(ts) =>
              /\ sent # LostPing => /\ sent = t /\ t <= Threshold /\ \A i \in 1..Len(tries[r]) : Slow(ts[i])
                                    /\ taskOf[r] \in TcpTasks => ts[1] - t <= DropLimit
              /\ tries[r] = <<>> /\ ~Slow(t) => sent = t
              /\ sent = LostPing /\ t # LostPing => Slow(ts[1])

(* However tries, handlers, failing chunks, deletions and the stop overlap.  *)
ResultsKept == NoneVanishes /\ PointsAgree /\ JudgedFairly

(* What database/tasks/ping.go:51-52 says of DeletePingTask: no history is  *)
(* left that can no longer be addressed through the task.                   *)
HistoryGoesWithTask ==
    \A r \in Results : taskOf[r] \notin rows => latency[r] = NoValue /\ loss[r] = NoValue
-----------------------------------------------------------------------------
(* Why they hold: for any results, tasks, tries and capacities.             *)

ConstantsTyped ==
    /\ MaxResults \in Nat /\ Times \subseteq Nat
    /\ Threshold \in Nat /\ DropLimit \in Nat /\ Retries \in Nat /\ ChunkSize \in Nat

Typed ==
    /\ place \in [Results -> {"idle", "trying", "sending", "lost", "received", "enqueue", "direct",
                              "queued", "saved", "refused"}]
    /\ tries \in [Results -> Seq(Int)] /\ value \in [Results -> Times \cup {LostPing, NoValue}]
    /\ pingQueue \in Seq(Results) /\ pending \in Seq(Results)
    /\ wstate \in {"waiting", "writing", "exited"} /\ current \in {"none", "ticker", "stop"}
    /\ stopping \in BOOLEAN /\ request \in BOOLEAN
    /\ latency \in [Results -> Int] /\ loss \in [Results -> Int]
    /\ del = [at |-> del.at, task |-> del.task] /\ inStore \in SUBSET Results

\* A try follows slow ones only, and a result that was sent has been judged.
Tried ==
    \A r \in Results :
        /\ \A i \in 1..Len(tries[r]) : Slow(tries[r][i])
        /\ place[r] \notin {"idle", "trying"} => value[r] # NoValue

\* Once the worker takes the stop nothing comes into its queue any more, and it
\* gives nothing up before it has taken it.
Control ==
    /\ request \/ stop # "idle" \/ current = "stop" \/ wstate = "exited" => stopping
    /\ current = "stop" \/ wstate = "exited" => pingQueue = <<>>
    /\ wstate = "waiting" => current = "none"
    /\ wstate # "exited" => given = {} /\ stop \notin {"ok", "error"}

\* A result is in one place of the queue or of the batch, and leaves it written.
Placed ==
    /\ IsInjective(pingQueue) /\ IsInjective(pending)
    /\ Range(pingQueue) \cap Range(pending) = {}
    /\ inStore \cap (Range(pingQueue) \cup Range(pending)) = {}
    /\ \A r \in Range(pingQueue) \cup Range(pending) : place[r] = "queued"
    /\ \A r \in inStore : place[r] \in {"queued", "saved"}

\* A point is what was sent, and the two of a result whose task stays are
\* written together.
Stored ==
    \A r \in Results :
        /\ latency[r] # NoValue => latency[r] = value[r]
        /\ loss[r] # NoValue => loss[r] = LossOf(value[r])
        /\ latency[r] # NoValue \/ loss[r] # NoValue => place[r] \notin {"idle", "trying"}
        /\ Spared(r) => /\ latency[r] = NoValue <=> loss[r] = NoValue
                        /\ r \in inStore => latency[r] # NoValue

\* A task is spared again by no step: the row goes before its deletion ends.
RowGone == del.at = "reload" => del.task \notin rows

IInv == Typed /\ Tried /\ Control /\ Placed /\ Stored /\ RowGone /\ NoneVanishes

-----------------------------------------------------------------------------
(* Chunks and records *)

\* The two metrics say the same of what can be sent, and neither is None.
LEMMA LossOfSent ==
    ASSUME ConstantsTyped, NEW v \in Times \cup {LostPing}
    PROVE  v # NoValue /\ v \in Int /\ LossOf(v) \in {0, 1} /\ (LossOf(v) = 1 <=> v = LostPing)
<1>1. \A t \in Times : t \in Nat
  BY DEF ConstantsTyped
<1> QED
  BY <1>1 DEF LossOf, LostPing, NoValue

\* A chunk and the rest are the two parts of a batch.
LEMMA Parts ==
    ASSUME ConstantsTyped, pending \in Seq(Results)
    PROVE  /\ Chunk \in Seq(Results) /\ Rest \in Seq(Results)
           /\ Range(Chunk) \subseteq Results /\ Range(pending) \subseteq Results
           /\ Range(Chunk) \cup Range(Rest) = Range(pending)
           /\ IsInjective(pending) => IsInjective(Rest) /\ Range(Chunk) \cap Range(Rest) = {}
<1> DEFINE n == Len(pending)
           k == Min({ChunkSize, n})
<1>1. n \in Nat /\ k \in 0..n
  <2>1. n \in Nat /\ ChunkSize \in Nat
    BY DEF ConstantsTyped
  <2>2. k = IF ChunkSize <= n THEN ChunkSize ELSE n
    BY <2>1 DEF Min
  <2> QED
    BY <2>1, <2>2
<1> HIDE DEF k
<1>2. /\ Chunk = SubSeq(pending, 1, k) /\ Chunk \in Seq(Results) /\ Len(Chunk) = k
      /\ \A i \in 1..k : Chunk[i] = pending[i]
  <2>1. Chunk = SubSeq(pending, 1, k)
    BY DEF Chunk, k
  <2> QED
    BY <1>1, <2>1
<1>3. /\ Rest = SubSeq(pending, k + 1, n) /\ Rest \in Seq(Results) /\ Len(Rest) = n - k
      /\ \A i \in 1..(n - k) : Rest[i] = pending[k + i]
  BY <1>1, <1>2 DEF Rest
<1>4. DOMAIN pending = 1..n /\ DOMAIN Chunk = 1..k /\ DOMAIN Rest = 1..(n - k)
  BY <1>1, <1>2, <1>3
<1> HIDE DEF n
<1>5. ASSUME NEW i \in DOMAIN Chunk
      PROVE  i \in DOMAIN pending /\ i \in 1..k /\ Chunk[i] = pending[i]
  BY <1>1, <1>2, <1>4
<1>6. ASSUME NEW i \in DOMAIN Rest
      PROVE  k + i \in DOMAIN pending /\ k + i \notin 1..k /\ Rest[i] = pending[k + i] /\ i \in Int
  BY <1>1, <1>3, <1>4
<1>7. ASSUME NEW i \in DOMAIN pending
      PROVE  \/ i \in DOMAIN Chunk /\ pending[i] = Chunk[i]
             \/ i - k \in DOMAIN Rest /\ pending[i] = Rest[i - k]
  <2>1. i \in Int /\ k \in Int /\ i >= 1 /\ i <= n
    BY <1>1, <1>4
  <2>2. CASE i <= k
    BY <1>2, <1>4, <2>1, <2>2
  <2>3. CASE i > k
    <3>1. i - k \in 1..(n - k) /\ k + (i - k) = i
      BY <1>1, <2>1, <2>3
    <3> QED
      BY <1>3, <1>4, <3>1
  <2> QED
    BY <2>1, <2>2, <2>3
<1>8. Range(Chunk) \cup Range(Rest) = Range(pending)
  BY <1>5, <1>6, <1>7 DEF Range
<1>9. ASSUME IsInjective(pending)
      PROVE  IsInjective(Rest) /\ Range(Chunk) \cap Range(Rest) = {}
  <2>1. ASSUME NEW i \in DOMAIN Rest, NEW j \in DOMAIN Rest, Rest[i] = Rest[j]
        PROVE  i = j
    <3>1. k + i = k + j
      BY <1>6, <1>9, <2>1 DEF IsInjective
    <3> QED
      BY <1>1, <1>6, <2>1, <3>1
  <2>2. ASSUME NEW i \in DOMAIN Chunk, NEW j \in DOMAIN Rest
        PROVE  Chunk[i] # Rest[j]
    BY <1>5, <1>6, <1>9 DEF IsInjective
  <2> QED
    BY <2>1, <2>2 DEF IsInjective, Range
<1>10. Range(Chunk) \subseteq Results /\ Range(pending) \subseteq Results
  BY <1>2 DEF Range
<1> QED
  BY <1>2, <1>3, <1>8, <1>9, <1>10

\* What a write does to the points of a result, and to the others.
LEMMA Writing ==
    ASSUME ConstantsTyped, Typed, NEW records \in SUBSET Results, NEW outcome, WriteRecords(records, outcome),
           \A r \in records : value[r] # NoValue
    PROVE  /\ latency' \in [Results -> Int] /\ loss' \in [Results -> Int]
           /\ \A r \in Results : IF outcome # "refused" /\ r \in records
                                 THEN /\ latency'[r] = value[r] /\ latency'[r] # NoValue
                                      /\ loss'[r] = LossOf(value[r]) /\ loss'[r] # NoValue
                                 ELSE latency'[r] = latency[r] /\ loss'[r] = loss[r]
           /\ inStore' = IF outcome = "written" THEN inStore \cup records ELSE inStore
<1>1. ASSUME NEW r \in records
      PROVE  value[r] \in Int /\ LossOf(value[r]) \in Int /\ LossOf(value[r]) # NoValue
  <2>1. value[r] \in Times \cup {LostPing}
    BY DEF Typed
  <2> QED
    BY <2>1, LossOfSent DEF NoValue
<1>2. CASE outcome = "refused"
  BY <1>2 DEF WriteRecords, Typed
<1>3. CASE outcome # "refused"
  <2>1. /\ latency' = [r \in Results |-> IF r \in records THEN value[r] ELSE latency[r]]
        /\ loss' = [r \in Results |-> IF r \in records THEN LossOf(value[r]) ELSE loss[r]]
    BY <1>3 DEF WriteRecords
  <2> QED
    BY <1>1, <1>3, <2>1 DEF WriteRecords, Typed
<1> QED
  BY <1>2, <1>3

\* What the worker writes of its batch was sent, and is not yet written.
LEMMA ChunkIsSent ==
    ASSUME ConstantsTyped, Typed, Tried, Placed
    PROVE  /\ Range(Chunk) \in SUBSET Results
           /\ \A r \in Range(Chunk) : place[r] = "queued" /\ value[r] # NoValue /\ r \notin inStore
<1>1. Range(Chunk) \subseteq Results /\ Range(Chunk) \subseteq Range(pending)
  BY Parts DEF Typed
<1> QED
  BY <1>1 DEF Placed, Tried

\* The two writers: a handler for its result, the worker for a chunk.
LEMMA Written ==
    ASSUME ConstantsTyped, Typed, Tried, Placed,
           NEW records, NEW outcome, WriteRecords(records, outcome),
           \/ \E r \in Results : records = {r} /\ place[r] = "direct"
           \/ records = Range(Chunk)
    PROVE  /\ records \in SUBSET Results
           /\ \A r \in records : place[r] \in {"direct", "queued"}
           /\ latency' \in [Results -> Int] /\ loss' \in [Results -> Int]
           /\ \A r \in Results : IF outcome # "refused" /\ r \in records
                                 THEN /\ latency'[r] = value[r] /\ latency'[r] # NoValue
                                      /\ loss'[r] = LossOf(value[r]) /\ loss'[r] # NoValue
                                 ELSE latency'[r] = latency[r] /\ loss'[r] = loss[r]
           /\ inStore' = IF outcome = "written" THEN inStore \cup records ELSE inStore
<1>1. /\ records \in SUBSET Results
      /\ \A r \in records : place[r] \in {"direct", "queued"} /\ value[r] # NoValue
  BY ChunkIsSent DEF Tried
<1>2. \A r \in records : value[r] # NoValue
  BY <1>1
<1> HIDE DEF WriteRecords
<1> QED
  BY ONLY <1>1, <1>2, Writing, ConstantsTyped, Typed, WriteRecords(records, outcome)

-----------------------------------------------------------------------------
(* The steps *)

LEMMA TypedStep ==
    ASSUME ConstantsTyped, Typed, Tried, Placed, [ResultsNext]_pingVars
    PROVE  Typed'
<1> USE DEF Typed, agentVars, workerVars, storeVars, taskVars, stopVars
<1>1. ASSUME NEW r \in Results,
             DispatchPing(r) \/ Receive(r) \/ \E arrives \in BOOLEAN : SendResult(r, arrives)
      PROVE  Typed'
  BY <1>1 DEF DispatchPing, Receive, SendResult
<1>2. ASSUME NEW r \in Results, NEW t \in Times \cup {LostPing}, Try(r, t)
      PROVE  Typed'
  <2> DEFINE ts == Append(tries[r], t)
  <2>1. t \in Int /\ tries[r] \in Seq(Int)
    BY LossOfSent
  <2>2. ts \in Seq(Int) /\ Last(ts) = t
    BY <2>1 DEF Last
  <2>3. Judged(r, ts) \in Times \cup {LostPing}
    BY <2>2 DEF Judged
  <2> HIDE DEF ts
  <2>4. /\ place' = [place EXCEPT ![r] = "sending"] \/ place' = place
        /\ value' = [value EXCEPT ![r] = Judged(r, ts)] \/ value' = value
        /\ tries' = [tries EXCEPT ![r] = <<>>] \/ tries' = [tries EXCEPT ![r] = ts]
        /\ UNCHANGED <<pingQueue, pending, wstate, current, stopping, request, storeVars, del>>
    BY <1>2 DEF Try, ts
  <2>5. value' \in [Results -> Times \cup {LostPing, NoValue}]
    BY <2>3, <2>4
  <2>6. tries' \in [Results -> Seq(Int)]
    <3>1. <<>> \in Seq(Int)
      OBVIOUS
    <3>2. PICK new \in Seq(Int) : tries' = [tries EXCEPT ![r] = new]
      BY <2>2, <2>4, <3>1
    <3> QED
      BY <3>2
  <2> QED
    BY <2>4, <2>5, <2>6
<1>3. ASSUME NEW r \in Results, EnqueueResult(r)
      PROVE  Typed'
  <2>1. Append(pingQueue, r) \in Seq(Results)
    BY AppendAdds
  <2>2. pingQueue' \in {pingQueue, Append(pingQueue, r)}
    BY <1>3 DEF EnqueueResult
  <2>3. pingQueue' \in Seq(Results)
    BY <2>1, <2>2
  <2> QED
    BY <1>3, <2>3 DEF EnqueueResult
<1>4. ASSUME NEW r \in Results, NEW outcome \in Outcomes, DirectWrite(r, outcome)
      PROVE  Typed'
  <2>1. latency' \in [Results -> Int] /\ loss' \in [Results -> Int] /\ inStore' \in SUBSET Results
    <3>1. WriteRecords({r}, outcome) /\ place[r] = "direct"
      BY <1>4 DEF DirectWrite
    <3>2. /\ latency' \in [Results -> Int] /\ loss' \in [Results -> Int]
          /\ inStore' = IF outcome = "written" THEN inStore \cup {r} ELSE inStore
      BY <3>1, Written
    <3> QED
      BY <3>2
  <2> QED
    BY <1>4, <2>1 DEF DirectWrite
<1>5. CASE TakeTick \/ TakeStop
  <2>1. pending \o pingQueue \in Seq(Results) /\ <<>> \in Seq(Results)
    BY ConcatProperties
  <2>2. pending' = pending \o pingQueue /\ pingQueue' = <<>>
    BY <1>5 DEF TakeTick, TakeStop, Drain
  <2>3. pending' \in Seq(Results) /\ pingQueue' \in Seq(Results)
    BY <2>1, <2>2
  <2> QED
    BY <1>5, <2>3 DEF TakeTick, TakeStop, Drain
<1>6. CASE WriteChunk
  <2>1. latency' \in [Results -> Int] /\ loss' \in [Results -> Int] /\ inStore' \in SUBSET Results
    BY <1>6, Written DEF WriteChunk
  <2>2. pending' \in Seq(Results)
    BY <1>6, Parts DEF WriteChunk
  <2> QED
    BY <1>6, <2>1, <2>2 DEF WriteChunk
<1>7. ASSUME NEW outcome \in Outcomes, FailChunk(outcome)
      PROVE  Typed'
  <2>1. latency' \in [Results -> Int] /\ loss' \in [Results -> Int] /\ inStore' \in SUBSET Results
    BY <1>7, Written DEF FailChunk
  <2> QED
    BY <1>7, <2>1 DEF FailChunk, EndRound
<1>8. CASE AllWritten
  BY <1>8 DEF AllWritten, EndRound
<1>9. CASE BeginStop \/ SendStop \/ LeaveStop
  BY <1>9 DEF BeginStop, SendStop, LeaveStop
<1>10. CASE DeleteLatency \/ DeleteLoss
  BY <1>10 DEF DeleteLatency, DeleteLoss, Deleting, Purged, NoValue
<1>11. CASE DeleteRow \/ Reload \/ DeleteFails \/ \E t \in PingTasks : BeginDelete(t)
  BY <1>11 DEF DeleteRow, Reload, DeleteFails, BeginDelete, Deleting
<1>12. CASE UNCHANGED pingVars
  BY <1>12 DEF pingVars
<1> QED
  BY <1>1, <1>2, <1>3, <1>4, <1>5, <1>6, <1>7, <1>8, <1>9, <1>10, <1>11, <1>12 DEF ResultsNext

LEMMA TriedStep ==
    ASSUME ConstantsTyped, Typed, Tried, [ResultsNext]_pingVars
    PROVE  Tried'
<1> USE DEF Typed, Tried, agentVars, workerVars, storeVars, taskVars, stopVars
<1>1. ASSUME NEW r \in Results,
             DispatchPing(r) \/ Receive(r) \/ \E arrives \in BOOLEAN : SendResult(r, arrives)
      PROVE  Tried'
  BY <1>1 DEF DispatchPing, Receive, SendResult
<1>2. ASSUME NEW r \in Results, NEW t \in Times \cup {LostPing}, Try(r, t)
      PROVE  Tried'
  <2> DEFINE ts == Append(tries[r], t)
             n == Len(tries[r])
  <2>1. t \in Int /\ tries[r] \in Seq(Int)
    BY LossOfSent
  <2>2. /\ n \in Nat /\ Len(ts) = n + 1 /\ Last(ts) = t /\ ts # <<>> /\ ts[n + 1] = t
        /\ \A i \in 1..n : ts[i] = tries[r][i]
    <3>1. /\ n \in Nat /\ Len(ts) = n + 1 /\ ts[n + 1] = t /\ ts \in Seq(Int)
          /\ \A i \in 1..n : ts[i] = tries[r][i]
      BY <2>1
    <3>2. Last(ts) = ts[Len(ts)]
      BY DEF Last
    <3>3. ts # <<>>
      <4>1. Len(ts) # Len(<<>>)
        BY <3>1
      <4> QED
        BY <4>1
    <3> QED
      BY <3>1, <3>2, <3>3
  <2>3. Judged(r, ts) # NoValue
    BY <2>2, LossOfSent DEF Judged
  <2>4. CASE Finished(ts)
    <3>1. /\ place' = [place EXCEPT ![r] = "sending"] /\ value' = [value EXCEPT ![r] = Judged(r, ts)]
          /\ tries' = [tries EXCEPT ![r] = <<>>]
      BY <1>2, <2>4 DEF Try
    <3> HIDE DEF ts, n
    <3> QED
      BY <2>3, <3>1
  <2>5. CASE ~Finished(ts)
    <3>1. tries' = [tries EXCEPT ![r] = ts] /\ UNCHANGED <<place, value>>
      BY <1>2, <2>5 DEF Try
    <3>2. Slow(t)
      BY <2>2, <2>5 DEF Finished
    <3>3. \A i \in 1..Len(ts) : Slow(ts[i])
      <4>1. \A i \in 1..(n + 1) : i \in 1..n \/ i = n + 1
        BY <2>2
      <4> HIDE DEF ts, n
      <4>2. \A i \in 1..n : Slow(tries[r][i])
        BY DEF n
      <4> QED
        BY <2>2, <3>2, <4>1, <4>2
    <3> HIDE DEF ts, n
    <3> QED
      BY <3>1, <3>3
  <2> QED
    BY <2>4, <2>5
<1>3. ASSUME NEW r \in Results, EnqueueResult(r)
      PROVE  Tried'
  BY <1>3 DEF EnqueueResult
<1>4. ASSUME NEW r \in Results, NEW outcome \in Outcomes, DirectWrite(r, outcome)
      PROVE  Tried'
  BY <1>4 DEF DirectWrite
<1>5. CASE UNCHANGED agentVars
  BY <1>5
<1>6. ASSUME NEW outcome \in Outcomes, FailChunk(outcome)
      PROVE  UNCHANGED agentVars
  BY <1>6 DEF FailChunk, EndRound
<1>7. ASSUME TakeTick \/ TakeStop \/ WriteChunk \/ AllWritten \/ BeginStop \/ SendStop \/ LeaveStop
      PROVE  UNCHANGED agentVars
  BY <1>7 DEF TakeTick, TakeStop, Drain, WriteChunk, AllWritten, EndRound, BeginStop, SendStop, LeaveStop
<1>8. ASSUME \/ DeleteLatency \/ DeleteLoss \/ DeleteRow \/ Reload \/ DeleteFails
             \/ \E t \in PingTasks : BeginDelete(t)
      PROVE  UNCHANGED agentVars
  BY <1>8 DEF DeleteLatency, DeleteLoss, DeleteRow, Reload, DeleteFails, BeginDelete
<1>9. CASE UNCHANGED pingVars
  BY <1>9 DEF pingVars
<1> QED
  BY <1>1, <1>2, <1>3, <1>4, <1>5, <1>6, <1>7, <1>8, <1>9 DEF ResultsNext

LEMMA ControlStep ==
    ASSUME Control, [ResultsNext]_pingVars
    PROVE  Control'
<1> USE DEF Control, agentVars, workerVars, storeVars, taskVars, stopVars
<1>1. ASSUME NEW r \in Results, EnqueueResult(r)
      PROVE  Control'
  BY <1>1 DEF EnqueueResult
<1>2. CASE TakeTick \/ TakeStop
  BY <1>2 DEF TakeTick, TakeStop, Drain
<1>3. CASE WriteChunk
  BY <1>3 DEF WriteChunk
<1>4. ASSUME NEW failed, wstate = "writing", EndRound(failed)
      PROVE  Control'
  BY <1>4 DEF EndRound
<1>5. CASE AllWritten \/ \E outcome \in Outcomes : FailChunk(outcome)
  BY <1>4, <1>5 DEF AllWritten, FailChunk
<1>6. CASE BeginStop \/ SendStop \/ LeaveStop
  BY <1>6 DEF BeginStop, SendStop, LeaveStop
<1>7. CASE UNCHANGED <<stopVars, workerVars>>
  BY <1>7
<1>8. ASSUME NEW r \in Results,
             \/ DispatchPing(r) \/ Receive(r)
             \/ \E t \in Times \cup {LostPing} : Try(r, t)
             \/ \E arrives \in BOOLEAN : SendResult(r, arrives)
             \/ \E outcome \in Outcomes : DirectWrite(r, outcome)
      PROVE  UNCHANGED <<stopVars, workerVars>>
  BY <1>8 DEF DispatchPing, Receive, Try, SendResult, DirectWrite
<1>9. ASSUME \/ DeleteLatency \/ DeleteLoss \/ DeleteRow \/ Reload \/ DeleteFails
             \/ \E t \in PingTasks : BeginDelete(t)
      PROVE  UNCHANGED <<stopVars, workerVars>>
  BY <1>9 DEF DeleteLatency, DeleteLoss, DeleteRow, Reload, DeleteFails, BeginDelete
<1>10. CASE UNCHANGED pingVars
  BY <1>10 DEF pingVars
<1> QED
  BY <1>1, <1>2, <1>3, <1>5, <1>6, <1>7, <1>8, <1>9, <1>10 DEF ResultsNext

\* A handler reaches the queue only with a result that is nowhere else.
LEMMA NotQueued ==
    ASSUME Typed, Placed, NEW r \in Results, place[r] # "queued"
    PROVE  /\ r \notin Range(pingQueue) /\ r \notin Range(pending) /\ r \notin Range(pingQueue \o pending)
           /\ place[r] # "saved" => r \notin inStore
<1>1. Range(pingQueue \o pending) = Range(pingQueue) \cup Range(pending)
  BY ConcatOfPlaces DEF Typed
<1> QED
  BY <1>1 DEF Placed

LEMMA PlacedStep ==
    ASSUME ConstantsTyped, Typed, Tried, Placed, [ResultsNext]_pingVars
    PROVE  Placed'
<1> USE DEF agentVars, workerVars, storeVars, taskVars, stopVars
<1>1. ASSUME NEW r \in Results,
             \/ DispatchPing(r) \/ Receive(r)
             \/ \E t \in Times \cup {LostPing} : Try(r, t)
             \/ \E arrives \in BOOLEAN : SendResult(r, arrives)
      PROVE  Placed'
  <2>1. /\ place[r] \in {"idle", "trying", "sending", "received"}
        /\ \A q \in Results \ {r} : place'[q] = place[q]
        /\ UNCHANGED <<pingQueue, pending, inStore>>
    BY <1>1 DEF DispatchPing, Receive, Try, SendResult, Typed
  <2>2. r \notin Range(pingQueue) \cup Range(pending) \cup inStore
    BY <2>1, NotQueued
  <2>3. Range(pingQueue) \subseteq Results /\ Range(pending) \subseteq Results
    BY Parts, RangeOfSeq DEF Typed
  <2>4. /\ \A q \in Range(pingQueue) \cup Range(pending) : place'[q] = place[q]
        /\ \A q \in inStore : place[q] \in {"queued", "saved"} /\ place'[q] = place[q]
    BY <2>1, <2>2, <2>3 DEF Placed, Typed
  <2> QED
    BY <2>1, <2>4 DEF Placed
<1>2. ASSUME NEW r \in Results, EnqueueResult(r)
      PROVE  Placed'
  <2>1. /\ place[r] = "enqueue" /\ UNCHANGED <<pending, inStore>>
        /\ r \notin Range(pingQueue) /\ r \notin Range(pending) /\ r \notin inStore
    BY <1>2, NotQueued DEF EnqueueResult
  <2>2. CASE place' = [place EXCEPT ![r] = "refused"] /\ pingQueue' = pingQueue
    BY <2>1, <2>2 DEF Placed, Typed
  <2>3. CASE place' = [place EXCEPT ![r] = "queued"] /\ pingQueue' = Append(pingQueue, r)
    <3>1. Range(Append(pingQueue, r)) = Range(pingQueue) \cup {r}
      BY AppendAdds DEF Typed
    <3>2. IsInjective(Append(pingQueue, r))
      BY <2>1, AppendOfPlace DEF Typed, Placed
    <3> QED
      BY <2>1, <2>3, <3>1, <3>2 DEF Placed, Typed
  <2> QED
    BY <1>2, <2>2, <2>3 DEF EnqueueResult
<1>3. ASSUME NEW r \in Results, NEW outcome \in Outcomes, DirectWrite(r, outcome)
      PROVE  Placed'
  <2>1. /\ place[r] = "direct" /\ UNCHANGED <<pingQueue, pending>>
        /\ place' = [place EXCEPT ![r] = IF outcome = "written" THEN "saved" ELSE "refused"]
        /\ inStore' = IF outcome = "written" THEN inStore \cup {r} ELSE inStore
    BY <1>3 DEF DirectWrite, WriteRecords
  <2>2. r \notin Range(pingQueue) /\ r \notin Range(pending) /\ r \notin inStore
    BY <2>1, NotQueued
  <2> QED
    BY <2>1, <2>2 DEF Placed, Typed
<1>4. CASE TakeTick \/ TakeStop
  <2>1. pingQueue' = <<>> /\ pending' = pending \o pingQueue /\ UNCHANGED <<place, inStore>>
    BY <1>4 DEF TakeTick, TakeStop, Drain
  <2>2. /\ Range(pending \o pingQueue) = Range(pending) \cup Range(pingQueue)
        /\ IsInjective(pending \o pingQueue)
    BY ConcatOfPlaces DEF Typed, Placed
  <2>3. Range(pingQueue') = {} /\ IsInjective(pingQueue')
    BY <2>1 DEF Range, IsInjective
  <2> QED
    BY <2>1, <2>2, <2>3 DEF Placed
<1>5. CASE WriteChunk
  <2>1. /\ pending' = Rest /\ UNCHANGED <<place, pingQueue>>
        /\ inStore' = inStore \cup Range(Chunk)
    BY <1>5 DEF WriteChunk, WriteRecords
  <2>2. /\ Range(Chunk) \cup Range(Rest) = Range(pending)
        /\ IsInjective(Rest) /\ Range(Chunk) \cap Range(Rest) = {}
    BY Parts DEF Typed, Placed
  <2> QED
    BY <2>1, <2>2, ChunkIsSent DEF Placed
<1>6. CASE UNCHANGED <<place, pingQueue, pending, inStore>>
  BY <1>6 DEF Placed
<1>7. ASSUME AllWritten \/ \E outcome \in Outcomes : FailChunk(outcome)
      PROVE  UNCHANGED <<place, pingQueue, pending, inStore>>
  BY <1>7 DEF AllWritten, FailChunk, EndRound, WriteRecords
<1>8. ASSUME \/ BeginStop \/ SendStop \/ LeaveStop
             \/ DeleteLatency \/ DeleteLoss \/ DeleteRow \/ Reload \/ DeleteFails
             \/ \E t \in PingTasks : BeginDelete(t)
      PROVE  UNCHANGED <<place, pingQueue, pending, inStore>>
  BY <1>8 DEF BeginStop, SendStop, LeaveStop, DeleteLatency, DeleteLoss, DeleteRow, Reload,
              DeleteFails, BeginDelete
<1>9. CASE UNCHANGED pingVars
  BY <1>9 DEF pingVars, Placed
<1> QED
  BY <1>1, <1>2, <1>3, <1>4, <1>5, <1>6, <1>7, <1>8, <1>9 DEF ResultsNext

LEMMA SparedBefore ==
    ASSUME Typed, RowGone, [ResultsNext]_pingVars
    PROVE  taskOf' = taskOf /\ RowGone' /\ \A r \in Results : Spared(r)' => Spared(r)
<1> USE DEF Spared, RowGone, Typed, agentVars, workerVars, storeVars, taskVars, stopVars
<1>1. CASE UNCHANGED <<taskVars, taskOf>>
  BY <1>1
<1>2. ASSUME NEW r \in Results,
             \/ DispatchPing(r) \/ Receive(r) \/ EnqueueResult(r)
             \/ \E t \in Times \cup {LostPing} : Try(r, t)
             \/ \E arrives \in BOOLEAN : SendResult(r, arrives)
             \/ \E outcome \in Outcomes : DirectWrite(r, outcome)
      PROVE  UNCHANGED <<taskVars, taskOf>>
  BY <1>2 DEF DispatchPing, Receive, EnqueueResult, Try, SendResult, DirectWrite
<1>3. ASSUME \/ TakeTick \/ TakeStop \/ WriteChunk \/ AllWritten \/ BeginStop \/ SendStop \/ LeaveStop
             \/ \E outcome \in Outcomes : FailChunk(outcome)
      PROVE  UNCHANGED <<taskVars, taskOf>>
  BY <1>3 DEF TakeTick, TakeStop, Drain, WriteChunk, AllWritten, FailChunk, EndRound, BeginStop,
              SendStop, LeaveStop
<1>4. CASE DeleteLatency \/ DeleteLoss \/ DeleteRow \/ Reload \/ DeleteFails
  BY <1>4 DEF DeleteLatency, DeleteLoss, DeleteRow, Reload, DeleteFails, Deleting
<1>5. CASE \E t \in PingTasks : BeginDelete(t)
  BY <1>5 DEF BeginDelete
<1>6. CASE UNCHANGED pingVars
  BY <1>6 DEF pingVars
<1> QED
  BY <1>1, <1>2, <1>3, <1>4, <1>5, <1>6 DEF ResultsNext

\* What was sent stays what it is, and its result never goes back to the tries.
LEMMA SentStays ==
    ASSUME Typed, [ResultsNext]_pingVars, NEW r \in Results, place[r] \notin {"idle", "trying"}
    PROVE  value'[r] = value[r] /\ place'[r] \notin {"idle", "trying"}
<1> USE DEF Typed, agentVars, workerVars, storeVars, taskVars, stopVars
<1>1. CASE UNCHANGED agentVars
  BY <1>1
<1>2. ASSUME NEW q \in Results,
             \/ DispatchPing(q) \/ Receive(q) \/ EnqueueResult(q)
             \/ \E t \in Times \cup {LostPing} : Try(q, t)
             \/ \E arrives \in BOOLEAN : SendResult(q, arrives)
             \/ \E outcome \in Outcomes : DirectWrite(q, outcome)
      PROVE  value'[r] = value[r] /\ place'[r] \notin {"idle", "trying"}
  BY <1>2 DEF DispatchPing, Receive, EnqueueResult, Try, SendResult, DirectWrite
<1>3. ASSUME \/ TakeTick \/ TakeStop \/ WriteChunk \/ AllWritten \/ BeginStop \/ SendStop \/ LeaveStop
             \/ \E outcome \in Outcomes : FailChunk(outcome)
      PROVE  UNCHANGED agentVars
  BY <1>3 DEF TakeTick, TakeStop, Drain, WriteChunk, AllWritten, FailChunk, EndRound, BeginStop,
              SendStop, LeaveStop
<1>4. ASSUME \/ DeleteLatency \/ DeleteLoss \/ DeleteRow \/ Reload \/ DeleteFails
             \/ \E t \in PingTasks : BeginDelete(t)
      PROVE  UNCHANGED agentVars
  BY <1>4 DEF DeleteLatency, DeleteLoss, DeleteRow, Reload, DeleteFails, BeginDelete
<1>5. CASE UNCHANGED pingVars
  BY <1>5 DEF pingVars
<1> QED
  BY <1>1, <1>2, <1>3, <1>4, <1>5 DEF ResultsNext

LEMMA StoredStep ==
    ASSUME ConstantsTyped, Typed, Tried, Placed, Stored, RowGone, [ResultsNext]_pingVars
    PROVE  Stored'
<1> USE DEF agentVars, workerVars, storeVars, taskVars, stopVars
<1>1. SUFFICES ASSUME NEW r \in Results
               PROVE  /\ latency'[r] # NoValue => latency'[r] = value'[r]
                      /\ loss'[r] # NoValue => loss'[r] = LossOf(value'[r])
                      /\ latency'[r] # NoValue \/ loss'[r] # NoValue => place'[r] \notin {"idle", "trying"}
                      /\ Spared(r)' => /\ latency'[r] = NoValue <=> loss'[r] = NoValue
                                       /\ r \in inStore' => latency'[r] # NoValue
  BY DEF Stored, LossOf
<1>2. Spared(r)' => Spared(r)
  BY SparedBefore
<1>3. place[r] \notin {"idle", "trying"} => value'[r] = value[r] /\ place'[r] \notin {"idle", "trying"}
  BY SentStays
<1>4. CASE UNCHANGED storeVars
  BY <1>2, <1>3, <1>4 DEF Stored
<1>5. ASSUME NEW records, NEW outcome, WriteRecords(records, outcome),
             \/ \E q \in Results : records = {q} /\ place[q] = "direct"
             \/ records = Range(Chunk)
      PROVE  /\ latency'[r] # NoValue => latency'[r] = value'[r]
             /\ loss'[r] # NoValue => loss'[r] = LossOf(value'[r])
             /\ latency'[r] # NoValue \/ loss'[r] # NoValue => place'[r] \notin {"idle", "trying"}
             /\ Spared(r)' => /\ latency'[r] = NoValue <=> loss'[r] = NoValue
                              /\ r \in inStore' => latency'[r] # NoValue
  <2>1. /\ r \in records => place[r] \in {"direct", "queued"}
        /\ IF outcome # "refused" /\ r \in records
             THEN /\ latency'[r] = value[r] /\ latency'[r] # NoValue
                  /\ loss'[r] = LossOf(value[r]) /\ loss'[r] # NoValue
             ELSE latency'[r] = latency[r] /\ loss'[r] = loss[r]
        /\ inStore' = IF outcome = "written" THEN inStore \cup records ELSE inStore
    BY <1>5, Written
  <2> QED
    BY <1>2, <1>3, <2>1 DEF Stored
<1>6. ASSUME NEW q \in Results, NEW outcome \in Outcomes, DirectWrite(q, outcome)
      PROVE  WriteRecords({q}, outcome) /\ place[q] = "direct"
  BY <1>6 DEF DirectWrite
<1>7. ASSUME WriteChunk \/ \E outcome \in Outcomes : FailChunk(outcome)
      PROVE  \E outcome : WriteRecords(Range(Chunk), outcome)
  BY <1>7 DEF WriteChunk, FailChunk
<1>8. CASE DeleteLatency \/ DeleteLoss
  <2>1. /\ latency'[r] \in {NoValue, latency[r]} /\ loss'[r] \in {NoValue, loss[r]} /\ inStore' = inStore
        /\ taskOf[r] # del.task => latency'[r] = latency[r] /\ loss'[r] = loss[r]
        /\ del'.task = del.task /\ del'.at # "idle" /\ taskOf' = taskOf
    BY <1>8 DEF DeleteLatency, DeleteLoss, Purged, Deleting, Typed
  <2>2. Spared(r)' => taskOf[r] # del.task
    BY <2>1 DEF Spared
  <2> QED
    BY <1>2, <1>3, <2>1, <2>2 DEF Stored
<1>9. ASSUME NEW q \in Results,
             \/ DispatchPing(q) \/ Receive(q) \/ EnqueueResult(q)
             \/ \E t \in Times \cup {LostPing} : Try(q, t)
             \/ \E arrives \in BOOLEAN : SendResult(q, arrives)
      PROVE  UNCHANGED storeVars
  BY <1>9 DEF DispatchPing, Receive, EnqueueResult, Try, SendResult
<1>10. ASSUME \/ TakeTick \/ TakeStop \/ AllWritten \/ BeginStop \/ SendStop \/ LeaveStop
              \/ DeleteRow \/ Reload \/ DeleteFails \/ \E t \in PingTasks : BeginDelete(t)
       PROVE  UNCHANGED storeVars
  BY <1>10 DEF TakeTick, TakeStop, Drain, AllWritten, BeginStop, SendStop, LeaveStop, DeleteRow, Reload,
               DeleteFails, BeginDelete
<1>11. CASE UNCHANGED pingVars
  BY <1>4, <1>11 DEF pingVars
<1> QED
  BY <1>4, <1>5, <1>6, <1>7, <1>8, <1>9, <1>10, <1>11 DEF ResultsNext

LEMMA NoneVanishesStep ==
    ASSUME ConstantsTyped, Typed, Tried, Control, Placed, NoneVanishes, [ResultsNext]_pingVars
    PROVE  NoneVanishes'
<1> USE DEF agentVars, workerVars, storeVars, taskVars, stopVars
<1> DEFINE Held == Range(pingQueue) \cup Range(pending)
           Kept(r) == r \in inStore \cup given \/ (wstate # "exited" /\ r \in Held)
<1>1. Range(pingQueue \o pending) = Held /\ Range(pingQueue' \o pending') = Held'
  BY TypedStep, ConcatOfPlaces DEF Typed
<1>2. \A r \in Results : r \in Range(pending') => r \notin inStore'
  BY PlacedStep DEF Placed
<1>3. SUFFICES ASSUME NEW r \in Results, place'[r] = "queued"
               PROVE  Kept(r)' /\ (stop' = "ok" => r \in inStore')
  BY <1>1, <1>2 DEF NoneVanishes
<1>4. place[r] = "queued" => Kept(r) /\ (stop = "ok" => r \in inStore)
  BY <1>1 DEF NoneVanishes
<1> HIDE DEF Held
<1>5. UNCHANGED <<pingQueue, pending>> => Held' = Held
  BY DEF Held
<1>6. CASE place[r] = "queued" /\ UNCHANGED <<workerVars, stop>> /\ inStore \subseteq inStore'
  BY <1>4, <1>5, <1>6
<1>7. ASSUME NEW q \in Results,
             \/ DispatchPing(q) \/ Receive(q)
             \/ \E t \in Times \cup {LostPing} : Try(q, t)
             \/ \E arrives \in BOOLEAN : SendResult(q, arrives)
      PROVE  place[r] = "queued" /\ UNCHANGED <<workerVars, stop, inStore>>
  BY <1>3, <1>7 DEF DispatchPing, Receive, Try, SendResult, Typed
<1>8. ASSUME NEW q \in Results, NEW outcome \in Outcomes, DirectWrite(q, outcome)
      PROVE  place[r] = "queued" /\ UNCHANGED <<workerVars, stop>> /\ inStore \subseteq inStore'
  BY <1>3, <1>8 DEF DirectWrite, WriteRecords, Typed
<1>9. ASSUME NEW q \in Results, EnqueueResult(q)
      PROVE  Kept(r)' /\ (stop' = "ok" => r \in inStore')
  <2>1. UNCHANGED <<pending, wstate, given, stop, stopping, inStore>>
    BY <1>9 DEF EnqueueResult
  <2>2. CASE ~stopping /\ place' = [place EXCEPT ![q] = "queued"] /\ pingQueue' = Append(pingQueue, q)
    <3>1. Held' = Held \cup {q}
      BY <2>1, <2>2, AppendAdds DEF Typed, Held
    <3>2. wstate # "exited" /\ stop = "idle"
      BY <2>2 DEF Control
    <3> QED
      BY <1>3, <1>4, <2>1, <2>2, <3>1, <3>2 DEF Typed
  <2>3. CASE place' = [place EXCEPT ![q] = "refused"] /\ pingQueue' = pingQueue
    BY <1>3, <1>4, <1>5, <2>1, <2>3 DEF Typed
  <2> QED
    BY <1>9, <2>2, <2>3 DEF EnqueueResult
<1>10. CASE TakeTick \/ TakeStop
  <2>1. /\ pending' = pending \o pingQueue /\ pingQueue' = <<>> /\ wstate' = "writing"
        /\ UNCHANGED <<place, given, stop, inStore>>
    BY <1>10 DEF TakeTick, TakeStop, Drain
  <2>2. Held' = Held
    <3>1. Range(pending \o pingQueue) = Range(pending) \cup Range(pingQueue)
      BY ConcatOfPlaces DEF Typed
    <3>2. Range(pingQueue') = {}
      BY <2>1 DEF Range
    <3> QED
      BY <2>1, <3>1, <3>2 DEF Held
  <2> QED
    BY <1>3, <1>4, <2>1, <2>2
<1>11. CASE WriteChunk
  <2>1. /\ pending' = Rest /\ inStore' = inStore \cup Range(Chunk)
        /\ UNCHANGED <<place, pingQueue, given, stop, wstate>>
    BY <1>11 DEF WriteChunk, WriteRecords
  <2>2. Range(Chunk) \cup Range(Rest) = Range(pending)
    BY Parts DEF Typed
  <2> QED
    BY <1>3, <1>4, <2>1, <2>2 DEF Held
<1>12. ASSUME NEW failed \in BOOLEAN, EndRound(failed), wstate = "writing", inStore' = inStore,
              failed \/ pending = <<>>
       PROVE  Kept(r)' /\ (stop' = "ok" => r \in inStore')
  <2>1. /\ place[r] = "queued" /\ UNCHANGED <<pingQueue, pending>> /\ given = {} /\ stop # "ok"
        /\ r \in inStore \/ r \in Held
    BY <1>3, <1>4, <1>12 DEF EndRound, Control
  <2>2. CASE current # "stop"
    BY <1>5, <1>12, <2>1, <2>2 DEF EndRound
  <2>3. CASE current = "stop"
    <3>1. /\ given' = Range(pending)
          /\ stop' = "ok" => ~failed
      BY <1>12, <2>1, <2>3 DEF EndRound
    <3>2. Range(pingQueue) = {} /\ (pending = <<>> => Range(pending) = {})
      BY <2>3 DEF Control, Range
    <3> QED
      BY <1>12, <2>1, <3>1, <3>2 DEF Held
  <2> QED
    BY <2>2, <2>3
<1>13. CASE AllWritten
  BY <1>12, <1>13 DEF AllWritten
<1>14. CASE \E outcome \in Outcomes : FailChunk(outcome)
  BY <1>12, <1>14 DEF FailChunk, WriteRecords
<1>15. CASE BeginStop \/ SendStop \/ LeaveStop
  <2>1. /\ UNCHANGED <<place, pingQueue, pending, given, wstate, inStore>>
        /\ stop' = "ok" => stop = "ok"
    BY <1>15 DEF BeginStop, SendStop, LeaveStop
  <2> QED
    BY <1>3, <1>4, <1>5, <2>1
<1>16. ASSUME \/ DeleteLatency \/ DeleteLoss \/ DeleteRow \/ Reload \/ DeleteFails
              \/ \E t \in PingTasks : BeginDelete(t)
       PROVE  UNCHANGED <<place, workerVars, stop, inStore>>
  BY <1>16 DEF DeleteLatency, DeleteLoss, DeleteRow, Reload, DeleteFails, BeginDelete
<1>17. ASSUME UNCHANGED pingVars
       PROVE  UNCHANGED <<place, workerVars, stop, inStore>>
  BY <1>17 DEF pingVars
<1>18. CASE UNCHANGED <<place, workerVars, stop, inStore>>
  BY <1>3, <1>6, <1>18
<1> QED
  BY <1>6, <1>7, <1>8, <1>9, <1>10, <1>11, <1>13, <1>14, <1>15, <1>16, <1>17, <1>18 DEF ResultsNext

-----------------------------------------------------------------------------
(* What follows from the invariant *)

\* What is sent is the last try or a loss, whose points say which.
LEMMA AgreeWithSent ==
    ASSUME ConstantsTyped, Typed, Stored
    PROVE  PointsAgree
<1>1. SUFFICES ASSUME NEW r \in Results, Spared(r), latency[r] # NoValue
               PROVE  loss[r] = 1 <=> latency[r] = LostPing
  BY DEF PointsAgree, Stored
<1>2. latency[r] = value[r] /\ loss[r] = LossOf(value[r])
  BY <1>1 DEF Stored
<1>3. value[r] \in Times \cup {LostPing}
  BY <1>1, <1>2 DEF Typed
<1> QED
  BY <1>2, <1>3, LossOfSent

\* The last of the tries is judged, and the ones before it were slow.
LEMMA SlowBefore ==
    ASSUME ConstantsTyped, Typed, Tried
    PROVE  JudgedFairly
<1> SUFFICES ASSUME NEW r \in Results, NEW t \in Times \cup {LostPing}
             PROVE  LET ts == Append(tries[r], t)
                        sent == Judged(r, ts)
                    IN  place[r] = "trying" /\ Finished(ts) =>
                          /\ sent # LostPing => /\ sent = t /\ t <= Threshold
                                                /\ \A i \in 1..Len(tries[r]) : Slow(ts[i])
                                                /\ taskOf[r] \in TcpTasks => ts[1] - t <= DropLimit
                          /\ tries[r] = <<>> /\ ~Slow(t) => sent = t
                          /\ sent = LostPing /\ t # LostPing => Slow(ts[1])
  BY DEF JudgedFairly
<1> DEFINE ts == Append(tries[r], t)
           n == Len(tries[r])
           sent == Judged(r, ts)
<1>1. /\ t \in Int /\ LostPing \in Int /\ Threshold \in Int /\ DropLimit \in Nat
      /\ tries[r] \in Seq(Int)
  BY LossOfSent DEF ConstantsTyped, Typed, LostPing
<1>2. /\ ts \in Seq(Int) /\ n \in Nat /\ Len(ts) = n + 1 /\ ts[n + 1] = t
      /\ \A i \in 1..n : ts[i] = tries[r][i]
      /\ ts[1] \in Int
  BY <1>1
<1>3. Last(ts) = t
  BY <1>2 DEF Last
<1>4. tries[r] = <<>> <=> n = 0
  BY <1>1, EmptySeq
<1>5. n = 0 => ts[1] = t
  BY <1>2
<1>6. n # 0 => Slow(ts[1]) /\ \A i \in 1..n : Slow(ts[i])
  BY <1>2 DEF Tried
<1>7. sent = IF t = LostPing \/ Slow(t) \/ (taskOf[r] \in TcpTasks /\ ts[1] - t > DropLimit) THEN LostPing ELSE t
  BY <1>3 DEF Judged, Resent
<1> HIDE DEF ts, sent, n
<1>8. sent # LostPing => /\ sent = t /\ t <= Threshold
                         /\ taskOf[r] \in TcpTasks => ts[1] - t <= DropLimit
  BY <1>1, <1>2, <1>7 DEF Slow
<1>9. \A i \in 1..n : Slow(ts[i])
  BY <1>2, <1>6
<1>10. n = 0 /\ ~Slow(t) => sent = t
  BY <1>1, <1>5, <1>7
<1>11. sent = LostPing /\ t # LostPing => Slow(ts[1])
  BY <1>1, <1>5, <1>6, <1>7
<1> QED
  BY <1>4, <1>8, <1>9, <1>10, <1>11 DEF ts, sent, n

LEMMA InvInit ==
    ASSUME ConstantsTyped, ResultsInit
    PROVE  IInv
<1> USE DEF ResultsInit
<1>1. Typed
  <2>1. NoValue \in Int /\ <<>> \in Seq(Int) /\ <<>> \in Seq(Results)
    BY DEF NoValue
  <2> QED
    BY <2>1 DEF Typed
<1>2. Range(pingQueue) = {} /\ Range(pending) = {} /\ IsInjective(pingQueue) /\ IsInjective(pending)
  BY DEF Range, IsInjective
<1>3. Tried /\ Control /\ Stored /\ RowGone /\ NoneVanishes
  BY DEF Tried, Control, Stored, RowGone, NoneVanishes
<1>4. Placed
  BY <1>2 DEF Placed
<1> QED
  BY <1>1, <1>3, <1>4 DEF IInv

LEMMA InvStep ==
    ASSUME ConstantsTyped, IInv, [ResultsNext]_pingVars
    PROVE  IInv'
BY TypedStep, TriedStep, ControlStep, PlacedStep, SparedBefore, StoredStep, NoneVanishesStep DEF IInv

(* However tries, handlers, failing chunks, deletions and a stop overlap,   *)
(* for any tasks, times, limits and capacities: an accepted result is       *)
(* written, on its way with a live worker, or given up by a flush that      *)
(* failed; its two points say the same; and what is sent was measured.      *)
THEOREM ResultsAlwaysKept ==
    ASSUME ConstantsTyped
    PROVE  ResultsSpec => []ResultsKept
<1>1. ResultsInit => IInv
  BY InvInit
<1>2. IInv /\ [ResultsNext]_pingVars => IInv'
  BY InvStep
<1>3. IInv => ResultsKept
  BY AgreeWithSent, SlowBefore DEF IInv, ResultsKept
<1> QED
  BY <1>1, <1>2, <1>3, PTL DEF ResultsSpec
=============================================================================
