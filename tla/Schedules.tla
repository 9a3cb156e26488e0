------------------------------ MODULE Schedules ------------------------------
(* The scheduler (internal/scheduler) and the two schedules that are rebuilt  *)
(* from the database: ping tasks (database/tasks, utils/pingSchedule.go) and  *)
(* load notifications (database/notification, utils/notifier/load.go).  Calls *)
(* that edit the tasks, ticks, and the functions they start interleave.       *)
EXTENDS Integers, FiniteSets

CONSTANTS
  PingTasks, LoadTasks,  \* the ids of the tasks of each kind
  Clients,               \* the clients
  ClientSets,            \* the sets of clients a task may name
  Editors,               \* calls that may run at the same time
  Intervals,             \* the intervals a task may have
  MaxTime,               \* bound on the clock
  MaxJobs,               \* bound on the jobs registered since the start
  MaxCalls               \* bound on the calls that edit tasks

Tasks == PingTasks \cup LoadTasks
Jobs == 1..MaxJobs
Kind(t) == IF t \in PingTasks THEN "ping" ELSE "load"
Rows(t) == [clients : ClientSets, interval : Intervals, on : IF t \in PingTasks THEN BOOLEAN ELSE {FALSE}, last : {-1}]
NoRow == [clients |-> {}, interval |-> 0, on |-> FALSE, last |-> -1]
NoJob == [kind |-> "none", interval |-> 0, tasks |-> {}, next |-> 0, live |-> FALSE]
Idle == [pc |-> "idle", kind |-> "none", read |-> {}]

VARIABLES
  clock,
  rows,    \* the task tables
  calls,   \* per editor: the call that runs
  jobs,    \* the jobs in the order they were registered
  runs,    \* functions the scheduler has started
  made,    \* number of calls made
  clean    \* per kind: the last call began alone, and none has overlapped it or failed since

vars == <<clock, rows, calls, jobs, runs, made, clean>>

Init ==
  /\ clock = 0 /\ rows = [t \in Tasks |-> NoRow]
  /\ calls = [e \in Editors |-> Idle]
  /\ jobs = [j \in Jobs |-> NoJob]
  /\ runs = {} /\ made = 0 /\ clean = [k \in {"ping", "load"} |-> TRUE]

Exists(t) == rows[t].interval # 0
OfKind(k) == {t \in Tasks : Kind(t) = k}
Busy(k) == \E e \in Editors : calls[e].pc # "idle" /\ calls[e].kind = k

Tick == clock < MaxTime /\ clock' = clock + 1 /\ UNCHANGED <<rows, calls, jobs, runs, clean, made>>

-----------------------------------------------------------------------------
(* A call of the API changes rows first.  A call that fails on the way, as a  *)
(* batch with an id that is gone, returns without rebuilding the schedule.    *)
Enter(e, k, call) ==
  /\ calls[e].pc = "idle" /\ made < MaxCalls
  /\ calls' = [calls EXCEPT ![e] = call] /\ made' = made + 1
  /\ clean' = [clean EXCEPT ![k] = ~Busy(k)]
  /\ UNCHANGED <<clock, jobs, runs>>

(* AddPingTask, EditPingTask, AddLoadNotification, EditLoadNotification.      *)
Put(e, t, r) ==
  /\ rows' = [rows EXCEPT ![t] = [r EXCEPT !.last = rows[t].last]]
  /\ Enter(e, Kind(t), [pc |-> "load", kind |-> Kind(t), read |-> {}])

Delete(e, t) ==
  /\ Exists(t)
  /\ rows' = [rows EXCEPT ![t] = NoRow]
  /\ Enter(e, Kind(t), [pc |-> "load", kind |-> Kind(t), read |-> {}])

BatchFails(e, t, r) ==
  /\ Exists(t) /\ calls[e].pc = "idle" /\ made < MaxCalls /\ made' = made + 1
  /\ rows' = [rows EXCEPT ![t] = [r EXCEPT !.last = rows[t].last]]
  /\ clean' = [clean EXCEPT ![Kind(t)] = FALSE]
  /\ UNCHANGED <<clock, calls, jobs, runs>>

(* AddDefaultOnClientUUID reads the tasks that are on by default, and then    *)
(* writes the clients it has read, with the new one, row by row.              *)
AddDefaultOn(e, c) ==
  /\ LET on == {t \in PingTasks : Exists(t) /\ rows[t].on /\ c \notin rows[t].clients} IN
       /\ on # {}
       /\ Enter(e, "ping", [pc |-> "append", kind |-> "ping",
                            read |-> {<<t, rows[t].clients \cup {c}>> : t \in on}])
  /\ UNCHANGED rows

AppendClient(e) ==
  /\ calls[e].pc = "append"
  /\ \E u \in calls[e].read :
       /\ rows' = [rows EXCEPT ![u[1]] = IF Exists(u[1]) THEN [@ EXCEPT !.clients = u[2]] ELSE @]
       /\ calls' = [calls EXCEPT ![e] = IF @.read = {u} THEN [@ EXCEPT !.pc = "load", !.read = {}]
                                        ELSE [@ EXCEPT !.read = @ \ {u}]]
  /\ UNCHANGED <<clock, jobs, runs, clean, made>>

(* The rows are read outside the lock of the schedule's manager.              *)
LoadRows(e) ==
  /\ calls[e].pc = "load"
  /\ calls' = [calls EXCEPT ![e] = [@ EXCEPT !.pc = "reload",
       !.read = {<<t, rows[t]>> : t \in {u \in OfKind(calls[e].kind) : Exists(u)}}]]
  /\ UNCHANGED <<clock, rows, jobs, runs, clean, made>>

(* RemovePrefix cancels every job of the kind; then one job per interval.     *)
(* Faulty variant: only the jobs of intervals still in use are replaced.      *)
CancelledSome(js, k) == [j \in Jobs |-> IF js[j].kind = k /\ \E t \in OfKind(k) : rows[t].interval = js[j].interval
                                        THEN [js[j] EXCEPT !.live = FALSE] ELSE js[j]]

Groups(read) == {{p \in read : p[2].interval = i} : i \in {p[2].interval : p \in read}}
Cancelled(js, k) == [j \in Jobs |-> IF js[j].kind = k THEN [js[j] EXCEPT !.live = FALSE] ELSE js[j]]
Used == {j \in Jobs : jobs[j] # NoJob}

Reload(e) ==
  /\ calls[e].pc = "reload"
  /\ LET k == calls[e].kind
         gs == Groups(calls[e].read)
         free == Cardinality(Used) + 1 .. Cardinality(Used) + Cardinality(gs)
     IN /\ free \subseteq Jobs
        /\ \E g \in [free -> gs] :
             /\ \A a, b \in free : a # b => g[a] # g[b]
             /\ jobs' = [j \in Jobs |->
                  IF j \in free
                  THEN LET i == (CHOOSE p \in g[j] : TRUE)[2].interval
                       IN [kind |-> k, interval |-> i, tasks |-> g[j], next |-> clock + i, live |-> TRUE]
                  ELSE Cancelled(jobs, k)[j]]
  /\ calls' = [calls EXCEPT ![e] = Idle]
  /\ UNCHANGED <<clock, rows, runs, clean, made>>

-----------------------------------------------------------------------------
(* Manager.run: a tick starts the function and sets the timer from the tick   *)
(* that was due, so that late ticks are made up one after the other.          *)
NextTick(j) == jobs[j].next + jobs[j].interval

Fire(j) ==
  /\ jobs[j].live /\ clock >= jobs[j].next
  /\ jobs' = [jobs EXCEPT ![j].next = NextTick(j)]
  /\ runs' = runs \cup {[job |-> j, due |-> jobs[j].next, pc |-> "spawned", task |-> 0,
                         todo |-> {}, at |-> 0, late |-> 0]}
  /\ UNCHANGED <<clock, rows, calls, clean, made>>

(* safeRun looks at the context once; the function starts a goroutine per     *)
(* task of its own copy of the group.                                         *)
Begin(r) ==
  /\ r \in runs /\ r.pc = "spawned"
  /\ runs' = (runs \ {r}) \cup
       IF jobs[r.job].live
       THEN {[r EXCEPT !.pc = "check", !.task = p[1], !.todo = p[2].clients, !.at = p[2].last] : p \in jobs[r.job].tasks}
       ELSE {}
  /\ UNCHANGED <<clock, rows, calls, jobs, clean, made>>

(* executePingTask looks at the context before every client.                  *)
(* Faulty variant: only a run that has not dispatched yet looks at the        *)
(* context.                                                                   *)
MayDispatchOnceBegun(r) == jobs[r.job].live \/ r.late > 0

MayDispatch(r) == jobs[r.job].live

PingCheck(r) ==
  /\ r \in runs /\ r.pc = "check" /\ jobs[r.job].kind = "ping"
  /\ runs' = (runs \ {r}) \cup
       IF r.todo # {} /\ MayDispatch(r) THEN {[r EXCEPT !.pc = "dispatch"]} ELSE {}
  /\ UNCHANGED <<clock, rows, calls, jobs, clean, made>>

PingDispatch(r) ==
  /\ r \in runs /\ r.pc = "dispatch"
  /\ \E c \in r.todo :
       runs' = (runs \ {r}) \cup {[r EXCEPT !.pc = "check", !.todo = @ \ {c},
                                   !.late = IF jobs[r.job].live THEN @ ELSE @ + 1]}
  /\ UNCHANGED <<clock, rows, calls, jobs, clean, made>>

(* executeLoadNotificationTask: the pause is judged by the copy of the row in *)
(* the schedule; the row gets the time at which the check began, whether or   *)
(* not a client was overloaded.                                               *)
Paused(r) == r.at >= 0 /\ clock - r.at < jobs[r.job].interval

LoadCheck(r) ==
  /\ r \in runs /\ r.pc = "check" /\ jobs[r.job].kind = "load"
  /\ runs' = (runs \ {r}) \cup IF Paused(r) THEN {} ELSE {[r EXCEPT !.pc = "notify", !.at = clock]}
  /\ UNCHANGED <<clock, rows, calls, jobs, clean, made>>

LoadNotify(r) ==
  /\ r \in runs /\ r.pc = "notify"
  /\ runs' = runs \ {r}
  /\ rows' = [rows EXCEPT ![r.task] = IF Exists(r.task) THEN [@ EXCEPT !.last = r.at] ELSE @]
  /\ UNCHANGED <<clock, calls, jobs, clean, made>>

Next ==
  \/ Tick
  \/ \E e \in Editors : \/ \E t \in Tasks : \/ Delete(e, t)
                                            \/ \E r \in Rows(t) : Put(e, t, r) \/ BatchFails(e, t, r)
                        \/ \E c \in Clients : AddDefaultOn(e, c)
                        \/ AppendClient(e) \/ LoadRows(e) \/ Reload(e)
  \/ \E j \in Jobs : Fire(j)
  \/ \E r \in runs : Begin(r) \/ PingCheck(r) \/ PingDispatch(r) \/ LoadCheck(r) \/ LoadNotify(r)

Spec == Init /\ [][Next]_vars

-----------------------------------------------------------------------------
(* A task that has been edited or removed is not pinged any more: a function  *)
(* of a job that was replaced dispatches at most the one ping it had already  *)
(* decided on, whatever the ticks it was catching up with.                    *)
OneLatePing == \A r \in runs : r.late <= 1

(* As long as calls neither fail nor overlap, the schedule follows the        *)
(* tables: when no call runs, the live jobs hold exactly the rows, grouped by *)
(* their interval, one job for each.                                          *)
Settings(p) == <<p[1], p[2].clients, p[2].interval>>
Scheduled(k) == UNION {{Settings(p) : p \in jobs[j].tasks} : j \in {i \in Jobs : jobs[i].live /\ jobs[i].kind = k}}
ScheduleCurrent ==
  \A k \in {"ping", "load"} : clean[k] /\ ~Busy(k) =>
    /\ Scheduled(k) = {Settings(<<t, rows[t]>>) : t \in {u \in OfKind(k) : Exists(u)}}
    /\ \A i, j \in Jobs : i # j /\ jobs[i].live /\ jobs[j].live /\ jobs[i].kind = k /\ jobs[j].kind = k
                          => jobs[i].interval # jobs[j].interval
=============================================================================
