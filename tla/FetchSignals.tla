---------------------------- MODULE FetchSignals ----------------------------
(* fetch with abort signals (pkg/jsruntime/fetch): a request runs in its own  *)
(* goroutine under a context that the signal, a timeout or the close of the   *)
(* module cancels; its promise is settled in a later turn of the loop.  The   *)
(* exchange with the other server is external.                                *)
EXTENDS Integers, FiniteSets

CONSTANTS Requests, Signals, NoSignal   \* NoSignal: a fetch without one

VARIABLES requests,   \* per request: phase, signal, cancelled, what it brought
          table,      \* abortState: signal -> [aborted, requests]
          aborted,    \* signals the script has aborted
          loop        \* the loop takes jobs
fetchVars == <<requests, table, aborted, loop>>

New == [phase |-> "new", signal |-> NoSignal, cancelled |-> FALSE, brought |-> "nothing",
        settled |-> "no", late |-> FALSE]
Init == /\ requests = [r \in Requests |-> New]
        /\ table = [s \in {} |-> New] /\ aborted = {} /\ loop = TRUE

Put(s, entry) == [x \in DOMAIN table \cup {s} |-> IF x = s THEN entry ELSE table[x]]
Drop(s) == [x \in DOMAIN table \ {s} |-> table[x]]
Cancelled(rs) == [r \in Requests |-> IF r \in rs THEN [requests[r] EXCEPT !.cancelled = TRUE] ELSE requests[r]]

\* requestContext: a request joins its signal's entry unless it is aborted.
AbortedAlready(s) == s \in DOMAIN table /\ table[s].aborted
Start(r, s) ==
    /\ requests[r].phase = "new" /\ loop
    /\ requests' = [requests EXCEPT ![r].phase = "running", ![r].signal = s,
                                    ![r].cancelled = s # NoSignal /\ AbortedAlready(s)]
    /\ table' = IF s = NoSignal \/ AbortedAlready(s) THEN table
                ELSE IF s \in DOMAIN table THEN [table EXCEPT ![s].requests = @ \cup {r}]
                ELSE Put(s, [aborted |-> FALSE, requests |-> {r}])
    /\ UNCHANGED <<aborted, loop>>

Abort(s) ==
    /\ loop /\ s \notin aborted /\ aborted' = aborted \cup {s}
    /\ IF s \in DOMAIN table
         THEN /\ table' = [table EXCEPT ![s].aborted = TRUE]
              /\ requests' = Cancelled(table[s].requests)
         ELSE table' = Put(s, [aborted |-> TRUE, requests |-> {}]) /\ UNCHANGED requests
    /\ UNCHANGED loop

\* The deadline of the request cancels its context too.
TimeoutOf(r) == /\ requests[r].phase \in {"running", "brought"} /\ ~requests[r].cancelled
                /\ requests' = Cancelled({r}) /\ UNCHANGED <<table, aborted, loop>>

\* The answer may have arrived before the context was cancelled, or not at all.
Exchange(r) ==
    /\ requests[r].phase = "running"
    /\ \E what \in {"answer", "failure"} :
         /\ what = "answer" => ~requests[r].cancelled
         /\ requests' = [requests EXCEPT ![r].brought = what, ![r].phase = IF loop THEN "brought" ELSE "dropped"]
    /\ UNCHANGED <<table, aborted, loop>>

\* release: the request leaves the entry; an entry nobody needs goes.
Released(r) ==
    LET s == requests[r].signal IN
    IF s \notin DOMAIN table \/ r \notin table[s].requests THEN table
    ELSE IF ~table[s].aborted /\ table[s].requests = {r} THEN Drop(s)
    ELSE [table EXCEPT ![s].requests = @ \ {r}]

Outcome(q) == IF q.cancelled THEN "aborted" ELSE IF q.brought = "failure" THEN "failed" ELSE "resolved"
Settle(r) ==
    /\ requests[r].phase = "brought" /\ loop
    /\ requests' = [requests EXCEPT ![r].phase = "done", ![r].settled = Outcome(requests[r]),
                                    ![r].late = requests[r].signal \in aborted]
    /\ table' = Released(r) /\ UNCHANGED <<aborted, loop>>

\* The loop takes no job any more: the goroutine releases the request itself.
DropOne(r) == /\ requests[r].phase = "dropped"
              /\ requests' = [requests EXCEPT ![r].phase = "done"]
              /\ table' = Released(r) /\ UNCHANGED <<aborted, loop>>

\* Close aborts every entry; jobs still queued are never run.
Close == /\ loop /\ loop' = FALSE
         /\ table' = [s \in DOMAIN table |-> [table[s] EXCEPT !.aborted = TRUE]]
         /\ requests' = Cancelled(UNION {table[s].requests : s \in DOMAIN table})
         /\ UNCHANGED aborted

Next == \/ \E r \in Requests : \/ \E s \in Signals \cup {NoSignal} : Start(r, s)
                               \/ TimeoutOf(r) \/ Exchange(r) \/ Settle(r) \/ DropOne(r)
        \/ \E s \in Signals : Abort(s)
        \/ Close
Spec == Init /\ [][Next]_fetchVars

-----------------------------------------------------------------------------
(* Once a script has aborted a signal no fetch with it is resolved, whether   *)
(* it began before or after, and even if its answer is already there          *)
(* (createFetchFunction, requestContext).                                     *)
AbortWins == \A r \in Requests : requests[r].late => requests[r].settled = "aborted"

(* The table holds the requests under way and nothing of those that are over: *)
(* an entry without a request remains for an aborted signal only.             *)
TableIsCurrent ==
    \A s \in DOMAIN table :
        /\ \A r \in table[s].requests : requests[r].phase # "done" /\ requests[r].signal = s
        /\ table[s].requests = {} => table[s].aborted
        /\ s \in aborted => table[s].aborted
=============================================================================
