----------------------------- MODULE ScriptCalls -----------------------------
(* Calls of script functions from Go (pkg/jsruntime/runtime.go: Call and      *)
(* CallVoid): one at a time per runtime, run by the event loop, answered by a *)
(* value, an error or a promise, and given up at the deadline.  Values are    *)
(* the numbers of the calls that made them.                                   *)
EXTENDS Integers, Sequences, FiniteSets

CONSTANTS Callers, MaxCalls   \* goroutines that call; calls in all (bound)

VARIABLES calls,      \* the calls made, in order
          waiting,    \* the call each caller waits for, or 0
          answers,    \* what its last call returned: [call, answer]
          mutex,      \* the caller that holds Runtime.mu, or None
          turn,       \* the call whose function the loop runs, or 0
          closed
cvars == <<calls, waiting, answers, mutex, turn, closed>>

None == "none"
Numbers == DOMAIN calls
Open == <<"open", 0>>      \* nothing in the result channel yet
Timeout == <<"timeout", 0>>
Closed == <<"closed", 0>>

Init == /\ calls = <<>> /\ turn = 0 /\ mutex = None /\ closed = FALSE
        /\ waiting = [c \in Callers |-> 0] /\ answers = [c \in Callers |-> [call |-> 0, answer |-> Open]]

\* A closed runtime refuses the call.
Begin(c) ==
    /\ waiting[c] = 0 /\ mutex = None /\ Len(calls) < MaxCalls
    /\ IF closed
         THEN /\ answers' = [answers EXCEPT ![c] = [call |-> 0, answer |-> Closed]]
              /\ UNCHANGED <<calls, waiting, mutex>>
         ELSE /\ mutex' = c
              /\ calls' = Append(calls, [state |-> "queued", late |-> FALSE, result |-> Open])
              /\ waiting' = [waiting EXCEPT ![c] = Len(calls) + 1]
              /\ UNCHANGED answers
    /\ UNCHANGED <<turn, closed>>

\* finish: the first result stays.
Finished(n, state, result) ==
    [calls EXCEPT ![n].state = state, ![n].result = IF @ = Open THEN result ELSE @]

Deadline(n) == /\ ~calls[n].late /\ calls' = [calls EXCEPT ![n].late = TRUE]
               /\ UNCHANGED <<waiting, answers, mutex, turn, closed>>

\* The jobs of the loop run in the order they were queued.
IsNext(n) == calls[n].state = "queued" /\ \A i \in 1..n-1 : calls[i].state # "queued"
StartTurn(n) ==
    /\ turn = 0 /\ IsNext(n) /\ ~closed
    /\ IF calls[n].late THEN calls' = Finished(n, "ended", Timeout) /\ UNCHANGED turn
       ELSE calls' = [calls EXCEPT ![n].state = "running"] /\ turn' = n
    /\ UNCHANGED <<waiting, answers, mutex, closed>>

\* The function returns, throws, exits or leaves a promise; after the deadline
\* the interrupt may come first.
EndTurn ==
    /\ turn # 0 /\ turn' = 0
    /\ \/ \E answer \in {<<"value", turn>>, <<"error", turn>>} : calls' = Finished(turn, "ended", answer)
       \/ calls' = [calls EXCEPT ![turn].state = "promised"]
       \/ calls[turn].late /\ calls' = Finished(turn, "ended", Timeout)
    /\ UNCHANGED <<waiting, answers, mutex, closed>>

\* A promise settles in a later turn, perhaps when nobody waits any more.
Settle(n) ==
    /\ turn = 0 /\ calls[n].state = "promised" /\ ~closed
    /\ \E answer \in {<<"value", n>>, <<"error", n>>} : calls' = Finished(n, "ended", answer)
    /\ UNCHANGED <<waiting, answers, mutex, turn, closed>>

Answered(c, answer) ==
    /\ answers' = [answers EXCEPT ![c] = [call |-> waiting[c], answer |-> answer]]
    /\ waiting' = [waiting EXCEPT ![c] = 0] /\ mutex' = None
    /\ UNCHANGED <<turn, closed>>
Return(c) == /\ waiting[c] # 0 /\ calls[waiting[c]].result # Open
             /\ Answered(c, calls[waiting[c]].result) /\ UNCHANGED calls
GiveUp(c) == /\ waiting[c] # 0 /\ calls[waiting[c]].late
             /\ Answered(c, Timeout) /\ calls' = Finished(waiting[c], calls[waiting[c]].state, Timeout)

\* Close waits for the lock, ends the resources and the loop.
Close == /\ mutex = None /\ ~closed /\ closed' = TRUE
         /\ UNCHANGED <<calls, waiting, answers, mutex, turn>>

Next == \/ \E c \in Callers : Begin(c) \/ Return(c) \/ GiveUp(c)
        \/ \E n \in Numbers : Deadline(n) \/ StartTurn(n) \/ Settle(n)
        \/ EndTurn \/ Close
Spec == Init /\ [][Next]_cvars

-----------------------------------------------------------------------------
(* A call never returns what another one made, although promises of calls     *)
(* that were given up settle while later calls wait (call, callOnLoop).       *)
OwnAnswer == \A c \in Callers : answers[c].answer \in
    {Open, Timeout, Closed} \cup {<<kind, answers[c].call>> : kind \in {"value", "error"}}

(* Closing never cuts off a call: it waits until every caller has its answer, *)
(* and afterwards nobody is let in (Close).                                   *)
CloseCutsNobody == closed => mutex = None /\ \A c \in Callers : waiting[c] = 0
=============================================================================
