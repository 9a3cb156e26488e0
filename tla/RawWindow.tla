----------------------------- MODULE RawWindow ------------------------------
(* What the in-memory window of one raw series promises: for every timestamp *)
(* the point written last, labels included, until the window slides past it  *)
(* or it is deleted; and what a query and a listing of entities find in it.  *)
EXTENDS Integers, SequencesExt

CONSTANTS Minute, Retention,   \* the visible window, in ticks
          Batches, Times       \* the batches written, the times asked about
VARIABLES now, window,
          answer, found          \* of the last question: its points, whether there are any

Overwrite(w, p) == {q \in w : q.at # p.at} \cup {p}
Oldest == LET t == now - Retention IN t - (t % Minute)  \* the oldest minute is kept whole
Within(t) == {p \in window : p.at >= t}

Unasked == answer' = {} /\ found' = FALSE

Init == window = {} /\ answer = {} /\ found = FALSE

Write(batch) == /\ window' = FoldLeft(Overwrite, Within(Oldest),
                                      SelectSeq(batch, LAMBDA p : p.at >= Oldest))
                /\ Unasked
Forget(t) == window' = Within(t) /\ Unasked
Clear == window' = {} /\ Unasked
Ask(start, end) ==
    /\ answer' = {p \in window : p.at >= start /\ p.at >= now - Retention /\ p.at <= end}
    /\ found' = (answer' # {})
    /\ UNCHANGED window

Next == \/ Forget(Oldest) \/ Clear \/ \E t \in Times : Forget(t)
        \/ \E batch \in Batches : Write(batch)
        \/ \E start, end \in Times : Ask(start, end)

vars == <<window, answer, found>>
Spec == Init /\ [][Next]_vars
=============================================================================
