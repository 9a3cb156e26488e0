---------------------------- MODULE AtomicUpgrade ----------------------------
(* What the structure upgrade of the metric store promises to whoever reads   *)
(* the managed tables: the history that can be read changes in one atomic     *)
(* step, from the stored layout to the rebuilt one or, when an administrator  *)
(* asked for it, to the empty one.  Everything before and after that step     *)
(* (building, cleaning up, failing, restarting) leaves the history alone.     *)
EXTENDS TLC

VARIABLES
  history,  \* "stored", "rebuilt" or "empty": what a reader of the tables finds
  discard   \* an administrator asked to delete the history

Init == history = "stored" /\ discard = FALSE

(* An administrator asks to discard the history.                              *)
AskDiscard == discard' = TRUE /\ UNCHANGED history

(* The rebuilt tables become visible, all of them at once.                    *)
Switch == history = "stored" /\ history' = "rebuilt" /\ UNCHANGED discard

(* The history disappears, all of it at once, and only on request.            *)
Discard == discard /\ history' = "empty" /\ UNCHANGED discard

Next == AskDiscard \/ Switch \/ Discard

vars == <<history, discard>>
Spec == Init /\ [][Next]_vars
=============================================================================
