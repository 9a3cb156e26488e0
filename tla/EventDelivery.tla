---------------------------- MODULE EventDelivery ----------------------------
(* What the queue of an agent promises for the events it has accepted: an     *)
(* event stays available until the agent has it, until it has been written to *)
(* a connection of the agent, until it is out of date (expired, or superseded *)
(* by a newer event of its task), or until newer events crowd it out.  It     *)
(* never disappears for another reason and never comes back.                  *)
EXTENDS Naturals, FiniteSets

CONSTANT Capacity  \* how many events are kept at most

VARIABLES
  kept,      \* events that are available
  got,       \* events the agent has taken or that were written to it
  outdated   \* events that need not be delivered any more

Init == kept = {} /\ got = {} /\ outdated = {}

Grow == got \subseteq got' /\ outdated \subseteq outdated'

(* A new event is kept; one that is still due gives way only to a full queue. *)
Accept(e) ==
  /\ e \notin kept \cup outdated
  /\ kept' \subseteq kept \cup {e}
  /\ (kept \ kept') \subseteq outdated' \/ Cardinality(kept') = Capacity
  /\ Grow

(* The agent gets events, or events go out of date, and those may be given up.*)
Retire ==
  /\ kept' \subseteq kept /\ (kept \ kept') \subseteq (got' \cup outdated')
  /\ Grow

Next == (\E e \in kept' \ kept : Accept(e)) \/ Retire

vars == <<kept, got, outdated>>
Spec == Init /\ [][Next]_vars
=============================================================================
