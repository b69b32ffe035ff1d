--------------------------- MODULE BoundedExecution ---------------------------
(***************************************************************************)
(* What callers of a bounded native resource rely on, with no queue in     *)
(* sight: at most `Bound` calls execute, each at most once, and a call     *)
(* that was refused never executes.                                        *)
(***************************************************************************)
EXTENDS Naturals, FiniteSets

CONSTANTS Calls, Bound

VARIABLE status

Executing == {c \in Calls : status[c] = "executing"}

Init == status = [c \in Calls |-> "new"]

Move(c, from, to) == status[c] \in from /\ status' = [status EXCEPT ![c] = to]

Execute(c) ==
  /\ Cardinality(Executing) < Bound
  /\ Move(c, {"new", "pending"}, "executing")

Next ==
  \E c \in Calls :
    \/ Move(c, {"new"}, "pending")
    \/ Execute(c)
    \/ Move(c, {"executing"}, "executed")
    \/ Move(c, {"new"}, "refused")

Spec == Init /\ [][Next]_status
=============================================================================
