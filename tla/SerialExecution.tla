---------------------------- MODULE SerialExecution ----------------------------
(***************************************************************************)
(* What the process slot of the back end promises its callers, with no     *)
(* queue, clock or hand-over in sight: calls execute one at a time, each   *)
(* at most once, and a call that was refused never executes.               *)
(***************************************************************************)
CONSTANT Calls

VARIABLE status

Statuses == {"new", "pending", "executing", "executed", "refused"}

Executing == {c \in Calls : status[c] = "executing"}

Init == status = [c \in Calls |-> "new"]

Submit(c) ==
  /\ status[c] = "new"
  /\ status' = [status EXCEPT ![c] = "pending"]

Execute(c) ==
  /\ status[c] \in {"new", "pending"}
  /\ Executing = {}
  /\ status' = [status EXCEPT ![c] = "executing"]

Complete(c) ==
  /\ status[c] = "executing"
  /\ status' = [status EXCEPT ![c] = "executed"]

Refuse(c) ==
  /\ status[c] \in {"new", "pending"}
  /\ status' = [status EXCEPT ![c] = "refused"]

Next == \E c \in Calls : Submit(c) \/ Execute(c) \/ Complete(c) \/ Refuse(c)

Spec == Init /\ [][Next]_status
=============================================================================
