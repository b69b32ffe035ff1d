---------------------------- MODULE MCAdminWorkflow ----------------------------
(* Three API calls, one of them a read, and one operator command. *)
EXTENDS AdminWorkflow

CONSTANTS r1, r2, r3, op1
MCRequests == {r1, r2, r3}
MCReaders == {r3}
MCOperators == {op1}
=============================================================================
