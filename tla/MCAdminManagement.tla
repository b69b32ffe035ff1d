-------------------------- MODULE MCAdminManagement --------------------------
(* Three administrator ids, two requests and an operator command. *)
EXTENDS AdminManagement, TLC

CONSTANTS a1, a2, a3, r1, r2, c1
MCAdmins == {a1, a2, a3}
TwoRequests == {r1, r2}
OneCommand == {c1}
NoCommand == {}

Alike == Permutations(MCAdmins) \cup Permutations(TwoRequests)
=============================================================================
