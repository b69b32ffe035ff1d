--------------------------- MODULE MCTutorAssignment ---------------------------
(* Two tutors and two users with two requests. *)
EXTENDS TutorAssignment, TLC

CONSTANTS t1, t2, u1, u2, r1, r2
TwoTutors == {t1, t2}
TwoUsers == {u1, u2}
TwoRequests == {r1, r2}

Alike == Permutations(TwoTutors) \cup Permutations(TwoUsers) \cup Permutations(TwoRequests)
=============================================================================
