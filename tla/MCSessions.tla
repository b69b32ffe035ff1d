------------------------------ MODULE MCSessions ------------------------------
(* An admin and another account, two requests, three session ids. *)
EXTENDS Sessions, TLC

CONSTANTS a1, o1, r1, r2, s1, s2, s3

OneAdmin == {a1}
OneOther == {o1}
TwoRequests == {r1, r2}
ThreeSids == {s1, s2, s3}

Interchangeable == Permutations(Sids) \cup Permutations(Requests)

===============================================================================
