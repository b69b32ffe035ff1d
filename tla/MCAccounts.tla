------------------------------ MODULE MCAccounts ------------------------------
(***************************************************************************)
(* A small instance of both parts of the accounts.  The registry is        *)
(* explored twice, `scope`: at work, where jobs take three addresses and   *)
(* the process crashes once at most; and at its start, over any data, with *)
(* two addresses, one job and two crashes.                                 *)
(***************************************************************************)
EXTENDS Accounts, TLC

CONSTANTS u1, u2, t1, e1, e2, e3, j1, j2, j3, tutor1, tutor2, user1, user2, r1, r2

VARIABLE scope   \* "serving" or "starting"

ThreeAccounts == {u1, u2, t1}
MCRoleOf == [a \in ThreeAccounts |-> IF a = t1 THEN "tutor" ELSE "user"]
MCEmails == {e1, e2, e3}
MCJobs == {j1, j2, j3}

TwoTutors == {tutor1, tutor2}
TwoUsers == {user1, user2}
TwoRequests == {r1, r2}
Alike == Permutations(TwoTutors) \cup Permutations(TwoUsers) \cup Permutations(TwoRequests)

\* A database in which everything is in order: u1 and t1 exist.
TidyInit ==
  /\ email = [a \in Accounts |-> CASE a = u1 -> e1 [] a = t1 -> e2 [] a = u2 -> None]
  /\ raw = {}
  /\ registry = [e \in Emails |-> CASE e = e1 -> u1 [] e = e2 -> t1 [] e = e3 -> None]

\* Tutors and users that do nothing: there are none.
NoTutorsInit ==
  /\ taTutor = [t \in TutorIds |-> None] /\ taUser = [u \in UserIds |-> None]

MCInit ==
  /\ part \in {"registry", "tutors"}
  /\ scope \in IF part = "registry" THEN {"serving", "starting"} ELSE {"serving"}
  /\ scope = "serving" => TidyInit
  /\ part = "registry" => NoTutorsInit
  /\ AccountsInit
  /\ scope = "starting" => registry[e3] = None /\ \A a \in Accounts : email[a] # e3

MCNext ==
  /\ AccountsNext
  /\ UNCHANGED scope
  /\ scope = "serving" => crashes' <= 1
  /\ scope = "starting" => (\A j \in Jobs \ {j1} : job'[j] = Idle) /\ job'[j1].to # e3

MCSpec == MCInit /\ [][MCNext]_<<accountsVars, scope>>
=============================================================================
