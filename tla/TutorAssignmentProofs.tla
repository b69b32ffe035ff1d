------------------------- MODULE TutorAssignmentProofs -------------------------
(***************************************************************************)
(* Theorems about TutorAssignment, for any tutors, users and requests.     *)
(* The invariant says of the one request inside the lock what it has read  *)
(* and relies on.  Profile updates beside it change neither the status of  *)
(* a tutor nor the tutor of a user; a write that was given up may, and     *)
(* then leaves a mark in `cut` or `crossed`.                               *)
(***************************************************************************)
EXTENDS TutorAssignment, TLAPS

-----------------------------------------------------------------------------
(* The inductive invariant *)

Locked == {"check", "checkTutor", "findTutor", "findUser", "send"} \cup Writes

\* Past the entrance of the lock, and not a profile update.
Holds(r) == job[r].at \in Locked /\ ~Own(r)

\* Such a request is the one inside, unless its write was given up.
LockHeld ==
  \A r \in Requests :
    /\ inside = r => Holds(r)
    /\ Holds(r) => inside = r \/ job[r].at \in Writes

\* What a request is about, and at which steps it may be.
Fits(r) ==
  /\ job[r].op \in {"status", "deleteTutor", "ownTutor", "assign", "list"} => job[r].tutor \in Tutors
  /\ job[r].op \in {"assign", "staff", "deleteUser", "ownUser"} => job[r].user \in Users
  /\ job[r].op = "staff" /\ job[r].by = "self" => job[r].tutor \in Tutors
  /\ job[r].at # "idle" => job[r].op # "none"
  /\ job[r].at \in {"waiting", "check"} => ~Own(r)
  /\ job[r].at = "checkTutor" => job[r].op = "assign"
  /\ job[r].at = "findTutor" => job[r].op \in {"status", "deleteTutor", "ownTutor"}
  /\ job[r].at = "findUser" => job[r].op \in {"assign", "staff", "deleteUser", "ownUser"}
  /\ job[r].at = "send" => job[r].op = "list"
  /\ job[r].at = "saveTutor" => /\ job[r].op \in {"status", "ownTutor"}
                               /\ job[r].doc \in TutorDocument /\ job[r].todo = Users
  /\ job[r].at = "saveUser" => /\ job[r].op \in {"assign", "staff", "ownUser"}
                              /\ job[r].doc \in UserDocument
  /\ job[r].at = "unassign" => job[r].op \in {"status", "deleteTutor"}
  /\ job[r].at = "deleteTutor" => job[r].op = "deleteTutor"
  /\ job[r].at = "deleteUser" => job[r].op = "deleteUser"

ControlInv == LockHeld /\ \A r \in Requests : Fits(r)

UsedInv ==
  /\ \A t \in Tutors : tutor[t] # None => t \in used
  /\ \A u \in Users : user[u] # None => u \in used

\* A tutor that is approved, or was when it was deleted.
ApprovedOnce(t) == t \in used /\ (tutor[t] # None => tutor[t].status # "pending")

KnownInside(r) ==
  /\ job[r].op = "assign" /\ job[r].at \in {"findUser", "saveUser"} =>
       Active(job[r].tutor) \/ job[r].tutor \in cut
  /\ ~crossed /\ job[r].by = "self" =>
       /\ job[r].op \in {"staff", "list"} /\ job[r].at \in {"findUser", "saveUser", "send"} =>
            Active(job[r].tutor)
       /\ job[r].op = "staff" /\ job[r].at = "saveUser" => Assigned(job[r].user, job[r].tutor)
  /\ job[r].at = "unassign" =>
       \A u \in Users \ job[r].todo : Assigned(u, job[r].tutor) => job[r].tutor \in cut
  /\ job[r].at = "deleteTutor" =>
       \A u \in Users : Assigned(u, job[r].tutor) => job[r].tutor \in cut

\* What a request has read and relies on: an assignment, inside the lock or given
\* up, that its tutor was approved; and while it is inside, this.
Known(r) ==
  /\ job[r].op = "assign" /\ job[r].at \in {"findUser", "saveUser"} => ApprovedOnce(job[r].tutor)
  /\ inside = r => KnownInside(r)

\* A suspension that has reached the tutor and not yet all its users.
Suspending(t) ==
  \E r \in Requests :
    inside = r /\ job[r].op = "status" /\ job[r].at = "unassign" /\ job[r].tutor = t

RelationInv ==
  \A u \in Users, t \in Tutors : Assigned(u, t) =>
    /\ ApprovedOnce(t)
    /\ tutor[t] = None => t \in cut
    /\ Active(t) \/ t \in cut \/ Suspending(t)

\* A tutor found in the version in which it was loaded has the authVersion it had.
Tells(r) ==
  job[r].at = "saveTutor" =>
    /\ job[r].tutor \in used
    /\ tutor[job[r].tutor] # None =>
         /\ job[r].doc.version <= tutor[job[r].tutor].version
         /\ job[r].doc.version = tutor[job[r].tutor].version =>
              job[r].doc.auth = tutor[job[r].tutor].auth

AssignmentInv ==
  /\ TypeOK /\ ControlInv /\ UsedInv /\ RelationInv
  /\ \A r \in Requests : Known(r) /\ Tells(r)

-----------------------------------------------------------------------------
(* Requests and their steps *)

Steps == {"idle", "waiting", "check", "checkTutor", "findTutor", "findUser", "send",
          "saveTutor", "saveUser", "unassign", "deleteTutor", "deleteUser", "done", "failed"}

Task ==
  [op : {"none", "status", "deleteTutor", "assign", "staff", "list", "deleteUser",
         "ownTutor", "ownUser"},
   by : {"admin", "self"}, seen : Nat, tutor : Tutors \cup {None},
   user : Users \cup {None}, status : {"active", "suspended"}, secret : BOOLEAN,
   doc : TutorDocument \cup UserDocument \cup {None}, todo : SUBSET Users,
   at : Steps]

LEMMA JobsAreTasks == TypeOK <=>
  /\ tutor \in [Tutors -> TutorDocument \cup {None}]
  /\ user \in [Users -> UserDocument \cup {None}]
  /\ used \in SUBSET (Tutors \cup Users)
  /\ job \in [Requests -> Task]
  /\ inside \in Requests \cup {None}
  /\ crossed \in BOOLEAN
  /\ cut \in SUBSET Tutors
BY DEF TypeOK, Task, Steps

\* A request as it is submitted.
NewTask(what) ==
  /\ what \in Task
  /\ what.at \in {"waiting", "findTutor", "findUser"} /\ what.op # "none"
  /\ what.op \in {"ownTutor", "ownUser"} <=> what.at # "waiting"
  /\ what.at = "findTutor" => what.op = "ownTutor"
  /\ what.at = "findUser" => what.op = "ownUser"
  /\ what.op \in {"status", "deleteTutor", "ownTutor", "assign", "list"} => what.tutor \in Tutors
  /\ what.op \in {"assign", "staff", "deleteUser", "ownUser"} => what.user \in Users
  /\ what.op = "staff" /\ what.by = "self" => what.tutor \in Tutors

\* The tasks that are submitted are such.
LEMMA NewTasks ==
  /\ \A n \in Nat, t \in Tutors :
       NewTask(BySelf("deleteTutor", n, t, None)) /\ NewTask(BySelf("list", n, t, None))
  /\ \A n \in Nat, u \in Users : NewTask(BySelf("deleteUser", n, None, u))
  /\ \A n \in Nat, t \in Tutors, u \in Users :
       NewTask(BySelf("staff", n, t, u)) /\ NewTask(BySelf("assign", n, t, u))
  /\ \A t \in Tutors, u \in Users :
       /\ NewTask(ByAdmin("deleteTutor", t, None)) /\ NewTask(ByAdmin("deleteUser", None, u))
       /\ NewTask(ByAdmin("assign", t, u)) /\ NewTask(ByAdmin("staff", None, u))
  /\ \A t \in Tutors, status \in {"active", "suspended"} :
       NewTask([ByAdmin("status", t, None) EXCEPT !.status = status])
  /\ \A n \in Nat, secret \in BOOLEAN, t \in Tutors :
       NewTask([BySelf("ownTutor", n, t, None) EXCEPT !.secret = secret, !.at = "findTutor"])
  /\ \A n \in Nat, secret \in BOOLEAN, u \in Users :
       NewTask([BySelf("ownUser", n, None, u) EXCEPT !.secret = secret, !.at = "findUser"])
<1> DEFINE Ops == {"status", "deleteTutor", "assign", "staff", "list", "deleteUser", "ownTutor", "ownUser"}
<1>1. ASSUME NEW op \in Ops, NEW n \in Nat, NEW t \in Tutors \cup {None}, NEW u \in Users \cup {None}
      PROVE  /\ BySelf(op, n, t, u) \in Task
             /\ BySelf(op, n, t, u).op = op /\ BySelf(op, n, t, u).by = "self"
             /\ BySelf(op, n, t, u).tutor = t /\ BySelf(op, n, t, u).user = u
             /\ BySelf(op, n, t, u).at = "waiting"
  BY DEF Task, Steps, BySelf, Idle
<1>2. ASSUME NEW op \in Ops, NEW t \in Tutors \cup {None}, NEW u \in Users \cup {None}
      PROVE  /\ ByAdmin(op, t, u) \in Task
             /\ ByAdmin(op, t, u).op = op /\ ByAdmin(op, t, u).by = "admin"
             /\ ByAdmin(op, t, u).tutor = t /\ ByAdmin(op, t, u).user = u
             /\ ByAdmin(op, t, u).at = "waiting"
  BY DEF Task, Steps, ByAdmin, Idle
<1>3. ASSUME NEW t \in Tutors, NEW status \in {"active", "suspended"}
      PROVE  NewTask([ByAdmin("status", t, None) EXCEPT !.status = status])
  <2> DEFINE x == ByAdmin("status", t, None)
             y == [x EXCEPT !.status = status]
  <2>1. x \in Task /\ x.op = "status" /\ x.tutor = t /\ x.at = "waiting" BY <1>2
  <2> HIDE DEF x
  <2>2. y \in Task /\ y.op = "status" /\ y.tutor = t /\ y.at = "waiting" BY <2>1 DEF Task
  <2> QED BY <2>2 DEF NewTask, x
<1>4. ASSUME NEW n \in Nat, NEW secret \in BOOLEAN, NEW t \in Tutors
      PROVE  NewTask([BySelf("ownTutor", n, t, None) EXCEPT !.secret = secret, !.at = "findTutor"])
  <2> DEFINE x == BySelf("ownTutor", n, t, None)
             y == [x EXCEPT !.secret = secret, !.at = "findTutor"]
  <2>1. x \in Task /\ x.op = "ownTutor" /\ x.tutor = t BY <1>1
  <2> HIDE DEF x
  <2>2. y \in Task /\ y.op = "ownTutor" /\ y.tutor = t /\ y.at = "findTutor" BY <2>1 DEF Task, Steps
  <2> QED BY <2>2 DEF NewTask, x
<1>5. ASSUME NEW n \in Nat, NEW secret \in BOOLEAN, NEW u \in Users
      PROVE  NewTask([BySelf("ownUser", n, None, u) EXCEPT !.secret = secret, !.at = "findUser"])
  <2> DEFINE x == BySelf("ownUser", n, None, u)
             y == [x EXCEPT !.secret = secret, !.at = "findUser"]
  <2>1. x \in Task /\ x.op = "ownUser" /\ x.user = u BY <1>1
  <2> HIDE DEF x
  <2>2. y \in Task /\ y.op = "ownUser" /\ y.user = u /\ y.at = "findUser" BY <2>1 DEF Task, Steps
  <2> QED BY <2>2 DEF NewTask, x
<1>6. \A n \in Nat, t \in Tutors :
       NewTask(BySelf("deleteTutor", n, t, None)) /\ NewTask(BySelf("list", n, t, None))
  BY <1>1 DEF NewTask
<1>8. \A n \in Nat, u \in Users : NewTask(BySelf("deleteUser", n, None, u))
  BY <1>1 DEF NewTask
<1>9. \A n \in Nat, t \in Tutors, u \in Users :
       NewTask(BySelf("staff", n, t, u)) /\ NewTask(BySelf("assign", n, t, u))
  BY <1>1 DEF NewTask
<1>7. \A t \in Tutors, u \in Users :
       /\ NewTask(ByAdmin("deleteTutor", t, None)) /\ NewTask(ByAdmin("deleteUser", None, u))
       /\ NewTask(ByAdmin("assign", t, u)) /\ NewTask(ByAdmin("staff", None, u))
  BY <1>2 DEF NewTask
<1> QED BY <1>3, <1>4, <1>5, <1>6, <1>7, <1>8, <1>9

LEMMA Beginnings ==
  ASSUME TypeOK, NEW r \in Requests, Submit(r)
  PROVE  \E what : Begin(r, what) /\ NewTask(what)
<1>0. /\ \A t \in Tutors : tutor[t] # None => tutor[t].auth \in Nat
      /\ \A u \in Users : user[u] # None => user[u].auth \in Nat
  BY DEF TypeOK, TutorDocument, UserDocument
<1> SUFFICES ASSUME \A what : ~(Begin(r, what) /\ NewTask(what)) PROVE FALSE
  OBVIOUS
<1>4. ASSUME NEW t \in Tutors, SubmitOfTutor(r, t) PROVE FALSE
  BY <1>0, <1>4, NewTasks DEF SubmitOfTutor
<1>5. ASSUME NEW t \in Tutors, NEW status \in {"active", "suspended"}, SubmitStatus(r, t, status)
      PROVE FALSE
  BY <1>5, NewTasks DEF SubmitStatus
<1>6. ASSUME NEW u \in Users, SubmitOfUser(r, u) PROVE FALSE
  BY <1>0, <1>6, NewTasks DEF SubmitOfUser
<1>7. ASSUME NEW t \in Tutors, NEW u \in Users, SubmitOfAdmin(r, t, u) PROVE FALSE
  BY <1>7, NewTasks DEF SubmitOfAdmin
<1>8. ASSUME NEW secret \in BOOLEAN, SubmitOwn(r, secret) PROVE FALSE
  BY <1>0, <1>8, NewTasks DEF SubmitOwn
<1> QED BY <1>4, <1>5, <1>6, <1>7, <1>8 DEF Submit

\* What a request is about stays; the others stand still.
SameTask(r) ==
  /\ job'[r].op = job[r].op /\ job'[r].by = job[r].by /\ job'[r].seen = job[r].seen
  /\ job'[r].tutor = job[r].tutor /\ job'[r].user = job[r].user
  /\ job'[r].status = job[r].status /\ job'[r].secret = job[r].secret

OthersStand(r) == \A k \in Requests \ {r} : job'[k] = job[k]

LEMMA Going ==
  ASSUME TypeOK, NEW r \in Requests, NEW step \in Steps, Goto(r, step)
  PROVE  /\ job'[r].at = step /\ SameTask(r) /\ OthersStand(r)
         /\ job'[r].doc = job[r].doc /\ job'[r].todo = job[r].todo
         /\ job' \in [Requests -> Task]
<1>1. job \in [Requests -> Task] BY JobsAreTasks
<1>2. job' = [job EXCEPT ![r] = [job[r] EXCEPT !.at = step]] BY <1>1 DEF Goto
<1>3. job[r] \in Task BY <1>1
<1>4. [job[r] EXCEPT !.at = step] \in Task BY <1>3 DEF Task
<1>5. job'[r] = [job[r] EXCEPT !.at = step] BY <1>1, <1>2
<1>6. SameTask(r) /\ job'[r].at = step /\ job'[r].doc = job[r].doc /\ job'[r].todo = job[r].todo
  BY <1>3, <1>5 DEF Task, SameTask
<1>7. OthersStand(r) BY <1>1, <1>2 DEF OthersStand
<1>8. job' \in [Requests -> Task] BY <1>1, <1>2, <1>4
<1> QED BY <1>6, <1>7, <1>8

Loads(r, step, doc, todo) ==
  job' = [job EXCEPT ![r] = [job[r] EXCEPT !.doc = doc, !.at = step, !.todo = todo]]

LEMMA Loading ==
  ASSUME TypeOK, NEW r \in Requests, NEW step \in Steps,
         NEW doc \in TutorDocument \cup UserDocument \cup {None}, NEW todo \in SUBSET Users,
         Loads(r, step, doc, todo)
  PROVE  /\ job'[r].at = step /\ SameTask(r) /\ OthersStand(r)
         /\ job'[r].doc = doc /\ job'[r].todo = todo
         /\ job' \in [Requests -> Task]
<1>1. job \in [Requests -> Task] BY JobsAreTasks
<1> DEFINE new == [job[r] EXCEPT !.doc = doc, !.at = step, !.todo = todo]
<1>3. job[r] \in Task BY <1>1
<1>4. new \in Task BY <1>3 DEF Task
<1>5. job'[r] = new BY <1>1 DEF Loads
<1>6. /\ new.at = step /\ new.doc = doc /\ new.todo = todo
      /\ new.op = job[r].op /\ new.by = job[r].by /\ new.seen = job[r].seen
      /\ new.tutor = job[r].tutor /\ new.user = job[r].user
      /\ new.status = job[r].status /\ new.secret = job[r].secret
  BY <1>3 DEF Task
<1>7. OthersStand(r) BY <1>1 DEF OthersStand, Loads
<1>8. job' \in [Requests -> Task] BY <1>1, <1>4 DEF Loads
<1> HIDE DEF new
<1> QED BY <1>5, <1>6, <1>7, <1>8 DEF SameTask

LEMMA BeginningsChange ==
  ASSUME TypeOK, NEW r \in Requests, NEW what, Begin(r, what), NewTask(what)
  PROVE  job'[r] = what /\ OthersStand(r) /\ job' \in [Requests -> Task]
<1>1. job \in [Requests -> Task] BY JobsAreTasks
<1> QED BY <1>1 DEF Begin, NewTask, OthersStand

-----------------------------------------------------------------------------
(* Control: who holds the lock, and what each request is about *)

LEMMA ControlFrom ==
  ASSUME AssignmentAssumption, TypeOK, ControlInv, NEW r \in Requests,
         OthersStand(r), Fits(r)',
         \/ inside' = inside /\ (inside = r => Holds(r)')
         \/ Leave(r),
         Holds(r)' => inside' = r \/ job'[r].at \in Writes
  PROVE  ControlInv' /\ inside' \in Requests \cup {None}
<1>1. inside \in Requests \cup {None} BY DEF TypeOK
<1>2. None \notin Requests BY DEF AssignmentAssumption
<1>3. \A k \in Requests \ {r} : Fits(k)' BY DEF ControlInv, OthersStand, Fits, Own
<1>4. \A k \in Requests \ {r} : (Holds(k)' <=> Holds(k)) /\ job'[k].at = job[k].at
  BY DEF OthersStand, Holds, Own
<1>5. \A k \in Requests :
        /\ inside = k => Holds(k)
        /\ Holds(k) => inside = k \/ job[k].at \in Writes
  BY DEF ControlInv, LockHeld
<1>6. inside' \in Requests \cup {None} /\ (inside' = r => Holds(r)')
      /\ \A k \in Requests \ {r} : inside' = k <=> inside = k
  BY <1>1, <1>2 DEF Leave
<1>7. LockHeld' BY <1>4, <1>5, <1>6 DEF LockHeld
<1> QED BY <1>3, <1>6, <1>7 DEF ControlInv

\* A request that ends.
LEMMA Ends ==
  ASSUME AssignmentAssumption, TypeOK, ControlInv, NEW r \in Requests,
         NEW step \in {"done", "failed"}, job[r].at # "idle", Goto(r, step), Leave(r)
  PROVE  /\ ControlInv' /\ inside' \in Requests \cup {None}
         /\ job' \in [Requests -> Task] /\ job'[r].at = step /\ SameTask(r) /\ OthersStand(r)
<1>1. /\ job' \in [Requests -> Task] /\ job'[r].at = step /\ SameTask(r) /\ OthersStand(r)
  BY Going DEF Steps
<1>2. Fits(r) BY DEF ControlInv
<1>3. Fits(r)' BY <1>1, <1>2 DEF Fits, SameTask, Own
<1>4. ~Holds(r)' BY <1>1 DEF Holds, Locked, Writes
<1> QED BY <1>1, <1>3, <1>4, ControlFrom

\* A request that goes on.
LEMMA GoesOn ==
  ASSUME AssignmentAssumption, TypeOK, ControlInv, NEW r \in Requests,
         NEW step \in Locked, Goto(r, step), UNCHANGED inside, job[r].at \in Locked, ~GivenUp(r),
         step = "checkTutor" => job[r].op = "assign",
         step = "findTutor" => job[r].op \in {"status", "deleteTutor"},
         step = "findUser" => job[r].op \in {"assign", "staff", "deleteUser"},
         step = "send" => job[r].op = "list",
         step = "unassign" => job[r].op \in {"status", "deleteTutor"},
         step = "deleteTutor" => job[r].op = "deleteTutor",
         step \notin {"check", "saveTutor", "saveUser", "deleteUser"}
  PROVE  /\ ControlInv' /\ inside' \in Requests \cup {None}
         /\ job' \in [Requests -> Task] /\ job'[r].at = step /\ SameTask(r) /\ OthersStand(r)
         /\ job'[r].doc = job[r].doc /\ job'[r].todo = job[r].todo
<1>1. /\ job' \in [Requests -> Task] /\ job'[r].at = step /\ SameTask(r) /\ OthersStand(r)
      /\ job'[r].doc = job[r].doc /\ job'[r].todo = job[r].todo
  BY Going DEF Steps, Locked, Writes
<1>2. Fits(r) BY DEF ControlInv
<1>3. Fits(r)' BY <1>1, <1>2 DEF Fits, SameTask, Own, Locked, Writes
<1>4. Holds(r)' <=> Holds(r) BY <1>1 DEF Holds, SameTask, Own
<1>5. inside = r <=> Holds(r) BY DEF ControlInv, LockHeld, GivenUp, Holds
<1> QED BY <1>1, <1>3, <1>4, <1>5, ControlFrom

LEMMA ControlKept ==
  ASSUME AssignmentAssumption, TypeOK, ControlInv, NEW r \in Requests,
         Submit(r) \/ Step(r) \/ Failure(r)
  PROVE  /\ ControlInv' /\ inside' \in Requests \cup {None}
         /\ job' \in [Requests -> Task] /\ OthersStand(r)
<1>0. Fits(r) /\ job \in [Requests -> Task] BY JobsAreTasks DEF ControlInv
<1>1. CASE Submit(r)
  <2>1. PICK what : Begin(r, what) /\ NewTask(what) BY <1>1, Beginnings
  <2>2. job'[r] = what /\ OthersStand(r) /\ job' \in [Requests -> Task]
    BY <2>1, BeginningsChange
  <2>3. Fits(r)' BY <2>1, <2>2 DEF Fits, NewTask, Own
  <2>4. ~Holds(r) /\ ~Holds(r)' /\ inside' = inside
    BY <2>1, <2>2 DEF Holds, Begin, NewTask, Own, Locked, Writes, lock
  <2>5. inside # r BY <2>4 DEF ControlInv, LockHeld
  <2> QED BY <2>2, <2>3, <2>4, <2>5, ControlFrom
<1>2. CASE Enter(r)
  <2>1. /\ job' \in [Requests -> Task] /\ job'[r].at = "check" /\ SameTask(r) /\ OthersStand(r)
    BY <1>2, Going DEF Enter, Steps
  <2>2. Fits(r)' BY <1>0, <1>2, <2>1 DEF Fits, SameTask, Own, Enter
  <2>3. \A k \in Requests : Holds(k) => job[k].at \in Writes
    BY <1>2 DEF Enter, ControlInv, LockHeld, AssignmentAssumption
  <2>4. \A k \in Requests \ {r} : Fits(k)' /\ (Holds(k)' => job'[k].at \in Writes)
    BY <2>1, <2>3 DEF ControlInv, OthersStand, Fits, Holds, Own
  <2>5. Holds(r)' BY <1>0, <1>2, <2>1 DEF Fits, SameTask, Own, Holds, Locked, Enter
  <2>6. inside' = r BY <1>2 DEF Enter
  <2>7. LockHeld' BY <2>4, <2>5, <2>6 DEF LockHeld
  <2> QED BY <2>1, <2>2, <2>4, <2>6, <2>7 DEF ControlInv
<1>3. CASE Check(r)
  <2>1. job[r].op \in {"status", "deleteTutor", "assign", "list", "staff", "deleteUser"}
    BY <1>0, <1>3 DEF Fits, Check, Own, Task
  <2>2. /\ Checked(r) \in Locked \ {"check", "saveTutor", "saveUser", "deleteUser", "unassign", "deleteTutor"}
        /\ Checked(r) = "checkTutor" => job[r].op = "assign"
        /\ Checked(r) = "findTutor" => job[r].op \in {"status", "deleteTutor"}
        /\ Checked(r) = "findUser" => job[r].op \in {"assign", "staff", "deleteUser"}
        /\ Checked(r) = "send" => job[r].op = "list"
    BY <2>1 DEF Checked, Locked, Writes
  <2>3. job[r].at \in Locked /\ ~GivenUp(r) /\ Goto(r, Checked(r)) /\ UNCHANGED inside
    BY <1>3 DEF Check, Locked, Writes, GivenUp, lock
  <2> QED BY <2>2, <2>3, GoesOn
<1>4. CASE CheckTutor(r)
  <2>1. job[r].at = "checkTutor" /\ ~GivenUp(r) /\ Goto(r, "findUser") /\ UNCHANGED inside
    BY <1>4 DEF CheckTutor, GivenUp, Writes, lock
  <2>2. job[r].op = "assign" BY <1>0, <2>1 DEF Fits
  <2> QED BY <2>1, <2>2, GoesOn DEF Locked, Writes
<1>5. CASE FindTutor(r)
  <2>1. job[r].at = "findTutor" /\ job[r].tutor \in Tutors
    BY <1>0, <1>5 DEF FindTutor, Fits
  <2>2. CASE Answer(r) BY <2>1, <2>2, Ends DEF Answer
  <2>3. CASE ~Answer(r)
    <3> DEFINE step == IF job[r].op = "deleteTutor" THEN "unassign" ELSE "saveTutor"
    <3>1. tutor[job[r].tutor] \in TutorDocument
      BY <1>5, <2>1 DEF FindTutor, TypeOK
    <3>2. Loads(r, step, tutor[job[r].tutor], Users) /\ inside' = inside
      BY <1>0, <1>5, <2>3 DEF FindTutor, Loads, lock
    <3>3. step \in Steps BY DEF Steps
    <3>4. /\ job'[r].at = step /\ SameTask(r) /\ OthersStand(r) /\ job' \in [Requests -> Task]
          /\ job'[r].doc = tutor[job[r].tutor] /\ job'[r].todo = Users
      BY <3>1, <3>2, <3>3, Loading
    <3>5. Fits(r)' BY <1>0, <2>1, <3>1, <3>4 DEF Fits, SameTask, Own
    <3>6. (Holds(r)' <=> Holds(r)) /\ job'[r].at \in Writes
      BY <2>1, <3>4 DEF Holds, SameTask, Own, Locked, Writes
    <3>7. inside = r => Holds(r) BY DEF ControlInv, LockHeld
    <3> QED BY <3>2, <3>4, <3>5, <3>6, <3>7, ControlFrom
  <2> QED BY <2>2, <2>3
<1>6. CASE FindUser(r)
  <2> DEFINE step == IF job[r].op = "deleteUser" THEN "deleteUser" ELSE "saveUser"
  <2>1. job[r].at = "findUser" /\ job[r].user \in Users /\ inside' = inside
    BY <1>0, <1>6 DEF FindUser, Fits, lock
  <2>2. user[job[r].user] \in UserDocument BY <1>6, <2>1 DEF FindUser, TypeOK
  <2>3. Loads(r, step, user[job[r].user], job[r].todo)
    BY <1>0, <1>6 DEF FindUser, Task, Loads
  <2>4. step \in Steps /\ job[r].todo \in SUBSET Users BY <1>0 DEF Steps, Task
  <2>5. /\ job'[r].at = step /\ SameTask(r) /\ OthersStand(r) /\ job' \in [Requests -> Task]
        /\ job'[r].doc = user[job[r].user]
    BY <2>2, <2>3, <2>4, Loading
  <2>6. Fits(r)' BY <1>0, <2>1, <2>2, <2>5 DEF Fits, SameTask, Own
  <2>7. (Holds(r)' <=> Holds(r)) /\ job'[r].at \in Writes
    BY <2>1, <2>5 DEF Holds, SameTask, Own, Locked, Writes
  <2>8. inside = r => Holds(r) BY DEF ControlInv, LockHeld
  <2> QED BY <2>1, <2>5, <2>6, <2>7, <2>8, ControlFrom
<1>7. CASE Send(r) \/ DeleteTutor(r) \/ DeleteUser(r) \/ SaveUser(r)
  BY <1>7, Ends DEF Send, DeleteTutor, DeleteUser, SaveUser, Answer, Due
<1>8. CASE SaveTutor(r)
  <2>1. job[r].at = "saveTutor" /\ ~GivenUp(r) /\ Goto(r, AfterStatus(r)) BY <1>8 DEF SaveTutor, Due
  <2>2. CASE AfterStatus(r) = "done"
    BY <1>8, <2>1, <2>2, Ends DEF SaveTutor
  <2>3. CASE AfterStatus(r) # "done"
    <3>1. AfterStatus(r) = "unassign" /\ job[r].op = "status" /\ UNCHANGED inside
      BY <1>8, <2>3 DEF SaveTutor, AfterStatus, lock
    <3> QED BY <2>1, <3>1, GoesOn DEF Locked, Writes
  <2> QED BY <2>2, <2>3
<1>9. CASE Unassigned(r)
  <2>1. job[r].at = "unassign" /\ ~GivenUp(r) BY <1>9 DEF Unassigned, Due
  <2>2. CASE job[r].op = "status" BY <1>9, <2>1, <2>2, Ends DEF Unassigned, Answer
  <2>3. CASE job[r].op # "status"
    <3>1. job[r].op = "deleteTutor" BY <1>0, <2>1, <2>3 DEF Fits
    <3>2. Goto(r, "deleteTutor") /\ UNCHANGED inside BY <1>9, <2>3 DEF Unassigned, lock
    <3> QED BY <2>1, <3>1, <3>2, GoesOn DEF Locked, Writes
  <2> QED BY <2>2, <2>3
<1>10. ASSUME NEW u \in Users, job[r].at = "unassign", Visit(r, u), UNCHANGED inside
       PROVE  /\ ControlInv' /\ inside' \in Requests \cup {None}
              /\ job' \in [Requests -> Task] /\ OthersStand(r)
  <2>1. Loads(r, job[r].at, job[r].doc, job[r].todo \ {u})
    BY <1>0, <1>10 DEF Visit, Task, Loads
  <2>2. job[r].at \in Steps /\ job[r].todo \ {u} \in SUBSET Users
        /\ job[r].doc \in TutorDocument \cup UserDocument \cup {None}
    BY <1>0 DEF Task
  <2>3. /\ job'[r].at = job[r].at /\ SameTask(r) /\ OthersStand(r) /\ job' \in [Requests -> Task]
    BY <2>1, <2>2, Loading
  <2>4. Fits(r)' BY <1>0, <1>10, <2>3 DEF Fits, SameTask, Own
  <2>5. (Holds(r)' <=> Holds(r)) /\ job'[r].at \in Writes
    BY <1>10, <2>3 DEF Holds, SameTask, Own, Writes
  <2>6. inside = r => Holds(r) BY DEF ControlInv, LockHeld
  <2> QED BY <1>10, <2>3, <2>4, <2>5, <2>6, ControlFrom
<1>11. CASE \E u \in Users : Unassign(r, u) \/ LateUnassign(r, u)
  BY <1>10, <1>11 DEF Unassign, LateUnassign, HappensLate, Due, lock
<1>12. CASE Fail(r)
  BY <1>12, Ends DEF Fail
<1>13. CASE TimeOut(r)
  <2>1. job' = job /\ Leave(r) /\ job[r].at \in Writes BY <1>13 DEF TimeOut
  <2>2. OthersStand(r) /\ Fits(r)' BY <1>0, <2>1 DEF OthersStand, Fits, Own
  <2> QED BY <1>0, <2>1, <2>2, ControlFrom
<1>14. CASE LateTutor(r) \/ LateUser(r) \/ LateDeletion(r)
  <2>1. Goto(r, "failed") /\ GivenUp(r) /\ inside' = inside
    BY <1>14 DEF LateTutor, LateUser, LateDeletion, HappensLate
  <2>3. job'[r].at = "failed" /\ SameTask(r) /\ OthersStand(r) /\ job' \in [Requests -> Task]
    BY <2>1, Going DEF Steps
  <2>4. Fits(r)' BY <1>0, <2>1, <2>3 DEF Fits, SameTask, Own, GivenUp, Writes
  <2>5. ~Holds(r)' BY <2>3 DEF Holds, Locked, Writes
  <2> QED BY <2>1, <2>3, <2>4, <2>5, ControlFrom DEF GivenUp
<1> QED BY <1>1, <1>2, <1>3, <1>4, <1>5, <1>6, <1>7, <1>8, <1>9, <1>11, <1>12, <1>13, <1>14 DEF Step, Failure

-----------------------------------------------------------------------------
(* Documents: what a step makes of them *)

\* Versions rise with every save, and a deleted tutor is gone for good.
TutorsGrow ==
  \A t \in Tutors :
    /\ tutor[t] # None /\ tutor'[t] # None =>
         tutor'[t] = tutor[t] \/ tutor'[t].version > tutor[t].version
    /\ t \in used /\ tutor[t] = None => tutor'[t] = None

DataTyped ==
  /\ tutor \in [Tutors -> TutorDocument \cup {None}]
  /\ user \in [Users -> UserDocument \cup {None}]
  /\ used \in SUBSET (Tutors \cup Users)
  /\ cut \in SUBSET Tutors

\* The saves, at their time or after they were given up.
StoresTutor(r) ==
  /\ job[r].at = "saveTutor" /\ FreshTutor(r)
  /\ tutor' = [tutor EXCEPT ![job[r].tutor] = SavedTutor(r)]

StoresUser(r) ==
  /\ job[r].at = "saveUser"
  /\ \/ user' = user
     \/ FreshUser(r) /\ user' = [user EXCEPT ![job[r].user] = SavedUser(r)]

LEMMA Stores ==
  ASSUME NEW r \in Requests
  PROVE  /\ SaveTutor(r) \/ LateTutor(r) => StoresTutor(r) /\ UNCHANGED <<user, used>>
         /\ SaveUser(r) \/ LateUser(r) => StoresUser(r) /\ UNCHANGED <<tutor, used>>
BY DEF SaveTutor, LateTutor, SaveUser, LateUser, StoresTutor, StoresUser, HappensLate, Due

LEMMA TutorSaved ==
  ASSUME TypeOK, ControlInv, NEW r \in Requests, StoresTutor(r)
  PROVE  /\ job[r].tutor \in Tutors /\ tutor[job[r].tutor] # None
         /\ SavedTutor(r) \in TutorDocument
         /\ SavedTutor(r).version > tutor[job[r].tutor].version
         /\ tutor' = [tutor EXCEPT ![job[r].tutor] = SavedTutor(r)]
         /\ SavedTutor(r).status =
              IF job[r].op = "status" THEN job[r].status ELSE tutor[job[r].tutor].status
         /\ SavedTutor(r).auth = IF job[r].op = "status" \/ job[r].secret
                                 THEN job[r].doc.auth + 1 ELSE tutor[job[r].tutor].auth
<1>1. /\ job[r].op \in {"status", "ownTutor"} /\ job[r].doc \in TutorDocument
      /\ job[r].tutor \in Tutors
  BY DEF StoresTutor, ControlInv, Fits
<1>2. tutor[job[r].tutor] # None /\ tutor[job[r].tutor] \in TutorDocument
  BY <1>1 DEF StoresTutor, FreshTutor, TypeOK
<1>3. job[r].status \in {"active", "suspended"}
  <2>1. job[r] \in Task BY JobsAreTasks
  <2> QED BY <2>1 DEF Task
<1>4. job[r].doc.auth + 1 \in Nat BY <1>1 DEF TutorDocument
<1>5. /\ tutor[job[r].tutor].status \in {"pending", "active", "suspended"}
      /\ tutor[job[r].tutor].auth \in Nat /\ tutor[job[r].tutor].version \in Nat
  BY <1>2 DEF TutorDocument
<1>6. SavedTutor(r) \in TutorDocument /\ SavedTutor(r).version > tutor[job[r].tutor].version
  BY <1>3, <1>4, <1>5 DEF SavedTutor, TutorDocument
<1> QED BY <1>1, <1>2, <1>6 DEF StoresTutor, SavedTutor

LEMMA UserSaved ==
  ASSUME TypeOK, ControlInv, NEW r \in Requests, StoresUser(r)
  PROVE  /\ job[r].user \in Users
         /\ \/ user' = user
            \/ /\ user[job[r].user] # None /\ SavedUser(r) \in UserDocument
               /\ user' = [user EXCEPT ![job[r].user] = SavedUser(r)]
               /\ SavedUser(r).tutor =
                    IF job[r].op = "assign" THEN job[r].tutor ELSE user[job[r].user].tutor
<1>1. /\ job[r].op \in {"assign", "staff", "ownUser"} /\ job[r].doc \in UserDocument
      /\ job[r].user \in Users
      /\ job[r].op = "assign" => job[r].tutor \in Tutors
  BY DEF StoresUser, ControlInv, Fits
<1>2. CASE UNCHANGED user BY <1>1, <1>2
<1>3. CASE FreshUser(r) /\ user' = [user EXCEPT ![job[r].user] = SavedUser(r)]
  <2>1. user[job[r].user] # None /\ user[job[r].user] \in UserDocument
    BY <1>1, <1>3 DEF FreshUser, TypeOK
  <2>2. job[r].doc.auth + 1 \in Nat BY <1>1 DEF UserDocument
  <2>3. /\ user[job[r].user].tutor \in Tutors \cup {None}
        /\ user[job[r].user].auth \in Nat /\ user[job[r].user].version \in Nat
    BY <2>1 DEF UserDocument
  <2>4. SavedUser(r) \in UserDocument BY <1>1, <2>2, <2>3 DEF SavedUser, UserDocument
  <2> QED BY <1>1, <1>3, <2>1, <2>4 DEF SavedUser
<1> QED BY <1>2, <1>3 DEF StoresUser

LEMMA UserUnassigned ==
  ASSUME AssignmentAssumption, TypeOK, ControlInv, NEW r \in Requests, NEW u \in Users,
         job[r].at = "unassign", Visit(r, u)
  PROVE  /\ user' \in [Users -> UserDocument \cup {None}]
         /\ \A v \in Users : user'[v] # None <=> user[v] # None
         /\ \A v \in Users : user'[v] = user[v] \/ (v = u /\ user'[v].tutor = None)
         /\ user'[u] # None => user'[u].tutor # job[r].tutor
<1>1. job[r].tutor \in Tutors
  BY DEF ControlInv, Fits
<1>2. user \in [Users -> UserDocument \cup {None}]
  BY DEF TypeOK
<1>3. CASE Assigned(u, job[r].tutor)
  <2>1. user[u] # None BY <1>3 DEF Assigned
  <2>2. user[u] \in UserDocument BY <1>2, <2>1
  <2> DEFINE new == [user[u] EXCEPT !.tutor = None]
  <2>3. user' = [user EXCEPT ![u] = new]
    BY <1>2, <1>3 DEF Visit
  <2>4. new \in UserDocument /\ new.tutor = None BY <2>2 DEF UserDocument
  <2> HIDE DEF new
  <2>5. user' \in [Users -> UserDocument \cup {None}] /\ user'[u] = new
        /\ \A v \in Users \ {u} : user'[v] = user[v]
    BY <1>2, <2>3, <2>4
  <2>6. new # None /\ None # job[r].tutor BY <1>1, <2>4 DEF AssignmentAssumption
  <2> QED BY <2>1, <2>4, <2>5, <2>6
<1>4. CASE ~Assigned(u, job[r].tutor)
  BY <1>2, <1>4 DEF Visit, Assigned
<1> QED BY <1>3, <1>4

LEMMA DataKept ==
  ASSUME AssignmentAssumption, TypeOK, ControlInv, UsedInv, NEW r \in Requests,
         Submit(r) \/ Step(r) \/ Failure(r)
  PROVE  DataTyped' /\ UsedInv' /\ TutorsGrow /\ used' = used
<1>0. /\ DataTyped
      /\ None \notin TutorDocument /\ None \notin UserDocument
      /\ Fits(r)
  BY DEF TypeOK, DataTyped, AssignmentAssumption, ControlInv
<1>1. CASE UNCHANGED <<tutor, user, used>> /\ cut' \in SUBSET Tutors
  BY <1>0, <1>1 DEF DataTyped, UsedInv, TutorsGrow
<1>2. CASE Submit(r)
  <2>1. PICK what : Begin(r, what) BY <1>2, Beginnings
  <2> QED BY <1>0, <1>1, <2>1 DEF Begin, DataTyped
<1>3. CASE Enter(r) \/ Check(r) \/ CheckTutor(r) \/ FindTutor(r) \/ FindUser(r) \/ Send(r)
  BY <1>0, <1>1, <1>3 DEF Enter, Check, CheckTutor, FindTutor, FindUser, Send, DataTyped
<1>4. CASE SaveTutor(r) \/ LateTutor(r)
  <2> DEFINE t == job[r].tutor
  <2>1. StoresTutor(r) /\ UNCHANGED <<user, used>> BY <1>4, Stores
  <2>2. /\ t \in Tutors /\ tutor[t] # None
        /\ SavedTutor(r) \in TutorDocument
        /\ SavedTutor(r).version > tutor[t].version
        /\ tutor' = [tutor EXCEPT ![t] = SavedTutor(r)]
    BY <2>1, TutorSaved
  <2>3. cut' \in SUBSET Tutors BY <1>0, <1>4, <2>2 DEF SaveTutor, LateTutor, DataTyped
  <2> QED BY <1>0, <2>1, <2>2, <2>3 DEF DataTyped, UsedInv, TutorsGrow
<1>5. CASE SaveUser(r) \/ LateUser(r)
  <2> DEFINE u == job[r].user
  <2>1. StoresUser(r) /\ UNCHANGED <<tutor, used>> BY <1>5, Stores
  <2>2. /\ u \in Users
        /\ user' = user \/ (user[u] # None /\ SavedUser(r) \in UserDocument
                             /\ user' = [user EXCEPT ![u] = SavedUser(r)])
    BY <2>1, UserSaved
  <2>3. job[r].op = "assign" => job[r].tutor \in Tutors BY <1>0 DEF Fits
  <2>4. cut' \in SUBSET Tutors BY <1>0, <1>5, <2>3 DEF SaveUser, LateUser, DataTyped
  <2> QED BY <1>0, <2>1, <2>2, <2>4 DEF DataTyped, UsedInv, TutorsGrow
<1>6. CASE \E u \in Users : Unassign(r, u) \/ LateUnassign(r, u)
  <2>1. PICK u \in Users : Visit(r, u) /\ job[r].at = "unassign"
    BY <1>6 DEF Unassign, LateUnassign, Due
  <2>2. /\ user' \in [Users -> UserDocument \cup {None}]
        /\ \A v \in Users : user'[v] # None <=> user[v] # None
    BY <2>1, UserUnassigned
  <2>3. UNCHANGED <<tutor, used, cut>> BY <2>1 DEF Visit
  <2> QED BY <1>0, <2>2, <2>3 DEF DataTyped, UsedInv, TutorsGrow
<1>7. CASE Unassigned(r)
  BY <1>0, <1>1, <1>7 DEF Unassigned, DataTyped
<1>8. CASE DeleteTutor(r) \/ (LateDeletion(r) /\ job[r].at = "deleteTutor")
  <2>1. /\ job[r].at = "deleteTutor" /\ UNCHANGED <<user, used>>
        /\ tutor' = [tutor EXCEPT ![job[r].tutor] = None]
        /\ cut' \in {cut, cut \cup {job[r].tutor}}
    BY <1>8 DEF DeleteTutor, LateDeletion, HappensLate, Due
  <2>2. job[r].tutor \in Tutors BY <1>0, <2>1 DEF Fits
  <2> QED BY <1>0, <2>1, <2>2 DEF DataTyped, UsedInv, TutorsGrow
<1>9. CASE DeleteUser(r) \/ (LateDeletion(r) /\ job[r].at # "deleteTutor")
  <2>1. /\ job[r].at = "deleteUser" /\ UNCHANGED <<tutor, used, cut>>
        /\ user' = [user EXCEPT ![job[r].user] = None]
    BY <1>9 DEF DeleteUser, LateDeletion, HappensLate, Due
  <2>2. job[r].user \in Users BY <1>0, <2>1 DEF Fits
  <2> QED BY <1>0, <2>1, <2>2 DEF DataTyped, UsedInv, TutorsGrow
<1>10. CASE Fail(r) \/ TimeOut(r)
  <2>1. job[r].at = "unassign" => job[r].tutor \in Tutors BY <1>0 DEF Fits
  <2>2. cut' \in SUBSET Tutors BY <1>0, <1>10, <2>1 DEF Fail, TimeOut, Due, DataTyped
  <2> QED BY <1>1, <1>10, <2>2 DEF Fail, TimeOut
<1> QED BY <1>2, <1>3, <1>4, <1>5, <1>6, <1>7, <1>8, <1>9, <1>10 DEF Step, Failure

LEMMA SignUpKeepsData ==
  ASSUME AssignmentAssumption, TypeOK, UsedInv,
         (\E t \in Tutors : SignUpTutor(t)) \/ (\E u \in Users : SignUpUser(u))
  PROVE  DataTyped' /\ UsedInv' /\ TutorsGrow /\ used \subseteq used'
<1>1. DataTyped BY DEF TypeOK, DataTyped
<1>2. ASSUME NEW t \in Tutors, SignUpTutor(t) PROVE DataTyped' /\ UsedInv' /\ TutorsGrow /\ used \subseteq used'
  <2> DEFINE new == [status |-> "pending", auth |-> 0, version |-> 0]
  <2>1. new \in TutorDocument BY DEF TutorDocument
  <2>2. t \notin used /\ used' = used \cup {t} /\ tutor' = [tutor EXCEPT ![t] = new]
        /\ UNCHANGED <<user, cut>>
    BY <1>2 DEF SignUpTutor
  <2> HIDE DEF new
  <2> QED BY <1>1, <2>1, <2>2 DEF DataTyped, UsedInv, TutorsGrow
<1>3. ASSUME NEW u \in Users, SignUpUser(u) PROVE DataTyped' /\ UsedInv' /\ TutorsGrow /\ used \subseteq used'
  <2> DEFINE new == [tutor |-> None, auth |-> 0, version |-> 0]
  <2>1. new \in UserDocument BY DEF UserDocument
  <2>2. u \notin used /\ used' = used \cup {u} /\ user' = [user EXCEPT ![u] = new]
        /\ UNCHANGED <<tutor, cut>>
    BY <1>3 DEF SignUpUser
  <2> HIDE DEF new
  <2>3. TutorsGrow /\ UsedInv' BY <1>1, <2>1, <2>2 DEF DataTyped, UsedInv, TutorsGrow
  <2> QED BY <1>1, <2>1, <2>2, <2>3 DEF DataTyped
<1> QED BY <1>2, <1>3

-----------------------------------------------------------------------------
(* What a request loaded *)

LEMMA TellsStands ==
  ASSUME TypeOK, NEW k \in Requests, Fits(k), Tells(k), job'[k] = job[k],
         TutorsGrow, DataTyped', used \subseteq used'
  PROVE  Tells(k)'
<1> SUFFICES ASSUME job[k].at = "saveTutor" PROVE Tells(k)'
  BY DEF Tells
<1> DEFINE t == job[k].tutor
<1>1. t \in Tutors /\ job[k].doc \in TutorDocument /\ t \in used BY DEF Fits, Tells
<1>2. t \in used' BY <1>1
<1>3. ASSUME tutor'[t] # None
      PROVE  /\ job[k].doc.version <= tutor'[t].version
             /\ job[k].doc.version = tutor'[t].version => job[k].doc.auth = tutor'[t].auth
  <2>1. tutor[t] # None BY <1>1, <1>3 DEF TutorsGrow
  <2>2. /\ tutor[t] \in TutorDocument /\ tutor'[t] \in TutorDocument
    BY <1>1, <1>3, <2>1 DEF TypeOK, DataTyped
  <2>3. /\ job[k].doc.version <= tutor[t].version
        /\ job[k].doc.version = tutor[t].version => job[k].doc.auth = tutor[t].auth
    BY <2>1 DEF Tells
  <2>4. tutor'[t] = tutor[t] \/ tutor'[t].version > tutor[t].version
    BY <1>1, <1>3, <2>1 DEF TutorsGrow
  <2>5. /\ job[k].doc.version \in Nat /\ tutor[t].version \in Nat /\ tutor'[t].version \in Nat
    BY <1>1, <2>2 DEF TutorDocument
  <2> QED BY <2>3, <2>4, <2>5
<1> QED BY <1>1, <1>2, <1>3 DEF Tells

LEMMA TellsKept ==
  ASSUME AssignmentAssumption, AssignmentInv, NEW r \in Requests,
         Submit(r) \/ Step(r) \/ Failure(r)
  PROVE  \A k \in Requests : Tells(k)'
<1>0. /\ TypeOK /\ ControlInv /\ UsedInv /\ \A k \in Requests : Fits(k) /\ Tells(k)
  BY DEF AssignmentInv, ControlInv
<1>1. OthersStand(r) /\ job' \in [Requests -> Task] BY <1>0, ControlKept
<1>2. DataTyped' /\ TutorsGrow /\ used' = used BY <1>0, DataKept
<1>3. \A k \in Requests \ {r} : Tells(k)'
  BY <1>0, <1>1, <1>2, TellsStands DEF OthersStand
<1>7. CASE TimeOut(r)
  <2>1. job' = job BY <1>7 DEF TimeOut
  <2> QED BY <1>0, <1>2, <2>1, TellsStands
<1>4. CASE FindTutor(r) /\ ~Answer(r) /\ job[r].op # "deleteTutor"
  <2>1. /\ tutor' = tutor /\ job[r].tutor \in Tutors /\ tutor[job[r].tutor] # None
    BY <1>0, <1>4 DEF FindTutor, Fits
  <2>2. Loads(r, "saveTutor", tutor[job[r].tutor], Users)
    <3>1. job \in [Requests -> Task] BY <1>0, JobsAreTasks
    <3> QED BY <1>4, <3>1 DEF FindTutor, Loads
  <2>3. tutor[job[r].tutor] \in TutorDocument /\ job[r].tutor \in used
    BY <1>0, <2>1 DEF TypeOK, UsedInv
  <2>4. job'[r].doc = tutor[job[r].tutor] /\ SameTask(r)
    BY <1>0, <2>2, <2>3, Loading DEF Steps
  <2>5. tutor[job[r].tutor].version \in Nat BY <2>3 DEF TutorDocument
  <2>6. Tells(r)' BY <1>2, <2>1, <2>3, <2>4, <2>5 DEF Tells, SameTask
  <2> QED BY <1>3, <2>6
<1>5. ASSUME ~(FindTutor(r) /\ ~Answer(r) /\ job[r].op # "deleteTutor"), ~TimeOut(r)
      PROVE  job'[r].at # "saveTutor"
  <2>1. CASE Submit(r)
    <3>1. PICK what : Begin(r, what) /\ NewTask(what) BY <1>0, <2>1, Beginnings
    <3>2. job'[r] = what BY <1>0, <3>1, BeginningsChange
    <3> QED BY <3>1, <3>2 DEF NewTask
  <2>2. ASSUME NEW step \in Steps \ {"saveTutor"}, Goto(r, step) PROVE job'[r].at # "saveTutor"
    BY <1>0, <2>2, Going
  <2>3. CASE Enter(r) \/ CheckTutor(r) \/ Send(r) \/ DeleteTutor(r) \/ DeleteUser(r)
             \/ SaveUser(r) \/ Unassigned(r) \/ Fail(r)
             \/ LateTutor(r) \/ LateUser(r) \/ LateDeletion(r)
    BY <2>2, <2>3 DEF Enter, CheckTutor, Send, DeleteTutor, DeleteUser, SaveUser, Unassigned,
                      Fail, LateTutor, LateUser, LateDeletion, Answer, Steps
  <2>4. CASE Check(r)
    <3>1. job[r].op \in {"status", "deleteTutor", "assign", "list", "staff", "deleteUser"}
      <4>1. job[r] \in Task BY <1>0, JobsAreTasks
      <4> QED BY <1>0, <2>4, <4>1 DEF Fits, Check, Own, Task
    <3>2. Checked(r) \in Steps \ {"saveTutor"} BY <3>1 DEF Checked, Steps
    <3> QED BY <2>2, <2>4, <3>2 DEF Check
  <2>5. CASE SaveTutor(r)
    <3>1. AfterStatus(r) \in Steps \ {"saveTutor"} BY DEF AfterStatus, Steps
    <3> QED BY <2>2, <2>5, <3>1 DEF SaveTutor
  <2>6. job \in [Requests -> Task] BY <1>0, JobsAreTasks
  <2>7. CASE FindTutor(r)
    <3>1. CASE Answer(r) BY <2>2, <3>1 DEF Answer, Steps
    <3>2. CASE ~Answer(r)
      <4>1. job[r].op = "deleteTutor" BY <1>5, <2>7, <3>2
      <4> QED BY <2>6, <2>7, <3>2, <4>1 DEF FindTutor, Task
    <3> QED BY <3>1, <3>2
  <2>8. CASE FindUser(r)
    BY <2>6, <2>8 DEF FindUser, Task
  <2>9. CASE \E u \in Users : Unassign(r, u) \/ LateUnassign(r, u)
    BY <2>6, <2>9 DEF Unassign, LateUnassign, Visit, Due, Task
  <2> QED BY <1>5, <2>1, <2>3, <2>4, <2>5, <2>7, <2>8, <2>9 DEF Step, Failure
<1>6. CASE ~(FindTutor(r) /\ ~Answer(r) /\ job[r].op # "deleteTutor") /\ ~TimeOut(r)
  BY <1>3, <1>5, <1>6 DEF Tells
<1> QED BY <1>4, <1>6, <1>7

-----------------------------------------------------------------------------
(* What the steps of a request do to tutors, to users and to `cut` *)

LEMMA TutorMoves ==
  ASSUME AssignmentAssumption, TypeOK, ControlInv, NEW r \in Requests,
         Submit(r) \/ Step(r) \/ Failure(r),
         NEW t \in Tutors, tutor'[t] # tutor[t]
  PROVE  /\ job[r].tutor = t /\ user' = user
         /\ \/ /\ SaveTutor(r) \/ LateTutor(r)
               /\ tutor[t] # None /\ tutor'[t] = SavedTutor(r) /\ SavedTutor(r) \in TutorDocument
               /\ tutor'[t].status =
                    IF job[r].op = "status" THEN job[r].status ELSE tutor[t].status
            \/ /\ DeleteTutor(r) \/ LateDeletion(r)
               /\ job[r].at = "deleteTutor" /\ tutor'[t] = None
<1>0. tutor \in [Tutors -> TutorDocument \cup {None}] BY DEF TypeOK
<1>1. tutor' # tutor OBVIOUS
<1>2. ~Submit(r)
  <2>1. SUFFICES ASSUME Submit(r) PROVE FALSE OBVIOUS
  <2>2. PICK what : Begin(r, what) BY <2>1, Beginnings
  <2> QED BY <1>1, <2>2 DEF Begin
<1>3. SaveTutor(r) \/ LateTutor(r) \/ DeleteTutor(r) \/ (LateDeletion(r) /\ job[r].at = "deleteTutor")
  BY <1>1, <1>2 DEF Step, Failure, Enter, Check, CheckTutor, FindTutor, FindUser, Send, SaveUser,
     Unassigned, DeleteUser, Unassign, Visit, Fail, TimeOut, LateUser, LateUnassign, LateDeletion
<1>4. CASE SaveTutor(r) \/ LateTutor(r)
  <2>1. StoresTutor(r) /\ user' = user BY <1>4, Stores
  <2>2. /\ tutor[job[r].tutor] # None /\ SavedTutor(r) \in TutorDocument
        /\ tutor' = [tutor EXCEPT ![job[r].tutor] = SavedTutor(r)]
        /\ SavedTutor(r).status =
             IF job[r].op = "status" THEN job[r].status ELSE tutor[job[r].tutor].status
    BY <2>1, TutorSaved
  <2>3. job[r].tutor = t BY <1>0, <2>2
  <2>4. tutor'[t] = SavedTutor(r) BY <1>0, <2>2, <2>3
  <2> QED BY <1>4, <2>1, <2>2, <2>3, <2>4
<1>5. CASE DeleteTutor(r) \/ (LateDeletion(r) /\ job[r].at = "deleteTutor")
  <2>1. /\ tutor' = [tutor EXCEPT ![job[r].tutor] = None] /\ user' = user
        /\ job[r].at = "deleteTutor"
    BY <1>5 DEF DeleteTutor, LateDeletion, Due
  <2> QED BY <1>0, <1>5, <2>1
<1> QED BY <1>3, <1>4, <1>5

\* A user gets a tutor by an assignment alone.
LEMMA UserMoves ==
  ASSUME AssignmentAssumption, TypeOK, ControlInv, NEW r \in Requests,
         Submit(r) \/ Step(r) \/ Failure(r),
         NEW u \in Users, NEW t \in Tutors, Assigned(u, t)', ~Assigned(u, t)
  PROVE  /\ SaveUser(r) \/ LateUser(r)
         /\ job[r].op = "assign" /\ job[r].at = "saveUser" /\ job[r].tutor = t
         /\ tutor' = tutor
<1>0. user \in [Users -> UserDocument \cup {None}] /\ None \notin Tutors
  BY DEF TypeOK, AssignmentAssumption
<1>1. user'[u] # user[u] /\ user' # user BY DEF Assigned
<1>2. ~Submit(r)
  <2>1. SUFFICES ASSUME Submit(r) PROVE FALSE OBVIOUS
  <2>2. PICK what : Begin(r, what) BY <2>1, Beginnings
  <2> QED BY <1>1, <2>2 DEF Begin
<1>3. ~(job[r].at = "unassign" /\ \E v \in Users : Visit(r, v))
  <2>1. SUFFICES ASSUME job[r].at = "unassign", NEW v \in Users, Visit(r, v) PROVE FALSE OBVIOUS
  <2>2. user'[u] = user[u] \/ user'[u].tutor = None BY <2>1, UserUnassigned
  <2> QED BY <1>0, <1>1, <2>2 DEF Assigned
<1>4. ~(user' = [user EXCEPT ![job[r].user] = None])
  <2>1. SUFFICES ASSUME user' = [user EXCEPT ![job[r].user] = None] PROVE FALSE OBVIOUS
  <2> QED BY <1>0, <1>1, <2>1 DEF Assigned
<1>5. SaveUser(r) \/ LateUser(r)
  BY <1>1, <1>2, <1>3, <1>4 DEF Step, Failure, Enter, Check, CheckTutor, FindTutor, FindUser, Send,
     SaveTutor, Unassigned, DeleteTutor, DeleteUser, Unassign, Due, Fail, TimeOut, LateTutor,
     LateUnassign, LateDeletion
<1>6. StoresUser(r) /\ tutor' = tutor BY <1>5, Stores
<1>7. /\ user[job[r].user] # None
      /\ user' = [user EXCEPT ![job[r].user] = SavedUser(r)]
      /\ SavedUser(r).tutor = IF job[r].op = "assign" THEN job[r].tutor ELSE user[job[r].user].tutor
  BY <1>1, <1>6, UserSaved
<1>8. job[r].user = u /\ user'[u] = SavedUser(r) BY <1>0, <1>1, <1>7
<1> QED BY <1>5, <1>6, <1>7, <1>8 DEF Assigned, StoresUser

\* A user loses it by a write of a request that is not a profile update.
LEMMA UserLeaves ==
  ASSUME AssignmentAssumption, TypeOK, ControlInv, NEW r \in Requests,
         Submit(r) \/ Step(r) \/ Failure(r),
         NEW u \in Users, NEW t \in Tutors, Assigned(u, t), ~Assigned(u, t)'
  PROVE  job[r].at \in Writes /\ ~Own(r)
<1>0. user \in [Users -> UserDocument \cup {None}] /\ None \notin UserDocument /\ Fits(r)
  BY DEF TypeOK, AssignmentAssumption, ControlInv
<1>1. user'[u] # user[u] /\ user' # user BY DEF Assigned
<1>2. ~Submit(r)
  <2>1. SUFFICES ASSUME Submit(r) PROVE FALSE OBVIOUS
  <2>2. PICK what : Begin(r, what) BY <2>1, Beginnings
  <2> QED BY <1>1, <2>2 DEF Begin
<1>3. CASE SaveUser(r) \/ LateUser(r)
  <2>1. StoresUser(r) BY <1>3, Stores
  <2>2. /\ user[job[r].user] # None /\ SavedUser(r) \in UserDocument
        /\ user' = [user EXCEPT ![job[r].user] = SavedUser(r)]
        /\ SavedUser(r).tutor = IF job[r].op = "assign" THEN job[r].tutor ELSE user[job[r].user].tutor
    BY <1>1, <2>1, UserSaved
  <2>3. job[r].user = u /\ user'[u] = SavedUser(r) BY <1>0, <1>1, <2>2
  <2>4. job[r].op = "assign" BY <1>0, <2>2, <2>3 DEF Assigned
  <2> QED BY <2>1, <2>4 DEF StoresUser, Writes, Own
<1>4. CASE ~(SaveUser(r) \/ LateUser(r))
  <2>1. job[r].at \in {"unassign", "deleteUser"}
    BY <1>1, <1>2, <1>4 DEF Step, Failure, Enter, Check, CheckTutor, FindTutor, FindUser, Send,
       SaveTutor, Unassigned, DeleteTutor, DeleteUser, Unassign, Due, Fail, TimeOut, LateTutor,
       LateUnassign, LateDeletion
  <2> QED BY <1>0, <2>1 DEF Fits, Own, Writes
<1> QED BY <1>3, <1>4

\* Nobody but a request that has unassigned every user takes a tutor out of `cut`.
LEMMA CutMoves ==
  ASSUME TypeOK, NEW r \in Requests, Submit(r) \/ Step(r) \/ Failure(r), NEW t \in cut, t \notin cut'
  PROVE  /\ Unassigned(r) /\ job[r].tutor = t /\ UNCHANGED <<tutor, user>>
         /\ \A u \in Users : ~Assigned(u, t)
<1>1. ~Submit(r)
  <2>1. SUFFICES ASSUME Submit(r) PROVE FALSE OBVIOUS
  <2>2. PICK what : Begin(r, what) BY <2>1, Beginnings
  <2> QED BY <2>2 DEF Begin
<1>2. Unassigned(r)
  BY <1>1 DEF Step, Failure, Enter, Check, CheckTutor, FindTutor, FindUser, Send, SaveTutor,
     SaveUser, DeleteTutor, DeleteUser, Unassign, Visit, Fail, TimeOut, LateTutor, LateUser,
     LateUnassign, LateDeletion
<1> QED BY <1>2 DEF Unassigned

LEMMA ApprovalStands ==
  ASSUME AssignmentAssumption, AssignmentInv, NEW r \in Requests,
         Submit(r) \/ Step(r) \/ Failure(r), NEW t \in Tutors, ApprovedOnce(t)
  PROVE  ApprovedOnce(t)'
<1>0. TypeOK /\ ControlInv /\ UsedInv /\ job \in [Requests -> Task]
  BY JobsAreTasks DEF AssignmentInv
<1>1. TutorsGrow /\ used' = used BY <1>0, DataKept
<1>2. CASE tutor'[t] = tutor[t] BY <1>1, <1>2 DEF ApprovedOnce
<1>3. CASE tutor'[t] # tutor[t] /\ tutor'[t] # None
  <2>1. tutor[t] # None BY <1>1, <1>3 DEF TutorsGrow, ApprovedOnce
  <2>2. tutor'[t].status = IF job[r].op = "status" THEN job[r].status ELSE tutor[t].status
    BY <1>0, <1>3, TutorMoves
  <2>3. job[r].status \in {"active", "suspended"} BY <1>0 DEF Task
  <2> QED BY <1>1, <2>1, <2>2, <2>3 DEF ApprovedOnce
<1> QED BY <1>1, <1>2, <1>3 DEF ApprovedOnce

-----------------------------------------------------------------------------
(* What happens beside the request inside the lock *)

LEMMA OthersEnterNot ==
  ASSUME AssignmentAssumption, TypeOK, ControlInv, NEW r \in Requests,
         Submit(r) \/ Step(r) \/ Failure(r), NEW k \in Requests \ {r}
  PROVE  inside' = k <=> inside = k
<1>1. inside \in Requests \cup {None} /\ None \notin Requests BY DEF TypeOK, AssignmentAssumption
<1>2. CASE Submit(r)
  <2>1. PICK what : Begin(r, what) BY <1>2, Beginnings
  <2> QED BY <2>1 DEF Begin, lock
<1>3. CASE Enter(r) BY <1>1, <1>3 DEF Enter
<1>4. CASE inside' = inside \/ Leave(r) BY <1>1, <1>4 DEF Leave
<1>5. ~Submit(r) /\ ~Enter(r) => inside' = inside \/ Leave(r)
  BY DEF Step, Failure, Check, CheckTutor, FindTutor, FindUser, Send, SaveTutor, SaveUser,
     Unassigned, DeleteTutor, DeleteUser, Unassign, Fail, TimeOut, LateTutor, LateUser, LateUnassign,
     LateDeletion, HappensLate, Answer, lock
<1> QED BY <1>2, <1>3, <1>4, <1>5

\* A request beside the one inside writes only what it had given up, or a profile.
LEMMA BesideWrites ==
  ASSUME AssignmentAssumption, TypeOK, ControlInv, NEW r \in Requests,
         Submit(r) \/ Step(r) \/ Failure(r), NEW k \in Requests \ {r}, inside = k
  PROVE  /\ cut \subseteq cut'
         /\ crossed => crossed'
         /\ ~Own(r) /\ job[r].at \in Writes =>
              \/ Fail(r) /\ UNCHANGED <<tutor, user>>
              \/ crossed' /\ (LateTutor(r) \/ LateUser(r) \/ LateDeletion(r)
                              \/ \E u \in Users : LateUnassign(r, u))
<1>1. k # None /\ inside # r BY DEF AssignmentAssumption
<1>2. CASE Submit(r)
  <2>1. PICK what : Begin(r, what) BY <1>2, Beginnings
  <2> QED BY <2>1 DEF Begin, lock, Writes
<1>3. CASE ~Submit(r)
  <2>1. \A step \in Writes : Due(r, step) => Own(r) BY <1>1 DEF Due, GivenUp
  <2>2. ~Unassigned(r)
    BY <2>1 DEF Unassigned, Writes, ControlInv, Fits, Own, Due
  <2>3. cut \subseteq cut' BY <1>3, <2>2, CutMoves
  <2>4. ~Enter(r) BY <1>1 DEF Enter
  <2>5. crossed => crossed'
    BY <1>1, <1>3, <2>4 DEF Step, Failure, Check, CheckTutor, FindTutor, FindUser, Send, SaveTutor,
       SaveUser, Unassigned, DeleteTutor, DeleteUser, Unassign, Fail, TimeOut, LateTutor, LateUser,
       LateUnassign, LateDeletion, HappensLate, Answer, Leave, lock
  <2>6. ASSUME ~Own(r), job[r].at \in Writes
        PROVE  \/ Fail(r) /\ UNCHANGED <<tutor, user>>
               \/ crossed' /\ (LateTutor(r) \/ LateUser(r) \/ LateDeletion(r)
                               \/ \E u \in Users : LateUnassign(r, u))
    <3>1. ~Step(r)
      BY <1>1, <2>1, <2>6 DEF Step, Enter, Check, CheckTutor, FindTutor, FindUser, Send, SaveTutor,
         SaveUser, Unassigned, DeleteTutor, DeleteUser, Unassign, Writes
    <3>2. ~TimeOut(r) BY <1>1 DEF TimeOut
    <3> QED BY <1>1, <1>3, <3>1, <3>2 DEF Failure, Fail, LateTutor, LateUser, LateDeletion,
               LateUnassign, HappensLate
  <2> QED BY <2>3, <2>5, <2>6
<1> QED BY <1>2, <1>3

LEMMA StandsBeside ==
  ASSUME AssignmentAssumption, AssignmentInv, NEW r \in Requests,
         Submit(r) \/ Step(r) \/ Failure(r), NEW k \in Requests \ {r}, inside = k
  PROVE  KnownInside(k)'
<1>0. /\ TypeOK /\ ControlInv /\ Fits(k) /\ Fits(r) /\ KnownInside(k) /\ job \in [Requests -> Task]
  BY JobsAreTasks DEF AssignmentInv, ControlInv, Known
<1>1. job'[k] = job[k] BY <1>0, ControlKept DEF OthersStand
<1>2. /\ cut \subseteq cut'
      /\ crossed => crossed'
      /\ ~Own(r) /\ job[r].at \in Writes =>
           \/ Fail(r) /\ UNCHANGED <<tutor, user>>
           \/ crossed' /\ (LateTutor(r) \/ LateUser(r) \/ LateDeletion(r)
                           \/ \E u \in Users : LateUnassign(r, u))
  BY <1>0, BesideWrites
<1>3. ASSUME NEW t \in Tutors, Active(t) PROVE Active(t)' \/ (t \in cut' /\ crossed')
  <2> SUFFICES ASSUME ~Active(t)' PROVE t \in cut' /\ crossed' OBVIOUS
  <2>1. tutor'[t] # tutor[t] BY <1>3 DEF Active
  <2>2. CASE SaveTutor(r) \/ LateTutor(r)
    <3>1. /\ job[r].tutor = t /\ tutor'[t] # None /\ job[r].at = "saveTutor"
          /\ tutor'[t].status = IF job[r].op = "status" THEN job[r].status ELSE tutor[t].status
      BY <1>0, <2>1, <2>2, TutorMoves DEF AssignmentAssumption, SaveTutor, LateTutor, Due,
         DeleteTutor, LateDeletion
    <3>2. job[r].op = "status" /\ job[r].status = "suspended"
      <4>1. job[r].status \in {"active", "suspended"} BY <1>0 DEF Task
      <4> QED BY <1>3, <3>1, <4>1 DEF Active
    <3>3. LateTutor(r) /\ crossed'
      BY <1>2, <2>1, <3>1, <3>2 DEF Own, Writes, Fail, LateUser, LateDeletion, LateUnassign
    <3>4. AfterStatus(r) = "unassign" BY <3>2 DEF AfterStatus
    <3> QED BY <3>1, <3>3, <3>4 DEF LateTutor
  <2>3. CASE ~(SaveTutor(r) \/ LateTutor(r))
    <3>1. job[r].tutor = t /\ job[r].at = "deleteTutor" BY <1>0, <2>1, <2>3, TutorMoves
    <3>2. ~Own(r) BY <1>0, <3>1 DEF Fits, Own
    <3>3. LateDeletion(r) /\ crossed'
      BY <1>2, <2>1, <3>1, <3>2 DEF Writes, LateTutor, LateUser, LateUnassign
    <3> QED BY <3>1, <3>3 DEF LateDeletion
  <2> QED BY <2>2, <2>3
<1>4. ASSUME NEW u \in Users, NEW t \in Tutors, Assigned(u, t)', ~Assigned(u, t),
             job[k].tutor = t, job[k].at \in {"unassign", "deleteTutor"}
      PROVE  t \in cut'
  <2>1. /\ SaveUser(r) \/ LateUser(r)
        /\ job[r].op = "assign" /\ job[r].at = "saveUser" /\ job[r].tutor = t
    BY <1>0, <1>4, UserMoves
  <2>2. user' # user BY <1>4 DEF Assigned
  <2>3. LateUser(r)
    BY <1>2, <2>1, <2>2 DEF Own, Writes, LateTutor, LateDeletion, LateUnassign
  <2>4. Emptying(t) BY <1>4 DEF Emptying
  <2> QED BY <2>1, <2>3, <2>4 DEF LateUser
<1>5. ASSUME NEW u \in Users, NEW t \in Tutors, Assigned(u, t) PROVE Assigned(u, t)' \/ crossed'
  <2>1. SUFFICES ASSUME ~Assigned(u, t)' PROVE crossed' OBVIOUS
  <2>2. job[r].at \in Writes /\ ~Own(r) BY <1>0, <1>5, <2>1, UserLeaves
  <2>3. user' # user BY <1>5, <2>1 DEF Assigned
  <2> QED BY <1>2, <2>2, <2>3
<1>6. ASSUME NEW t \in Tutors, job[k].tutor = t,
             job[k].op = "assign", job[k].at \in {"findUser", "saveUser"}
      PROVE  Active(t)' \/ t \in cut'
  BY <1>0, <1>2, <1>3, <1>6 DEF KnownInside
<1>7. ASSUME NEW t \in Tutors, job[k].tutor = t, ~crossed', job[k].by = "self",
             job[k].op \in {"staff", "list"}, job[k].at \in {"findUser", "saveUser", "send"}
      PROVE  Active(t)'
  <2>1. Active(t) BY <1>0, <1>2, <1>7 DEF KnownInside
  <2> QED BY <1>3, <1>7, <2>1
<1>8. ASSUME NEW t \in Tutors, NEW u \in Users, job[k].tutor = t, job[k].user = u,
             ~crossed', job[k].by = "self", job[k].op = "staff", job[k].at = "saveUser"
      PROVE  Assigned(u, t)'
  <2>1. Assigned(u, t) BY <1>0, <1>2, <1>8 DEF KnownInside
  <2> QED BY <1>5, <1>8, <2>1
<1>9. ASSUME NEW t \in Tutors, job[k].tutor = t, job[k].at = "unassign",
             NEW u \in Users \ job[k].todo, Assigned(u, t)'
      PROVE  t \in cut'
  <2>1. Assigned(u, t) => t \in cut BY <1>0, <1>9 DEF KnownInside
  <2> QED BY <1>2, <1>4, <1>9, <2>1
<1>10. ASSUME NEW t \in Tutors, job[k].tutor = t, job[k].at = "deleteTutor",
              NEW u \in Users, Assigned(u, t)'
       PROVE  t \in cut'
  <2>1. Assigned(u, t) => t \in cut BY <1>0, <1>10 DEF KnownInside
  <2> QED BY <1>2, <1>4, <1>10, <2>1
<1>11. job[k].at \in {"unassign", "deleteTutor"} \/ job[k].op = "assign" \/ job[k].op = "list"
       \/ (job[k].op = "staff" /\ job[k].by = "self") => job[k].tutor \in Tutors
  BY <1>0 DEF Fits
<1>12. job[k].op = "staff" => job[k].user \in Users BY <1>0 DEF Fits
<1>13. /\ job'[k].op = "assign" /\ job'[k].at \in {"findUser", "saveUser"} =>
            Active(job[k].tutor)' \/ job'[k].tutor \in cut'
       /\ ~crossed' /\ job'[k].by = "self" /\ job'[k].op \in {"staff", "list"}
            /\ job'[k].at \in {"findUser", "saveUser", "send"} => Active(job[k].tutor)'
       /\ ~crossed' /\ job'[k].by = "self" /\ job'[k].op = "staff" /\ job'[k].at = "saveUser" =>
            Assigned(job[k].user, job[k].tutor)'
  BY <1>1, <1>6, <1>7, <1>8, <1>11, <1>12 DEF Assigned, Active
<1>14. /\ job'[k].at = "unassign" =>
            \A u \in Users \ job'[k].todo : Assigned(u, job[k].tutor)' => job'[k].tutor \in cut'
       /\ job'[k].at = "deleteTutor" =>
            \A u \in Users : Assigned(u, job[k].tutor)' => job'[k].tutor \in cut'
  BY <1>1, <1>9, <1>10, <1>11 DEF Assigned
<1> QED BY <1>13, <1>14 DEF KnownInside

-----------------------------------------------------------------------------
(* What a request knows *)

LEMMA HolderKnows ==
  ASSUME AssignmentAssumption, AssignmentInv, NEW r \in Requests, Step(r), inside' = r
  PROVE  KnownInside(r)'
<1>0. TypeOK /\ ControlInv /\ Fits(r) /\ job \in [Requests -> Task]
      /\ (inside = r => KnownInside(r))
  BY JobsAreTasks DEF AssignmentInv, ControlInv, Known
<1>1. ASSUME NEW step \in Steps, Goto(r, step)
      PROVE  job'[r].at = step /\ SameTask(r) /\ job'[r].todo = job[r].todo
  BY <1>0, <1>1, Going
<1>2. CASE Enter(r) \/ Send(r) \/ DeleteTutor(r) \/ DeleteUser(r) \/ SaveUser(r)
  <2>1. job'[r].at \in {"check", "done"}
    BY <1>1, <1>2 DEF Enter, Send, DeleteTutor, DeleteUser, SaveUser, Answer, Steps
  <2> QED BY <2>1 DEF KnownInside
<1>3. CASE Check(r)
  <2>1. job[r].op \in {"status", "deleteTutor", "assign", "list", "staff", "deleteUser"}
    BY <1>0, <1>3 DEF Fits, Check, Own, Task
  <2>2. Checked(r) \in Steps /\ Checked(r) \notin {"saveUser", "unassign", "deleteTutor"}
        /\ (job[r].op = "assign" => Checked(r) = "checkTutor")
    BY <2>1 DEF Checked, Steps
  <2>3. job'[r].at = Checked(r) /\ SameTask(r) BY <1>1, <1>3, <2>2 DEF Check
  <2>4. tutor' = tutor BY <1>3 DEF Check
  <2>5. job[r].by = "self" /\ job[r].op \in {"staff", "list"} => Active(job[r].tutor)
    BY <1>3 DEF Check, MayAct
  <2> QED BY <2>2, <2>3, <2>4, <2>5 DEF KnownInside, SameTask, Active
<1>4. CASE CheckTutor(r)
  <2>1. job'[r].at = "findUser" /\ SameTask(r) BY <1>1, <1>4 DEF CheckTutor, Steps
  <2>2. job[r].op = "assign" /\ Active(job[r].tutor) /\ tutor' = tutor
    BY <1>0, <1>4 DEF CheckTutor, Fits
  <2> QED BY <2>1, <2>2 DEF KnownInside, SameTask, Active
<1>5. CASE FindTutor(r)
  <2>1. CASE Answer(r)
    <3>1. job'[r].at = "done" BY <1>1, <2>1 DEF Answer, Steps
    <3> QED BY <3>1 DEF KnownInside
  <2>2. CASE ~Answer(r)
    <3>1. /\ job'[r].at \in {"unassign", "saveTutor"} /\ job'[r].todo = Users
      BY <1>0, <1>5, <2>2 DEF FindTutor, Task
    <3> QED BY <3>1 DEF KnownInside
  <2> QED BY <2>1, <2>2
<1>6. CASE FindUser(r)
  <2>1. /\ job'[r].op = job[r].op /\ job'[r].by = job[r].by /\ job'[r].tutor = job[r].tutor
        /\ job'[r].user = job[r].user /\ job'[r].at \in {"deleteUser", "saveUser"}
    BY <1>0, <1>6 DEF FindUser, Task
  <2>2. UNCHANGED <<tutor, user, cut, lock>> /\ job[r].at = "findUser" /\ user[job[r].user] # None
        /\ (job[r].op = "staff" /\ job[r].by = "self" => user[job[r].user].tutor = job[r].tutor)
    BY <1>6 DEF FindUser
  <2>3. KnownInside(r) BY <1>0, <2>2 DEF lock
  <2> QED BY <2>1, <2>2, <2>3 DEF KnownInside, Active, Assigned, lock
<1>7. CASE SaveTutor(r)
  <2>1. AfterStatus(r) \in {"unassign", "done"} BY DEF AfterStatus
  <2>2. job'[r].at = AfterStatus(r) /\ job'[r].todo = job[r].todo
    BY <1>1, <1>7, <2>1 DEF SaveTutor, Steps
  <2>3. job[r].todo = Users BY <1>0, <1>7 DEF Fits, SaveTutor, Due
  <2> QED BY <2>1, <2>2, <2>3 DEF KnownInside
<1>8. CASE Unassigned(r)
  <2>1. /\ job[r].at = "unassign" /\ job[r].todo = {} /\ UNCHANGED user
        /\ Goto(r, "done") \/ (Goto(r, "deleteTutor") /\ UNCHANGED lock)
        /\ (\E u \in Users : Assigned(u, job[r].tutor)) => cut' = cut
    BY <1>8 DEF Unassigned, Answer, Due
  <2>2. CASE Goto(r, "done")
    <3>1. job'[r].at = "done" BY <1>1, <2>2 DEF Steps
    <3> QED BY <3>1 DEF KnownInside
  <2>3. CASE Goto(r, "deleteTutor") /\ UNCHANGED lock
    <3>1. job'[r].at = "deleteTutor" /\ SameTask(r) BY <1>1, <2>3 DEF Steps
    <3>2. KnownInside(r) BY <1>0, <2>3 DEF lock
    <3>3. \A u \in Users : Assigned(u, job[r].tutor) => job[r].tutor \in cut'
      BY <2>1, <3>2 DEF KnownInside
    <3> QED BY <2>1, <3>1, <3>3 DEF KnownInside, Assigned, SameTask
  <2> QED BY <2>1, <2>2, <2>3
<1>9. CASE \E u \in Users : Unassign(r, u)
  <2>1. PICK u \in Users : Visit(r, u) /\ job[r].at = "unassign" /\ UNCHANGED <<lock, cut>>
    BY <1>9 DEF Unassign, Visit, Due
  <2>2. /\ job'[r].tutor = job[r].tutor /\ job'[r].todo = job[r].todo \ {u}
        /\ job'[r].at = "unassign"
    BY <1>0, <2>1 DEF Visit, Task
  <2>3. /\ \A v \in Users : user'[v] = user[v] \/ (v = u /\ user'[v].tutor = None)
        /\ user'[u] # None => user'[u].tutor # job[r].tutor
    BY <1>0, <2>1, UserUnassigned
  <2>4. \A v \in Users \ job[r].todo : Assigned(v, job[r].tutor) => job[r].tutor \in cut
    BY <1>0, <2>1 DEF KnownInside, lock
  <2>5. \A v \in Users \ job'[r].todo : Assigned(v, job[r].tutor)' => job[r].tutor \in cut'
    BY <2>1, <2>2, <2>3, <2>4 DEF Assigned
  <2> QED BY <2>2, <2>5 DEF KnownInside, Assigned
<1> QED BY <1>2, <1>3, <1>4, <1>5, <1>6, <1>7, <1>8, <1>9 DEF Step

\* An assignment gets past the check of its tutor by finding it active.
LEMMA ToUser ==
  ASSUME AssignmentAssumption, TypeOK, ControlInv, NEW r \in Requests,
         Submit(r) \/ Step(r) \/ Failure(r),
         job'[r].op = "assign", job'[r].at \in {"findUser", "saveUser"}
  PROVE  /\ job'[r].tutor = job[r].tutor /\ job[r].tutor \in Tutors
         /\ \/ CheckTutor(r)
            \/ job[r].op = "assign" /\ job[r].at \in {"findUser", "saveUser"}
<1>0. Fits(r) /\ job \in [Requests -> Task] BY JobsAreTasks DEF ControlInv
<1>1. ~Submit(r)
  <2>1. SUFFICES ASSUME Submit(r) PROVE FALSE OBVIOUS
  <2>2. PICK what : Begin(r, what) /\ NewTask(what) BY <2>1, Beginnings
  <2>3. job'[r] = what BY <2>2, BeginningsChange
  <2> QED BY <2>2, <2>3 DEF NewTask
<1>2. ASSUME NEW step \in Steps, Goto(r, step)
      PROVE  job'[r].at = step /\ job'[r].op = job[r].op /\ job'[r].tutor = job[r].tutor
  BY <1>2, Going DEF SameTask
<1>3. CASE Enter(r) \/ Send(r) \/ DeleteTutor(r) \/ DeleteUser(r) \/ SaveUser(r) \/ SaveTutor(r)
           \/ Unassigned(r) \/ Fail(r) \/ LateTutor(r) \/ LateUser(r) \/ LateDeletion(r)
  BY <1>2, <1>3 DEF Enter, Send, DeleteTutor, DeleteUser, SaveUser, SaveTutor, AfterStatus,
     Unassigned, Fail, LateTutor, LateUser, LateDeletion, Answer, Steps
<1>4. CASE Check(r)
  <2>1. job[r].op \in {"status", "deleteTutor", "assign", "list", "staff", "deleteUser"}
    BY <1>0, <1>4 DEF Fits, Check, Own, Task
  <2>2. Checked(r) \in Steps BY <2>1 DEF Checked, Steps
  <2>3. job'[r].at = Checked(r) /\ job'[r].op = job[r].op BY <1>2, <1>4, <2>2 DEF Check
  <2> QED BY <2>3 DEF Checked
<1>5. CASE CheckTutor(r)
  <2>1. job'[r].tutor = job[r].tutor BY <1>2, <1>5 DEF CheckTutor, Steps
  <2>2. job[r].op = "assign" BY <1>0, <1>5 DEF CheckTutor, Fits
  <2> QED BY <1>0, <1>5, <2>1, <2>2 DEF Fits
<1>6. CASE FindTutor(r)
  <2>1. CASE Answer(r) BY <1>2, <2>1 DEF Answer, Steps
  <2>2. CASE ~Answer(r) BY <1>0, <1>6, <2>2 DEF FindTutor, Task
  <2> QED BY <2>1, <2>2
<1>7. CASE FindUser(r)
  <2>1. job[r].at = "findUser" /\ job'[r].op = job[r].op /\ job'[r].tutor = job[r].tutor
    BY <1>0, <1>7 DEF FindUser, Task
  <2> QED BY <1>0, <2>1 DEF Fits
<1>8. CASE \E u \in Users : Unassign(r, u) \/ LateUnassign(r, u)
  <2>1. job'[r].at = "unassign" BY <1>0, <1>8 DEF Unassign, LateUnassign, Visit, Due, Task
  <2> QED BY <2>1
<1>9. CASE TimeOut(r) BY <1>0, <1>9 DEF TimeOut, Fits
<1> QED BY <1>1, <1>3, <1>4, <1>5, <1>6, <1>7, <1>8, <1>9 DEF Step, Failure

LEMMA KnownKept ==
  ASSUME AssignmentAssumption, AssignmentInv, NEW r \in Requests,
         Submit(r) \/ Step(r) \/ Failure(r)
  PROVE  \A k \in Requests : Known(k)'
<1>0. TypeOK /\ ControlInv /\ UsedInv /\ \A k \in Requests : Fits(k) /\ Known(k)
  BY DEF AssignmentInv, ControlInv
<1>1. OthersStand(r) BY <1>0, ControlKept
<1>2. ASSUME NEW k \in Requests, job'[k].op = "assign", job'[k].at \in {"findUser", "saveUser"}
      PROVE  ApprovedOnce(job[k].tutor)' /\ job'[k].tutor = job[k].tutor
  <2>1. CASE k # r
    <3>1. job'[k] = job[k] BY <1>1, <2>1 DEF OthersStand
    <3>2. ApprovedOnce(job[k].tutor) /\ job[k].tutor \in Tutors
      BY <1>0, <1>2, <3>1 DEF Known, Fits
    <3>3. PICK t \in Tutors : t = job[k].tutor BY <3>2
    <3>4. ApprovedOnce(t)' BY <3>2, <3>3, ApprovalStands
    <3> QED BY <3>1, <3>3, <3>4
  <2>2. CASE k = r
    <3>1. /\ job'[r].tutor = job[r].tutor /\ job[r].tutor \in Tutors
          /\ CheckTutor(r) \/ (job[r].op = "assign" /\ job[r].at \in {"findUser", "saveUser"})
      BY <1>0, <1>2, <2>2, ToUser
    <3>2. ApprovedOnce(job[r].tutor)
      BY <1>0, <3>1 DEF CheckTutor, Active, UsedInv, ApprovedOnce, Known
    <3>3. PICK t \in Tutors : t = job[r].tutor BY <3>1
    <3>4. ApprovedOnce(t)' BY <3>2, <3>3, ApprovalStands
    <3>5. job'[r].tutor = t BY <3>1, <3>3
    <3> QED BY <2>2, <3>1, <3>3, <3>4, <3>5 DEF ApprovedOnce
  <2> QED BY <2>1, <2>2
<1>3. ASSUME NEW k \in Requests, inside' = k PROVE KnownInside(k)'
  <2>1. CASE k # r
    <3>1. inside = k BY <1>0, <1>3, <2>1, OthersEnterNot
    <3> QED BY <2>1, <3>1, StandsBeside
  <2>2. CASE k = r
    <3>1. ~Submit(r)
      <4>1. SUFFICES ASSUME Submit(r) PROVE FALSE OBVIOUS
      <4>2. PICK what : Begin(r, what) BY <1>0, <4>1, Beginnings
      <4>3. inside = r /\ job[r].at = "idle" BY <1>3, <2>2, <4>2 DEF Begin, lock
      <4> QED BY <1>0, <4>3 DEF ControlInv, LockHeld, Holds, Locked, Writes
    <3>2. ~Failure(r)
      BY <1>3, <2>2 DEF Failure, Fail, TimeOut, Leave, LateTutor, LateUser, LateDeletion,
         LateUnassign, HappensLate, GivenUp, AssignmentAssumption
    <3> QED BY <1>3, <2>2, <3>1, <3>2, HolderKnows
  <2> QED BY <2>1, <2>2
<1> QED BY <1>2, <1>3 DEF Known, ApprovedOnce

-----------------------------------------------------------------------------
(* The relation *)

LEMMA RelationKept ==
  ASSUME AssignmentAssumption, AssignmentInv, NEW r \in Requests,
         Submit(r) \/ Step(r) \/ Failure(r)
  PROVE  RelationInv'
<1>0. /\ TypeOK /\ ControlInv /\ UsedInv /\ RelationInv /\ Fits(r) /\ Known(r)
      /\ job \in [Requests -> Task]
  BY JobsAreTasks DEF AssignmentInv, ControlInv
<1> SUFFICES ASSUME NEW u \in Users, NEW t \in Tutors, Assigned(u, t)'
             PROVE  /\ ApprovedOnce(t)' /\ (tutor'[t] = None => t \in cut')
                    /\ Active(t)' \/ t \in cut' \/ Suspending(t)'
  BY DEF RelationInv
<1>1. TutorsGrow BY <1>0, DataKept
<1>2. CASE ~Assigned(u, t)
  <2>1. /\ SaveUser(r) \/ LateUser(r)
        /\ job[r].op = "assign" /\ job[r].at = "saveUser" /\ job[r].tutor = t
        /\ tutor' = tutor
    BY <1>0, <1>2, UserMoves
  <2>2. ApprovedOnce(t)' BY <1>0, <2>1, ApprovalStands DEF Known
  <2>3. Active(t)' \/ t \in cut'
    <3>1. CASE LateUser(r) BY <2>1, <3>1 DEF LateUser, Active
    <3>2. CASE SaveUser(r)
      <4>1. inside = r /\ cut' = cut
        BY <2>1, <3>2 DEF SaveUser, Due, GivenUp, Writes, Own
      <4>2. Active(t) \/ t \in cut BY <1>0, <2>1, <4>1 DEF Known, KnownInside
      <4> QED BY <2>1, <4>1, <4>2 DEF Active
    <3> QED BY <2>1, <3>1, <3>2
  <2> QED BY <2>2, <2>3 DEF Active
<1>3. CASE Assigned(u, t)
  <2>0. ApprovedOnce(t) /\ (tutor[t] = None => t \in cut) /\ (Active(t) \/ t \in cut \/ Suspending(t))
    BY <1>0, <1>3 DEF RelationInv
  <2>1. ApprovedOnce(t)' BY <2>0, ApprovalStands
  <2>2. t \in cut => t \in cut' BY <1>0, <1>3, CutMoves
  <2>3. ASSUME tutor'[t] = None PROVE t \in cut'
    <3>1. CASE tutor[t] = None BY <2>0, <2>2, <3>1
    <3>2. CASE tutor[t] # None
      <4>1. /\ job[r].tutor = t /\ job[r].at = "deleteTutor"
            /\ DeleteTutor(r) \/ LateDeletion(r)
        BY <1>0, <2>3, <3>2, TutorMoves DEF AssignmentAssumption
      <4>2. CASE LateDeletion(r) BY <4>1, <4>2 DEF LateDeletion
      <4>3. CASE DeleteTutor(r)
        <5>1. job[r].op = "deleteTutor" BY <1>0, <4>1 DEF Fits
        <5>2. inside = r BY <4>1, <4>3, <5>1 DEF DeleteTutor, Due, GivenUp, Writes, Own
        <5>3. t \in cut BY <1>0, <1>3, <4>1, <5>2 DEF Known, KnownInside
        <5> QED BY <2>2, <5>3
      <4> QED BY <4>1, <4>2, <4>3
    <3> QED BY <3>1, <3>2
  <2>4. ASSUME Active(t), tutor'[t] # None PROVE Active(t)' \/ t \in cut' \/ Suspending(t)'
    <3> SUFFICES ASSUME ~Active(t)' PROVE t \in cut' \/ Suspending(t)' OBVIOUS
    <3>1. /\ job[r].tutor = t /\ (SaveTutor(r) \/ LateTutor(r))
          /\ tutor'[t].status = IF job[r].op = "status" THEN job[r].status ELSE tutor[t].status
      BY <1>0, <2>4, TutorMoves DEF Active
    <3>2. job[r].op = "status" /\ job[r].status = "suspended" /\ AfterStatus(r) = "unassign"
      <4>1. job[r].status \in {"active", "suspended"} BY <1>0 DEF Task
      <4> QED BY <2>4, <3>1, <4>1 DEF Active, AfterStatus
    <3>3. CASE LateTutor(r) BY <3>1, <3>2, <3>3 DEF LateTutor
    <3>4. CASE SaveTutor(r)
      <4>1. inside = r /\ inside' = inside /\ Goto(r, "unassign")
        BY <3>2, <3>4 DEF SaveTutor, Due, GivenUp, Writes, Own, lock
      <4>2. job'[r].at = "unassign" /\ SameTask(r) BY <1>0, <4>1, Going DEF Steps
      <4> QED BY <3>1, <3>2, <4>1, <4>2 DEF Suspending, SameTask
    <3> QED BY <3>1, <3>3, <3>4
  <2>5. ASSUME Suspending(t) PROVE t \in cut' \/ Suspending(t)'
    <3>1. PICK k \in Requests :
            inside = k /\ job[k].op = "status" /\ job[k].at = "unassign" /\ job[k].tutor = t
      BY <2>5 DEF Suspending
    <3>2. CASE k # r
      <4>1. inside' = k /\ job'[k] = job[k]
        BY <1>0, <3>1, <3>2, OthersEnterNot, ControlKept DEF OthersStand
      <4> QED BY <3>1, <4>1 DEF Suspending
    <3>3. CASE k = r
      <4>1. ~GivenUp(r) BY <3>1, <3>3 DEF GivenUp
      <4>2. ~Submit(r)
        <5>1. SUFFICES ASSUME Submit(r) PROVE FALSE OBVIOUS
        <5>2. PICK what : Begin(r, what) BY <1>0, <5>1, Beginnings
        <5> QED BY <3>1, <3>3, <5>2 DEF Begin
      <4>3. \/ Unassigned(r) \/ Fail(r) \/ TimeOut(r) \/ \E v \in Users : Unassign(r, v)
        BY <3>1, <3>3, <4>1, <4>2 DEF Step, Failure, Enter, Check, CheckTutor, FindTutor, FindUser,
           Send, SaveTutor, SaveUser, DeleteTutor, DeleteUser, Due, LateTutor, LateUser,
           LateDeletion, LateUnassign, HappensLate
      <4>4. CASE Fail(r) \/ TimeOut(r)
        BY <3>1, <3>3, <4>1, <4>4 DEF Fail, TimeOut, Due
      <4>5. CASE Unassigned(r)
        <5>1. t \in cut
          BY <1>0, <1>3, <3>1, <3>3, <4>5 DEF Known, KnownInside, Unassigned
        <5> QED BY <2>2, <5>1
      <4>6. CASE \E v \in Users : Unassign(r, v)
        <5>1. inside' = inside /\ job'[r].op = job[r].op /\ job'[r].at = job[r].at
              /\ job'[r].tutor = job[r].tutor
          BY <1>0, <4>6 DEF Unassign, Visit, Task, lock
        <5> QED BY <3>1, <3>3, <5>1 DEF Suspending
      <4> QED BY <4>3, <4>4, <4>5, <4>6
    <3> QED BY <3>2, <3>3
  <2> QED BY <2>0, <2>1, <2>2, <2>3, <2>4, <2>5
<1> QED BY <1>2, <1>3

-----------------------------------------------------------------------------
(* The invariant *)

LEMMA AssignmentStarts ==
  ASSUME AssignmentAssumption, Init
  PROVE  AssignmentInv
<1>1. /\ tutor \in [Tutors -> TutorDocument \cup {None}]
      /\ user \in [Users -> UserDocument \cup {None}]
  BY DEF Init, TutorDocument, UserDocument
<1>2. used \in SUBSET (Tutors \cup Users) BY DEF Init
<1>3. Idle \in Task BY DEF Idle, Task, Steps
<1>4. TypeOK BY <1>1, <1>2, <1>3, JobsAreTasks DEF Init
<1>5. \A r \in Requests : Fits(r) /\ ~Holds(r) /\ Known(r) /\ Tells(r)
  BY DEF Init, Idle, Fits, Holds, Locked, Writes, Own, Known, KnownInside, Tells
<1>6. LockHeld BY <1>5 DEF LockHeld, Init, AssignmentAssumption
<1>7. UsedInv BY DEF Init, UsedInv
<1>8. RelationInv BY <1>7 DEF Init, RelationInv, Active, ApprovedOnce, UsedInv
<1> QED BY <1>4, <1>5, <1>6, <1>7, <1>8 DEF AssignmentInv, ControlInv

LEMMA SignUpKept ==
  ASSUME AssignmentAssumption, AssignmentInv,
         (\E t \in Tutors : SignUpTutor(t)) \/ (\E u \in Users : SignUpUser(u))
  PROVE  AssignmentInv'
<1>0. TypeOK /\ ControlInv /\ UsedInv /\ RelationInv
      /\ \A r \in Requests : Fits(r) /\ Known(r) /\ Tells(r)
  BY DEF AssignmentInv, ControlInv
<1>1. DataTyped' /\ UsedInv' /\ TutorsGrow /\ used \subseteq used' BY <1>0, SignUpKeepsData
<1>2. UNCHANGED <<job, inside, crossed, cut>> BY DEF SignUpTutor, SignUpUser, lock
<1>3. TypeOK' BY <1>0, <1>1, <1>2 DEF TypeOK, DataTyped
<1>4. ControlInv' BY <1>0, <1>2 DEF ControlInv, LockHeld, Holds, Fits, Own
<1>5. /\ \A t \in Tutors : t \in used => tutor'[t] = tutor[t]
      /\ \A u \in Users, t \in Tutors : Assigned(u, t)' <=> Assigned(u, t)
  <2>1. ASSUME NEW t \in Tutors, SignUpTutor(t)
        PROVE  user' = user /\ \A v \in Tutors \ {t} : tutor'[v] = tutor[v]
    BY <1>0, <2>1 DEF SignUpTutor, TypeOK
  <2>2. ASSUME NEW u \in Users, SignUpUser(u)
        PROVE  tutor' = tutor /\ \A v \in Users, t \in Tutors : Assigned(v, t)' <=> Assigned(v, t)
    <3>1. user[u] = None /\ tutor' = tutor /\ \A v \in Users \ {u} : user'[v] = user[v]
      BY <1>0, <2>2 DEF SignUpUser, UsedInv, TypeOK
    <3>2. user'[u].tutor = None BY <1>0, <2>2 DEF SignUpUser, TypeOK
    <3>3. None \notin Tutors BY DEF AssignmentAssumption
    <3> QED BY <3>1, <3>2, <3>3 DEF Assigned
  <2>3. CASE \E t \in Tutors : SignUpTutor(t)
    BY <2>1, <2>3 DEF SignUpTutor, Assigned
  <2> QED BY <2>2, <2>3
<1>8. \A t \in Tutors : (ApprovedOnce(t) => ApprovedOnce(t)') /\ (Active(t) => Active(t)')
  BY <1>0, <1>1, <1>5 DEF ApprovedOnce, Active, UsedInv
<1>6. ASSUME NEW k \in Requests PROVE Known(k)'
  <2>1. Known(k) /\ Fits(k) BY <1>0
  <2>2. KnownInside(k) => KnownInside(k)'
    <3>1. job[k].tutor \in Tutors /\ Active(job[k].tutor) => Active(job[k].tutor)'
      BY <1>2, <1>8 DEF Active
    <3>2. ASSUME job[k].tutor \in Tutors, NEW u \in Users
          PROVE  Assigned(u, job[k].tutor)' <=> Assigned(u, job[k].tutor)
      BY <1>2, <1>5, <3>2 DEF Assigned
    <3>3. /\ job[k].op \in {"assign", "list"} => job[k].tutor \in Tutors
          /\ job[k].op = "staff" => job[k].user \in Users /\ (job[k].by = "self" => job[k].tutor \in Tutors)
          /\ job[k].at \in {"unassign", "deleteTutor"} => job[k].tutor \in Tutors
      BY <2>1 DEF Fits
    <3>4. job[k].at \in {"unassign", "deleteTutor"} =>
            \A u \in Users : Assigned(u, job[k].tutor)' <=> Assigned(u, job[k].tutor)
      BY <3>2, <3>3
    <3>5. job[k].op = "staff" /\ job[k].by = "self" /\ Assigned(job[k].user, job[k].tutor) =>
            Assigned(job[k].user, job[k].tutor)'
      BY <1>2, <3>2, <3>3 DEF Assigned
    <3> QED BY <1>2, <3>1, <3>3, <3>4, <3>5 DEF KnownInside, Assigned, Active
  <2>3. job[k].op = "assign" /\ ApprovedOnce(job[k].tutor) => ApprovedOnce(job[k].tutor)'
    BY <1>2, <1>8, <2>1 DEF Fits, ApprovedOnce
  <2> QED BY <1>2, <2>1, <2>2, <2>3 DEF Known, ApprovedOnce
<1>7. \A k \in Requests : Tells(k)' BY <1>0, <1>1, <1>2, TellsStands
<1>9. RelationInv'
  <2>1. \A t \in Tutors : Suspending(t)' <=> Suspending(t) BY <1>2 DEF Suspending
  <2> QED BY <1>0, <1>2, <1>5, <1>8, <2>1 DEF RelationInv, ApprovedOnce
<1> QED BY <1>1, <1>3, <1>4, <1>6, <1>7, <1>9 DEF AssignmentInv

LEMMA CrossedTyped ==
  ASSUME TypeOK, NEW r \in Requests, Submit(r) \/ Step(r) \/ Failure(r)
  PROVE  crossed' \in BOOLEAN
<1>1. crossed \in BOOLEAN BY DEF TypeOK
<1>2. CASE Submit(r)
  <2>1. PICK what : Begin(r, what) BY <1>2, Beginnings
  <2> QED BY <1>1, <2>1 DEF Begin, lock
<1>3. CASE Step(r) \/ Failure(r)
  BY <1>1, <1>3 DEF Step, Failure, Enter, Check, CheckTutor, FindTutor, FindUser, Send, SaveTutor,
     SaveUser, Unassigned, DeleteTutor, DeleteUser, Unassign, Fail, TimeOut, LateTutor, LateUser,
     LateUnassign, LateDeletion, HappensLate, Answer, Leave, lock
<1> QED BY <1>2, <1>3

LEMMA AssignmentKept ==
  ASSUME AssignmentAssumption, AssignmentInv, [Next]_vars
  PROVE  AssignmentInv'
<1>1. CASE UNCHANGED vars
  BY <1>1 DEF vars, AssignmentInv, TypeOK, ControlInv, LockHeld, Holds, Fits, Own, UsedInv,
              RelationInv, ApprovedOnce, Suspending, Assigned, Active, Known, KnownInside, Tells
<1>2. CASE (\E t \in Tutors : SignUpTutor(t)) \/ (\E u \in Users : SignUpUser(u))
  BY <1>2, SignUpKept
<1>3. ASSUME NEW r \in Requests, Submit(r) \/ Step(r) \/ Failure(r) PROVE AssignmentInv'
  <2>1. TypeOK /\ ControlInv /\ UsedInv BY DEF AssignmentInv
  <2>2. /\ ControlInv' /\ inside' \in Requests \cup {None}
        /\ job' \in [Requests -> Task]
    BY <1>3, <2>1, ControlKept
  <2>3. DataTyped' /\ UsedInv' BY <1>3, <2>1, DataKept
  <2>4. TypeOK'
    <3>1. crossed' \in BOOLEAN BY <1>3, <2>1, CrossedTyped
    <3> QED BY <2>2, <2>3, <3>1 DEF TypeOK, DataTyped, Task, Steps
  <2> QED BY <1>3, <2>2, <2>3, <2>4, KnownKept, TellsKept, RelationKept DEF AssignmentInv
<1> QED BY <1>1, <1>2, <1>3 DEF Next

LEMMA RevokesWithStatus ==
  ASSUME AssignmentAssumption, AssignmentInv, [Next]_vars,
         NEW t \in Tutors, tutor[t] # None, tutor'[t] # None
  PROVE  /\ tutor'[t].auth >= tutor[t].auth
         /\ tutor'[t].status # tutor[t].status => tutor'[t].auth > tutor[t].auth
<1>0. /\ TypeOK /\ ControlInv /\ UsedInv
      /\ \A r \in Requests : Fits(r) /\ Tells(r)
  BY DEF AssignmentInv, ControlInv
<1>1. tutor[t].auth \in Nat BY <1>0 DEF TypeOK, TutorDocument
<1>2. CASE tutor'[t] = tutor[t] BY <1>1, <1>2
<1>3. CASE tutor'[t] # tutor[t]
  <2>1. ~UNCHANGED vars BY <1>3 DEF vars
  <2>2. PICK r \in Requests : Submit(r) \/ Step(r) \/ Failure(r)
    <3>1. ASSUME NEW s \in Tutors, SignUpTutor(s) PROVE FALSE
      <4>1. s \notin used /\ s # t BY <1>0, <3>1 DEF SignUpTutor, UsedInv
      <4> QED BY <1>0, <1>3, <3>1, <4>1 DEF SignUpTutor, TypeOK
    <3>2. ASSUME NEW u \in Users, SignUpUser(u) PROVE FALSE BY <1>3, <3>2 DEF SignUpUser
    <3> QED BY <2>1, <3>1, <3>2 DEF Next
  <2>3. /\ job[r].tutor = t /\ tutor'[t] = SavedTutor(r)
        /\ SaveTutor(r) \/ LateTutor(r)
    BY <1>0, <1>3, <2>2, TutorMoves
  <2>6. StoresTutor(r) BY <2>3, Stores
  <2>7. /\ SavedTutor(r).status = IF job[r].op = "status" THEN job[r].status ELSE tutor[t].status
        /\ SavedTutor(r).auth = IF job[r].op = "status" \/ job[r].secret
                                THEN job[r].doc.auth + 1 ELSE tutor[t].auth
    BY <1>0, <2>3, <2>6, TutorSaved
  <2>5. job[r].doc.auth = tutor[t].auth
    <3>1. job[r].at = "saveTutor" /\ tutor[t].version = job[r].doc.version
      BY <2>3, <2>6 DEF StoresTutor, FreshTutor
    <3> QED BY <1>0, <2>3, <3>1 DEF Tells
  <2> QED BY <1>1, <2>3, <2>5, <2>7
<1> QED BY <1>2, <1>3

-----------------------------------------------------------------------------
(* Theorems *)

\* The types of the documents and of all requests, and with them the invariant,
\* hold however requests to tutorController.ts and userController.ts interleave.
THEOREM AssignmentHolds ==
  ASSUME AssignmentAssumption
  PROVE  Spec => [](TypeOK /\ AssignmentInv)
<1>1. Init => AssignmentInv BY AssignmentStarts
<1>2. AssignmentInv /\ [Next]_vars => AssignmentInv' BY AssignmentKept
<1>3. AssignmentInv => TypeOK BY DEF AssignmentInv
<1> QED BY <1>1, <1>2, <1>3, PTL DEF Spec

\* The tutor of a user has been approved and, at rest, exists and is active, however
\* updateTutorStatus, deleteTutor and assignUserTutor interleave, fail, time out and
\* are carried out late: but for an unassignment that did not end well and for a
\* suspension, deletion or assignment carried out after it was given up.
THEOREM AssignedAreFit ==
  ASSUME AssignmentAssumption
  PROVE  Spec => []AssignedIsFit
<1>1. AssignmentInv => AssignedIsFit
  <2> SUFFICES ASSUME AssignmentInv PROVE AssignedIsFit OBVIOUS
  <2>1. AssignedWasApproved BY DEF AssignmentInv, RelationInv, ApprovedOnce, AssignedWasApproved
  <2>2. ASSUME inside = None, NEW t \in Tutors PROVE ~Suspending(t)
    BY <2>2 DEF Suspending, AssignmentAssumption
  <2>3. AssignedIsActive BY <2>2 DEF AssignmentInv, RelationInv, AssignedIsActive
  <2> QED BY <2>1, <2>3 DEF AssignedIsFit
<1> QED BY <1>1, AssignmentHolds, PTL

\* A tutor lists and updates only its own users, while it is active, and a change
\* of its status outdates every session, also next to a change of its profile.
THEOREM TutorsActOnTheirOwn ==
  ASSUME AssignmentAssumption
  PROVE  Spec => TutorsAct
<1>1. AssignmentInv => TutorsActOnTheirUsers
  BY DEF AssignmentInv, ControlInv, Fits, Known, KnownInside, TutorsActOnTheirUsers
<1>2. AssignmentInv /\ [Next]_vars =>
        [\A t \in Tutors : tutor[t] # None /\ tutor'[t] # None =>
           /\ tutor'[t].auth >= tutor[t].auth
           /\ tutor'[t].status # tutor[t].status => tutor'[t].auth > tutor[t].auth]_vars
  BY RevokesWithStatus
<1> QED BY <1>1, <1>2, AssignmentHolds, PTL DEF TutorsAct, StatusChangeRevokes, Spec
=============================================================================
