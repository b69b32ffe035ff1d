---------------------------- MODULE TutorAssignment ----------------------------
(***************************************************************************)
(* Which tutor a user has, and what a tutor may do with its users:         *)
(* back-end/src/controllers/users/tutorController.ts and userController.ts.*)
(*                                                                         *)
(* The relation lives in the user documents, the approval in the tutor     *)
(* documents; no write covers both.  Handlers that touch the relation take *)
(* their turn in withAuthorizationWorkflowLock (AdminWorkflow), profile    *)
(* updates do not.  Every database call is a step, and may fail.  A call   *)
(* that times out ends its request, which leaves the lock, while its write *)
(* may still be on its way and be carried out at any later time.           *)
(***************************************************************************)
EXTENDS Naturals

CONSTANTS
  Tutors, Users,   \* account ids, never used twice
  Requests,        \* requests to the API, each made at most once
  None             \* no document, no tutor, no request

VARIABLES
  tutor,    \* the document of each tutor, or None
  user,     \* the document of each user, or None
  used,     \* the ids that have been given out
  job,      \* what each request does and where it is
  inside,   \* the request inside the lock
  crossed,  \* ghost: a write given up before was carried out beside that request
  cut       \* ghost: tutors that may have kept users, because an unassignment
            \*   failed or a write was carried out after it was given up

vars == <<tutor, user, used, job, inside, crossed, cut>>
lock == <<inside, crossed>>

TutorDocument == [status : {"pending", "active", "suspended"}, auth : Nat, version : Nat]
UserDocument == [tutor : Tutors \cup {None}, auth : Nat, version : Nat]

AssignmentAssumption ==
  None \notin Tutors \cup Users \cup Requests \cup TutorDocument \cup UserDocument

Active(t) == tutor[t] # None /\ tutor[t].status = "active"
Assigned(u, t) == user[u] # None /\ user[u].tutor = t

\* op, by whom, with the authVersion of the session; on which tutor and user;
\* the new status; whether credentials change; the document loaded and the
\* users an updateMany has yet to visit.
Idle == [op |-> "none", by |-> "admin", seen |-> 0, tutor |-> None, user |-> None,
         status |-> "active", secret |-> FALSE, doc |-> None, todo |-> {}, at |-> "idle"]

Init ==
  /\ tutor \in [Tutors -> {None} \cup
       [status : {"pending", "active", "suspended"}, auth : {0}, version : {0}]]
  /\ user \in [Users -> {None} \cup [tutor : Tutors \cup {None}, auth : {0}, version : {0}]]
  /\ \A u \in Users, t \in Tutors : Assigned(u, t) => Active(t)
  /\ used = {t \in Tutors : tutor[t] # None} \cup {u \in Users : user[u] # None}
  /\ job = [r \in Requests |-> Idle]
  /\ inside = None
  /\ crossed = FALSE
  /\ cut = {}

Goto(r, step) == job' = [job EXCEPT ![r].at = step]
Leave(r) ==
  /\ inside' = IF inside = r THEN None ELSE inside
  /\ crossed' = (crossed /\ inside # r)
Answer(r) == Goto(r, "done") /\ Leave(r)

\* Profile updates, which take no lock.
Own(r) == job[r].op \in {"ownTutor", "ownUser"}

\* A request whose write is due, or on its way to the database although the
\* request has ended and left the lock.
Writes == {"saveTutor", "saveUser", "unassign", "deleteTutor", "deleteUser"}
GivenUp(r) == job[r].at \in Writes /\ ~Own(r) /\ inside # r

-----------------------------------------------------------------------------
(* Faulty variants of the operators below, each the code after a plausible   *)
(* slip; no specification uses them, they show what the properties detect.   *)

\* The workflow without its lock.
EnterAnyway(r) ==
  /\ job[r].at = "waiting"
  /\ inside' = r /\ crossed' = FALSE
  /\ Goto(r, "check")
  /\ UNCHANGED <<tutor, user, used, cut>>

\* A save of the whole document as it was loaded.
SavedUserWhole(r) ==
  [tutor |-> IF job[r].op = "assign" THEN job[r].tutor ELSE job[r].doc.tutor,
   auth |-> IF job[r].secret THEN job[r].doc.auth + 1 ELSE user[job[r].user].auth,
   version |-> user[job[r].user].version + 1]

\* A save that does not compare __v.
FreshTutorUnversioned(r) == tutor[job[r].tutor] # None

\* The actor looked up by its id alone, without status and version.
MayActInAnyStatus(r) ==
  job[r].by = "self" =>
    CASE job[r].op = "assign" -> user[job[r].user] # None
      [] job[r].op \in {"deleteTutor", "staff", "list"} -> tutor[job[r].tutor] # None
      [] OTHER -> TRUE

\* The session's version not kept with the request.
BeginWithoutVersion(r, what) ==
  /\ job[r].at = "idle"
  /\ job' = [job EXCEPT ![r] = [what EXCEPT !.seen = None]]
  /\ UNCHANGED <<tutor, user, used, lock, cut>>

-----------------------------------------------------------------------------
(* Requests arrive *)

Begin(r, what) ==
  /\ job[r].at = "idle"
  /\ job' = [job EXCEPT ![r] = what]
  /\ UNCHANGED <<tutor, user, used, lock, cut>>

\* createTutor and createUser.
SignUpTutor(t) ==
  /\ t \notin used
  /\ used' = used \cup {t}
  /\ tutor' = [tutor EXCEPT ![t] = [status |-> "pending", auth |-> 0, version |-> 0]]
  /\ UNCHANGED <<user, job, lock, cut>>

SignUpUser(u) ==
  /\ u \notin used
  /\ used' = used \cup {u}
  /\ user' = [user EXCEPT ![u] = [tutor |-> None, auth |-> 0, version |-> 0]]
  /\ UNCHANGED <<tutor, job, lock, cut>>

\* The route admits the request: an admin, or the account itself with a valid
\* session.  To read or update its users a tutor must be active.
ByAdmin(op, t, u) ==
  [Idle EXCEPT !.op = op, !.by = "admin", !.tutor = t, !.user = u, !.at = "waiting"]
BySelf(op, version, t, u) ==
  [Idle EXCEPT !.op = op, !.by = "self", !.seen = version, !.tutor = t, !.user = u,
               !.at = "waiting"]

SubmitStatus(r, t, status) ==
  /\ t \in used
  /\ Begin(r, [ByAdmin("status", t, None) EXCEPT !.status = status])

SubmitOfTutor(r, t) ==
  /\ tutor[t] # None
  /\ \/ Begin(r, BySelf("deleteTutor", tutor[t].auth, t, None))
     \/ Active(t) /\ Begin(r, BySelf("list", tutor[t].auth, t, None))
     \/ \E u \in Users \cap used :
          Active(t) /\ Begin(r, BySelf("staff", tutor[t].auth, t, u))

SubmitOfUser(r, u) ==
  /\ user[u] # None
  /\ \/ Begin(r, BySelf("deleteUser", user[u].auth, None, u))
     \/ \E t \in Tutors \cap used : Begin(r, BySelf("assign", user[u].auth, t, u))

SubmitOfAdmin(r, t, u) ==
  /\ t \in used
  /\ u \in used
  /\ \/ Begin(r, ByAdmin("deleteTutor", t, None))
     \/ Begin(r, ByAdmin("deleteUser", None, u))
     \/ Begin(r, ByAdmin("assign", t, u))
     \/ Begin(r, ByAdmin("staff", None, u))

\* updateTutor and updateOwnUser go straight to their document.
SubmitOwn(r, secret) ==
  \/ \E t \in Tutors : tutor[t] # None /\
       Begin(r, [BySelf("ownTutor", tutor[t].auth, t, None)
                   EXCEPT !.secret = secret, !.at = "findTutor"])
  \/ \E u \in Users : user[u] # None /\
       Begin(r, [BySelf("ownUser", user[u].auth, None, u)
                   EXCEPT !.secret = secret, !.at = "findUser"])

-----------------------------------------------------------------------------
(* The lock, and the check of the actor inside it *)

Enter(r) ==
  /\ job[r].at = "waiting"
  /\ inside = None
  /\ inside' = r /\ crossed' = FALSE
  /\ Goto(r, "check")
  /\ UNCHANGED <<tutor, user, used, cut>>

\* The actor in the version of its session; a tutor that is to read or update
\* its users also still active.  deleteUser reads the actor as its target.
MayAct(r) ==
  job[r].by = "self" =>
    CASE job[r].op = "assign" ->
           user[job[r].user] # None /\ user[job[r].user].auth = job[r].seen
      [] job[r].op = "deleteTutor" ->
           tutor[job[r].tutor] # None /\ tutor[job[r].tutor].auth = job[r].seen
      [] job[r].op \in {"staff", "list"} ->
           Active(job[r].tutor) /\ tutor[job[r].tutor].auth = job[r].seen
      [] OTHER -> TRUE

Checked(r) ==
  CASE job[r].op \in {"status", "deleteTutor"} -> "findTutor"
    [] job[r].op = "assign" -> "checkTutor"
    [] job[r].op = "list" -> "send"
    [] job[r].op \in {"staff", "deleteUser"} -> "findUser"

Check(r) ==
  /\ job[r].at = "check"
  /\ MayAct(r)
  /\ Goto(r, Checked(r))
  /\ UNCHANGED <<tutor, user, used, lock, cut>>

-----------------------------------------------------------------------------
(* Reads *)

\* Tutor.exists({_id, status: "active"}).
CheckTutor(r) ==
  /\ job[r].at = "checkTutor"
  /\ Active(job[r].tutor)
  /\ Goto(r, "findUser")
  /\ UNCHANGED <<tutor, user, used, lock, cut>>

\* updateTutorStatus answers at once when the tutor has the status already.
FindTutor(r) ==
  LET doc == tutor[job[r].tutor] IN
  /\ job[r].at = "findTutor"
  /\ doc # None
  /\ IF job[r].op = "status" /\ doc.status = job[r].status
     THEN Answer(r)
     ELSE /\ job' = [job EXCEPT ![r].doc = doc,
                       ![r].at = IF job[r].op = "deleteTutor" THEN "unassign" ELSE "saveTutor",
                       ![r].todo = Users]
          /\ UNCHANGED lock
  /\ UNCHANGED <<tutor, user, used, cut>>

\* A tutor finds only its own users; a user that deletes itself is found in the
\* version of its session.
FindUser(r) ==
  LET doc == user[job[r].user] IN
  /\ job[r].at = "findUser"
  /\ doc # None
  /\ job[r].op = "staff" /\ job[r].by = "self" => doc.tutor = job[r].tutor
  /\ job[r].op = "deleteUser" /\ job[r].by = "self" => doc.auth = job[r].seen
  /\ job' = [job EXCEPT ![r].doc = doc,
               ![r].at = IF job[r].op = "deleteUser" THEN "deleteUser" ELSE "saveUser"]
  /\ UNCHANGED <<tutor, user, used, lock, cut>>

\* getUsersOfTutor sends the directory while it has the lock.
Send(r) ==
  /\ job[r].at = "send"
  /\ Answer(r)
  /\ UNCHANGED <<tutor, user, used, cut>>

-----------------------------------------------------------------------------
(* Writes.  A save finds its document only in the version it was loaded, and *)
(* sets only the paths that were modified.                                   *)

FreshTutor(r) ==
  /\ tutor[job[r].tutor] # None
  /\ tutor[job[r].tutor].version = job[r].doc.version

FreshUser(r) ==
  /\ user[job[r].user] # None
  /\ user[job[r].user].version = job[r].doc.version

SavedTutor(r) ==
  LET old == tutor[job[r].tutor] IN
  [status |-> IF job[r].op = "status" THEN job[r].status ELSE old.status,
   auth |-> IF job[r].op = "status" \/ job[r].secret THEN job[r].doc.auth + 1 ELSE old.auth,
   version |-> old.version + 1]

SavedUser(r) ==
  LET old == user[job[r].user] IN
  [tutor |-> IF job[r].op = "assign" THEN job[r].tutor ELSE old.tutor,
   auth |-> IF job[r].secret THEN job[r].doc.auth + 1 ELSE old.auth,
   version |-> old.version + 1]

\* A request that is neither in the lock nor a profile update has given up.
Due(r, step) == job[r].at = step /\ ~GivenUp(r)

\* What follows the save of a tutor: a suspension goes on to its users.
AfterStatus(r) ==
  IF job[r].op = "status" /\ job[r].status = "suspended" THEN "unassign" ELSE "done"

SaveTutor(r) ==
  /\ Due(r, "saveTutor")
  /\ FreshTutor(r)
  /\ tutor' = [tutor EXCEPT ![job[r].tutor] = SavedTutor(r)]
  /\ Goto(r, AfterStatus(r))
  /\ IF AfterStatus(r) = "done" THEN Leave(r) ELSE UNCHANGED lock
  /\ UNCHANGED <<user, used, cut>>

\* Nothing is saved of a user that has the chosen tutor already.
Unmodified(r) == job[r].op = "assign" /\ job[r].doc.tutor = job[r].tutor

SaveUser(r) ==
  /\ Due(r, "saveUser")
  /\ IF Unmodified(r) THEN UNCHANGED user
     ELSE FreshUser(r) /\ user' = [user EXCEPT ![job[r].user] = SavedUser(r)]
  /\ Answer(r)
  /\ UNCHANGED <<tutor, used, cut>>

\* updateMany reaches the user documents one after the other, without __v.
Visit(r, u) ==
  /\ u \in job[r].todo
  /\ job' = [job EXCEPT ![r].todo = @ \ {u}]
  /\ user' = IF Assigned(u, job[r].tutor) THEN [user EXCEPT ![u].tutor = None] ELSE user
  /\ UNCHANGED <<tutor, used, cut>>

Unassign(r, u) == Due(r, "unassign") /\ Visit(r, u) /\ UNCHANGED lock

Unassigned(r) ==
  /\ Due(r, "unassign")
  /\ job[r].todo = {}
  /\ cut' = IF \E u \in Users : Assigned(u, job[r].tutor) THEN cut ELSE cut \ {job[r].tutor}
  /\ IF job[r].op = "status" THEN Answer(r) ELSE Goto(r, "deleteTutor") /\ UNCHANGED lock
  /\ UNCHANGED <<tutor, user, used>>

DeleteTutor(r) ==
  /\ Due(r, "deleteTutor")
  /\ tutor' = [tutor EXCEPT ![job[r].tutor] = None]
  /\ Answer(r)
  /\ UNCHANGED <<user, used, cut>>

DeleteUser(r) ==
  /\ Due(r, "deleteUser")
  /\ user' = [user EXCEPT ![job[r].user] = None]
  /\ Answer(r)
  /\ UNCHANGED <<tutor, used, cut>>

-----------------------------------------------------------------------------
(* Failures *)

\* A check, a read or a write fails, or the process stops: the request ends
\* there and what it has written stays.  A write that was given up is lost.
Fail(r) ==
  /\ job[r].at \notin {"idle", "done", "failed"}
  /\ Goto(r, "failed")
  /\ Leave(r)
  /\ cut' = IF Due(r, "unassign") THEN cut \cup {job[r].tutor} ELSE cut
  /\ UNCHANGED <<tutor, user, used>>

\* The call of a write times out: the request is answered with an error and
\* leaves the lock, the write is on its way (databaseCapacity.ts:11).
TimeOut(r) ==
  /\ inside = r /\ job[r].at \in Writes
  /\ Leave(r)
  /\ cut' = IF job[r].at = "unassign" THEN cut \cup {job[r].tutor} ELSE cut
  /\ UNCHANGED <<tutor, user, used, job>>

\* The lock is with a request that has begun to unassign the users of t.
Emptying(t) ==
  \E r \in Requests :
    inside = r /\ job[r].tutor = t /\ job[r].at \in {"unassign", "deleteTutor"}

\* A write that was given up is carried out.  What follows it in its handler
\* is not: a tutor is suspended or deleted whose users nobody unassigns, a user
\* gets a tutor that may have been suspended or deleted meanwhile.
HappensLate(r) ==
  GivenUp(r) /\ crossed' = (inside # None) /\ UNCHANGED <<used, inside>>

LateTutor(r) ==
  /\ HappensLate(r) /\ job[r].at = "saveTutor"
  /\ FreshTutor(r)
  /\ tutor' = [tutor EXCEPT ![job[r].tutor] = SavedTutor(r)]
  /\ Goto(r, "failed")
  /\ cut' = IF AfterStatus(r) = "unassign" THEN cut \cup {job[r].tutor} ELSE cut
  /\ UNCHANGED user

LateUser(r) ==
  /\ HappensLate(r) /\ job[r].at = "saveUser"
  /\ ~Unmodified(r) /\ FreshUser(r)
  /\ user' = [user EXCEPT ![job[r].user] = SavedUser(r)]
  /\ Goto(r, "failed")
  /\ cut' = IF job[r].op = "assign" /\ (Emptying(job[r].tutor) \/ ~Active(job[r].tutor))
            THEN cut \cup {job[r].tutor} ELSE cut
  /\ UNCHANGED tutor

LateUnassign(r, u) == HappensLate(r) /\ job[r].at = "unassign" /\ Visit(r, u)

LateDeletion(r) ==
  /\ HappensLate(r)
  /\ \/ /\ job[r].at = "deleteTutor"
        /\ tutor' = [tutor EXCEPT ![job[r].tutor] = None]
        /\ cut' = cut \cup {job[r].tutor}
        /\ UNCHANGED user
     \/ /\ job[r].at = "deleteUser"
        /\ user' = [user EXCEPT ![job[r].user] = None]
        /\ UNCHANGED <<tutor, cut>>
  /\ Goto(r, "failed")

-----------------------------------------------------------------------------
Submit(r) ==
  \/ \E t \in Tutors : SubmitOfTutor(r, t)
  \/ \E t \in Tutors, status \in {"active", "suspended"} : SubmitStatus(r, t, status)
  \/ \E u \in Users : SubmitOfUser(r, u)
  \/ \E t \in Tutors, u \in Users : SubmitOfAdmin(r, t, u)
  \/ \E secret \in BOOLEAN : SubmitOwn(r, secret)

Step(r) ==
  \/ Enter(r) \/ Check(r) \/ CheckTutor(r) \/ FindTutor(r) \/ FindUser(r) \/ Send(r)
  \/ SaveTutor(r) \/ SaveUser(r) \/ Unassigned(r) \/ DeleteTutor(r) \/ DeleteUser(r)
  \/ \E u \in Users : Unassign(r, u)

Failure(r) ==
  \/ Fail(r) \/ TimeOut(r)
  \/ LateTutor(r) \/ LateUser(r) \/ LateDeletion(r) \/ \E u \in Users : LateUnassign(r, u)

Next ==
  \/ \E t \in Tutors : SignUpTutor(t)
  \/ \E u \in Users : SignUpUser(u)
  \/ \E r \in Requests : Submit(r) \/ Step(r) \/ Failure(r)

Spec == Init /\ [][Next]_vars

-----------------------------------------------------------------------------
(* Properties *)

\* Types of the variables.
TypeOK ==
  /\ tutor \in [Tutors -> TutorDocument \cup {None}]
  /\ user \in [Users -> UserDocument \cup {None}]
  /\ used \in SUBSET (Tutors \cup Users)
  /\ job \in [Requests ->
       [op : {"none", "status", "deleteTutor", "assign", "staff", "list", "deleteUser",
              "ownTutor", "ownUser"},
        by : {"admin", "self"}, seen : Nat, tutor : Tutors \cup {None},
        user : Users \cup {None}, status : {"active", "suspended"}, secret : BOOLEAN,
        doc : TutorDocument \cup UserDocument \cup {None}, todo : SUBSET Users,
        at : {"idle", "waiting", "check", "checkTutor", "findTutor", "findUser", "send",
              "saveTutor", "saveUser", "unassign", "deleteTutor", "deleteUser",
              "done", "failed"}]]
  /\ inside \in Requests \cup {None}
  /\ crossed \in BOOLEAN
  /\ cut \in SUBSET Tutors

\* The tutor of a user has been approved at some time, and exists unless a
\* failure kept its users, however saves of users cross a deletion.
AssignedWasApproved ==
  \A u \in Users, t \in Tutors : Assigned(u, t) =>
    IF tutor[t] = None THEN t \in cut ELSE tutor[t].status # "pending"

\* With nobody inside the lock, the tutor of a user is active, unless a failure
\* kept its users.
AssignedIsActive ==
  inside = None =>
    \A u \in Users, t \in Tutors : Assigned(u, t) => Active(t) \/ t \in cut

\* A tutor that has the lock reads and updates only users that are assigned to
\* it, while it is active, at the moment the read or the write happens, unless
\* a write that was given up before is carried out at the same time.
TutorsActOnTheirUsers ==
  \A r \in Requests : job[r].by = "self" /\ inside = r /\ ~crossed =>
    /\ job[r].op = "staff" /\ job[r].at = "saveUser" =>
         Active(job[r].tutor) /\ Assigned(job[r].user, job[r].tutor)
    /\ job[r].at = "send" => Active(job[r].tutor)

\* Every change of a tutor's status gets an authorization version higher than
\* all before it, also when a credential change of the tutor runs next to it.
StatusChangeRevokes ==
  [][\A t \in Tutors : tutor[t] # None /\ tutor'[t] # None =>
       /\ tutor'[t].auth >= tutor[t].auth
       /\ tutor'[t].status # tutor[t].status => tutor'[t].auth > tutor[t].auth]_vars

\* However saves of users cross a suspension or a deletion of their tutor: a
\* user's tutor has been approved at some time and, with nobody inside the lock,
\* exists and is active.  Only two failures leave users with another tutor: an
\* unassignment that did not end well, and a suspension, deletion or assignment
\* that the database carried out after its request had given it up.
AssignedIsFit == AssignedWasApproved /\ AssignedIsActive

\* A tutor acts only on users assigned to it, while it is active, and a change of
\* its status revokes its sessions.
TutorsAct == []TutorsActOnTheirUsers /\ StatusChangeRevokes

\* docs/security-audit-2026-07-29.md: tutor suspension unassigns users; when a
\* suspension is answered with success, no user has the tutor any more.
SuspensionUnassigns ==
  [][\A r \in Requests :
       /\ job[r].op = "status" /\ job[r].status = "suspended"
       /\ job[r].at # "done" /\ job'[r].at = "done"
       => \A u \in Users : ~Assigned(u, job[r].tutor)']_vars
=============================================================================
