---------------------------- MODULE AdminManagement ----------------------------
(***************************************************************************)
(* Who is an administrator and who may manage administrators:              *)
(* back-end/src/controllers/users/adminController.ts, the operator         *)
(* commands create-admin-user.ts, grant-admin-manager.ts and               *)
(* reset-account-password.ts, and what updateAccount does to an admin.     *)
(*                                                                         *)
(* Every database call of a handler is a step of its own.  Whoever uses    *)
(* withAuthorizationWorkflowLock is alone in it: AdminWorkflow shows this  *)
(* of the requests to the API, and of a command that runs next to them     *)
(* while no lease lapses, which is what exclusive maintenance provides.    *)
(* A password reset takes no lock.                                         *)
(***************************************************************************)
EXTENDS FiniteSets, Naturals

CONSTANTS
  Admins,     \* admin ids, never used twice
  Requests,   \* requests to the API, each made at most once
  Commands,   \* operator commands, each run at most once
  None        \* no document, no request

ASSUME ManagementAssumption ==
  /\ None \notin Admins \cup Requests \cup Commands
  /\ Requests \cap Commands = {}
  /\ IsFiniteSet(Admins)

Jobs == Requests \cup Commands

VARIABLES
  account,   \* the document of each admin, or None
  used,      \* the admin ids that have been given out
  job,       \* what each job does and where it is
  inside,    \* the job inside withAuthorizationWorkflowLock
  late       \* the jobs whose save may still reach the database after they ended

vars == <<account, used, job, inside, late>>

Exists(a) == account[a] # None
Existing == {a \in Admins : Exists(a)}
Managers == {a \in Existing : account[a].manager}

\* `secret` stands for the credentials: who changed them last.
Fresh(manager) == [manager |-> manager, auth |-> 0, version |-> 0, secret |-> None]
Document == [manager : BOOLEAN, auth : Nat, version : Nat, secret : Jobs \cup {None}]

ASSUME NoneIsNoDocument == None \notin Document

\* op, actor and seen (the admin and authVersion of the session), the target
\* and what changes of it; then the document loaded and the count of admins.
Idle == [op |-> "none", actor |-> None, seen |-> 0, target |-> None, flag |-> "keep",
         secret |-> FALSE, doc |-> Fresh(FALSE), lone |-> FALSE, at |-> "idle"]

JobState ==
  [op : {"none", "create", "update", "delete", "bootstrap", "recover", "reset"},
   actor : Admins \cup {None}, seen : Nat, target : Admins \cup {None},
   flag : {"keep", "grant", "revoke"}, secret : BOOLEAN, doc : Document, lone : BOOLEAN,
   at : {"idle", "waiting", "authorize", "load", "check", "countAdmins", "countManagers",
         "write", "done"}]

Self(j) == job[j].actor = job[j].target

Init ==
  /\ \E S \in SUBSET Admins : \E M \in SUBSET S :
       /\ account = [a \in Admins |-> IF a \in S THEN Fresh(a \in M) ELSE None]
       /\ used = S
  /\ job = [j \in Jobs |-> Idle]
  /\ inside = None
  /\ late = {}

\* A job goes on to another step, leaves the lock, or ends.
Goto(j, step) == job' = [job EXCEPT ![j].at = step]
Leave(j) == inside' = IF inside = j THEN None ELSE inside
End(j) == job' = [job EXCEPT ![j] = [Idle EXCEPT !.at = "done"]] /\ Leave(j)

-----------------------------------------------------------------------------
(* Faulty variants of the operators below, each the code after a plausible   *)
(* slip; no specification uses them, they show what the properties detect.   *)

\* The workflow without its lock.
EnterAnyway(j) ==
  /\ job[j].at = "waiting"
  /\ inside' = j
  /\ Goto(j, IF j \in Requests THEN "authorize" ELSE "check")
  /\ UNCHANGED <<account, used, late>>

\* The count of all admins left out.
BlockedForManagersOnly(j) == job[j].doc.manager /\ Cardinality(Managers) <= 1

\* Only a change of the privilege asks for the privilege.
NeedsManagerForFlag(r) == job[r].flag # "keep"

\* A save that does not compare __v.
AppliesUnversioned(j) == job[j].op \in {"create", "bootstrap", "delete"} \/ Exists(job[j].target)

-----------------------------------------------------------------------------
(* A request, up to the lock *)

\* The session is valid: its version is that of the account at this moment.
Submit(r, op, a, t, flag, secret) ==
  /\ job[r].at = "idle"
  /\ Exists(a)
  /\ job' = [job EXCEPT ![r] = [Idle EXCEPT !.op = op, !.actor = a, !.seen = account[a].auth,
                                 !.target = t, !.flag = flag, !.secret = secret,
                                 !.at = "waiting"]]
  /\ UNCHANGED <<account, used, inside, late>>

NewId(a) == a \notin used /\ \A j \in Jobs : job[j].target # a

SubmitCreate(r, a, new, flag) ==
  /\ Exists(a) /\ account[a].manager
  /\ NewId(new)
  /\ flag \in {"keep", "grant"}
  /\ Submit(r, "create", a, new, flag, FALSE)

\* One's own name, credentials and, for a manager, privilege.
SubmitUpdateSelf(r, a, flag, secret) ==
  /\ Exists(a) /\ (flag # "keep" => account[a].manager)
  /\ Submit(r, "update", a, a, flag, secret)

\* Only the privilege of a peer can be changed, by a manager.
SubmitUpdatePeer(r, a, t, flag) ==
  /\ a # t /\ t \in used /\ flag # "keep"
  /\ Exists(a) /\ account[a].manager
  /\ Submit(r, "update", a, t, flag, FALSE)

SubmitDelete(r, a, t) == t \in used /\ Submit(r, "delete", a, t, "keep", FALSE)

-----------------------------------------------------------------------------
(* Inside the lock *)

Enter(j) ==
  /\ job[j].at = "waiting"
  /\ inside = None
  /\ inside' = j
  /\ Goto(j, IF j \in Requests THEN "authorize" ELSE "check")
  /\ UNCHANGED <<account, used, late>>

\* Where a job goes once its target is loaded.
Loaded(j, doc) ==
  CASE job[j].op = "delete" -> "countAdmins"
    [] job[j].op = "update" /\ doc.manager /\ job[j].flag = "revoke" -> "countManagers"
    [] OTHER -> "write"

NeedsManager(r) == job[r].op = "create" \/ ~Self(r) \/ job[r].flag # "keep"

\* The actor is read again: it must exist, in the version of its session, and
\* be a manager for anything but its own profile or account.
Authorize(r) ==
  LET a == job[r].actor IN
  /\ job[r].at = "authorize"
  /\ IF Exists(a) /\ account[a].auth = job[r].seen
        /\ (NeedsManager(r) => account[a].manager)
     THEN /\ job' = [job EXCEPT
               ![r].doc = IF Self(r) THEN account[a] ELSE @,
               ![r].at = IF Self(r) THEN Loaded(r, account[a])
                         ELSE IF job[r].op = "create" THEN "write" ELSE "load"]
          /\ UNCHANGED inside
     ELSE End(r)
  /\ UNCHANGED <<account, used, late>>

Load(j) ==
  LET t == job[j].target IN
  /\ job[j].at = "load"
  /\ IF Exists(t)
     THEN /\ job' = [job EXCEPT ![j].doc = account[t], ![j].at = Loaded(j, account[t])]
          /\ UNCHANGED inside
     ELSE End(j)
  /\ UNCHANGED <<account, used, late>>

\* deleteAdmin counts the admins and then the managers.
CountAdmins(r) ==
  /\ job[r].at = "countAdmins"
  /\ job' = [job EXCEPT ![r].lone = Cardinality(Existing) <= 1, ![r].at = "countManagers"]
  /\ UNCHANGED <<account, used, inside, late>>

LastManager(j) == job[j].doc.manager /\ Cardinality(Managers) <= 1

\* adminRemovalBlockReason; updateAdmin asks only about managers.
Blocked(r) == job[r].lone \/ LastManager(r)

CountManagers(r) ==
  /\ job[r].at = "countManagers"
  /\ IF Blocked(r) THEN End(r) ELSE Goto(r, "write") /\ UNCHANGED inside
  /\ UNCHANGED <<account, used, late>>

-----------------------------------------------------------------------------
(* The write of a job *)

NewFlag(j) == IF job[j].flag = "keep" THEN job[j].doc.manager ELSE job[j].flag = "grant"
FlagChanges(j) == NewFlag(j) # job[j].doc.manager

\* A peer who has the privilege already, or has not: there is nothing to save.
Unmodified(j) == job[j].op = "update" /\ ~Self(j) /\ ~FlagChanges(j)

\* A save finds its document only in the version it was loaded.
Applies(j) ==
  \/ job[j].op \in {"create", "bootstrap", "delete"}
  \/ /\ Exists(job[j].target)
     /\ Unmodified(j) \/ account[job[j].target].version = job[j].doc.version

\* The paths a save sets: authVersion to one more than the version loaded.
Saved(j) ==
  LET old == account[job[j].target] IN
  IF Unmodified(j) THEN old
  ELSE [manager |-> IF FlagChanges(j) THEN NewFlag(j) ELSE old.manager,
        auth |-> IF FlagChanges(j) \/ job[j].secret THEN job[j].doc.auth + 1 ELSE old.auth,
        version |-> old.version + 1,
        secret |-> IF job[j].secret THEN j ELSE old.secret]

Write(j) ==
  LET t == job[j].target IN
  /\ account' = [account EXCEPT ![t] =
       CASE job[j].op \in {"create", "bootstrap"} -> Fresh(job[j].flag = "grant")
         [] job[j].op = "delete" -> None
         [] OTHER -> Saved(j)]
  /\ used' = used \cup {t}

Commit(j) ==
  /\ job[j].at = "write"
  /\ Applies(j)
  /\ Write(j)
  /\ End(j)
  /\ UNCHANGED late

\* An error ends a job wherever it is: a refused lock, a wrong current
\* password, a stale version, a database call that failed.
Fail(j) ==
  /\ job[j].at \notin {"idle", "done"}
  /\ End(j)
  /\ UNCHANGED <<account, used, late>>

-----------------------------------------------------------------------------
(* Operator commands *)

Begin(c, op, t, flag, secret, step) ==
  /\ job[c].at = "idle"
  /\ job' = [job EXCEPT ![c] = [Idle EXCEPT !.op = op, !.target = t, !.flag = flag,
                                 !.secret = secret, !.at = step]]
  /\ UNCHANGED <<account, used, inside, late>>

\* create-admin-user: only while there is no admin.
BeginBootstrap(c, new) == NewId(new) /\ Begin(c, "bootstrap", new, "grant", FALSE, "waiting")

\* grant-admin-manager: only while there is no manager.
BeginRecover(c, t) == t \in used /\ Begin(c, "recover", t, "grant", FALSE, "waiting")

\* reset-account-password: without the lock, and with the operator's input
\* between loading the account and saving it.
BeginReset(c, t) == t \in used /\ Begin(c, "reset", t, "keep", TRUE, "load")

Check(c) ==
  /\ job[c].at = "check"
  /\ \/ /\ job[c].op = "bootstrap"
        /\ IF Cardinality(Existing) # 0 THEN End(c) ELSE Goto(c, "write") /\ UNCHANGED inside
     \/ /\ job[c].op = "recover"
        /\ IF Cardinality(Managers) > 0 THEN End(c) ELSE Goto(c, "load") /\ UNCHANGED inside
  /\ UNCHANGED <<account, used, late>>

-----------------------------------------------------------------------------
RequestNext(r) ==
  \/ \E a, t \in Admins, flag \in {"keep", "grant", "revoke"} :
       \/ SubmitCreate(r, a, t, flag) \/ SubmitUpdatePeer(r, a, t, flag)
       \/ SubmitDelete(r, a, t)
  \/ \E a \in Admins, flag \in {"keep", "grant", "revoke"}, secret \in BOOLEAN :
       SubmitUpdateSelf(r, a, flag, secret)
  \/ Authorize(r) \/ CountAdmins(r) \/ CountManagers(r)

CommandNext(c) ==
  \/ \E t \in Admins : BeginBootstrap(c, t) \/ BeginRecover(c, t) \/ BeginReset(c, t)
  \/ Check(c)

Next ==
  \/ \E r \in Requests : RequestNext(r)
  \/ \E c \in Commands : CommandNext(c)
  \/ \E j \in Jobs : Enter(j) \/ Load(j) \/ Commit(j) \/ Fail(j)

Spec == Init /\ [][Next]_vars

\* Outside Spec: the call times out, the request ends and gives up the slot,
\* and the database carries the save out later.
TimeOut(j) ==
  /\ job[j].at = "write"
  /\ late' = late \cup {j}
  /\ Goto(j, "done")
  /\ Leave(j)
  /\ UNCHANGED <<account, used>>

HappenLate(j) ==
  /\ j \in late
  /\ Applies(j)
  /\ Write(j)
  /\ late' = late \ {j}
  /\ UNCHANGED <<job, inside>>

DelayedNext == Next \/ \E j \in Jobs : TimeOut(j) \/ HappenLate(j)
DelayedSpec == Init /\ [][DelayedNext]_vars

-----------------------------------------------------------------------------
(* Properties *)

\* Types of the variables.
TypeOK ==
  /\ account \in [Admins -> Document \cup {None}]
  /\ used \in SUBSET Admins
  /\ job \in [Jobs -> JobState]
  /\ inside \in Jobs \cup {None}
  /\ late \in SUBSET Jobs

\* README.md: the final admin manager cannot be removed or demoted, however
\* requests that each saw two managers cross.
KeepsManager == [][Managers # {} => Managers' # {}]_vars

\* README.md: the final admin cannot be removed, be it a manager or not.
KeepsAdmin == [][Existing # {} => Existing' # {}]_vars

\* Both halves of README.md's "The final admin and final admin manager cannot be
\* removed or demoted".
KeepsLast == KeepsAdmin /\ KeepsManager

\* A create, a delete of a peer and a change of a peer's privilege reach the
\* database only from an actor who is a manager at that very moment.
Peer(r) == job[r].op = "create" \/ ~Self(r)

ActorIsManager ==
  \A r \in Requests : job[r].at = "write" /\ Peer(r) => job[r].actor \in Managers

\* Every change of credentials or privilege gets an authorization version of
\* its own, higher than all before it, also when a password reset runs next to
\* the request: no session from before the change is current again.
ChangesRevoke ==
  [][\A a \in Admins : Exists(a) /\ account'[a] # None =>
       /\ account'[a].auth >= account[a].auth
       /\ account'[a].manager # account[a].manager \/ account'[a].secret # account[a].secret =>
            account'[a].auth > account[a].auth]_vars
=============================================================================
