-------------------------------- MODULE Sessions --------------------------------
(***************************************************************************)
(* Which session is valid after which change: back-end/src/middleware/     *)
(* auth.ts, security/session.ts, security/csrf.ts, controllers/auth/, and  *)
(* what the handlers of own updates, sign-ups and deletions do to the      *)
(* session of their request.                                               *)
(*                                                                         *)
(* A request works on the copy of the session it loaded when it arrived.   *)
(* It saves its copy, under the id it has by then, whether or not the      *)
(* store still holds that id.  A session is valid while the authVersion it *)
(* carries is that of its account.  Every call of the database or of the   *)
(* session store is a step, and may fail.                                  *)
(***************************************************************************)
EXTENDS Naturals

CONSTANTS
  Admins, Others,   \* account ids by what their own update checks, never used twice
  Requests,         \* requests to the API, each made at most once
  Sids,             \* session ids, never generated twice
  None,             \* no account, no owner, no session
  Unused,           \* the holder of an id that has not been generated
  MaxAuth           \* bound: changes elsewhere stop at this authVersion

ASSUME SessionsAssumption ==
  /\ None \notin Admins \cup Others \cup Sids
  /\ Unused \notin Admins \cup Others \cup {None}
  /\ MaxAuth \in Nat

Accounts == Admins \cup Others

VARIABLES
  account,   \* the document of each account, or None
  used,      \* the account ids that have been given out
  store,     \* the session stored under each id, or None
  holder,    \* the account (or None) each id was generated for
  job,       \* what each request does and where it is
  crossed,   \* ghost: ids whose own update met another authVersion than its session's
  closed     \* ghost: ids whose logout has been confirmed

vars == <<account, used, store, holder, job, crossed, closed>>

Document == [auth : Nat, version : Nat]
New == [auth |-> 0, version |-> 0]

\* `proof` is a ghost: the authVersion whose credentials the client has proved
\* to know, or has set itself.
Session == [owner : Accounts \cup {None}, auth : Nat, proof : Nat]
Of(a, auth, proof) == [owner |-> a, auth |-> auth, proof |-> proof]
Anonymous == Of(None, 0, 0)

ASSUME NoneIsNoRecord == None \notin Document \cup Session

Idle == [op |-> "none", sid |-> None, sess |-> Anonymous, doc |-> New, at |-> "idle"]

Ops == {"none", "csrf", "login", "signup", "read", "own", "delete", "logout"}
Steps == {"idle", "hydrate", "clear", "find", "create", "load", "edit", "check", "remove",
          "destroy", "regenerate", "save", "done"}
JobState == [op : Ops, sid : Sids \cup {None}, sess : Session, doc : Document, at : Steps]

Exists(a) == account[a] # None
Stored(s) == store[s] # None
Fresh(s) == holder[s] = Unused
Current(sess) == sess.owner # None /\ Exists(sess.owner) /\ sess.auth = account[sess.owner].auth

Init ==
  /\ \E A \in SUBSET Accounts :
       /\ account = [a \in Accounts |-> IF a \in A THEN New ELSE None]
       /\ used = A
       /\ holder \in [Sids -> A \cup {None, Unused}]
  /\ store = [s \in Sids |-> IF Fresh(s) THEN None ELSE Of(holder[s], 0, 0)]
  /\ job = [r \in Requests |-> Idle]
  /\ crossed = {}
  /\ closed = {}

\* A request goes on to another step, or is answered.
Goto(r, step) == job' = [job EXCEPT ![r].at = step]
Carry(r, sess, step) ==
  job' = [job EXCEPT ![r] = [@ EXCEPT !.sess = sess, !.doc = New, !.at = step]]
End(r) == job' = [job EXCEPT ![r] = [Idle EXCEPT !.at = "done"]]
Remove(s) == store' = [store EXCEPT ![s] = None]

-----------------------------------------------------------------------------
(* Faulty variants of the operators below, each the code after a plausible   *)
(* slip; no specification uses them, they show what the properties detect.   *)

\* The admin is found by its id alone.
MayLoadAny(r) == Exists(job[r].sess.owner)

\* The authVersion of the account at the time of the save.
SavedAtCurrentVersion(r) ==
  LET a == job[r].sess.owner IN
    IF a # None /\ Exists(a) THEN [job[r].sess EXCEPT !.auth = account[a].auth] ELSE job[r].sess

\* The session is not regenerated: the identity is put into the one there is.
RegenerateInPlace(r) ==
  /\ job[r].at = "regenerate"
  /\ Goto(r, "save")
  /\ UNCHANGED <<account, used, store, holder, crossed, closed>>

-----------------------------------------------------------------------------
(* A request arrives with a cookie *)

\* The store holds a session under the id of the cookie.  Otherwise the
\* request has a new and empty one: no CSRF token, no identity.
Loads(r, s) == job[r].at = "idle" /\ Stored(s)

Begin(r, op, s, step) ==
  /\ job' = [job EXCEPT ![r] = [Idle EXCEPT !.op = op, !.sid = s, !.at = step,
               !.sess = IF Stored(s) THEN store[s] ELSE Anonymous]]
  /\ UNCHANGED <<account, used, store, crossed, closed>>

\* getCsrfToken saves the session it got, whatever it is.
ArriveCsrf(r, s) ==
  \/ Loads(r, s) /\ Begin(r, "csrf", s, "save") /\ UNCHANGED holder
  \/ /\ job[r].at = "idle" /\ Fresh(s)
     /\ Begin(r, "csrf", s, "save")
     /\ holder' = [holder EXCEPT ![s] = None]

\* A mutation needs the CSRF token of a stored session.
ArriveLogin(r, s) ==
  Loads(r, s) /\ Begin(r, "login", s, "find") /\ UNCHANGED holder

ArriveSignup(r, s) ==
  /\ Loads(r, s)
  /\ Begin(r, "signup", s, IF store[s].owner = None THEN "create" ELSE "hydrate")
  /\ UNCHANGED holder

\* Every other route that looks at the identity: optionalPrincipal, validPrincipal.
ArriveAuthenticated(r, s) ==
  /\ Loads(r, s)
  /\ store[s].owner # None
  /\ \E op \in {"read", "own", "delete", "logout"} : Begin(r, op, s, "hydrate")
  /\ UNCHANGED holder

Arrive(r, s) ==
  ArriveCsrf(r, s) \/ ArriveLogin(r, s) \/ ArriveSignup(r, s) \/ ArriveAuthenticated(r, s)

-----------------------------------------------------------------------------
(* hydratePrincipal *)

\* Where a valid session leads: a read and the refused sign-up end here.
Admit(r) ==
  CASE job[r].op = "logout" -> Goto(r, "destroy")
    [] job[r].op = "delete" -> Goto(r, "check")
    [] job[r].op = "own" -> Goto(r, "load")
    [] OTHER -> End(r)

Hydrate(r) ==
  /\ job[r].at = "hydrate"
  /\ IF Current(job[r].sess) THEN Admit(r) ELSE Goto(r, "clear")
  /\ UNCHANGED <<account, used, store, holder, crossed, closed>>

\* A sign-up goes on with an empty session, everything else is refused.
Clear(r) ==
  /\ job[r].at = "clear"
  /\ Remove(job[r].sid)
  /\ IF job[r].op = "signup" THEN Carry(r, Anonymous, "create") ELSE End(r)
  /\ UNCHANGED <<account, used, holder, crossed, closed>>

-----------------------------------------------------------------------------
(* login and sign-up *)

Authenticated(a, doc) == Of(a, doc.auth, doc.auth)

\* The password is compared with the document that was read; the identity is
\* taken from the same document.
Find(r, a) ==
  /\ job[r].at = "find"
  /\ Exists(a)
  /\ Carry(r, Authenticated(a, account[a]), "regenerate")
  /\ UNCHANGED <<account, used, store, holder, crossed, closed>>

Create(r, a) ==
  /\ job[r].at = "create"
  /\ a \in Others \ used
  /\ used' = used \cup {a}
  /\ account' = [account EXCEPT ![a] = New]
  /\ Carry(r, Authenticated(a, New), "regenerate")
  /\ UNCHANGED <<store, holder, crossed, closed>>

-----------------------------------------------------------------------------
(* Own updates: updateOwnUser, updateTutor, updateAdmin *)

\* An admin is compared again inside the lock; a user or tutor is read by id.
MayLoad(r) ==
  LET a == job[r].sess.owner IN
    Exists(a) /\ (a \in Admins => account[a].auth = job[r].sess.auth)

Load(r) ==
  /\ job[r].at = "load"
  /\ MayLoad(r)
  /\ job' = [job EXCEPT ![r].doc = account[job[r].sess.owner], ![r].at = "edit"]
  /\ crossed' = IF Current(job[r].sess) THEN crossed ELSE crossed \cup {job[r].sid}
  /\ UNCHANGED <<account, used, store, holder, closed>>

\* The request asks for a change with the current password, one that changes
\* the authVersion, one that changes the document at all.
Edits == {e \in [proves : BOOLEAN, bumps : BOOLEAN, modifies : BOOLEAN] : e.bumps => e.modifies}

\* Only an admin has something other than credentials, the privilege, that counts.
Allowed(a, e) == e.bumps => e.proves \/ a \in Admins

\* A save of modified paths finds the version that was loaded; one without
\* only looks whether the document exists.
Applies(r, e) ==
  LET a == job[r].sess.owner IN
    Exists(a) /\ (e.modifies => account[a].version = job[r].doc.version)

\* The identity for the session: the authVersion of the saved document.  Only
\* a change with the current password proves it; a change of one's own
\* privilege keeps a session as proved as it was.
Updated(r, e) ==
  LET sess == job[r].sess
      more == IF e.bumps THEN 1 ELSE 0
      auth == job[r].doc.auth + more
  IN Of(sess.owner, auth, IF e.proves THEN auth ELSE sess.proof + more)

SaveAccount(r, e) ==
  LET a == job[r].sess.owner IN
  /\ job[r].at = "edit"
  /\ Allowed(a, e)
  /\ Applies(r, e)
  /\ account' = IF e.modifies
                  THEN [account EXCEPT ![a] = [auth |-> Updated(r, e).auth,
                                               version |-> @.version + 1]]
                  ELSE account
  /\ Carry(r, Updated(r, e), IF e.proves THEN "regenerate" ELSE "save")
  /\ UNCHANGED <<used, store, holder, crossed, closed>>

-----------------------------------------------------------------------------
(* The session is regenerated, saved, destroyed *)

\* The old id is destroyed and a new one generated for the owner.
Regenerate(r) ==
  /\ job[r].at = "regenerate"
  /\ Remove(job[r].sid)
  /\ \E s \in Sids :
       /\ Fresh(s)
       /\ holder' = [holder EXCEPT ![s] = job[r].sess.owner]
       /\ job' = [job EXCEPT ![r].sid = s, ![r].at = "save"]
  /\ UNCHANGED <<account, used, crossed, closed>>

\* What is stored is the copy of the request with the identity it was given.
Saved(r) == job[r].sess

SaveSession(r) ==
  /\ job[r].at = "save"
  /\ store' = [store EXCEPT ![job[r].sid] = Saved(r)]
  /\ End(r)
  /\ UNCHANGED <<account, used, holder, crossed, closed>>

\* Every self-deletion compares the version inside the lock, then deletes by id.
CheckOwner(r) ==
  /\ job[r].at = "check"
  /\ Current(job[r].sess)
  /\ Goto(r, "remove")
  /\ UNCHANGED <<account, used, store, holder, crossed, closed>>

RemoveOwner(r) ==
  /\ job[r].at = "remove"
  /\ account' = [account EXCEPT ![job[r].sess.owner] = None]
  /\ Goto(r, "destroy")
  /\ UNCHANGED <<used, store, holder, crossed, closed>>

Destroy(r) ==
  /\ job[r].at = "destroy"
  /\ Remove(job[r].sid)
  /\ closed' = IF job[r].op = "logout" THEN closed \cup {job[r].sid} ELSE closed
  /\ End(r)
  /\ UNCHANGED <<account, used, holder, crossed>>

\* A refusal, or an error of the database or the store.  A step of a request is
\* the moment its call takes effect, not the moment it is answered: a request
\* that was answered with an error while a save, a deletion or a destruction was
\* still on its way stands at that step until the call is carried out, however
\* late, and then fails, or never is carried out.  Nothing else here knows that a
\* request has ended.
Fail(r) ==
  /\ job[r].at \notin {"idle", "done"}
  /\ End(r)
  /\ UNCHANGED <<account, used, store, holder, crossed, closed>>

-----------------------------------------------------------------------------
(* Elsewhere *)

\* A manager grants or revokes, a tutor is approved or suspended, an operator
\* resets a password: a save of the account with the next authVersion.
ChangeElsewhere(a) ==
  /\ Exists(a)
  /\ account[a].auth < MaxAuth
  /\ account' = [account EXCEPT ![a] = [auth |-> @.auth + 1, version |-> @.version + 1]]
  /\ UNCHANGED <<used, store, holder, job, crossed, closed>>

DeleteElsewhere(a) ==
  /\ Exists(a)
  /\ account' = [account EXCEPT ![a] = None]
  /\ UNCHANGED <<used, store, holder, job, crossed, closed>>

\* The store drops a session whose time is over.
Expire(s) ==
  /\ Stored(s)
  /\ Remove(s)
  /\ UNCHANGED <<account, used, holder, job, crossed, closed>>

-----------------------------------------------------------------------------
Step(r) ==
  \/ \E s \in Sids : Arrive(r, s)
  \/ \E a \in Accounts : Find(r, a) \/ Create(r, a)
  \/ Hydrate(r) \/ Clear(r)
  \/ Load(r) \/ \E e \in Edits : SaveAccount(r, e)
  \/ Regenerate(r) \/ SaveSession(r)
  \/ CheckOwner(r) \/ RemoveOwner(r) \/ Destroy(r)
  \/ Fail(r)

Next ==
  \/ \E r \in Requests : Step(r)
  \/ \E a \in Accounts : ChangeElsewhere(a) \/ DeleteElsewhere(a)
  \/ \E s \in Sids : Expire(s)

Spec == Init /\ [][Next]_vars

-----------------------------------------------------------------------------
(* Properties *)

\* The variables have their types: every request has a session, if an empty one.
TypeOK ==
  /\ account \in [Accounts -> Document \cup {None}]
  /\ used \in SUBSET Accounts
  /\ store \in [Sids -> Session \cup {None}]
  /\ holder \in [Sids -> Accounts \cup {None, Unused}]
  /\ job \in [Requests -> JobState]
  /\ crossed \in SUBSET Sids
  /\ closed \in SUBSET Sids

\* A session that is valid for an admin belongs to a client that has proved
\* the admin's present credentials, or has changed them itself: updateAdmin
\* compares the version inside the lock before it writes a new identity.
AdminSessionsProved ==
  \A s \in Sids : Stored(s) /\ Current(store[s]) /\ store[s].owner \in Admins
    => store[s].proof = store[s].auth

\* For any account: a valid session that is not proved has been revived by an
\* own update under way when the credentials changed, and in no other way: not
\* by a login that read the old password, a save of an old copy, a new account
\* or a regeneration.
UnprovedWasCrossed ==
  \A s \in Sids : Stored(s) /\ Current(store[s]) /\ store[s].proof # store[s].auth
    => s \in crossed

\* An id is only ever stored for whom it was generated for: no id of an
\* anonymous session becomes the id of an account (login and sign-up
\* regenerate), and none passes from one account to another.
IdsKeepOwner == \A s \in Sids : Stored(s) => store[s].owner = holder[s]

\* src/README.md:15: "Manager grants/revocations and credential changes
\* increment the account authorization version, revoking every other session
\* immediately."
OthersRevoked ==
  \A s \in Sids : Stored(s) /\ Current(store[s]) => store[s].proof = store[s].auth

\* src/docs/security-audit-2026-07-29.md:43: "The browser does not claim logout
\* success unless server-side destruction is confirmed."
LogoutIsFinal == \A s \in closed : ~Stored(s)

=============================================================================
