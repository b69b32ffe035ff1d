--------------------------- MODULE IdentityRegistry ---------------------------
(***************************************************************************)
(* back-end/src/services/identityRegistry.ts and accountService.ts: one    *)
(* e-mail address names at most one account of any role.  Mongo offers a   *)
(* unique index per collection, so the three collections share a registry, *)
(* one document per normalized address.  An account and its registry row   *)
(* are written apart: every job below (a create, an update or a delete of  *)
(* an account) is a series of database writes with other jobs, lost        *)
(* replies and crashes between them.  Before it serves, the process        *)
(* reconciles the registry with the accounts (ensureIdentityRegistry).     *)
(***************************************************************************)
EXTENDS Naturals

CONSTANTS
  Accounts,    \* account ids, never used twice
  Emails,      \* normalized addresses
  Jobs,        \* account operations, each performed at most once
  RoleOf,      \* the role, and so the collection, of each account
  None,        \* no account document, no registry row
  Stranger,    \* the owner of a row that fits no account (deleted, other role)
  MaxCrashes   \* bound on crashes, for model checking

ASSUME IdentityAssumption ==
  /\ None \notin Accounts \cup Emails
  /\ Stranger \notin Accounts \cup {None}

VARIABLES
  email,      \* the address in each account document, None without a document
  raw,        \* accounts whose stored address is not normalized (legacy data)
  version,    \* __v of each account document
  used,       \* account ids that have been given out
  registry,   \* the owner named by each AccountEmail document
  job,        \* what each job does and where it is
  late,       \* the write of each job whose reply was lost and which may still happen
  mode,       \* of the process
  todo,       \* addresses the current pass of the reconciliation has yet to visit
  valid,      \* addresses whose row it found in order (markVerified)
  crashes,    \* how often the process has crashed
  clean       \* ghost: no reply has been lost since the process opened

store == <<email, raw, version, used, registry>>
process == <<mode, todo, valid, crashes>>
vars == <<store, job, late, process, clean>>

Writes == {"reserve", "write", "undo", "retire", "purge"}
Idle == [op |-> "none", acct |-> None, from |-> None, to |-> None, seen |-> 0, at |-> "idle"]

Stored(a) == email[a] # None
Exact(e) == \A a \in Accounts : email[a] = e <=> registry[e] = a
InUse == {e \in Emails : \E a \in Accounts : email[a] = e}

\* Any data an older release may have left: the unique index of a collection
\* compares the addresses as they are spelled.
Init ==
  /\ email \in [Accounts -> Emails \cup {None}]
  /\ raw \in SUBSET {a \in Accounts : Stored(a)}
  /\ \A a, b \in Accounts :
       a # b /\ Stored(a) /\ email[a] = email[b] /\ RoleOf[a] = RoleOf[b] => {a, b} \cap raw # {}
  /\ version = [a \in Accounts |-> 0]
  /\ used = {a \in Accounts : Stored(a)}
  /\ registry \in [Emails -> used \cup {None, Stranger}]
  /\ job = [j \in Jobs |-> Idle]
  /\ late = [j \in Jobs |-> "none"]
  /\ mode = "down" /\ todo = {} /\ valid = {} /\ crashes = 0
  /\ clean = FALSE

\* A job moves to its next step; the reconciliation to its next pass.
MoveTo(j, step) == job' = [job EXCEPT ![j].at = step]
Pass(next, left) == mode' = next /\ todo' = left

-----------------------------------------------------------------------------
(* Faulty variants of the operators below, each the code after a plausible   *)
(* slip; no specification uses them, they show what the properties detect.   *)

\* A save that does not compare __v (no optimisticConcurrency).
AppliesUnversioned(j, w) ==
  LET a == job[j].acct e == job[j].to
      free == \A b \in Accounts \ {a} : RoleOf[b] = RoleOf[a] => email[b] # e IN
  \/ w = "reserve" /\ registry[e] = None
  \/ w = "write" /\ job[j].op = "create" /\ free
  \/ w = "write" /\ job[j].op = "update" /\ Stored(a) /\ free
  \/ w = "write" /\ job[j].op = "delete"
  \/ w \in {"undo", "retire", "purge"}

\* deleteOne({_id}) without the account id.
FreedOfAnyone(e, a) == [registry EXCEPT ![e] = None]

\* Every error taken for a definite failure.
LoseReplyAndUndo(j) ==
  /\ job[j].at \in Writes
  /\ late' = [late EXCEPT ![j] = job[j].at]
  /\ MoveTo(j, IF job[j].at = "write" /\ job[j].op # "delete" THEN "undo" ELSE "done")
  /\ clean' = FALSE
  /\ UNCHANGED <<store, process>>

\* A row kept because some account has its address.
FitsAnyOwner(e) == \E a \in Accounts : email[a] = e

\* A row with the wrong owner left for the inserts to correct.
SweepWithoutDelete(e) ==
  /\ mode = "sweeping" /\ e \in todo
  /\ todo' = todo \ {e}
  /\ valid' = IF registry[e] \in Accounts /\ email[registry[e]] = e THEN valid \cup {e} ELSE valid
  /\ UNCHANGED <<store, job, late, mode, crashes, clean>>

\* The missing rows computed from ids that have no document any more.
StartInsertOfAll ==
  /\ mode = "sweeping" /\ todo = {}
  /\ Pass("inserting", {email[a] : a \in Accounts} \ valid)
  /\ UNCHANGED <<store, job, late, valid, crashes, clean>>

-----------------------------------------------------------------------------
(* The database writes of a job *)

\* The unique index of the collection accepts the address.
UniqueInRole(a, e) ==
  \A b \in Accounts \ {a} : RoleOf[b] = RoleOf[a] => email[b] # e

\* Whether Mongo carries a write out.  A registry row is created only where
\* there is none; a save finds its document only in the version it was loaded.
Applies(j, w) ==
  LET a == job[j].acct e == job[j].to IN
  \/ w = "reserve" /\ registry[e] = None
  \/ w = "write" /\ job[j].op = "create" /\ UniqueInRole(a, e)
  \/ w = "write" /\ job[j].op = "update" /\ Stored(a) /\ version[a] = job[j].seen
       /\ (e # job[j].from => UniqueInRole(a, e))
  \/ w = "write" /\ job[j].op = "delete"
  \/ w \in {"undo", "retire", "purge"}

\* releaseIdentity: deleteOne({_id, accountId}).
Freed(e, a) == [registry EXCEPT ![e] = IF registry[e] = a THEN None ELSE registry[e]]

\* What the write does to the database.
Apply(j, w) ==
  LET a == job[j].acct e == job[j].to IN
  /\ UNCHANGED raw
  /\ registry' =
       CASE w = "reserve" -> [registry EXCEPT ![e] = a]
         [] w = "undo" -> Freed(e, a)
         [] w = "retire" -> Freed(job[j].from, a)
         [] w = "purge" -> [f \in Emails |-> IF registry[f] = a THEN None ELSE registry[f]]
         [] w = "write" -> registry
  /\ IF w = "write"
     THEN /\ email' = [email EXCEPT ![a] = IF job[j].op = "delete" THEN None ELSE e]
          /\ version' = [version EXCEPT ![a] = IF job[j].op = "update" THEN @ + 1 ELSE @]
          /\ used' = used \cup {a}
     ELSE UNCHANGED <<email, version, used>>

-----------------------------------------------------------------------------
(* A job *)

Start(j, op, a, e, step) ==
  /\ mode = "serving"
  /\ job[j].at = "idle"
  /\ job' = [job EXCEPT ![j] = [op |-> op, acct |-> a, from |-> email[a], to |-> e,
                                seen |-> version[a], at |-> step]]
  /\ UNCHANGED <<store, late, process, clean>>

\* createAccount with a new id.
StartCreate(j, a, e) ==
  /\ a \notin used
  /\ \A k \in Jobs : job[k].acct # a
  /\ Start(j, "create", a, e, "reserve")

\* updateAccount has loaded the account; only another address goes through
\* replaceIdentity.
StartUpdate(j, a, e) ==
  /\ Stored(a)
  /\ Start(j, "update", a, e, IF e = email[a] THEN "write" ELSE "reserve")

\* deleteAccount has loaded the account.
StartDelete(j, a) == Stored(a) /\ Start(j, "delete", a, email[a], "write")

\* What follows a write that succeeded.
Following(j) ==
  CASE job[j].at = "reserve" -> "write"
    [] job[j].at = "write" /\ job[j].op = "update" /\ job[j].to # job[j].from -> "retire"
    [] job[j].at = "write" /\ job[j].op = "delete" -> "purge"
    [] OTHER -> "done"

Succeed(j) ==
  /\ job[j].at \in Writes
  /\ Applies(j, job[j].at)
  /\ Apply(j, job[j].at)
  /\ MoveTo(j, Following(j))
  /\ UNCHANGED <<late, process, clean>>

\* accountWriteDefinitelyFailed: a taken address, a stale version, a validation
\* error or a busy password queue.  Only then is the new reservation undone.
FailDefinitely(j) ==
  /\ job[j].at \in {"reserve", "write"}
  /\ job[j].at = "reserve" => ~Applies(j, "reserve")
  /\ MoveTo(j, IF job[j].at = "write" /\ job[j].op # "delete" /\ job[j].to # job[j].from
               THEN "undo" ELSE "done")
  /\ UNCHANGED <<store, late, process, clean>>

\* The reply is lost or the call times out: the job ends with an error, and the
\* write may have happened, may happen yet, or never will.
LoseReply(j) ==
  /\ job[j].at \in Writes
  /\ late' = [late EXCEPT ![j] = job[j].at]
  /\ MoveTo(j, "done")
  /\ clean' = FALSE
  /\ UNCHANGED <<store, process>>

HappenLate(j) ==
  /\ late[j] # "none"
  /\ Applies(j, late[j])
  /\ Apply(j, late[j])
  /\ late' = [late EXCEPT ![j] = "none"]
  /\ UNCHANGED <<job, process, clean>>

-----------------------------------------------------------------------------
(* ensureIdentityRegistry, which runs alone before the process serves *)

\* The index of all accounts is complete before anything is changed; a second
\* account with the same normalized address stops the start.
Scan ==
  /\ mode = "down"
  /\ IF \E a, b \in Accounts : a # b /\ Stored(a) /\ email[a] = email[b]
     THEN Pass("refused", {}) ELSE Pass("normalizing", {})
  /\ valid' = {}
  /\ UNCHANGED <<store, job, late, crashes, clean>>

Normalize(a) ==
  /\ mode = "normalizing"
  /\ a \in raw
  /\ raw' = raw \ {a}
  /\ UNCHANGED <<email, version, used, registry, job, late, process, clean>>

StartSweep ==
  /\ mode = "normalizing"
  /\ raw = {}
  /\ Pass("sweeping", {e \in Emails : registry[e] # None})
  /\ UNCHANGED <<store, job, late, valid, crashes, clean>>

\* A row is kept if the index has the same owner for it, and deleted otherwise.
Fits(e) == registry[e] \in Accounts /\ email[registry[e]] = e

Sweep(e) ==
  /\ mode = "sweeping"
  /\ e \in todo
  /\ todo' = todo \ {e}
  /\ valid' = IF Fits(e) THEN valid \cup {e} ELSE valid
  /\ registry' = IF Fits(e) THEN registry ELSE [registry EXCEPT ![e] = None]
  /\ UNCHANGED <<email, raw, version, used, job, late, mode, crashes, clean>>

StartInsert ==
  /\ mode = "sweeping"
  /\ todo = {}
  /\ Pass("inserting", InUse \ valid)
  /\ UNCHANGED <<store, job, late, valid, crashes, clean>>

\* The upsert with $setOnInsert, and the read that verifies its owner.
Insert(a) ==
  /\ mode = "inserting"
  /\ email[a] \in todo
  /\ IF registry[email[a]] \in {None, a}
     THEN /\ registry' = [registry EXCEPT ![email[a]] = a]
          /\ Pass(mode, todo \ {email[a]})
     ELSE /\ UNCHANGED registry
          /\ Pass("refused", {})
  /\ UNCHANGED <<email, raw, version, used, job, late, valid, crashes, clean>>

Open ==
  /\ mode = "inserting"
  /\ todo = {}
  /\ Pass("serving", {})
  /\ clean' = TRUE
  /\ UNCHANGED <<store, job, late, valid, crashes>>

\* The process dies, or is stopped, at any point; so do its jobs and whatever
\* they had sent.
Crash ==
  /\ crashes < MaxCrashes
  /\ mode \notin {"down", "refused"}
  /\ Pass("down", {})
  /\ crashes' = crashes + 1
  /\ job' = [j \in Jobs |->
       IF job[j].at = "idle" THEN job[j] ELSE [job[j] EXCEPT !.at = "done"]]
  /\ late' = [j \in Jobs |-> "none"]
  /\ clean' = FALSE
  /\ UNCHANGED <<store, valid>>

-----------------------------------------------------------------------------
JobNext(j) ==
  \/ \E a \in Accounts, e \in Emails : StartCreate(j, a, e) \/ StartUpdate(j, a, e)
  \/ \E a \in Accounts : StartDelete(j, a)
  \/ Succeed(j) \/ FailDefinitely(j) \/ LoseReply(j) \/ HappenLate(j)

StartupNext ==
  \/ Scan \/ StartSweep \/ StartInsert \/ Open
  \/ \E a \in Accounts : Normalize(a) \/ Insert(a)
  \/ \E e \in Emails : Sweep(e)

Next == (\E j \in Jobs : JobNext(j)) \/ StartupNext \/ Crash

Spec == Init /\ [][Next]_vars

-----------------------------------------------------------------------------
(* Properties *)

\* Types of the variables.
TypeOK ==
  /\ email \in [Accounts -> Emails \cup {None}]
  /\ raw \in SUBSET Accounts
  /\ version \in [Accounts -> Nat]
  /\ used \in SUBSET Accounts
  /\ registry \in [Emails -> Accounts \cup {None, Stranger}]
  /\ job \in [Jobs -> [op : {"none", "create", "update", "delete"},
                       acct : Accounts \cup {None},
                       from : Emails \cup {None}, to : Emails \cup {None},
                       seen : Nat, at : Writes \cup {"idle", "done"}]]
  /\ late \in [Jobs -> Writes \cup {"none"}]
  /\ mode \in {"down", "refused", "normalizing", "sweeping", "inserting", "serving"}
  /\ todo \in SUBSET Emails
  /\ valid \in SUBSET Emails
  /\ crashes \in Nat
  /\ clean \in BOOLEAN

\* While the process serves, the address of every account is registered to that
\* account, through every interleaving of jobs, lost replies and late writes.
StoredIsReserved ==
  mode = "serving" => \A a \in Accounts : Stored(a) => registry[email[a]] = a

\* No two accounts of any roles share an address while the process serves.
NoSharedEmail ==
  mode = "serving" =>
    \A a, b \in Accounts : Stored(a) /\ email[a] = email[b] => a = b

\* An address names at most one account, and the registry knows which one.
OneOwner == StoredIsReserved /\ NoSharedEmail

\* Without a lost reply, jobs leave nothing behind: when all have ended, every
\* row belongs to an account with that address.  A failed change undoes its
\* reservation, and of two changes from one version only one is saved.
NothingLeftBehind ==
  mode = "serving" /\ clean /\ (\A j \in Jobs : job[j].at \in {"idle", "done"}) =>
    \A e \in Emails : Exact(e)

\* The process starts to serve only with a registry that is exact, whatever the
\* data was and however often an earlier start was cut short.
OpensExact == [][mode # "serving" /\ mode' = "serving" => \A e \in Emails : Exact(e)']_vars

\* A start refuses only data in which two accounts really share an address: no
\* crash in the middle of a repair leaves data that a later start refuses.
RefusesOnlyDuplicates ==
  mode = "refused" => \E a, b \in Accounts : a # b /\ Stored(a) /\ email[a] = email[b]

\* However often a start is cut short, it ends in an exact registry, or refuses
\* data that nobody could have repaired.
StartIsExact == OpensExact /\ []RefusesOnlyDuplicates
=============================================================================
