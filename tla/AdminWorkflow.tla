----------------------------- MODULE AdminWorkflow -----------------------------
(***************************************************************************)
(* back-end/src/services/adminWorkflow.ts: withAuthorizationWorkflowLock,  *)
(* the slot of the process around a lease document in Mongo.  The API is   *)
(* one process with the slot of WorkflowCapacity; every operator command   *)
(* (grant-admin-manager.ts, create-admin-user.ts) is a process of its own  *)
(* that makes one call, so its slot is free when it asks.                  *)
(***************************************************************************)
EXTENDS WorkflowCapacity

CONSTANTS
  Operators,   \* operator commands, each run at most once
  NoOwner      \* there is no lease document

ASSUME WorkflowAssumption ==
  /\ Requests \cap Operators = {}
  /\ NoOwner \notin Requests \cup Operators

Owners == Requests \cup Operators

VARIABLES
  phase,         \* where each owner is in withAuthorizationWorkflowLock
  lease,         \* the owner named by the lease document
  leaseOver,     \* its expiresAt has passed
  lapsed,        \* the owners whose lease ran out before they released it
  operatorLate   \* the operator commands past their deadline

leaseVars == <<phase, lease, leaseOver, lapsed, operatorLate>>
workflowVars == <<capacityVars, leaseVars>>

\* "granted": Mongo has applied the upsert and the reply is under way.
Phases == {"outside", "acquiring", "granted", "working", "releasing", "left"}

Late(o) == IF o \in Requests THEN Expired(o) ELSE o \in operatorLate
Aborted(o) == o \in aborted

WorkflowInit ==
  /\ CapacityInit
  /\ phase = [o \in Owners |-> "outside"]
  /\ lease = NoOwner
  /\ leaseOver = FALSE
  /\ lapsed = {}
  /\ operatorLate = {}

-----------------------------------------------------------------------------
(* Faulty variants of the operators below, each the code after a plausible   *)
(* slip; no specification uses them, they show what the properties detect.   *)

\* `$gt` for `$lte` in the filter on expiresAt.
LeaseFreeWhileLive(o) == lease = NoOwner \/ ~leaseOver \/ lease = o

\* The acquisition loop without a deadline.
FailToAcquireWhenGranted(o) ==
  /\ phase[o] = "granted"
  /\ phase' = [phase EXCEPT ![o] = "left"]
  /\ o \in Requests => Finish(o)
  /\ o \in Operators => UNCHANGED capacityVars
  /\ UNCHANGED <<lease, leaseOver, lapsed, operatorLate>>

\* deleteOne({_id}) without the owner.
ReleaseAnyOwner(o) ==
  /\ phase[o] = "releasing"
  /\ phase' = [phase EXCEPT ![o] = "left"]
  /\ o \in Requests => Finish(o)
  /\ o \in Operators => UNCHANGED capacityVars
  /\ lease' = NoOwner /\ leaseOver' = FALSE
  /\ UNCHANGED <<lapsed, operatorLate>>

\* The slot of the process released with the expired lease.
LeaseExpiresWithSlot ==
  /\ lease # NoOwner /\ ~leaseOver /\ Late(lease)
  /\ leaseOver' = TRUE
  /\ lapsed' = lapsed \cup {lease}
  /\ IF lease \in Requests /\ phase[lease] = "working"
     THEN Finish(lease) ELSE UNCHANGED capacityVars
  /\ UNCHANGED <<phase, lease, operatorLate>>

-----------------------------------------------------------------------------
(* Entering: the slot of the API process, or the start of a command *)

Enter(r) ==
  /\ StartAtOnce(r) \/ Resume(r)
  /\ phase' = [phase EXCEPT ![r] = "acquiring"]
  /\ UNCHANGED <<lease, leaseOver, lapsed, operatorLate>>

\* What the slot does to a call that does not run now.
Wait(r) ==
  /\ \/ RefuseAborted(r) \/ RefuseFull(r) \/ Enqueue(r)
     \/ ResumeTooLate(r) \/ TimerFires(r) \/ Abort(r)
  /\ UNCHANGED leaseVars

StartOperator(o) ==
  /\ phase[o] = "outside"
  /\ phase' = [phase EXCEPT ![o] = "acquiring"]
  /\ UNCHANGED <<capacityVars, lease, leaseOver, lapsed, operatorLate>>

-----------------------------------------------------------------------------
(* acquireLock *)

LeaseFree(o) == lease = NoOwner \/ leaseOver \/ lease = o

\* Every owner leaves through here; an API call gives up its slot as well.
Leave(o) ==
  /\ phase' = [phase EXCEPT ![o] = "left"]
  /\ \/ o \in Requests /\ Finish(o)
     \/ o \in Operators /\ UNCHANGED capacityVars

\* The conditional upsert finds no document, an expired one or its own.  Any
\* other document makes it fail on the key, and the loop tries again.  It is
\* sent before the deadline and timed to it; an abort may come after it is sent.
Grant(o) ==
  /\ phase[o] = "acquiring"
  /\ ~Late(o)
  /\ LeaseFree(o)
  /\ lease' = o
  /\ leaseOver' = FALSE
  /\ phase' = [phase EXCEPT ![o] = "granted"]
  /\ UNCHANGED <<capacityVars, lapsed, operatorLate>>

\* The loop ends at the deadline or on an abort, or an error other than the
\* duplicate key leaves it; when the reply to an upsert that Mongo applied is
\* lost, the lease stays behind.
FailToAcquire(o) ==
  /\ phase[o] \in {"acquiring", "granted"}
  /\ Leave(o)
  /\ UNCHANGED <<lease, leaseOver, lapsed, operatorLate>>

\* The reply arrives; both checks of the try block belong to its callback.
BeginWork(o) ==
  /\ phase[o] = "granted"
  /\ phase' = [phase EXCEPT ![o] =
                 IF Late(o) \/ Aborted(o) THEN "releasing" ELSE "working"]
  /\ UNCHANGED <<capacityVars, lease, leaseOver, lapsed, operatorLate>>

-----------------------------------------------------------------------------
(* The operation and the release *)

EndWork(o) ==
  /\ phase[o] = "working"
  /\ phase' = [phase EXCEPT ![o] = "releasing"]
  /\ UNCHANGED <<capacityVars, lease, leaseOver, lapsed, operatorLate>>

\* deleteOne({_id, owner}) removes the document only if it is the caller's.
Release(o) ==
  /\ phase[o] = "releasing"
  /\ Leave(o)
  /\ lease' = IF lease = o THEN NoOwner ELSE lease
  /\ leaseOver' = (leaseOver /\ lease # o)
  /\ UNCHANGED <<lapsed, operatorLate>>

\* The deletion fails: the error is logged and the workflow ends all the same.
ReleaseFails(o) ==
  /\ phase[o] = "releasing"
  /\ Leave(o)
  /\ UNCHANGED <<lease, leaseOver, lapsed, operatorLate>>

-----------------------------------------------------------------------------
(* Time, and commands that die *)

\* LOCK_DURATION_MS is longer than the wait of a call, so a lease outlives the
\* deadline of the call it was granted to.
LeaseExpires ==
  /\ lease # NoOwner
  /\ ~leaseOver
  /\ Late(lease)
  /\ leaseOver' = TRUE
  /\ lapsed' = IF phase[lease] = "left" THEN lapsed ELSE lapsed \cup {lease}
  /\ UNCHANGED <<capacityVars, phase, lease, operatorLate>>

CallDeadlinePasses == DeadlinePasses /\ UNCHANGED leaseVars

OperatorDeadlinePasses(o) ==
  /\ phase[o] # "outside"
  /\ o \notin operatorLate
  /\ operatorLate' = operatorLate \cup {o}
  /\ UNCHANGED <<capacityVars, phase, lease, leaseOver, lapsed>>

\* A command is killed anywhere; its lease stays behind.
KillOperator(o) ==
  /\ phase[o] \in {"acquiring", "granted", "working", "releasing"}
  /\ phase' = [phase EXCEPT ![o] = "left"]
  /\ UNCHANGED <<capacityVars, lease, leaseOver, lapsed, operatorLate>>

-----------------------------------------------------------------------------
Proceed(o) ==
  \/ FailToAcquire(o) \/ BeginWork(o) \/ EndWork(o)
  \/ Release(o) \/ ReleaseFails(o)

WorkflowNext ==
  \/ CallDeadlinePasses \/ LeaseExpires
  \/ \E r \in Requests : Enter(r) \/ Wait(r)
  \/ \E o \in Operators :
       StartOperator(o) \/ OperatorDeadlinePasses(o) \/ KillOperator(o)
  \/ \E o \in Owners : Grant(o) \/ Proceed(o)

WorkflowSpec == WorkflowInit /\ [][WorkflowNext]_workflowVars

\* An API call that must give up: acquireLock has a deadline and each of its
\* operations a timeout.
GiveUp(r) == (Late(r) \/ Aborted(r)) /\ FailToAcquire(r)

\* Time passes; in the API process timers fire, promises continue and the
\* operations settle (each database operation has a timeout).  Commands may
\* stop anywhere, and nobody is owed the lease.
WorkflowFairness ==
  /\ WF_workflowVars(CallDeadlinePasses)
  /\ \A r \in Requests :
       /\ WF_workflowVars(Enter(r) /\ stage[r] = "admitted")
       /\ WF_workflowVars(ResumeTooLate(r) /\ UNCHANGED leaseVars)
       /\ WF_workflowVars(TimerFires(r) /\ UNCHANGED leaseVars)
       /\ WF_workflowVars(GiveUp(r))
       /\ WF_workflowVars(BeginWork(r))
       /\ WF_workflowVars(EndWork(r))
       /\ WF_workflowVars(Release(r) \/ ReleaseFails(r))

FairWorkflowSpec == WorkflowSpec /\ WorkflowFairness

-----------------------------------------------------------------------------
(* Properties *)

\* Types of the variables, and the slot of an API call that is inside.
WorkflowTypeOK ==
  /\ CapacityTypeOK
  /\ phase \in [Owners -> Phases]
  /\ lease \in Owners \cup {NoOwner}
  /\ leaseOver \in BOOLEAN
  /\ lapsed \in SUBSET Owners
  /\ operatorLate \in SUBSET Operators
  /\ \A r \in Requests :
       stage[r] = "running" <=> phase[r] \notin {"outside", "left"}

\* Whoever works and has not let its lease run out is named by a live lease:
\* no late release, failed release or killed command of another owner takes
\* the lease away from it.
LeaseBacksWork ==
  \A o \in Owners : phase[o] = "working" /\ o \notin lapsed =>
    lease = o /\ ~leaseOver

\* Two workflows run at once only if they belong to different processes and
\* one of them has outlived its lease.
OverlapNeedsLapse ==
  \A o, p \in Owners : phase[o] = "working" /\ phase[p] = "working" /\ o # p =>
    ~({o, p} \subseteq Requests) /\ {o, p} \cap lapsed # {}

\* Within the API process the whole of the workflow is serial, from the first
\* attempt on the lease to the end of its release, whatever happens to the lease.
ApiWorkflowsSerial ==
  \A r, s \in Requests :
    {phase[r], phase[s]} \subseteq {"acquiring", "granted", "working", "releasing"} => r = s

\* README.md: membership and relationship changes are serialized across processes.
SerializedAcrossProcesses ==
  \A o, p \in Owners : phase[o] = "working" /\ phase[p] = "working" => o = p

\* Every API call is answered, even when an operator command holds the lease
\* for ever or died with it.
CallsAnswered ==
  \A r \in Requests :
    stage[r] \in {"waiting", "admitted", "running"} ~> stage[r] \in {"done", "busy", "aborted"}

\* The workflow uses the slot as WorkflowCapacity specifies it.
UsesSlot == CapacitySpec
=============================================================================
