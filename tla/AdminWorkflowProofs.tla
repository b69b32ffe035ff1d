-------------------------- MODULE AdminWorkflowProofs --------------------------
(***************************************************************************)
(* AdminWorkflow is correct for any calls of the API, any operator         *)
(* commands and any queue bound.                                           *)
(***************************************************************************)
EXTENDS AdminWorkflow, WorkflowCapacityProofs

Inside == {"acquiring", "granted", "working", "releasing"}

\* From the grant to the release, an owner whose lease has not run out is named
\* by a live lease.
LeaseBacked ==
  \A o \in Owners : phase[o] \in {"granted", "working", "releasing"} /\ o \notin lapsed =>
    lease = o /\ ~leaseOver

WorkflowInv == WorkflowTypeOK /\ LeaseBacked

-----------------------------------------------------------------------------
(* Every step of the workflow is a step of the slot, or leaves it alone *)

LEMMA LeaveIsSlotStep ==
  ASSUME NEW o \in Owners, Leave(o)
  PROVE  [CapacityNext]_capacityVars
BY DEF Leave, CapacityNext

LEMMA WorkflowUsesSlot ==
  ASSUME [WorkflowNext]_workflowVars
  PROVE  [CapacityNext]_capacityVars
<1>1. ASSUME NEW r \in Requests, Enter(r) \/ Wait(r) PROVE CapacityNext
  BY <1>1 DEF Enter, Wait, CapacityNext, Call, Continue
<1>2. ASSUME NEW o \in Operators,
             StartOperator(o) \/ OperatorDeadlinePasses(o) \/ KillOperator(o)
      PROVE  UNCHANGED capacityVars
  BY <1>2 DEF StartOperator, OperatorDeadlinePasses, KillOperator
<1>3. ASSUME NEW o \in Owners, Grant(o) \/ Proceed(o)
      PROVE  [CapacityNext]_capacityVars
  <2>1. CASE Grant(o) \/ BeginWork(o) \/ EndWork(o)
    BY <2>1 DEF Grant, BeginWork, EndWork
  <2>2. CASE FailToAcquire(o) \/ Release(o) \/ ReleaseFails(o)
    BY <2>2, LeaveIsSlotStep DEF FailToAcquire, Release, ReleaseFails
  <2> QED
    BY <1>3, <2>1, <2>2 DEF Proceed
<1>4. CASE CallDeadlinePasses
  BY <1>4 DEF CallDeadlinePasses, CapacityNext
<1>5. CASE LeaseExpires \/ UNCHANGED workflowVars
  BY <1>5 DEF LeaseExpires, workflowVars
<1> QED
  BY <1>1, <1>2, <1>3, <1>4, <1>5 DEF WorkflowNext

\* withAuthorizationWorkflowLock uses the slot as WorkflowCapacity specifies, so
\* what is proved of the slot holds inside the workflow.
THEOREM WorkflowImplementsSlot == WorkflowSpec => UsesSlot
<1>1. WorkflowInit => CapacityInit
  BY DEF WorkflowInit
<1>2. [WorkflowNext]_workflowVars => [CapacityNext]_capacityVars
  BY WorkflowUsesSlot
<1> QED
  BY <1>1, <1>2, PTL DEF WorkflowSpec, UsesSlot, CapacitySpec

\* In every reachable state of the workflow the slot is accounted for.
THEOREM SlotInWorkflow == WorkflowSpec => []CapacityInv
BY WorkflowImplementsSlot, CapacityInvariant, PTL DEF UsesSlot

-----------------------------------------------------------------------------
LEMMA WorkflowInitial == WorkflowInit => WorkflowInv
<1> SUFFICES ASSUME WorkflowInit PROVE WorkflowInv
  OBVIOUS
<1>1. CapacityTypeOK
  BY CapacityInitial DEF WorkflowInit, CapacityInv
<1>2. phase \in [Owners -> Phases]
  BY DEF WorkflowInit, Phases
<1>3. \A r \in Requests : stage[r] = "running" <=> phase[r] \notin {"outside", "left"}
  BY DEF WorkflowInit, CapacityInit, Owners
<1>4. LeaseBacked
  BY DEF WorkflowInit, LeaseBacked
<1> QED
  BY <1>1, <1>2, <1>3, <1>4 DEF WorkflowInv, WorkflowTypeOK, WorkflowInit

\* Leaving: the owner is outside the workflow for good, everybody else stays.
LEMMA LeaveFacts ==
  ASSUME WorkflowInv, CapacityInv, CapacityInv', NEW o \in Owners, Leave(o)
  PROVE  /\ phase' \in [Owners -> Phases]
         /\ \A p \in Owners : phase'[p] = IF p = o THEN "left" ELSE phase[p]
         /\ \A r \in Requests :
              stage'[r] = "running" <=> phase'[r] \notin {"outside", "left"}
<1>1. /\ phase \in [Owners -> Phases]
      /\ phase' = [phase EXCEPT ![o] = "left"]
      /\ \A r \in Requests : stage[r] = "running" <=> phase[r] \notin {"outside", "left"}
      /\ Requests \subseteq Owners
  BY DEF WorkflowInv, WorkflowTypeOK, Leave, Owners
<1>2. phase' \in [Owners -> Phases]
  BY <1>1 DEF Phases
<1>3. \A p \in Owners : phase'[p] = IF p = o THEN "left" ELSE phase[p]
  BY <1>1
<1>4. CASE o \in Operators /\ UNCHANGED capacityVars
  <2>1. o \notin Requests
    BY <1>4, WorkflowAssumption
  <2> QED
    BY <1>1, <1>2, <1>3, <1>4, <2>1 DEF capacityVars
<1>5. CASE o \in Requests /\ Finish(o)
  <2>1. \A r \in Requests : r # o => (stage'[r] = "running" <=> stage[r] = "running")
    <3>1. CASE stage' = [stage EXCEPT ![o] = "done"]
      BY <3>1 DEF CapacityInv, CapacityTypeOK
    <3>2. CASE waiting # <<>> /\ stage' = [stage EXCEPT ![o] = "done", ![Head(waiting)] = "admitted"]
      <4>1. Head(waiting) \in Requests /\ stage[Head(waiting)] = "waiting"
        BY <3>2, TailFacts, ElementOfSeq
           DEF CapacityInv, CapacityTypeOK, QueueAccounted, Waiting
      <4> QED
        BY <3>2, <4>1 DEF CapacityInv, CapacityTypeOK
    <3> QED
      BY <1>5, <3>1, <3>2 DEF Finish, Vacate
  <2>2. stage'[o] # "running"
    <3>1. CASE stage' = [stage EXCEPT ![o] = "done"]
      BY <1>5, <3>1 DEF CapacityInv, CapacityTypeOK
    <3>2. CASE stage' = [stage EXCEPT ![o] = "done", ![Head(waiting)] = "admitted"]
      BY <1>5, <3>2 DEF CapacityInv, CapacityTypeOK
    <3> QED
      BY <1>5, <3>1, <3>2 DEF Finish, Vacate
  <2> QED
    BY <1>1, <1>2, <1>3, <2>1, <2>2
<1> QED
  BY <1>4, <1>5 DEF Leave

\* The steps of the slot that neither start nor end an operation.
LEMMA WaitFacts ==
  ASSUME CapacityInv, NEW r \in Requests, Wait(r)
  PROVE  \A s \in Requests : stage'[s] = "running" <=> stage[s] = "running"
<1> USE DEF CapacityInv, CapacityTypeOK
<1>1. CASE RefuseAborted(r) \/ RefuseFull(r) \/ Enqueue(r)
  BY <1>1 DEF RefuseAborted, RefuseFull, Enqueue
<1>2. CASE TimerFires(r) \/ Abort(r)
  BY <1>2 DEF TimerFires, Abort, Withdraw
<1>3. CASE ResumeTooLate(r)
  <2>1. PICK outcome \in {"busy", "aborted"} : Vacate(r, outcome)
    BY <1>3 DEF ResumeTooLate
  <2>2. stage[r] = "admitted"
    BY <1>3 DEF ResumeTooLate
  <2>3. CASE stage' = [stage EXCEPT ![r] = outcome]
    BY <2>2, <2>3
  <2>4. CASE waiting # <<>> /\ stage' = [stage EXCEPT ![r] = outcome, ![Head(waiting)] = "admitted"]
    <3>1. Head(waiting) \in Requests /\ stage[Head(waiting)] = "waiting"
      BY <2>4, TailFacts, ElementOfSeq DEF QueueAccounted, Waiting
    <3> QED
      BY <2>2, <2>4, <3>1
  <2> QED
    BY <2>1, <2>3, <2>4 DEF Vacate
<1> QED
  BY <1>1, <1>2, <1>3 DEF Wait

LEMMA WorkflowStep ==
  ASSUME WorkflowInv, CapacityInv, CapacityInv', [WorkflowNext]_workflowVars
  PROVE  WorkflowInv'
<1>1. /\ CapacityTypeOK /\ CapacityTypeOK' /\ Requests \subseteq Owners /\ Operators \subseteq Owners
      /\ Requests \cap Operators = {} /\ NoOwner \notin Owners
      /\ Owners = Requests \cup Operators
  BY WorkflowAssumption DEF CapacityInv, Owners
<1>2. /\ phase \in [Owners -> Phases] /\ lease \in Owners \cup {NoOwner} /\ leaseOver \in BOOLEAN
      /\ lapsed \in SUBSET Owners /\ operatorLate \in SUBSET Operators
      /\ \A r \in Requests : stage[r] = "running" <=> phase[r] \notin {"outside", "left"}
      /\ LeaseBacked
  BY DEF WorkflowInv, WorkflowTypeOK
<1>3. ASSUME NEW r \in Requests, Enter(r) PROVE WorkflowInv'
  <2>1. stage[r] # "running" /\ stage' = [stage EXCEPT ![r] = "running"]
    BY <1>3 DEF Enter, StartAtOnce, Resume
  <2>2. \A s \in Requests : stage'[s] = "running" <=> phase'[s] \notin {"outside", "left"}
    BY <1>1, <1>2, <1>3, <2>1 DEF Enter, CapacityTypeOK
  <2>3. LeaseBacked'
    BY <1>1, <1>2, <1>3 DEF Enter, LeaseBacked
  <2> QED
    BY <1>1, <1>2, <1>3, <2>2, <2>3 DEF Enter, WorkflowInv, WorkflowTypeOK, Phases
<1>4. ASSUME NEW r \in Requests, Wait(r) PROVE WorkflowInv'
  <2>1. \A s \in Requests : stage'[s] = "running" <=> stage[s] = "running"
    BY <1>4, WaitFacts
  <2> QED
    BY <1>1, <1>2, <1>4, <2>1 DEF Wait, leaseVars, WorkflowInv, WorkflowTypeOK, LeaseBacked
<1>5. ASSUME NEW o \in Operators,
             StartOperator(o) \/ OperatorDeadlinePasses(o) \/ KillOperator(o)
      PROVE  WorkflowInv'
  <2>1. /\ UNCHANGED <<stage, lease, leaseOver, lapsed>> /\ operatorLate' \in SUBSET Operators
        /\ phase' \in [Owners -> Phases]
        /\ \A p \in Owners : phase'[p] = phase[p] \/ (p = o /\ phase'[p] \in {"acquiring", "left"})
    BY <1>1, <1>2, <1>5 DEF StartOperator, OperatorDeadlinePasses, KillOperator, capacityVars, Phases
  <2> QED
    BY <1>1, <1>2, <2>1 DEF WorkflowInv, WorkflowTypeOK, LeaseBacked
<1>6. ASSUME NEW o \in Owners, Grant(o) PROVE WorkflowInv'
  <2>1. LeaseBacked'
    BY <1>1, <1>2, <1>6 DEF Grant, LeaseFree, LeaseBacked
  <2>2. \A r \in Requests : stage'[r] = "running" <=> phase'[r] \notin {"outside", "left"}
    BY <1>1, <1>2, <1>6 DEF Grant, capacityVars
  <2> QED
    BY <1>1, <1>2, <1>6, <2>1, <2>2 DEF Grant, capacityVars, WorkflowInv, WorkflowTypeOK, Phases
<1>7. ASSUME NEW o \in Owners, BeginWork(o) \/ EndWork(o) PROVE WorkflowInv'
  <2>1. /\ UNCHANGED <<stage, lease, leaseOver, lapsed, operatorLate>>
        /\ phase[o] \in {"granted", "working"}
        /\ phase' \in [Owners -> Phases]
        /\ \A p \in Owners : phase'[p] = phase[p] \/ (p = o /\ phase'[p] \in {"working", "releasing"})
    BY <1>1, <1>2, <1>7 DEF BeginWork, EndWork, capacityVars, Phases
  <2> QED
    BY <1>1, <1>2, <2>1 DEF WorkflowInv, WorkflowTypeOK, LeaseBacked
<1>8. ASSUME NEW o \in Owners, FailToAcquire(o) \/ ReleaseFails(o) PROVE WorkflowInv'
  <2>1. UNCHANGED <<lease, leaseOver, lapsed, operatorLate>> /\ Leave(o)
    BY <1>8 DEF FailToAcquire, ReleaseFails
  <2> QED
    BY <1>1, <1>2, <2>1, LeaveFacts DEF WorkflowInv, WorkflowTypeOK, LeaseBacked
<1>9. ASSUME NEW o \in Owners, Release(o) PROVE WorkflowInv'
  <2>1. Leave(o) /\ UNCHANGED <<lapsed, operatorLate>>
    BY <1>9 DEF Release
  <2>2. lease' \in Owners \cup {NoOwner} /\ leaseOver' \in BOOLEAN
    BY <1>2, <1>9 DEF Release
  <2>3. LeaseBacked'
    BY <1>1, <1>2, <1>9, <2>1, LeaveFacts DEF Release, LeaseBacked
  <2> QED
    BY <1>1, <1>2, <2>1, <2>2, <2>3, LeaveFacts DEF WorkflowInv, WorkflowTypeOK
<1>10. CASE LeaseExpires
  <2>1. LeaseBacked'
    BY <1>1, <1>2, <1>10 DEF LeaseExpires, LeaseBacked
  <2> QED
    BY <1>1, <1>2, <1>10, <2>1 DEF LeaseExpires, capacityVars, WorkflowInv, WorkflowTypeOK
<1>11. CASE CallDeadlinePasses
  BY <1>1, <1>2, <1>11 DEF CallDeadlinePasses, DeadlinePasses, leaseVars, WorkflowInv, WorkflowTypeOK,
     LeaseBacked
<1>12. CASE UNCHANGED workflowVars
  BY <1>1, <1>2, <1>12 DEF workflowVars, leaseVars, capacityVars, WorkflowInv, WorkflowTypeOK, LeaseBacked
<1> QED
  BY <1>3, <1>4, <1>5, <1>6, <1>7, <1>8, <1>9, <1>10, <1>11, <1>12 DEF WorkflowNext, Proceed

\* The inductive invariant of the workflow.
THEOREM WorkflowInvariant == WorkflowSpec => []WorkflowInv
BY WorkflowInitial, WorkflowStep, SlotInWorkflow, PTL DEF WorkflowSpec

\* Type correctness, and the correspondence of phases and stages.
THEOREM WorkflowTyped == WorkflowSpec => []WorkflowTypeOK
BY WorkflowInvariant, PTL DEF WorkflowInv

\* An operation under way is backed by a live lease in its owner's name until
\* that lease expires: adminWorkflow.ts:14-52 grants no second one, and the
\* release of 66-75 removes nobody else's.
THEOREM LeaseBacksEveryWork == WorkflowSpec => []LeaseBacksWork
<1>1. WorkflowInv => LeaseBacksWork
  BY DEF WorkflowInv, LeaseBacked, LeaseBacksWork
<1> QED
  BY <1>1, WorkflowInvariant, PTL

LEMMA SerialInProcess == WorkflowInv /\ CapacityInv => ApiWorkflowsSerial
<1> SUFFICES ASSUME WorkflowInv, CapacityInv, NEW r \in Requests, NEW s \in Requests,
                    {phase[r], phase[s]} \subseteq Inside
             PROVE  r = s
  BY DEF ApiWorkflowsSerial, Inside
<1>1. stage[r] = "running" /\ stage[s] = "running"
  BY DEF WorkflowInv, WorkflowTypeOK, Inside
<1> QED
  BY <1>1 DEF CapacityInv, SlotAccounted, Holders

\* Inside the API process no two workflows overlap, not even after a lease has
\* expired: the promise of the comment at adminWorkflow.ts:55-57.
THEOREM ApiWorkflowsAreSerial == WorkflowSpec => []ApiWorkflowsSerial
BY SerialInProcess, WorkflowInvariant, SlotInWorkflow, PTL

\* Across processes two operations overlap only when a lease has run out.
THEOREM OverlapOnlyAfterLapse == WorkflowSpec => []OverlapNeedsLapse
<1>1. WorkflowInv /\ ApiWorkflowsSerial => OverlapNeedsLapse
  <2> SUFFICES ASSUME WorkflowInv, ApiWorkflowsSerial,
                      NEW o \in Owners, NEW p \in Owners,
                      phase[o] = "working", phase[p] = "working", o # p
               PROVE  ~({o, p} \subseteq Requests) /\ {o, p} \cap lapsed # {}
    BY DEF OverlapNeedsLapse
  <2>1. ~({o, p} \subseteq Requests)
    BY DEF ApiWorkflowsSerial
  <2>2. o \in lapsed \/ p \in lapsed
    BY DEF WorkflowInv, LeaseBacked
  <2> QED
    BY <2>1, <2>2
<1> QED
  BY <1>1, WorkflowInvariant, ApiWorkflowsAreSerial, PTL
=============================================================================
