--------------------------- MODULE WorkflowCapacity ---------------------------
(***************************************************************************)
(* back-end/src/services/workflowCapacity.ts: the one slot a process has   *)
(* for authorization workflows, with its bounded FIFO of waiting calls.    *)
(*                                                                         *)
(* JavaScript runs one callback at a time, so an action is what happens    *)
(* between two points where run() awaits.  A waiter whose `admit` was      *)
(* called owns the slot before its own continuation has run: this is the   *)
(* stage "admitted".                                                       *)
(***************************************************************************)
EXTENDS SequencesExt

CONSTANTS
  Requests,    \* the calls of run(), each made at most once
  Readers,     \* those that carry an AbortSignal (GET and HEAD requests)
  MaxWaiting   \* maxWaiting, AUTHORIZATION_MAX_WAITING in production

ASSUME CapacityAssumption == Readers \subseteq Requests /\ MaxWaiting \in Nat

VARIABLES
  active,    \* the field of that name
  waiting,   \* the admit callbacks, oldest first
  stage,     \* how far each call has come
  calls,     \* the calls that have read the clock, in that order
  late,      \* how many of them, oldest first, are past their deadline
  aborted    \* the readers whose signal is aborted

capacityVars == <<active, waiting, stage, calls, late, aborted>>

Stages == {"idle", "waiting", "admitted", "running", "done", "busy", "aborted"}

\* Every deadline is the time of the call plus the same waitMs, so deadlines
\* pass in the order of the calls.
Expired(r) == \E i \in 1 .. late : calls[i] = r

Waiting(r) == \E i \in 1 .. Len(waiting) : waiting[i] = r
Admissible(r) == r \notin aborted /\ ~Expired(r)

CapacityInit ==
  /\ active = FALSE
  /\ waiting = <<>>
  /\ stage = [r \in Requests |-> "idle"]
  /\ calls = <<>>
  /\ late = 0
  /\ aborted = {}

-----------------------------------------------------------------------------
(* Faulty variants of the operators below, each the code after a plausible   *)
(* slip; no specification uses them, they show what the properties detect.   *)

\* `>` for `>=` in the bound of the queue.
EnqueueBeyondBound(r) ==
  /\ stage[r] = "idle" /\ r \notin aborted /\ active
  /\ Len(waiting) <= MaxWaiting
  /\ stage' = [stage EXCEPT ![r] = "waiting"]
  /\ waiting' = Append(waiting, r)
  /\ calls' = Append(calls, r)
  /\ UNCHANGED <<active, late, aborted>>

\* `this.active = true` forgotten.
StartWithoutMark(r) ==
  /\ stage[r] = "idle" /\ r \notin aborted /\ ~active
  /\ stage' = [stage EXCEPT ![r] = "running"]
  /\ calls' = Append(calls, r)
  /\ UNCHANGED <<active, waiting, late, aborted>>

\* The slot marked free although it was handed over.
VacateAndFree(r, outcome) ==
  /\ active' = FALSE
  /\ waiting' = IF waiting = <<>> THEN waiting ELSE Tail(waiting)
  /\ stage' = [s \in Requests |->
       IF s = r THEN outcome
       ELSE IF waiting # <<>> /\ s = Head(waiting) THEN "admitted" ELSE stage[s]]

\* pop() for shift().
VacateToYoungest(r, outcome) ==
  \/ /\ waiting = <<>> /\ active' = FALSE
     /\ stage' = [stage EXCEPT ![r] = outcome] /\ UNCHANGED waiting
  \/ /\ waiting # <<>> /\ waiting' = Front(waiting)
     /\ stage' = [stage EXCEPT ![r] = outcome, ![Last(waiting)] = "admitted"]
     /\ UNCHANGED active

\* The timer set only where there is a signal to listen to.
TimerOfReaderFires(r) ==
  /\ r \in Readers /\ stage[r] = "waiting" /\ Expired(r)
  /\ stage' = [stage EXCEPT ![r] = "busy"]
  /\ waiting' = SelectSeq(waiting, LAMBDA s : s # r)
  /\ UNCHANGED <<active, calls, late, aborted>>

\* Every request given the abort signal of its connection.
AbortAny(r) ==
  /\ r \in Requests \ aborted /\ stage[r] = "idle"
  /\ aborted' = aborted \cup {r}
  /\ UNCHANGED <<active, waiting, stage, calls, late>>

-----------------------------------------------------------------------------
(* run(), up to its first await *)

RefuseAborted(r) ==
  /\ stage[r] = "idle"
  /\ r \in aborted
  /\ stage' = [stage EXCEPT ![r] = "aborted"]
  /\ UNCHANGED <<active, waiting, calls, late, aborted>>

RefuseFull(r) ==
  /\ stage[r] = "idle"
  /\ r \notin aborted
  /\ active
  /\ Len(waiting) >= MaxWaiting
  /\ stage' = [stage EXCEPT ![r] = "busy"]
  /\ calls' = Append(calls, r)
  /\ UNCHANGED <<active, waiting, late, aborted>>

Enqueue(r) ==
  /\ stage[r] = "idle"
  /\ r \notin aborted
  /\ active
  /\ Len(waiting) < MaxWaiting
  /\ stage' = [stage EXCEPT ![r] = "waiting"]
  /\ waiting' = Append(waiting, r)
  /\ calls' = Append(calls, r)
  /\ UNCHANGED <<active, late, aborted>>

\* The slot is free: the checks of the try block and the start of the
\* operation belong to the same callback.
StartAtOnce(r) ==
  /\ stage[r] = "idle"
  /\ r \notin aborted
  /\ ~active
  /\ active' = TRUE
  /\ stage' = [stage EXCEPT ![r] = "running"]
  /\ calls' = Append(calls, r)
  /\ UNCHANGED <<waiting, late, aborted>>

-----------------------------------------------------------------------------
(* The finally block: the slot goes to the oldest waiter or becomes free *)

Vacate(r, outcome) ==
  \/ /\ waiting = <<>>
     /\ active' = FALSE
     /\ stage' = [stage EXCEPT ![r] = outcome]
     /\ UNCHANGED waiting
  \/ /\ waiting # <<>>
     /\ waiting' = Tail(waiting)
     /\ stage' = [stage EXCEPT ![r] = outcome, ![Head(waiting)] = "admitted"]
     /\ UNCHANGED active

\* The continuation of an admitted waiter repeats both checks.
Resume(r) ==
  /\ stage[r] = "admitted"
  /\ Admissible(r)
  /\ stage' = [stage EXCEPT ![r] = "running"]
  /\ UNCHANGED <<active, waiting, calls, late, aborted>>

ResumeTooLate(r) ==
  /\ stage[r] = "admitted"
  /\ ~Admissible(r)
  /\ Vacate(r, IF r \in aborted THEN "aborted" ELSE "busy")
  /\ UNCHANGED <<calls, late, aborted>>

\* The operation settles, with a result or an error.
Finish(r) ==
  /\ stage[r] = "running"
  /\ Vacate(r, "done")
  /\ UNCHANGED <<calls, late, aborted>>

-----------------------------------------------------------------------------
(* remove(): the timer and the abort listener of a waiter *)

Withdraw(r, outcome) ==
  \E i \in 1 .. Len(waiting) :
    /\ waiting[i] = r
    /\ waiting' = RemoveAt(waiting, i)
    /\ stage' = [stage EXCEPT ![r] = outcome]

TimerFires(r) ==
  /\ stage[r] = "waiting"
  /\ Expired(r)
  /\ Withdraw(r, "busy")
  /\ UNCHANGED <<active, calls, late, aborted>>

\* The signal of a reader aborts: its listener runs in the same callback when
\* the reader waits; anywhere else the signal is only marked.
Abort(r) ==
  /\ r \in Readers \ aborted
  /\ stage[r] \in {"idle", "waiting", "admitted", "running"}
  /\ aborted' = aborted \cup {r}
  /\ \/ stage[r] = "waiting" /\ Withdraw(r, "aborted")
     \/ stage[r] # "waiting" /\ UNCHANGED <<waiting, stage>>
  /\ UNCHANGED <<active, calls, late>>

\* The clock reaches the next deadline.
DeadlinePasses ==
  /\ late < Len(calls)
  /\ late' = late + 1
  /\ UNCHANGED <<active, waiting, stage, calls, aborted>>

-----------------------------------------------------------------------------
Call(r) == RefuseAborted(r) \/ RefuseFull(r) \/ Enqueue(r) \/ StartAtOnce(r)
Continue(r) == Resume(r) \/ ResumeTooLate(r)

CapacityNext ==
  \/ DeadlinePasses
  \/ \E r \in Requests :
       Call(r) \/ Continue(r) \/ Finish(r) \/ TimerFires(r) \/ Abort(r)

CapacitySpec == CapacityInit /\ [][CapacityNext]_capacityVars

\* Time passes, timers fire and resolved promises continue.  That an operation
\* settles is not assumed.
CapacityFairness ==
  /\ WF_capacityVars(DeadlinePasses)
  /\ \A r \in Requests :
       WF_capacityVars(Continue(r)) /\ WF_capacityVars(TimerFires(r))

FairCapacitySpec == CapacitySpec /\ CapacityFairness

-----------------------------------------------------------------------------
(* Properties *)

Holders == {r \in Requests : stage[r] \in {"admitted", "running"}}

\* Types of the variables.
CapacityTypeOK ==
  /\ active \in BOOLEAN
  /\ waiting \in Seq(Requests)
  /\ stage \in [Requests -> Stages]
  /\ calls \in Seq(Requests)
  /\ late \in 0 .. Len(calls)
  /\ aborted \in SUBSET Readers

\* The slot is neither lost nor doubled: `active` is set exactly while one
\* call holds the slot, through every hand-over, late resumption and withdrawal.
SlotAccounted ==
  /\ active <=> Holders # {}
  /\ \A r, s \in Holders : r = s

\* The queue array and the calls agree: each waiting call is in the queue once,
\* nobody else is, the queue keeps its bound, and somebody will serve it.
QueueAccounted ==
  /\ \A r \in Requests : stage[r] = "waiting" <=> Waiting(r)
  /\ \A i, j \in 1 .. Len(waiting) : waiting[i] = waiting[j] => i = j
  /\ Len(waiting) <= MaxWaiting
  /\ waiting # <<>> => active

\* A call gets the slot by hand-over only when every call still waiting came
\* after it: no splice and no refused waiter lets a younger call overtake.
CalledBefore(r, s) ==
  \E i, j \in 1 .. Len(calls) : i < j /\ calls[i] = r /\ calls[j] = s

OldestAdmitted ==
  [][\A r \in Requests : stage[r] = "waiting" /\ stage'[r] = "admitted" =>
       \A s \in Requests \ {r} : stage[s] = "waiting" => CalledBefore(r, s)
    ]_capacityVars

\* A waiting call stops waiting within its deadline even if the operation that
\* holds the slot never settles.
WaitEnds == \A r \in Requests : []<>(stage[r] # "waiting")

\* The slot does what SerialExecution promises: an admitted call is still
\* pending, both refusals are one.
SerialStatus(g) ==
  CASE g = "idle" -> "new"
    [] g \in {"waiting", "admitted"} -> "pending"
    [] g = "running" -> "executing"
    [] g = "done" -> "executed"
    [] g \in {"busy", "aborted"} -> "refused"

serialStatus == [r \in Requests |-> SerialStatus(stage[r])]

Serial == INSTANCE SerialExecution WITH Calls <- Requests, status <- serialStatus

ImplementsSerial == Serial!Spec

\* Slot and queue together: the slot is held by exactly one call or free, and
\* the queue holds exactly the waiting calls, within its bound.
CapacityAccounted == SlotAccounted /\ QueueAccounted

\* The slot serves its calls one at a time and the oldest first, as its callers
\* rely on.
SlotServes == ImplementsSerial /\ OldestAdmitted
=============================================================================
