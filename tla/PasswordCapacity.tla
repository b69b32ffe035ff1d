--------------------------- MODULE PasswordCapacity ---------------------------
(***************************************************************************)
(* back-end/src/passwordWork.ts: the slots for Argon2 hashes and checks,   *)
(* with their bounded queue.  A call leaves the queue only by being served:*)
(* there is no deadline and no abort signal, so a client that is gone      *)
(* keeps its place.  A waiter whose `resolve` was called owns its slot     *)
(* before its continuation has run: the stage "admitted".                  *)
(***************************************************************************)
EXTENDS Naturals, Sequences, FiniteSets

CONSTANTS
  Calls,         \* the calls of run(), each made at most once
  Concurrency,   \* concurrency, 2 in production
  MaxWaiting     \* maxWaiting, 32 in production

PasswordAssumption ==
  /\ IsFiniteSet(Calls)
  /\ Concurrency \in Nat \ {0}
  /\ MaxWaiting \in Nat

VARIABLES
  active,    \* the field of that name
  waiting,   \* the resolve callbacks, oldest first
  stage      \* how far each call has come

vars == <<active, waiting, stage>>

Stages == {"idle", "waiting", "admitted", "running", "done", "busy"}

Init ==
  /\ active = 0
  /\ waiting = <<>>
  /\ stage = [c \in Calls |-> "idle"]

-----------------------------------------------------------------------------
(* Faulty variants of the operators below, each the code after a plausible   *)
(* slip; no specification uses them, they show what the properties detect.   *)

\* `>` for `>=`: one call too many at once.
StartBeyondBound(c) ==
  /\ stage[c] = "idle" /\ active <= Concurrency
  /\ active' = active + 1
  /\ stage' = [stage EXCEPT ![c] = "running"]
  /\ UNCHANGED waiting

\* The decrement made in either case.
SettleAndFree(c) ==
  /\ stage[c] = "running"
  /\ active' = active - 1
  /\ waiting' = IF waiting = <<>> THEN waiting ELSE Tail(waiting)
  /\ stage' = [d \in Calls |->
       IF d = c THEN "done"
       ELSE IF waiting # <<>> /\ d = Head(waiting) THEN "admitted" ELSE stage[d]]

\* The finally block only decrements: the next call that comes finds the slot.
SettleWithoutHandOver(c) ==
  /\ stage[c] = "running"
  /\ active' = active - 1
  /\ stage' = [stage EXCEPT ![c] = "done"]
  /\ UNCHANGED waiting

-----------------------------------------------------------------------------
(* run(), up to its first await *)

Refuse(c) ==
  /\ stage[c] = "idle"
  /\ active >= Concurrency /\ Len(waiting) >= MaxWaiting
  /\ stage' = [stage EXCEPT ![c] = "busy"]
  /\ UNCHANGED <<active, waiting>>

Enqueue(c) ==
  /\ stage[c] = "idle"
  /\ active >= Concurrency /\ Len(waiting) < MaxWaiting
  /\ waiting' = Append(waiting, c)
  /\ stage' = [stage EXCEPT ![c] = "waiting"]
  /\ UNCHANGED active

Start(c) ==
  /\ stage[c] = "idle"
  /\ active < Concurrency
  /\ active' = active + 1
  /\ stage' = [stage EXCEPT ![c] = "running"]
  /\ UNCHANGED waiting

\* The continuation of a waiter begins its operation.
Resume(c) ==
  /\ stage[c] = "admitted"
  /\ stage' = [stage EXCEPT ![c] = "running"]
  /\ UNCHANGED <<active, waiting>>

\* The operation settles, with a result or an error: the finally block.
Settle(c) ==
  /\ stage[c] = "running"
  /\ \/ /\ waiting # <<>>
        /\ waiting' = Tail(waiting)
        /\ stage' = [stage EXCEPT ![c] = "done", ![Head(waiting)] = "admitted"]
        /\ UNCHANGED active
     \/ /\ waiting = <<>>
        /\ active' = active - 1
        /\ stage' = [stage EXCEPT ![c] = "done"]
        /\ UNCHANGED waiting

Next == \E c \in Calls : Refuse(c) \/ Enqueue(c) \/ Start(c) \/ Resume(c) \/ Settle(c)

Spec == Init /\ [][Next]_vars

\* Resolved promises continue; a hash of fixed cost comes to an end.
Fairness == \A c \in Calls : WF_vars(Resume(c)) /\ WF_vars(Settle(c))

FairSpec == Spec /\ Fairness

-----------------------------------------------------------------------------
(* Properties *)

Holders == {c \in Calls : stage[c] \in {"admitted", "running"}}

\* Types of the variables.
TypeOK ==
  /\ active \in Nat
  /\ waiting \in Seq(Calls)
  /\ stage \in [Calls -> Stages]

\* No slot is lost or doubled by a hand-over: the count is the number of calls
\* that own one, and never beyond the memory that was planned for.
SlotsAccounted == active = Cardinality(Holders) /\ active <= Concurrency

\* The queue array and the calls agree, each waiting call once; nobody waits
\* while a slot is free, so nobody overtakes the queue.
QueueAccounted ==
  /\ \A c \in Calls : stage[c] = "waiting" <=> \E i \in 1 .. Len(waiting) : waiting[i] = c
  /\ \A i, j \in 1 .. Len(waiting) : waiting[i] = waiting[j] => i = j
  /\ Len(waiting) <= MaxWaiting
  /\ waiting # <<>> => active = Concurrency

\* Whoever is in the queue is served: no hand-over is forgotten, although
\* nothing but a hand-over ever ends a wait.
EveryWaiterServed == \A c \in Calls : []<>(stage[c] \in {"idle", "done", "busy"})

\* The slots do what BoundedExecution promises.
Status(g) ==
  CASE g = "idle" -> "new"
    [] g \in {"waiting", "admitted"} -> "pending"
    [] g = "running" -> "executing"
    [] g = "done" -> "executed"
    [] g = "busy" -> "refused"

boundedStatus == [c \in Calls |-> Status(stage[c])]

Bounded == INSTANCE BoundedExecution WITH Bound <- Concurrency, status <- boundedStatus

ImplementsBounded == Bounded!Spec
=============================================================================
