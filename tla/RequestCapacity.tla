---------------------------- MODULE RequestCapacity ----------------------------
(***************************************************************************)
(* back-end/src/runtimeCapacity.ts and the order of middleware in app.ts:  *)
(* the admission of requests.  A request holds its slot until its          *)
(* connection has ended and the runs it began (requestWork.run, around the *)
(* session lookup, the principal and the handler) have settled, in either  *)
(* order.  Each middleware calls the next one from inside its own run,     *)
(* which settles a little later; between the session and the principal the *)
(* rate limiters wait outside of any run.                                  *)
(***************************************************************************)
EXTENDS Naturals, FiniteSets

CONSTANTS
  Requests,   \* the requests of the model, each sent once
  Limit       \* limit, 64 in production

CapacityAssumption == IsFiniteSet(Requests) /\ Limit \in Nat \ {0}

VARIABLES
  active,     \* the field of that name
  stopping,   \* the field of that name
  at,         \* where a request is among the middleware
  pending,    \* the runs of a request that have not settled: `pending` counts them
  ended,      \* its variable of that name
  released    \* its variable of that name

vars == <<active, stopping, at, pending, ended, released>>

Runs == {"session", "principal", "handler"}
Places == Runs \cup {"none", "refused", "body", "limits", "answered"}

Ready(healthy) == ~stopping /\ active < Limit /\ healthy

Init ==
  /\ active = 0
  /\ stopping = FALSE
  /\ at = [r \in Requests |-> "none"]
  /\ pending = [r \in Requests |-> {}]
  /\ ended = [r \in Requests |-> FALSE]
  /\ released = [r \in Requests |-> FALSE]

-----------------------------------------------------------------------------
(* Faulty variants of the operators below, each the code after a plausible   *)
(* slip; no specification uses them, they show what the properties detect.   *)

\* The slot returned with the connection, whatever still runs.
ReleaseWithConnection(r, over, runs) ==
  /\ ended' = [ended EXCEPT ![r] = over]
  /\ pending' = [pending EXCEPT ![r] = runs]
  /\ IF over /\ ~released[r]
     THEN released' = [released EXCEPT ![r] = TRUE] /\ active' = active - 1
     ELSE UNCHANGED <<released, active>>
\* No record of the release: a run and the connection each return a slot.
ReleaseAgain(r, over, runs) ==
  /\ ended' = [ended EXCEPT ![r] = over]
  /\ pending' = [pending EXCEPT ![r] = runs]
  /\ released' = [released EXCEPT ![r] = @ \/ over]
  /\ active' = IF over THEN active - 1 ELSE active
\* release() only called when the connection ends.
SettleSilently(r, run) ==
  /\ run \in pending[r] /\ at[r] # run
  /\ pending' = [pending EXCEPT ![r] = @ \ {run}]
  /\ UNCHANGED <<active, stopping, at, ended, released>>

-----------------------------------------------------------------------------
(* The middleware of a request *)

\* What release() does once `runs` are pending and the connection is `over`.
Release(r, over, runs) ==
  /\ ended' = [ended EXCEPT ![r] = over]
  /\ pending' = [pending EXCEPT ![r] = runs]
  /\ IF over /\ runs = {} /\ ~released[r]
     THEN released' = [released EXCEPT ![r] = TRUE] /\ active' = active - 1
     ELSE UNCHANGED <<released, active>>

\* capacity.middleware: a slot, or 503 at once.  Whether the journal is healthy
\* is the affair of ServiceLog.
Arrive(r, healthy) ==
  /\ at[r] = "none"
  /\ IF Ready(healthy)
     THEN at' = [at EXCEPT ![r] = "body"] /\ active' = active + 1
     ELSE at' = [at EXCEPT ![r] = "refused"] /\ UNCHANGED active
  /\ UNCHANGED <<stopping, pending, ended, released>>

\* run() throws and trackHandler returns when the connection is gone.
MayRun(r) == ~ended[r]

Run(r, run) ==
  /\ MayRun(r)
  /\ at' = [at EXCEPT ![r] = run]
  /\ pending' = [pending EXCEPT ![r] = @ \cup {run}]
  /\ UNCHANGED <<active, stopping, ended, released>>

BodyRead(r) == at[r] = "body" /\ Run(r, "session")
WithinRates(r) == at[r] = "limits" /\ Run(r, "principal")
PrincipalFound(r) == at[r] = "principal" /\ Run(r, "handler")

\* The session lookup calls back; nothing follows if the client is gone.
SessionFound(r) ==
  /\ at[r] = "session"
  /\ at' = [at EXCEPT ![r] = IF ended[r] THEN "answered" ELSE "limits"]
  /\ UNCHANGED <<active, stopping, pending, ended, released>>

\* A response or an error, from any of them; the handler has done its work.
Answer(r) ==
  /\ at[r] \in {"body", "session", "limits", "principal", "handler"}
  /\ at' = [at EXCEPT ![r] = "answered"]
  /\ UNCHANGED <<active, stopping, pending, ended, released>>

\* The finally block of a run.
Settle(r, run) ==
  /\ run \in pending[r] /\ at[r] # run
  /\ Release(r, ended[r], pending[r] \ {run})
  /\ UNCHANGED <<stopping, at>>

-----------------------------------------------------------------------------
(* The connection and the process *)

\* end() by "finish": the response is out, its session touched before that.
Finish(r) ==
  /\ at[r] = "answered" /\ ~ended[r]
  /\ Release(r, TRUE, pending[r])
  /\ UNCHANGED <<stopping, at>>

\* end() by "close": the client leaves, or is cut off in its request.
Disconnect(r) ==
  /\ at[r] \notin {"none", "refused"} /\ ~ended[r]
  /\ Release(r, TRUE, pending[r])
  /\ UNCHANGED <<stopping, at>>

Stop ==
  /\ ~stopping
  /\ stopping' = TRUE
  /\ UNCHANGED <<active, at, pending, ended, released>>

\* What is read before the handler is abandoned or bounded by timeoutMS, the
\* handler by the bounds of its calls.
Progress(r) ==
  \/ BodyRead(r) \/ SessionFound(r) \/ WithinRates(r) \/ PrincipalFound(r) \/ Answer(r)
  \/ \E run \in Runs : Settle(r, run)

RequestNext(r) ==
  (\E healthy \in BOOLEAN : Arrive(r, healthy)) \/ Progress(r) \/ Finish(r) \/ Disconnect(r)

Next == (\E r \in Requests : RequestNext(r)) \/ Stop

Spec == Init /\ [][Next]_vars

\* A stalled client is cut off by requestTimeout, or its response goes out.
Fairness ==
  \A r \in Requests :
    /\ WF_vars(Answer(r))
    /\ WF_vars(Finish(r) \/ Disconnect(r))
    /\ \A run \in Runs : WF_vars(Settle(r, run))

FairSpec == Spec /\ Fairness

-----------------------------------------------------------------------------
(* Properties *)

\* Types of the variables.
TypeOK ==
  /\ active \in Nat
  /\ stopping \in BOOLEAN
  /\ at \in [Requests -> Places]
  /\ pending \in [Requests -> SUBSET Runs]
  /\ ended \in [Requests -> BOOLEAN]
  /\ released \in [Requests -> BOOLEAN]

Admitted == {r \in Requests : at[r] \notin {"none", "refused"}}

\* Every admitted request is counted until its slot is returned, which happens
\* once, in whatever order its runs settle and its connection ends.
SlotsAccounted ==
  /\ active = Cardinality({r \in Admitted : ~released[r]})
  /\ active <= Limit

\* runtimeCapacity.ts:17: work that goes on for clients who have left counts
\* like all other work, so that never more than the limit is under way.
WorkWithinLimit ==
  Cardinality({r \in Requests : pending[r] # {}}) <= Limit

\* Every slot comes back.
SlotsReturn == \A r \in Requests : []<>(r \in Admitted => released[r])
=============================================================================
