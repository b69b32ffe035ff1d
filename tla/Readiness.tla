------------------------------- MODULE Readiness -------------------------------
(***************************************************************************)
(* Probes of /readyz: readinessHandler of back-end/src/app.ts over the     *)
(* check that singleFlightReadiness (databaseCapacity.ts) makes them share.*)
(* The database and the capacity of the service change as they like.       *)
(***************************************************************************)
EXTENDS Integers, Sequences, FiniteSets

CONSTANTS
  Probes,      \* the probes of the model, each sent once
  MaxWaiting   \* 32 in production

ReadinessAssumption == IsFiniteSet(Probes) /\ MaxWaiting \in Nat \ {0}

VARIABLES
  waiters,   \* readinessWaiters
  pending,   \* the variable of that name: is a check shared at present?
  pings,     \* pings under way: "asked", "up" or "down" until the reply is in
  probe,     \* "new", "waiting" for a check, its result "up" or "down", "ok" or "busy"
  up,        \* the database answers
  ready,     \* capacity.ready
  fresh      \* ghost: probes during whose wait a check has come back

vars == <<waiters, pending, pings, probe, up, ready, fresh>>

Init ==
  /\ waiters = 0
  /\ pending = FALSE
  /\ pings = <<>>
  /\ probe = [p \in Probes |-> "new"]
  /\ up \in BOOLEAN
  /\ ready \in BOOLEAN
  /\ fresh = {}

-----------------------------------------------------------------------------
(* Faulty variants of the operators below, each the code after a plausible   *)
(* slip; no specification uses them, they show what the properties detect.   *)

\* `>` for `>=`.
FullTooLate == waiters > MaxWaiting
\* The capacity looked at only before the check.
AnswerUnchecked(p) == IF probe[p] = "up" THEN "ok" ELSE "busy"
\* The result handed to one of those who wait.
ReturnToOne(result) ==
  /\ pings # <<>> /\ (result = "up" => Head(pings) = "up")
  /\ pings' = Tail(pings)
  /\ pending' = FALSE
  /\ LET first == CHOOSE p \in Probes : probe[p] = "waiting"
     IN  probe' = [probe EXCEPT ![first] = result] /\ fresh' = fresh \cup {first}
  /\ UNCHANGED <<waiters, up, ready>>

-----------------------------------------------------------------------------
(* readinessHandler *)

Full == waiters >= MaxWaiting

Refuse(p) ==
  /\ probe[p] = "new" /\ (~ready \/ Full)
  /\ probe' = [probe EXCEPT ![p] = "busy"]
  /\ UNCHANGED <<waiters, pending, pings, up, ready, fresh>>

Join == pending

\* A probe waits for the check under way, or begins one.
Arrive(p) ==
  /\ probe[p] = "new" /\ ready /\ ~Full
  /\ waiters' = waiters + 1
  /\ probe' = [probe EXCEPT ![p] = "waiting"]
  /\ pending' = TRUE
  /\ pings' = IF Join THEN pings ELSE Append(pings, "asked")
  /\ UNCHANGED <<up, ready, fresh>>

\* The response of a probe whose check has come back.
AnswerOf(p) == IF probe[p] = "up" /\ ready THEN "ok" ELSE "busy"
Left(p) == waiters - 1

Answer(p) ==
  /\ probe[p] \in {"up", "down"}
  /\ probe' = [probe EXCEPT ![p] = AnswerOf(p)]
  /\ waiters' = Left(p)
  /\ UNCHANGED <<pending, pings, up, ready, fresh>>

-----------------------------------------------------------------------------
(* The check *)

\* The database answers the ping, or the connection is found closed.
Ping ==
  /\ pings # <<>> /\ Head(pings) = "asked"
  /\ pings' = <<IF up THEN "up" ELSE "down">> \o Tail(pings)
  /\ UNCHANGED <<waiters, pending, probe, up, ready, fresh>>

\* The reply, or an error or the timeout instead: no check is shared any more
\* when those who waited go on.
Return(result) ==
  /\ pings # <<>> /\ (result = "up" => Head(pings) = "up")
  /\ pings' = Tail(pings)
  /\ pending' = FALSE
  /\ probe' = [p \in Probes |-> IF probe[p] = "waiting" THEN result ELSE probe[p]]
  /\ fresh' = fresh \cup {p \in Probes : probe[p] = "waiting"}
  /\ UNCHANGED <<waiters, up, ready>>

-----------------------------------------------------------------------------
\* The database, the load and the journal.
Surroundings ==
  /\ (up' = ~up /\ ready' = ready) \/ (up' = up /\ ready' = ~ready)
  /\ UNCHANGED <<waiters, pending, pings, probe, fresh>>

Next ==
  \/ \E p \in Probes : Refuse(p) \/ Arrive(p) \/ Answer(p)
  \/ Ping \/ Return("up") \/ Return("down") \/ Surroundings

Spec == Init /\ [][Next]_vars

\* A ping ends in 1.5 s at the latest; promises continue.
Fairness == WF_vars(Return("down")) /\ \A p \in Probes : WF_vars(Answer(p))
FairSpec == Spec /\ Fairness

-----------------------------------------------------------------------------
(* Properties *)

\* Types of the variables.
TypeOK ==
  /\ waiters \in Nat
  /\ pending \in BOOLEAN
  /\ probe \in [Probes -> {"new", "waiting", "up", "down", "ok", "busy"}]
  /\ up \in BOOLEAN /\ ready \in BOOLEAN
  /\ fresh \in SUBSET Probes

\* app-security.test.ts:29, "shares one readiness command and bounds waiting
\* probe responses": whatever the order of arrivals and answers.
OneCheckFewWaiters ==
  /\ Len(pings) <= 1
  /\ waiters = Cardinality({p \in Probes : probe[p] \in {"waiting", "up", "down"}})
  /\ waiters <= MaxWaiting

\* No probe is told "ok" by a check that was over when it came, and none by a
\* service that has stopped admitting requests while it waited.
OkIsFresh ==
  [][\A p \in Probes : probe'[p] = "ok" /\ probe[p] # "ok" => p \in fresh /\ ready]_vars

\* A probe is answered, however the database behaves.
ProbesAnswered == \A p \in Probes : []<>(probe[p] \in {"new", "ok", "busy"})
=============================================================================
