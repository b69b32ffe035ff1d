------------------------------ MODULE ServiceLog ------------------------------
(***************************************************************************)
(* back-end/src/serviceLog.ts: the journal of the service, which stops the *)
(* admission of requests when it backs up, and the requests that write to  *)
(* it.  A write hands its line to stdout or stderr and is counted until    *)
(* the callback of that stream, which a stalled reader delays at will.     *)
(*                                                                         *)
(* Of the requests only two numbers matter: how many are admitted, and how *)
(* many records they may still write between them.                         *)
(***************************************************************************)
EXTENDS Naturals, Sequences, FiniteSets

CONSTANTS
  Streams,      \* stdout and stderr
  Limit,        \* requests admitted at a time, 64 in production
  PerRequest,   \* records a request writes at most: its audit and its errors
  MaxOthers,    \* bound: records written by no request, of start, stop and store
  MaxRecord,    \* 4096 bytes
  Soft,         \* 64 KiB: not ready from here on
  Hard          \* 1 MiB: no more is queued

\* "Headroom covers error and audit records from all 64 admitted requests."
LogAssumption ==
  /\ {Limit, PerRequest, MaxOthers, MaxRecord, Soft, Hard} \subseteq Nat
  /\ Soft + (Limit * PerRequest + MaxOthers) * MaxRecord <= Hard

VARIABLES
  pending,    \* the field of that name: bytes handed over and not called back
  failed,     \* the field of that name
  queued,     \* the sizes of the records each stream has yet to call back
  admitted,   \* the number of requests under way
  owed,       \* the number of records they may still write
  others,     \* the number of records still to come from elsewhere
  broken      \* ghost: a stream has failed, or a record was too long

vars == <<pending, failed, queued, admitted, owed, others, broken>>

Init ==
  /\ pending = 0
  /\ failed = FALSE
  /\ queued = [s \in Streams |-> <<>>]
  /\ admitted = 0
  /\ owed = 0
  /\ others = MaxOthers
  /\ broken = FALSE

-----------------------------------------------------------------------------
(* Faulty variants of the operators below, each the code after a plausible   *)
(* slip; no specification uses them, they show what the properties detect.   *)

\* Readiness checked against the hard bound, or not at all.
ReadyUntilFailure == ~failed /\ pending < Hard
\* Added in bytes and subtracted in characters, of which a record has fewer.
CalledBackInCharacters(s, error) ==
  /\ queued[s] # <<>>
  /\ queued' = [queued EXCEPT ![s] = Tail(@)]
  /\ pending' = pending - 1
  /\ failed' = (failed \/ error)
  /\ broken' = (broken \/ error)
  /\ UNCHANGED <<admitted, owed, others>>
\* The bytes subtracted only where the stream reports no error.
CalledBackOnSuccess(s, error) ==
  /\ queued[s] # <<>>
  /\ queued' = [queued EXCEPT ![s] = Tail(@)]
  /\ pending' = IF error THEN pending ELSE pending - Head(queued[s])
  /\ failed' = (failed \/ error)
  /\ broken' = (broken \/ error)
  /\ UNCHANGED <<admitted, owed, others>>

-----------------------------------------------------------------------------
(* Requests come and go *)

Ready == ~failed /\ pending < Soft

Admit ==
  /\ Ready
  /\ admitted < Limit
  /\ admitted' = admitted + 1
  /\ owed' = owed + PerRequest
  /\ UNCHANGED <<pending, failed, queued, others, broken>>

\* A request is over, having written some of its records or none.
Leave ==
  /\ admitted > 0
  /\ admitted' = admitted - 1
  /\ owed' \in 0 .. owed
  /\ owed <= owed' + PerRequest
  /\ owed' <= (admitted - 1) * PerRequest
  /\ UNCHANGED <<pending, failed, queued, others, broken>>

-----------------------------------------------------------------------------
(* write() *)

Accepts(bytes) == ~failed /\ bytes <= MaxRecord /\ pending + bytes <= Hard

\* The line goes to a stream, is refused, or the stream throws.
Write(bytes) ==
  \/ /\ Accepts(bytes)
     /\ \E s \in Streams : queued' = [queued EXCEPT ![s] = Append(@, bytes)]
     /\ pending' = pending + bytes
     /\ UNCHANGED <<failed, broken>>
  \/ /\ ~Accepts(bytes)
     /\ failed' = TRUE
     /\ broken' = (broken \/ bytes > MaxRecord)
     /\ UNCHANGED <<pending, queued>>
  \/ /\ Accepts(bytes)
     /\ failed' = TRUE
     /\ broken' = TRUE
     /\ UNCHANGED <<pending, queued>>

\* Audit and error records are bounded field by field.
RequestWrites(bytes) ==
  /\ owed > 0
  /\ Write(bytes)
  /\ owed' = owed - 1
  /\ UNCHANGED <<admitted, others>>

OtherWrites(bytes) ==
  /\ others > 0
  /\ Write(bytes)
  /\ others' = others - 1
  /\ UNCHANGED <<admitted, owed>>

-----------------------------------------------------------------------------
(* The streams *)

\* finish(): a stream calls back for its oldest record, perhaps with an error.
CalledBack(s, error) ==
  /\ queued[s] # <<>>
  /\ queued' = [queued EXCEPT ![s] = Tail(@)]
  /\ pending' = pending - Head(queued[s])
  /\ failed' = (failed \/ error)
  /\ broken' = (broken \/ error)
  /\ UNCHANGED <<admitted, owed, others>>

\* A stream emits "error" or "close".
StreamFails ==
  /\ failed' = TRUE
  /\ broken' = TRUE
  /\ UNCHANGED <<pending, queued, admitted, owed, others>>

-----------------------------------------------------------------------------
Next ==
  \/ Admit
  \/ Leave
  \/ \E bytes \in 1 .. MaxRecord : RequestWrites(bytes)
  \/ \E bytes \in 1 .. MaxRecord + 1 : OtherWrites(bytes)
  \/ \E s \in Streams, error \in BOOLEAN : CalledBack(s, error)
  \/ StreamFails

Spec == Init /\ [][Next]_vars

\* Callbacks come unless the journal stalls; nothing else is owed.
Fairness == WF_vars(\E s \in Streams : CalledBack(s, FALSE))
FairSpec == Spec /\ Fairness

-----------------------------------------------------------------------------
(* Properties *)

\* Types of the variables.
TypeOK ==
  /\ pending \in Nat
  /\ failed \in BOOLEAN
  /\ queued \in [Streams -> Seq(Nat)]
  /\ admitted \in 0 .. Limit
  /\ owed \in 0 .. admitted * PerRequest
  /\ others \in 0 .. MaxOthers
  /\ broken \in BOOLEAN

\* The bytes handed over and not called back, each by its stream, its record there
\* and its place in the record.
HandedOver ==
  UNION {UNION {{<<s, i, b>> : b \in 1 .. queued[s][i]} : i \in 1 .. Len(queued[s])} : s \in Streams}

\* What is counted is what the streams have yet to call back, through errors,
\* refusals and exceptions: the count neither creeps up, which would close the
\* service for good, nor runs low, which would let the queue grow.
PendingAccounted == pending = Cardinality(HandedOver)

\* serviceLog.ts:39: no record of an admitted request is ever dropped for want
\* of room, however long the journal stalls: the log fails only when a stream
\* has, because admission stops early enough.
HeadroomSuffices == failed => broken

\* A journal that only stalled becomes ready again.
ReadyAgain == []<>(Ready \/ broken)
=============================================================================
