------------------------------ MODULE ServerProofs ------------------------------
(***************************************************************************)
(* The parts of the server are correct for any calls, requests, clients,   *)
(* probes, rows and releases and for every value of their bounds.  Each    *)
(* part has its inductive invariant, which its own steps keep and which    *)
(* outlasts the steps of the others because they leave its state alone.    *)
(***************************************************************************)
EXTENDS Server, WorkflowCapacityProofs, FiniteSetTheorems

-----------------------------------------------------------------------------
(* Password work *)

\* Slots and queue vouch for each other: a hand-over moves a slot from the call
\* that settles to the head of the queue, which is a waiting call.
PasswordInv == Password!TypeOK /\ Password!SlotsAccounted /\ Password!QueueAccounted

PasswordWaiting(c) == Holds(pwWaiting, Len(pwWaiting), c)

\* Finite sets inside the instance are those of this module; so below.
LEMMA PasswordSets ==
  \A S : /\ Password!IsFiniteSet(S) <=> IsFiniteSet(S)
         /\ Password!Cardinality(S) = Cardinality(S)
BY DEF Password!IsFiniteSet, IsFiniteSet, Password!Cardinality, Cardinality

LEMMA PasswordParameters ==
  IsFiniteSet(PasswordCalls) /\ PasswordSlots \in Nat \ {0} /\ PasswordQueue \in Nat
BY ServerAssumption, PasswordSets DEF Password!PasswordAssumption

\* The calls that own a slot are finitely many.
LEMMA PasswordHoldersFinite ==
  /\ IsFiniteSet(Password!Holders)
  /\ Cardinality(Password!Holders) \in Nat
<1>1. Password!Holders \in SUBSET PasswordCalls
  BY DEF Password!Holders
<1> QED
  BY <1>1, PasswordParameters, FS_Subset, FS_CardinalityType

LEMMA PasswordInitial == Password!Init => PasswordInv
<1> SUFFICES ASSUME Password!Init PROVE PasswordInv
  OBVIOUS
<1>1. Password!TypeOK
  BY EmptySeq DEF Password!Init, Password!TypeOK, Password!Stages
<1>2. Password!Holders = {}
  BY DEF Password!Init, Password!Holders
<1>3. Password!SlotsAccounted
  BY <1>2, FS_EmptySet, PasswordSets, PasswordParameters
     DEF Password!Init, Password!SlotsAccounted
<1>4. Len(pwWaiting) = 0 /\ 1 .. Len(pwWaiting) = {}
  BY EmptySeq DEF Password!Init
<1>5. Password!QueueAccounted
  BY <1>4, PasswordParameters DEF Password!Init, Password!QueueAccounted
<1> QED
  BY <1>1, <1>3, <1>5 DEF PasswordInv

LEMMA PasswordEnqueueKeeps ==
  ASSUME PasswordInv, NEW c \in PasswordCalls, Password!Enqueue(c)
  PROVE  PasswordInv'
<1>0. /\ Password!TypeOK /\ Password!SlotsAccounted /\ Password!QueueAccounted
      /\ PasswordQueue \in Nat /\ PasswordSlots \in Nat \ {0}
  BY PasswordParameters DEF PasswordInv
<1>1. /\ pwWaiting' \in Seq(PasswordCalls) /\ Len(pwWaiting) \in Nat
      /\ Len(pwWaiting') = Len(pwWaiting) + 1
      /\ Extends(pwWaiting, pwWaiting', Len(pwWaiting), c)
  BY <1>0, AppendFacts DEF Password!TypeOK, Password!Enqueue, Extends
<1>2. Distinct(pwWaiting, Len(pwWaiting)) /\ ~ Holds(pwWaiting, Len(pwWaiting), c)
  BY <1>0 DEF Password!QueueAccounted, Password!Enqueue, Distinct, Holds
<1>3. /\ Distinct(pwWaiting', Len(pwWaiting'))
      /\ \A d : Holds(pwWaiting', Len(pwWaiting'), d) <=> PasswordWaiting(d) \/ d = c
  BY <1>1, <1>2, OneJoins DEF PasswordWaiting
<1>4. \A d \in PasswordCalls : pwStage'[d] = IF d = c THEN "waiting" ELSE pwStage[d]
  BY <1>0 DEF Password!TypeOK, Password!Enqueue
<1>5. Password!TypeOK'
  BY <1>0, <1>1 DEF Password!TypeOK, Password!Stages, Password!Enqueue
<1>6. Password!Holders' = Password!Holders
  BY <1>4 DEF Password!Holders, Password!Enqueue
<1>7. Password!SlotsAccounted'
  BY <1>0, <1>6, PasswordSets DEF Password!SlotsAccounted, Password!Enqueue
<1>8. \A d \in PasswordCalls :
        pwStage'[d] = "waiting" <=> Holds(pwWaiting', Len(pwWaiting'), d)
  BY <1>0, <1>3, <1>4 DEF Password!QueueAccounted, PasswordWaiting, Holds
<1>9. Len(pwWaiting') <= PasswordQueue /\ pwActive' = PasswordSlots
  BY <1>0, <1>1 DEF Password!Enqueue, Password!SlotsAccounted, Password!TypeOK
<1>10. Password!QueueAccounted'
  BY <1>3, <1>8, <1>9 DEF Password!QueueAccounted, Distinct, Holds
<1> QED
  BY <1>5, <1>7, <1>10 DEF PasswordInv

\* The steps that leave the queue alone.
LEMMA PasswordQueueUntouched ==
  ASSUME PasswordInv, UNCHANGED pwWaiting, Password!TypeOK', Password!SlotsAccounted',
         pwWaiting # <<>> => pwActive' = pwActive,
         \A c \in PasswordCalls : pwStage'[c] = "waiting" <=> pwStage[c] = "waiting"
  PROVE  PasswordInv'
BY DEF PasswordInv, Password!QueueAccounted

LEMMA PasswordHandOverKeeps ==
  ASSUME PasswordInv, NEW c \in PasswordCalls, Password!Settle(c), pwWaiting # <<>>
  PROVE  PasswordInv'
<1> DEFINE head == pwWaiting[1]
<1>0. /\ Password!TypeOK /\ Password!SlotsAccounted /\ Password!QueueAccounted
      /\ PasswordQueue \in Nat /\ PasswordSlots \in Nat \ {0}
  BY PasswordParameters DEF PasswordInv
<1>1. /\ Head(pwWaiting) = head /\ 1 \in 1 .. Len(pwWaiting) /\ Len(pwWaiting) \in Nat
      /\ Tail(pwWaiting) \in Seq(PasswordCalls)
      /\ Len(Tail(pwWaiting)) = Len(pwWaiting) - 1
      /\ Closes(pwWaiting, Tail(pwWaiting), Len(pwWaiting), 1)
  <2>1. pwWaiting \in Seq(PasswordCalls)
    BY <1>0 DEF Password!TypeOK
  <2> QED
    BY <2>1, TailFacts, LenProperties DEF Closes
<1>2. /\ pwWaiting' = Tail(pwWaiting) /\ pwActive' = pwActive
      /\ pwStage' = [pwStage EXCEPT ![c] = "done", ![head] = "admitted"]
  BY <1>1 DEF Password!Settle
<1>3. head \in PasswordCalls /\ pwStage[head] = "waiting" /\ head # c
  <2>1. head \in PasswordCalls
    BY <1>0, <1>1, ElementOfSeq DEF Password!TypeOK
  <2> QED
    BY <1>0, <1>1, <2>1 DEF Password!QueueAccounted, Password!Settle
<1> HIDE DEF head
<1>4. \A d \in PasswordCalls : pwStage'[d] =
        IF d = head THEN "admitted" ELSE IF d = c THEN "done" ELSE pwStage[d]
  BY <1>0, <1>2, <1>3 DEF Password!TypeOK
<1>5. Password!TypeOK'
  BY <1>0, <1>1, <1>2, <1>3 DEF Password!TypeOK, Password!Stages
<1>6. Password!Holders' = (Password!Holders \ {c}) \cup {head}
  BY <1>3, <1>4 DEF Password!Holders, Password!Settle
<1>7. Cardinality(Password!Holders') = Cardinality(Password!Holders)
  <2>1. c \in Password!Holders /\ head \notin Password!Holders \ {c}
    BY <1>3 DEF Password!Holders, Password!Settle
  <2>2. /\ IsFiniteSet(Password!Holders \ {c})
        /\ Cardinality(Password!Holders \ {c}) = Cardinality(Password!Holders) - 1
    BY <2>1, PasswordHoldersFinite, FS_RemoveElement
  <2>3. Cardinality((Password!Holders \ {c}) \cup {head})
          = Cardinality(Password!Holders \ {c}) + 1
    BY <2>1, <2>2, FS_AddElement
  <2> QED
    BY <1>6, <2>2, <2>3, PasswordHoldersFinite
<1>8. Password!SlotsAccounted'
  BY <1>0, <1>2, <1>7, PasswordSets DEF Password!SlotsAccounted
<1>9. /\ Distinct(pwWaiting', Len(pwWaiting'))
      /\ \A d : Holds(pwWaiting', Len(pwWaiting'), d) <=> PasswordWaiting(d) /\ d # head
  BY <1>0, <1>1, <1>2, OneLeaves
     DEF Password!QueueAccounted, Distinct, PasswordWaiting, head
<1>10. \A d \in PasswordCalls :
         pwStage'[d] = "waiting" <=> Holds(pwWaiting', Len(pwWaiting'), d)
  BY <1>0, <1>4, <1>9 DEF Password!QueueAccounted, PasswordWaiting, Holds, Password!Settle
<1>11. Len(pwWaiting') <= PasswordQueue /\ pwActive' = PasswordSlots
  BY <1>0, <1>1, <1>2 DEF Password!QueueAccounted
<1>12. Password!QueueAccounted'
  BY <1>9, <1>10, <1>11 DEF Password!QueueAccounted, Distinct, Holds
<1> QED
  BY <1>5, <1>8, <1>12 DEF PasswordInv

LEMMA PasswordFreeKeeps ==
  ASSUME PasswordInv, NEW c \in PasswordCalls, Password!Settle(c), pwWaiting = <<>>
  PROVE  PasswordInv'
<1>0. /\ Password!TypeOK /\ Password!SlotsAccounted /\ PasswordSlots \in Nat \ {0}
  BY PasswordParameters DEF PasswordInv
<1>1. /\ pwActive' = pwActive - 1 /\ pwStage[c] = "running"
      /\ pwStage' = [pwStage EXCEPT ![c] = "done"] /\ pwWaiting' = pwWaiting
  BY DEF Password!Settle
<1>2. \A d \in PasswordCalls : pwStage'[d] = IF d = c THEN "done" ELSE pwStage[d]
  BY <1>0, <1>1 DEF Password!TypeOK
<1>3. Password!Holders' = Password!Holders \ {c} /\ c \in Password!Holders
  BY <1>1, <1>2 DEF Password!Holders
<1>4. Cardinality(Password!Holders') = Cardinality(Password!Holders) - 1
  BY <1>3, PasswordHoldersFinite, FS_RemoveElement
<1>5. Cardinality(Password!Holders) >= 1
  BY <1>3, PasswordHoldersFinite, FS_EmptySet
<1>6. Password!SlotsAccounted'
  BY <1>0, <1>1, <1>4, <1>5, PasswordSets DEF Password!SlotsAccounted, Password!TypeOK
<1>7. Password!TypeOK'
  BY <1>0, <1>1, <1>5, PasswordSets, PasswordHoldersFinite
     DEF Password!TypeOK, Password!Stages, Password!SlotsAccounted
<1> QED
  BY <1>1, <1>2, <1>6, <1>7, PasswordQueueUntouched

LEMMA PasswordStep == PasswordInv /\ [Password!Next]_passwordVars => PasswordInv'
<1> SUFFICES ASSUME PasswordInv, [Password!Next]_passwordVars PROVE PasswordInv'
  OBVIOUS
<1>0. /\ Password!TypeOK /\ Password!SlotsAccounted
      /\ PasswordSlots \in Nat \ {0}
  BY PasswordParameters DEF PasswordInv
<1>1. ASSUME NEW c \in PasswordCalls, Password!Refuse(c)
      PROVE  PasswordInv'
  <2>1. \A d \in PasswordCalls : pwStage'[d] = IF d = c THEN "busy" ELSE pwStage[d]
    BY <1>0, <1>1 DEF Password!Refuse, Password!TypeOK
  <2>2. Password!TypeOK'
    BY <1>0, <1>1 DEF Password!Refuse, Password!TypeOK, Password!Stages
  <2>3. Password!Holders' = Password!Holders
    BY <1>1, <2>1 DEF Password!Refuse, Password!Holders
  <2>4. Password!SlotsAccounted'
    BY <1>0, <1>1, <2>3, PasswordSets DEF Password!SlotsAccounted, Password!Refuse
  <2> QED
    BY <1>1, <2>1, <2>2, <2>4, PasswordQueueUntouched DEF Password!Refuse
<1>2. ASSUME NEW c \in PasswordCalls, Password!Start(c)
      PROVE  PasswordInv'
  <2>1. \A d \in PasswordCalls : pwStage'[d] = IF d = c THEN "running" ELSE pwStage[d]
    BY <1>0, <1>2 DEF Password!Start, Password!TypeOK
  <2>2. Password!TypeOK'
    BY <1>0, <1>2 DEF Password!Start, Password!TypeOK, Password!Stages
  <2>3. Password!Holders' = Password!Holders \cup {c} /\ c \notin Password!Holders
    BY <1>2, <2>1 DEF Password!Start, Password!Holders
  <2>4. Cardinality(Password!Holders') = Cardinality(Password!Holders) + 1
    BY <2>3, PasswordHoldersFinite, FS_AddElement
  <2>5. Password!SlotsAccounted'
    BY <1>0, <1>2, <2>4, PasswordSets DEF Password!SlotsAccounted, Password!Start, Password!TypeOK
  <2>6. pwWaiting # <<>> => pwActive' = pwActive
    BY <1>0, <1>2 DEF PasswordInv, Password!QueueAccounted, Password!Start
  <2> QED
    BY <1>2, <2>1, <2>2, <2>5, <2>6, PasswordQueueUntouched DEF Password!Start
<1>3. ASSUME NEW c \in PasswordCalls, Password!Resume(c)
      PROVE  PasswordInv'
  <2>1. \A d \in PasswordCalls : pwStage'[d] = IF d = c THEN "running" ELSE pwStage[d]
    BY <1>0, <1>3 DEF Password!Resume, Password!TypeOK
  <2>2. Password!TypeOK'
    BY <1>0, <1>3 DEF Password!Resume, Password!TypeOK, Password!Stages
  <2>3. Password!Holders' = Password!Holders
    BY <1>3, <2>1 DEF Password!Resume, Password!Holders
  <2>4. Password!SlotsAccounted'
    BY <1>0, <1>3, <2>3, PasswordSets DEF Password!SlotsAccounted, Password!Resume
  <2> QED
    BY <1>3, <2>1, <2>2, <2>4, PasswordQueueUntouched DEF Password!Resume
<1>4. CASE UNCHANGED passwordVars
  BY <1>4 DEF passwordVars, PasswordInv, Password!TypeOK, Password!SlotsAccounted,
              Password!Holders, Password!QueueAccounted
<1> QED
  BY <1>1, <1>2, <1>3, <1>4, PasswordEnqueueKeeps, PasswordHandOverKeeps, PasswordFreeKeeps
     DEF Password!Next

LEMMA PasswordStatuses ==
  /\ Password!Status("idle") = "new"
  /\ Password!Status("waiting") = "pending" /\ Password!Status("admitted") = "pending"
  /\ Password!Status("running") = "executing" /\ Password!Status("done") = "executed"
  /\ Password!Status("busy") = "refused"
BY DEF Password!Status

\* What a step that moves one call from one stage to another looks like.
LEMMA PasswordCallMoves ==
  ASSUME NEW c \in PasswordCalls, NEW s,
         \A d \in PasswordCalls : Password!Status(pwStage'[d]) =
           IF d = c THEN s ELSE Password!Status(pwStage[d])
  PROVE  Password!boundedStatus' = [Password!boundedStatus EXCEPT ![c] = s]
BY DEF Password!boundedStatus

\* Whoever executes owns a slot.
LEMMA PasswordExecuting ==
  ASSUME Password!TypeOK
  PROVE  Password!Bounded!Executing = {c \in PasswordCalls : pwStage[c] = "running"}
<1>1. \A c \in PasswordCalls : Password!Status(pwStage[c]) = "executing" <=> pwStage[c] = "running"
  BY PasswordStatuses DEF Password!TypeOK, Password!Stages
<1> QED
  BY <1>1 DEF Password!Bounded!Executing, Password!boundedStatus

LEMMA PasswordImplements ==
  ASSUME PasswordInv, [Password!Next]_passwordVars
  PROVE  [Password!Bounded!Next]_(Password!boundedStatus)
<1>0. /\ Password!TypeOK
      /\ \A c \in PasswordCalls : Password!boundedStatus[c] = Password!Status(pwStage[c])
  BY DEF PasswordInv, Password!boundedStatus
<1>1. ASSUME NEW c \in PasswordCalls, Password!Refuse(c)
      PROVE  Password!Bounded!Next
  <2>1. \A d \in PasswordCalls : pwStage'[d] = IF d = c THEN "busy" ELSE pwStage[d]
    BY <1>0, <1>1 DEF Password!Refuse, Password!TypeOK
  <2>2. Password!boundedStatus' = [Password!boundedStatus EXCEPT ![c] = "refused"]
    BY <2>1, PasswordCallMoves, PasswordStatuses
  <2>3. Password!Bounded!Move(c, {"new"}, "refused")
    BY <1>0, <1>1, <2>2, PasswordStatuses DEF Password!Bounded!Move, Password!Refuse
  <2> QED
    BY <2>3 DEF Password!Bounded!Next
<1>2. ASSUME NEW c \in PasswordCalls, Password!Enqueue(c)
      PROVE  Password!Bounded!Next
  <2>1. \A d \in PasswordCalls : pwStage'[d] = IF d = c THEN "waiting" ELSE pwStage[d]
    BY <1>0, <1>2 DEF Password!Enqueue, Password!TypeOK
  <2>2. Password!boundedStatus' = [Password!boundedStatus EXCEPT ![c] = "pending"]
    BY <2>1, PasswordCallMoves, PasswordStatuses
  <2>3. Password!Bounded!Move(c, {"new"}, "pending")
    BY <1>0, <1>2, <2>2, PasswordStatuses DEF Password!Bounded!Move, Password!Enqueue
  <2> QED
    BY <2>3 DEF Password!Bounded!Next
<1>3. ASSUME NEW c \in PasswordCalls, Password!Start(c) \/ Password!Resume(c)
      PROVE  Password!Bounded!Next
  <2>1. \A d \in PasswordCalls : pwStage'[d] = IF d = c THEN "running" ELSE pwStage[d]
    BY <1>0, <1>3 DEF Password!Start, Password!Resume, Password!TypeOK
  <2>2. Password!boundedStatus' = [Password!boundedStatus EXCEPT ![c] = "executing"]
    BY <2>1, PasswordCallMoves, PasswordStatuses
  <2>3. Password!Bounded!Move(c, {"new", "pending"}, "executing")
    BY <1>0, <1>3, <2>2, PasswordStatuses
       DEF Password!Bounded!Move, Password!Start, Password!Resume
  <2>4. Password!Bounded!Cardinality(Password!Bounded!Executing) < PasswordSlots
    <3>1. \A S : Password!Bounded!Cardinality(S) = Cardinality(S)
      BY DEF Password!Bounded!Cardinality, Cardinality
    <3> DEFINE E == Password!Bounded!Executing
    <3>2. E \in SUBSET Password!Holders
      BY <1>0, PasswordExecuting DEF Password!Holders
    <3>3. /\ Cardinality(E) \in Nat /\ Cardinality(E) <= Cardinality(Password!Holders)
          /\ Cardinality(E) = Cardinality(Password!Holders) => E = Password!Holders
      BY <3>2, PasswordHoldersFinite, FS_Subset, FS_CardinalityType
    <3>4. /\ Cardinality(Password!Holders) = pwActive
          /\ pwActive \in Nat /\ pwActive <= PasswordSlots /\ PasswordSlots \in Nat
      BY <1>0, PasswordSets, PasswordParameters
         DEF PasswordInv, Password!SlotsAccounted, Password!TypeOK
    <3>5. CASE Password!Start(c)
      BY <3>1, <3>3, <3>4, <3>5 DEF Password!Start
    <3>6. CASE Password!Resume(c)
      <4>1. c \in Password!Holders /\ c \notin E
        BY <1>0, <3>6, PasswordExecuting DEF Password!Resume, Password!Holders
      <4> QED
        BY <3>1, <3>3, <3>4, <4>1
    <3> QED
      BY <1>3, <3>5, <3>6
  <2>5. Password!Bounded!Execute(c)
    BY <2>3, <2>4 DEF Password!Bounded!Execute
  <2> QED
    BY <2>5 DEF Password!Bounded!Next
<1>4. ASSUME NEW c \in PasswordCalls, Password!Settle(c)
      PROVE  Password!Bounded!Next
  <2>1. \A d \in PasswordCalls : Password!Status(pwStage'[d]) =
          IF d = c THEN "executed" ELSE Password!Status(pwStage[d])
    <3>1. CASE pwWaiting # <<>>
      <4>1. /\ Head(pwWaiting) \in PasswordCalls /\ Head(pwWaiting) # c
            /\ pwStage[Head(pwWaiting)] = "waiting"
        <5>1. /\ Head(pwWaiting) = pwWaiting[1] /\ 1 \in 1 .. Len(pwWaiting)
              /\ Head(pwWaiting) \in PasswordCalls
          BY <1>0, <3>1, TailFacts, ElementOfSeq DEF Password!TypeOK
        <5> QED
          BY <1>4, <5>1 DEF PasswordInv, Password!QueueAccounted, Password!Settle
      <4>2. \A d \in PasswordCalls : pwStage'[d] =
              IF d = Head(pwWaiting) THEN "admitted" ELSE IF d = c THEN "done" ELSE pwStage[d]
        BY <1>0, <1>4, <3>1, <4>1 DEF Password!Settle, Password!TypeOK
      <4> QED
        BY <4>1, <4>2, PasswordStatuses
    <3>2. CASE pwWaiting = <<>>
      <4>1. \A d \in PasswordCalls : pwStage'[d] = IF d = c THEN "done" ELSE pwStage[d]
        BY <1>0, <1>4, <3>2 DEF Password!Settle, Password!TypeOK
      <4> QED
        BY <4>1, PasswordStatuses
    <3> QED
      BY <3>1, <3>2
  <2>2. Password!boundedStatus' = [Password!boundedStatus EXCEPT ![c] = "executed"]
    BY <2>1, PasswordCallMoves
  <2>3. Password!Bounded!Move(c, {"executing"}, "executed")
    BY <1>0, <1>4, <2>2, PasswordStatuses DEF Password!Bounded!Move, Password!Settle
  <2> QED
    BY <2>3 DEF Password!Bounded!Next
<1>5. CASE UNCHANGED passwordVars
  BY <1>5 DEF passwordVars, Password!boundedStatus
<1> QED
  BY <1>1, <1>2, <1>3, <1>4, <1>5 DEF Password!Next

-----------------------------------------------------------------------------
(* Password work within the server *)

LEMMA PasswordLives == [ServerNext]_serverVars => [Password!Next]_passwordVars
BY DEF ServerNext, OthersStill, serverVars, passwordVars

\* The invariant of the password slots, in every reachable state of the server.
THEOREM PasswordHolds == ServerSpec => []PasswordInv
<1>1. ServerInit => PasswordInv
  BY PasswordInitial DEF ServerInit
<1>2. PasswordInv /\ [ServerNext]_serverVars => PasswordInv'
  BY PasswordStep, PasswordLives
<1> QED
  BY <1>1, <1>2, PTL DEF ServerSpec

\* For any calls, slots and length of the queue, the password slots implement
\* BoundedExecution: never more hashes than slots, and each call at most once.
THEOREM PasswordIsBounded == ServerSpec => PasswordBounded
<1>1. ServerInit => Password!Bounded!Init
  <2>1. \A c \in PasswordCalls : Password!Status("idle") = "new"
    BY PasswordStatuses
  <2> QED
    BY <2>1 DEF ServerInit, Password!Init, Password!Bounded!Init, Password!boundedStatus
<1>2. PasswordInv /\ [ServerNext]_serverVars => [Password!Bounded!Next]_(Password!boundedStatus)
  BY PasswordImplements, PasswordLives
<1> QED
  BY <1>1, <1>2, PasswordHolds, PTL
     DEF ServerSpec, PasswordBounded, Password!ImplementsBounded, Password!Bounded!Spec

-----------------------------------------------------------------------------
(* Request capacity *)

RequestHolding == {r \in Request!Admitted : ~rqReleased[r]}

\* A slot is returned once, by the last of the connection and the runs, so that
\* whoever still has a run holds a slot.
RequestBooked ==
  \A r \in CapacityRequests :
    /\ rqPending[r] # {} => r \in RequestHolding
    /\ rqReleased[r] => r \in Request!Admitted /\ rqEnded[r]

RequestInv == Request!TypeOK /\ Request!SlotsAccounted /\ RequestBooked

LEMMA RequestSets ==
  \A S : /\ Request!IsFiniteSet(S) <=> IsFiniteSet(S)
         /\ Request!Cardinality(S) = Cardinality(S)
BY DEF Request!IsFiniteSet, IsFiniteSet, Request!Cardinality, Cardinality

LEMMA RequestParameters == IsFiniteSet(CapacityRequests) /\ CapacityLimit \in Nat \ {0}
BY ServerAssumption, RequestSets DEF Request!CapacityAssumption

LEMMA RequestHoldingFinite ==
  IsFiniteSet(RequestHolding) /\ Cardinality(RequestHolding) \in Nat
<1>1. RequestHolding \in SUBSET CapacityRequests
  BY DEF RequestHolding, Request!Admitted
<1> QED
  BY <1>1, RequestParameters, FS_Subset, FS_CardinalityType

LEMMA RequestCount ==
  Request!SlotsAccounted <=> rqActive = Cardinality(RequestHolding) /\ rqActive <= CapacityLimit
BY RequestSets DEF Request!SlotsAccounted, RequestHolding

LEMMA RequestCountNext ==
  Request!SlotsAccounted' <=>
    rqActive' = Cardinality(RequestHolding') /\ rqActive' <= CapacityLimit
BY RequestSets DEF Request!SlotsAccounted, RequestHolding

LEMMA RequestInitial == Request!Init => RequestInv
<1> SUFFICES ASSUME Request!Init PROVE RequestInv
  OBVIOUS
<1>1. Request!TypeOK
  BY DEF Request!Init, Request!TypeOK, Request!Places, Request!Runs
<1>2. RequestHolding = {}
  BY DEF Request!Init, RequestHolding, Request!Admitted
<1>3. Request!SlotsAccounted
  BY <1>2, FS_EmptySet, RequestCount, RequestParameters DEF Request!Init
<1>4. RequestBooked
  BY DEF Request!Init, RequestBooked
<1> QED
  BY <1>1, <1>3, <1>4 DEF RequestInv

\* A request that has its slot goes on to another place, perhaps with a run more.
LEMMA RequestOnward ==
  ASSUME RequestInv, NEW r \in CapacityRequests, NEW place \in Request!Places,
         r \in Request!Admitted, place \notin {"none", "refused"},
         rqAt' = [rqAt EXCEPT ![r] = place],
         NEW runs \in SUBSET Request!Runs, runs # {} => ~rqReleased[r],
         rqPending' = [rqPending EXCEPT ![r] = runs],
         rqStopping' \in BOOLEAN,
         UNCHANGED <<rqActive, rqEnded, rqReleased>>
  PROVE  RequestInv'
<1>0. Request!TypeOK /\ Request!SlotsAccounted /\ RequestBooked
  BY DEF RequestInv
<1>1. Request!TypeOK'
  BY <1>0 DEF Request!TypeOK
<1>2. \A q \in CapacityRequests :
        /\ rqAt'[q] = IF q = r THEN place ELSE rqAt[q]
        /\ rqPending'[q] = IF q = r THEN runs ELSE rqPending[q]
  BY <1>0 DEF Request!TypeOK
<1>3. Request!Admitted' = Request!Admitted
  BY <1>2 DEF Request!Admitted
<1>4. RequestHolding' = RequestHolding
  BY <1>3 DEF RequestHolding
<1>5. Request!SlotsAccounted'
  BY <1>0, <1>4, RequestCount, RequestCountNext
<1>6. RequestBooked'
  BY <1>0, <1>2, <1>3, <1>4 DEF RequestBooked, RequestHolding
<1> QED
  BY <1>1, <1>5, <1>6 DEF RequestInv

LEMMA RequestArrives ==
  ASSUME RequestInv, NEW r \in CapacityRequests, NEW healthy \in BOOLEAN,
         Request!Arrive(r, healthy)
  PROVE  RequestInv'
<1>0. Request!TypeOK /\ Request!SlotsAccounted /\ RequestBooked
  BY DEF RequestInv
<1>1. r \notin Request!Admitted /\ ~rqReleased[r] /\ rqPending[r] = {}
  BY <1>0 DEF Request!Arrive, Request!Admitted, RequestBooked, RequestHolding
<1>2. CASE rqAt' = [rqAt EXCEPT ![r] = "body"] /\ rqActive' = rqActive + 1 /\ rqActive < CapacityLimit
  <2>1. \A q \in CapacityRequests : rqAt'[q] = IF q = r THEN "body" ELSE rqAt[q]
    BY <1>0, <1>2 DEF Request!TypeOK
  <2>2. Request!Admitted' = Request!Admitted \cup {r}
    BY <2>1 DEF Request!Admitted
  <2>3. RequestHolding' = RequestHolding \cup {r} /\ r \notin RequestHolding
    BY <1>1, <2>2 DEF RequestHolding, Request!Arrive
  <2>4. Cardinality(RequestHolding') = Cardinality(RequestHolding) + 1
    BY <2>3, RequestHoldingFinite, FS_AddElement
  <2>5. Request!SlotsAccounted'
    BY <1>0, <1>2, <2>4, RequestCount, RequestCountNext, RequestParameters DEF Request!TypeOK
  <2>6. Request!TypeOK'
    BY <1>0, <1>2 DEF Request!TypeOK, Request!Arrive, Request!Places
  <2>7. RequestBooked'
    BY <1>0, <2>2, <2>3 DEF RequestBooked, Request!Arrive
  <2> QED
    BY <2>5, <2>6, <2>7 DEF RequestInv
<1>3. CASE rqAt' = [rqAt EXCEPT ![r] = "refused"] /\ rqActive' = rqActive
  <2>1. \A q \in CapacityRequests : rqAt'[q] = IF q = r THEN "refused" ELSE rqAt[q]
    BY <1>0, <1>3 DEF Request!TypeOK
  <2>2. Request!Admitted' = Request!Admitted
    BY <1>1, <2>1 DEF Request!Admitted
  <2>3. RequestHolding' = RequestHolding
    BY <2>2 DEF RequestHolding, Request!Arrive
  <2>4. Request!SlotsAccounted'
    BY <1>0, <1>3, <2>3, RequestCount, RequestCountNext
  <2>5. Request!TypeOK'
    BY <1>0, <1>3 DEF Request!TypeOK, Request!Arrive, Request!Places
  <2>6. RequestBooked'
    BY <1>0, <2>2, <2>3 DEF RequestBooked, Request!Arrive
  <2> QED
    BY <2>4, <2>5, <2>6 DEF RequestInv
<1> QED
  BY <1>2, <1>3 DEF Request!Arrive, Request!Ready

LEMMA RequestReleases ==
  ASSUME RequestInv, NEW r \in CapacityRequests, r \in Request!Admitted,
         NEW over \in BOOLEAN, rqEnded[r] => over,
         NEW runs \in SUBSET Request!Runs, runs # {} => ~rqReleased[r],
         Request!Release(r, over, runs), UNCHANGED <<rqAt, rqStopping>>
  PROVE  RequestInv'
<1>0. Request!TypeOK /\ Request!SlotsAccounted /\ RequestBooked
  BY DEF RequestInv
<1>1. \A q \in CapacityRequests :
        /\ rqEnded'[q] = IF q = r THEN over ELSE rqEnded[q]
        /\ rqPending'[q] = IF q = r THEN runs ELSE rqPending[q]
  BY <1>0 DEF Request!TypeOK, Request!Release
<1>2. Request!Admitted' = Request!Admitted
  BY DEF Request!Admitted
<1>3. CASE over /\ runs = {} /\ ~rqReleased[r]
  <2>1. rqReleased' = [rqReleased EXCEPT ![r] = TRUE] /\ rqActive' = rqActive - 1
    BY <1>3 DEF Request!Release
  <2>2. \A q \in CapacityRequests : rqReleased'[q] = IF q = r THEN TRUE ELSE rqReleased[q]
    BY <1>0, <2>1 DEF Request!TypeOK
  <2>3. RequestHolding' = RequestHolding \ {r} /\ r \in RequestHolding
    BY <1>2, <1>3, <2>2 DEF RequestHolding, Request!Admitted
  <2>4. /\ Cardinality(RequestHolding') = Cardinality(RequestHolding) - 1
        /\ Cardinality(RequestHolding) # 0
    BY <2>3, RequestHoldingFinite, FS_RemoveElement, FS_EmptySet
  <2>5. rqActive' \in Nat /\ Request!SlotsAccounted'
    BY <1>0, <2>1, <2>4, RequestCount, RequestCountNext, RequestParameters, RequestHoldingFinite
       DEF Request!TypeOK
  <2>6. Request!TypeOK'
    BY <1>0, <2>1, <2>5 DEF Request!TypeOK, Request!Release
  <2>7. RequestBooked'
    BY <1>0, <1>1, <1>2, <1>3, <2>2, <2>3 DEF RequestBooked
  <2> QED
    BY <2>5, <2>6, <2>7 DEF RequestInv
<1>4. CASE ~(over /\ runs = {} /\ ~rqReleased[r])
  <2>1. UNCHANGED <<rqReleased, rqActive>>
    BY <1>4 DEF Request!Release
  <2>2. RequestHolding' = RequestHolding
    BY <1>2, <2>1 DEF RequestHolding
  <2>3. Request!SlotsAccounted'
    BY <1>0, <2>1, <2>2, RequestCount, RequestCountNext
  <2>4. Request!TypeOK'
    BY <1>0, <2>1 DEF Request!TypeOK, Request!Release
  <2>5. RequestBooked'
    BY <1>0, <1>1, <1>2, <2>1, <2>2 DEF RequestBooked, RequestHolding
  <2> QED
    BY <2>3, <2>4, <2>5 DEF RequestInv
<1> QED
  BY <1>3, <1>4

LEMMA RequestOfOne ==
  ASSUME RequestInv, NEW r \in CapacityRequests, Request!RequestNext(r)
  PROVE  RequestInv'
<1>0. Request!TypeOK /\ RequestBooked
  BY DEF RequestInv
<1>1. CASE \E healthy \in BOOLEAN : Request!Arrive(r, healthy)
  BY <1>1, RequestArrives
<1>2. ASSUME NEW run \in Request!Runs, Request!Run(r, run),
             rqAt[r] \in {"body", "limits", "principal"}
      PROVE  RequestInv'
  <2>1. r \in Request!Admitted /\ run \in Request!Places /\ run \notin {"none", "refused"}
    BY <1>2 DEF Request!Admitted, Request!Places, Request!Runs
  <2>2. rqPending[r] \cup {run} \in SUBSET Request!Runs /\ ~rqReleased[r]
    BY <1>0, <1>2 DEF Request!Run, Request!MayRun, RequestBooked, Request!TypeOK
  <2>3. /\ rqAt' = [rqAt EXCEPT ![r] = run]
        /\ rqPending' = [rqPending EXCEPT ![r] = rqPending[r] \cup {run}]
        /\ rqStopping' \in BOOLEAN /\ UNCHANGED <<rqActive, rqEnded, rqReleased>>
    BY <1>0, <1>2 DEF Request!Run, Request!TypeOK
  <2> QED
    BY <2>1, <2>2, <2>3, RequestOnward
<1>3. CASE Request!BodyRead(r) \/ Request!WithinRates(r) \/ Request!PrincipalFound(r)
  BY <1>2, <1>3
     DEF Request!BodyRead, Request!WithinRates, Request!PrincipalFound, Request!Runs
<1>4. CASE Request!SessionFound(r) \/ Request!Answer(r)
  <2>1. r \in Request!Admitted
    BY <1>4 DEF Request!SessionFound, Request!Answer, Request!Admitted
  <2>2. PICK place \in {"answered", "limits"} : rqAt' = [rqAt EXCEPT ![r] = place]
    BY <1>4 DEF Request!SessionFound, Request!Answer
  <2>3. place \in Request!Places /\ place \notin {"none", "refused"}
    BY DEF Request!Places
  <2>4. /\ rqPending[r] \in SUBSET Request!Runs
        /\ rqPending' = [rqPending EXCEPT ![r] = rqPending[r]]
        /\ rqPending[r] # {} => ~rqReleased[r]
        /\ rqStopping' \in BOOLEAN /\ UNCHANGED <<rqActive, rqEnded, rqReleased>>
    BY <1>0, <1>4 DEF Request!SessionFound, Request!Answer, Request!TypeOK, RequestBooked,
                      RequestHolding
  <2> QED
    BY <2>1, <2>2, <2>3, <2>4, RequestOnward
<1>5. ASSUME NEW run \in Request!Runs, Request!Settle(r, run)
      PROVE  RequestInv'
  <2>1. r \in RequestHolding
    BY <1>0, <1>5 DEF Request!Settle, RequestBooked
  <2>2. /\ r \in Request!Admitted /\ ~rqReleased[r] /\ rqEnded[r] \in BOOLEAN
        /\ rqPending[r] \ {run} \in SUBSET Request!Runs
    BY <1>0, <2>1 DEF RequestHolding, Request!TypeOK
  <2> QED
    BY <1>5, <2>2, RequestReleases DEF Request!Settle
<1>6. CASE Request!Finish(r) \/ Request!Disconnect(r)
  <2>1. /\ r \in Request!Admitted /\ Request!Release(r, TRUE, rqPending[r])
        /\ UNCHANGED <<rqAt, rqStopping>>
    BY <1>6 DEF Request!Finish, Request!Disconnect, Request!Admitted
  <2>2. rqPending[r] \in SUBSET Request!Runs /\ (rqPending[r] # {} => ~rqReleased[r])
    BY <1>0 DEF Request!TypeOK, RequestBooked, RequestHolding
  <2> QED
    BY <2>1, <2>2, RequestReleases
<1> QED
  BY <1>1, <1>3, <1>4, <1>5, <1>6 DEF Request!RequestNext, Request!Progress

\* The requests stand still, whether or not new ones are admitted.
LEMMA RequestStands ==
  ASSUME RequestInv, rqStopping' \in BOOLEAN,
         UNCHANGED <<rqActive, rqAt, rqPending, rqEnded, rqReleased>>
  PROVE  RequestInv'
<1>0. Request!TypeOK /\ Request!SlotsAccounted /\ RequestBooked
  BY DEF RequestInv
<1>1. Request!TypeOK'
  BY <1>0 DEF Request!TypeOK
<1>2. Request!Admitted' = Request!Admitted /\ RequestHolding' = RequestHolding
  BY DEF RequestHolding, Request!Admitted
<1>3. Request!SlotsAccounted'
  BY <1>0, <1>2, RequestCount, RequestCountNext
<1>4. RequestBooked'
  BY <1>0, <1>2 DEF RequestBooked
<1> QED
  BY <1>1, <1>3, <1>4 DEF RequestInv
LEMMA RequestStep == RequestInv /\ [Request!Next]_requestVars => RequestInv'
<1> SUFFICES ASSUME RequestInv, [Request!Next]_requestVars PROVE RequestInv'
  OBVIOUS
<1>1. CASE \E r \in CapacityRequests : Request!RequestNext(r)
  BY <1>1, RequestOfOne
<1>2. CASE Request!Stop \/ UNCHANGED requestVars
  BY <1>2, RequestStands DEF Request!Stop, requestVars, RequestInv, Request!TypeOK
<1> QED
  BY <1>1, <1>2 DEF Request!Next

\* Work for clients who have left counts towards the limit.
LEMMA RequestWorkBounded ==
  ASSUME RequestInv
  PROVE  Request!WorkWithinLimit
<1>1. {r \in CapacityRequests : rqPending[r] # {}} \in SUBSET RequestHolding
  BY DEF RequestInv, RequestBooked
<1>2. /\ Cardinality({r \in CapacityRequests : rqPending[r] # {}}) \in Nat
      /\ Cardinality({r \in CapacityRequests : rqPending[r] # {}}) <= Cardinality(RequestHolding)
  BY <1>1, RequestHoldingFinite, FS_Subset, FS_CardinalityType
<1>3. rqActive = Cardinality(RequestHolding) /\ rqActive <= CapacityLimit
  BY RequestCount DEF RequestInv
<1> QED
  BY <1>2, <1>3, RequestSets, RequestParameters, RequestHoldingFinite DEF Request!WorkWithinLimit

LEMMA RequestLives == [ServerNext]_serverVars => [Request!Next]_requestVars
BY DEF ServerNext, OthersStill, serverVars, requestVars

\* The invariant of the request slots, in every reachable state of the server.
THEOREM RequestHolds == ServerSpec => []RequestInv
<1>1. ServerInit => RequestInv
  BY RequestInitial DEF ServerInit
<1>2. RequestInv /\ [ServerNext]_serverVars => RequestInv'
  BY RequestStep, RequestLives
<1> QED
  BY <1>1, <1>2, PTL DEF ServerSpec

\* For any calls, requests, slots and queue: every hash and every admitted request
\* is counted until its slot is returned, once.
THEOREM SlotsAreCounted == ServerSpec => []SlotsCounted
<1>1. PasswordInv /\ RequestInv => SlotsCounted
  BY RequestWorkBounded DEF PasswordInv, RequestInv, SlotsCounted
<1> QED
  BY <1>1, PasswordHolds, RequestHolds, PTL

-----------------------------------------------------------------------------
(* The requests of the service whose life is modelled: the same argument *)

LifeHolding == {r \in Life!Admitted : ~lfReleased[r]}

LifeBooked ==
  \A r \in LifeRequests :
    /\ lfPending[r] # {} => r \in LifeHolding
    /\ lfReleased[r] => r \in Life!Admitted /\ lfEnded[r]

LifeRequestsInv == Life!TypeOK /\ Life!SlotsAccounted /\ LifeBooked

LEMMA LifeSets ==
  \A S : /\ Life!IsFiniteSet(S) <=> IsFiniteSet(S)
         /\ Life!Cardinality(S) = Cardinality(S)
BY DEF Life!IsFiniteSet, IsFiniteSet, Life!Cardinality, Cardinality

LEMMA LifeParameters == IsFiniteSet(LifeRequests) /\ LifeLimit \in Nat \ {0}
BY ServerAssumption, LifeSets DEF Life!CapacityAssumption

LEMMA LifeHoldingFinite ==
  IsFiniteSet(LifeHolding) /\ Cardinality(LifeHolding) \in Nat
<1>1. LifeHolding \in SUBSET LifeRequests
  BY DEF LifeHolding, Life!Admitted
<1> QED
  BY <1>1, LifeParameters, FS_Subset, FS_CardinalityType

LEMMA LifeCount ==
  Life!SlotsAccounted <=> lfActive = Cardinality(LifeHolding) /\ lfActive <= LifeLimit
BY LifeSets DEF Life!SlotsAccounted, LifeHolding

LEMMA LifeCountNext ==
  Life!SlotsAccounted' <=>
    lfActive' = Cardinality(LifeHolding') /\ lfActive' <= LifeLimit
BY LifeSets DEF Life!SlotsAccounted, LifeHolding

LEMMA LifeRequestsInitial == Life!Init => LifeRequestsInv
<1> SUFFICES ASSUME Life!Init PROVE LifeRequestsInv
  OBVIOUS
<1>1. Life!TypeOK
  BY DEF Life!Init, Life!TypeOK, Life!Places, Life!Runs
<1>2. LifeHolding = {}
  BY DEF Life!Init, LifeHolding, Life!Admitted
<1>3. Life!SlotsAccounted
  BY <1>2, FS_EmptySet, LifeCount, LifeParameters DEF Life!Init
<1>4. LifeBooked
  BY DEF Life!Init, LifeBooked
<1> QED
  BY <1>1, <1>3, <1>4 DEF LifeRequestsInv

\* A request that has its slot goes on to another place, perhaps with a run more.
LEMMA LifeOnward ==
  ASSUME LifeRequestsInv, NEW r \in LifeRequests, NEW place \in Life!Places,
         r \in Life!Admitted, place \notin {"none", "refused"},
         lfAt' = [lfAt EXCEPT ![r] = place],
         NEW runs \in SUBSET Life!Runs, runs # {} => ~lfReleased[r],
         lfPending' = [lfPending EXCEPT ![r] = runs],
         lfStopping' \in BOOLEAN,
         UNCHANGED <<lfActive, lfEnded, lfReleased>>
  PROVE  LifeRequestsInv'
<1>0. Life!TypeOK /\ Life!SlotsAccounted /\ LifeBooked
  BY DEF LifeRequestsInv
<1>1. Life!TypeOK'
  BY <1>0 DEF Life!TypeOK
<1>2. \A q \in LifeRequests :
        /\ lfAt'[q] = IF q = r THEN place ELSE lfAt[q]
        /\ lfPending'[q] = IF q = r THEN runs ELSE lfPending[q]
  BY <1>0 DEF Life!TypeOK
<1>3. Life!Admitted' = Life!Admitted
  BY <1>2 DEF Life!Admitted
<1>4. LifeHolding' = LifeHolding
  BY <1>3 DEF LifeHolding
<1>5. Life!SlotsAccounted'
  BY <1>0, <1>4, LifeCount, LifeCountNext
<1>6. LifeBooked'
  BY <1>0, <1>2, <1>3, <1>4 DEF LifeBooked, LifeHolding
<1> QED
  BY <1>1, <1>5, <1>6 DEF LifeRequestsInv

LEMMA LifeArrives ==
  ASSUME LifeRequestsInv, NEW r \in LifeRequests, NEW healthy \in BOOLEAN,
         Life!Arrive(r, healthy)
  PROVE  LifeRequestsInv'
<1>0. Life!TypeOK /\ Life!SlotsAccounted /\ LifeBooked
  BY DEF LifeRequestsInv
<1>1. r \notin Life!Admitted /\ ~lfReleased[r] /\ lfPending[r] = {}
  BY <1>0 DEF Life!Arrive, Life!Admitted, LifeBooked, LifeHolding
<1>2. CASE lfAt' = [lfAt EXCEPT ![r] = "body"] /\ lfActive' = lfActive + 1 /\ lfActive < LifeLimit
  <2>1. \A q \in LifeRequests : lfAt'[q] = IF q = r THEN "body" ELSE lfAt[q]
    BY <1>0, <1>2 DEF Life!TypeOK
  <2>2. Life!Admitted' = Life!Admitted \cup {r}
    BY <2>1 DEF Life!Admitted
  <2>3. LifeHolding' = LifeHolding \cup {r} /\ r \notin LifeHolding
    BY <1>1, <2>2 DEF LifeHolding, Life!Arrive
  <2>4. Cardinality(LifeHolding') = Cardinality(LifeHolding) + 1
    BY <2>3, LifeHoldingFinite, FS_AddElement
  <2>5. Life!SlotsAccounted'
    BY <1>0, <1>2, <2>4, LifeCount, LifeCountNext, LifeParameters DEF Life!TypeOK
  <2>6. Life!TypeOK'
    BY <1>0, <1>2 DEF Life!TypeOK, Life!Arrive, Life!Places
  <2>7. LifeBooked'
    BY <1>0, <2>2, <2>3 DEF LifeBooked, Life!Arrive
  <2> QED
    BY <2>5, <2>6, <2>7 DEF LifeRequestsInv
<1>3. CASE lfAt' = [lfAt EXCEPT ![r] = "refused"] /\ lfActive' = lfActive
  <2>1. \A q \in LifeRequests : lfAt'[q] = IF q = r THEN "refused" ELSE lfAt[q]
    BY <1>0, <1>3 DEF Life!TypeOK
  <2>2. Life!Admitted' = Life!Admitted
    BY <1>1, <2>1 DEF Life!Admitted
  <2>3. LifeHolding' = LifeHolding
    BY <2>2 DEF LifeHolding, Life!Arrive
  <2>4. Life!SlotsAccounted'
    BY <1>0, <1>3, <2>3, LifeCount, LifeCountNext
  <2>5. Life!TypeOK'
    BY <1>0, <1>3 DEF Life!TypeOK, Life!Arrive, Life!Places
  <2>6. LifeBooked'
    BY <1>0, <2>2, <2>3 DEF LifeBooked, Life!Arrive
  <2> QED
    BY <2>4, <2>5, <2>6 DEF LifeRequestsInv
<1> QED
  BY <1>2, <1>3 DEF Life!Arrive, Life!Ready

LEMMA LifeReleases ==
  ASSUME LifeRequestsInv, NEW r \in LifeRequests, r \in Life!Admitted,
         NEW over \in BOOLEAN, lfEnded[r] => over,
         NEW runs \in SUBSET Life!Runs, runs # {} => ~lfReleased[r],
         Life!Release(r, over, runs), UNCHANGED <<lfAt, lfStopping>>
  PROVE  LifeRequestsInv'
<1>0. Life!TypeOK /\ Life!SlotsAccounted /\ LifeBooked
  BY DEF LifeRequestsInv
<1>1. \A q \in LifeRequests :
        /\ lfEnded'[q] = IF q = r THEN over ELSE lfEnded[q]
        /\ lfPending'[q] = IF q = r THEN runs ELSE lfPending[q]
  BY <1>0 DEF Life!TypeOK, Life!Release
<1>2. Life!Admitted' = Life!Admitted
  BY DEF Life!Admitted
<1>3. CASE over /\ runs = {} /\ ~lfReleased[r]
  <2>1. lfReleased' = [lfReleased EXCEPT ![r] = TRUE] /\ lfActive' = lfActive - 1
    BY <1>3 DEF Life!Release
  <2>2. \A q \in LifeRequests : lfReleased'[q] = IF q = r THEN TRUE ELSE lfReleased[q]
    BY <1>0, <2>1 DEF Life!TypeOK
  <2>3. LifeHolding' = LifeHolding \ {r} /\ r \in LifeHolding
    BY <1>2, <1>3, <2>2 DEF LifeHolding, Life!Admitted
  <2>4. /\ Cardinality(LifeHolding') = Cardinality(LifeHolding) - 1
        /\ Cardinality(LifeHolding) # 0
    BY <2>3, LifeHoldingFinite, FS_RemoveElement, FS_EmptySet
  <2>5. lfActive' \in Nat /\ Life!SlotsAccounted'
    BY <1>0, <2>1, <2>4, LifeCount, LifeCountNext, LifeParameters, LifeHoldingFinite
       DEF Life!TypeOK
  <2>6. Life!TypeOK'
    BY <1>0, <2>1, <2>5 DEF Life!TypeOK, Life!Release
  <2>7. LifeBooked'
    BY <1>0, <1>1, <1>2, <1>3, <2>2, <2>3 DEF LifeBooked
  <2> QED
    BY <2>5, <2>6, <2>7 DEF LifeRequestsInv
<1>4. CASE ~(over /\ runs = {} /\ ~lfReleased[r])
  <2>1. UNCHANGED <<lfReleased, lfActive>>
    BY <1>4 DEF Life!Release
  <2>2. LifeHolding' = LifeHolding
    BY <1>2, <2>1 DEF LifeHolding
  <2>3. Life!SlotsAccounted'
    BY <1>0, <2>1, <2>2, LifeCount, LifeCountNext
  <2>4. Life!TypeOK'
    BY <1>0, <2>1 DEF Life!TypeOK, Life!Release
  <2>5. LifeBooked'
    BY <1>0, <1>1, <1>2, <2>1, <2>2 DEF LifeBooked, LifeHolding
  <2> QED
    BY <2>3, <2>4, <2>5 DEF LifeRequestsInv
<1> QED
  BY <1>3, <1>4

LEMMA LifeOfOne ==
  ASSUME LifeRequestsInv, NEW r \in LifeRequests, Life!RequestNext(r)
  PROVE  LifeRequestsInv'
<1>0. Life!TypeOK /\ LifeBooked
  BY DEF LifeRequestsInv
<1>1. CASE \E healthy \in BOOLEAN : Life!Arrive(r, healthy)
  BY <1>1, LifeArrives
<1>2. ASSUME NEW run \in Life!Runs, Life!Run(r, run),
             lfAt[r] \in {"body", "limits", "principal"}
      PROVE  LifeRequestsInv'
  <2>1. r \in Life!Admitted /\ run \in Life!Places /\ run \notin {"none", "refused"}
    BY <1>2 DEF Life!Admitted, Life!Places, Life!Runs
  <2>2. lfPending[r] \cup {run} \in SUBSET Life!Runs /\ ~lfReleased[r]
    BY <1>0, <1>2 DEF Life!Run, Life!MayRun, LifeBooked, Life!TypeOK
  <2>3. /\ lfAt' = [lfAt EXCEPT ![r] = run]
        /\ lfPending' = [lfPending EXCEPT ![r] = lfPending[r] \cup {run}]
        /\ lfStopping' \in BOOLEAN /\ UNCHANGED <<lfActive, lfEnded, lfReleased>>
    BY <1>0, <1>2 DEF Life!Run, Life!TypeOK
  <2> QED
    BY <2>1, <2>2, <2>3, LifeOnward
<1>3. CASE Life!BodyRead(r) \/ Life!WithinRates(r) \/ Life!PrincipalFound(r)
  BY <1>2, <1>3
     DEF Life!BodyRead, Life!WithinRates, Life!PrincipalFound, Life!Runs
<1>4. CASE Life!SessionFound(r) \/ Life!Answer(r)
  <2>1. r \in Life!Admitted
    BY <1>4 DEF Life!SessionFound, Life!Answer, Life!Admitted
  <2>2. PICK place \in {"answered", "limits"} : lfAt' = [lfAt EXCEPT ![r] = place]
    BY <1>4 DEF Life!SessionFound, Life!Answer
  <2>3. place \in Life!Places /\ place \notin {"none", "refused"}
    BY DEF Life!Places
  <2>4. /\ lfPending[r] \in SUBSET Life!Runs
        /\ lfPending' = [lfPending EXCEPT ![r] = lfPending[r]]
        /\ lfPending[r] # {} => ~lfReleased[r]
        /\ lfStopping' \in BOOLEAN /\ UNCHANGED <<lfActive, lfEnded, lfReleased>>
    BY <1>0, <1>4 DEF Life!SessionFound, Life!Answer, Life!TypeOK, LifeBooked,
                      LifeHolding
  <2> QED
    BY <2>1, <2>2, <2>3, <2>4, LifeOnward
<1>5. ASSUME NEW run \in Life!Runs, Life!Settle(r, run)
      PROVE  LifeRequestsInv'
  <2>1. r \in LifeHolding
    BY <1>0, <1>5 DEF Life!Settle, LifeBooked
  <2>2. /\ r \in Life!Admitted /\ ~lfReleased[r] /\ lfEnded[r] \in BOOLEAN
        /\ lfPending[r] \ {run} \in SUBSET Life!Runs
    BY <1>0, <2>1 DEF LifeHolding, Life!TypeOK
  <2> QED
    BY <1>5, <2>2, LifeReleases DEF Life!Settle
<1>6. CASE Life!Finish(r) \/ Life!Disconnect(r)
  <2>1. /\ r \in Life!Admitted /\ Life!Release(r, TRUE, lfPending[r])
        /\ UNCHANGED <<lfAt, lfStopping>>
    BY <1>6 DEF Life!Finish, Life!Disconnect, Life!Admitted
  <2>2. lfPending[r] \in SUBSET Life!Runs /\ (lfPending[r] # {} => ~lfReleased[r])
    BY <1>0 DEF Life!TypeOK, LifeBooked, LifeHolding
  <2> QED
    BY <2>1, <2>2, LifeReleases
<1> QED
  BY <1>1, <1>3, <1>4, <1>5, <1>6 DEF Life!RequestNext, Life!Progress

\* The requests stand still, whether or not new ones are admitted.
LEMMA LifeStands ==
  ASSUME LifeRequestsInv, lfStopping' \in BOOLEAN,
         UNCHANGED <<lfActive, lfAt, lfPending, lfEnded, lfReleased>>
  PROVE  LifeRequestsInv'
<1>0. Life!TypeOK /\ Life!SlotsAccounted /\ LifeBooked
  BY DEF LifeRequestsInv
<1>1. Life!TypeOK'
  BY <1>0 DEF Life!TypeOK
<1>2. Life!Admitted' = Life!Admitted /\ LifeHolding' = LifeHolding
  BY DEF LifeHolding, Life!Admitted
<1>3. Life!SlotsAccounted'
  BY <1>0, <1>2, LifeCount, LifeCountNext
<1>4. LifeBooked'
  BY <1>0, <1>2 DEF LifeBooked
<1> QED
  BY <1>1, <1>3, <1>4 DEF LifeRequestsInv
-----------------------------------------------------------------------------
(* Service lifecycle *)

\* shutdown() is past its wait for start(), and past its wait for the requests.
LifeStopped == lfCleanup \in {"closing", "draining", "disposing", "logging"}
LifeDrained == lfCleanup \in {"disposing", "logging"}

\* Once every slot is back every connection has ended and nothing runs, and since
\* nothing is admitted any more this stays so.
LifeQuiet == lfActive = 0 /\ \A r \in LifeRequests : lfPending[r] = {} /\ Life!Over(r)

LifeInv ==
  /\ Life!LifeTypeOK
  /\ LifeRequestsInv
  /\ LifeStopped => lfStart \notin Life!Starting
  /\ LifeDrained => LifeQuiet
  /\ lfExit = "success" =>
       lfCleanup = "logging" /\ ~lfStartError /\ ~lfFailed /\ lfUnflushed = 0

LEMMA LifeInitial == Life!LifeInit => LifeInv
<1> SUFFICES ASSUME Life!LifeInit PROVE LifeInv
  OBVIOUS
<1>1. LifeRequestsInv
  BY LifeRequestsInitial DEF Life!LifeInit
<1>2. Life!TypeOK
  BY <1>1 DEF LifeRequestsInv
<1>3. Life!LifeTypeOK
  BY <1>2 DEF Life!LifeInit, Life!LifeTypeOK, Life!StartPhases, Life!Starting, Life!CleanupPhases
<1> QED
  BY <1>1, <1>3 DEF Life!LifeInit, LifeInv, LifeStopped, LifeDrained

\* The steps of start() and shutdown() that leave the requests alone but for the
\* end of admission.
LEMMA LifePhaseKeeps ==
  ASSUME LifeInv, lfStopping' \in BOOLEAN,
         UNCHANGED <<lfActive, lfAt, lfPending, lfEnded, lfReleased>>,
         lfStart' \in Life!StartPhases, lfCleanup' \in Life!CleanupPhases,
         lfFailed' \in BOOLEAN, lfStartError' \in BOOLEAN, lfUnflushed' \in Nat,
         lfExit' \in {"none", "success", "failure"},
         LifeStopped' => lfStart' \notin Life!Starting,
         LifeDrained' => LifeDrained \/ LifeQuiet,
         lfExit' = "success" =>
           lfCleanup' = "logging" /\ ~lfStartError' /\ ~lfFailed' /\ lfUnflushed' = 0
  PROVE  LifeInv'
<1>1. LifeRequestsInv'
  BY LifeStands DEF LifeInv
<1>2. Life!TypeOK'
  BY <1>1 DEF LifeRequestsInv
<1>3. Life!LifeTypeOK'
  BY <1>2 DEF Life!LifeTypeOK
<1>4. LifeQuiet => LifeQuiet'
  BY DEF LifeQuiet, Life!Over
<1> QED
  BY <1>1, <1>3, <1>4 DEF LifeInv

\* With every slot back, every admitted request has ended and has no run left.
LEMMA LifeAllBack ==
  ASSUME LifeInv, lfActive = 0
  PROVE  LifeQuiet
<1>1. LifeHolding = {}
  BY LifeCount, LifeHoldingFinite, FS_EmptySet DEF LifeInv, LifeRequestsInv
<1>2. ASSUME NEW r \in LifeRequests
      PROVE  lfPending[r] = {} /\ Life!Over(r)
  BY <1>1 DEF LifeInv, LifeRequestsInv, LifeBooked, LifeHolding, Life!Over, Life!Admitted
<1> QED
  BY <1>2 DEF LifeQuiet

\* A request that is over and has no run left changes nothing that matters.
LEMMA LifeQuietServes ==
  ASSUME LifeInv, LifeDrained, NEW r \in LifeRequests, Life!Serve(r)
  PROVE  LifeQuiet'
<1>0. LifeQuiet /\ Life!TypeOK
  BY DEF LifeInv, LifeRequestsInv
<1>1. lfAt[r] # "none"
  BY DEF Life!Serve, LifeDrained
<1>2. lfPending[r] = {} /\ (lfAt[r] = "refused" \/ lfEnded[r])
  BY <1>0, <1>1 DEF LifeQuiet, Life!Over
<1>3. Life!SessionFound(r) \/ Life!Answer(r)
  BY <1>1, <1>2 DEF Life!Serve, Life!RequestNext, Life!Progress, Life!Arrive, Life!Finish,
     Life!Disconnect, Life!Settle, Life!BodyRead, Life!WithinRates, Life!PrincipalFound,
     Life!Run, Life!MayRun
<1>4. \A q \in LifeRequests : lfAt'[q] # lfAt[q] => q = r
  BY <1>0, <1>3 DEF Life!SessionFound, Life!Answer, Life!TypeOK
<1>5. lfEnded[r]
  BY <1>2, <1>3 DEF Life!SessionFound, Life!Answer
<1>6. UNCHANGED <<lfActive, lfPending, lfEnded>>
  BY <1>3 DEF Life!SessionFound, Life!Answer
<1> QED
  BY <1>0, <1>4, <1>5, <1>6 DEF LifeQuiet, Life!Over

LEMMA LifeStep == LifeInv /\ [Life!LifeNext]_lifeVars => LifeInv'
<1> SUFFICES ASSUME LifeInv, [Life!LifeNext]_lifeVars PROVE LifeInv'
  OBVIOUS
<1>0. /\ Life!LifeTypeOK /\ lfStopping \in BOOLEAN /\ lfUnflushed \in Nat
      /\ lfUnflushed + 1 \in Nat /\ lfUnflushed + 2 \in Nat
  BY DEF LifeInv, LifeRequestsInv, Life!TypeOK, Life!LifeTypeOK
<1> USE DEF LifeStopped, LifeDrained, Life!Starting, Life!StartPhases, Life!CleanupPhases,
            Life!Stopping, Life!vars
<1>1. CASE Life!LifeNext /\ (Life!Initialized \/ Life!Listening)
  <2>1. lfExit = "none"
    BY <1>1 DEF Life!LifeNext
  <2> QED
    BY <1>0, <1>1, <2>1, LifePhaseKeeps DEF Life!Initialized, Life!Listening, Life!LifeTypeOK, LifeInv
<1>2. CASE Life!LifeNext /\ (Life!StartFails \/ Life!Signal)
  <2>1. lfExit = "none"
    BY <1>2 DEF Life!LifeNext
  <2> QED
    BY <1>0, <1>2, <2>1, LifePhaseKeeps
       DEF Life!StartFails, Life!Signal, Life!BeginShutdown, Life!LifeTypeOK, LifeInv
<1>3. CASE Life!LifeNext /\ (Life!StartAwaited \/ Life!Closed \/ Life!Drained)
  <2>1. lfExit = "none"
    BY <1>3 DEF Life!LifeNext
  <2>2. CASE Life!StartAwaited \/ Life!Closed
    BY <1>0, <2>1, <2>2, LifePhaseKeeps DEF Life!StartAwaited, Life!Closed, Life!LifeTypeOK, LifeInv
  <2>3. CASE Life!Drained
    BY <1>0, <2>1, <2>3, LifeAllBack, LifePhaseKeeps DEF Life!Drained, Life!LifeTypeOK, LifeInv
  <2> QED
    BY <1>3, <2>2, <2>3
<1>4. ASSUME NEW fails \in BOOLEAN, Life!LifeNext, Life!Dispose(fails)
      PROVE  LifeInv'
  <2>1. lfExit = "none"
    BY <1>4 DEF Life!LifeNext
  <2> QED
    BY <1>0, <1>4, <2>1, LifePhaseKeeps DEF Life!Dispose, Life!LifeTypeOK, LifeInv
<1>5. CASE Life!LogDrained \/ Life!Deadline
  BY <1>0, <1>5, LifePhaseKeeps
     DEF Life!LogDrained, Life!Deadline, Life!ExitCode, Life!LifeTypeOK, LifeInv
<1>6. CASE Life!LifeNext /\ Life!Flush
  <2>1. lfExit = "none" /\ lfUnflushed - 1 \in Nat
    BY <1>0, <1>6 DEF Life!LifeNext, Life!Flush
  <2> QED
    BY <1>0, <1>6, <2>1, LifePhaseKeeps DEF Life!Flush, Life!LifeTypeOK, LifeInv
<1>7. ASSUME NEW r \in LifeRequests, Life!LifeNext, Life!Serve(r)
      PROVE  LifeInv'
  <2>1. lfExit = "none"
    BY <1>7 DEF Life!LifeNext
  <2>2. LifeRequestsInv'
    BY <1>7, LifeOfOne DEF Life!Serve, LifeInv
  <2>3. Life!LifeTypeOK'
    BY <1>0, <1>7, <2>2 DEF Life!Serve, Life!LifeTypeOK, LifeRequestsInv
  <2>4. LifeDrained => LifeQuiet'
    BY <1>7, LifeQuietServes
  <2> QED
    BY <1>7, <2>1, <2>2, <2>3, <2>4 DEF Life!Serve, LifeInv
<1>8. CASE UNCHANGED lifeVars
  BY <1>0, <1>8, LifePhaseKeeps DEF lifeVars, Life!LifeTypeOK, LifeInv
<1> QED
  BY <1>1, <1>2, <1>3, <1>4, <1>5, <1>6, <1>7, <1>8 DEF Life!LifeNext

LEMMA LifeLives == [ServerNext]_serverVars => [Life!LifeNext]_lifeVars
BY DEF ServerNext, OthersStill, serverVars, lifeVars

\* The invariant of the lifecycle, in every reachable state of the server.
THEOREM LifeHolds == ServerSpec => []LifeInv
<1>1. ServerInit => LifeInv
  BY LifeInitial DEF ServerInit
<1>2. LifeInv /\ [ServerNext]_serverVars => LifeInv'
  BY LifeStep, LifeLives
<1> QED
  BY <1>1, <1>2, PTL DEF ServerSpec

\* For any requests and any limit, wherever a signal, a failure or a departing
\* client falls: storage is closed only when nothing uses it, and success is clean.
THEOREM ExitsAreClean == ServerSpec => []ExitsClean
<1>1. LifeInv => ExitsClean
  BY DEF LifeInv, LifeStopped, LifeDrained, LifeQuiet, ExitsClean, Life!DisposedIdle,
         Life!SuccessIsClean
<1> QED
  BY <1>1, LifeHolds, PTL

-----------------------------------------------------------------------------
(* Streamed directories *)

\* While the handler runs the response is open and every row read is written, and
\* it asks the cursor for a row only when the connection has taken the last write.
StreamRunning ==
  /\ Stream!Running <=> dsResponse = "open"
  /\ Stream!Running => dsWritten = dsRead
  /\ dsWaits = "row" => Stream!Buffered < StreamRoom
  /\ Stream!Buffered <= StreamRoom

StreamInv == Stream!TypeOK /\ Stream!WholeOrBroken /\ Stream!Restrained /\ StreamRunning

LEMMA StreamParameters == StreamRows \in Nat /\ StreamRoom \in Nat \ {0}
BY ServerAssumption DEF Stream!StreamAssumption

LEMMA StreamInitial == Stream!Init \/ StreamAtRest => StreamInv
<1> SUFFICES ASSUME Stream!Init \/ StreamAtRest PROVE StreamInv
  OBVIOUS
<1>0. StreamRows \in Nat /\ StreamRoom \in Nat \ {0}
  BY StreamParameters
<1>1. dsRead = 0 /\ dsWritten = 0 /\ dsReceived = 0 /\ Stream!Buffered = 0
  BY DEF Stream!Init, StreamAtRest, Stream!Buffered
<1>2. Stream!TypeOK
  <2>1. /\ dsCursor = "none" /\ dsTimer \in BOOLEAN /\ dsSignal \in BOOLEAN
        /\ dsWaits \in {"row", "nothing"} /\ dsResponse \in {"open", "refused"}
        /\ dsClient \in {"reading", "stalled", "gone"}
    BY DEF Stream!Init, StreamAtRest
  <2> QED
    BY <1>0, <1>1, <2>1 DEF Stream!TypeOK
<1>3. Stream!WholeOrBroken
  BY <1>0, <1>1 DEF Stream!Init, StreamAtRest, Stream!WholeOrBroken, Stream!Running
<1>4. Stream!Restrained
  BY <1>0, <1>1 DEF Stream!Init, StreamAtRest, Stream!Restrained, Stream!Running
<1>5. StreamRunning
  BY <1>0, <1>1 DEF Stream!Init, StreamAtRest, StreamRunning, Stream!Running
<1> QED
  BY <1>2, <1>3, <1>4, <1>5 DEF StreamInv

\* Leaving on a failure, after as many rows as were read by then.
LEMMA StreamCut ==
  ASSUME StreamInv, Stream!Running, Stream!Leave(Stream!Cut),
         UNCHANGED <<dsWritten, dsReceived, dsClient, dsSignal>>,
         dsRead' \in 0 .. StreamRows
  PROVE  StreamInv'
<1>0. /\ Stream!TypeOK /\ dsWritten = dsRead /\ Stream!Buffered <= StreamRoom
      /\ StreamRows \in Nat /\ StreamRoom \in Nat \ {0}
  BY StreamParameters DEF StreamInv, StreamRunning
<1>1. /\ dsWaits' = "nothing" /\ dsTimer' = FALSE /\ dsCursor' \in {"none", "closed"}
      /\ dsResponse' = IF dsWritten > 0 THEN "destroyed" ELSE "refused"
  BY DEF Stream!Leave, Stream!Cut, Stream!Closed
<1>2. Stream!TypeOK'
  BY <1>0, <1>1 DEF Stream!TypeOK
<1>3. ~ Stream!Running' /\ Stream!Buffered' = Stream!Buffered
  BY <1>1 DEF Stream!Running, Stream!Buffered
<1>4. Stream!WholeOrBroken'
  BY <1>0, <1>1, <1>3 DEF Stream!WholeOrBroken, Stream!TypeOK
<1>5. Stream!Restrained' /\ StreamRunning'
  BY <1>0, <1>1, <1>3 DEF Stream!Restrained, StreamRunning, Stream!TypeOK, Stream!Buffered
<1> QED
  BY <1>2, <1>4, <1>5 DEF StreamInv

LEMMA StreamEnd == ASSUME StreamInv, Stream!End PROVE StreamInv'
<1>0. /\ Stream!TypeOK /\ StreamRows \in Nat /\ StreamRoom \in Nat \ {0}
      /\ Stream!Buffered < StreamRoom /\ dsWritten = StreamRows /\ dsRead = StreamRows
  BY StreamParameters DEF StreamInv, StreamRunning, Stream!End, Stream!Running
<1>1. /\ dsWritten' = StreamRows + 1 /\ UNCHANGED <<dsSignal, dsRead, dsReceived, dsClient>>
      /\ dsWaits' = "nothing" /\ dsTimer' = FALSE /\ dsCursor' \in {"none", "closed"}
      /\ dsResponse' = "ended"
  BY <1>0 DEF Stream!End, Stream!Leave, Stream!Closed
<1>2. dsReceived \in Nat /\ dsReceived <= StreamRows
  BY <1>0 DEF Stream!TypeOK
<1>3. dsWritten' \in 0 .. StreamRows + 1 /\ dsReceived' \in 0 .. dsWritten'
  BY <1>0, <1>1, <1>2
<1>4. Stream!TypeOK'
  BY <1>0, <1>1, <1>3 DEF Stream!TypeOK
<1>5. Stream!WholeOrBroken'
  BY <1>0, <1>1 DEF Stream!WholeOrBroken
<1>6. Stream!Buffered' \in Int /\ Stream!Buffered' <= StreamRoom
  BY <1>0, <1>1, <1>2 DEF Stream!Buffered
<1>7. StreamRunning' /\ Stream!Restrained'
  BY <1>0, <1>1, <1>6 DEF StreamRunning, Stream!Restrained, Stream!Running
<1> QED
  BY <1>4, <1>5, <1>7 DEF StreamInv

LEMMA StreamStep == StreamInv /\ [Stream!Next]_streamVars => StreamInv'
<1> SUFFICES ASSUME StreamInv, [Stream!Next]_streamVars PROVE StreamInv'
  OBVIOUS
<1> USE DEF StreamInv, Stream!TypeOK, Stream!WholeOrBroken, Stream!Restrained, StreamRunning,
            Stream!Running, Stream!Buffered
<1>0. StreamRows \in Nat /\ StreamRoom \in Nat \ {0}
  BY StreamParameters
<1>1. CASE Stream!Row
  <2>1. CASE dsSignal
    BY <1>0, <1>1, <2>1, StreamCut DEF Stream!Row
  <2>2. CASE ~ dsSignal
    BY <1>0, <1>1, <2>2 DEF Stream!Row, Stream!AfterWrite
  <2> QED
    BY <2>1, <2>2
<1>2. CASE Stream!End
  BY <1>2, StreamEnd
<1>3. CASE Stream!Drained
  BY <1>0, <1>3 DEF Stream!Drained
<1>4. CASE Stream!Aborted \/ Stream!DatabaseFails
  BY <1>0, <1>4, StreamCut DEF Stream!Aborted, Stream!DatabaseFails, Stream!GivesUp
<1>5. CASE Stream!Deadline \/ Stream!Disconnect \/ Stream!Stall
  <2>1. /\ UNCHANGED <<dsCursor, dsTimer, dsWaits, dsRead, dsWritten, dsReceived, dsResponse>>
        /\ dsSignal' \in BOOLEAN /\ dsClient' \in {"reading", "stalled", "gone"}
    BY <1>5 DEF Stream!Deadline, Stream!Disconnect, Stream!Stall, Stream!handler
  <2> QED
    BY <1>0, <2>1
<1>6. CASE Stream!Receive
  BY <1>0, <1>6 DEF Stream!Receive, Stream!handler
<1>7. CASE UNCHANGED streamVars
  BY <1>0, <1>7 DEF streamVars
<1> QED
  BY <1>1, <1>2, <1>3, <1>4, <1>5, <1>6, <1>7 DEF Stream!Next

LEMMA StreamLives == [ServerNext]_serverVars => [Stream!Next]_streamVars
BY DEF ServerNext, OthersStill, serverVars, streamVars

\* The invariant of the streamed directories, in every reachable state of the server.
THEOREM StreamHolds == ServerSpec => []StreamInv
<1>1. ServerInit => StreamInv
  BY StreamInitial DEF ServerInit
<1>2. StreamInv /\ [ServerNext]_serverVars => StreamInv'
  BY StreamStep, StreamLives
<1> QED
  BY <1>1, <1>2, PTL DEF ServerSpec

\* For any number of rows and any buffer, wherever a client stalls or leaves or the
\* database fails: a closed array is whole, a cut one broken, and nothing stays open.
THEOREM StreamsAreWhole == ServerSpec => []StreamsWhole
<1>1. StreamInv => StreamsWhole
  BY DEF StreamInv, StreamsWhole
<1> QED
  BY <1>1, StreamHolds, PTL

-----------------------------------------------------------------------------
(* Promotion *)

PromotionGoing == pmPhase \notin Promoting!Ended

\* What the script has done to the host at each phase of the candidate.
CandidateUnderWay ==
  /\ pmPhase # "none" => pmTarget \in PromotedReleases
  /\ pmPhase \in {"activated", "written", "tested", "restarted", "reloaded"} => pmLink = pmTarget
  /\ pmPhase \in {"written", "tested", "restarted", "reloaded"} => pmEnv = pmTarget
  /\ pmPhase \in {"restarted", "reloaded"} => pmApi = [code |-> pmTarget, identity |-> pmTarget]
  /\ pmPhase = "reloaded" => pmEdge = pmTarget

\* And at each phase of undoing it.
UndoingUnderWay ==
  /\ pmPhase \in {"relinked", "rewritten", "rerun", "undone"} =>
       pmPrevious # NoRelease /\ pmLink = pmPrevious
  /\ pmPhase \in {"rewritten", "rerun", "undone"} => pmEnv = pmPrevious
  /\ pmPhase \in {"rerun", "undone"} => pmApi = [code |-> pmPrevious, identity |-> pmPrevious]
  /\ pmPhase = "undone" /\ ~pmTrouble => pmEdge = pmPrevious
  /\ pmPhase \in {"unlinked", "stopped"} => pmPrevious = NoRelease

\* A script on a host that has served a verified release has one to go back to,
\* the one verified last unless there was trouble since.
SomethingToRestore ==
  /\ pmPhase = "none" => pmVerified = NoRelease
  /\ pmPhase \in {"aborted", "killed"} => pmTrouble
  /\ PromotionGoing /\ pmVerified # NoRelease => pmPrevious # NoRelease
  /\ PromotionGoing /\ pmVerified # NoRelease /\ ~pmTrouble => pmPrevious = pmVerified

PromotionInv ==
  /\ Promoting!TypeOK
  /\ CandidateUnderWay /\ UndoingUnderWay /\ SomethingToRestore
  /\ PromotionsServe

LEMMA PromotionParameters == SoundReleases \subseteq PromotedReleases /\ NoRelease \notin PromotedReleases
BY ServerAssumption DEF Promoting!PromotionAssumption

LEMMA PromotionInitial == Promoting!Init => PromotionInv
<1> SUFFICES ASSUME Promoting!Init PROVE PromotionInv
  OBVIOUS
<1>1. (pmApi.code = NoRelease) = (pmApi.identity = NoRelease)
  BY DEF Promoting!Init, Promoting!Down
<1>2. Promoting!TypeOK
  BY <1>1 DEF Promoting!Init, Promoting!Down, Promoting!TypeOK
<1>3. CandidateUnderWay /\ UndoingUnderWay /\ SomethingToRestore
  BY DEF Promoting!Init, CandidateUnderWay, UndoingUnderWay, SomethingToRestore, PromotionGoing,
         Promoting!Ended
<1>4. PromotionsServe
  BY DEF Promoting!Init, PromotionsServe, Promoting!PromotedIsWhole,
         Promoting!LastVerifiedServes, Promoting!NeverUnlinked
<1> QED
  BY <1>2, <1>3, <1>4 DEF PromotionInv

\* What a start of the API takes up has code exactly when it has an identity.
LEMMA PromotionTyped ==
  ASSUME Promoting!TypeOK,
         pmLink' \in PromotedReleases \cup {NoRelease}, pmEnv' \in PromotedReleases \cup {NoRelease},
         pmEdge' \in PromotedReleases \cup {NoRelease}, pmTarget' \in PromotedReleases \cup {NoRelease},
         pmPrevious' \in PromotedReleases \cup {NoRelease},
         pmVerified' \in PromotedReleases \cup {NoRelease},
         pmApi' \in {pmApi, Promoting!Down, Promoting!Started}, pmTrouble' \in BOOLEAN
  PROVE  Promoting!TypeOK'
<1>1. Promoting!Down \in [code : PromotedReleases \cup {NoRelease},
                          identity : PromotedReleases \cup {NoRelease}]
  BY DEF Promoting!Down
<1>2. (Promoting!Down.code = NoRelease) = (Promoting!Down.identity = NoRelease)
  BY DEF Promoting!Down
<1>3. Promoting!Started \in [code : PromotedReleases \cup {NoRelease},
                             identity : PromotedReleases \cup {NoRelease}]
  BY <1>1 DEF Promoting!Started, Promoting!TypeOK
<1>4. (Promoting!Started.code = NoRelease) = (Promoting!Started.identity = NoRelease)
  <2>1. CASE pmLink = NoRelease \/ pmEnv = NoRelease
    BY <1>2, <2>1 DEF Promoting!Started
  <2>2. CASE pmLink # NoRelease /\ pmEnv # NoRelease
    BY <2>2 DEF Promoting!Started
  <2> QED
    BY <2>1, <2>2
<1>5. /\ pmApi' \in [code : PromotedReleases \cup {NoRelease}, identity : PromotedReleases \cup {NoRelease}]
      /\ (pmApi'.code = NoRelease) = (pmApi'.identity = NoRelease)
  <2>1. CASE pmApi' = pmApi
    BY <2>1 DEF Promoting!TypeOK
  <2>2. CASE pmApi' = Promoting!Down
    BY <1>1, <1>2, <2>2
  <2>3. CASE pmApi' = Promoting!Started
    BY <1>3, <1>4, <2>3
  <2> QED
    BY <2>1, <2>2, <2>3
<1> QED
  BY <1>5 DEF Promoting!TypeOK

\* A step of a running script to another phase that leaves the host alone or whose
\* effect is the one the phases claim.
LEMMA PromotionGoesOn ==
  ASSUME PromotionInv, PromotionGoing, PromotionGoing', Promoting!TypeOK',
         CandidateUnderWay', UndoingUnderWay',
         UNCHANGED <<pmTarget, pmPrevious, pmVerified>>,
         pmTrouble => pmTrouble', pmVerified # NoRelease => pmLink' # NoRelease
  PROVE  PromotionInv'
BY DEF PromotionInv, SomethingToRestore, PromotionsServe, PromotionGoing, Promoting!Ended,
       Promoting!PromotedIsWhole, Promoting!LastVerifiedServes, Promoting!NeverUnlinked

\* A step of the script that ends it in trouble and leaves the link alone.
LEMMA PromotionEndsInTrouble ==
  ASSUME PromotionInv, PromotionGoing, Promoting!TypeOK', pmTrouble',
         pmPhase' \in {"aborted", "killed", "unverified"},
         UNCHANGED <<pmLink, pmTarget, pmPrevious, pmVerified>>
  PROVE  PromotionInv'
BY DEF PromotionInv, SomethingToRestore, PromotionsServe, PromotionGoing, Promoting!Ended,
       CandidateUnderWay, UndoingUnderWay,
       Promoting!PromotedIsWhole, Promoting!LastVerifiedServes, Promoting!NeverUnlinked

LEMMA CandidateStep == ASSUME PromotionInv, Promoting!Candidate PROVE PromotionInv'
<1> USE PromotionParameters
<1>0. Promoting!TypeOK /\ CandidateUnderWay /\ UndoingUnderWay
  BY DEF PromotionInv
<1>1. CASE Promoting!Activate("begun", pmTarget, "activated")
  <2>1. PromotionGoing /\ PromotionGoing'
    BY <1>1 DEF Promoting!Activate, PromotionGoing, Promoting!Ended
  <2>2. Promoting!TypeOK' /\ CandidateUnderWay' /\ UndoingUnderWay'
    BY <1>0, <1>1 DEF Promoting!Activate, Promoting!ghosts, Promoting!TypeOK,
                      CandidateUnderWay, UndoingUnderWay
  <2>3. pmLink' # NoRelease
    BY <1>0, <1>1 DEF Promoting!Activate, CandidateUnderWay
  <2> QED
    BY <1>1, <2>1, <2>2, <2>3, PromotionGoesOn DEF Promoting!Activate, Promoting!ghosts
<1>2. CASE Promoting!Abort("begun") \/ Promoting!Abort("activated")
  <2>1. PromotionGoing
    BY <1>2 DEF Promoting!Abort, PromotionGoing, Promoting!Ended
  <2>2. Promoting!TypeOK'
    BY <1>0, <1>2, PromotionTyped DEF Promoting!Abort, Promoting!TypeOK
  <2> QED
    BY <1>2, <2>1, <2>2, PromotionEndsInTrouble DEF Promoting!Abort
<1>3. CASE Promoting!WriteEnvironment("activated", pmTarget, "written")
  <2>1. PromotionGoing /\ PromotionGoing'
    BY <1>3 DEF Promoting!WriteEnvironment, PromotionGoing, Promoting!Ended
  <2>2. Promoting!TypeOK' /\ CandidateUnderWay' /\ UndoingUnderWay'
    BY <1>0, <1>3 DEF Promoting!WriteEnvironment, Promoting!ghosts, Promoting!TypeOK,
                      CandidateUnderWay, UndoingUnderWay
  <2>3. pmVerified # NoRelease => pmLink' # NoRelease
    BY <1>3 DEF Promoting!WriteEnvironment, PromotionInv, PromotionsServe, Promoting!NeverUnlinked
  <2> QED
    BY <1>3, <2>1, <2>2, <2>3, PromotionGoesOn DEF Promoting!WriteEnvironment, Promoting!ghosts
<1>4. CASE Promoting!TestCandidate
  <2>1. PromotionGoing /\ PromotionGoing'
    BY <1>4 DEF Promoting!TestCandidate, PromotionGoing, Promoting!Ended
  <2>2. Promoting!TypeOK' /\ CandidateUnderWay' /\ UndoingUnderWay'
    BY <1>0, <1>4 DEF Promoting!TestCandidate, Promoting!host, Promoting!ghosts, Promoting!TypeOK,
                      CandidateUnderWay, UndoingUnderWay
  <2>3. pmVerified # NoRelease => pmLink' # NoRelease
    BY <1>4 DEF Promoting!TestCandidate, Promoting!host, PromotionInv, PromotionsServe,
                Promoting!NeverUnlinked
  <2> QED
    BY <1>4, <2>1, <2>2, <2>3, PromotionGoesOn DEF Promoting!TestCandidate, Promoting!ghosts
<1>5. CASE Promoting!Restart("tested", "restarted")
  <2>1. PromotionGoing /\ PromotionGoing'
    BY <1>5 DEF Promoting!Restart, PromotionGoing, Promoting!Ended
  <2>2. pmLink = pmTarget /\ pmEnv = pmTarget /\ pmTarget \in PromotedReleases
    BY <1>0, <1>5 DEF Promoting!Restart, CandidateUnderWay
  <2>3. pmApi' = [code |-> pmTarget, identity |-> pmTarget]
    BY <1>5, <2>2 DEF Promoting!Restart, Promoting!Started
  <2>4. Promoting!TypeOK' /\ CandidateUnderWay' /\ UndoingUnderWay'
    BY <1>0, <1>5, <2>2, <2>3 DEF Promoting!Restart, Promoting!ghosts, Promoting!TypeOK,
                      CandidateUnderWay, UndoingUnderWay
  <2> QED
    BY <1>5, <2>1, <2>2, <2>4, PromotionGoesOn DEF Promoting!Restart, Promoting!ghosts
<1>6. CASE Promoting!Reload("restarted", "reloaded")
  <2>1. PromotionGoing /\ PromotionGoing'
    BY <1>6 DEF Promoting!Reload, PromotionGoing, Promoting!Ended
  <2>2. pmLink = pmTarget /\ pmTarget \in PromotedReleases
    BY <1>0, <1>6 DEF Promoting!Reload, CandidateUnderWay
  <2>3. Promoting!TypeOK' /\ CandidateUnderWay' /\ UndoingUnderWay'
    BY <1>0, <1>6, <2>2 DEF Promoting!Reload, Promoting!Loaded, Promoting!ghosts,
                      Promoting!TypeOK, CandidateUnderWay, UndoingUnderWay
  <2> QED
    BY <1>6, <2>1, <2>2, <2>3, PromotionGoesOn DEF Promoting!Reload, Promoting!ghosts
<1>7. CASE Promoting!Promoted
  <2>1. /\ pmPhase = "reloaded" /\ pmPhase' = "promoted" /\ pmVerified' = pmTarget
        /\ pmTrouble' = FALSE /\ UNCHANGED <<pmLink, pmEnv, pmApi, pmEdge, pmTarget, pmPrevious>>
    BY <1>7 DEF Promoting!Promoted, Promoting!host
  <2>2. Promoting!Whole(pmTarget) /\ pmTarget \in PromotedReleases
    BY <1>0, <2>1 DEF CandidateUnderWay, Promoting!Whole
  <2>3. pmTarget \in SoundReleases
    BY <1>7, <2>2 DEF Promoting!Promoted, Promoting!Verifies, Promoting!Whole
  <2>4. Promoting!TypeOK'
    BY <1>0, <2>1, <2>2, PromotionTyped DEF Promoting!TypeOK
  <2>5. CandidateUnderWay' /\ UndoingUnderWay' /\ SomethingToRestore'
    BY <2>1, <2>2 DEF CandidateUnderWay, UndoingUnderWay, SomethingToRestore, PromotionGoing,
                      Promoting!Ended
  <2>6. PromotionsServe'
    BY <2>1, <2>2, <2>3 DEF PromotionsServe, Promoting!PromotedIsWhole, Promoting!Whole,
                      Promoting!LastVerifiedServes, Promoting!NeverUnlinked
  <2> QED
    BY <2>4, <2>5, <2>6 DEF PromotionInv
<1>8. CASE Promoting!CandidateFails
  <2>1. PromotionGoing /\ PromotionGoing'
    BY <1>8 DEF Promoting!CandidateFails, PromotionGoing, Promoting!Ended
  <2>2. Promoting!TypeOK' /\ CandidateUnderWay' /\ UndoingUnderWay'
    BY <1>0, <1>8 DEF Promoting!CandidateFails, Promoting!ghosts, Promoting!TypeOK, Promoting!Down,
                      CandidateUnderWay, UndoingUnderWay
  <2>3. pmVerified # NoRelease => pmLink' # NoRelease
    BY <1>8 DEF Promoting!CandidateFails, PromotionInv, PromotionsServe, Promoting!NeverUnlinked
  <2> QED
    BY <1>8, <2>1, <2>2, <2>3, PromotionGoesOn DEF Promoting!CandidateFails, Promoting!ghosts
<1> QED
  BY <1>1, <1>2, <1>3, <1>4, <1>5, <1>6, <1>7, <1>8 DEF Promoting!Candidate

\* While the script undoes, a release to go back to stays selected.
LEMMA UndoStep == ASSUME PromotionInv, Promoting!Undo PROVE PromotionInv'
<1> USE PromotionParameters
<1>0. /\ Promoting!TypeOK /\ CandidateUnderWay /\ UndoingUnderWay
      /\ pmVerified # NoRelease => pmLink # NoRelease
  BY DEF PromotionInv, PromotionsServe, Promoting!NeverUnlinked
<1>1. CASE Promoting!KeepsARelease /\ Promoting!Activate("failed", Promoting!RestoredRelease, "relinked")
  <2>1. PromotionGoing /\ PromotionGoing' /\ pmLink' # NoRelease
    BY <1>1 DEF Promoting!Activate, PromotionGoing, Promoting!Ended, Promoting!KeepsARelease,
                Promoting!RestoredRelease
  <2>2. Promoting!TypeOK'
    BY <1>0, <1>1, PromotionTyped
       DEF Promoting!Activate, Promoting!ghosts, Promoting!TypeOK, Promoting!RestoredRelease
  <2>3. CandidateUnderWay' /\ UndoingUnderWay'
    BY <1>0, <1>1 DEF Promoting!Activate, CandidateUnderWay, UndoingUnderWay,
                      Promoting!RestoredRelease, Promoting!KeepsARelease
  <2> QED
    BY <1>1, <2>1, <2>2, <2>3, PromotionGoesOn DEF Promoting!Activate, Promoting!ghosts
<1>2. CASE Promoting!Abort("failed") \/ Promoting!Abort("relinked") \/ Promoting!Abort("rewritten")
           \/ Promoting!Abort("rerun")
  <2>1. PromotionGoing
    BY <1>2 DEF Promoting!Abort, PromotionGoing, Promoting!Ended
  <2>2. pmApi' \in {pmApi, Promoting!Down}
    BY <1>2 DEF Promoting!Abort
  <2>3. Promoting!TypeOK'
    BY <1>0, <1>2, <2>2, PromotionTyped DEF Promoting!Abort, Promoting!TypeOK
  <2> QED
    BY <1>2, <2>1, <2>3, PromotionEndsInTrouble DEF Promoting!Abort
<1>3. CASE Promoting!WriteEnvironment("relinked", Promoting!RestoredRelease, "rewritten")
  <2>1. PromotionGoing /\ PromotionGoing'
    BY <1>3 DEF Promoting!WriteEnvironment, PromotionGoing, Promoting!Ended
  <2>2. Promoting!TypeOK'
    BY <1>0, <1>3, PromotionTyped
       DEF Promoting!WriteEnvironment, Promoting!ghosts, Promoting!TypeOK, Promoting!RestoredRelease
  <2>3. CandidateUnderWay' /\ UndoingUnderWay'
    BY <1>0, <1>3 DEF Promoting!WriteEnvironment, CandidateUnderWay, UndoingUnderWay,
                      Promoting!RestoredRelease
  <2> QED
    BY <1>0, <1>3, <2>1, <2>2, <2>3, PromotionGoesOn DEF Promoting!WriteEnvironment, Promoting!ghosts
<1>4. CASE Promoting!Restart("rewritten", "rerun")
  <2>1. PromotionGoing /\ PromotionGoing'
    BY <1>4 DEF Promoting!Restart, PromotionGoing, Promoting!Ended
  <2>2. Promoting!TypeOK'
    BY <1>0, <1>4, PromotionTyped DEF Promoting!Restart, Promoting!ghosts, Promoting!TypeOK
  <2>3. pmLink = pmPrevious /\ pmEnv = pmPrevious /\ pmPrevious # NoRelease
    BY <1>0, <1>4 DEF Promoting!Restart, UndoingUnderWay
  <2>4. pmApi' = [code |-> pmPrevious, identity |-> pmPrevious]
    BY <1>4, <2>3 DEF Promoting!Restart, Promoting!Started
  <2>5. CandidateUnderWay' /\ UndoingUnderWay'
    BY <1>0, <1>4, <2>3, <2>4 DEF Promoting!Restart, CandidateUnderWay, UndoingUnderWay
  <2> QED
    BY <1>4, <2>1, <2>2, <2>3, <2>5, PromotionGoesOn DEF Promoting!Restart, Promoting!ghosts
<1>5. CASE Promoting!Reload("rerun", "undone")
  <2>1. PromotionGoing /\ PromotionGoing'
    BY <1>5 DEF Promoting!Reload, PromotionGoing, Promoting!Ended
  <2>2. Promoting!TypeOK'
    BY <1>0, <1>5, PromotionTyped
       DEF Promoting!Reload, Promoting!Loaded, Promoting!ghosts, Promoting!TypeOK
  <2>3. CandidateUnderWay' /\ UndoingUnderWay'
    BY <1>0, <1>5 DEF Promoting!Reload, Promoting!Loaded, CandidateUnderWay, UndoingUnderWay
  <2> QED
    BY <1>0, <1>5, <2>1, <2>2, <2>3, PromotionGoesOn DEF Promoting!Reload, Promoting!ghosts
<1>6. CASE Promoting!RefuseConfiguration("rerun", "undone")
  <2>1. PromotionGoing /\ PromotionGoing'
    BY <1>6 DEF Promoting!RefuseConfiguration, PromotionGoing, Promoting!Ended
  <2>2. Promoting!TypeOK'
    BY <1>0, <1>6, PromotionTyped
       DEF Promoting!RefuseConfiguration, Promoting!host, Promoting!TypeOK
  <2>3. CandidateUnderWay' /\ UndoingUnderWay'
    BY <1>0, <1>6 DEF Promoting!RefuseConfiguration, Promoting!host, CandidateUnderWay, UndoingUnderWay
  <2> QED
    BY <1>0, <1>6, <2>1, <2>2, <2>3, PromotionGoesOn DEF Promoting!RefuseConfiguration, Promoting!host
<1>7. CASE ~ Promoting!KeepsARelease /\ Promoting!Activate("failed", NoRelease, "unlinked")
  <2>1. PromotionGoing /\ PromotionGoing'
    BY <1>7 DEF Promoting!Activate, PromotionGoing, Promoting!Ended
  <2>2. pmVerified = NoRelease
    BY <1>7, <2>1 DEF Promoting!KeepsARelease, PromotionInv, SomethingToRestore
  <2>3. Promoting!TypeOK'
    BY <1>0, <1>7, PromotionTyped DEF Promoting!Activate, Promoting!ghosts, Promoting!TypeOK
  <2>4. CandidateUnderWay' /\ UndoingUnderWay'
    BY <1>0, <1>7 DEF Promoting!Activate, CandidateUnderWay, UndoingUnderWay, Promoting!KeepsARelease
  <2> QED
    BY <1>7, <2>1, <2>2, <2>3, <2>4, PromotionGoesOn DEF Promoting!Activate, Promoting!ghosts
<1>8. CASE Promoting!Stop
  <2>1. PromotionGoing /\ PromotionGoing'
    BY <1>8 DEF Promoting!Stop, PromotionGoing, Promoting!Ended
  <2>2. Promoting!TypeOK'
    BY <1>0, <1>8, PromotionTyped DEF Promoting!Stop, Promoting!ghosts, Promoting!TypeOK
  <2>3. CandidateUnderWay' /\ UndoingUnderWay'
    BY <1>0, <1>8 DEF Promoting!Stop, CandidateUnderWay, UndoingUnderWay
  <2> QED
    BY <1>0, <1>8, <2>1, <2>2, <2>3, PromotionGoesOn DEF Promoting!Stop, Promoting!ghosts
<1>9. CASE Promoting!RefuseConfiguration("stopped", "unverified")
  <2>1. PromotionGoing
    BY <1>9 DEF Promoting!RefuseConfiguration, PromotionGoing, Promoting!Ended
  <2>2. Promoting!TypeOK'
    BY <1>0, <1>9, PromotionTyped
       DEF Promoting!RefuseConfiguration, Promoting!host, Promoting!TypeOK
  <2> QED
    BY <1>9, <2>1, <2>2, PromotionEndsInTrouble DEF Promoting!RefuseConfiguration, Promoting!host
<1>10. CASE Promoting!Restored
  <2>1. /\ pmPhase = "undone" /\ pmPhase' \in {"unverified", "restored"}
        /\ UNCHANGED <<pmLink, pmEnv, pmApi, pmEdge, pmTarget, pmPrevious, pmVerified, pmTrouble>>
    BY <1>10 DEF Promoting!Restored, Promoting!host, Promoting!ghosts
  <2>2. ~pmTrouble /\ pmVerified # NoRelease => Promoting!Whole(pmVerified)
    BY <1>0, <2>1 DEF PromotionInv, SomethingToRestore, UndoingUnderWay, PromotionGoing,
                      Promoting!Ended, Promoting!Whole
  <2>3. Promoting!TypeOK'
    BY <1>0, <2>1, PromotionTyped DEF Promoting!TypeOK
  <2>4. CandidateUnderWay' /\ UndoingUnderWay' /\ SomethingToRestore'
    BY <1>0, <2>1 DEF CandidateUnderWay, UndoingUnderWay, SomethingToRestore, PromotionGoing,
                      Promoting!Ended
  <2>5. PromotionsServe'
    BY <1>0, <2>1, <2>2 DEF PromotionsServe, Promoting!PromotedIsWhole, Promoting!Whole,
                      Promoting!LastVerifiedServes, Promoting!NeverUnlinked
  <2> QED
    BY <2>3, <2>4, <2>5 DEF PromotionInv
<1> QED
  BY <1>1, <1>2, <1>3, <1>4, <1>5, <1>6, <1>7, <1>8, <1>9, <1>10
     DEF Promoting!Undo, Promoting!RestorePrevious, Promoting!RemoveFirst

\* An API that is started from what is selected, with or without the rest of a reboot.
LEMMA HostStep ==
  ASSUME PromotionInv, Promoting!Respawn \/ Promoting!Kill \/ Promoting!Reboot
  PROVE  PromotionInv'
<1> USE PromotionParameters
<1>0. /\ Promoting!TypeOK /\ CandidateUnderWay /\ UndoingUnderWay /\ SomethingToRestore
      /\ pmVerified # NoRelease => pmLink # NoRelease
  BY DEF PromotionInv, PromotionsServe, Promoting!NeverUnlinked
<1>1. \A r \in PromotedReleases : pmLink = r /\ pmEnv = r =>
        Promoting!Started = [code |-> r, identity |-> r]
  BY DEF Promoting!Started
<1>2. ASSUME ~ PromotionGoing, UNCHANGED <<pmLink, pmEnv, pmPhase, pmTarget, pmPrevious, pmVerified, pmTrouble>>,
             pmEdge' \in {pmEdge, pmLink}, pmApi' = Promoting!Started
      PROVE  PromotionInv'
  <2>1. Promoting!TypeOK'
    BY <1>0, <1>2, PromotionTyped DEF Promoting!TypeOK
  <2>2. CandidateUnderWay' /\ UndoingUnderWay' /\ SomethingToRestore'
    BY <1>0, <1>2 DEF CandidateUnderWay, UndoingUnderWay, SomethingToRestore, PromotionGoing,
                      Promoting!Ended
  <2>3. ASSUME NEW r \in PromotedReleases, Promoting!Whole(r)
        PROVE  Promoting!Whole(r)'
    BY <1>1, <1>2, <2>3 DEF Promoting!Whole
  <2>4. pmPhase = "promoted" => pmTarget \in PromotedReleases
    BY <1>0 DEF CandidateUnderWay
  <2>5. pmVerified # NoRelease => pmVerified \in PromotedReleases
    BY <1>0 DEF Promoting!TypeOK
  <2>6. PromotionsServe'
    BY <1>0, <1>2, <2>3, <2>4, <2>5
       DEF PromotionInv, PromotionsServe, Promoting!PromotedIsWhole, Promoting!LastVerifiedServes,
           Promoting!NeverUnlinked, Promoting!Whole
  <2> QED
    BY <2>1, <2>2, <2>6 DEF PromotionInv
<1>3. CASE Promoting!Respawn
  <2>1. /\ pmApi' = Promoting!Started
        /\ UNCHANGED <<pmLink, pmEnv, pmEdge, pmPhase, pmTarget, pmPrevious, pmVerified, pmTrouble>>
    BY <1>3 DEF Promoting!Respawn, Promoting!ghosts
  <2>2. CASE PromotionGoing
    <3>1. Promoting!TypeOK'
      BY <1>0, <2>1, PromotionTyped DEF Promoting!TypeOK
    <3>2. pmPhase \in {"restarted", "reloaded"} => pmApi' = [code |-> pmTarget, identity |-> pmTarget]
      BY <1>0, <1>1, <2>1 DEF CandidateUnderWay
    <3>3. pmPhase \in {"rerun", "undone"} => pmApi' = [code |-> pmPrevious, identity |-> pmPrevious]
      BY <1>0, <1>1, <2>1 DEF UndoingUnderWay, Promoting!TypeOK
    <3>4. CandidateUnderWay' /\ UndoingUnderWay'
      BY <1>0, <2>1, <3>2, <3>3 DEF CandidateUnderWay, UndoingUnderWay
    <3> QED
      BY <1>0, <2>1, <2>2, <3>1, <3>4, PromotionGoesOn DEF PromotionGoing
  <2> QED
    BY <1>2, <2>1, <2>2
<1>4. CASE Promoting!Kill
  <2>1. Promoting!TypeOK'
    BY <1>0, <1>4, PromotionTyped DEF Promoting!Kill, Promoting!host, Promoting!TypeOK
  <2> QED
    BY <1>4, <2>1, PromotionEndsInTrouble DEF Promoting!Kill, Promoting!host, PromotionGoing
<1>5. CASE Promoting!Reboot
  <2>1. /\ pmApi' = Promoting!Started /\ pmEdge' = pmLink
        /\ pmPhase' = IF PromotionGoing THEN "killed" ELSE pmPhase
        /\ pmTrouble' = (pmTrouble \/ PromotionGoing)
        /\ UNCHANGED <<pmLink, pmEnv, pmTarget, pmPrevious, pmVerified>>
    BY <1>5 DEF Promoting!Reboot, PromotionGoing
  <2>2. CASE PromotionGoing
    <3>1. Promoting!TypeOK'
      BY <1>0, <2>1, <2>2, PromotionTyped DEF Promoting!TypeOK
    <3> QED
      BY <2>1, <2>2, <3>1, PromotionEndsInTrouble
  <2>3. CASE ~ PromotionGoing
    <3>1. pmTrouble' = pmTrouble
      BY <1>0, <2>1, <2>3 DEF Promoting!TypeOK
    <3> QED
      BY <1>2, <2>1, <2>3, <3>1
  <2> QED
    BY <2>2, <2>3
<1> QED
  BY <1>3, <1>4, <1>5

LEMMA PromotionStep == PromotionInv /\ [Promoting!Next]_promotionVars => PromotionInv'
<1> SUFFICES ASSUME PromotionInv, [Promoting!Next]_promotionVars PROVE PromotionInv'
  OBVIOUS
<1>1. ASSUME NEW r \in PromotedReleases, Promoting!Begin(r)
      PROVE  PromotionInv'
  <2>1. /\ pmTarget' = r /\ pmPrevious' = pmLink /\ pmPhase' = "begun" /\ ~ PromotionGoing
        /\ UNCHANGED <<pmLink, pmEnv, pmApi, pmEdge, pmVerified, pmTrouble>>
    BY <1>1 DEF Promoting!Begin, Promoting!host, Promoting!ghosts, PromotionGoing
  <2>2. Promoting!TypeOK'
    BY <2>1, PromotionTyped DEF PromotionInv, Promoting!TypeOK
  <2>3. CandidateUnderWay' /\ UndoingUnderWay'
    BY <2>1 DEF PromotionInv, CandidateUnderWay, UndoingUnderWay
  <2>4. SomethingToRestore' /\ PromotionsServe'
    BY <2>1 DEF PromotionInv, SomethingToRestore, PromotionsServe, PromotionGoing, Promoting!Ended,
                Promoting!PromotedIsWhole, Promoting!LastVerifiedServes, Promoting!NeverUnlinked,
                Promoting!Whole
  <2> QED
    BY <2>2, <2>3, <2>4 DEF PromotionInv
<1>2. CASE UNCHANGED promotionVars
  BY <1>2 DEF promotionVars, PromotionInv, Promoting!TypeOK, CandidateUnderWay, UndoingUnderWay,
              SomethingToRestore, PromotionsServe, PromotionGoing, Promoting!Whole,
              Promoting!PromotedIsWhole, Promoting!LastVerifiedServes, Promoting!NeverUnlinked
<1> QED
  BY <1>1, <1>2, CandidateStep, UndoStep, HostStep DEF Promoting!Next

LEMMA PromotionLives == [ServerNext]_serverVars => [Promoting!Next]_promotionVars
BY DEF ServerNext, OthersStill, serverVars, promotionVars

\* The invariant of a promotion, in every reachable state of the server's delivery.
THEOREM PromotionHolds == ServerSpec => []PromotionInv
<1>1. ServerInit => PromotionInv
  BY PromotionInitial DEF ServerInit
<1>2. PromotionInv /\ [ServerNext]_serverVars => PromotionInv'
  BY PromotionStep, PromotionLives
<1> QED
  BY <1>1, <1>2, PTL DEF ServerSpec

\* For any releases and any sound ones among them, wherever a script dies, a host
\* reboots or an API crashes: what was promoted serves whole, a failed candidate
\* leaves the release verified last, and `current` always names one.
THEOREM PromotionsAreServed == ServerSpec => []PromotionsServe
BY PromotionHolds, PTL DEF PromotionInv

-----------------------------------------------------------------------------
(* Release preparation *)

Preparation(r) == ppPreparing # Preparing!Idle /\ ppPreparing.release = r

\* How far the release that is being prepared has come.
PreparedSoFar ==
  \A r \in PromotedReleases : Preparation(r) =>
    /\ r \notin ppKept
    /\ ~ (ppPromoting /\ ppCurrent = r)
    /\ r \in ppMarked <=> ppPreparing.next > 6
    /\ ppPreparing.next > 4 => r \in ppBuilt
    /\ ppPreparing.next > 5 => r \in ppChecked

\* A marker vouches for the build and its checks, and a promotion for the marker.
MarkersVouch ==
  /\ ppMarked \subseteq ppBuilt \cap ppChecked
  /\ ppKept \subseteq ppMarked
  /\ \A r \in ppKept : ppModules[r] # "none"

\* What serves, and what a promotion may have to go back to.
SelectionVouched ==
  /\ ppCurrent # NoRelease => ppCurrent \in ppMarked
  /\ ppPromoting => ppCurrent # NoRelease
  /\ ppPrevious # NoRelease => ppPrevious \in ppMarked
  /\ ~ppTrouble /\ ~ppPromoting /\ ppCurrent # NoRelease => ppCurrent \in ppKept
  /\ ~ppTrouble /\ ppPrevious # NoRelease => ppPrevious \in ppKept

PreparationInv == Preparing!TypeOK /\ PreparedSoFar /\ MarkersVouch /\ SelectionVouched

LEMMA PreparationParameters == NoRelease \notin PromotedReleases
BY ServerAssumption DEF Preparing!PreparationAssumption

\* The commands of prepare-release.sh, one by one.
LEMMA PreparationCommands ==
  /\ Len(Preparing!Commands) = 9
  /\ \A i \in 1 .. 9 : Preparing!Commands[i] =
       IF i \in {1, 7} THEN "remove" ELSE IF i = 2 THEN "install" ELSE IF i = 3 THEN "test"
       ELSE IF i = 4 THEN "build" ELSE IF i = 5 THEN "verify" ELSE IF i = 6 THEN "mark"
       ELSE IF i = 8 THEN "production" ELSE "smoke"
BY DEF Preparing!Commands

LEMMA PreparationInitial == Preparing!Init => PreparationInv
BY PreparationParameters, PreparationCommands
   DEF Preparing!Init, PreparationInv, Preparing!TypeOK, PreparedSoFar, MarkersVouch,
       SelectionVouched, Preparation

\* A preparation that goes on touches only the release it prepares.
LEMMA PreparationRuns == ASSUME PreparationInv, Preparing!Run PROVE PreparationInv'
<1> DEFINE r == ppPreparing.release
           i == ppPreparing.next
<1>0. /\ Preparing!TypeOK /\ PreparedSoFar /\ MarkersVouch /\ SelectionVouched
      /\ NoRelease \notin PromotedReleases
  BY PreparationParameters DEF PreparationInv
<1>1. /\ ppPreparing \in [release : PromotedReleases, next : 1 .. 9]
      /\ r \in PromotedReleases /\ i \in 1 .. 9 /\ Preparation(r)
  BY <1>0, PreparationCommands DEF Preparing!Run, Preparing!TypeOK, Preparation
<1>2. /\ r \notin ppKept /\ ~ (ppPromoting /\ ppCurrent = r)
      /\ r \in ppMarked <=> i > 6
      /\ i > 4 => r \in ppBuilt
      /\ i > 5 => r \in ppChecked
  BY <1>0, <1>1 DEF PreparedSoFar
<1>3. ppBuilt' = (IF i = 4 THEN ppBuilt \cup {r} ELSE ppBuilt)
  BY <1>1, PreparationCommands DEF Preparing!Run
<1>4. ppChecked' = (IF i = 5 THEN ppChecked \cup {r} ELSE ppChecked)
  BY <1>1, PreparationCommands DEF Preparing!Run
<1>5. ppMarked' = (IF i = 6 THEN ppMarked \cup {r} ELSE ppMarked)
  BY <1>1, PreparationCommands DEF Preparing!Run
<1>6. ppPreparing' = IF i = 9 THEN Preparing!Idle ELSE [release |-> r, next |-> i + 1]
  BY <1>1, PreparationCommands DEF Preparing!Run
<1>7. /\ ppModules' \in [PromotedReleases -> {"none", "development", "production"}]
      /\ \A q \in PromotedReleases \ {r} : ppModules'[q] = ppModules[q]
  <2> DEFINE command == Preparing!Commands[i]
  <2>1. CASE command \in {"remove", "install", "production"}
    BY <1>0, <1>1, <2>1 DEF Preparing!Run, Preparing!TypeOK
  <2>2. CASE command \notin {"remove", "install", "production"}
    <3>1. ppModules' = ppModules
      BY <2>2 DEF Preparing!Run
    <3> QED
      BY <1>0, <3>1 DEF Preparing!TypeOK
  <2> QED
    BY <2>1, <2>2
<1>8. UNCHANGED <<ppCurrent, ppPrevious, ppPromoting, ppKept, ppTrouble>>
  BY DEF Preparing!Run
<1> HIDE DEF r, i
<1>9. MarkersVouch'
  BY <1>0, <1>1, <1>2, <1>3, <1>4, <1>5, <1>7, <1>8 DEF MarkersVouch, Preparing!TypeOK
<1>10. SelectionVouched'
  BY <1>0, <1>5, <1>8 DEF SelectionVouched
<1>11. Preparing!TypeOK'
  BY <1>0, <1>1, <1>2, <1>3, <1>4, <1>5, <1>6, <1>7, <1>8, PreparationCommands
     DEF Preparing!TypeOK
<1>12. PreparedSoFar'
  <2>1. CASE i = 9
    BY <1>6, <2>1 DEF PreparedSoFar, Preparation
  <2>2. CASE i # 9
    <3>1. /\ ppPreparing'.release = r /\ ppPreparing'.next = i + 1
      BY <1>6, <2>2
    <3> QED
      BY <1>1, <1>2, <1>3, <1>4, <1>5, <1>8, <2>2, <3>1 DEF PreparedSoFar, Preparation
  <2> QED
    BY <2>1, <2>2
<1> QED
  BY <1>9, <1>10, <1>11, <1>12 DEF PreparationInv

LEMMA PreparationStep == PreparationInv /\ [Preparing!Next]_preparationVars => PreparationInv'
<1> SUFFICES ASSUME PreparationInv, [Preparing!Next]_preparationVars PROVE PreparationInv'
  OBVIOUS
<1>0. /\ Preparing!TypeOK /\ PreparedSoFar /\ MarkersVouch /\ SelectionVouched
      /\ NoRelease \notin PromotedReleases
  BY PreparationParameters DEF PreparationInv
<1>1. ASSUME NEW r \in PromotedReleases, Preparing!Begin(r)
      PROVE  PreparationInv'
  <2>1. /\ ppPreparing' = [release |-> r, next |-> 1] /\ r \notin ppMarked
        /\ ~ (ppPromoting /\ r = ppCurrent)
        /\ UNCHANGED <<ppModules, ppBuilt, ppMarked, ppChecked, ppCurrent, ppPrevious,
                       ppPromoting, ppKept, ppTrouble>>
    BY <1>1 DEF Preparing!Begin, Preparing!Clean, Preparing!checkouts
  <2>2. Preparing!TypeOK'
    BY <1>0, <2>1, PreparationCommands DEF Preparing!TypeOK
  <2>3. PreparedSoFar'
    <3>1. ppPreparing'.release = r /\ ppPreparing'.next = 1
      BY <2>1
    <3> QED
      BY <1>0, <2>1, <3>1 DEF PreparedSoFar, Preparation, MarkersVouch
  <2> QED
    BY <1>0, <2>1, <2>2, <2>3 DEF PreparationInv, MarkersVouch, SelectionVouched
<1>2. CASE Preparing!Fail
  BY <1>0, <1>2
     DEF Preparing!Fail, Preparing!checkouts, PreparationInv, Preparing!TypeOK, PreparedSoFar,
         Preparation, MarkersVouch, SelectionVouched
<1>3. ASSUME NEW r \in PromotedReleases, Preparing!Select(r)
      PROVE  PreparationInv'
  <2>1. /\ ppCurrent' = r /\ ppPrevious' = ppCurrent /\ ppPromoting' = TRUE
        /\ ~ppPromoting /\ ppPreparing.release # r /\ r \in ppMarked
        /\ UNCHANGED <<ppModules, ppBuilt, ppMarked, ppChecked, ppPreparing, ppKept, ppTrouble>>
    BY <1>3 DEF Preparing!Select, Preparing!Accepts, Preparing!checkouts
  <2>2. Preparing!TypeOK'
    BY <1>0, <2>1 DEF Preparing!TypeOK
  <2>3. PreparedSoFar'
    BY <1>0, <2>1 DEF PreparedSoFar, Preparation
  <2>4. MarkersVouch' /\ SelectionVouched'
    BY <1>0, <2>1 DEF MarkersVouch, SelectionVouched
  <2> QED
    BY <2>2, <2>3, <2>4 DEF PreparationInv
<1>4. CASE Preparing!Promoted
  <2>1. /\ ppPromoting /\ ppModules[ppCurrent] # "none"
        /\ ppPromoting' = FALSE /\ ppPrevious' = NoRelease /\ ppKept' = ppKept \cup {ppCurrent}
        /\ ppTrouble' = FALSE
        /\ UNCHANGED <<ppModules, ppBuilt, ppMarked, ppChecked, ppPreparing, ppCurrent>>
    BY <1>4 DEF Preparing!Promoted, Preparing!checkouts
  <2>2. ppCurrent \in PromotedReleases /\ ppCurrent \in ppMarked
    BY <1>0, <2>1 DEF SelectionVouched, Preparing!TypeOK
  <2>3. Preparing!TypeOK'
    BY <1>0, <2>1, <2>2 DEF Preparing!TypeOK
  <2>4. PreparedSoFar'
    BY <1>0, <2>1 DEF PreparedSoFar, Preparation
  <2>5. MarkersVouch' /\ SelectionVouched'
    BY <1>0, <2>1, <2>2 DEF MarkersVouch, SelectionVouched
  <2> QED
    BY <2>3, <2>4, <2>5 DEF PreparationInv
<1>5. CASE Preparing!NotPromoted
  <2>1. /\ ppCurrent' = ppPrevious /\ ppPromoting' = FALSE /\ ppPrevious' = NoRelease
        /\ UNCHANGED <<ppModules, ppBuilt, ppMarked, ppChecked, ppPreparing, ppKept, ppTrouble>>
    BY <1>5 DEF Preparing!NotPromoted, Preparing!Restored, Preparing!checkouts
  <2>2. Preparing!TypeOK'
    BY <1>0, <2>1 DEF Preparing!TypeOK
  <2>3. PreparedSoFar'
    BY <1>0, <2>1 DEF PreparedSoFar, Preparation
  <2>4. MarkersVouch' /\ SelectionVouched'
    BY <1>0, <2>1 DEF MarkersVouch, SelectionVouched
  <2> QED
    BY <2>2, <2>3, <2>4 DEF PreparationInv
<1>6. CASE Preparing!Aborted
  <2>1. /\ ppPromoting /\ ppCurrent' \in {ppCurrent, ppPrevious}
        /\ ppPromoting' = FALSE /\ ppPrevious' = NoRelease /\ ppTrouble' = TRUE
        /\ UNCHANGED <<ppModules, ppBuilt, ppMarked, ppChecked, ppPreparing, ppKept>>
    BY <1>6 DEF Preparing!Aborted, Preparing!Restored, Preparing!checkouts
  <2>2. Preparing!TypeOK'
    BY <1>0, <2>1 DEF Preparing!TypeOK
  <2>3. PreparedSoFar'
    BY <1>0, <2>1 DEF PreparedSoFar, Preparation
  <2>4. MarkersVouch' /\ SelectionVouched'
    BY <1>0, <2>1 DEF MarkersVouch, SelectionVouched
  <2> QED
    BY <2>2, <2>3, <2>4 DEF PreparationInv
<1>7. CASE UNCHANGED preparationVars
  BY <1>0, <1>7 DEF preparationVars, PreparationInv, Preparing!TypeOK, PreparedSoFar,
                    Preparation, MarkersVouch, SelectionVouched
<1> QED
  BY <1>1, <1>2, <1>3, <1>4, <1>5, <1>6, <1>7, PreparationRuns DEF Preparing!Next

LEMMA PreparationLives == [ServerNext]_serverVars => [Preparing!Next]_preparationVars
BY DEF ServerNext, OthersStill, serverVars, preparationVars

\* The invariant of the release root, in every reachable state of the delivery.
THEOREM PreparationHolds == ServerSpec => []PreparationInv
<1>1. ServerInit => PreparationInv
  BY PreparationInitial DEF ServerInit
<1>2. PreparationInv /\ [ServerNext]_serverVars => PreparationInv'
  BY PreparationStep, PreparationLives
<1> QED
  BY <1>1, <1>2, PTL DEF ServerSpec

\* For any checkouts, whichever preparations fail or are killed before, during or
\* after a promotion, and wherever promotions die: what was promoted stays whole and
\* what serves was checked; it was promoted, until a promotion dies.
THEOREM PreparedAreServed == ServerSpec => []PreparedServes
<1>1. PreparationInv => PreparedServes
  BY DEF PreparationInv, MarkersVouch, SelectionVouched, PreparedServes, Preparing!KeptIsWhole,
         Preparing!ServedIsChecked, Preparing!ServedWasPromoted
<1> QED
  BY <1>1, PreparationHolds, PTL

-----------------------------------------------------------------------------
(* Readiness probes *)

ProbesWaiting == {p \in ProbeCalls : rdProbe[p] \in {"waiting", "up", "down"}}

\* One check at a time is under way, while it is shared; whoever has been given its
\* result was there when it came back, and no one waits when none is under way.
CheckShared ==
  /\ rdPending <=> rdPings # <<>>
  /\ rdPings = <<>> \/ \E s \in {"asked", "up", "down"} : rdPings = <<s>>
  /\ \A p \in ProbeCalls :
       /\ rdProbe[p] = "waiting" => rdPending
       /\ rdProbe[p] \in {"up", "down"} => p \in rdFresh

ProbeInv == Probe!TypeOK /\ Probe!OneCheckFewWaiters /\ CheckShared

LEMMA ProbeSets ==
  \A S : /\ Probe!IsFiniteSet(S) <=> IsFiniteSet(S)
         /\ Probe!Cardinality(S) = Cardinality(S)
BY DEF Probe!IsFiniteSet, IsFiniteSet, Probe!Cardinality, Cardinality

LEMMA ProbeParameters == IsFiniteSet(ProbeCalls) /\ ProbeQueue \in Nat \ {0}
BY ServerAssumption, ProbeSets DEF Probe!ReadinessAssumption

LEMMA ProbesWaitingFinite == IsFiniteSet(ProbesWaiting) /\ Cardinality(ProbesWaiting) \in Nat
<1>1. ProbesWaiting \in SUBSET ProbeCalls
  BY DEF ProbesWaiting
<1> QED
  BY <1>1, ProbeParameters, FS_Subset, FS_CardinalityType

LEMMA ProbeCount ==
  Probe!OneCheckFewWaiters <=>
    Len(rdPings) <= 1 /\ rdWaiters = Cardinality(ProbesWaiting) /\ rdWaiters <= ProbeQueue
BY ProbeSets DEF Probe!OneCheckFewWaiters, ProbesWaiting

LEMMA ProbeCountNext ==
  Probe!OneCheckFewWaiters' <=>
    Len(rdPings') <= 1 /\ rdWaiters' = Cardinality(ProbesWaiting') /\ rdWaiters' <= ProbeQueue
BY ProbeSets DEF Probe!OneCheckFewWaiters, ProbesWaiting

\* A queue of one: its head, and nothing behind it.
LEMMA OneCheck ==
  ASSUME NEW s
  PROVE  /\ <<s>> # <<>> /\ Head(<<s>>) = s /\ Tail(<<s>>) = <<>> /\ Len(<<s>>) = 1
         /\ \A t : <<t>> \o Tail(<<s>>) = <<t>>
         /\ Append(<<>>, s) = <<s>> /\ Len(<<>>) = 0
OBVIOUS

LEMMA AtMostOneCheck ==
  ASSUME NEW pings, NEW S, pings = <<>> \/ \E s \in S : pings = <<s>>
  PROVE  Len(pings) <= 1
<1>1. CASE pings = <<>>
  BY <1>1
<1>2. ASSUME NEW s, pings = <<s>> PROVE Len(pings) <= 1
  BY <1>2
<1> QED
  BY <1>1, <1>2

LEMMA ProbeInitial == Probe!Init => ProbeInv
<1> SUFFICES ASSUME Probe!Init PROVE ProbeInv
  OBVIOUS
<1>1. Probe!TypeOK /\ CheckShared
  BY DEF Probe!Init, Probe!TypeOK, CheckShared
<1>2. ProbesWaiting = {}
  BY DEF Probe!Init, ProbesWaiting
<1>3. Probe!OneCheckFewWaiters
  BY <1>2, FS_EmptySet, ProbeCount, ProbeParameters, OneCheck DEF Probe!Init
<1> QED
  BY <1>1, <1>3 DEF ProbeInv

\* The steps after which the same probes wait.
LEMMA ProbesStill ==
  ASSUME ProbeInv, UNCHANGED rdWaiters, Probe!TypeOK', CheckShared',
         \A p \in ProbeCalls : rdProbe'[p] \in {"waiting", "up", "down"} <=>
                               rdProbe[p] \in {"waiting", "up", "down"}
  PROVE  ProbeInv'
<1>1. ProbesWaiting' = ProbesWaiting
  BY DEF ProbesWaiting
<1>2. Len(rdPings') <= 1
  BY AtMostOneCheck DEF CheckShared
<1> QED
  BY <1>1, <1>2, ProbeCount, ProbeCountNext DEF ProbeInv

LEMMA ProbeArrives ==
  ASSUME ProbeInv, NEW p \in ProbeCalls, Probe!Arrive(p)
  PROVE  ProbeInv'
<1>0. /\ Probe!TypeOK /\ CheckShared /\ ProbeQueue \in Nat
      /\ rdWaiters = Cardinality(ProbesWaiting) /\ rdWaiters \in Nat
  BY ProbeCount, ProbeParameters DEF ProbeInv, Probe!TypeOK
<1>1. \A q \in ProbeCalls : rdProbe'[q] = IF q = p THEN "waiting" ELSE rdProbe[q]
  BY <1>0 DEF Probe!Arrive, Probe!TypeOK
<1>2. Probe!TypeOK'
  BY <1>0 DEF Probe!Arrive, Probe!TypeOK
<1>3. CheckShared'
  <2>1. CASE rdPending
    <3>1. rdPings' = rdPings /\ rdPending' = TRUE
      BY <2>1 DEF Probe!Arrive, Probe!Join
    <3> QED
      BY <1>0, <1>1, <2>1, <3>1 DEF CheckShared, Probe!Arrive
  <2>2. CASE ~ rdPending
    <3>1. rdPings' = <<"asked">> /\ rdPending' = TRUE
      BY <1>0, <2>2, OneCheck DEF Probe!Arrive, Probe!Join, CheckShared
    <3>2. rdPings' # <<>> /\ \E s \in {"asked", "up", "down"} : rdPings' = <<s>>
      BY <3>1, OneCheck
    <3>3. \A q \in ProbeCalls : rdProbe'[q] \in {"up", "down"} => q \in rdFresh'
      BY <1>0, <1>1 DEF CheckShared, Probe!Arrive
    <3> QED
      BY <3>1, <3>2, <3>3 DEF CheckShared
  <2> QED
    BY <2>1, <2>2
<1>4. ProbesWaiting' = ProbesWaiting \cup {p} /\ p \notin ProbesWaiting
  BY <1>1 DEF ProbesWaiting, Probe!Arrive
<1>5. Cardinality(ProbesWaiting') = Cardinality(ProbesWaiting) + 1
  BY <1>4, ProbesWaitingFinite, FS_AddElement
<1>6. rdWaiters' = rdWaiters + 1 /\ rdWaiters < ProbeQueue
  BY <1>0 DEF Probe!Arrive, Probe!Full
<1>7. Len(rdPings') <= 1
  BY <1>3, AtMostOneCheck DEF CheckShared
<1> QED
  BY <1>0, <1>2, <1>3, <1>5, <1>6, <1>7, ProbeCountNext DEF ProbeInv

LEMMA ProbeAnswered ==
  ASSUME ProbeInv, NEW p \in ProbeCalls, Probe!Answer(p)
  PROVE  ProbeInv'
<1>0. /\ Probe!TypeOK /\ CheckShared /\ ProbeQueue \in Nat
      /\ rdWaiters = Cardinality(ProbesWaiting) /\ rdWaiters \in Nat /\ rdWaiters <= ProbeQueue
  BY ProbeCount, ProbeParameters DEF ProbeInv, Probe!TypeOK
<1>1. Probe!AnswerOf(p) \in {"ok", "busy"}
  BY DEF Probe!AnswerOf
<1>2. \A q \in ProbeCalls : rdProbe'[q] = IF q = p THEN Probe!AnswerOf(p) ELSE rdProbe[q]
  BY <1>0 DEF Probe!Answer, Probe!TypeOK
<1>3. ProbesWaiting' = ProbesWaiting \ {p} /\ p \in ProbesWaiting
  BY <1>1, <1>2 DEF ProbesWaiting, Probe!Answer
<1>4. Cardinality(ProbesWaiting') = Cardinality(ProbesWaiting) - 1 /\ Cardinality(ProbesWaiting) # 0
  BY <1>3, ProbesWaitingFinite, FS_RemoveElement, FS_EmptySet
<1>5. rdWaiters' = rdWaiters - 1
  BY DEF Probe!Answer, Probe!Left
<1>6. Probe!TypeOK'
  BY <1>0, <1>1, <1>4, <1>5 DEF Probe!Answer, Probe!TypeOK
<1>7. CheckShared'
  BY <1>0, <1>1, <1>2 DEF CheckShared, Probe!Answer
<1>8. Len(rdPings') <= 1
  BY <1>7, AtMostOneCheck DEF CheckShared
<1> QED
  BY <1>0, <1>4, <1>5, <1>6, <1>7, <1>8, ProbeCountNext DEF ProbeInv

\* Every probe that waits is given the result, so that none is left without a check.
LEMMA ProbesReturn ==
  ASSUME ProbeInv, NEW result \in {"up", "down"}, Probe!Return(result)
  PROVE  ProbeInv'
<1>0. Probe!TypeOK /\ CheckShared
  BY DEF ProbeInv
<1>1. rdPings' = <<>> /\ rdPending' = FALSE
  BY <1>0, OneCheck DEF Probe!Return, CheckShared
<1>2. \A q \in ProbeCalls : rdProbe'[q] = IF rdProbe[q] = "waiting" THEN result ELSE rdProbe[q]
  BY DEF Probe!Return
<1>3. rdFresh' = rdFresh \cup {q \in ProbeCalls : rdProbe[q] = "waiting"}
  BY DEF Probe!Return
<1>4. CheckShared'
  BY <1>0, <1>1, <1>2, <1>3 DEF CheckShared
<1>5. Probe!TypeOK'
  BY <1>0, <1>1, <1>3 DEF Probe!Return, Probe!TypeOK
<1> QED
  BY <1>2, <1>4, <1>5, ProbesStill DEF Probe!Return

LEMMA ProbeStep == ProbeInv /\ [Probe!Next]_probeVars => ProbeInv'
<1> SUFFICES ASSUME ProbeInv, [Probe!Next]_probeVars PROVE ProbeInv'
  OBVIOUS
<1>0. Probe!TypeOK /\ CheckShared
  BY DEF ProbeInv
<1>1. ASSUME NEW p \in ProbeCalls, Probe!Refuse(p)
      PROVE  ProbeInv'
  <2>1. \A q \in ProbeCalls : rdProbe'[q] = IF q = p THEN "busy" ELSE rdProbe[q]
    BY <1>0, <1>1 DEF Probe!Refuse, Probe!TypeOK
  <2>2. Probe!TypeOK' /\ CheckShared'
    BY <1>0, <1>1, <2>1 DEF Probe!Refuse, Probe!TypeOK, CheckShared
  <2> QED
    BY <1>1, <2>1, <2>2, ProbesStill DEF Probe!Refuse
<1>2. CASE Probe!Ping
  <2>1. \E s \in {"up", "down"} : rdPings' = <<s>>
    BY <1>0, <1>2, OneCheck DEF Probe!Ping, CheckShared
  <2>2. rdPings # <<>> /\ rdPings' # <<>>
    BY <1>2, <2>1, OneCheck DEF Probe!Ping
  <2>3. Probe!TypeOK' /\ CheckShared'
    BY <1>0, <1>2, <2>1, <2>2 DEF Probe!Ping, Probe!TypeOK, CheckShared
  <2> QED
    BY <1>2, <2>3, ProbesStill DEF Probe!Ping
<1>3. CASE Probe!Surroundings
  <2>1. Probe!TypeOK' /\ CheckShared'
    BY <1>0, <1>3 DEF Probe!Surroundings, Probe!TypeOK, CheckShared
  <2> QED
    BY <1>3, <2>1, ProbesStill DEF Probe!Surroundings
<1>4. CASE UNCHANGED probeVars
  <2>1. Probe!TypeOK' /\ CheckShared'
    BY <1>0, <1>4 DEF probeVars, Probe!TypeOK, CheckShared
  <2> QED
    BY <1>4, <2>1, ProbesStill DEF probeVars
<1> QED
  BY <1>1, <1>2, <1>3, <1>4, ProbeArrives, ProbeAnswered, ProbesReturn DEF Probe!Next

\* Only an answer makes a probe "ok": of a result it waited for, while there is capacity.
LEMMA ProbeFresh ==
  ASSUME ProbeInv, [Probe!Next]_probeVars, NEW p \in ProbeCalls,
         rdProbe'[p] = "ok", rdProbe[p] # "ok"
  PROVE  p \in rdFresh /\ rdReady
<1>0. Probe!TypeOK /\ CheckShared
  BY DEF ProbeInv
<1>1. ASSUME NEW q \in ProbeCalls, Probe!Answer(q)
      PROVE  p \in rdFresh /\ rdReady
  <2>1. q = p /\ Probe!AnswerOf(p) = "ok"
    BY <1>0, <1>1 DEF Probe!Answer, Probe!TypeOK
  <2> QED
    BY <1>0, <1>1, <2>1 DEF Probe!AnswerOf, Probe!Answer, CheckShared
<1>2. ASSUME NEW q \in ProbeCalls, Probe!Refuse(q) \/ Probe!Arrive(q)
      PROVE  FALSE
  BY <1>0, <1>2 DEF Probe!Refuse, Probe!Arrive, Probe!TypeOK
<1>3. CASE Probe!Return("up") \/ Probe!Return("down")
  BY <1>3 DEF Probe!Return
<1>4. CASE Probe!Ping \/ Probe!Surroundings \/ UNCHANGED probeVars
  BY <1>4 DEF Probe!Ping, Probe!Surroundings, probeVars
<1> QED
  BY <1>1, <1>2, <1>3, <1>4 DEF Probe!Next

LEMMA ProbeLives == [ServerNext]_serverVars => [Probe!Next]_probeVars
BY DEF ServerNext, OthersStill, serverVars, probeVars

\* The invariant of the readiness check, in every reachable state of the server.
THEOREM ProbeHolds == ServerSpec => []ProbeInv
<1>1. ServerInit => ProbeInv
  BY ProbeInitial DEF ServerInit
<1>2. ProbeInv /\ [ServerNext]_serverVars => ProbeInv'
  BY ProbeStep, ProbeLives
<1> QED
  BY <1>1, <1>2, PTL DEF ServerSpec

\* For any probes and any length of their queue: they share one check, few of them
\* wait, and none is told "ok" by a check that was over when it came.
THEOREM ProbesShare == ServerSpec => ProbesShareChecks
<1>1. ProbeInv => Probe!OneCheckFewWaiters
  BY DEF ProbeInv
<1>2. ProbeInv /\ [ServerNext]_serverVars =>
        [\A p \in ProbeCalls : rdProbe'[p] = "ok" /\ rdProbe[p] # "ok" => p \in rdFresh /\ rdReady]_(Probe!vars)
  BY ProbeFresh, ProbeLives
<1> QED
  BY <1>1, <1>2, ProbeHolds, PTL DEF ServerSpec, ProbesShareChecks, Probe!OkIsFresh

-----------------------------------------------------------------------------
(* The quote proxy *)

\* What does not reach the browser as an answer of the Quotes API.
QuoteFailures == {"junk", "other", "error"}

\* The attempts before one over `transport`, and those up to one that settled.
QuoteBefore(transport) ==
  \/ qpTried = <<>> /\ qpSocket = (transport = "socket")
  \/ qpSocket /\ transport = "http" /\ \E r \in QuoteFailures : qpTried = << <<"socket", r>> >>
QuoteAfter(transport, reply) ==
  \/ qpTried = << <<transport, reply>> >> /\ qpSocket = (transport = "socket")
  \/ /\ qpSocket /\ transport = "http"
     /\ \E r \in QuoteFailures : qpTried = << <<"socket", r>>, <<"http", reply>> >>

QuoteUnasked ==
  qpAttempt = "none" =>
    /\ qpTried = <<>> /\ qpResponse \in {"none", "400", "dropped"}
    /\ qpResponse = "400" => ~ QuoteValid(qpQuery)

QuoteAsking ==
  qpAttempt \in {"sent", "reading"} =>
    /\ qpResponse = "none" /\ ~qpAborted
    /\ qpOver \in {"socket", "http"} /\ QuoteBefore(qpOver)

\* A socket that did not help is answered for only when the page has gone.
QuoteSettled ==
  qpAttempt = "over" =>
    /\ qpReply \in Quote!Replies
    /\ qpOver \in {"socket", "http"} /\ QuoteAfter(qpOver, qpReply)
    /\ qpResponse \in {"none", "dropped", Quote!Answered(qpReply)}
    /\ qpResponse # "none" /\ qpOver = "socket" /\ qpReply \notin Quote!Accepted =>
         qpAborted /\ qpResponse = "dropped"

QuoteShape ==
  /\ qpSocket \in BOOLEAN /\ qpAborted \in BOOLEAN
  /\ qpPage \in {"waiting", "left", "shown", "kept"}
  /\ qpAttempt \in {"none", "sent", "reading", "over"}
  /\ qpOver \in {"none", "socket", "http"}
  /\ qpReply \in Quote!Replies \cup {"none"}
  /\ qpAborted => qpAttempt = "over" \/ qpResponse # "none"

\* Whatever was asked over HTTP is what the configured base and the request give.
QuoteSent ==
  /\ qpResponse = "none" \/ qpAttempt # "none" => qpBase \in QuoteBases
  /\ qpSent.path # <<>> => qpBase \in QuoteBases /\ qpSent = Quote!Resolved

QuoteInv == QuoteShape /\ QuoteUnasked /\ QuoteAsking /\ QuoteSettled /\ QuoteSent

LEMMA QuoteSequences ==
  ASSUME NEW a, NEW b
  PROVE  /\ Append(<<>>, a) = <<a>> /\ Append(<<a>>, b) = <<a, b>>
         /\ <<a>> # <<>> /\ Len(<<a>>) = 1 /\ <<a>>[1] = a
         /\ <<a, b>> # <<>> /\ Len(<<a, b>>) = 2 /\ <<a, b>>[1] = a /\ <<a, b>>[2] = b
         /\ Len(<<>>) = 0
<1>1. Append(<<>>, a) = <<a>> /\ Len(<<>>) = 0
  OBVIOUS
<1>2. Append(<<a>>, b) = <<a, b>>
  <2> DEFINE S == {a, b}
  <2>1. <<a>> \in Seq(S) /\ <<a, b>> \in Seq(S) /\ b \in S
    OBVIOUS
  <2>2. /\ Append(<<a>>, b) \in Seq(S) /\ Len(Append(<<a>>, b)) = 2
        /\ \A i \in 1 .. 1 : Append(<<a>>, b)[i] = <<a>>[i]
        /\ Append(<<a>>, b)[2] = b
    BY <2>1, AppendProperties
  <2>3. \A i \in 1 .. 2 : Append(<<a>>, b)[i] = <<a, b>>[i]
    BY <2>2
  <2> QED
    BY <2>1, <2>2, <2>3, SeqEqual
<1>3. <<a>> # <<>> /\ Len(<<a>>) = 1 /\ <<a>>[1] = a
  OBVIOUS
<1>4. <<a, b>> # <<>> /\ Len(<<a, b>>) = 2 /\ <<a, b>>[1] = a /\ <<a, b>>[2] = b
  OBVIOUS
<1> QED
  BY <1>1, <1>2, <1>3, <1>4

\* How a reply is answered.
LEMMA QuoteAnswers ==
  /\ Quote!Answered("400") = "400" /\ Quote!Answered("429") = "429"
  /\ Quote!Answered("usable") = "quotes" /\ Quote!Answered("empty") = "nothing"
  /\ \A r \in QuoteFailures : Quote!Answered(r) = "502"
  /\ Quote!Replies = {"400", "429", "usable", "empty"} \cup QuoteFailures
  /\ Quote!Accepted = {"400", "429", "usable", "empty"}
BY DEF Quote!Answered, Quote!Replies, Quote!Bodies, Quote!Statuses, Quote!Accepted, Quote!Final,
       QuoteFailures

LEMMA QuoteInitial == Quote!Init \/ QuoteAtRest => QuoteInv
<1> SUFFICES ASSUME Quote!Init \/ QuoteAtRest PROVE QuoteInv
  OBVIOUS
<1>1. qpSent.path = <<>>
  BY DEF Quote!Init, QuoteAtRest
<1>2. QuoteShape /\ QuoteUnasked
  BY DEF Quote!Init, QuoteAtRest, QuoteShape, QuoteUnasked
<1>3. QuoteAsking /\ QuoteSettled
  BY DEF Quote!Init, QuoteAtRest, QuoteAsking, QuoteSettled
<1>4. QuoteSent
  BY <1>1 DEF Quote!Init, QuoteAtRest, QuoteSent
<1> QED
  BY <1>2, <1>3, <1>4 DEF QuoteInv

\* What an attempt settles with comes after the attempts before it.
LEMMA QuoteSettles ==
  ASSUME QuoteInv, NEW r \in Quote!Replies, qpAttempt \in {"sent", "reading"}, Quote!Settle(r),
         UNCHANGED <<qpQuery, qpBase, qpSocket, qpPage, qpOver, qpSent, qpResponse>>,
         qpAborted' \in BOOLEAN
  PROVE  QuoteInv'
<1>0. /\ QuoteShape /\ QuoteAsking /\ QuoteSent
      /\ qpResponse = "none" /\ qpOver \in {"socket", "http"} /\ QuoteBefore(qpOver)
  BY DEF QuoteInv, QuoteAsking
<1>1. qpAttempt' = "over" /\ qpReply' = r /\ qpTried' = Append(qpTried, <<qpOver, r>>)
  BY DEF Quote!Settle
<1>2. QuoteAfter(qpOver, qpReply)'
  <2>1. CASE qpTried = <<>> /\ qpSocket = (qpOver = "socket")
    <3>1. qpTried' = << <<qpOver, r>> >>
      BY <1>1, <2>1, QuoteSequences
    <3> QED
      BY <1>1, <2>1, <3>1 DEF QuoteAfter
  <2>2. ASSUME qpSocket, qpOver = "http", NEW s \in QuoteFailures, qpTried = << <<"socket", s>> >>
        PROVE  QuoteAfter(qpOver, qpReply)'
    <3>1. qpTried' = << <<"socket", s>>, <<"http", r>> >>
      BY <1>1, <2>2, QuoteSequences
    <3> QED
      BY <1>1, <2>2, <3>1 DEF QuoteAfter
  <2> QED
    BY <1>0, <2>1, <2>2 DEF QuoteBefore
<1>3. QuoteShape' /\ QuoteUnasked' /\ QuoteAsking'
  BY <1>0, <1>1 DEF QuoteShape, QuoteUnasked, QuoteAsking
<1>4. QuoteSettled'
  BY <1>0, <1>1, <1>2 DEF QuoteSettled
<1>5. QuoteSent'
  BY <1>0, <1>1 DEF QuoteSent, Quote!Resolved
<1> QED
  BY <1>3, <1>4, <1>5 DEF QuoteInv

LEMMA QuoteStep == QuoteInv /\ [Quote!Next]_quoteVars => QuoteInv'
<1> SUFFICES ASSUME QuoteInv, [Quote!Next]_quoteVars PROVE QuoteInv'
  OBVIOUS
<1>0. QuoteShape /\ QuoteUnasked /\ QuoteAsking /\ QuoteSettled /\ QuoteSent
  BY DEF QuoteInv
<1>1. CASE Quote!Handle
  <2>1. /\ qpAttempt = "none" /\ qpResponse = "none" /\ qpBase \in QuoteBases /\ qpTried = <<>>
        /\ ~qpAborted
        /\ UNCHANGED <<qpQuery, qpBase, qpSocket, qpPage, qpAborted, qpTried>>
    BY <1>0, <1>1 DEF Quote!Handle, Quote!given, QuoteSent, QuoteShape, QuoteUnasked
  <2>2. CASE QuoteValid(qpQuery)
    <3>1. /\ qpAttempt' = "sent" /\ qpOver' = (IF qpSocket THEN "socket" ELSE "http")
          /\ qpReply' = "none" /\ qpResponse' = "none"
          /\ qpSent' = (IF qpOver' = "http" THEN Quote!Resolved ELSE qpSent)
      BY <1>1, <2>1, <2>2 DEF Quote!Handle, Quote!Try
    <3>2. QuoteShape'
      BY <1>0, <2>1, <3>1 DEF QuoteShape
    <3>3. QuoteUnasked' /\ QuoteSettled'
      BY <3>1 DEF QuoteUnasked, QuoteSettled
    <3>4. QuoteAsking'
      BY <1>0, <2>1, <3>1 DEF QuoteAsking, QuoteBefore, QuoteShape
    <3>5. Quote!Resolved' = Quote!Resolved
      BY <2>1 DEF Quote!Resolved
    <3>6. QuoteSent'
      BY <1>0, <2>1, <3>1, <3>5 DEF QuoteSent
    <3> QED
      BY <3>2, <3>3, <3>4, <3>6 DEF QuoteInv
  <2>3. CASE ~ QuoteValid(qpQuery)
    <3>1. qpResponse' = "400" /\ UNCHANGED <<qpAttempt, qpOver, qpReply, qpSent>>
      BY <1>1, <2>3 DEF Quote!Handle
    <3>2. Quote!Resolved' = Quote!Resolved
      BY <2>1 DEF Quote!Resolved
    <3> QED
      BY <1>0, <2>1, <2>3, <3>1, <3>2
         DEF QuoteInv, QuoteShape, QuoteUnasked, QuoteAsking, QuoteSettled, QuoteSent
  <2> QED
    BY <2>2, <2>3
<1>2. CASE Quote!Headers
  <2>1. qpAttempt = "sent" /\ UNCHANGED <<qpQuery, qpBase, qpSocket, qpPage, qpAborted, qpOver,
                                          qpSent, qpResponse>>
    BY <1>2 DEF Quote!Headers, Quote!given
  <2>2. CASE qpAttempt' = "reading" /\ UNCHANGED <<qpReply, qpTried>>
    <3>1. Quote!Resolved' = Quote!Resolved
      BY <2>1 DEF Quote!Resolved
    <3> QED
      BY <1>0, <2>1, <2>2, <3>1
         DEF QuoteInv, QuoteShape, QuoteUnasked, QuoteAsking, QuoteSettled, QuoteSent, QuoteBefore
  <2>3. ASSUME NEW s \in Quote!Statuses, Quote!Settle(s)
        PROVE  QuoteInv'
    <3>1. s \in Quote!Replies
      BY DEF Quote!Replies
    <3> QED
      BY <1>0, <2>1, <2>3, <3>1, QuoteSettles DEF QuoteShape
  <2> QED
    BY <1>2, <2>2, <2>3 DEF Quote!Headers
<1>3. ASSUME NEW b \in Quote!Bodies, Quote!Body, Quote!Settle(b)
      PROVE  QuoteInv'
  <2>1. b \in Quote!Replies
    BY DEF Quote!Replies
  <2> QED
    BY <1>0, <1>3, <2>1, QuoteSettles DEF QuoteShape, Quote!Body, Quote!given
<1>4. CASE Quote!Fail \/ Quote!TimeOut
  <2>1. "error" \in Quote!Replies
    BY DEF Quote!Replies
  <2> QED
    BY <1>0, <1>4, <2>1, QuoteSettles
       DEF QuoteShape, Quote!Fail, Quote!TimeOut, Quote!UnderDeadline, Quote!given
<1>5. CASE Quote!FallBack
  <2>1. /\ qpAttempt = "over" /\ qpOver = "socket" /\ qpReply \notin Quote!Accepted /\ ~qpAborted
        /\ qpAttempt' = "sent" /\ qpOver' = "http" /\ qpReply' = "none" /\ qpSent' = Quote!Resolved
        /\ UNCHANGED <<qpQuery, qpBase, qpSocket, qpPage, qpAborted, qpTried, qpResponse>>
    BY <1>5 DEF Quote!FallBack, Quote!Try, Quote!GoesOn, Quote!given
  <2>2. qpResponse = "none"
    BY <1>0, <2>1 DEF QuoteSettled
  <2>3. QuoteBefore(qpOver)'
    <3>1. qpReply \in QuoteFailures /\ qpTried = << <<"socket", qpReply>> >> /\ qpSocket
      BY <1>0, <2>1, QuoteAnswers DEF QuoteSettled, QuoteAfter, QuoteShape
    <3> QED
      BY <2>1, <3>1 DEF QuoteBefore
  <2>4. QuoteShape' /\ QuoteUnasked' /\ QuoteAsking' /\ QuoteSettled'
    BY <1>0, <2>1, <2>2, <2>3 DEF QuoteShape, QuoteUnasked, QuoteAsking, QuoteSettled
  <2>5. Quote!Resolved' = Quote!Resolved
    BY <2>1 DEF Quote!Resolved
  <2>6. QuoteSent'
    BY <1>0, <2>1, <2>5 DEF QuoteSent
  <2> QED
    BY <2>4, <2>6 DEF QuoteInv
<1>6. CASE Quote!Answer
  <2>1. /\ qpAttempt = "over" /\ qpResponse = "none"
        /\ qpOver = "socket" /\ qpReply \notin Quote!Accepted => qpAborted
        /\ qpResponse' = IF qpAborted THEN "dropped" ELSE Quote!Answered(qpReply)
        /\ UNCHANGED <<qpQuery, qpBase, qpSocket, qpPage, qpAborted, qpAttempt, qpOver, qpReply,
                       qpTried, qpSent>>
    BY <1>6 DEF Quote!Answer, Quote!GoesOn, Quote!given, Quote!upstream
  <2>2. Quote!Answered(qpReply)' = Quote!Answered(qpReply)
    BY <2>1
  <2>3. QuoteSettled'
    BY <1>0, <2>1, <2>2 DEF QuoteSettled, QuoteAfter
  <2>4. Quote!Resolved' = Quote!Resolved
    BY <2>1 DEF Quote!Resolved
  <2>5. QuoteShape' /\ QuoteUnasked' /\ QuoteAsking' /\ QuoteSent'
    BY <1>0, <2>1, <2>4 DEF QuoteShape, QuoteUnasked, QuoteAsking, QuoteSent
  <2> QED
    BY <2>3, <2>5 DEF QuoteInv
<1>7. CASE Quote!Leave \/ Quote!Show \/ UNCHANGED quoteVars
  <2>1. /\ qpPage' \in {"waiting", "left", "shown", "kept"}
        /\ UNCHANGED <<qpQuery, qpBase, qpSocket, qpAborted, qpAttempt, qpOver, qpReply, qpTried,
                       qpSent, qpResponse>>
    BY <1>0, <1>7 DEF Quote!Leave, Quote!Show, quoteVars, Quote!given, Quote!upstream, QuoteShape
  <2>2. Quote!Resolved' = Quote!Resolved
    BY <2>1 DEF Quote!Resolved
  <2>3. QuoteShape' /\ QuoteUnasked' /\ QuoteAsking' /\ QuoteSent'
    BY <1>0, <2>1, <2>2 DEF QuoteShape, QuoteUnasked, QuoteAsking, QuoteSent, QuoteBefore
  <2>4. QuoteSettled'
    BY <1>0, <2>1 DEF QuoteSettled, QuoteAfter
  <2> QED
    BY <2>3, <2>4 DEF QuoteInv
<1>8. CASE Quote!Close
  <2>1. /\ qpAttempt # "none" /\ qpResponse = "none" /\ qpAborted' = TRUE
        /\ UNCHANGED <<qpQuery, qpBase, qpSocket, qpPage, qpOver, qpSent, qpResponse>>
    BY <1>8 DEF Quote!Close, Quote!given
  <2>2. CASE qpAttempt \in {"sent", "reading"}
    <3>1. Quote!Settle("error") /\ "error" \in Quote!Replies
      BY <1>8, <2>2 DEF Quote!Close, Quote!Replies
    <3> QED
      BY <2>1, <2>2, <3>1, QuoteSettles
  <2>3. CASE qpAttempt \notin {"sent", "reading"}
    <3>1. UNCHANGED <<qpAttempt, qpReply, qpTried>> /\ qpAttempt = "over"
      BY <1>0, <1>8, <2>1, <2>3 DEF Quote!Close, QuoteShape
    <3>2. Quote!Resolved' = Quote!Resolved
      BY <2>1 DEF Quote!Resolved
    <3>3. QuoteShape' /\ QuoteUnasked' /\ QuoteAsking' /\ QuoteSent'
      BY <1>0, <2>1, <3>1, <3>2 DEF QuoteShape, QuoteUnasked, QuoteAsking, QuoteSent
    <3>4. QuoteSettled'
      BY <1>0, <2>1, <3>1 DEF QuoteSettled, QuoteAfter
    <3> QED
      BY <3>3, <3>4 DEF QuoteInv
  <2> QED
    BY <2>2, <2>3
<1> QED
  BY <1>1, <1>2, <1>3, <1>4, <1>5, <1>6, <1>7, <1>8 DEF Quote!Next, Quote!Body

\* The last attempt and what came before it, as RightAnswer reads them.
LEMMA QuoteLast ==
  ASSUME QuoteInv, qpAttempt = "over"
  PROVE  /\ Quote!Last(qpTried) = <<qpOver, qpReply>> /\ qpTried # <<>>
         /\ Len(qpTried) = 1 \/ Len(qpTried) = 2
         /\ qpTried[Len(qpTried)][1] = qpOver /\ qpTried[Len(qpTried)][2] = qpReply
         /\ Len(qpTried) = 2 =>
              /\ qpTried[1][1] = "socket" /\ qpTried[2][1] = "http"
              /\ qpTried[1][2] \in QuoteFailures /\ qpOver = "http" /\ qpSocket
         /\ Len(qpTried) = 1 => qpSocket = (qpOver = "socket")
<1>1. QuoteAfter(qpOver, qpReply)
  BY DEF QuoteInv, QuoteSettled
<1>2. CASE qpTried = << <<qpOver, qpReply>> >> /\ qpSocket = (qpOver = "socket")
  BY <1>2, QuoteSequences DEF Quote!Last
<1>3. ASSUME qpSocket, qpOver = "http", NEW r \in QuoteFailures,
             qpTried = << <<"socket", r>>, <<"http", qpReply>> >>
      PROVE  /\ Len(qpTried) = 2 /\ Quote!Last(qpTried) = <<"http", qpReply>> /\ qpTried # <<>>
             /\ qpTried[1] = <<"socket", r>> /\ qpTried[2] = <<"http", qpReply>>
  BY <1>3, QuoteSequences DEF Quote!Last
<1>4. CASE qpSocket /\ qpOver = "http"
           /\ \E r \in QuoteFailures : qpTried = << <<"socket", r>>, <<"http", qpReply>> >>
  <2>1. PICK r \in QuoteFailures : qpTried = << <<"socket", r>>, <<"http", qpReply>> >>
    BY <1>4
  <2>2. /\ Len(qpTried) = 2 /\ Quote!Last(qpTried) = <<"http", qpReply>> /\ qpTried # <<>>
        /\ qpTried[1] = <<"socket", r>> /\ qpTried[2] = <<"http", qpReply>>
    BY <1>3, <1>4, <2>1
  <2>3. qpTried[1][1] = "socket" /\ qpTried[1][2] = r /\ qpTried[2][1] = "http"
        /\ qpTried[2][2] = qpReply
    BY <2>2
  <2> QED
    BY <1>4, <2>2, <2>3
<1> QED
  BY <1>1, <1>2, <1>4 DEF QuoteAfter

LEMMA QuoteUntried ==
  ASSUME QuoteInv, qpAttempt = "none"
  PROVE  qpTried = <<>> /\ Len(qpTried) = 0
BY QuoteSequences DEF QuoteInv, QuoteUnasked

LEMMA QuoteTryingAgain ==
  ASSUME QuoteInv, qpAttempt \in {"sent", "reading"}
  PROVE  Len(qpTried) = 0 \/ Len(qpTried) = 1
BY QuoteSequences DEF QuoteInv, QuoteAsking, QuoteBefore

LEMMA QuoteRight == QuoteInv => Quote!RightAnswer
<1> SUFFICES ASSUME QuoteInv PROVE Quote!RightAnswer
  OBVIOUS
<1>0. QuoteShape /\ QuoteUnasked /\ QuoteAsking /\ QuoteSettled
  BY DEF QuoteInv
<1>1. CASE qpAttempt = "over"
  <2> DEFINE n == Len(qpTried)
  <2>1. /\ Quote!Last(qpTried) = <<qpOver, qpReply>> /\ qpTried # <<>> /\ n \in {1, 2}
        /\ qpTried[n][1] = qpOver /\ qpTried[n][2] = qpReply
        /\ n = 2 =>
             /\ qpTried[1][1] = "socket" /\ qpTried[2][1] = "http"
             /\ qpTried[1][2] \in QuoteFailures /\ qpOver = "http" /\ qpSocket
        /\ n = 1 => qpSocket = (qpOver = "socket")
    BY <1>1, QuoteLast
  <2>2. \A i \in 1 .. n - 1 :
          /\ qpTried[i][1] = "socket" /\ qpTried[i + 1][1] = "http"
          /\ qpTried[i][2] \in {"junk", "other", "error"}
    BY <2>1 DEF QuoteFailures
  <2>3. /\ qpReply \in {"400", "429", "usable", "empty"} \cup QuoteFailures
        /\ qpResponse \in {"none", "dropped", Quote!Answered(qpReply)}
        /\ qpOver \in {"socket", "http"}
    BY <1>0, <1>1, QuoteAnswers DEF QuoteSettled
  <2>4. /\ qpResponse = "quotes" => qpReply = "usable"
        /\ qpResponse = "nothing" => qpReply = "empty"
        /\ qpResponse = "429" => qpReply = "429"
        /\ qpResponse = "400" => qpReply = "400"
        /\ qpResponse = "502" => qpReply \in QuoteFailures
    BY <2>3, QuoteAnswers
  <2>5. qpResponse = "502" => qpOver = "http"
    BY <1>0, <1>1, <2>3, <2>4, QuoteAnswers DEF QuoteSettled, QuoteFailures
  <2>6. qpResponse = "502" =>
          /\ \A i \in 1 .. n : qpTried[i][2] \in {"junk", "other", "error"}
          /\ n = (IF qpSocket THEN 2 ELSE 1)
    <3> SUFFICES ASSUME qpResponse = "502"
                 PROVE  /\ \A i \in 1 .. n : qpTried[i][2] \in {"junk", "other", "error"}
                        /\ n = (IF qpSocket THEN 2 ELSE 1)
      OBVIOUS
    <3>1. qpTried[n][2] \in {"junk", "other", "error"}
      BY <2>1, <2>4 DEF QuoteFailures
    <3>2. CASE n = 1
      <4>1. \A i \in 1 .. n : i = n
        BY <3>2
      <4> QED
        BY <2>1, <2>5, <3>1, <3>2, <4>1
    <3>3. CASE n = 2
      BY <2>1, <3>1, <3>3 DEF QuoteFailures
    <3> QED
      BY <2>1, <3>2, <3>3
  <2> HIDE DEF n
  <2>7. <<qpOver, qpReply>>[1] = qpOver /\ <<qpOver, qpReply>>[2] = qpReply
    OBVIOUS
  <2> QED
    BY <2>1, <2>2, <2>4, <2>5, <2>6, <2>7 DEF Quote!RightAnswer, n
<1>2. CASE qpAttempt = "none"
  <2>1. qpTried = <<>> /\ Len(qpTried) = 0
    BY <1>2, QuoteUntried
  <2>2. /\ qpResponse \in {"none", "400", "dropped"}
        /\ qpResponse = "400" => ~ QuoteValid(qpQuery)
    BY <1>0, <1>2 DEF QuoteUnasked
  <2> QED
    BY <2>1, <2>2 DEF Quote!RightAnswer
<1>3. CASE qpAttempt \in {"sent", "reading"}
  <2>1. qpResponse = "none" /\ Len(qpTried) \in {0, 1}
    BY <1>0, <1>3, QuoteTryingAgain DEF QuoteAsking
  <2>2. \A n \in {0, 1} : \A i \in 1 .. n - 1 : FALSE
    OBVIOUS
  <2> QED
    BY <2>1, <2>2 DEF Quote!RightAnswer
<1> QED
  BY <1>0, <1>1, <1>2, <1>3 DEF QuoteShape

\* Nothing settles once the connection was seen to close, nothing is begun.
LEMMA QuoteLeaves ==
  ASSUME QuoteInv, [Quote!Next]_quoteVars
  PROVE  /\ qpAborted => Len(qpTried') = Len(qpTried) /\ qpAttempt' = qpAttempt
         /\ qpPage = "left" => qpPage' = "left"
<1>0. QuoteShape /\ QuoteAsking /\ (qpAborted => qpAttempt \notin {"sent", "reading"})
  BY DEF QuoteInv, QuoteAsking
<1>1. CASE Quote!Handle
  BY <1>0, <1>1 DEF Quote!Handle, QuoteShape
<1>2. CASE Quote!Headers \/ Quote!Body \/ Quote!Fail \/ Quote!TimeOut
  BY <1>0, <1>2 DEF Quote!Headers, Quote!Body, Quote!Fail, Quote!TimeOut, Quote!UnderDeadline
<1>3. CASE Quote!FallBack \/ Quote!Answer \/ Quote!Leave \/ Quote!Close
  BY <1>0, <1>3
     DEF Quote!FallBack, Quote!GoesOn, Quote!Answer, Quote!Leave, Quote!Close, Quote!upstream
<1>4. CASE Quote!Show \/ UNCHANGED quoteVars
  BY <1>4 DEF Quote!Show, Quote!StillOpen, Quote!upstream, quoteVars
<1> QED
  BY <1>1, <1>2, <1>3, <1>4 DEF Quote!Next

-----------------------------------------------------------------------------
(* The URL that is asked *)

LEMMA ReverseFacts ==
  ASSUME NEW S, NEW p \in Seq(S)
  PROVE  /\ Quote!Reverse(p) \in Seq(S) /\ Len(Quote!Reverse(p)) = Len(p)
         /\ \A i \in 1 .. Len(p) : Quote!Reverse(p)[i] = p[(Len(p) - i) + 1]
<1> DEFINE n == Len(p)
           r == [i \in 1 .. n |-> p[(n - i) + 1]]
<1>1. n \in Nat /\ \A i \in 1 .. n : (n - i) + 1 \in 1 .. n /\ p[(n - i) + 1] \in S
  <2>1. n \in Nat /\ \A i \in 1 .. n : p[i] \in S
    BY LenProperties, ElementOfSeq
  <2>2. \A i \in 1 .. n : (n - i) + 1 \in 1 .. n
    BY <2>1
  <2> QED
    BY <2>1, <2>2
<1>2. r \in [1 .. n -> S]
  BY <1>1
<1>3. r \in Seq(S) /\ Len(r) = n
  BY <1>1, <1>2, SeqDef, LenProperties
<1> QED
  BY <1>3 DEF Quote!Reverse

LEMMA PrefixFacts ==
  ASSUME NEW S, NEW s \in Seq(S), NEW t \in Seq(S)
  PROVE  Quote!IsPrefix(s, t) <=> Len(s) <= Len(t) /\ \A i \in 1 .. Len(s) : s[i] = t[i]
<1> DEFINE n == Len(s)
<1>0. n \in Nat /\ Len(t) \in Nat
  BY LenProperties
<1>1. ASSUME n <= Len(t)
      PROVE  SubSeq(s, 1, n) = SubSeq(t, 1, n) <=> \A i \in 1 .. n : s[i] = t[i]
  <2>1. /\ SubSeq(s, 1, n) \in Seq(S) /\ Len(SubSeq(s, 1, n)) = n
        /\ \A i \in 1 .. n : SubSeq(s, 1, n)[i] = s[i]
    BY <1>0, SubSeqProperties
  <2>2. /\ SubSeq(t, 1, n) \in Seq(S) /\ Len(SubSeq(t, 1, n)) = n
        /\ \A i \in 1 .. n : SubSeq(t, 1, n)[i] = t[i]
    BY <1>0, <1>1, SubSeqProperties
  <2> HIDE DEF n
  <2>3. (\A i \in 1 .. n : SubSeq(s, 1, n)[i] = SubSeq(t, 1, n)[i]) =>
          SubSeq(s, 1, n) = SubSeq(t, 1, n)
    BY <2>1, <2>2, SeqEqual
  <2> QED
    BY <2>1, <2>2, <2>3
<1> QED
  BY <1>1 DEF Quote!IsPrefix

\* s and t agree at the i-th place from the end, for as long as s is.
EndAlike(s, t) ==
  Len(s) <= Len(t) /\ \A i \in 1 .. Len(s) : s[(Len(s) - i) + 1] = t[(Len(t) - i) + 1]

LEMMA SuffixFacts ==
  ASSUME NEW S, NEW s \in Seq(S), NEW t \in Seq(S)
  PROVE  Quote!IsSuffix(s, t) <=> EndAlike(s, t)
<1>1. /\ Quote!Reverse(s) \in Seq(S) /\ Len(Quote!Reverse(s)) = Len(s)
      /\ \A i \in 1 .. Len(s) : Quote!Reverse(s)[i] = s[(Len(s) - i) + 1]
  BY ReverseFacts
<1>2. /\ Quote!Reverse(t) \in Seq(S) /\ Len(Quote!Reverse(t)) = Len(t)
      /\ \A i \in 1 .. Len(t) : Quote!Reverse(t)[i] = t[(Len(t) - i) + 1]
  BY ReverseFacts
<1>3. Quote!IsSuffix(s, t) <=>
        Len(s) <= Len(t) /\ \A i \in 1 .. Len(s) : Quote!Reverse(s)[i] = Quote!Reverse(t)[i]
  BY <1>1, <1>2, PrefixFacts DEF Quote!IsSuffix
<1>4. Len(s) \in Nat /\ Len(t) \in Nat
  BY LenProperties
<1>5. ASSUME Len(s) <= Len(t), NEW i \in 1 .. Len(s)
      PROVE  /\ Quote!Reverse(s)[i] = s[(Len(s) - i) + 1]
             /\ Quote!Reverse(t)[i] = t[(Len(t) - i) + 1]
  <2>1. i \in 1 .. Len(t)
    BY <1>4, <1>5
  <2> QED
    BY <1>1, <1>2, <2>1
<1> QED
  BY <1>3, <1>5 DEF EndAlike

\* The collection is asked, whether the base names it or the API it belongs to.
LEMMA QuoteJoined ==
  ASSUME NEW S, "quotes" \in S, NEW path \in Seq(S),
         ~ Quote!IsSuffix(<<"quotes", "quotes">>, path)
  PROVE  /\ Quote!IsSuffix(<<"quotes">>, Quote!Joined(path))
         /\ ~ Quote!IsSuffix(<<"quotes", "quotes">>, Quote!Joined(path))
         /\ Quote!IsPrefix(path, Quote!Joined(path))
<1> DEFINE one == <<"quotes">>
           two == <<"quotes", "quotes">>
           n == Len(path)
           long == path \o one
<1>1. /\ one \in Seq(S) /\ Len(one) = 1 /\ one[1] = "quotes"
      /\ two \in Seq(S) /\ Len(two) = 2 /\ two[1] = "quotes" /\ two[2] = "quotes"
  <2>1. one \in Seq(S) /\ two \in Seq(S)
    OBVIOUS
  <2>2. Len(one) = 1 /\ one[1] = "quotes"
    OBVIOUS
  <2>3. Len(two) = 2 /\ two[1] = "quotes" /\ two[2] = "quotes"
    OBVIOUS
  <2> QED
    BY <2>1, <2>2, <2>3
<1>2. n \in Nat
  BY LenProperties
<1> HIDE DEF one, two
<1>3. \A p \in Seq(S) : Quote!IsSuffix(one, p) <=> Len(p) >= 1 /\ p[Len(p)] = "quotes"
  <2> TAKE p \in Seq(S)
  <2>1. Len(p) \in Nat
    BY LenProperties
  <2>2. Quote!IsSuffix(one, p) <=> EndAlike(one, p)
    BY <1>1, SuffixFacts
  <2>3. EndAlike(one, p) <=> Len(p) >= 1 /\ p[Len(p)] = "quotes"
    BY <1>1, <2>1 DEF EndAlike
  <2> QED
    BY <2>2, <2>3
<1>4. \A p \in Seq(S) : Quote!IsSuffix(two, p) =>
        Len(p) >= 2 /\ p[Len(p) - 1] = "quotes"
  <2> TAKE p \in Seq(S)
  <2>1. Len(p) \in Nat
    BY LenProperties
  <2>2. Quote!IsSuffix(two, p) <=> EndAlike(two, p)
    BY <1>1, SuffixFacts
  <2>3. 2 \in 1 .. 2 /\ (2 - 2) + 1 = 1 /\ (Len(p) - 2) + 1 = Len(p) - 1
    BY <2>1
  <2>4. EndAlike(two, p) => Len(p) >= 2 /\ p[Len(p) - 1] = "quotes"
    BY <1>1, <2>1, <2>3 DEF EndAlike
  <2> QED
    BY <2>2, <2>4
<1>5. CASE Quote!IsSuffix(one, path)
  <2>1. Quote!Joined(path) = path
    BY <1>5 DEF Quote!Joined, one
  <2>2. Quote!IsPrefix(path, path)
    BY <1>2, PrefixFacts
  <2> QED
    BY <1>5, <2>1, <2>2 DEF one
<1>6. CASE ~ Quote!IsSuffix(one, path)
  <2>1. Quote!Joined(path) = long
    BY <1>6 DEF Quote!Joined, one
  <2>2. /\ long \in Seq(S) /\ Len(long) = n + 1 /\ long[n + 1] = "quotes"
        /\ \A i \in 1 .. n : long[i] = path[i]
    <3>1. /\ long \in Seq(S) /\ Len(long) = n + Len(one)
          /\ \A i \in 1 .. n + Len(one) : long[i] = IF i <= n THEN path[i] ELSE one[i - n]
      BY <1>1, ConcatProperties
    <3> QED
      BY <1>1, <1>2, <3>1
  <2> HIDE DEF long
  <2>3. Quote!IsSuffix(one, long)
    BY <1>2, <1>3, <2>2
  <2>4. ~ Quote!IsSuffix(two, long)
    <3> SUFFICES ASSUME Quote!IsSuffix(two, long) PROVE FALSE
      OBVIOUS
    <3>1. n >= 1 /\ long[n] = "quotes"
      BY <1>2, <1>4, <2>2
    <3>2. path[n] = "quotes"
      BY <1>2, <2>2, <3>1
    <3> QED
      BY <1>2, <1>3, <1>6, <3>1, <3>2
  <2>5. Quote!IsPrefix(path, long)
    BY <1>2, <2>2, PrefixFacts
  <2> QED
    BY <2>1, <2>3, <2>4, <2>5 DEF one, two
<1> QED
  BY <1>5, <1>6

\* A configured base names the API or its collection, as README.md:45-46 says.
QuoteBasesNamed == \A b \in QuoteBases : ~ Quote!IsSuffix(<<"quotes", "quotes">>, b.path)

LEMMA QuoteSentRight == ASSUME QuoteInv, QuoteBasesNamed PROVE Quote!SentRight
<1> SUFFICES ASSUME qpSent.path # <<>> PROVE Quote!SentRight
  BY DEF Quote!SentRight
<1>1. qpBase \in QuoteBases /\ qpSent = Quote!Resolved
  BY DEF QuoteInv, QuoteSent
<1>2. qpBase.path \in Seq(STRING) /\ ~ Quote!IsSuffix(<<"quotes", "quotes">>, qpBase.path)
  BY <1>1, ServerAssumption DEF QuoteBasesNamed, Quote!QuoteAssumption
<1>3. qpSent.path = Quote!Joined(qpBase.path)
  BY <1>1 DEF Quote!Resolved
<1>4. \A k \in DOMAIN qpQuery : qpSent.filters[k] = qpQuery[k]
  BY <1>1 DEF Quote!Resolved
<1> DEFINE S == STRING \cup {"quotes"}
<1>5. qpBase.path \in Seq(S) /\ "quotes" \in S
  BY <1>2
<1>6. /\ Quote!IsSuffix(<<"quotes">>, qpSent.path)
      /\ ~ Quote!IsSuffix(<<"quotes", "quotes">>, qpSent.path)
      /\ Quote!IsPrefix(qpBase.path, qpSent.path)
  BY <1>2, <1>3, <1>5, QuoteJoined
<1> QED
  BY <1>4, <1>6 DEF Quote!SentRight

LEMMA QuoteLives == [ServerNext]_serverVars => [Quote!Next]_quoteVars
BY DEF ServerNext, OthersStill, serverVars, quoteVars

\* The invariant of the quote proxy, in every reachable state of the server.
THEOREM QuoteHolds == ServerSpec => []QuoteInv
<1>1. ServerInit => QuoteInv
  BY QuoteInitial DEF ServerInit
<1>2. QuoteInv /\ [ServerNext]_serverVars => QuoteInv'
  BY QuoteStep, QuoteLives
<1> QED
  BY <1>1, <1>2, PTL DEF ServerSpec

\* For any requests and any bases that name the API or its collection: the collection
\* is asked with each filter once, each answer is what its attempts have earned, and
\* nothing is done for a page that has left.
THEOREM QuotesAreServed == ASSUME QuoteBasesNamed PROVE ServerSpec => QuotesServed
<1>1. QuoteInv => Quote!RightAnswer /\ Quote!SentRight
  BY QuoteRight, QuoteSentRight
<1>2. QuoteInv /\ [ServerNext]_serverVars =>
        [/\ qpAborted => Len(qpTried') = Len(qpTried) /\ qpAttempt' = qpAttempt
         /\ qpPage = "left" => qpPage' = "left"]_(Quote!vars)
  BY QuoteLeaves, QuoteLives
<1> QED
  BY <1>1, <1>2, QuoteHolds, PTL DEF ServerSpec, QuotesServed, Quote!LeftAlone

-----------------------------------------------------------------------------
(* The service log *)

\* The bytes of the records that queue q holds for each stream, as Log!HandedOver.
BytesOf(q) ==
  UNION {UNION {{<<s, i, b>> : b \in 1 .. q[s][i]} : i \in 1 .. Len(q[s])} : s \in LogStreams}

\* The bytes of one record, the i-th of stream s.
RecordBytes(s, i, n) == {<<s, i, b>> : b \in 1 .. n}

\* Queue q holds an i-th record for stream s.
Queues(q, s, i) == s \in LogStreams /\ i \in 1 .. Len(q[s])

\* The room that the records still owed would take, each as long as one may be.
LogReserve == lgPending + (lgOwed + lgOthers) * RecordSize

\* Admission left room for every record owed, whatever the streams do.
LogRoom == LogReserve <= QueueUpTo

LogInv ==
  /\ Log!TypeOK
  /\ IsFiniteSet(BytesOf(lgQueued)) /\ lgPending = Cardinality(BytesOf(lgQueued))
  /\ LogRoom
  /\ Log!HeadroomSuffices

LEMMA LogSets ==
  \A S : Log!Cardinality(S) = Cardinality(S)
BY DEF Log!Cardinality, Cardinality, Log!IsFiniteSet, IsFiniteSet

LEMMA LogParameters ==
  /\ LogAdmitted \in Nat /\ RecordsPerRequest \in Nat /\ OtherRecords \in Nat
  /\ RecordSize \in Nat /\ ReadyBelow \in Nat /\ QueueUpTo \in Nat
  /\ ReadyBelow + (LogAdmitted * RecordsPerRequest + OtherRecords) * RecordSize <= QueueUpTo
BY ServerAssumption DEF Log!LogAssumption

LEMMA ProductNatural == ASSUME NEW a \in Nat, NEW m \in Nat PROVE a * m \in Nat
OBVIOUS

\* Multiplying keeps the order, and one more adds the factor once.
LEMMA Monotonous ==
  ASSUME NEW a \in Nat, NEW b \in Nat, NEW m \in Nat, a <= b PROVE a * m <= b * m
<1>1. PICK d \in Nat : b = a + d
  <2>1. b - a \in Nat /\ b = a + (b - a)
    OBVIOUS
  <2> QED
    BY <2>1
<1>2. (a + d) * m = a * m + d * m /\ a * m \in Nat /\ d * m \in Nat
  OBVIOUS
<1> QED
  BY <1>1, <1>2

LEMMA OneMore == ASSUME NEW a \in Nat, NEW m \in Nat PROVE (a + 1) * m = a * m + m
OBVIOUS

LEMMA BytesMember ==
  ASSUME NEW q, NEW x
  PROVE  x \in BytesOf(q) <=>
           \E s, i : Queues(q, s, i) /\ x \in RecordBytes(s, i, q[s][i])
BY DEF BytesOf, RecordBytes, Queues

\* A record of n bytes has n of them.
LEMMA RecordBytesCounted ==
  ASSUME NEW s, NEW i, NEW n \in Nat
  PROVE  IsFiniteSet(RecordBytes(s, i, n)) /\ Cardinality(RecordBytes(s, i, n)) = n
<1> DEFINE f == [b \in 1 .. n |-> <<s, i, b>>]
<1>1. f \in [1 .. n -> RecordBytes(s, i, n)]
  BY DEF RecordBytes
<1>2. \A a, b \in 1 .. n : f[a] = f[b] => a = b
  OBVIOUS
<1>3. \A x \in RecordBytes(s, i, n) : \E b \in 1 .. n : f[b] = x
  BY DEF RecordBytes
<1>4. f \in Bijection(1 .. n, RecordBytes(s, i, n))
  <2> HIDE DEF f
  <2> QED
    BY <1>1, <1>2, <1>3 DEF Bijection, Injection, Surjection, IsInjective
<1>5. IsFiniteSet(1 .. n) /\ Cardinality(1 .. n) = n
  BY FS_Interval
<1> QED
  BY <1>4, <1>5, FS_Bijection DEF ExistsBijection

\* A record handed to a stream adds its bytes, none of which was there.
LEMMA BytesJoin ==
  ASSUME NEW q \in [LogStreams -> Seq(Nat)], NEW s \in LogStreams, NEW n \in Nat,
         IsFiniteSet(BytesOf(q))
  PROVE  LET r == [q EXCEPT ![s] = Append(@, n)] IN
         IsFiniteSet(BytesOf(r)) /\ Cardinality(BytesOf(r)) = Cardinality(BytesOf(q)) + n
<1> DEFINE r == [q EXCEPT ![s] = Append(@, n)]
           new == RecordBytes(s, Len(q[s]) + 1, n)
<1>0. q[s] \in Seq(Nat) /\ Len(q[s]) \in Nat
  BY LenProperties DEF Queues
<1>1. /\ Len(r[s]) = Len(q[s]) + 1 /\ r[s][Len(q[s]) + 1] = n
      /\ \A i \in 1 .. Len(q[s]) : r[s][i] = q[s][i]
  BY <1>0, AppendProperties DEF Queues
<1>2. \A t \in LogStreams : t # s => r[t] = q[t]
  OBVIOUS
<1> HIDE DEF r
<1>3. \A x : x \in BytesOf(r) <=> x \in BytesOf(q) \/ x \in new
  <2> TAKE x
  <2>1. ASSUME x \in BytesOf(r) PROVE x \in BytesOf(q) \/ x \in new
    <3>1. PICK t, i : Queues(r, t, i) /\ x \in RecordBytes(t, i, r[t][i])
      BY <2>1, BytesMember DEF Queues
    <3>2. CASE t = s /\ i = Len(q[s]) + 1
      BY <3>1, <3>2, <1>1 DEF Queues
    <3>3. CASE ~ (t = s /\ i = Len(q[s]) + 1)
      <4>1. i \in 1 .. Len(q[t]) /\ r[t][i] = q[t][i]
        BY <3>1, <3>3, <1>0, <1>1, <1>2 DEF Queues
      <4> QED
        BY <3>1, <4>1, BytesMember DEF Queues
    <3> QED
      BY <3>2, <3>3 DEF Queues
  <2>2. ASSUME x \in BytesOf(q) PROVE x \in BytesOf(r)
    <3>1. PICK t, i : Queues(q, t, i) /\ x \in RecordBytes(t, i, q[t][i])
      BY <2>2, BytesMember DEF Queues
    <3>2. i \in 1 .. Len(r[t]) /\ r[t][i] = q[t][i]
      BY <3>1, <1>0, <1>1, <1>2 DEF Queues
    <3> QED
      BY <3>1, <3>2, BytesMember DEF Queues
  <2>3. ASSUME x \in new PROVE x \in BytesOf(r)
    <3>1. Len(q[s]) + 1 \in 1 .. Len(r[s]) /\ x \in RecordBytes(s, Len(q[s]) + 1, r[s][Len(q[s]) + 1])
      BY <2>3, <1>0, <1>1 DEF Queues
    <3> QED
      BY <3>1, BytesMember DEF Queues
  <2> QED
    BY <2>1, <2>2, <2>3 DEF Queues
<1>4. BytesOf(q) \cap new = {}
  <2> SUFFICES ASSUME NEW x \in BytesOf(q), x \in new PROVE FALSE
    OBVIOUS
  <2>1. PICK t, i : Queues(q, t, i) /\ x \in RecordBytes(t, i, q[t][i])
    BY BytesMember DEF Queues
  <2>2. x[1] = t /\ x[2] = i /\ x[1] = s /\ x[2] = Len(q[s]) + 1
    BY <2>1 DEF RecordBytes, Queues
  <2> QED
    BY <2>1, <2>2, <1>0 DEF Queues
<1>5. IsFiniteSet(new) /\ Cardinality(new) = n
  BY <1>0, RecordBytesCounted DEF Queues
<1>6. BytesOf(r) = BytesOf(q) \cup new
  BY <1>3 DEF Queues
<1>7. /\ IsFiniteSet(BytesOf(q) \cup new)
      /\ Cardinality(BytesOf(q) \cup new) = Cardinality(BytesOf(q)) + Cardinality(new) - Cardinality({})
  BY <1>4, <1>5, FS_Union
<1>8. Cardinality({}) = 0 /\ Cardinality(BytesOf(q)) \in Nat
  BY FS_EmptySet, FS_CardinalityType
<1>9. IsFiniteSet(BytesOf(r)) /\ Cardinality(BytesOf(r)) = Cardinality(BytesOf(q)) + n
  BY <1>5, <1>6, <1>7, <1>8
<1> QED
  BY <1>9 DEF r

\* A call-back for the oldest record of a stream takes its bytes away, all of them
\* there; the records behind it move up.
LEMMA BytesLeave ==
  ASSUME NEW q \in [LogStreams -> Seq(Nat)], NEW s \in LogStreams, q[s] # <<>>,
         IsFiniteSet(BytesOf(q))
  PROVE  LET r == [q EXCEPT ![s] = Tail(@)] IN
         /\ Head(q[s]) \in Nat /\ Head(q[s]) <= Cardinality(BytesOf(q))
         /\ IsFiniteSet(BytesOf(r))
         /\ Cardinality(BytesOf(r)) = Cardinality(BytesOf(q)) - Head(q[s])
<1> DEFINE r == [q EXCEPT ![s] = Tail(@)]
           old == RecordBytes(s, 1, Head(q[s]))
           rest == BytesOf(q) \ old
           f == [x \in rest |-> IF x[1] = s THEN <<s, x[2] - 1, x[3]>> ELSE x]
<1>0. q[s] \in Seq(Nat) /\ Len(q[s]) \in Nat /\ Len(q[s]) >= 1
  BY LenProperties, EmptySeq DEF Queues
<1>1. /\ Head(q[s]) = q[s][1] /\ q[s][1] \in Nat
      /\ Len(r[s]) = Len(q[s]) - 1
      /\ \A i \in 1 .. Len(q[s]) - 1 : r[s][i] = q[s][i + 1]
  BY <1>0, HeadTailProperties, ElementOfSeq DEF Queues
<1>2. \A t \in LogStreams : t # s => r[t] = q[t]
  OBVIOUS
<1> HIDE DEF r
<1>3. IsFiniteSet(old) /\ Cardinality(old) = Head(q[s])
  BY <1>1, RecordBytesCounted DEF Queues
<1>4. old \in SUBSET BytesOf(q)
  <2>1. \A x \in old : x \in RecordBytes(s, 1, q[s][1]) /\ 1 \in 1 .. Len(q[s])
    BY <1>0, <1>1 DEF Queues
  <2> QED
    BY <2>1, BytesMember DEF Queues
<1>5. /\ Cardinality(old) <= Cardinality(BytesOf(q)) /\ Cardinality(BytesOf(q)) \in Nat
      /\ IsFiniteSet(rest) /\ Cardinality(rest) = Cardinality(BytesOf(q)) - Cardinality(old)
  <2>1. BytesOf(q) \cap old = old
    BY <1>4 DEF Queues
  <2>2. Cardinality(old) <= Cardinality(BytesOf(q)) /\ Cardinality(BytesOf(q)) \in Nat
    BY <1>4, FS_Subset, FS_CardinalityType
  <2>3. /\ IsFiniteSet(rest)
        /\ Cardinality(rest) = Cardinality(BytesOf(q)) - Cardinality(BytesOf(q) \cap old)
    BY FS_Difference
  <2> QED
    BY <2>1, <2>2, <2>3
<1>6. \A x \in rest : \E t, i : Queues(q, t, i) /\
         x \in RecordBytes(t, i, q[t][i]) /\ (t = s => i > 1)
  <2> TAKE x \in rest
  <2>1. PICK t, i : Queues(q, t, i) /\ x \in RecordBytes(t, i, q[t][i])
    BY BytesMember DEF Queues
  <2>2. t = s => i # 1
    BY <2>1, <1>1 DEF Queues
  <2>3. i \in Nat /\ i >= 1
    BY <2>1 DEF Queues
  <2>4. t = s => i > 1
    BY <2>2, <2>3
  <2> QED
    BY <2>1, <2>4
<1>7. f \in [rest -> BytesOf(r)]
  <2> SUFFICES ASSUME NEW x \in rest
               PROVE  (IF x[1] = s THEN <<s, x[2] - 1, x[3]>> ELSE x) \in BytesOf(r)
    OBVIOUS
  <2>1. PICK t, i : Queues(q, t, i) /\ x \in RecordBytes(t, i, q[t][i]) /\ (t = s => i > 1)
    BY <1>6 DEF Queues
  <2>2. PICK b \in 1 .. q[t][i] : x = <<t, i, b>>
    BY <2>1 DEF RecordBytes, Queues
  <2>3. CASE t = s
    <3>1. i - 1 \in 1 .. Len(r[s]) /\ r[s][i - 1] = q[s][i]
      BY <2>1, <2>3, <1>0, <1>1 DEF Queues
    <3>2. <<s, i - 1, b>> \in RecordBytes(s, i - 1, r[s][i - 1])
      BY <2>2, <2>3, <3>1 DEF RecordBytes, Queues
    <3>3. <<s, i - 1, b>> \in BytesOf(r)
      BY <3>1, <3>2, BytesMember DEF Queues
    <3> QED
      BY <2>2, <2>3, <3>3 DEF Queues
  <2>4. CASE t # s
    <3>1. i \in 1 .. Len(r[t]) /\ x \in RecordBytes(t, i, r[t][i])
      BY <2>1, <2>4, <1>2 DEF Queues
    <3>2. x[1] = t
      BY <2>2
    <3>3. x \in BytesOf(r)
      BY <3>1, <2>1, BytesMember DEF Queues
    <3> QED
      BY <2>4, <3>2, <3>3
  <2> QED
    BY <2>3, <2>4 DEF Queues
<1>8. \A x, y \in rest : f[x] = f[y] => x = y
  <2> SUFFICES ASSUME NEW x \in rest, NEW y \in rest,
                      (IF x[1] = s THEN <<s, x[2] - 1, x[3]>> ELSE x) =
                      (IF y[1] = s THEN <<s, y[2] - 1, y[3]>> ELSE y)
               PROVE  x = y
    OBVIOUS
  <2>1. PICK t, i, b : Queues(q, t, i) /\ x = <<t, i, b>>
    BY <1>6 DEF RecordBytes, Queues
  <2>2. PICK u, j, c : Queues(q, u, j) /\ y = <<u, j, c>>
    BY <1>6 DEF RecordBytes, Queues
  <2>3. i \in Int /\ j \in Int
    BY <2>1, <2>2 DEF Queues
  <2> QED
    BY <2>1, <2>2, <2>3 DEF Queues
<1>9. \A y \in BytesOf(r) : \E x \in rest : f[x] = y
  <2> TAKE y \in BytesOf(r)
  <2>1. PICK t, i : Queues(r, t, i) /\ y \in RecordBytes(t, i, r[t][i])
    BY BytesMember DEF Queues
  <2>2. PICK b \in 1 .. r[t][i] : y = <<t, i, b>>
    BY <2>1 DEF RecordBytes, Queues
  <2>3. CASE t = s
    <3>1. i + 1 \in 1 .. Len(q[s]) /\ r[s][i] = q[s][i + 1] /\ i + 1 # 1
      BY <2>1, <2>3, <1>0, <1>1 DEF Queues
    <3>2. <<s, i + 1, b>> \in RecordBytes(s, i + 1, q[s][i + 1]) /\ <<s, i + 1, b>> \notin old
      BY <2>2, <2>3, <3>1 DEF RecordBytes, Queues
    <3>3. <<s, i + 1, b>> \in rest
      BY <3>1, <3>2, BytesMember DEF Queues
    <3>4. f[<<s, i + 1, b>>] = <<s, i, b>>
      <4> DEFINE e == <<s, i + 1, b>>
      <4>1. e[1] = s /\ e[2] = i + 1 /\ e[3] = b
        OBVIOUS
      <4>3. e \in rest
        BY <3>3
      <4> HIDE DEF e, rest
      <4>4. f[e] = <<s, e[2] - 1, e[3]>>
        BY <4>1, <4>3
      <4> HIDE DEF f
      <4>5. f[e] = <<s, i, b>>
        <5>1. i \in Nat
          BY <2>1 DEF Queues
        <5>2. e[2] - 1 = i
          BY <4>1, <5>1
        <5>3. \A j, c : j = i /\ c = b => <<s, j, c>> = <<s, i, b>>
          OBVIOUS
        <5> QED
          BY <4>1, <4>4, <5>3, <5>2, Zenon
      <4> QED
        BY <4>5 DEF e, f, rest
    <3> QED
      BY <2>2, <2>3, <3>3, <3>4 DEF Queues
  <2>4. CASE t # s
    <3>1. y \in BytesOf(q) /\ y \notin old
      <4>1. i \in 1 .. Len(q[t]) /\ y \in RecordBytes(t, i, q[t][i])
        BY <2>1, <2>4, <1>2 DEF Queues
      <4> QED
        BY <4>1, <2>2, <2>4, BytesMember DEF RecordBytes, Queues
    <3>2. f[y] = y
      BY <3>1, <2>2, <2>4 DEF Queues
    <3> QED
      BY <3>1, <3>2 DEF Queues
  <2> QED
    BY <2>3, <2>4 DEF Queues
<1>10. ExistsBijection(rest, BytesOf(r))
  <2>1. f \in Bijection(rest, BytesOf(r))
    <3> HIDE DEF f, rest
    <3> QED
      BY <1>7, <1>8, <1>9 DEF Bijection, Injection, Surjection, IsInjective
  <2> QED
    BY <2>1 DEF ExistsBijection
<1>11. IsFiniteSet(BytesOf(r)) /\ Cardinality(BytesOf(r)) = Cardinality(rest)
  BY <1>5, <1>10, FS_Bijection
<1> QED
  BY <1>1, <1>3, <1>5, <1>11 DEF r

\* What the records owed may take is within the bound on the queue.
LEMMA ReserveFits ==
  ASSUME NEW p \in Nat, NEW o \in Nat, NEW t \in Nat, NEW a \in Nat,
         a <= LogAdmitted, o <= a * RecordsPerRequest, t <= OtherRecords, p <= ReadyBelow
  PROVE  p + (o + t) * RecordSize <= QueueUpTo
<1>1. a * RecordsPerRequest <= LogAdmitted * RecordsPerRequest
  BY LogParameters, Monotonous
<1>2. a * RecordsPerRequest \in Nat /\ LogAdmitted * RecordsPerRequest \in Nat
  BY LogParameters, ProductNatural
<1>3. o + t <= LogAdmitted * RecordsPerRequest + OtherRecords
  BY <1>1, <1>2, LogParameters
<1>4. /\ o + t \in Nat /\ LogAdmitted * RecordsPerRequest + OtherRecords \in Nat
      /\ (o + t) * RecordSize <= (LogAdmitted * RecordsPerRequest + OtherRecords) * RecordSize
  BY <1>2, <1>3, LogParameters, Monotonous
<1>5. (o + t) * RecordSize \in Nat
      /\ (LogAdmitted * RecordsPerRequest + OtherRecords) * RecordSize \in Nat
  BY <1>4, LogParameters, ProductNatural
<1> QED
  BY <1>4, <1>5, LogParameters

LEMMA LogInitial == Log!Init => LogInv
<1> SUFFICES ASSUME Log!Init PROVE LogInv
  OBVIOUS
<1>0. /\ lgPending = 0 /\ lgQueued = [s \in LogStreams |-> <<>>] /\ lgOwed = 0
      /\ lgAdmitted = 0 /\ lgOthers = OtherRecords /\ lgFailed = FALSE /\ lgBroken = FALSE
  BY DEF Log!Init
<1>1. Log!TypeOK
  <2>1. lgQueued \in [LogStreams -> Seq(Nat)]
    BY <1>0
  <2>2. lgAdmitted * RecordsPerRequest = 0
    BY <1>0, LogParameters
  <2>3. lgOwed \in 0 .. lgAdmitted * RecordsPerRequest /\ lgAdmitted \in 0 .. LogAdmitted
    BY <1>0, <2>2, LogParameters
  <2>4. lgFailed \in BOOLEAN /\ lgBroken \in BOOLEAN
    BY <1>0
  <2>5. OtherRecords \in 0 .. OtherRecords /\ lgPending \in Nat
    BY <1>0, LogParameters
  <2>6. lgOthers \in 0 .. OtherRecords
    BY <1>0, <2>5
  <2> QED
    BY <2>1, <2>3, <2>4, <2>5, <2>6, Zenon DEF Log!TypeOK
<1>2. BytesOf(lgQueued) = {}
  <2>1. \A s \in LogStreams : Len(lgQueued[s]) = 0
    BY <1>0
  <2>2. \A x : x \notin BytesOf(lgQueued)
    BY <2>1, BytesMember DEF Queues
  <2> QED
    BY <2>2
<1>3. IsFiniteSet(BytesOf(lgQueued)) /\ lgPending = Cardinality(BytesOf(lgQueued))
  BY <1>0, <1>2, FS_EmptySet
<1>4. LogRoom
  <2>1. 0 + (0 + OtherRecords) * RecordSize <= QueueUpTo
    <3>1. 0 * RecordsPerRequest = 0
      BY LogParameters
    <3> QED
      BY <3>1, LogParameters, ReserveFits
  <2> QED
    BY <1>0, <2>1 DEF LogRoom, LogReserve
<1>5. Log!HeadroomSuffices
  BY <1>0 DEF Log!HeadroomSuffices
<1> QED
  BY <1>1, <1>3, <1>4, <1>5 DEF LogInv

\* A record of `bytes` taken from those owed: what the write does to the log.
LEMMA LogWrites ==
  ASSUME LogInv, NEW bytes \in Nat, Log!Write(bytes),
         NEW o \in Nat, NEW t \in Nat, o + t + 1 = lgOwed + lgOthers
  PROVE  /\ lgPending' \in Nat /\ lgFailed' \in BOOLEAN /\ lgBroken' \in BOOLEAN
         /\ lgQueued' \in [LogStreams -> Seq(Nat)]
         /\ IsFiniteSet(BytesOf(lgQueued')) /\ lgPending' = Cardinality(BytesOf(lgQueued'))
         /\ lgPending' + (o + t) * RecordSize <= QueueUpTo
         /\ lgFailed' => lgBroken'
<1>0. /\ Log!TypeOK /\ LogRoom /\ Log!HeadroomSuffices
      /\ IsFiniteSet(BytesOf(lgQueued)) /\ lgPending = Cardinality(BytesOf(lgQueued))
      /\ lgPending \in Nat /\ lgQueued \in [LogStreams -> Seq(Nat)]
      /\ lgFailed \in BOOLEAN /\ lgBroken \in BOOLEAN /\ RecordSize \in Nat /\ QueueUpTo \in Nat
  BY LogParameters DEF LogInv, Log!TypeOK
<1>1. /\ (lgOwed + lgOthers) * RecordSize = (o + t) * RecordSize + RecordSize
      /\ (o + t) * RecordSize \in Nat
  <2>1. o + t \in Nat /\ (o + t) + 1 = lgOwed + lgOthers
    OBVIOUS
  <2>2. ((o + t) + 1) * RecordSize = (o + t) * RecordSize + RecordSize
    BY <1>0, <2>1, OneMore
  <2> QED
    BY <1>0, <2>1, <2>2, ProductNatural
<1>2. lgPending + ((o + t) * RecordSize + RecordSize) <= QueueUpTo
  BY <1>0, <1>1 DEF LogRoom, LogReserve
<1>3. CASE /\ Log!Accepts(bytes)
           /\ \E s \in LogStreams : lgQueued' = [lgQueued EXCEPT ![s] = Append(@, bytes)]
           /\ lgPending' = lgPending + bytes
           /\ UNCHANGED <<lgFailed, lgBroken>>
  <2>1. PICK s \in LogStreams : lgQueued' = [lgQueued EXCEPT ![s] = Append(@, bytes)]
    BY <1>3
  <2>2. /\ IsFiniteSet(BytesOf(lgQueued'))
        /\ Cardinality(BytesOf(lgQueued')) = Cardinality(BytesOf(lgQueued)) + bytes
    BY <1>0, <2>1, BytesJoin
  <2>3. lgPending' = lgPending + bytes /\ UNCHANGED <<lgFailed, lgBroken>>
    BY <1>3
  <2>4. lgQueued' \in [LogStreams -> Seq(Nat)]
    BY <1>0, <2>1, AppendProperties
  <2>5. bytes <= RecordSize
    BY <1>3 DEF Log!Accepts
  <2>6. lgFailed' => lgBroken'
    BY <1>0, <2>3 DEF Log!HeadroomSuffices
  <2>7. lgPending' + (o + t) * RecordSize <= QueueUpTo
    BY <1>0, <1>1, <1>2, <2>3, <2>5
  <2> QED
    BY <1>0, <2>2, <2>3, <2>4, <2>6, <2>7
<1>4. CASE /\ UNCHANGED <<lgPending, lgQueued>> /\ lgFailed' = TRUE
           /\ \/ lgBroken' = TRUE
              \/ ~ Log!Accepts(bytes) /\ lgBroken' = (lgBroken \/ bytes > RecordSize)
  <2>1. lgBroken' = TRUE
    <3> SUFFICES ASSUME ~ Log!Accepts(bytes), lgBroken' = (lgBroken \/ bytes > RecordSize)
                 PROVE  lgBroken'
      BY <1>4, <1>0
    <3>1. lgFailed \/ bytes > RecordSize \/ lgPending + bytes > QueueUpTo
      BY <1>0 DEF Log!Accepts
    <3>2. bytes <= RecordSize => lgPending + bytes <= QueueUpTo
      BY <1>0, <1>1, <1>2
    <3>3. lgBroken \/ bytes > RecordSize
      BY <1>0, <3>1, <3>2 DEF Log!HeadroomSuffices
    <3> QED
      BY <3>3
  <2>2. BytesOf(lgQueued') = BytesOf(lgQueued)
    BY <1>4
  <2>3. lgPending' + (o + t) * RecordSize <= QueueUpTo
    BY <1>0, <1>1, <1>2, <1>4
  <2> QED
    BY <1>0, <1>4, <2>1, <2>2, <2>3
<1> QED
  BY <1>3, <1>4 DEF Log!Write

LEMMA LogStep == LogInv /\ [Log!Next]_logVars => LogInv'
<1> SUFFICES ASSUME LogInv, [Log!Next]_logVars PROVE LogInv'
  OBVIOUS
<1>0. /\ Log!TypeOK /\ LogRoom /\ Log!HeadroomSuffices
      /\ IsFiniteSet(BytesOf(lgQueued)) /\ lgPending = Cardinality(BytesOf(lgQueued))
      /\ lgPending \in Nat /\ lgFailed \in BOOLEAN /\ lgBroken \in BOOLEAN
      /\ lgQueued \in [LogStreams -> Seq(Nat)]
  BY DEF LogInv, Log!TypeOK
<1>1. /\ RecordsPerRequest \in Nat /\ LogAdmitted \in Nat /\ OtherRecords \in Nat
      /\ RecordSize \in Nat /\ ReadyBelow \in Nat /\ QueueUpTo \in Nat
  BY LogParameters
<1>2. /\ lgAdmitted \in Nat /\ lgAdmitted <= LogAdmitted
      /\ lgAdmitted * RecordsPerRequest \in Nat
      /\ lgOwed \in Nat /\ lgOwed <= lgAdmitted * RecordsPerRequest
      /\ lgOthers \in Nat /\ lgOthers <= OtherRecords
  <2>1. lgAdmitted \in Nat /\ lgAdmitted <= LogAdmitted /\ lgOthers \in Nat /\ lgOthers <= OtherRecords
    BY <1>0, <1>1 DEF Log!TypeOK
  <2>2. lgAdmitted * RecordsPerRequest \in Nat
    BY <1>1, <2>1, ProductNatural
  <2> QED
    BY <1>0, <2>1, <2>2 DEF Log!TypeOK
<1>3. CASE Log!Admit
  <2>1. /\ lgPending < ReadyBelow /\ lgAdmitted' = lgAdmitted + 1 /\ lgAdmitted < LogAdmitted
        /\ lgOwed' = lgOwed + RecordsPerRequest
        /\ UNCHANGED <<lgPending, lgFailed, lgQueued, lgOthers, lgBroken>>
    BY <1>3 DEF Log!Admit, Log!Ready
  <2>2. /\ lgAdmitted' * RecordsPerRequest = lgAdmitted * RecordsPerRequest + RecordsPerRequest
        /\ lgAdmitted' \in Nat /\ lgAdmitted' <= LogAdmitted
    BY <1>1, <1>2, <2>1, OneMore
  <2>3. lgOwed' \in Nat /\ lgOwed' <= lgAdmitted' * RecordsPerRequest
    BY <1>1, <1>2, <2>1, <2>2
  <2>4. Log!TypeOK'
    <3>1. lgOwed' \in 0 .. lgAdmitted' * RecordsPerRequest
      <4>1. \A x, y \in Nat : x <= y => x \in 0 .. y
        OBVIOUS
      <4>2. lgAdmitted' * RecordsPerRequest \in Nat
        BY <1>1, <2>2, ProductNatural
      <4> QED
        BY <2>3, <4>1, <4>2
    <3> QED
      BY <1>0, <1>1, <1>2, <2>1, <2>2, <3>1 DEF Log!TypeOK
  <2>5. LogRoom'
    <3>1. lgPending <= ReadyBelow
      BY <1>0, <1>1, <2>1
    <3>2. lgPending + (lgOwed' + lgOthers) * RecordSize <= QueueUpTo
      BY <1>0, <1>2, <2>2, <2>3, <3>1, ReserveFits
    <3> QED
      BY <2>1, <3>2 DEF LogRoom, LogReserve
  <2> QED
    BY <1>0, <2>1, <2>4, <2>5 DEF LogInv, Log!HeadroomSuffices
<1>4. CASE Log!Leave
  <2>1. /\ lgAdmitted > 0 /\ lgAdmitted' = lgAdmitted - 1 /\ lgOwed' \in 0 .. lgOwed
        /\ lgOwed' <= (lgAdmitted - 1) * RecordsPerRequest
        /\ UNCHANGED <<lgPending, lgFailed, lgQueued, lgOthers, lgBroken>>
    BY <1>4 DEF Log!Leave
  <2>2. lgAdmitted' \in Nat /\ lgAdmitted' * RecordsPerRequest \in Nat
    BY <1>1, <1>2, <2>1, ProductNatural
  <2>3. Log!TypeOK'
    <3>1. lgOwed' \in 0 .. lgAdmitted' * RecordsPerRequest
      BY <1>2, <2>1, <2>2
    <3> QED
      BY <1>0, <1>1, <1>2, <2>1, <2>2, <3>1 DEF Log!TypeOK
  <2>4. LogRoom'
    <3>1. /\ lgOwed' + lgOthers \in Nat /\ lgOwed + lgOthers \in Nat
          /\ lgOwed' + lgOthers <= lgOwed + lgOthers
      <4>1. \A o, x, y \in Nat : o <= x => o + y \in Nat /\ x + y \in Nat /\ o + y <= x + y
        OBVIOUS
      <4>2. lgOwed' \in Nat /\ lgOwed' <= lgOwed /\ lgOwed \in Nat /\ lgOthers \in Nat
        BY <1>2, <2>1
      <4> QED
        BY <4>1, <4>2
    <3>2. /\ (lgOwed' + lgOthers) * RecordSize <= (lgOwed + lgOthers) * RecordSize
          /\ (lgOwed' + lgOthers) * RecordSize \in Nat /\ (lgOwed + lgOthers) * RecordSize \in Nat
      BY <1>1, <3>1, Monotonous, ProductNatural
    <3>3. lgPending + (lgOwed + lgOthers) * RecordSize <= QueueUpTo
      BY <1>0 DEF LogRoom, LogReserve
    <3>4. lgPending + (lgOwed' + lgOthers) * RecordSize <= QueueUpTo
      BY <1>0, <1>1, <3>2, <3>3
    <3> QED
      BY <2>1, <3>4 DEF LogRoom, LogReserve
  <2> QED
    BY <1>0, <2>1, <2>3, <2>4 DEF LogInv, Log!HeadroomSuffices
<1>5. ASSUME NEW bytes \in 1 .. RecordSize, Log!RequestWrites(bytes) PROVE LogInv'
  <2>1. /\ lgOwed > 0 /\ Log!Write(bytes) /\ lgOwed' = lgOwed - 1
        /\ UNCHANGED <<lgAdmitted, lgOthers>>
    BY <1>5 DEF Log!RequestWrites
  <2>2. bytes \in Nat /\ lgOwed' \in Nat /\ lgOthers' \in Nat
        /\ lgOwed' + lgOthers' + 1 = lgOwed + lgOthers
    BY <1>1, <1>2, <2>1
  <2>3. /\ lgPending' \in Nat /\ lgFailed' \in BOOLEAN /\ lgBroken' \in BOOLEAN
        /\ lgQueued' \in [LogStreams -> Seq(Nat)]
        /\ IsFiniteSet(BytesOf(lgQueued')) /\ lgPending' = Cardinality(BytesOf(lgQueued'))
        /\ lgPending' + (lgOwed' + lgOthers') * RecordSize <= QueueUpTo
        /\ lgFailed' => lgBroken'
    BY <2>1, <2>2, LogWrites
  <2>4. lgOwed' \in 0 .. lgAdmitted' * RecordsPerRequest
    BY <1>2, <2>1
  <2> QED
    BY <1>0, <2>1, <2>3, <2>4 DEF LogInv, LogRoom, LogReserve, Log!HeadroomSuffices, Log!TypeOK
<1>6. ASSUME NEW bytes \in 1 .. RecordSize + 1, Log!OtherWrites(bytes) PROVE LogInv'
  <2>1. /\ lgOthers > 0 /\ Log!Write(bytes) /\ lgOthers' = lgOthers - 1
        /\ UNCHANGED <<lgAdmitted, lgOwed>>
    BY <1>6 DEF Log!OtherWrites
  <2>2. bytes \in Nat /\ lgOwed' \in Nat /\ lgOthers' \in Nat
        /\ lgOwed' + lgOthers' + 1 = lgOwed + lgOthers
    BY <1>1, <1>2, <2>1
  <2>3. /\ lgPending' \in Nat /\ lgFailed' \in BOOLEAN /\ lgBroken' \in BOOLEAN
        /\ lgQueued' \in [LogStreams -> Seq(Nat)]
        /\ IsFiniteSet(BytesOf(lgQueued')) /\ lgPending' = Cardinality(BytesOf(lgQueued'))
        /\ lgPending' + (lgOwed' + lgOthers') * RecordSize <= QueueUpTo
        /\ lgFailed' => lgBroken'
    BY <2>1, <2>2, LogWrites
  <2>4. lgOthers' \in 0 .. OtherRecords
    BY <1>1, <1>2, <2>1
  <2> QED
    BY <1>0, <2>1, <2>3, <2>4 DEF LogInv, LogRoom, LogReserve, Log!HeadroomSuffices, Log!TypeOK
<1>7. ASSUME NEW s \in LogStreams, NEW error \in BOOLEAN, Log!CalledBack(s, error) PROVE LogInv'
  <2>1. /\ lgQueued[s] # <<>> /\ lgQueued' = [lgQueued EXCEPT ![s] = Tail(@)]
        /\ lgPending' = lgPending - Head(lgQueued[s]) /\ lgFailed' = (lgFailed \/ error)
        /\ lgBroken' = (lgBroken \/ error) /\ UNCHANGED <<lgAdmitted, lgOwed, lgOthers>>
    BY <1>7 DEF Log!CalledBack
  <2>2. /\ Head(lgQueued[s]) \in Nat /\ Head(lgQueued[s]) <= Cardinality(BytesOf(lgQueued))
        /\ IsFiniteSet(BytesOf(lgQueued'))
        /\ Cardinality(BytesOf(lgQueued')) = Cardinality(BytesOf(lgQueued)) - Head(lgQueued[s])
    BY <1>0, <2>1, BytesLeave
  <2>3. lgPending' \in Nat /\ lgPending' <= lgPending /\ lgPending' = Cardinality(BytesOf(lgQueued'))
    BY <1>0, <2>1, <2>2
  <2>4. lgQueued' \in [LogStreams -> Seq(Nat)]
    BY <1>0, <2>1, HeadTailProperties
  <2>5. lgFailed' \in BOOLEAN /\ lgBroken' \in BOOLEAN /\ (lgFailed' => lgBroken')
    BY <1>0, <2>1 DEF Log!HeadroomSuffices
  <2>6. Log!TypeOK'
    BY <1>0, <2>1, <2>3, <2>4, <2>5 DEF Log!TypeOK
  <2>7. LogRoom'
    <3>1. (lgOwed + lgOthers) * RecordSize \in Nat
      BY <1>1, <1>2, ProductNatural
    <3>2. lgPending' + (lgOwed + lgOthers) * RecordSize <= QueueUpTo
      BY <1>0, <1>1, <2>3, <3>1 DEF LogRoom, LogReserve
    <3> QED
      BY <2>1, <3>2 DEF LogRoom, LogReserve
  <2> QED
    BY <2>2, <2>3, <2>5, <2>6, <2>7 DEF LogInv, Log!HeadroomSuffices
<1>8. CASE Log!StreamFails
  <2>1. /\ lgFailed' = TRUE /\ lgBroken' = TRUE
        /\ UNCHANGED <<lgPending, lgQueued, lgAdmitted, lgOwed, lgOthers>>
    BY <1>8 DEF Log!StreamFails
  <2> QED
    BY <1>0, <2>1 DEF LogInv, LogRoom, LogReserve, Log!HeadroomSuffices, Log!TypeOK
<1>9. CASE UNCHANGED logVars
  BY <1>0, <1>9 DEF logVars, LogInv, LogRoom, LogReserve, Log!HeadroomSuffices, Log!TypeOK
<1> QED
  BY <1>3, <1>4, <1>5, <1>6, <1>7, <1>8, <1>9 DEF Log!Next

LEMMA LogLives == [ServerNext]_serverVars => [Log!Next]_logVars
BY DEF ServerNext, OthersStill, serverVars, logVars

\* The invariant of the log, in every reachable state of the server.
THEOREM LogHolds == ServerSpec => []LogInv
<1>1. ServerInit => LogInv
  BY LogInitial DEF ServerInit
<1>2. LogInv /\ [ServerNext]_serverVars => LogInv'
  BY LogStep, LogLives
<1> QED
  BY <1>1, <1>2, PTL DEF ServerSpec

\* For any bounds that leave the headroom, however the streams stall and fail: the
\* count is of the bytes the streams still have, and no admitted request's record
\* is refused for want of room.
THEOREM JournalIsBounded == ServerSpec => []JournalBounded
<1>1. LogInv => JournalBounded
  <2>1. Log!HandedOver = BytesOf(lgQueued)
    BY DEF Log!HandedOver, BytesOf
  <2> QED
    BY <2>1, LogSets DEF LogInv, JournalBounded, Log!PendingAccounted
<1> QED
  BY <1>1, LogHolds, PTL

-----------------------------------------------------------------------------
(* Rate limiting *)

\* The counters stand in the order in which their windows end, because every window
\* has the same length and the guarded clock never goes back: the loop of prune()
\* may stop at the first live one.
InOrder(s, now) ==
  /\ \A i, j \in 1 .. Len(s) : i <= j => s[i].reset <= s[j].reset
  /\ \A i \in 1 .. Len(s) : s[i].reset <= now + RateWindow

Alive(s, now) == \A i \in 1 .. Len(s) : ~ Rate!Expired(s[i], now)

\* Every window of s that is not over goes on in r, with what was counted in it.
Carries(s, r, now) ==
  \A i \in 1 .. Len(s) :
    ~ Rate!Expired(s[i], now) =>
      \E j \in 1 .. Len(r) :
        r[j].key = s[i].key /\ r[j].reset = s[i].reset /\ r[j].hits >= s[i].hits

RateSorted == InOrder(rtCounters, rtLastTime)

\* No client has two counters.
OneEach(s) == \A i, j \in 1 .. Len(s) : s[i].key = s[j].key => i = j

\* Two windows of one counter, the earlier one first.
Apart(r, q) == r = q \/ r + RateWindow <= q

\* The counter an answer came from, and what it has counted.
Stands(k, a, s, o) ==
  IF a.from = "own"
  THEN \E n \in 1 .. Len(s) : s[n].key = k /\ s[n].reset = a.reset /\ s[n].hits >= a.hits
  ELSE o.reset = a.reset /\ o.hits >= a.hits

\* Answers in the order of their times, all of them recent and within their window.
Placed(g, now) ==
  /\ \A i \in 1 .. Len(g) :
       /\ g[i].at <= now /\ now < g[i].at + RateWindow
       /\ g[i].at < g[i].reset /\ g[i].reset <= g[i].at + RateWindow
  /\ \A i, j \in 1 .. Len(g) : i <= j => g[i].at <= g[j].at

\* A counter stands at each number once in a window, and its windows do not overlap.
OnceEach(g) ==
  \A i, j \in 1 .. Len(g) :
    g[i].from = g[j].from =>
      /\ g[i].reset = g[j].reset /\ g[i].hits = g[j].hits => i = j
      /\ Apart(g[i].reset, g[j].reset) \/ Apart(g[j].reset, g[i].reset)

\* While its window lasts, an answer has its counter; no window of a counter there is
\* overlaps those of the answers.
Backed(k, g, now, s, o) ==
  \A i \in 1 .. Len(g) :
    /\ g[i].reset > now => Stands(k, g[i], s, o)
    /\ g[i].from = "own" =>
         \A n \in 1 .. Len(s) : s[n].key = k => Apart(g[i].reset, s[n].reset)
    /\ g[i].from = "shared" => o = Rate!None \/ Apart(g[i].reset, o.reset)

Earned(k, g, now, s, o) == Placed(g, now) /\ OnceEach(g) /\ Backed(k, g, now, s, o)

RateEarned ==
  /\ OneEach(rtCounters) /\ rtOverflow.reset <= rtLastTime + RateWindow
  /\ \A k \in RateKeys : Earned(k, rtGranted[k], rtLastTime, rtCounters, rtOverflow)

RateInv == Rate!TypeOK /\ RateSorted /\ Rate!NoDeadCounter /\ RateEarned

LEMMA RateParameters ==
  /\ RateMaxKeys \in Nat /\ RateMaxTime \in Nat
  /\ RateLimit \in Nat /\ RateLimit >= 1 /\ RateWindow \in Nat /\ RateWindow >= 1
BY ServerAssumption DEF Rate!RateAssumption

\* A set of natural numbers has a least one, if it has any.
LEMMA LeastNatural ==
  ASSUME NEW T \in SUBSET Nat, T # {}
  PROVE  \E x \in T : \A y \in T : x <= y
<1> DEFINE Before == {p \in Nat \X Nat : p[1] < p[2]}
<1>1. IsWellFoundedOn(Before, Nat)
  BY NatLessThanWellFounded DEF OpToRel
<1>2. PICK x \in T : \A y \in T : ~ (<<y, x>> \in Before)
  <2> HIDE DEF Before
  <2> QED
    BY <1>1, WFMin
<1>3. \A y \in T : ~ (y < x)
  BY <1>2
<1> QED
  BY <1>3

First(keep) == CHOOSE i \in keep : \A j \in keep : i <= j
Rest(s, keep) == IF keep = {} THEN <<>> ELSE SubSeq(s, First(keep), Len(s))

\* r is s without its first elements, none of which has a place in keep.
Leaves(r, s, keep, gone) ==
  /\ Len(r) = Len(s) - gone
  /\ \A i \in 1 .. Len(r) : i + gone \in 1 .. Len(s) /\ r[i] = s[i + gone]
  /\ \A i \in 1 .. gone : i \notin keep
  /\ \A i \in 1 .. Len(r) : \E m \in keep : m <= i + gone

\* What is left of a list from the first of some of its places on.
LEMMA FromFirst ==
  ASSUME NEW S, NEW s \in Seq(S), NEW keep \in SUBSET (1 .. Len(s)), NEW r, r = Rest(s, keep)
  PROVE  r \in Seq(S) /\ \E gone \in 0 .. Len(s) : Leaves(r, s, keep, gone)
<1> DEFINE m == First(keep)
<1>0. Len(s) \in Nat /\ \A i \in 1 .. Len(s) : s[i] \in S
  BY LenProperties, ElementOfSeq
<1>1. CASE keep = {}
  <2>1. r = <<>>
    BY <1>1 DEF Rest
  <2>2. r \in Seq(S) /\ Len(r) = 0
    BY <2>1
  <2>3. (\A i \in 1 .. Len(s) : i \notin keep) /\ \A i \in 1 .. 0 : FALSE
    BY <1>1
  <2>4. Len(r) = Len(s) - Len(s) /\ Len(s) \in 0 .. Len(s)
    BY <1>0, <2>2
  <2> QED
    BY <2>2, <2>3, <2>4 DEF Leaves
<1>2. CASE keep # {}
  <2>1. m \in keep /\ \A j \in keep : m <= j
    <3>1. keep \in SUBSET Nat
      BY <1>0
    <3>2. \E i \in keep : \A j \in keep : i <= j
      BY <1>2, <3>1, LeastNatural
    <3> QED
      BY <3>2 DEF First
  <2>2. r = SubSeq(s, m, Len(s))
    BY <1>2 DEF Rest
  <2> HIDE DEF m
  <2>3. m \in Nat /\ m >= 1 /\ m <= Len(s)
    BY <1>0, <2>1
  <2>4. /\ r \in Seq(S) /\ Len(r) = Len(s) - m + 1
        /\ \A i \in 1 .. Len(s) - m + 1 : r[i] = s[m + i - 1]
    <3>1. \A i \in m .. Len(s) : s[i] \in S
      BY <1>0, <2>3
    <3> QED
      BY <1>0, <2>2, <2>3, <3>1, SubSeqProperties
  <2>5. m - 1 \in 0 .. Len(s) /\ Len(r) = Len(s) - (m - 1)
    BY <1>0, <2>3, <2>4
  <2>6. \A i \in 1 .. Len(r) :
           i + (m - 1) \in 1 .. Len(s) /\ m <= i + (m - 1) /\ r[i] = s[i + (m - 1)]
    <3> TAKE i \in 1 .. Len(r)
    <3>1. m + i - 1 = i + (m - 1) /\ i \in 1 .. Len(s) - m + 1
      BY <1>0, <2>3, <2>4
    <3> QED
      BY <1>0, <2>3, <2>4, <3>1
  <2>7. \A i \in 1 .. m - 1 : i \notin keep
    <3> TAKE i \in 1 .. m - 1
    <3>1. ~ (m <= i)
      BY <1>0, <2>3
    <3> QED
      BY <2>1, <3>1
  <2> QED
    BY <2>1, <2>4, <2>5, <2>6, <2>7 DEF m, Leaves
<1> QED
  BY <1>1, <1>2

LEMMA CounterFields ==
  ASSUME NEW c \in Rate!Counter
  PROVE  /\ c.hits \in 0 .. RateLimit + 1 /\ c.hits \in Int
         /\ c.reset \in 0 .. RateMaxTime + RateWindow /\ c.reset \in Int
<1>1. c.hits \in 0 .. RateLimit + 1 /\ c.reset \in 0 .. RateMaxTime + RateWindow
  BY DEF Rate!Counter
<1> QED
  BY <1>1, RateParameters

\* prune(): what is left is a run at the end of the Map, none of it expired, and
\* everything before it has expired.
LEMMA PrunedFacts ==
  ASSUME Rate!TypeOK, RateSorted, NEW now \in Nat
  PROVE  LET kept == Rate!Pruned(now) IN
         /\ kept \in Seq(Rate!Counter)
         /\ \E gone \in Nat :
              /\ Len(kept) = Len(rtCounters) - gone
              /\ \A i \in 1 .. Len(kept) : i + gone \in 1 .. Len(rtCounters) /\ kept[i] = rtCounters[i + gone]
              /\ \A i \in 1 .. gone : Rate!Expired(rtCounters[i], now)
         /\ \A i \in 1 .. Len(kept) : ~ Rate!Expired(kept[i], now)
<1> DEFINE live == {i \in 1 .. Len(rtCounters) : ~ Rate!Expired(rtCounters[i], now)}
           kept == Rate!Pruned(now)
<1>0. /\ rtCounters \in Seq(Rate!Counter) /\ Len(rtCounters) \in Nat
      /\ \A i \in 1 .. Len(rtCounters) : rtCounters[i] \in Rate!Counter
  BY LenProperties, ElementOfSeq DEF Rate!TypeOK
<1>1. kept = Rest(rtCounters, live)
  BY DEF Rate!Pruned, Rest, First
<1>2. live \in SUBSET (1 .. Len(rtCounters))
  OBVIOUS
<1>3. \A i \in 1 .. Len(rtCounters) : i \in live <=> ~ Rate!Expired(rtCounters[i], now)
  OBVIOUS
<1> HIDE DEF live, kept
<1>4. kept \in Seq(Rate!Counter) /\ \E gone \in 0 .. Len(rtCounters) : Leaves(kept, rtCounters, live, gone)
  BY <1>0, <1>1, <1>2, FromFirst
<1>5. PICK gone \in 0 .. Len(rtCounters) :
        /\ Len(kept) = Len(rtCounters) - gone
        /\ \A i \in 1 .. Len(kept) : i + gone \in 1 .. Len(rtCounters) /\ kept[i] = rtCounters[i + gone]
        /\ \A i \in 1 .. gone : i \notin live
        /\ \A i \in 1 .. Len(kept) : \E m \in live : m <= i + gone
  BY <1>4 DEF Leaves
<1>6. \A i \in 1 .. gone : Rate!Expired(rtCounters[i], now)
  <2>1. \A i \in 1 .. gone : i \in 1 .. Len(rtCounters)
    BY <1>0, <1>5
  <2> QED
    BY <1>3, <1>5, <2>1
<1>7. \A i \in 1 .. Len(kept) : ~ Rate!Expired(kept[i], now)
  <2> TAKE i \in 1 .. Len(kept)
  <2>1. PICK m \in live : m <= i + gone
    BY <1>5
  <2> DEFINE k == i + gone
  <2>2. k \in 1 .. Len(rtCounters) /\ m \in 1 .. Len(rtCounters) /\ m <= k /\ kept[i] = rtCounters[k]
    BY <1>2, <1>5, <2>1
  <2> HIDE DEF k
  <2>3. rtCounters[m].reset <= rtCounters[k].reset
    BY <2>2 DEF RateSorted, InOrder
  <2>4. ~ (rtCounters[m].reset <= now)
    BY <1>3, <2>2 DEF Rate!Expired
  <2>5. rtCounters[m].reset \in Int /\ rtCounters[k].reset \in Int
    <3>1. \A c \in Rate!Counter : c.reset \in Int
      BY CounterFields
    <3> QED
      BY <1>0, <2>2, <3>1
  <2>6. ~ (rtCounters[k].reset <= now)
    BY <2>3, <2>4, <2>5
  <2> QED
    BY <2>2, <2>6 DEF Rate!Expired
<1>8. gone \in Nat /\ kept \in Seq(Rate!Counter)
  BY <1>0, <1>4, <1>5
<1> QED
  BY <1>5, <1>6, <1>7, <1>8 DEF kept

\* A hit leaves the client and the window, and counts up to just beyond the limit.
LEMMA HitLeaves ==
  ASSUME NEW c \in Rate!Counter
  PROVE  /\ Rate!Hit(c) \in Rate!Counter /\ Rate!Hit(c).key = c.key
         /\ Rate!Hit(c).reset = c.reset /\ Rate!Hit(c).hits >= c.hits
         /\ 1 <= Rate!Hit(c).hits /\ (Rate!Hit(c).hits <= RateLimit => c.hits < Rate!Hit(c).hits)
<1> DEFINE h == IF c.hits > RateLimit THEN c.hits ELSE c.hits + 1
<1>1. h \in 0 .. RateLimit + 1 /\ h >= c.hits /\ 1 <= h /\ (h <= RateLimit => c.hits < h)
  BY CounterFields, RateParameters
<1>2. Rate!Hit(c) = [c EXCEPT !.hits = h]
  BY DEF Rate!Hit
<1> HIDE DEF h
<1>3. Rate!Hit(c) \in Rate!Counter
  BY <1>1, <1>2 DEF Rate!Counter
<1>4. Rate!Hit(c).key = c.key /\ Rate!Hit(c).reset = c.reset /\ Rate!Hit(c).hits = h
  BY <1>2 DEF Rate!Counter
<1> QED
  BY <1>1, <1>3, <1>4

\* What prune() leaves of the counters at a time no earlier than the last.
LEMMA KeptFacts ==
  ASSUME Rate!TypeOK, RateSorted, NEW now \in Nat, rtLastTime <= now
  PROVE  LET kept == Rate!Pruned(now) IN
         /\ kept \in Seq(Rate!Counter) /\ Len(kept) <= RateMaxKeys
         /\ InOrder(kept, now) /\ Alive(kept, now) /\ Carries(rtCounters, kept, now)
         /\ \A i \in 1 .. Len(kept) : \E m \in 1 .. Len(rtCounters) : kept[i] = rtCounters[m]
         /\ OneEach(rtCounters) => OneEach(kept)
<1> DEFINE kept == Rate!Pruned(now)
<1>1. /\ kept \in Seq(Rate!Counter)
      /\ \E gone \in Nat :
           /\ Len(kept) = Len(rtCounters) - gone
           /\ \A i \in 1 .. Len(kept) : i + gone \in 1 .. Len(rtCounters) /\ kept[i] = rtCounters[i + gone]
           /\ \A i \in 1 .. gone : Rate!Expired(rtCounters[i], now)
      /\ \A i \in 1 .. Len(kept) : ~ Rate!Expired(kept[i], now)
  BY PrunedFacts
<1> HIDE DEF kept
<1>2. PICK gone \in Nat :
        /\ Len(kept) = Len(rtCounters) - gone
        /\ \A i \in 1 .. Len(kept) : i + gone \in 1 .. Len(rtCounters) /\ kept[i] = rtCounters[i + gone]
        /\ \A i \in 1 .. gone : Rate!Expired(rtCounters[i], now)
  BY <1>1
<1>3. /\ rtCounters \in Seq(Rate!Counter) /\ Len(rtCounters) \in Nat
      /\ Len(rtCounters) <= RateMaxKeys /\ rtLastTime \in Nat
      /\ Len(kept) \in Nat /\ RateWindow \in Nat /\ RateMaxKeys \in Nat /\ RateLimit \in Nat
  BY <1>1, RateParameters, LenProperties DEF Rate!TypeOK, Rate!Times
<1>4. \A i \in 1 .. Len(rtCounters) : rtCounters[i].reset \in Int /\ rtCounters[i].hits \in Int
  BY <1>3, ElementOfSeq, CounterFields
<1>5. Len(kept) <= RateMaxKeys
  BY <1>2, <1>3
<1>6. InOrder(kept, now)
  <2>1. ASSUME NEW i \in 1 .. Len(kept), NEW j \in 1 .. Len(kept), i <= j
        PROVE  kept[i].reset <= kept[j].reset
    <3>1. i + gone <= j + gone /\ i + gone \in 1 .. Len(rtCounters) /\ j + gone \in 1 .. Len(rtCounters)
      BY <1>2, <1>3, <2>1
    <3>2. rtCounters[i + gone].reset <= rtCounters[j + gone].reset
      BY <3>1 DEF RateSorted, InOrder
    <3> QED
      BY <1>2, <3>2
  <2>2. ASSUME NEW i \in 1 .. Len(kept)
        PROVE  kept[i].reset <= now + RateWindow
    <3> DEFINE k == i + gone
    <3>1. k \in 1 .. Len(rtCounters) /\ kept[i] = rtCounters[k]
      BY <1>2
    <3> HIDE DEF k
    <3>2. rtCounters[k].reset <= rtLastTime + RateWindow /\ rtCounters[k].reset \in Int
      BY <1>4, <3>1 DEF RateSorted, InOrder
    <3>3. rtCounters[k].reset <= now + RateWindow
      BY <1>3, <3>2
    <3> QED
      BY <3>1, <3>3
  <2> QED
    BY <2>1, <2>2 DEF InOrder
<1>7. Alive(kept, now)
  BY <1>1 DEF Alive
<1>8. Carries(rtCounters, kept, now)
  <2> SUFFICES ASSUME NEW i \in 1 .. Len(rtCounters), ~ Rate!Expired(rtCounters[i], now)
               PROVE  \E j \in 1 .. Len(kept) : kept[j].key = rtCounters[i].key
                         /\ kept[j].reset = rtCounters[i].reset /\ kept[j].hits >= rtCounters[i].hits
    BY DEF Carries
  <2>1. ~ (i \in 1 .. gone)
    BY <1>2
  <2>2. i - gone \in 1 .. Len(kept) /\ (i - gone) + gone = i
    BY <1>2, <1>3, <2>1
  <2>3. kept[i - gone] = rtCounters[i]
    BY <1>2, <2>2
  <2>4. rtCounters[i].hits >= rtCounters[i].hits
    BY <1>4
  <2> QED
    BY <2>2, <2>3, <2>4
<1>9. ASSUME OneEach(rtCounters) PROVE OneEach(kept)
  <2> SUFFICES ASSUME NEW i \in 1 .. Len(kept), NEW j \in 1 .. Len(kept), kept[i].key = kept[j].key
               PROVE  i = j
    BY DEF OneEach
  <2>1. i + gone = j + gone
    BY <1>2, <1>9 DEF OneEach
  <2> QED
    BY <1>3, <2>1
<1> QED
  BY <1>1, <1>2, <1>5, <1>6, <1>7, <1>8, <1>9 DEF kept

\* A hit counted in one of the counters.
HitAt(s, i) == [s EXCEPT ![i] = Rate!Hit(s[i])]
LEMMA HitFacts ==
  ASSUME Rate!TypeOK, NEW s \in Seq(Rate!Counter), NEW i \in 1 .. Len(s), NEW now \in Nat,
         InOrder(s, now), Alive(s, now), Carries(rtCounters, s, now),
         NEW r, r = HitAt(s, i)
  PROVE  /\ r \in Seq(Rate!Counter) /\ Len(r) = Len(s)
         /\ InOrder(r, now) /\ Alive(r, now) /\ Carries(rtCounters, r, now)
         /\ r[i] = Rate!Hit(s[i])
         /\ \A j \in 1 .. Len(s) : r[j].key = s[j].key /\ r[j].reset = s[j].reset
<1>1. \A j \in 1 .. Len(s) : s[j] \in Rate!Counter /\ s[j].hits \in Int
  BY ElementOfSeq, CounterFields
<1>2. /\ Rate!Hit(s[i]) \in Rate!Counter /\ Rate!Hit(s[i]).key = s[i].key
      /\ Rate!Hit(s[i]).reset = s[i].reset /\ Rate!Hit(s[i]).hits >= s[i].hits
  BY <1>1, HitLeaves
<1>3. /\ r \in Seq(Rate!Counter) /\ Len(r) = Len(s)
      /\ \A j \in 1 .. Len(s) : r[j] = IF j = i THEN Rate!Hit(s[i]) ELSE s[j]
  BY <1>2, ExceptSeq DEF HitAt
<1>4. \A j \in 1 .. Len(s) : r[j].key = s[j].key /\ r[j].reset = s[j].reset /\ r[j].hits >= s[j].hits
  <2> TAKE j \in 1 .. Len(s)
  <2>1. s[j].hits >= s[j].hits
    BY <1>1
  <2> QED
    BY <1>2, <1>3, <2>1
<1>5. InOrder(r, now) /\ Alive(r, now)
  BY <1>3, <1>4 DEF InOrder, Alive, Rate!Expired
<1>6. Carries(rtCounters, r, now)
  <2> SUFFICES ASSUME NEW j \in 1 .. Len(rtCounters), ~ Rate!Expired(rtCounters[j], now)
               PROVE  \E n \in 1 .. Len(r) : r[n].key = rtCounters[j].key
                         /\ r[n].reset = rtCounters[j].reset /\ r[n].hits >= rtCounters[j].hits
    BY DEF Carries
  <2>1. PICK n \in 1 .. Len(s) : s[n].key = rtCounters[j].key
                         /\ s[n].reset = rtCounters[j].reset /\ s[n].hits >= rtCounters[j].hits
    BY DEF Carries
  <2>2. /\ r[n].key = s[n].key /\ r[n].reset = s[n].reset /\ r[n].hits >= s[n].hits
        /\ n \in 1 .. Len(r) /\ r[n].hits \in Int /\ s[n].hits \in Int
    BY <1>1, <1>3, <1>4, ElementOfSeq, CounterFields
  <2>3. rtCounters[j].hits \in Int
    BY ElementOfSeq, CounterFields DEF Rate!TypeOK
  <2>4. r[n].hits >= rtCounters[j].hits
    BY <2>1, <2>2, <2>3
  <2> QED
    BY <2>1, <2>2, <2>4
<1> QED
  BY <1>2, <1>3, <1>4, <1>5, <1>6

\* A counter begun for a client that had none: its window ends last.
LEMMA AddedFacts ==
  ASSUME Rate!TypeOK, NEW s \in Seq(Rate!Counter), NEW k \in RateKeys, NEW now \in Rate!Times,
         InOrder(s, now), Alive(s, now), Carries(rtCounters, s, now)
  PROVE  LET r == Rate!Added(s, k, now) IN
         /\ r \in Seq(Rate!Counter) /\ Len(r) = Len(s) + 1
         /\ InOrder(r, now) /\ Alive(r, now) /\ Carries(rtCounters, r, now)
         /\ \A j \in 1 .. Len(s) : r[j] = s[j]
         /\ r[Len(s) + 1] = [key |-> k, hits |-> 1, reset |-> now + RateWindow]
<1> DEFINE e == [key |-> k, hits |-> 1, reset |-> now + RateWindow]
           r == Rate!Added(s, k, now)
<1>0. /\ now \in Nat /\ now <= RateMaxTime /\ RateWindow \in Nat /\ RateWindow >= 1
      /\ RateMaxTime \in Nat /\ RateLimit \in Nat /\ RateLimit >= 1 /\ Len(s) \in Nat
  BY RateParameters, LenProperties DEF Rate!Times
<1>1. e \in Rate!Counter /\ e.reset = now + RateWindow
  <2>1. 1 \in 0 .. RateLimit + 1 /\ now + RateWindow \in 0 .. RateMaxTime + RateWindow
    BY <1>0
  <2> QED
    BY <2>1 DEF Rate!Counter
<1>2. r = Append(s, e)
  BY DEF Rate!Added
<1> HIDE DEF r, e
<1>3. /\ r \in Seq(Rate!Counter) /\ Len(r) = Len(s) + 1
      /\ \A j \in 1 .. Len(s) : r[j] = s[j]
      /\ r[Len(s) + 1] = e
  BY <1>1, <1>2, AppendProperties
<1>4. \A j \in 1 .. Len(r) : (j \in 1 .. Len(s) /\ r[j] = s[j]) \/ (j = Len(s) + 1 /\ r[j] = e)
  BY <1>0, <1>3
<1>5. \A j \in 1 .. Len(s) : s[j].reset <= now + RateWindow
  BY DEF InOrder
<1>6. InOrder(r, now)
  <2>1. ASSUME NEW i \in 1 .. Len(r), NEW j \in 1 .. Len(r), i <= j
        PROVE  r[i].reset <= r[j].reset
    <3>1. CASE j \in 1 .. Len(s) /\ r[j] = s[j]
      <4>1. i \in 1 .. Len(s) /\ r[i] = s[i]
        BY <1>0, <1>4, <2>1, <3>1
      <4> QED
        BY <2>1, <3>1, <4>1 DEF InOrder
    <3>2. CASE j = Len(s) + 1 /\ r[j] = e
      <4>1. CASE i \in 1 .. Len(s) /\ r[i] = s[i]
        BY <1>1, <1>5, <3>2, <4>1
      <4>2. CASE r[i] = e
        <5>1. now + RateWindow <= now + RateWindow
          BY <1>0
        <5> QED
          BY <1>1, <3>2, <4>2, <5>1
      <4> QED
        BY <1>4, <4>1, <4>2
    <3> QED
      BY <1>4, <3>1, <3>2
  <2>2. now + RateWindow <= now + RateWindow
    BY <1>0
  <2>3. \A j \in 1 .. Len(r) : r[j].reset <= now + RateWindow
    BY <1>1, <1>4, <1>5, <2>2
  <2> QED
    BY <2>1, <2>3 DEF InOrder
<1>7. Alive(r, now)
  <2>1. ~ (now + RateWindow <= now)
    BY <1>0
  <2> QED
    BY <1>1, <1>4, <2>1 DEF Alive, Rate!Expired
<1>8. Carries(rtCounters, r, now)
  <2> SUFFICES ASSUME NEW j \in 1 .. Len(rtCounters), ~ Rate!Expired(rtCounters[j], now)
               PROVE  \E n \in 1 .. Len(r) : r[n].key = rtCounters[j].key
                         /\ r[n].reset = rtCounters[j].reset /\ r[n].hits >= rtCounters[j].hits
    BY DEF Carries
  <2>1. PICK n \in 1 .. Len(s) : s[n].key = rtCounters[j].key
                         /\ s[n].reset = rtCounters[j].reset /\ s[n].hits >= rtCounters[j].hits
    BY DEF Carries
  <2>2. n \in 1 .. Len(r) /\ r[n] = s[n]
    BY <1>0, <1>3
  <2> QED
    BY <2>1, <2>2
<1> QED
  BY <1>3, <1>6, <1>7, <1>8 DEF r, e

LEMMA AnswerFields ==
  ASSUME NEW a \in Rate!Granted
  PROVE  /\ a.at \in Nat /\ a.at <= RateMaxTime /\ a.from \in {"own", "shared"}
         /\ a.reset \in Nat /\ a.reset <= RateMaxTime + RateWindow
         /\ a.hits \in Nat /\ 1 <= a.hits /\ a.hits <= RateLimit
<1>1. a.at \in 0 .. RateMaxTime /\ a.hits \in 1 .. RateLimit /\ a.reset \in 0 .. RateMaxTime + RateWindow
  BY DEF Rate!Granted, Rate!Times
<1> QED
  BY <1>1, RateParameters DEF Rate!Granted

\* The answers of the last length of a window: some at the end of the list.
LEMMA RecentFacts ==
  ASSUME NEW g \in Seq(Rate!Granted), NEW now \in Nat
  PROVE  LET r == Rate!Recent(g, now) IN
         /\ r \in Seq(Rate!Granted)
         /\ \E gone \in 0 .. Len(g) :
              /\ Len(r) = Len(g) - gone
              /\ \A i \in 1 .. Len(r) : i + gone \in 1 .. Len(g) /\ r[i] = g[i + gone]
              /\ \A i \in 1 .. Len(r) :
                   \E m \in 1 .. Len(g) : m <= i + gone /\ g[m].at + RateWindow > now
<1> DEFINE last == {i \in 1 .. Len(g) : g[i].at + RateWindow > now}
           r == Rate!Recent(g, now)
<1>1. r = Rest(g, last)
  BY DEF Rate!Recent, Rest, First
<1>2. last \in SUBSET (1 .. Len(g)) /\ \A m \in last : g[m].at + RateWindow > now
  OBVIOUS
<1> HIDE DEF last, r
<1>3. r \in Seq(Rate!Granted) /\ \E gone \in 0 .. Len(g) : Leaves(r, g, last, gone)
  BY <1>1, <1>2, FromFirst
<1>4. PICK gone \in 0 .. Len(g) :
        /\ Len(r) = Len(g) - gone
        /\ \A i \in 1 .. Len(r) : i + gone \in 1 .. Len(g) /\ r[i] = g[i + gone]
        /\ \A i \in 1 .. Len(r) : \E m \in last : m <= i + gone
  BY <1>3 DEF Leaves
<1>5. ASSUME NEW i \in 1 .. Len(r)
      PROVE  \E m \in 1 .. Len(g) : m <= i + gone /\ g[m].at + RateWindow > now
  <2>1. PICK m \in last : m <= i + gone
    BY <1>4
  <2> QED
    BY <1>2, <2>1
<1> QED
  BY <1>3, <1>4, <1>5 DEF r

\* What an answer adds to the answers of its client.
Answered(k, now, from, hits, reset) ==
  rtGranted' =
    LET recent == [j \in RateKeys |-> Rate!Recent(rtGranted[j], now)]
    IN IF hits > RateLimit THEN recent
       ELSE [recent EXCEPT ![k] = Append(@, [at |-> now, from |-> from, hits |-> hits, reset |-> reset])]

\* The answers of a client after a request: the recent ones, and the new one if it is
\* the client's and within the limit.
LEMMA GrantFacts ==
  ASSUME Rate!TypeOK, NEW k \in RateKeys, NEW now \in Rate!Times, NEW from \in {"own", "shared"},
         NEW hits \in Nat, NEW reset \in 0 .. RateMaxTime + RateWindow, 1 <= hits,
         Answered(k, now, from, hits, reset)
  PROVE  LET a == [at |-> now, from |-> from, hits |-> hits, reset |-> reset] IN
         /\ rtGranted' \in [RateKeys -> Seq(Rate!Granted)]
         /\ hits <= RateLimit => a \in Rate!Granted
         /\ \A j \in RateKeys :
              \/ rtGranted'[j] = Rate!Recent(rtGranted[j], now)
              \/ /\ j = k /\ hits <= RateLimit
                 /\ rtGranted'[j] = Append(Rate!Recent(rtGranted[j], now), a)
<1> DEFINE a == [at |-> now, from |-> from, hits |-> hits, reset |-> reset]
           recent == [j \in RateKeys |-> Rate!Recent(rtGranted[j], now)]
<1>0. now \in Nat /\ RateLimit \in Nat
  BY RateParameters DEF Rate!Times
<1>1. \A j \in RateKeys : Rate!Recent(rtGranted[j], now) \in Seq(Rate!Granted)
  <2> TAKE j \in RateKeys
  <2>1. rtGranted[j] \in Seq(Rate!Granted)
    BY DEF Rate!TypeOK
  <2> QED
    BY <1>0, <2>1, RecentFacts
<1>2. recent \in [RateKeys -> Seq(Rate!Granted)] /\ \A j \in RateKeys : recent[j] = Rate!Recent(rtGranted[j], now)
  BY <1>1
<1>3. rtGranted' = IF hits > RateLimit THEN recent ELSE [recent EXCEPT ![k] = Append(@, a)]
  BY DEF Answered
<1>4. ASSUME hits <= RateLimit PROVE a \in Rate!Granted
  <2>1. hits \in 1 .. RateLimit
    BY <1>0, <1>4
  <2> QED
    BY <2>1 DEF Rate!Granted
<1> HIDE DEF recent, a
<1>5. CASE hits > RateLimit
  BY <1>0, <1>2, <1>3, <1>4, <1>5 DEF a
<1>6. CASE hits <= RateLimit
  <2>1. Append(recent[k], a) \in Seq(Rate!Granted)
    BY <1>2, <1>4, <1>6, AppendProperties
  <2>2. rtGranted' = [recent EXCEPT ![k] = Append(recent[k], a)]
    BY <1>0, <1>3, <1>6
  <2>3. rtGranted' \in [RateKeys -> Seq(Rate!Granted)]
    BY <1>2, <2>1, <2>2
  <2>4. \A j \in RateKeys : rtGranted'[j] = IF j = k THEN Append(recent[k], a) ELSE recent[j]
    BY <1>2, <2>2
  <2> QED
    BY <1>2, <1>4, <1>6, <2>3, <2>4 DEF a
<1> QED
  BY <1>0, <1>5, <1>6

\* Counters of r go on from those of s, or are new where there was no live one.
Origin(s, r, now) ==
  \A n \in 1 .. Len(r) :
    \/ \E m \in 1 .. Len(s) : s[m].key = r[n].key /\ s[m].reset = r[n].reset
    \/ /\ r[n].reset = now + RateWindow
       /\ \A m \in 1 .. Len(s) : s[m].key = r[n].key => Rate!Expired(s[m], now)

SharedGoesOn(now) ==
  /\ rtOverflow'.reset <= now + RateWindow
  /\ ~ Rate!Expired(rtOverflow, now) =>
       rtOverflow'.reset = rtOverflow.reset /\ rtOverflow'.hits >= rtOverflow.hits
  /\ Rate!Expired(rtOverflow, now) =>
       rtOverflow' = Rate!None \/ rtOverflow'.reset = now + RateWindow

\* The answer of a counter that had not been there yet in its window.
OwnCounted(k, now, hits, reset) ==
  /\ \E n \in 1 .. Len(rtCounters') :
       rtCounters'[n].key = k /\ rtCounters'[n].reset = reset /\ rtCounters'[n].hits = hits
  /\ \A m \in 1 .. Len(rtCounters) :
       rtCounters[m].key = k /\ ~ Rate!Expired(rtCounters[m], now) /\ hits <= RateLimit =>
         rtCounters[m].hits < hits

SharedCounted(now, hits, reset) ==
  /\ rtOverflow'.reset = reset /\ rtOverflow'.hits = hits
  /\ ~ Rate!Expired(rtOverflow, now) /\ hits <= RateLimit => rtOverflow.hits < hits

RequestCounted(k, now) ==
  \E from \in {"own", "shared"}, hits \in Nat, reset \in 0 .. RateMaxTime + RateWindow :
    /\ 1 <= hits /\ now < reset /\ reset <= now + RateWindow
    /\ Answered(k, now, from, hits, reset)
    /\ from = "own" => OwnCounted(k, now, hits, reset)
    /\ from = "shared" => SharedCounted(now, hits, reset)

\* One request of a client: the counters it leaves, whichever way it is counted.
LEMMA IncrementFacts ==
  ASSUME RateInv, NEW k \in RateKeys, NEW clock \in Rate!Times, Rate!Increment(k, clock)
  PROVE  /\ rtLastTime' \in Rate!Times /\ rtLastTime <= rtLastTime'
         /\ rtCounters' \in Seq(Rate!Counter) /\ Len(rtCounters') <= RateMaxKeys
         /\ InOrder(rtCounters', rtLastTime') /\ Alive(rtCounters', rtLastTime')
         /\ Carries(rtCounters, rtCounters', rtLastTime')
         /\ rtOverflow' \in [hits : 0 .. RateLimit + 1, reset : 0 .. RateMaxTime + RateWindow]
         /\ OneEach(rtCounters') /\ Origin(rtCounters, rtCounters', rtLastTime')
         /\ SharedGoesOn(rtLastTime') /\ RequestCounted(k, rtLastTime')
<1> DEFINE OverflowType == [hits : 0 .. RateLimit + 1, reset : 0 .. RateMaxTime + RateWindow]
<1>0. /\ Rate!TypeOK /\ RateSorted /\ rtLastTime \in Nat /\ rtLastTime <= RateMaxTime
      /\ rtOverflow \in OverflowType
      /\ OneEach(rtCounters) /\ rtOverflow.reset <= rtLastTime + RateWindow
      /\ RateMaxTime \in Nat /\ RateLimit \in Nat /\ RateLimit >= 1 /\ RateMaxKeys \in Nat
      /\ RateWindow \in Nat /\ RateWindow >= 1
  BY RateParameters DEF RateInv, RateEarned, Rate!TypeOK, Rate!Times
<1>1. PICK now : now = Rate!Now(clock)
  OBVIOUS
<1>2. now \in Rate!Times /\ now \in Nat /\ rtLastTime <= now /\ now <= RateMaxTime
  BY <1>0, <1>1 DEF Rate!Now, Rate!Times
<1>3. rtLastTime' = now /\ (Rate!IncrementOwn(k, now) \/ Rate!IncrementOther(k, now))
  BY <1>1 DEF Rate!Increment
<1>4. PICK kept : kept = Rate!Pruned(now)
  OBVIOUS
<1>5. /\ kept \in Seq(Rate!Counter) /\ Len(kept) <= RateMaxKeys /\ Len(kept) \in Nat
      /\ InOrder(kept, now) /\ Alive(kept, now) /\ Carries(rtCounters, kept, now)
      /\ \A i \in 1 .. Len(kept) : \E m \in 1 .. Len(rtCounters) : kept[i] = rtCounters[m]
      /\ OneEach(kept) /\ \A i \in 1 .. Len(kept) : kept[i] \in Rate!Counter
  BY <1>0, <1>2, <1>4, KeptFacts, LenProperties, ElementOfSeq
<1>6. /\ Rate!None \in OverflowType /\ Rate!None.reset = 0
      /\ rtOverflow.hits \in 0 .. RateLimit + 1 /\ rtOverflow.reset \in 0 .. RateMaxTime + RateWindow
  <2>1. 0 \in 0 .. RateLimit + 1 /\ 0 \in 0 .. RateMaxTime + RateWindow
    BY <1>0
  <2> QED
    BY <1>0, <2>1 DEF Rate!None
<1>7. ASSUME rtOverflow' = IF Rate!Expired(rtOverflow, now) THEN Rate!None ELSE rtOverflow
      PROVE  rtOverflow' \in OverflowType /\ SharedGoesOn(now)
  <2>1. rtOverflow' \in OverflowType
    BY <1>0, <1>6, <1>7
  <2>2. rtOverflow'.reset <= now + RateWindow
    BY <1>0, <1>2, <1>6, <1>7
  <2>3. rtOverflow.hits >= rtOverflow.hits
    BY <1>0, <1>6
  <2> QED
    BY <1>7, <2>1, <2>2, <2>3 DEF SharedGoesOn
\* What is left of a live counter of k is in kept.
<1>8. ASSUME NEW m \in 1 .. Len(rtCounters), rtCounters[m].key = k, ~ Rate!Expired(rtCounters[m], now)
      PROVE  \E j \in 1 .. Len(kept) : kept[j].key = k /\ kept[j].reset = rtCounters[m].reset
                                       /\ kept[j].hits >= rtCounters[m].hits
  BY <1>5, <1>8 DEF Carries
<1>9. \A m \in 1 .. Len(rtCounters) : rtCounters[m].hits \in Int
  BY <1>0, ElementOfSeq, CounterFields DEF Rate!TypeOK
<1>10. CASE Rate!IncrementOwn(k, now)
  <2>1. PICK i \in 1 .. Len(kept) :
          /\ kept[i].key = k
          /\ rtCounters' = [kept EXCEPT ![i] = Rate!Hit(@)]
          /\ rtOverflow' = IF Rate!Expired(rtOverflow, now) THEN Rate!None ELSE rtOverflow
          /\ Rate!Grant(k, now, "own", Rate!Hit(kept[i]))
    BY <1>4, <1>10 DEF Rate!IncrementOwn
  <2>2. /\ rtCounters' \in Seq(Rate!Counter) /\ Len(rtCounters') = Len(kept)
        /\ InOrder(rtCounters', now) /\ Alive(rtCounters', now) /\ Carries(rtCounters, rtCounters', now)
        /\ rtCounters'[i] = Rate!Hit(kept[i])
        /\ \A j \in 1 .. Len(kept) :
             rtCounters'[j].key = kept[j].key /\ rtCounters'[j].reset = kept[j].reset
    <3>1. /\ kept \in Seq(Rate!Counter) /\ InOrder(kept, now) /\ Alive(kept, now)
          /\ Carries(rtCounters, kept, now) /\ Rate!TypeOK /\ now \in Nat
      BY <1>0, <1>2, <1>5
    <3>2. rtCounters' = HitAt(kept, i)
      BY <2>1 DEF HitAt
    <3> QED
      BY <3>1, <3>2, HitFacts
  <2>3. OneEach(rtCounters')
    BY <1>5, <2>2 DEF OneEach
  <2>10. Origin(rtCounters, rtCounters', now)
    <3> SUFFICES ASSUME NEW n \in 1 .. Len(rtCounters')
                 PROVE  \E m \in 1 .. Len(rtCounters) :
                          rtCounters[m].key = rtCounters'[n].key /\ rtCounters[m].reset = rtCounters'[n].reset
      BY DEF Origin
    <3>1. n \in 1 .. Len(kept)
      BY <2>2
    <3>2. PICK m \in 1 .. Len(rtCounters) : kept[n] = rtCounters[m]
      BY <1>5, <3>1
    <3> QED
      BY <2>2, <3>1, <3>2
  <2> DEFINE c == Rate!Hit(kept[i])
  <2>4. /\ c \in Rate!Counter /\ c.key = k /\ c.reset = kept[i].reset /\ 1 <= c.hits
        /\ c.hits <= RateLimit => kept[i].hits < c.hits
    BY <1>5, <2>1, HitLeaves
  <2>5. /\ c.hits \in Nat /\ c.reset \in 0 .. RateMaxTime + RateWindow /\ c.reset \in Int
        /\ kept[i].hits \in Int
    BY <1>5, <2>4, CounterFields
  <2>6. now < c.reset /\ c.reset <= now + RateWindow
    <3>1. ~ (kept[i].reset <= now) /\ kept[i].reset <= now + RateWindow
      BY <1>5 DEF Alive, InOrder, Rate!Expired
    <3> QED
      BY <1>2, <2>4, <2>5, <3>1
  <2>7. Answered(k, now, "own", c.hits, c.reset)
    BY <2>1 DEF Rate!Grant, Answered
  <2>8. OwnCounted(k, now, c.hits, c.reset)
    <3>1. i \in 1 .. Len(rtCounters') /\ rtCounters'[i] = c
      BY <2>2
    <3>2. ASSUME NEW m \in 1 .. Len(rtCounters), rtCounters[m].key = k,
                 ~ Rate!Expired(rtCounters[m], now), c.hits <= RateLimit
          PROVE  rtCounters[m].hits < c.hits
      <4>1. PICK j \in 1 .. Len(kept) : kept[j].key = k /\ kept[j].hits >= rtCounters[m].hits
        BY <1>8, <3>2
      <4>2. j = i
        BY <1>5, <2>1, <4>1 DEF OneEach
      <4> QED
        BY <1>9, <2>4, <2>5, <3>2, <4>1, <4>2
    <3> HIDE DEF c
    <3> QED
      BY <2>4, <3>1, <3>2 DEF OwnCounted
  <2>9. RequestCounted(k, now)
    <3> HIDE DEF c
    <3> QED
      BY <2>4, <2>5, <2>6, <2>7, <2>8 DEF RequestCounted
  <2> QED
    BY <1>2, <1>3, <1>5, <1>7, <2>1, <2>2, <2>3, <2>9, <2>10
<1>11. CASE Rate!IncrementOther(k, now)
  <2>0. \A i \in 1 .. Len(kept) : kept[i].key # k
    BY <1>4, <1>11 DEF Rate!IncrementOther
  <2>1. \A m \in 1 .. Len(rtCounters) : rtCounters[m].key = k => Rate!Expired(rtCounters[m], now)
    BY <1>8, <2>0
  <2>2. CASE Rate!HasRoom(kept)
    <3> DEFINE e == [key |-> k, hits |-> 1, reset |-> now + RateWindow]
    <3>1. /\ rtCounters' = Rate!Added(kept, k, now)
          /\ rtOverflow' = IF Rate!Expired(rtOverflow, now) THEN Rate!None ELSE rtOverflow
          /\ Rate!Grant(k, now, "own", [hits |-> 1, reset |-> now + RateWindow])
      BY <1>4, <1>11, <2>2 DEF Rate!IncrementOther
    <3>2. /\ rtCounters' \in Seq(Rate!Counter) /\ Len(rtCounters') = Len(kept) + 1
          /\ InOrder(rtCounters', now) /\ Alive(rtCounters', now) /\ Carries(rtCounters, rtCounters', now)
          /\ \A j \in 1 .. Len(kept) : rtCounters'[j] = kept[j]
          /\ rtCounters'[Len(kept) + 1] = e
      BY <1>0, <1>2, <1>5, <3>1, AddedFacts
    <3>3. e.key = k /\ e.hits = 1 /\ e.reset = now + RateWindow
      OBVIOUS
    <3> HIDE DEF e
    <3>4. \A j \in 1 .. Len(rtCounters') :
            (j \in 1 .. Len(kept) /\ rtCounters'[j] = kept[j]) \/ (j = Len(kept) + 1 /\ rtCounters'[j] = e)
      BY <1>5, <3>2
    <3>5. OneEach(rtCounters')
      BY <1>5, <2>0, <3>3, <3>4 DEF OneEach
    <3>6. Origin(rtCounters, rtCounters', now)
      <4> SUFFICES ASSUME NEW n \in 1 .. Len(rtCounters')
                   PROVE  \/ \E m \in 1 .. Len(rtCounters) :
                               /\ rtCounters[m].key = rtCounters'[n].key
                               /\ rtCounters[m].reset = rtCounters'[n].reset
                          \/ /\ rtCounters'[n].reset = now + RateWindow
                             /\ \A m \in 1 .. Len(rtCounters) :
                                  rtCounters[m].key = rtCounters'[n].key => Rate!Expired(rtCounters[m], now)
        BY DEF Origin
      <4>1. CASE n \in 1 .. Len(kept) /\ rtCounters'[n] = kept[n]
        <5>1. PICK m \in 1 .. Len(rtCounters) : kept[n] = rtCounters[m]
          BY <1>5, <4>1
        <5> QED
          BY <4>1, <5>1
      <4>2. CASE rtCounters'[n] = e
        BY <2>1, <3>3, <4>2
      <4> QED
        BY <3>4, <4>1, <4>2
    <3>7. Answered(k, now, "own", 1, now + RateWindow)
      BY <3>1 DEF Rate!Grant, Answered
    <3>8. OwnCounted(k, now, 1, now + RateWindow)
      <4>1. Len(kept) + 1 \in 1 .. Len(rtCounters')
        BY <1>5, <3>2
      <4> QED
        BY <2>1, <3>2, <3>3, <4>1 DEF OwnCounted
    <3>9. RequestCounted(k, now)
      <4>1. /\ 1 \in Nat /\ 1 <= 1 /\ now + RateWindow \in 0 .. RateMaxTime + RateWindow
            /\ now < now + RateWindow /\ now + RateWindow <= now + RateWindow
        BY <1>0, <1>2
      <4> QED
        BY <3>7, <3>8, <4>1 DEF RequestCounted
    <3>10. Len(rtCounters') <= RateMaxKeys
      BY <1>0, <1>5, <2>2, <3>2 DEF Rate!HasRoom
    <3> QED
      BY <1>2, <1>3, <1>7, <3>1, <3>2, <3>5, <3>6, <3>9, <3>10
  <2>3. CASE ~ Rate!HasRoom(kept)
    <3>1. /\ rtCounters' = kept /\ rtOverflow' = Rate!Hit(Rate!Shared(now))
          /\ Rate!Grant(k, now, "shared", rtOverflow')
      BY <1>4, <1>11, <2>3 DEF Rate!IncrementOther
    <3>2. PICK c \in OverflowType : c = Rate!Shared(now)
      <4>1. 0 \in 0 .. RateLimit + 1 /\ now + RateWindow \in 0 .. RateMaxTime + RateWindow
        BY <1>0, <1>2
      <4> QED
        BY <1>0, <4>1 DEF Rate!Shared
    <3>3. \/ ~ Rate!Expired(rtOverflow, now) /\ c = rtOverflow
          \/ Rate!Expired(rtOverflow, now) /\ c = [hits |-> 0, reset |-> now + RateWindow]
      <4>1. Rate!Expired(Rate!None, now)
        BY <1>2, <1>6 DEF Rate!Expired
      <4> QED
        BY <3>2, <4>1 DEF Rate!Shared
    <3> DEFINE h == IF c.hits > RateLimit THEN c.hits ELSE c.hits + 1
    <3>4. c.hits \in 0 .. RateLimit + 1 /\ c.reset \in 0 .. RateMaxTime + RateWindow
      OBVIOUS
    <3>5. /\ h \in 0 .. RateLimit + 1 /\ h >= c.hits /\ 1 <= h /\ h \in Nat
          /\ h <= RateLimit => c.hits < h
      BY <1>0, <3>4
    <3>6. rtOverflow' = [c EXCEPT !.hits = h]
      BY <3>1, <3>2 DEF Rate!Hit
    <3> HIDE DEF h
    <3>7. rtOverflow' \in OverflowType /\ rtOverflow'.hits = h /\ rtOverflow'.reset = c.reset
      BY <3>5, <3>6
    <3>8. now < c.reset /\ c.reset <= now + RateWindow
      <4>1. CASE c = rtOverflow /\ ~ Rate!Expired(rtOverflow, now)
        BY <1>0, <1>2, <1>6, <4>1 DEF Rate!Expired
      <4>2. CASE c = [hits |-> 0, reset |-> now + RateWindow]
        <5>1. c.reset = now + RateWindow
          BY <4>2
        <5> QED
          BY <1>0, <1>2, <5>1
      <4> QED
        BY <3>3, <4>1, <4>2
    <3>9. SharedGoesOn(now)
      <4>1. Rate!Expired(rtOverflow, now) => c.reset = now + RateWindow
        BY <3>3
      <4> QED
        BY <3>3, <3>5, <3>7, <3>8, <4>1 DEF SharedGoesOn
    <3>10. Answered(k, now, "shared", h, c.reset)
      BY <3>1, <3>7 DEF Rate!Grant, Answered
    <3>11. SharedCounted(now, h, c.reset)
      BY <3>3, <3>5, <3>7 DEF SharedCounted
    <3>12. RequestCounted(k, now)
      BY <3>4, <3>5, <3>8, <3>10, <3>11 DEF RequestCounted
    <3>13. OneEach(rtCounters') /\ Origin(rtCounters, rtCounters', now)
      BY <1>5, <3>1 DEF Origin
    <3> QED
      BY <1>2, <1>3, <1>5, <3>1, <3>7, <3>9, <3>12, <3>13
  <2> QED
    BY <2>2, <2>3
<1> QED
  BY <1>3, <1>10, <1>11

\* The answers that stay stay earned.
LEMMA EarnedStays ==
  ASSUME RateInv, NEW now \in Rate!Times, rtLastTime <= now,
         rtCounters' \in Seq(Rate!Counter), Carries(rtCounters, rtCounters', now),
         Origin(rtCounters, rtCounters', now), SharedGoesOn(now),
         rtOverflow' \in [hits : 0 .. RateLimit + 1, reset : 0 .. RateMaxTime + RateWindow],
         NEW k \in RateKeys
  PROVE  LET g == Rate!Recent(rtGranted[k], now) IN
         /\ g \in Seq(Rate!Granted)
         /\ Earned(k, g, now, rtCounters', rtOverflow')
         /\ \A i \in 1 .. Len(g) : g[i].at <= rtLastTime
         /\ \A i \in 1 .. Len(g) : g[i].reset > now => Stands(k, g[i], rtCounters, rtOverflow)
<1> DEFINE f == rtGranted[k]
           g == Rate!Recent(f, now)
<1>0. /\ f \in Seq(Rate!Granted) /\ Len(f) \in Nat
      /\ Earned(k, f, rtLastTime, rtCounters, rtOverflow)
      /\ rtLastTime \in Nat /\ now \in Nat /\ RateWindow \in Nat /\ RateWindow >= 1
      /\ rtOverflow \in [hits : 0 .. RateLimit + 1, reset : 0 .. RateMaxTime + RateWindow]
      /\ rtCounters \in Seq(Rate!Counter) /\ RateLimit \in Nat /\ RateMaxTime \in Nat
  BY RateParameters, LenProperties DEF RateInv, RateEarned, Rate!TypeOK, Rate!Times
<1> HIDE DEF f
<1>a. rtLastTime \in Nat /\ now \in Nat /\ RateWindow \in Nat
  BY <1>0
<1>1. /\ g \in Seq(Rate!Granted)
      /\ \E gone \in 0 .. Len(f) :
           /\ Len(g) = Len(f) - gone
           /\ \A i \in 1 .. Len(g) : i + gone \in 1 .. Len(f) /\ g[i] = f[i + gone]
           /\ \A i \in 1 .. Len(g) :
                \E m \in 1 .. Len(f) : m <= i + gone /\ f[m].at + RateWindow > now
  BY <1>0, RecentFacts
<1> HIDE DEF g
<1>2. PICK gone \in 0 .. Len(f) :
        /\ Len(g) = Len(f) - gone
        /\ \A i \in 1 .. Len(g) : i + gone \in 1 .. Len(f) /\ g[i] = f[i + gone]
        /\ \A i \in 1 .. Len(g) :
             \E m \in 1 .. Len(f) : m <= i + gone /\ f[m].at + RateWindow > now
  BY <1>1
<1>3. /\ \A i \in 1 .. Len(f) : f[i] \in Rate!Granted /\ f[i].at \in Nat /\ f[i].reset \in Nat /\ f[i].hits \in Nat
      /\ \A i \in 1 .. Len(g) : g[i] \in Rate!Granted /\ g[i].at \in Nat /\ g[i].reset \in Nat /\ g[i].hits \in Nat
                                /\ g[i].from \in {"own", "shared"}
      /\ Len(g) \in Nat
  BY <1>0, <1>1, ElementOfSeq, AnswerFields, LenProperties
<1>4. \A i \in 1 .. Len(rtCounters) : rtCounters[i].reset \in Int /\ rtCounters[i].hits \in Int
  BY <1>0, ElementOfSeq, CounterFields
<1>5. \A i \in 1 .. Len(rtCounters') : rtCounters'[i].reset \in Int /\ rtCounters'[i].hits \in Int
  BY ElementOfSeq, CounterFields
<1>6. /\ rtOverflow.hits \in Int /\ rtOverflow.reset \in Int
      /\ rtOverflow'.hits \in Int /\ rtOverflow'.reset \in Int
  <2>1. \A o \in [hits : 0 .. RateLimit + 1, reset : 0 .. RateMaxTime + RateWindow] :
          o.hits \in Int /\ o.reset \in Int
    BY <1>0
  <2> QED
    BY <1>0, <2>1
<1>7. Placed(f, rtLastTime) /\ OnceEach(f) /\ Backed(k, f, rtLastTime, rtCounters, rtOverflow)
  BY <1>0 DEF Earned
<1>8. Placed(g, now)
  <2>1. ASSUME NEW i \in 1 .. Len(g)
        PROVE  g[i].at <= now /\ now < g[i].at + RateWindow
               /\ g[i].at < g[i].reset /\ g[i].reset <= g[i].at + RateWindow
    <3> DEFINE n == i + gone
    <3>1. n \in 1 .. Len(f) /\ g[i] = f[n] /\ \E m \in 1 .. Len(f) : m <= n /\ f[m].at + RateWindow > now
      BY <1>2
    <3> HIDE DEF n
    <3>2. PICK m \in 1 .. Len(f) : m <= n /\ f[m].at + RateWindow > now
      BY <3>1
    <3>3. f[m].at <= f[n].at
      BY <1>7, <3>1, <3>2 DEF Placed
    <3>4. f[n].at <= rtLastTime /\ f[n].at < f[n].reset /\ f[n].reset <= f[n].at + RateWindow
      BY <1>7, <3>1 DEF Placed
    <3>5. f[m].at \in Nat /\ f[n].at \in Nat /\ f[n].reset \in Nat
      BY <1>3, <3>1, <3>2
    <3>6. f[n].at <= now /\ now < f[n].at + RateWindow
      <4> DEFINE p == f[m].at
                 q == f[n].at
      <4>1. p \in Nat /\ q \in Nat /\ p + RateWindow > now /\ p <= q /\ q <= rtLastTime
        BY <3>2, <3>3, <3>4, <3>5
      <4> HIDE DEF p, q
      <4>2. q <= now /\ now < q + RateWindow
        BY <1>a, <4>1
      <4> QED
        BY <4>2 DEF q
    <3> QED
      BY <3>1, <3>4, <3>6
  <2>2. ASSUME NEW i \in 1 .. Len(g), NEW j \in 1 .. Len(g), i <= j
        PROVE  g[i].at <= g[j].at
    <3>1. i + gone <= j + gone
      BY <1>3, <2>2
    <3> QED
      BY <1>2, <1>7, <3>1 DEF Placed
  <2> QED
    BY <2>1, <2>2 DEF Placed
<1>9. OnceEach(g)
  <2> SUFFICES ASSUME NEW i \in 1 .. Len(g), NEW j \in 1 .. Len(g), g[i].from = g[j].from
               PROVE  /\ g[i].reset = g[j].reset /\ g[i].hits = g[j].hits => i = j
                      /\ Apart(g[i].reset, g[j].reset) \/ Apart(g[j].reset, g[i].reset)
    BY DEF OnceEach
  <2>1. i + gone \in 1 .. Len(f) /\ g[i] = f[i + gone] /\ j + gone \in 1 .. Len(f) /\ g[j] = f[j + gone]
    BY <1>2
  <2>2. i + gone = j + gone => i = j
    BY <1>0
  <2> QED
    BY <1>7, <2>1, <2>2 DEF OnceEach
<1>10. \A i \in 1 .. Len(g) : g[i].at <= rtLastTime
  BY <1>2, <1>7 DEF Placed
<1>11. \A i \in 1 .. Len(g) : g[i].reset > now => Stands(k, g[i], rtCounters, rtOverflow)
  <2> SUFFICES ASSUME NEW i \in 1 .. Len(g), g[i].reset > now
               PROVE  Stands(k, g[i], rtCounters, rtOverflow)
    OBVIOUS
  <2>0. g[i].reset \in Nat
    BY <1>3
  <2>1. g[i].reset > rtLastTime
    BY <1>a, <2>0
  <2> QED
    BY <1>2, <1>7, <2>1 DEF Backed
<1>12. Backed(k, g, now, rtCounters', rtOverflow')
  <2>1. ASSUME NEW i \in 1 .. Len(g), g[i].reset > now
        PROVE  Stands(k, g[i], rtCounters', rtOverflow')
    <3>0. g[i].reset \in Nat
      BY <1>3
    <3>1. Stands(k, g[i], rtCounters, rtOverflow)
      BY <1>11, <2>1
    <3>2. CASE g[i].from = "own"
      <4>1. PICK n \in 1 .. Len(rtCounters) :
              rtCounters[n].key = k /\ rtCounters[n].reset = g[i].reset /\ rtCounters[n].hits >= g[i].hits
        BY <3>1, <3>2 DEF Stands
      <4>2. ~ Rate!Expired(rtCounters[n], now)
        BY <1>a, <3>0, <2>1, <4>1 DEF Rate!Expired
      <4>3. PICK j \in 1 .. Len(rtCounters') :
              /\ rtCounters'[j].key = rtCounters[n].key /\ rtCounters'[j].reset = rtCounters[n].reset
              /\ rtCounters'[j].hits >= rtCounters[n].hits
        BY <4>2 DEF Carries
      <4> DEFINE p == rtCounters'[j].hits
                 q == rtCounters[n].hits
                 h == g[i].hits
      <4>4. p >= h
        <5>1. p \in Int /\ q \in Int /\ h \in Nat
          BY <1>3, <1>4, <1>5
        <5>2. p >= q /\ q >= h
          BY <4>1, <4>3
        <5> HIDE DEF p, q, h
        <5> QED
          BY <5>1, <5>2
      <4> QED
        BY <3>2, <4>1, <4>3, <4>4 DEF Stands
    <3>3. CASE g[i].from = "shared"
      <4>1. rtOverflow.reset = g[i].reset /\ rtOverflow.hits >= g[i].hits
        BY <3>1, <3>3 DEF Stands
      <4>2. ~ Rate!Expired(rtOverflow, now)
        BY <1>a, <3>0, <2>1, <4>1 DEF Rate!Expired
      <4>3. rtOverflow'.reset = rtOverflow.reset /\ rtOverflow'.hits >= rtOverflow.hits
        BY <4>2 DEF SharedGoesOn
      <4>4. rtOverflow'.hits >= g[i].hits
        BY <1>3, <1>6, <4>1, <4>3
      <4> QED
        BY <3>3, <4>1, <4>3, <4>4 DEF Stands
    <3> QED
      BY <1>3, <3>2, <3>3
  <2>2. ASSUME NEW i \in 1 .. Len(g), g[i].from = "own",
               NEW n \in 1 .. Len(rtCounters'), rtCounters'[n].key = k
        PROVE  Apart(g[i].reset, rtCounters'[n].reset)
    <3>1. CASE \E m \in 1 .. Len(rtCounters) :
                 rtCounters[m].key = rtCounters'[n].key /\ rtCounters[m].reset = rtCounters'[n].reset
      <4>1. i + gone \in 1 .. Len(f) /\ g[i] = f[i + gone]
        BY <1>2
      <4> QED
        BY <1>7, <2>2, <3>1, <4>1 DEF Backed
    <3>2. CASE /\ rtCounters'[n].reset = now + RateWindow
               /\ \A m \in 1 .. Len(rtCounters) :
                    rtCounters[m].key = rtCounters'[n].key => Rate!Expired(rtCounters[m], now)
      <4>1. ~ (g[i].reset > now)
        <5> SUFFICES ASSUME g[i].reset > now PROVE FALSE
          OBVIOUS
        <5>1. PICK m \in 1 .. Len(rtCounters) : rtCounters[m].key = k /\ rtCounters[m].reset = g[i].reset
          BY <1>11, <2>2 DEF Stands
        <5>2. rtCounters[m].reset <= now
          BY <2>2, <3>2, <5>1 DEF Rate!Expired
        <5>3. g[i].reset \in Nat
          BY <1>3
        <5> QED
          BY <1>a, <5>1, <5>2, <5>3
      <4>2. g[i].reset + RateWindow <= now + RateWindow
        <5>1. g[i].reset \in Nat
          BY <1>3
        <5> QED
          BY <1>a, <4>1, <5>1
      <4> QED
        BY <3>2, <4>2 DEF Apart
    <3> QED
      BY <3>1, <3>2 DEF Origin
  <2>3. ASSUME NEW i \in 1 .. Len(g), g[i].from = "shared"
        PROVE  rtOverflow' = Rate!None \/ Apart(g[i].reset, rtOverflow'.reset)
    <3>1. CASE ~ Rate!Expired(rtOverflow, now)
      <4>1. rtOverflow # Rate!None
        BY <1>0, <3>1 DEF Rate!Expired, Rate!None
      <4>2. i + gone \in 1 .. Len(f) /\ g[i] = f[i + gone]
        BY <1>2
      <4>3. Apart(g[i].reset, rtOverflow.reset)
        BY <1>7, <2>3, <4>1, <4>2 DEF Backed
      <4> QED
        BY <3>1, <4>3 DEF SharedGoesOn
    <3>2. CASE Rate!Expired(rtOverflow, now) /\ rtOverflow' # Rate!None
      <4>1. rtOverflow'.reset = now + RateWindow
        BY <3>2 DEF SharedGoesOn
      <4>2. ~ (g[i].reset > now)
        <5> SUFFICES ASSUME g[i].reset > now PROVE FALSE
          OBVIOUS
        <5>1. rtOverflow.reset = g[i].reset
          BY <1>11, <2>3 DEF Stands
        <5>2. rtOverflow.reset <= now
          BY <3>2 DEF Rate!Expired
        <5>3. g[i].reset \in Nat
          BY <1>3
        <5> QED
          BY <1>a, <5>1, <5>2, <5>3
      <4>3. g[i].reset + RateWindow <= now + RateWindow
        <5>1. g[i].reset \in Nat
          BY <1>3
        <5> QED
          BY <1>a, <4>2, <5>1
      <4> QED
        BY <4>1, <4>3 DEF Apart
    <3> QED
      BY <3>1, <3>2
  <2> QED
    BY <2>1, <2>2, <2>3 DEF Backed
<1> QED
  BY <1>1, <1>8, <1>9, <1>10, <1>11, <1>12 DEF Earned, g, f

\* And so is an answer of a counter that had not stood there in its window.
LEMMA EarnedAnew ==
  ASSUME RateInv, NEW now \in Rate!Times, rtLastTime <= now,
         rtCounters' \in Seq(Rate!Counter), OneEach(rtCounters'),
         rtOverflow' \in [hits : 0 .. RateLimit + 1, reset : 0 .. RateMaxTime + RateWindow],
         NEW k \in RateKeys, NEW g \in Seq(Rate!Granted), NEW a \in Rate!Granted,
         Earned(k, g, now, rtCounters', rtOverflow'),
         \A i \in 1 .. Len(g) : g[i].reset > now => Stands(k, g[i], rtCounters, rtOverflow),
         a.at = now, now < a.reset, a.reset <= now + RateWindow, a.hits <= RateLimit,
         a.from = "own" => OwnCounted(k, now, a.hits, a.reset),
         a.from = "shared" => SharedCounted(now, a.hits, a.reset)
  PROVE  Earned(k, Append(g, a), now, rtCounters', rtOverflow')
<1> DEFINE r == Append(g, a)
<1>0. /\ Len(g) \in Nat /\ now \in Nat /\ RateWindow \in Nat /\ RateWindow >= 1
      /\ a.at \in Nat /\ a.reset \in Nat /\ a.hits \in Nat /\ a.from \in {"own", "shared"}
      /\ \A i \in 1 .. Len(g) : g[i].at \in Nat /\ g[i].reset \in Nat /\ g[i].hits \in Nat
      /\ rtCounters \in Seq(Rate!Counter)
      /\ rtOverflow \in [hits : 0 .. RateLimit + 1, reset : 0 .. RateMaxTime + RateWindow]
      /\ RateLimit \in Nat /\ RateMaxTime \in Nat
  BY RateParameters, LenProperties, ElementOfSeq, AnswerFields DEF Rate!Times, RateInv, Rate!TypeOK
<1>1. /\ Len(r) = Len(g) + 1 /\ r[Len(g) + 1] = a
      /\ \A i \in 1 .. Len(g) : r[i] = g[i]
  BY AppendProperties
<1> HIDE DEF r
<1>a. /\ now \in Nat /\ RateWindow \in Nat /\ RateWindow >= 1 /\ Len(g) \in Nat
      /\ a.at \in Nat /\ a.reset \in Nat /\ a.hits \in Nat
  BY <1>0
<1>2. \A i \in 1 .. Len(r) : (i \in 1 .. Len(g) /\ r[i] = g[i]) \/ (i = Len(g) + 1 /\ r[i] = a)
  BY <1>1, <1>a
<1>3. Placed(g, now) /\ OnceEach(g) /\ Backed(k, g, now, rtCounters', rtOverflow')
  BY DEF Earned
<1>4. \A i \in 1 .. Len(rtCounters) : rtCounters[i].hits \in Int
  BY <1>0, ElementOfSeq, CounterFields
<1>5. Stands(k, a, rtCounters', rtOverflow')
  <2>1. a.hits >= a.hits
    BY <1>0
  <2> QED
    BY <1>0, <2>1 DEF Stands, OwnCounted, SharedCounted
<1>6. a.from = "own" =>
        \A n \in 1 .. Len(rtCounters') : rtCounters'[n].key = k => rtCounters'[n].reset = a.reset
  BY <1>5 DEF Stands, OneEach
<1>7. a.from = "shared" => rtOverflow'.reset = a.reset
  BY DEF SharedCounted
<1>8. Placed(r, now)
  <2>1. \A i \in 1 .. Len(r) :
          /\ r[i].at <= now /\ now < r[i].at + RateWindow
          /\ r[i].at < r[i].reset /\ r[i].reset <= r[i].at + RateWindow
    <3>1. a.at <= now /\ now < a.at + RateWindow /\ a.at < a.reset /\ a.reset <= a.at + RateWindow
      BY <1>0
    <3> QED
      BY <1>2, <1>3, <3>1 DEF Placed
  <2>2. ASSUME NEW i \in 1 .. Len(r), NEW j \in 1 .. Len(r), i <= j
        PROVE  r[i].at <= r[j].at
    <3>1. CASE j \in 1 .. Len(g) /\ r[j] = g[j]
      <4>1. i # Len(g) + 1
        BY <1>a, <2>2, <3>1
      <4>2. i \in 1 .. Len(g) /\ r[i] = g[i]
        BY <1>2, <4>1
      <4> QED
        BY <1>3, <2>2, <3>1, <4>2 DEF Placed
    <3>2. CASE r[j] = a
      BY <2>1, <3>2
    <3> QED
      BY <1>2, <3>1, <3>2
  <2> QED
    BY <2>1, <2>2 DEF Placed
<1>9. ASSUME NEW i \in 1 .. Len(g), g[i].from = a.from
      PROVE  /\ Apart(g[i].reset, a.reset)
             /\ g[i].reset = a.reset => g[i].hits < a.hits
  <2>1. CASE a.from = "own"
    <3>1. PICK n \in 1 .. Len(rtCounters') : rtCounters'[n].key = k /\ rtCounters'[n].reset = a.reset
      BY <2>1 DEF OwnCounted
    <3>2. Apart(g[i].reset, a.reset)
      BY <1>3, <1>9, <2>1, <3>1 DEF Backed
    <3>3. ASSUME g[i].reset = a.reset PROVE g[i].hits < a.hits
      <4>1. PICK m \in 1 .. Len(rtCounters) :
              rtCounters[m].key = k /\ rtCounters[m].reset = a.reset /\ rtCounters[m].hits >= g[i].hits
        <5>1. g[i].reset > now
          BY <1>0, <3>3
        <5> QED
          BY <1>9, <2>1, <3>3, <5>1 DEF Stands
      <4>2. ~ Rate!Expired(rtCounters[m], now)
        BY <1>a, <4>1 DEF Rate!Expired
      <4>3. rtCounters[m].hits < a.hits
        BY <2>1, <4>1, <4>2 DEF OwnCounted
      <4>4. rtCounters[m].hits \in Int /\ g[i].hits \in Nat
        BY <1>0, <1>4
      <4> DEFINE p == rtCounters[m].hits
                 q == g[i].hits
      <4>5. p \in Int /\ q \in Nat /\ p >= q /\ p < a.hits
        BY <4>1, <4>3, <4>4
      <4> HIDE DEF p, q
      <4>6. q < a.hits
        BY <1>a, <4>5
      <4> QED
        BY <4>6 DEF q
    <3> QED
      BY <3>2, <3>3
  <2>2. CASE a.from = "shared"
    <3>1. rtOverflow' # Rate!None
      <4>1. Rate!None.reset = 0
        BY DEF Rate!None
      <4> QED
        BY <1>0, <1>7, <2>2, <4>1
    <3>2. Apart(g[i].reset, a.reset)
      BY <1>3, <1>7, <1>9, <2>2, <3>1 DEF Backed
    <3>3. ASSUME g[i].reset = a.reset PROVE g[i].hits < a.hits
      <4>1. rtOverflow.reset = a.reset /\ rtOverflow.hits >= g[i].hits
        <5>1. g[i].reset > now
          BY <1>0, <3>3
        <5> QED
          BY <1>9, <2>2, <3>3, <5>1 DEF Stands
      <4>2. ~ Rate!Expired(rtOverflow, now)
        BY <1>0, <4>1 DEF Rate!Expired
      <4>3. rtOverflow.hits < a.hits
        BY <2>2, <4>2 DEF SharedCounted
      <4> DEFINE p == rtOverflow.hits
                 q == g[i].hits
      <4>4. p \in 0 .. RateLimit + 1 /\ q \in Nat /\ p >= q /\ p < a.hits
        BY <1>0, <4>1, <4>3
      <4> HIDE DEF p, q
      <4>5. q < a.hits
        BY <1>a, <4>4
      <4> QED
        BY <4>5 DEF q
    <3> QED
      BY <3>2, <3>3
  <2> QED
    BY <1>0, <2>1, <2>2
<1>10. OnceEach(r)
  <2> SUFFICES ASSUME NEW i \in 1 .. Len(r), NEW j \in 1 .. Len(r), r[i].from = r[j].from
               PROVE  /\ r[i].reset = r[j].reset /\ r[i].hits = r[j].hits => i = j
                      /\ Apart(r[i].reset, r[j].reset) \/ Apart(r[j].reset, r[i].reset)
    BY DEF OnceEach
  <2>1. CASE i \in 1 .. Len(g) /\ r[i] = g[i] /\ j \in 1 .. Len(g) /\ r[j] = g[j]
    BY <1>3, <2>1 DEF OnceEach
  <2>2. CASE i \in 1 .. Len(g) /\ r[i] = g[i] /\ r[j] = a
    <3>1. g[i].reset = a.reset => g[i].hits < a.hits
      BY <1>9, <2>2
    <3>2. g[i].hits \in Nat
      BY <1>0, <2>2
    <3>3. g[i].reset = a.reset => g[i].hits # a.hits
      BY <1>a, <3>1, <3>2
    <3> QED
      BY <1>9, <2>2, <3>3
  <2>3. CASE r[i] = a /\ j \in 1 .. Len(g) /\ r[j] = g[j]
    <3>1. g[j].reset = a.reset => g[j].hits < a.hits
      BY <1>9, <2>3
    <3>2. g[j].hits \in Nat
      BY <1>0, <2>3
    <3>3. g[j].reset = a.reset => g[j].hits # a.hits
      BY <1>a, <3>1, <3>2
    <3> QED
      BY <1>9, <2>3, <3>3
  <2>4. CASE i = Len(g) + 1 /\ r[i] = a /\ j = Len(g) + 1 /\ r[j] = a
    BY <2>4 DEF Apart
  <2> QED
    BY <1>2, <2>1, <2>2, <2>3, <2>4
<1>11. Backed(k, r, now, rtCounters', rtOverflow')
  <2> SUFFICES ASSUME NEW i \in 1 .. Len(r)
               PROVE  /\ r[i].reset > now => Stands(k, r[i], rtCounters', rtOverflow')
                      /\ r[i].from = "own" => \A n \in 1 .. Len(rtCounters') :
                           rtCounters'[n].key = k => Apart(r[i].reset, rtCounters'[n].reset)
                      /\ r[i].from = "shared" =>
                           rtOverflow' = Rate!None \/ Apart(r[i].reset, rtOverflow'.reset)
    BY DEF Backed
  <2>1. CASE i \in 1 .. Len(g) /\ r[i] = g[i]
    BY <1>3, <2>1 DEF Backed
  <2>2. CASE r[i] = a
    BY <1>5, <1>6, <1>7, <2>2 DEF Apart
  <2> QED
    BY <1>2, <2>1, <2>2
<1> QED
  BY <1>8, <1>10, <1>11 DEF Earned, r

LEMMA IncrementEarned ==
  ASSUME RateInv, NEW k \in RateKeys, NEW clock \in Rate!Times, Rate!Increment(k, clock)
  PROVE  RateEarned' /\ rtGranted' \in [RateKeys -> Seq(Rate!Granted)]
<1>1. PICK now : now = rtLastTime'
  OBVIOUS
<1>2. /\ now \in Rate!Times /\ rtLastTime <= now
      /\ rtCounters' \in Seq(Rate!Counter) /\ Carries(rtCounters, rtCounters', now)
      /\ rtOverflow' \in [hits : 0 .. RateLimit + 1, reset : 0 .. RateMaxTime + RateWindow]
      /\ OneEach(rtCounters') /\ Origin(rtCounters, rtCounters', now)
      /\ SharedGoesOn(now) /\ RequestCounted(k, now) /\ Rate!TypeOK
  BY <1>1, IncrementFacts DEF RateInv
<1>3. PICK from \in {"own", "shared"}, hits \in Nat, reset \in 0 .. RateMaxTime + RateWindow :
        /\ 1 <= hits /\ now < reset /\ reset <= now + RateWindow
        /\ Answered(k, now, from, hits, reset)
        /\ from = "own" => OwnCounted(k, now, hits, reset)
        /\ from = "shared" => SharedCounted(now, hits, reset)
  BY <1>2 DEF RequestCounted
<1>4. PICK a : a = [at |-> now, from |-> from, hits |-> hits, reset |-> reset]
  OBVIOUS
<1>5. /\ rtGranted' \in [RateKeys -> Seq(Rate!Granted)]
      /\ hits <= RateLimit => a \in Rate!Granted
      /\ \A j \in RateKeys :
           \/ rtGranted'[j] = Rate!Recent(rtGranted[j], now)
           \/ j = k /\ hits <= RateLimit /\ rtGranted'[j] = Append(Rate!Recent(rtGranted[j], now), a)
  BY <1>2, <1>3, <1>4, GrantFacts
<1>6. a.at = now /\ a.from = from /\ a.hits = hits /\ a.reset = reset
  BY <1>4
<1>7. ASSUME NEW j \in RateKeys
      PROVE  Earned(j, rtGranted'[j], now, rtCounters', rtOverflow')
  <2> DEFINE g == Rate!Recent(rtGranted[j], now)
  <2>1. /\ g \in Seq(Rate!Granted) /\ Earned(j, g, now, rtCounters', rtOverflow')
        /\ \A i \in 1 .. Len(g) : g[i].reset > now => Stands(j, g[i], rtCounters, rtOverflow)
    BY <1>2, EarnedStays
  <2> HIDE DEF g
  <2>2. CASE rtGranted'[j] = g
    BY <2>1, <2>2
  <2>3. CASE j = k /\ hits <= RateLimit /\ rtGranted'[j] = Append(g, a)
    <3>1. Earned(k, Append(g, a), now, rtCounters', rtOverflow')
      BY <1>2, <1>3, <1>5, <1>6, <2>1, <2>3, EarnedAnew
    <3> QED
      BY <2>3, <3>1
  <2> QED
    BY <1>5, <2>2, <2>3 DEF g
<1> QED
  BY <1>1, <1>2, <1>5, <1>7 DEF RateEarned, SharedGoesOn

LEMMA RateInitial == Rate!Init => RateInv
<1> SUFFICES ASSUME Rate!Init PROVE RateInv
  OBVIOUS
<1>0. rtLastTime = 0 /\ rtCounters = <<>> /\ rtOverflow = Rate!None
  BY DEF Rate!Init
<1>1. /\ RateMaxKeys \in Nat /\ RateMaxTime \in Nat /\ RateLimit \in Nat /\ RateWindow \in Nat
  BY RateParameters
<1>2. rtCounters \in Seq(Rate!Counter) /\ Len(rtCounters) = 0
  BY <1>0
<1>3. rtOverflow \in [hits : 0 .. RateLimit + 1, reset : 0 .. RateMaxTime + RateWindow]
  <2>1. 0 \in 0 .. RateLimit + 1 /\ 0 \in 0 .. RateMaxTime + RateWindow
    BY <1>1
  <2> QED
    BY <1>0, <2>1 DEF Rate!None
<1>4. rtGranted \in [RateKeys -> Seq(Rate!Granted)] /\ \A k \in RateKeys : rtGranted[k] = <<>>
  BY DEF Rate!Init
<1>5. rtLastTime \in Rate!Times /\ Len(rtCounters) <= RateMaxKeys
  BY <1>0, <1>1, <1>2 DEF Rate!Times
<1>6. \A i \in 1 .. 0 : FALSE
  OBVIOUS
<1>7. RateEarned
  <2>1. OneEach(rtCounters) /\ rtOverflow.reset <= rtLastTime + RateWindow
    BY <1>0, <1>1, <1>2, <1>6 DEF OneEach, Rate!None
  <2>3. ASSUME NEW k \in RateKeys
        PROVE  Earned(k, rtGranted[k], rtLastTime, rtCounters, rtOverflow)
    <3>1. Len(rtGranted[k]) = 0
      BY <1>4
    <3> QED
      BY <1>6, <3>1 DEF Earned, Placed, OnceEach, Backed
  <2> QED
    BY <2>1, <2>3 DEF RateEarned
<1> QED
  BY <1>2, <1>3, <1>4, <1>5, <1>6, <1>7 DEF RateInv, RateSorted, InOrder, Rate!NoDeadCounter, Rate!TypeOK

LEMMA RateStep == RateInv /\ [Rate!Next]_rateVars => RateInv'
<1> SUFFICES ASSUME RateInv, [Rate!Next]_rateVars PROVE RateInv'
  OBVIOUS
<1>1. CASE Rate!Next
  <2>1. PICK k \in RateKeys, clock \in Rate!Times : Rate!Increment(k, clock)
    BY <1>1 DEF Rate!Next
  <2> QED
    BY <2>1, IncrementFacts, IncrementEarned
       DEF RateInv, RateSorted, Rate!TypeOK, Rate!NoDeadCounter, Alive
<1>2. CASE UNCHANGED rateVars
  BY <1>2 DEF RateInv, RateSorted, InOrder, Rate!TypeOK, Rate!NoDeadCounter, rateVars,
              Rate!Expired, RateEarned, OneEach, Earned, Placed, OnceEach, Backed, Stands
<1> QED
  BY <1>1, <1>2

\* No step of the limiter ends a window early or takes a hit off it.
LEMMA RateCarries ==
  ASSUME RateInv, [Rate!Next]_rateVars
  PROVE  Carries(rtCounters, rtCounters', rtLastTime') \/ UNCHANGED Rate!vars
<1>1. CASE Rate!Next
  BY <1>1, IncrementFacts DEF Rate!Next
<1>2. CASE UNCHANGED rateVars
  BY <1>2 DEF rateVars, Rate!vars
<1> QED
  BY <1>1, <1>2

LEMMA RateLives == [ServerNext]_serverVars => [Rate!Next]_rateVars
BY DEF ServerNext, OthersStill, serverVars, rateVars

\* The invariant of the limiter, in every reachable state of the server.
THEOREM RateHolds == ServerSpec => []RateInv
<1>1. ServerInit => RateInv
  BY RateInitial DEF ServerInit
<1>2. RateInv /\ [ServerNext]_serverVars => RateInv'
  BY RateStep, RateLives
<1> QED
  BY <1>1, <1>2, PTL DEF ServerSpec

AmongTwo(g, from, x, y) == \A i \in 1 .. Len(g) : g[i].from = from => g[i].reset \in {x, y}

\* Of the windows of one counter, at most two have ended in the last length of a
\* window or have yet to end.
LEMMA TwoWindows ==
  ASSUME NEW g \in Seq(Rate!Granted), NEW now \in Nat, Placed(g, now), OnceEach(g),
         NEW from
  PROVE  \E x, y : AmongTwo(g, from, x, y)
<1>0. RateWindow \in Nat /\ \A i \in 1 .. Len(g) : g[i].at \in Nat /\ g[i].reset \in Nat
  BY RateParameters, ElementOfSeq, AnswerFields
<1>1. CASE \A i \in 1 .. Len(g) : g[i].from # from
  BY <1>1 DEF AmongTwo
<1>2. CASE \E i \in 1 .. Len(g) : g[i].from = from
  <2>1. PICK i \in 1 .. Len(g) : g[i].from = from
    BY <1>2
  <2>2. CASE \A j \in 1 .. Len(g) : g[j].from = from => g[j].reset = g[i].reset
    BY <2>2 DEF AmongTwo
  <2>3. CASE \E j \in 1 .. Len(g) : g[j].from = from /\ g[j].reset # g[i].reset
    <3>1. PICK j \in 1 .. Len(g) : g[j].from = from /\ g[j].reset # g[i].reset
      BY <2>3
    <3>2. ASSUME NEW n \in 1 .. Len(g), g[n].from = from
          PROVE  g[n].reset \in {g[i].reset, g[j].reset}
      <4>1. ASSUME NEW m \in 1 .. Len(g)
            PROVE  now < g[m].reset + RateWindow /\ g[m].reset <= now + RateWindow
        <5>1. /\ g[m].at <= now /\ now < g[m].at + RateWindow
              /\ g[m].at < g[m].reset /\ g[m].reset <= g[m].at + RateWindow
          BY DEF Placed
        <5> DEFINE t == g[m].at
                   u == g[m].reset
        <5>2. /\ t \in Nat /\ u \in Nat /\ RateWindow \in Nat
              /\ t <= now /\ now < t + RateWindow /\ t < u /\ u <= t + RateWindow
          BY <1>0, <5>1
        <5> HIDE DEF t, u
        <5>3. now < u + RateWindow /\ u <= now + RateWindow
          BY <5>2
        <5> QED
          BY <5>3 DEF u
      <4>2. /\ Apart(g[i].reset, g[j].reset) \/ Apart(g[j].reset, g[i].reset)
            /\ Apart(g[i].reset, g[n].reset) \/ Apart(g[n].reset, g[i].reset)
            /\ Apart(g[n].reset, g[j].reset) \/ Apart(g[j].reset, g[n].reset)
        BY <2>1, <3>1, <3>2 DEF OnceEach
      <4> DEFINE p == g[i].reset
                 q == g[j].reset
                 r == g[n].reset
      <4>3. /\ p \in Nat /\ q \in Nat /\ r \in Nat /\ p # q
            /\ now < p + RateWindow /\ p <= now + RateWindow
            /\ now < q + RateWindow /\ q <= now + RateWindow
            /\ now < r + RateWindow /\ r <= now + RateWindow
        BY <1>0, <3>1, <4>1
      <4>4. /\ p = q \/ p + RateWindow <= q \/ q + RateWindow <= p
            /\ p = r \/ p + RateWindow <= r \/ r + RateWindow <= p
            /\ r = q \/ r + RateWindow <= q \/ q + RateWindow <= r
        BY <4>2 DEF Apart
      <4> HIDE DEF p, q, r
      <4>5. r = p \/ r = q
        BY <1>0, <4>3, <4>4
      <4> QED
        BY <4>5 DEF p, q, r
    <3> QED
      BY <3>2 DEF AmongTwo
  <2> QED
    BY <2>2, <2>3
<1> QED
  BY <1>1, <1>2

\* Hence the answers are no more than two windows of either counter allow.
LEMMA EarnedBounds ==
  ASSUME NEW g \in Seq(Rate!Granted), NEW now \in Nat, Placed(g, now), OnceEach(g)
  PROVE  Len(g) <= 4 * RateLimit
<1>0. /\ RateLimit \in Nat /\ 4 * RateLimit \in Nat /\ Len(g) \in Nat
      /\ \A i \in 1 .. Len(g) : /\ g[i].hits \in Nat /\ 1 <= g[i].hits /\ g[i].hits <= RateLimit
                                /\ g[i].from \in {"own", "shared"}
  BY RateParameters, LenProperties, ElementOfSeq, AnswerFields
<1>1. PICK x, y : AmongTwo(g, "own", x, y)
  BY TwoWindows
<1>2. PICK v, w : AmongTwo(g, "shared", v, w)
  BY TwoWindows
<1> DEFINE quarter(i) == IF g[i].from = "own" THEN (IF g[i].reset = x THEN 0 ELSE RateLimit)
                         ELSE (IF g[i].reset = v THEN 2 * RateLimit ELSE 3 * RateLimit)
           place == [i \in 1 .. Len(g) |-> quarter(i) + g[i].hits]
<1>3. \A i \in 1 .. Len(g) : quarter(i) \in {0, RateLimit, 2 * RateLimit, 3 * RateLimit}
  OBVIOUS
<1>4. \A i \in 1 .. Len(g) : quarter(i) + g[i].hits \in 1 .. 4 * RateLimit
  BY <1>0, <1>3
<1>5. ASSUME NEW i \in 1 .. Len(g), NEW j \in 1 .. Len(g),
             quarter(i) + g[i].hits = quarter(j) + g[j].hits
      PROVE  i = j
  <2>1. quarter(i) = quarter(j) /\ g[i].hits = g[j].hits
    <3> DEFINE a == quarter(i)
               b == quarter(j)
               h == g[i].hits
               l == g[j].hits
    <3>1. a \in {0, RateLimit, 2 * RateLimit, 3 * RateLimit} /\ b \in {0, RateLimit, 2 * RateLimit, 3 * RateLimit}
          /\ a + h = b + l
      BY <1>3, <1>5
    <3>2. /\ RateLimit \in Nat /\ h \in Nat /\ 1 <= h /\ h <= RateLimit
          /\ l \in Nat /\ 1 <= l /\ l <= RateLimit
      BY <1>0
    <3> HIDE DEF a, b, h, l
    <3>3. a = b /\ h = l
      BY <3>1, <3>2
    <3> QED
      BY <3>3 DEF a, b, h, l
  <2>2. RateLimit >= 1
    BY RateParameters
  <2>3. g[i].from = g[j].from
    BY <1>0, <2>1, <2>2
  <2>4. g[i].reset = g[j].reset
    BY <1>0, <1>1, <1>2, <2>1, <2>2, <2>3 DEF AmongTwo
  <2> QED
    BY <2>1, <2>3, <2>4 DEF OnceEach
<1>6. place \in Injection(1 .. Len(g), 1 .. 4 * RateLimit)
  <2>1. place \in [1 .. Len(g) -> 1 .. 4 * RateLimit]
    BY <1>4
  <2>2. \A i, j \in 1 .. Len(g) : place[i] = place[j] => i = j
    BY <1>5
  <2> QED
    BY <2>1, <2>2 DEF Injection, IsInjective
<1>7. /\ IsFiniteSet(1 .. 4 * RateLimit) /\ Cardinality(1 .. 4 * RateLimit) = 4 * RateLimit
      /\ Cardinality(1 .. Len(g)) = Len(g)
  <2>2. ASSUME NEW n \in Nat PROVE IsFiniteSet(1 .. n) /\ Cardinality(1 .. n) = n
    <3>1. IsFiniteSet(1 .. n) /\ Cardinality(1 .. n) = IF 1 > n THEN 0 ELSE n - 1 + 1
      BY FS_Interval
    <3> QED
      BY <3>1
  <2> QED
    BY <1>0, <2>2
<1> HIDE DEF place
<1> QED
  BY <1>6, <1>7, FS_Injection

\* For any clients, limit, window and room, wherever the clock is set: no client gets
\* more within the length of a window than two windows of its own counter and two of
\* the shared one allow, no counter in the Map is dead, and a window once begun goes on
\* to its end with its count.
THEOREM RatesAreKept == ServerSpec => RatesKept
<1>1. RateInv => Rate!NoDeadCounter /\ Rate!RateBounded
  <2> SUFFICES ASSUME RateInv, NEW k \in RateKeys PROVE Len(rtGranted[k]) <= 4 * RateLimit
    BY DEF RateInv, Rate!RateBounded
  <2>1. rtGranted[k] \in Seq(Rate!Granted) /\ rtLastTime \in Nat
    BY DEF RateInv, Rate!TypeOK, Rate!Times
  <2>2. Placed(rtGranted[k], rtLastTime) /\ OnceEach(rtGranted[k])
    BY DEF RateInv, RateEarned, Earned
  <2> QED
    BY <2>1, <2>2, EarnedBounds
<1>2. RateInv /\ [Rate!Next]_rateVars =>
        [\A i \in 1 .. Len(rtCounters) :
           ~ Rate!Expired(rtCounters[i], rtLastTime') =>
             \E j \in 1 .. Len(rtCounters') :
               /\ rtCounters'[j].key = rtCounters[i].key
               /\ rtCounters'[j].reset = rtCounters[i].reset
               /\ rtCounters'[j].hits >= rtCounters[i].hits]_(Rate!vars)
  BY RateCarries DEF Carries
<1> QED
  BY <1>1, <1>2, RateHolds, RateLives, PTL DEF ServerSpec, RatesKept, Rate!WindowsPreserved

-----------------------------------------------------------------------------
(* The authorization slot, and the types of every part *)

\* The slot within the server is that of WorkflowCapacity: what is proved of the one
\* holds of the other.
THEOREM SlotRuns == ServerSpec => CapacitySpec
<1>1. ServerInit => CapacityInit
  BY DEF ServerInit
<1>2. [ServerNext]_serverVars => [CapacityNext]_capacityVars
  BY DEF ServerNext, OthersStill, serverVars, capacityVars
<1> QED
  BY <1>1, <1>2, PTL DEF ServerSpec, CapacitySpec

\* One call at a time holds the slot, waiting calls are counted and served oldest
\* first, in the server as in the slot by itself.
THEOREM SlotServesInServer == ServerSpec => []CapacityAccounted /\ SlotServes
BY SlotRuns, CapacityIsAccounted, SlotServesCalls, PTL

LEMMA QuoteReplies ==
  /\ QuoteFailures \subseteq Quote!Replies
  /\ \A r \in Quote!Replies : Quote!Answered(r) \in {"quotes", "nothing", "400", "429", "502"}
<1>1. QuoteFailures \subseteq Quote!Replies
  BY DEF QuoteFailures, Quote!Replies, Quote!Bodies, Quote!Statuses
<1>2. ASSUME NEW r \in Quote!Replies
      PROVE  Quote!Answered(r) \in {"quotes", "nothing", "400", "429", "502"}
  BY DEF Quote!Answered
<1> QED
  BY <1>1, <1>2

LEMMA QuoteTyped == QuoteInv => Quote!TypeOK
<1> SUFFICES ASSUME QuoteInv PROVE Quote!TypeOK
  OBVIOUS
<1> DEFINE Attempts == {"socket", "http"} \X Quote!Replies
<1>0. QuoteShape /\ QuoteUnasked /\ QuoteAsking /\ QuoteSettled
  BY DEF QuoteInv
<1>1. \A a \in Attempts : <<a>> \in Seq(Attempts) /\ Len(<<a>>) <= 2
  BY QuoteSequences
<1>2. \A a, b \in Attempts : <<a, b>> \in Seq(Attempts) /\ Len(<<a, b>>) <= 2
  BY QuoteSequences
<1>3. \A t \in {"socket", "http"}, r \in Quote!Replies : <<t, r>> \in Attempts
  OBVIOUS
<1>4. <<>> \in Seq(Attempts) /\ Len(<<>>) <= 2
  BY QuoteSequences
<1> HIDE DEF Attempts
<1>5. qpTried \in Seq(Attempts) /\ Len(qpTried) <= 2
  <2>1. CASE qpAttempt = "none"
    BY <1>0, <1>4, <2>1 DEF QuoteUnasked
  <2>2. CASE qpAttempt \in {"sent", "reading"}
    <3>1. QuoteBefore(qpOver)
      BY <1>0, <2>2 DEF QuoteAsking
    <3>2. CASE qpTried = <<>>
      BY <1>4, <3>2
    <3>3. CASE \E r \in QuoteFailures : qpTried = << <<"socket", r>> >>
      BY <1>1, <1>3, <3>3, QuoteReplies
    <3> QED
      BY <3>1, <3>2, <3>3 DEF QuoteBefore
  <2>3. CASE qpAttempt = "over"
    <3>1. qpReply \in Quote!Replies /\ qpOver \in {"socket", "http"} /\ QuoteAfter(qpOver, qpReply)
      BY <1>0, <2>3 DEF QuoteSettled
    <3>2. CASE qpTried = << <<qpOver, qpReply>> >>
      BY <1>1, <1>3, <3>1, <3>2
    <3>3. CASE \E r \in QuoteFailures : qpTried = << <<"socket", r>>, <<"http", qpReply>> >>
      BY <1>2, <1>3, <3>1, <3>3, QuoteReplies
    <3> QED
      BY <3>1, <3>2, <3>3 DEF QuoteAfter
  <2> QED
    BY <1>0, <2>1, <2>2, <2>3 DEF QuoteShape
<1>6. qpResponse \in {"none", "dropped", "quotes", "nothing", "400", "429", "502"}
  <2>1. CASE qpAttempt = "none"
    BY <1>0, <2>1 DEF QuoteUnasked
  <2>2. CASE qpAttempt \in {"sent", "reading"}
    BY <1>0, <2>2 DEF QuoteAsking
  <2>3. CASE qpAttempt = "over"
    BY <1>0, <2>3, QuoteReplies DEF QuoteSettled
  <2> QED
    BY <1>0, <2>1, <2>2, <2>3 DEF QuoteShape
<1> QED
  BY <1>0, <1>5, <1>6 DEF Quote!TypeOK, QuoteShape, Attempts

\* Type correctness of the whole server, for any value of its constants.
THEOREM ServerTyped == ServerSpec => []ServerTypeOK
<1>1. CapacityTypeOK /\ PasswordInv /\ LogInv /\ RequestInv /\ LifeInv /\ RateInv /\ ProbeInv
        /\ QuoteInv /\ StreamInv /\ PromotionInv /\ PreparationInv => ServerTypeOK
  BY QuoteTyped DEF ServerTypeOK, PasswordInv, LogInv, RequestInv, LifeInv, RateInv, ProbeInv,
         StreamInv, PromotionInv, PreparationInv
<1>2. ServerSpec => []CapacityTypeOK
  BY SlotRuns, CapacityTyped, PTL
<1> QED
  BY <1>1, <1>2, PasswordHolds, LogHolds, RequestHolds, LifeHolds, RateHolds, ProbeHolds,
     QuoteHolds, StreamHolds, PromotionHolds, PreparationHolds, PTL
===============================================================================
