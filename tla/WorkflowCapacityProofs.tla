------------------------ MODULE WorkflowCapacityProofs ------------------------
(***************************************************************************)
(* WorkflowCapacity is correct for any set of calls, any subset of readers *)
(* and any queue bound.                                                    *)
(***************************************************************************)
EXTENDS WorkflowCapacity, SequenceTheorems, TLAPS

\* The slot and the queue vouch for each other: a hand-over keeps one holder
\* because the head of the queue is a waiting call, and it finds a queue to
\* serve because a non-empty queue has a holder.
CapacityInv == CapacityTypeOK /\ SlotAccounted /\ QueueAccounted

\* Array.prototype.splice(i, 1): one element leaves, the order of the others stays.
LEMMA RemoveAtFacts ==
  ASSUME NEW S, NEW s \in Seq(S), NEW i \in 1 .. Len(s)
  PROVE  /\ RemoveAt(s, i) \in Seq(S)
         /\ Len(RemoveAt(s, i)) = Len(s) - 1
         /\ \A j \in 1 .. Len(s) - 1 :
              RemoveAt(s, i)[j] = IF j < i THEN s[j] ELSE s[j + 1]
<1> DEFINE before == SubSeq(s, 1, i - 1)
           after  == SubSeq(s, i + 1, Len(s))
<1>1. Len(s) \in Nat /\ i \in Nat /\ i >= 1 /\ i <= Len(s)
  BY LenProperties
<1>2. \A j \in 1 .. Len(s) : s[j] \in S
  BY ElementOfSeq
<1>3. /\ before \in Seq(S)
      /\ Len(before) = i - 1
      /\ \A j \in 1 .. i - 1 : before[j] = s[j]
  <2>1. \A j \in 1 .. i - 1 : s[j] \in S
    BY <1>1, <1>2
  <2>2. /\ before \in Seq(S)
        /\ Len(before) = IF 1 <= i - 1 THEN (i - 1) - 1 + 1 ELSE 0
        /\ \A j \in 1 .. (i - 1) - 1 + 1 : before[j] = s[1 + j - 1]
    BY <1>1, <2>1, SubSeqProperties
  <2> QED
    BY <1>1, <2>2
<1>4. /\ after \in Seq(S)
      /\ Len(after) = Len(s) - i
      /\ \A j \in 1 .. Len(s) - i : after[j] = s[i + j]
  <2>1. \A j \in i + 1 .. Len(s) : s[j] \in S
    BY <1>1, <1>2
  <2>2. /\ after \in Seq(S)
        /\ Len(after) = IF i + 1 <= Len(s) THEN Len(s) - (i + 1) + 1 ELSE 0
        /\ \A j \in 1 .. Len(s) - (i + 1) + 1 : after[j] = s[(i + 1) + j - 1]
    BY <1>1, <2>1, SubSeqProperties
  <2> QED
    BY <1>1, <2>2
<1>5. RemoveAt(s, i) = before \o after
  BY DEF RemoveAt
<1> HIDE DEF before, after
<1>6. /\ before \o after \in Seq(S)
      /\ Len(before \o after) = Len(before) + Len(after)
      /\ \A j \in 1 .. Len(before) + Len(after) : (before \o after)[j] =
           IF j <= Len(before) THEN before[j] ELSE after[j - Len(before)]
  BY <1>3, <1>4, ConcatProperties
<1>7. Len(before) + Len(after) = Len(s) - 1
  BY <1>1, <1>3, <1>4
<1>8. ASSUME NEW j \in 1 .. Len(s) - 1
      PROVE  (before \o after)[j] = IF j < i THEN s[j] ELSE s[j + 1]
  <2>1. CASE j < i
    BY <1>1, <1>3, <1>6, <1>7, <2>1
  <2>2. CASE ~ (j < i)
    <3>1. (before \o after)[j] = after[j - (i - 1)]
      BY <1>1, <1>3, <1>6, <1>7, <2>2
    <3>2. j - (i - 1) \in 1 .. Len(s) - i /\ i + (j - (i - 1)) = j + 1
      BY <1>1, <2>2
    <3> QED
      BY <1>4, <3>1, <3>2, <2>2
  <2> QED
    BY <2>1, <2>2
<1> QED
  BY <1>5, <1>6, <1>7, <1>8

\* shift(): the head leaves, the others move up.
LEMMA TailFacts ==
  ASSUME NEW S, NEW s \in Seq(S), s # <<>>
  PROVE  /\ Head(s) = s[1] /\ 1 \in 1 .. Len(s)
         /\ Tail(s) \in Seq(S)
         /\ Len(Tail(s)) = Len(s) - 1
         /\ \A j \in 1 .. Len(s) - 1 : Tail(s)[j] = s[j + 1]
<1>1. Len(s) \in Nat \ {0}
  BY EmptySeq
<1> QED
  BY <1>1, HeadTailProperties

\* The first n elements of a list: no element twice; e among them.
Distinct(list, n) == \A i, j \in 1 .. n : list[i] = list[j] => i = j
Holds(list, n, e) == \E j \in 1 .. n : list[j] = e

\* What RemoveAt and Append make of them.
Closes(old, new, n, k) ==
  \A j \in 1 .. n - 1 : new[j] = IF j < k THEN old[j] ELSE old[j + 1]
Extends(old, new, n, e) == (\A j \in 1 .. n : new[j] = old[j]) /\ new[n + 1] = e

\* A list without repetitions that loses its k-th element: what is left has no
\* repetitions and holds every other element.
LEMMA OneLeaves ==
  ASSUME NEW n \in Nat, NEW old, NEW new, NEW k \in 1 .. n,
         Closes(old, new, n, k), Distinct(old, n)
  PROVE  /\ Distinct(new, n - 1)
         /\ \A e : Holds(new, n - 1, e) <=> Holds(old, n, e) /\ e # old[k]
<1> USE DEF Closes, Distinct, Holds
<1> DEFINE at(j) == IF j < k THEN j ELSE j + 1
<1>1. \A j \in 1 .. n - 1 : at(j) \in 1 .. n /\ at(j) # k /\ new[j] = old[at(j)]
  OBVIOUS
<1>2. \A i, j \in 1 .. n - 1 : at(i) = at(j) => i = j
  OBVIOUS
<1>3. ASSUME NEW m \in 1 .. n, m # k
      PROVE  \E j \in 1 .. n - 1 : at(j) = m
  <2>1. CASE m < k
    <3>1. m \in 1 .. n - 1 /\ at(m) = m
      BY <2>1
    <3> QED
      BY <3>1
  <2>2. CASE m > k
    <3>1. m - 1 \in 1 .. n - 1 /\ at(m - 1) = m
      BY <2>2
    <3> QED
      BY <3>1
  <2> QED
    BY <1>3, <2>1, <2>2
<1> HIDE DEF at
<1>4. ASSUME NEW i \in 1 .. n - 1, NEW j \in 1 .. n - 1, new[i] = new[j]
      PROVE  i = j
  BY <1>1, <1>2, <1>4
<1>5. ASSUME NEW j \in 1 .. n - 1
      PROVE  (\E m \in 1 .. n : old[m] = new[j]) /\ new[j] # old[k]
  BY <1>1
<1>6. ASSUME NEW m \in 1 .. n, old[m] # old[k]
      PROVE  \E j \in 1 .. n - 1 : new[j] = old[m]
  <2>1. PICK j \in 1 .. n - 1 : at(j) = m
    BY <1>3, <1>6
  <2> QED
    BY <1>1, <2>1
<1> QED
  BY <1>4, <1>5, <1>6

\* A list without repetitions that gains an element it did not hold.
LEMMA OneJoins ==
  ASSUME NEW n \in Nat, NEW old, NEW new, NEW e,
         Extends(old, new, n, e), Distinct(old, n), ~ Holds(old, n, e)
  PROVE  /\ Distinct(new, n + 1)
         /\ \A x : Holds(new, n + 1, x) <=> Holds(old, n, x) \/ x = e
<1> USE DEF Extends, Distinct, Holds
<1>1. \A j \in 1 .. n + 1 : j \in 1 .. n \/ j = n + 1
  OBVIOUS
<1>2. n + 1 \in 1 .. n + 1 /\ \A j \in 1 .. n : j \in 1 .. n + 1
  OBVIOUS
<1>3. ASSUME NEW i \in 1 .. n + 1, NEW j \in 1 .. n + 1, new[i] = new[j]
      PROVE  i = j
  BY <1>1, <1>3
<1>4. \A x : (\E j \in 1 .. n + 1 : new[j] = x) <=> (\E j \in 1 .. n : old[j] = x) \/ x = e
  BY <1>1, <1>2
<1> QED
  BY <1>3, <1>4

-----------------------------------------------------------------------------
LEMMA CapacityInitial == CapacityInit => CapacityInv
<1> SUFFICES ASSUME CapacityInit PROVE CapacityInv
  OBVIOUS
<1> USE CapacityAssumption DEF CapacityInit
<1>1. CapacityTypeOK
  <2>1. waiting \in Seq(Requests) /\ calls \in Seq(Requests) /\ Len(calls) = 0
    BY EmptySeq
  <2>2. stage \in [Requests -> Stages]
    BY DEF Stages
  <2>3. late \in 0 .. Len(calls)
    BY <2>1
  <2> QED
    BY <2>1, <2>2, <2>3 DEF CapacityTypeOK
<1>2. SlotAccounted
  BY DEF SlotAccounted, Holders
<1>3. QueueAccounted
  <2>1. Len(waiting) = 0
    BY EmptySeq
  <2> QED
    BY <2>1 DEF QueueAccounted, Waiting
<1> QED
  BY <1>1, <1>2, <1>3 DEF CapacityInv

\* A call that leaves the slot hands it to the head of the queue or frees it.
LEMMA VacateKeepsInv ==
  ASSUME CapacityInv, NEW r \in Requests, r \in Holders,
         NEW outcome \in {"done", "busy", "aborted"}, Vacate(r, outcome),
         UNCHANGED <<calls, late, aborted>>
  PROVE  CapacityInv'
<1>0. CapacityTypeOK /\ SlotAccounted /\ QueueAccounted
  BY DEF CapacityInv
<1>1. CASE /\ waiting = <<>>
           /\ active' = FALSE
           /\ stage' = [stage EXCEPT ![r] = outcome]
           /\ UNCHANGED waiting
  <2>1. CapacityTypeOK'
    BY <1>0, <1>1 DEF CapacityTypeOK, Stages
  <2>2. \A s \in Requests : stage'[s] = IF s = r THEN outcome ELSE stage[s]
    BY <1>0, <1>1 DEF CapacityTypeOK
  <2>3. Holders' = {}
    BY <1>0, <2>2 DEF SlotAccounted, Holders
  <2>4. SlotAccounted'
    BY <1>1, <2>3 DEF SlotAccounted
  <2>5. QueueAccounted'
    BY <1>0, <1>1, <2>2 DEF QueueAccounted, Waiting, Holders
  <2> QED
    BY <2>1, <2>4, <2>5 DEF CapacityInv
<1>2. CASE /\ waiting # <<>>
           /\ waiting' = Tail(waiting)
           /\ stage' = [stage EXCEPT ![r] = outcome, ![Head(waiting)] = "admitted"]
           /\ UNCHANGED active
  <2> DEFINE next == waiting[1]
  <2>1. /\ Head(waiting) = next /\ 1 \in 1 .. Len(waiting) /\ Len(waiting) \in Nat
        /\ waiting' \in Seq(Requests)
        /\ Len(waiting') = Len(waiting) - 1
        /\ \A j \in 1 .. Len(waiting) - 1 : waiting'[j] = waiting[j + 1]
    BY <1>0, <1>2, TailFacts, LenProperties DEF CapacityTypeOK
  <2>2. next \in Requests /\ stage[next] = "waiting" /\ next # r
    <3>1. next \in Requests
      BY <1>0, <2>1, ElementOfSeq DEF CapacityTypeOK
    <3> QED
      BY <1>0, <2>1, <3>1 DEF QueueAccounted, Waiting, Holders
  <2>3. /\ \A i, j \in 1 .. Len(waiting') : waiting'[i] = waiting'[j] => i = j
        /\ \A s : Waiting(s)' <=> Waiting(s) /\ s # next
    <3>0. /\ Len(waiting) \in Nat /\ 1 \in 1 .. Len(waiting)
          /\ Len(waiting') = Len(waiting) - 1
      BY <2>1
    <3>1. Closes(waiting, waiting', Len(waiting), 1)
      BY <2>1 DEF Closes
    <3>2. Distinct(waiting, Len(waiting))
      BY <1>0 DEF QueueAccounted, Distinct
    <3>3. /\ Distinct(waiting', Len(waiting) - 1)
          /\ \A s : Holds(waiting', Len(waiting) - 1, s) <=>
                    Holds(waiting, Len(waiting), s) /\ s # waiting[1]
      BY <3>0, <3>1, <3>2, OneLeaves
    <3> QED
      BY <3>0, <3>3 DEF Distinct, Holds, Waiting, next
  <2> HIDE DEF next
  <2>4. \A s \in Requests : stage'[s] =
          IF s = next THEN "admitted" ELSE IF s = r THEN outcome ELSE stage[s]
    BY <1>0, <1>2, <2>1, <2>2 DEF CapacityTypeOK
  <2>5. CapacityTypeOK'
    BY <1>0, <1>2, <2>1, <2>2 DEF CapacityTypeOK, Stages
  <2>6. Holders' = {next}
    BY <1>0, <2>2, <2>4 DEF SlotAccounted, Holders
  <2>7. active /\ active'
    BY <1>0, <1>2 DEF SlotAccounted
  <2>8. SlotAccounted'
    BY <2>6, <2>7 DEF SlotAccounted
  <2>9. \A s \in Requests : stage'[s] = "waiting" <=> Waiting(s)'
    BY <1>0, <2>2, <2>3, <2>4 DEF QueueAccounted, Holders
  <2>10. Len(waiting') <= MaxWaiting
    BY <1>0, <2>1, CapacityAssumption DEF QueueAccounted
  <2> QED
    BY <2>3, <2>5, <2>7, <2>8, <2>9, <2>10 DEF CapacityInv, QueueAccounted
<1> QED
  BY <1>1, <1>2 DEF Vacate

\* A waiter that gives up leaves the queue, and nobody else moves.
LEMMA WithdrawKeepsInv ==
  ASSUME CapacityInv, NEW r \in Requests, stage[r] = "waiting",
         NEW outcome \in {"busy", "aborted"}, Withdraw(r, outcome),
         aborted' \in SUBSET Readers, UNCHANGED <<active, calls, late>>
  PROVE  CapacityInv'
<1>0. CapacityTypeOK /\ SlotAccounted /\ QueueAccounted
  BY DEF CapacityInv
<1>1. PICK k \in 1 .. Len(waiting) :
        /\ waiting[k] = r
        /\ waiting' = RemoveAt(waiting, k)
        /\ stage' = [stage EXCEPT ![r] = outcome]
  BY DEF Withdraw
<1>2. /\ waiting' \in Seq(Requests)
      /\ Len(waiting') = Len(waiting) - 1 /\ Len(waiting) \in Nat
      /\ \A j \in 1 .. Len(waiting) - 1 :
           waiting'[j] = IF j < k THEN waiting[j] ELSE waiting[j + 1]
  BY <1>0, <1>1, RemoveAtFacts, LenProperties DEF CapacityTypeOK
<1>3. /\ \A i, j \in 1 .. Len(waiting') : waiting'[i] = waiting'[j] => i = j
      /\ \A s : Waiting(s)' <=> Waiting(s) /\ s # r
  <2>0. Len(waiting) \in Nat /\ Len(waiting') = Len(waiting) - 1 /\ waiting[k] = r
    BY <1>1, <1>2
  <2>1. Closes(waiting, waiting', Len(waiting), k)
    BY <1>2 DEF Closes
  <2>2. Distinct(waiting, Len(waiting))
    BY <1>0 DEF QueueAccounted, Distinct
  <2>3. /\ Distinct(waiting', Len(waiting) - 1)
        /\ \A s : Holds(waiting', Len(waiting) - 1, s) <=>
                  Holds(waiting, Len(waiting), s) /\ s # waiting[k]
    BY <2>0, <2>1, <2>2, OneLeaves
  <2> QED
    BY <2>0, <2>3 DEF Distinct, Holds, Waiting
<1>4. \A s \in Requests : stage'[s] = IF s = r THEN outcome ELSE stage[s]
  BY <1>0, <1>1 DEF CapacityTypeOK
<1>5. CapacityTypeOK'
  BY <1>0, <1>1, <1>2 DEF CapacityTypeOK, Stages
<1>6. Holders' = Holders
  BY <1>4 DEF Holders
<1>7. SlotAccounted'
  BY <1>0, <1>6 DEF SlotAccounted
<1>8. \A s \in Requests : stage'[s] = "waiting" <=> Waiting(s)'
  BY <1>0, <1>3, <1>4 DEF QueueAccounted
<1>9. waiting # <<>>
  BY <1>1, EmptySeq
<1>10. Len(waiting') <= MaxWaiting /\ active'
  BY <1>0, <1>2, <1>9, CapacityAssumption DEF QueueAccounted
<1> QED
  BY <1>3, <1>5, <1>7, <1>8, <1>10 DEF CapacityInv, QueueAccounted

\* What an appended queue holds.
LEMMA AppendFacts ==
  ASSUME NEW S, NEW s \in Seq(S), NEW e \in S
  PROVE  /\ Append(s, e) \in Seq(S)
         /\ Len(s) \in Nat /\ Len(Append(s, e)) = Len(s) + 1
         /\ \A j \in 1 .. Len(s) : Append(s, e)[j] = s[j]
         /\ Append(s, e)[Len(s) + 1] = e
BY AppendProperties, LenProperties

LEMMA EnqueueKeepsInv ==
  ASSUME CapacityInv, NEW r \in Requests, Enqueue(r)
  PROVE  CapacityInv'
<1>0. CapacityTypeOK /\ SlotAccounted /\ QueueAccounted
  BY DEF CapacityInv
<1>1. /\ waiting' \in Seq(Requests) /\ Len(waiting) \in Nat
      /\ Len(waiting') = Len(waiting) + 1
      /\ \A j \in 1 .. Len(waiting) : waiting'[j] = waiting[j]
      /\ waiting'[Len(waiting) + 1] = r
  BY <1>0, AppendFacts DEF CapacityTypeOK, Enqueue
<1>2. \A j \in 1 .. Len(waiting) : waiting[j] # r
  BY <1>0 DEF QueueAccounted, Waiting, Enqueue
<1>3. /\ \A i, j \in 1 .. Len(waiting') : waiting'[i] = waiting'[j] => i = j
      /\ \A s : Waiting(s)' <=> Waiting(s) \/ s = r
  <2>0. Len(waiting) \in Nat /\ Len(waiting') = Len(waiting) + 1
    BY <1>1
  <2>1. Extends(waiting, waiting', Len(waiting), r)
    BY <1>1 DEF Extends
  <2>2. Distinct(waiting, Len(waiting)) /\ ~ Holds(waiting, Len(waiting), r)
    BY <1>0, <1>2 DEF QueueAccounted, Distinct, Holds
  <2>3. /\ Distinct(waiting', Len(waiting) + 1)
        /\ \A s : Holds(waiting', Len(waiting) + 1, s) <=>
                  Holds(waiting, Len(waiting), s) \/ s = r
    BY <2>0, <2>1, <2>2, OneJoins
  <2> QED
    BY <2>0, <2>3 DEF Distinct, Holds, Waiting
<1>4. \A s \in Requests : stage'[s] = IF s = r THEN "waiting" ELSE stage[s]
  BY <1>0 DEF CapacityTypeOK, Enqueue
<1>5. CapacityTypeOK'
  BY <1>0, <1>1, AppendFacts DEF CapacityTypeOK, Stages, Enqueue
<1>6. Holders' = Holders
  BY <1>4 DEF Holders, Enqueue
<1>7. SlotAccounted'
  BY <1>0, <1>6 DEF SlotAccounted, Enqueue
<1>8. \A s \in Requests : stage'[s] = "waiting" <=> Waiting(s)'
  BY <1>0, <1>3, <1>4 DEF QueueAccounted
<1>9. Len(waiting') <= MaxWaiting /\ active'
  BY <1>1, CapacityAssumption DEF Enqueue
<1> QED
  BY <1>3, <1>5, <1>7, <1>8, <1>9 DEF CapacityInv, QueueAccounted

\* The steps that leave the queue alone.
LEMMA QueueUntouched ==
  ASSUME CapacityInv, UNCHANGED waiting, CapacityTypeOK', SlotAccounted',
         active => active',
         \A s \in Requests : stage'[s] = "waiting" <=> stage[s] = "waiting"
  PROVE  CapacityInv'
BY DEF CapacityInv, QueueAccounted, Waiting

\* Every step keeps the invariant.
LEMMA CapacityStep == CapacityInv /\ [CapacityNext]_capacityVars => CapacityInv'
<1> SUFFICES ASSUME CapacityInv, [CapacityNext]_capacityVars PROVE CapacityInv'
  OBVIOUS
<1>1. ASSUME NEW r \in Requests, RefuseAborted(r) PROVE CapacityInv'
  <2>1. CapacityTypeOK' /\ Holders' = Holders
    BY <1>1 DEF RefuseAborted, CapacityInv, CapacityTypeOK, Stages, Holders
  <2> QED
    BY <1>1, <2>1, QueueUntouched DEF RefuseAborted, CapacityInv, CapacityTypeOK, SlotAccounted
<1>2. ASSUME NEW r \in Requests, RefuseFull(r) PROVE CapacityInv'
  <2>1. CapacityTypeOK' /\ Holders' = Holders
    BY <1>2, AppendFacts DEF RefuseFull, CapacityInv, CapacityTypeOK, Stages, Holders
  <2> QED
    BY <1>2, <2>1, QueueUntouched DEF RefuseFull, CapacityInv, CapacityTypeOK, SlotAccounted
<1>3. ASSUME NEW r \in Requests, Enqueue(r) PROVE CapacityInv'
  BY <1>3, EnqueueKeepsInv
<1>4. ASSUME NEW r \in Requests, StartAtOnce(r) PROVE CapacityInv'
  <2>1. CapacityTypeOK'
    BY <1>4, AppendFacts DEF StartAtOnce, CapacityInv, CapacityTypeOK, Stages
  <2>2. Holders' = {r}
    BY <1>4 DEF StartAtOnce, CapacityInv, CapacityTypeOK, SlotAccounted, Holders
  <2>3. SlotAccounted'
    BY <1>4, <2>2 DEF StartAtOnce, SlotAccounted
  <2> QED
    BY <1>4, <2>1, <2>3, QueueUntouched DEF StartAtOnce, CapacityInv, CapacityTypeOK
<1>5. ASSUME NEW r \in Requests, Resume(r) PROVE CapacityInv'
  <2>1. CapacityTypeOK' /\ Holders' = Holders
    BY <1>5 DEF Resume, CapacityInv, CapacityTypeOK, Stages, Holders
  <2> QED
    BY <1>5, <2>1, QueueUntouched DEF Resume, CapacityInv, CapacityTypeOK, SlotAccounted
<1>6. ASSUME NEW r \in Requests, ResumeTooLate(r) PROVE CapacityInv'
  <2>1. r \in Holders
    BY <1>6 DEF ResumeTooLate, Holders
  <2> QED
    BY <1>6, <2>1, VacateKeepsInv DEF ResumeTooLate
<1>7. ASSUME NEW r \in Requests, Finish(r) PROVE CapacityInv'
  <2>1. r \in Holders
    BY <1>7 DEF Finish, Holders
  <2> QED
    BY <1>7, <2>1, VacateKeepsInv DEF Finish
<1>8. ASSUME NEW r \in Requests, TimerFires(r) PROVE CapacityInv'
  <2>1. aborted' \in SUBSET Readers
    BY <1>8 DEF TimerFires, CapacityInv, CapacityTypeOK
  <2> QED
    BY <1>8, <2>1, WithdrawKeepsInv DEF TimerFires
<1>9. ASSUME NEW r \in Requests, Abort(r) PROVE CapacityInv'
  <2>1. aborted' \in SUBSET Readers
    BY <1>9 DEF Abort, CapacityInv, CapacityTypeOK
  <2>2. CASE stage[r] = "waiting" /\ Withdraw(r, "aborted")
    BY <1>9, <2>1, <2>2, WithdrawKeepsInv DEF Abort
  <2>3. CASE UNCHANGED <<waiting, stage>>
    <3>1. CapacityTypeOK' /\ Holders' = Holders
      BY <1>9, <2>1, <2>3 DEF Abort, CapacityInv, CapacityTypeOK, Holders
    <3> QED
      BY <1>9, <2>3, <3>1, QueueUntouched DEF Abort, CapacityInv, SlotAccounted
  <2> QED
    BY <1>9, <2>2, <2>3 DEF Abort
<1>10. CASE DeadlinePasses
  <2>1. CapacityTypeOK' /\ Holders' = Holders
    BY <1>10, LenProperties DEF DeadlinePasses, CapacityInv, CapacityTypeOK, Holders
  <2> QED
    BY <1>10, <2>1, QueueUntouched DEF DeadlinePasses, CapacityInv, SlotAccounted
<1>11. CASE UNCHANGED capacityVars
  <2>1. CapacityTypeOK' /\ Holders' = Holders
    BY <1>11 DEF capacityVars, CapacityInv, CapacityTypeOK, Holders
  <2> QED
    BY <1>11, <2>1, QueueUntouched DEF capacityVars, CapacityInv, SlotAccounted
<1> QED
  BY <1>1, <1>2, <1>3, <1>4, <1>5, <1>6, <1>7, <1>8, <1>9, <1>10, <1>11
     DEF CapacityNext, Call, Continue

\* The inductive invariant holds in every reachable state.
THEOREM CapacityInvariant == CapacitySpec => []CapacityInv
BY CapacityInitial, CapacityStep, PTL DEF CapacitySpec

\* Type correctness, for every set of calls and every queue bound.
THEOREM CapacityTyped == CapacitySpec => []CapacityTypeOK
BY CapacityInvariant, PTL DEF CapacityInv

\* The slot of workflowCapacity.ts:28-69 is never lost and never doubled.
THEOREM SlotIsAccounted == CapacitySpec => []SlotAccounted
BY CapacityInvariant, PTL DEF CapacityInv

\* The queue of workflowCapacity.ts:31-56 holds exactly the waiting calls,
\* within its bound, and never without a holder that will serve it.
THEOREM QueueIsAccounted == CapacitySpec => []QueueAccounted
BY CapacityInvariant, PTL DEF CapacityInv

-----------------------------------------------------------------------------
(* First come, first admitted *)

\* The queue lists its calls in the order in which they were made.
WaitingInOrder ==
  /\ \A i \in 1 .. Len(waiting) : \E k \in 1 .. Len(calls) : calls[k] = waiting[i]
  /\ \A i, j \in 1 .. Len(waiting) : i < j => CalledBefore(waiting[i], waiting[j])

\* A longer log of calls still shows who came before whom.
LEMMA CallsGrow ==
  ASSUME CapacityTypeOK, NEW r \in Requests, calls' = Append(calls, r),
         NEW p, NEW q, CalledBefore(p, q)
  PROVE  CalledBefore(p, q)'
BY AppendFacts DEF CapacityTypeOK, CalledBefore

\* A queue whose elements all stood in the old one, in the same order.
LEMMA OrderInherited ==
  ASSUME CapacityTypeOK, WaitingInOrder,
         calls' = calls \/ \E r \in Requests : calls' = Append(calls, r),
         \A i \in 1 .. Len(waiting') : \E k \in 1 .. Len(waiting) : waiting'[i] = waiting[k],
         \A i, j \in 1 .. Len(waiting') : i < j =>
           \E k, l \in 1 .. Len(waiting) :
             k < l /\ waiting'[i] = waiting[k] /\ waiting'[j] = waiting[l]
  PROVE  WaitingInOrder'
<1>1. \A p, q : CalledBefore(p, q) => CalledBefore(p, q)'
  <2>1. CASE calls' = calls
    BY <2>1 DEF CalledBefore
  <2>2. CASE \E r \in Requests : calls' = Append(calls, r)
    BY <2>2, CallsGrow
  <2> QED
    BY <2>1, <2>2
<1>2. ASSUME NEW k \in 1 .. Len(calls)
      PROVE  \E l \in 1 .. Len(calls') : calls'[l] = calls[k]
  <2>1. CASE calls' = calls
    BY <2>1
  <2>2. ASSUME NEW r \in Requests, calls' = Append(calls, r)
        PROVE  k \in 1 .. Len(calls') /\ calls'[k] = calls[k]
    BY <2>2, AppendFacts DEF CapacityTypeOK
  <2> QED
    BY <2>1, <2>2
<1>3. ASSUME NEW i \in 1 .. Len(waiting')
      PROVE  \E k \in 1 .. Len(calls') : calls'[k] = waiting'[i]
  <2>1. PICK k \in 1 .. Len(waiting) : waiting'[i] = waiting[k]
    OBVIOUS
  <2>2. PICK l \in 1 .. Len(calls) : calls[l] = waiting[k]
    BY DEF WaitingInOrder
  <2> QED
    BY <1>2, <2>1, <2>2
<1>4. \A i, j \in 1 .. Len(waiting') : i < j => CalledBefore(waiting[i], waiting[j])'
  BY <1>1 DEF WaitingInOrder
<1> QED
  BY <1>3, <1>4 DEF WaitingInOrder

LEMMA OrderStep ==
  ASSUME CapacityInv, WaitingInOrder, [CapacityNext]_capacityVars
  PROVE  WaitingInOrder'
<1> USE DEF CapacityInv
<1>1. waiting \in Seq(Requests) /\ Len(waiting) \in Nat /\ CapacityTypeOK
  BY LenProperties DEF CapacityTypeOK
<1>2. ASSUME UNCHANGED waiting,
             calls' = calls \/ \E r \in Requests : calls' = Append(calls, r)
      PROVE  WaitingInOrder'
  BY <1>1, <1>2, OrderInherited
<1>3. ASSUME NEW r \in Requests, NEW outcome, Vacate(r, outcome), UNCHANGED calls
      PROVE  WaitingInOrder'
  <2>1. CASE waiting' = waiting
    BY <1>2, <1>3, <2>1
  <2>2. CASE waiting # <<>> /\ waiting' = Tail(waiting)
    <3>1. /\ Len(waiting') = Len(waiting) - 1
          /\ \A j \in 1 .. Len(waiting) - 1 : waiting'[j] = waiting[j + 1]
      BY <1>1, <2>2, TailFacts
    <3>2. \A i \in 1 .. Len(waiting') :
            i + 1 \in 1 .. Len(waiting) /\ waiting'[i] = waiting[i + 1]
      BY <1>1, <3>1
    <3>3. \A i, j \in 1 .. Len(waiting') : i < j => i + 1 < j + 1
      BY <1>1, <3>1
    <3>4. \A i \in 1 .. Len(waiting') : \E k \in 1 .. Len(waiting) : waiting'[i] = waiting[k]
      BY <3>2
    <3>5. \A i, j \in 1 .. Len(waiting') : i < j =>
            \E k, l \in 1 .. Len(waiting) :
              k < l /\ waiting'[i] = waiting[k] /\ waiting'[j] = waiting[l]
      BY <3>2, <3>3
    <3> QED
      BY <1>1, <1>3, <3>4, <3>5, OrderInherited
  <2> QED
    BY <1>3, <2>1, <2>2 DEF Vacate
<1>4. ASSUME NEW r \in Requests, NEW outcome, Withdraw(r, outcome), UNCHANGED calls
      PROVE  WaitingInOrder'
  <2>1. PICK k \in 1 .. Len(waiting) : waiting' = RemoveAt(waiting, k)
    BY <1>4 DEF Withdraw
  <2> DEFINE old(i) == IF i < k THEN i ELSE i + 1
  <2>2. /\ Len(waiting') = Len(waiting) - 1
        /\ \A j \in 1 .. Len(waiting) - 1 :
             waiting'[j] = IF j < k THEN waiting[j] ELSE waiting[j + 1]
    BY <1>1, <2>1, RemoveAtFacts
  <2>3. \A i \in 1 .. Len(waiting') : old(i) \in 1 .. Len(waiting) /\ waiting'[i] = waiting[old(i)]
    BY <1>1, <2>2
  <2>4. \A i, j \in 1 .. Len(waiting') : i < j => old(i) < old(j)
    BY <1>1, <2>2
  <2> HIDE DEF old
  <2>5. \A i \in 1 .. Len(waiting') : \E l \in 1 .. Len(waiting) : waiting'[i] = waiting[l]
    BY <2>3
  <2>6. \A i, j \in 1 .. Len(waiting') : i < j =>
          \E m, l \in 1 .. Len(waiting) :
            m < l /\ waiting'[i] = waiting[m] /\ waiting'[j] = waiting[l]
    BY <2>3, <2>4
  <2> QED
    BY <1>1, <1>4, <2>5, <2>6, OrderInherited
<1>5. ASSUME NEW r \in Requests, Enqueue(r) PROVE WaitingInOrder'
  <2>1. /\ Len(waiting') = Len(waiting) + 1
        /\ \A j \in 1 .. Len(waiting) : waiting'[j] = waiting[j]
        /\ waiting'[Len(waiting) + 1] = r
    BY <1>1, <1>5, AppendFacts DEF Enqueue
  <2>2. /\ Len(calls) \in Nat /\ Len(calls') = Len(calls) + 1
        /\ \A j \in 1 .. Len(calls) : calls'[j] = calls[j]
        /\ calls'[Len(calls) + 1] = r
    BY <1>1, <1>5, AppendFacts DEF Enqueue, CapacityTypeOK
  <2>3. ASSUME NEW i \in 1 .. Len(waiting')
        PROVE  \E k \in 1 .. Len(calls') : calls'[k] = waiting'[i]
    <3>1. CASE i \in 1 .. Len(waiting)
      <4>1. PICK k \in 1 .. Len(calls) : calls[k] = waiting[i]
        BY <3>1 DEF WaitingInOrder
      <4>2. k \in 1 .. Len(calls') /\ calls'[k] = waiting'[i]
        BY <2>1, <2>2, <3>1, <4>1
      <4> QED
        BY <4>2
    <3>2. CASE i = Len(waiting) + 1
      <4>1. Len(calls) + 1 \in 1 .. Len(calls') /\ calls'[Len(calls) + 1] = waiting'[i]
        BY <2>1, <2>2, <3>2
      <4> QED
        BY <4>1
    <3> QED
      BY <1>1, <2>1, <3>1, <3>2
  <2>4. ASSUME NEW i \in 1 .. Len(waiting'), NEW j \in 1 .. Len(waiting'), i < j
        PROVE  CalledBefore(waiting[i], waiting[j])'
    <3>1. i \in 1 .. Len(waiting) /\ waiting'[i] = waiting[i]
      BY <1>1, <2>1, <2>4
    <3>2. CASE j \in 1 .. Len(waiting)
      <4>1. CalledBefore(waiting[i], waiting[j])
        BY <2>4, <3>1, <3>2 DEF WaitingInOrder
      <4> QED
        BY <1>1, <1>5, <2>1, <3>1, <3>2, <4>1, CallsGrow DEF Enqueue
    <3>3. CASE j = Len(waiting) + 1
      <4>1. PICK k \in 1 .. Len(calls) : calls[k] = waiting[i]
        BY <3>1 DEF WaitingInOrder
      <4>2. k < Len(calls) + 1 /\ k \in 1 .. Len(calls') /\ Len(calls) + 1 \in 1 .. Len(calls')
            /\ calls'[k] = waiting'[i] /\ calls'[Len(calls) + 1] = waiting'[j]
        BY <2>1, <2>2, <3>1, <3>3, <4>1
      <4> QED
        BY <4>2 DEF CalledBefore
    <3> QED
      BY <1>1, <2>1, <3>2, <3>3
  <2> QED
    BY <2>3, <2>4 DEF WaitingInOrder
<1>6. ASSUME NEW r \in Requests,
             RefuseAborted(r) \/ RefuseFull(r) \/ StartAtOnce(r) \/ Resume(r)
      PROVE  WaitingInOrder'
  BY <1>2, <1>6 DEF RefuseAborted, RefuseFull, StartAtOnce, Resume
<1>7. ASSUME NEW r \in Requests, ResumeTooLate(r) \/ Finish(r) PROVE WaitingInOrder'
  BY <1>3, <1>7 DEF ResumeTooLate, Finish
<1>8. ASSUME NEW r \in Requests, TimerFires(r) \/ Abort(r) PROVE WaitingInOrder'
  BY <1>2, <1>4, <1>8 DEF TimerFires, Abort
<1>9. CASE DeadlinePasses \/ UNCHANGED capacityVars
  BY <1>2, <1>9 DEF DeadlinePasses, capacityVars
<1> QED
  BY <1>5, <1>6, <1>7, <1>8, <1>9 DEF CapacityNext, Call, Continue

\* Who is handed the slot was the head of the queue.
LEMMA AdmittedWasHead ==
  ASSUME CapacityInv, [CapacityNext]_capacityVars,
         NEW r \in Requests, stage[r] = "waiting", stage'[r] = "admitted"
  PROVE  waiting # <<>> /\ r = Head(waiting)
<1> USE DEF CapacityInv, CapacityTypeOK
<1>1. ASSUME NEW s \in Requests, ResumeTooLate(s) \/ Finish(s)
      PROVE  waiting # <<>> /\ r = Head(waiting)
  <2>1. PICK outcome \in {"done", "busy", "aborted"} : Vacate(s, outcome)
    BY <1>1 DEF ResumeTooLate, Finish
  <2>2. s # r
    BY <1>1 DEF ResumeTooLate, Finish
  <2> QED
    BY <2>1, <2>2 DEF Vacate
<1>2. ASSUME NEW s \in Requests,
             \/ Call(s) \/ Resume(s) \/ TimerFires(s) \/ Abort(s) \/ DeadlinePasses
             \/ UNCHANGED capacityVars
      PROVE  FALSE
  BY <1>2 DEF Call, RefuseAborted, RefuseFull, Enqueue, StartAtOnce, Resume, TimerFires, Abort,
     Withdraw, DeadlinePasses, capacityVars
<1> QED
  BY <1>1, <1>2 DEF CapacityNext, Continue

\* Calls are admitted in the order in which they were made.
THEOREM AdmittedInOrder == CapacitySpec => OldestAdmitted
<1> DEFINE Served(r) ==
      stage[r] = "waiting" /\ stage'[r] = "admitted" =>
        \A s \in Requests \ {r} : stage[s] = "waiting" => CalledBefore(r, s)
<1>1. CapacityInit => WaitingInOrder
  <2> SUFFICES ASSUME CapacityInit PROVE WaitingInOrder
    OBVIOUS
  <2>1. Len(waiting) = 0
    BY EmptySeq DEF CapacityInit
  <2> QED
    BY <2>1 DEF WaitingInOrder
<1>2. CapacityInv /\ WaitingInOrder /\ [CapacityNext]_capacityVars => WaitingInOrder'
  BY OrderStep
<1>3. CapacityInv /\ WaitingInOrder /\ [CapacityNext]_capacityVars =>
        [\A r \in Requests : Served(r)]_capacityVars
  <2> SUFFICES ASSUME CapacityInv, WaitingInOrder, [CapacityNext]_capacityVars,
                      NEW r \in Requests, stage[r] = "waiting", stage'[r] = "admitted",
                      NEW s \in Requests \ {r}, stage[s] = "waiting"
               PROVE  CalledBefore(r, s)
    OBVIOUS
  <2>1. waiting # <<>> /\ r = Head(waiting)
    BY AdmittedWasHead
  <2>2. waiting \in Seq(Requests) /\ Len(waiting) \in Nat
    BY LenProperties DEF CapacityInv, CapacityTypeOK
  <2>3. waiting[1] = r /\ 1 \in 1 .. Len(waiting)
    BY <2>1, <2>2, TailFacts
  <2>4. PICK j \in 1 .. Len(waiting) : waiting[j] = s
    BY DEF CapacityInv, QueueAccounted, Waiting
  <2>5. 1 < j
    BY <2>2, <2>3, <2>4
  <2> QED
    BY <2>3, <2>4, <2>5 DEF WaitingInOrder
<1> HIDE DEF Served
<1>4. CapacitySpec => [][\A r \in Requests : Served(r)]_capacityVars
  BY <1>1, <1>2, <1>3, CapacityInvariant, PTL DEF CapacitySpec
<1> QED
  BY <1>4 DEF OldestAdmitted, Served

-----------------------------------------------------------------------------
(* The slot implements SerialExecution *)

\* What a step that moves one call from one stage to another looks like.
LEMMA OneMoves ==
  ASSUME CapacityTypeOK, NEW r \in Requests, NEW g \in Stages,
         stage' = [stage EXCEPT ![r] = g]
  PROVE  serialStatus' = [serialStatus EXCEPT ![r] = SerialStatus(g)]
BY DEF CapacityTypeOK, serialStatus

\* Whoever executes holds the slot, so nobody else does.
LEMMA ExecutingHolds ==
  ASSUME CapacityInv
  PROVE  Serial!Executing = {r \in Requests : stage[r] = "running"}
BY DEF CapacityInv, CapacityTypeOK, Stages, Serial!Executing, serialStatus, SerialStatus

LEMMA VacateImplements ==
  ASSUME CapacityInv, NEW r \in Requests, r \in Holders,
         NEW outcome \in {"done", "busy", "aborted"}, Vacate(r, outcome)
  PROVE  serialStatus' = [serialStatus EXCEPT ![r] = SerialStatus(outcome)]
<1>0. CapacityTypeOK /\ outcome \in Stages
  BY DEF CapacityInv, Stages
<1>1. CASE stage' = [stage EXCEPT ![r] = outcome]
  BY <1>0, <1>1, OneMoves
<1>2. CASE /\ waiting # <<>>
           /\ stage' = [stage EXCEPT ![r] = outcome, ![Head(waiting)] = "admitted"]
  <2>1. Head(waiting) \in Requests /\ stage[Head(waiting)] = "waiting"
    BY <1>2, TailFacts, ElementOfSeq DEF CapacityInv, CapacityTypeOK, QueueAccounted, Waiting
  <2>2. SerialStatus("admitted") = SerialStatus("waiting")
    BY DEF SerialStatus
  <2>3. Head(waiting) # r
    BY <2>1 DEF Holders
  <2>4. \A s \in Requests : serialStatus'[s] =
          IF s = r THEN SerialStatus(outcome) ELSE serialStatus[s]
    BY <1>2, <2>1, <2>2, <2>3 DEF CapacityInv, CapacityTypeOK, serialStatus
  <2> QED
    BY <2>4 DEF serialStatus
<1> QED
  BY <1>1, <1>2 DEF Vacate

LEMMA SerialStep ==
  ASSUME CapacityInv, [CapacityNext]_capacityVars
  PROVE  [Serial!Next]_serialStatus
<1>1. CapacityTypeOK
  BY DEF CapacityInv
<1>2. \A r \in Requests : serialStatus[r] = SerialStatus(stage[r])
  BY DEF serialStatus
<1>3. ASSUME NEW r \in Requests, NEW g \in {"busy", "aborted"},
             stage[r] \in {"idle", "waiting", "admitted"},
             serialStatus' = [serialStatus EXCEPT ![r] = SerialStatus(g)]
      PROVE  Serial!Next
  <2>1. Serial!Refuse(r)
    BY <1>2, <1>3 DEF Serial!Refuse, SerialStatus
  <2> QED
    BY <2>1 DEF Serial!Next
<1>4. ASSUME NEW r \in Requests, stage[r] \in {"idle", "admitted"},
             \A s \in Requests : stage[s] # "running",
             serialStatus' = [serialStatus EXCEPT ![r] = SerialStatus("running")]
      PROVE  Serial!Next
  <2>1. Serial!Executing = {}
    BY <1>4, ExecutingHolds
  <2>2. Serial!Execute(r)
    BY <1>2, <1>4, <2>1 DEF Serial!Execute, SerialStatus
  <2> QED
    BY <2>2 DEF Serial!Next
<1>5. ASSUME NEW r \in Requests, RefuseAborted(r) PROVE Serial!Next
  BY <1>1, <1>3, <1>5, OneMoves DEF RefuseAborted, Stages
<1>6. ASSUME NEW r \in Requests, RefuseFull(r) PROVE Serial!Next
  BY <1>1, <1>3, <1>6, OneMoves DEF RefuseFull, Stages
<1>7. ASSUME NEW r \in Requests, Enqueue(r) PROVE Serial!Next
  <2>1. serialStatus' = [serialStatus EXCEPT ![r] = SerialStatus("waiting")]
    BY <1>1, <1>7, OneMoves DEF Enqueue, Stages
  <2>2. Serial!Submit(r)
    BY <1>2, <1>7, <2>1 DEF Enqueue, Serial!Submit, SerialStatus
  <2> QED
    BY <2>2 DEF Serial!Next
<1>8. ASSUME NEW r \in Requests, StartAtOnce(r) PROVE Serial!Next
  <2>1. \A s \in Requests : stage[s] # "running"
    BY <1>8 DEF StartAtOnce, CapacityInv, SlotAccounted, Holders
  <2> QED
    BY <1>1, <1>4, <1>8, <2>1, OneMoves DEF StartAtOnce, Stages
<1>9. ASSUME NEW r \in Requests, Resume(r) PROVE Serial!Next
  <2>1. \A s \in Requests : stage[s] # "running"
    BY <1>9 DEF Resume, CapacityInv, SlotAccounted, Holders
  <2> QED
    BY <1>1, <1>4, <1>9, <2>1, OneMoves DEF Resume, Stages
<1>10. ASSUME NEW r \in Requests, ResumeTooLate(r) PROVE Serial!Next
  <2>1. PICK g \in {"busy", "aborted"} : Vacate(r, g)
    BY <1>10 DEF ResumeTooLate
  <2>2. r \in Holders /\ stage[r] = "admitted"
    BY <1>10 DEF ResumeTooLate, Holders
  <2> QED
    BY <1>3, <2>1, <2>2, VacateImplements
<1>11. ASSUME NEW r \in Requests, Finish(r) PROVE Serial!Next
  <2>1. r \in Holders /\ stage[r] = "running"
    BY <1>11 DEF Finish, Holders
  <2>2. serialStatus' = [serialStatus EXCEPT ![r] = SerialStatus("done")]
    BY <1>11, <2>1, VacateImplements DEF Finish
  <2>3. Serial!Complete(r)
    BY <1>2, <2>1, <2>2 DEF Serial!Complete, SerialStatus
  <2> QED
    BY <2>3 DEF Serial!Next
<1>12. ASSUME NEW r \in Requests, TimerFires(r) PROVE Serial!Next
  BY <1>1, <1>3, <1>12, OneMoves DEF TimerFires, Withdraw, Stages
<1>13. ASSUME NEW r \in Requests, Abort(r) PROVE Serial!Next \/ UNCHANGED serialStatus
  <2>1. CASE stage[r] = "waiting" /\ Withdraw(r, "aborted")
    BY <1>1, <1>3, <2>1, OneMoves DEF Withdraw, Stages
  <2>2. CASE UNCHANGED stage
    BY <2>2 DEF serialStatus
  <2> QED
    BY <1>13, <2>1, <2>2 DEF Abort
<1>14. CASE DeadlinePasses \/ UNCHANGED capacityVars
  BY <1>14 DEF DeadlinePasses, capacityVars, serialStatus
<1> QED
  BY <1>5, <1>6, <1>7, <1>8, <1>9, <1>10, <1>11, <1>12, <1>13, <1>14
     DEF CapacityNext, Call, Continue

\* The slot implements the serial execution its callers rely on: calls run one
\* at a time, each at most once, and none that was refused.
THEOREM CapacityImplementsSerial == CapacitySpec => ImplementsSerial
<1>1. CapacityInit => Serial!Init
  BY DEF CapacityInit, Serial!Init, serialStatus, SerialStatus
<1>2. CapacityInv /\ [CapacityNext]_capacityVars => [Serial!Next]_serialStatus
  BY SerialStep
<1> QED
  BY <1>1, <1>2, CapacityInvariant, PTL DEF CapacitySpec, ImplementsSerial, Serial!Spec

\* Slot and queue together: no crossing of hand-over, timer and signal loses or
\* doubles the slot or a waiting call.
THEOREM CapacityIsAccounted == CapacitySpec => []CapacityAccounted
BY SlotIsAccounted, QueueIsAccounted, PTL DEF CapacityAccounted

\* One call at a time and the oldest first, for every behaviour of the slot.
THEOREM SlotServesCalls == CapacitySpec => SlotServes
BY CapacityImplementsSerial, AdmittedInOrder DEF SlotServes
=============================================================================
