----------------------------- MODULE AccountsProofs -----------------------------
(***************************************************************************)
(* Theorems about Accounts.  Of the registry: an address names one account *)
(* through every crossing of jobs, a start ends in an exact registry, and  *)
(* jobs leave nothing behind unless a reply was lost.  The invariant says  *)
(* of every write that is due, in the program or late at the database,     *)
(* which row it needs and that nobody else can free it.  What is proved of *)
(* tutors and their users in TutorAssignmentProofs is carried over.        *)
(***************************************************************************)
EXTENDS Accounts, TLAPS

-----------------------------------------------------------------------------
(* The inductive invariant *)

\* The write a job may still make, in the program or at the database.
Due(j) == IF late[j] = "none" THEN job[j].at ELSE late[j]

\* Deleted for good: ids are not given out twice.
Gone(a) == a \in used /\ email[a] = None

\* The address whose row a job is about to need or to free.
Claim(j) ==
  IF Due(j) \in {"write", "undo"} /\ job[j].op # "delete" /\ job[j].to # job[j].from
  THEN job[j].to
  ELSE IF Due(j) = "retire" THEN job[j].from ELSE None

Shape(j) ==
  /\ late[j] # "none" => job[j].at = "done"
  /\ Due(j) \in Writes =>
       /\ job[j].acct \in Accounts
       /\ job[j].op \in {"create", "update", "delete"}
       /\ job[j].op # "delete" => job[j].to \in Emails
       /\ job[j].op = "create" => job[j].from = None
       /\ job[j].op = "update" => job[j].from \in Emails
  /\ Due(j) \in {"reserve", "undo"} => job[j].op # "delete" /\ job[j].to # job[j].from
  /\ Due(j) = "retire" => job[j].op = "update" /\ job[j].to # job[j].from
  /\ Due(j) = "purge" => job[j].op = "delete"

\* An account being created is nobody else's business.
Fresh(j) ==
  job[j].op = "create" /\ Due(j) \in {"reserve", "write"} =>
    job[j].acct \notin used /\ \A k \in Jobs \ {j} : job[k].acct # job[j].acct

\* One being changed or deleted exists or existed; a document in the version in
\* which it was loaded has the address it was loaded with.
Loaded(j) ==
  /\ job[j].op \in {"update", "delete"} /\ Due(j) \in Writes => job[j].acct \in used
  /\ Due(j) = "purge" => Gone(job[j].acct)
  /\ job[j].op = "update" /\ Due(j) \in {"reserve", "write"} =>
       /\ job[j].seen <= version[job[j].acct]
       /\ job[j].seen = version[job[j].acct] => email[job[j].acct] \in {job[j].from, None}

\* The row of a claim is the account's, which does not have the address.
ClaimHeld(j) ==
  Claim(j) # None =>
    /\ email[job[j].acct] # Claim(j)
    /\ registry[Claim(j)] = job[j].acct \/ Gone(job[j].acct)

\* No two jobs claim one row.
Apart(j, k) ==
  Claim(j) # None /\ Claim(j) = Claim(k) /\ job[j].acct = job[k].acct => j = k \/ Gone(job[j].acct)

Reserved(a) == Stored(a) => registry[email[a]] = a

NoTwo == \A a, b \in Accounts : Stored(a) /\ email[a] = email[b] => a = b
Fit(e) == registry[e] = None \/ Fits(e)

\* How far the reconciliation has come.
StartupInv ==
  /\ mode # "serving" => \A j \in Jobs : job[j].at \in {"idle", "done"} /\ late[j] = "none"
  /\ mode = "refused" => ~NoTwo
  /\ mode \in {"normalizing", "sweeping", "inserting"} => NoTwo
  /\ mode = "normalizing" => valid = {}
  /\ mode = "sweeping" => (\A e \in valid : Fits(e)) /\ \A e \in Emails \ todo : Fit(e)
  /\ mode = "inserting" =>
       /\ \A e \in Emails : Fit(e)
       /\ \A a \in Accounts : Stored(a) => email[a] \in todo \/ registry[email[a]] = a

JobsInv ==
  /\ \A j \in Jobs : Shape(j) /\ Fresh(j) /\ Loaded(j) /\ ClaimHeld(j)
  /\ \A j, k \in Jobs : Apart(j, k)

ServingInv == mode = "serving" => \A a \in Accounts : Reserved(a)

UsedInv == \A a \in Accounts : Stored(a) => a \in used

IdentityInv == TypeOK /\ UsedInv /\ StartupInv /\ JobsInv /\ ServingInv

-----------------------------------------------------------------------------
(* Types *)

LEMMA TypingStarts == Init => TypeOK
<1> SUFFICES ASSUME Init PROVE TypeOK OBVIOUS
<1>1. email \in [Accounts -> Emails \cup {None}] /\ raw \in SUBSET Accounts /\ used \in SUBSET Accounts
  BY DEF Init
<1>2. registry \in [Emails -> Accounts \cup {None, Stranger}] /\ version \in [Accounts -> Nat]
  BY <1>1 DEF Init
<1>3. Idle \in [op : {"none", "create", "update", "delete"}, acct : Accounts \cup {None},
                from : Emails \cup {None}, to : Emails \cup {None}, seen : Nat,
                at : Writes \cup {"idle", "done"}]
  BY DEF Idle
<1> QED BY <1>1, <1>2, <1>3 DEF Init, TypeOK

LEMMA ApplyTypes ==
  ASSUME TypeOK, NEW j \in Jobs, NEW w \in Writes, Apply(j, w),
         w = "write" \/ w = "reserve" => job[j].acct \in Accounts,
         w = "write" => job[j].to \in Emails \cup {None}
  PROVE  /\ email' \in [Accounts -> Emails \cup {None}]
         /\ raw' \in SUBSET Accounts
         /\ version' \in [Accounts -> Nat]
         /\ used' \in SUBSET Accounts
         /\ registry' \in [Emails -> Accounts \cup {None, Stranger}]
<1>1. CASE w = "write"
  BY <1>1 DEF Apply, TypeOK
<1>2. CASE w = "reserve"
  BY <1>2 DEF Apply, TypeOK
<1>3. CASE w \in {"undo", "retire"}
  BY <1>3 DEF Apply, TypeOK, Freed
<1>4. CASE w = "purge"
  BY <1>4 DEF Apply, TypeOK
<1> QED BY <1>1, <1>2, <1>3, <1>4 DEF Writes

LEMMA TypingKept ==
  ASSUME TypeOK, JobsInv, [Next]_vars
  PROVE  TypeOK'
<1> USE DEF store, process
<1> DEFINE Task == [op : {"none", "create", "update", "delete"}, acct : Accounts \cup {None},
                    from : Emails \cup {None}, to : Emails \cup {None},
                    seen : Nat, at : Writes \cup {"idle", "done"}]
           JobType == [Jobs -> Task]
<1>1. CASE UNCHANGED vars
  BY <1>1 DEF vars, TypeOK
<1>2. ASSUME NEW j \in Jobs, NEW a \in Accounts,
             (\E e \in Emails : StartCreate(j, a, e) \/ StartUpdate(j, a, e)) \/ StartDelete(j, a)
      PROVE  TypeOK'
  <2>1. PICK op \in {"create", "update", "delete"}, t \in Emails \cup {None}, s \in Writes :
          Start(j, op, a, t, s)
    BY <1>2 DEF StartCreate, StartUpdate, StartDelete, Writes, TypeOK
  <2> QED BY <2>1 DEF Start, TypeOK
<1>3. ASSUME NEW j \in Jobs, Succeed(j) PROVE TypeOK'
  <2>1. job[j].at \in Writes /\ Apply(j, job[j].at) /\ Due(j) \in Writes
    BY <1>3 DEF Succeed, Due, JobsInv, Shape, Writes
  <2>2. job[j].acct \in Accounts /\ job[j].to \in Emails \cup {None}
    BY <2>1 DEF JobsInv, Shape, TypeOK
  <2>3. Following(j) \in Writes \cup {"done"}
    BY DEF Following, Writes
  <2>4. job' \in JobType
    BY <1>3, <2>3 DEF Succeed, MoveTo, TypeOK
  <2> QED BY <1>3, <2>1, <2>2, <2>4, ApplyTypes DEF Succeed, TypeOK
<1>4. ASSUME NEW j \in Jobs, FailDefinitely(j) \/ LoseReply(j) PROVE TypeOK'
  <2>1. PICK s \in Writes \cup {"done"} : MoveTo(j, s)
    BY <1>4 DEF FailDefinitely, LoseReply, Writes
  <2>2. job' \in JobType
    BY <2>1 DEF MoveTo, TypeOK
  <2>3. late' \in [Jobs -> Writes \cup {"none"}] /\ clean' \in BOOLEAN
    BY <1>4 DEF FailDefinitely, LoseReply, TypeOK
  <2> QED BY <1>4, <2>2, <2>3 DEF FailDefinitely, LoseReply, TypeOK
<1>5. ASSUME NEW j \in Jobs, HappenLate(j) PROVE TypeOK'
  <2>1. late[j] \in Writes /\ Apply(j, late[j]) /\ Due(j) \in Writes
    BY <1>5 DEF HappenLate, Due, TypeOK
  <2>2. job[j].acct \in Accounts /\ job[j].to \in Emails \cup {None}
    BY <2>1 DEF JobsInv, Shape, TypeOK
  <2> QED BY <1>5, <2>1, <2>2, ApplyTypes DEF HappenLate, TypeOK
<1>6. CASE Scan \/ StartSweep \/ StartInsert \/ Open
  BY <1>6 DEF Scan, StartSweep, StartInsert, Open, Pass, TypeOK, InUse
<1>7. ASSUME NEW a \in Accounts, Normalize(a) \/ Insert(a) PROVE TypeOK'
  BY <1>7 DEF Normalize, Insert, Pass, TypeOK
<1>8. ASSUME NEW e \in Emails, Sweep(e) PROVE TypeOK'
  BY <1>8 DEF Sweep, TypeOK
<1>9. CASE Crash
  <2>0. \A j \in Jobs : job[j] \in Task /\ [job[j] EXCEPT !.at = "done"] \in Task
    BY DEF TypeOK
  <2>1. job' \in JobType
    <3> HIDE DEF Task
    <3> QED BY <1>9, <2>0 DEF Crash
  <2>2. late' \in [Jobs -> Writes \cup {"none"}]
    BY <1>9 DEF Crash
  <2>3. UNCHANGED <<email, raw, version, used, registry, valid>> /\ mode' = "down" /\ todo' = {}
          /\ crashes' \in Nat /\ clean' = FALSE
    BY <1>9 DEF Crash, Pass, TypeOK
  <2> QED BY <2>1, <2>2, <2>3 DEF TypeOK
<1>10. ASSUME NEW j \in Jobs, JobNext(j) PROVE TypeOK'
  BY <1>2, <1>3, <1>4, <1>5, <1>10, IdentityAssumption DEF JobNext
<1>11. CASE StartupNext
  BY <1>6, <1>7, <1>8, <1>11 DEF StartupNext
<1> QED BY <1>1, <1>9, <1>10, <1>11 DEF Next

-----------------------------------------------------------------------------
(* What a step does to the jobs *)

\* Job j goes on to what is due next, all else about the jobs stays.
Moves(j, next) ==
  /\ \A k \in Jobs \ {j} : job'[k] = job[k] /\ late'[k] = late[k]
  /\ job'[j].op = job[j].op /\ job'[j].acct = job[j].acct /\ job'[j].from = job[j].from
  /\ job'[j].to = job[j].to /\ job'[j].seen = job[j].seen
  /\ late'[j] # "none" => job'[j].at = "done"
  /\ Due(j)' = next

\* What follows the write that is due, when its success is known.
NextDue(j) ==
  CASE Due(j) = "reserve" -> "write"
    [] Due(j) = "write" /\ job[j].op = "update" /\ job[j].to # job[j].from -> "retire"
    [] Due(j) = "write" /\ job[j].op = "delete" -> "purge"
    [] OTHER -> "done"

\* A write that is carried out, with its reply or late.
Performs(j) ==
  /\ Due(j) \in Writes /\ Applies(j, Due(j)) /\ Apply(j, Due(j))
  /\ \E next \in {NextDue(j), "done"} : Moves(j, next)

LEMMA WritesPerform ==
  ASSUME TypeOK, JobsInv, NEW j \in Jobs, Succeed(j) \/ HappenLate(j)
  PROVE  Performs(j)
<1>1. CASE Succeed(j)
  <2>1. job[j].at \in Writes /\ late[j] = "none" /\ Due(j) = job[j].at
    BY <1>1 DEF Succeed, JobsInv, Shape, Due, Writes
  <2>2. Following(j) = NextDue(j) /\ NextDue(j) # "none"
    BY <2>1 DEF Following, NextDue
  <2>3. Moves(j, Following(j))
    BY <1>1, <2>1 DEF Succeed, MoveTo, Moves, Due, TypeOK
  <2> QED BY <1>1, <2>1, <2>2, <2>3 DEF Succeed, Performs
<1>2. CASE HappenLate(j)
  <2>1. late[j] \in Writes /\ Due(j) = late[j] /\ job[j].at = "done"
    BY <1>2 DEF HappenLate, TypeOK, Due, JobsInv, Shape
  <2>2. Moves(j, "done")
    BY <1>2, <2>1 DEF HappenLate, Moves, Due, TypeOK
  <2> QED BY <1>2, <2>1, <2>2 DEF HappenLate, Performs
<1> QED BY <1>1, <1>2

LEMMA FailuresMove ==
  ASSUME TypeOK, JobsInv, NEW j \in Jobs, FailDefinitely(j) \/ LoseReply(j)
  PROVE  /\ UNCHANGED store
         /\ \/ Moves(j, Due(j))
            \/ Due(j) \in {"reserve", "write"} /\ Moves(j, "done")
            \/ Due(j) = "write" /\ job[j].op # "delete" /\ job[j].to # job[j].from /\ Moves(j, "undo")
<1>1. job[j].at \in Writes /\ late[j] = "none" /\ Due(j) = job[j].at
  BY DEF FailDefinitely, LoseReply, JobsInv, Shape, Due, Writes
<1>2. CASE FailDefinitely(j)
  <2>1. ASSUME NEW s \in {"undo", "done"}, MoveTo(j, s) PROVE Moves(j, s)
    BY <1>1, <1>2, <2>1 DEF FailDefinitely, MoveTo, Moves, Due, TypeOK
  <2> QED BY <1>1, <1>2, <2>1 DEF FailDefinitely
<1>3. CASE LoseReply(j)
  <2>1. Moves(j, Due(j))
    BY <1>1, <1>3 DEF LoseReply, MoveTo, Moves, Due, TypeOK, Writes
  <2> QED BY <1>3, <2>1 DEF LoseReply
<1> QED BY <1>2, <1>3

\* The jobs that do not move, and one that does not move on.
LEMMA OthersStay ==
  ASSUME NEW j \in Jobs, NEW next, Moves(j, next), NEW k \in Jobs \ {j}
  PROVE  Due(k)' = Due(k) /\ Claim(k)' = Claim(k) /\ job'[k] = job[k] /\ late'[k] = late[k]
BY DEF Moves, Due, Claim

LEMMA ShapeKept ==
  ASSUME JobsInv, NEW j \in Jobs, NEW next, Moves(j, next),
         \/ next \in {Due(j), NextDue(j), "done"}
         \/ next = "undo" /\ Due(j) = "write" /\ job[j].op # "delete" /\ job[j].to # job[j].from
  PROVE  \A k \in Jobs : Shape(k)'
<1>1. Shape(j) BY DEF JobsInv
<1>2. ASSUME NEW k \in Jobs \ {j} PROVE Shape(k)'
  BY OthersStay, <1>2 DEF Shape, JobsInv
<1>3. CASE Due(j) \in Writes
  <2>1. Shape(j)' BY <1>1, <1>3 DEF Shape, Moves, NextDue, Writes
  <2> QED BY <1>2, <2>1
<1>4. CASE Due(j) \notin Writes
  <2>1. next \notin Writes BY <1>4 DEF NextDue, Writes
  <2>2. Shape(j)' BY <2>1 DEF Shape, Moves, Writes
  <2> QED BY <1>2, <2>2
<1> QED BY <1>3, <1>4

-----------------------------------------------------------------------------
(* Steps that change no account: of a job alone, or of registry rows.  *)

\* What a job that moves without a change of its account may do: go on with what
\* was due, begin its write, be over, or undo.
LEMMA AccountsStay ==
  ASSUME TypeOK, JobsInv, UNCHANGED <<email, version, used>>, NEW j \in Jobs, NEW next,
         Moves(j, next),
         next \in {Due(j), "done"} \/ <<Due(j), next>> \in {<<"write", "undo">>, <<"reserve", "write">>}
  PROVE  \A k \in Jobs : Fresh(k)' /\ Loaded(k)' /\ (Gone(job[k].acct)' <=> Gone(job[k].acct))
<1>1. ASSUME NEW k \in Jobs \ {j} PROVE Fresh(k)' /\ Loaded(k)'
  <2>1. Fresh(k) /\ Loaded(k) BY DEF JobsInv
  <2>2. \A i \in Jobs : job'[i].acct = job[i].acct
    BY DEF Moves
  <2> QED BY <2>1, <2>2, OthersStay DEF Fresh, Loaded, Gone
<1>2. Fresh(j)' /\ Loaded(j)'
  <2>1. Fresh(j) /\ Loaded(j) /\ Shape(j) BY DEF JobsInv
  <2>2. \A i \in Jobs : job'[i].acct = job[i].acct
    BY DEF Moves
  <2>3. Fresh(j)' BY <2>1, <2>2 DEF Fresh, Moves
  <2>4. Loaded(j)'
    BY <2>1, <2>2 DEF Loaded, Moves, Gone, Writes, Shape
  <2> QED BY <2>3, <2>4
<1>3. \A k \in Jobs : job'[k].acct = job[k].acct
  BY DEF Moves
<1> QED BY <1>1, <1>2, <1>3 DEF Gone

\* Rows are only freed where the job's own claim, or an account that is gone, had them.
LEMMA FreeingKeeps ==
  ASSUME TypeOK, JobsInv, \A b \in Accounts : Reserved(b),
         UNCHANGED <<email, version, used>>, NEW j \in Jobs, NEW next, Moves(j, next),
         job[j].acct \in Accounts, next \notin {"write", "undo", "retire"},
         \A e \in Emails : \/ registry'[e] = registry[e]
                           \/ registry[e] = job[j].acct /\ (Gone(job[j].acct) \/ e = Claim(j))
  PROVE  /\ \A b \in Accounts : Reserved(b)'
         /\ \A k \in Jobs : ClaimHeld(k)'
         /\ \A i, k \in Jobs : Apart(i, k)'
<1>0. Claim(j)' = None /\ \A k \in Jobs : job'[k].acct = job[k].acct
  BY DEF Claim, Moves
<1>1. ASSUME NEW b \in Accounts PROVE Reserved(b)'
  <2>1. CASE email[b] = None
    BY <2>1 DEF Reserved, Stored
  <2>2. CASE email[b] \in Emails
    <3>1. registry[email[b]] = b
      BY <2>2, IdentityAssumption DEF Reserved, Stored
    <3>2. ~(b = job[j].acct /\ (Gone(b) \/ email[b] = Claim(j)))
      BY <2>2, IdentityAssumption DEF Gone, JobsInv, ClaimHeld
    <3> QED BY <2>2, <3>1, <3>2 DEF Reserved
  <2> QED BY <2>1, <2>2 DEF TypeOK
<1>2. ASSUME NEW k \in Jobs PROVE ClaimHeld(k)'
  <2>1. CASE k = j BY <1>0, <2>1 DEF ClaimHeld
  <2>2. CASE k # j /\ Claim(k) # None
    <3>1. Claim(k)' = Claim(k) BY <2>2, OthersStay
    <3>2. Claim(k) \in Emails
      BY <2>2 DEF Claim, TypeOK
    <3>3. ClaimHeld(k) /\ Apart(j, k) BY DEF JobsInv
    <3>4. registry'[Claim(k)] = job[k].acct \/ Gone(job[k].acct)
      BY <2>2, <3>2, <3>3 DEF ClaimHeld, Apart
    <3> QED BY <1>0, <3>1, <3>3, <3>4 DEF ClaimHeld, Gone
  <2>3. CASE k # j /\ Claim(k) = None
    <3>1. Claim(k)' = Claim(k) BY <2>3, OthersStay
    <3> QED BY <2>3, <3>1 DEF ClaimHeld
  <2> QED BY <2>1, <2>2, <2>3
<1>3. ASSUME NEW i \in Jobs, NEW k \in Jobs PROVE Apart(i, k)'
  <2>1. CASE i = j \/ k = j BY <1>0, <2>1 DEF Apart
  <2>2. CASE i # j /\ k # j
    <3>1. Apart(i, k) BY DEF JobsInv
    <3>2. Claim(i)' = Claim(i) /\ Claim(k)' = Claim(k)
      BY <2>2, OthersStay
    <3> QED BY <1>0, <3>1, <3>2 DEF Apart, Gone
  <2> QED BY <2>1, <2>2
<1> QED BY <1>1, <1>2, <1>3

\* A row is created only where there is none, so nobody has claimed it.
LEMMA ReservingKeeps ==
  ASSUME TypeOK, JobsInv, \A b \in Accounts : Reserved(b),
         UNCHANGED <<email, version, used>>, NEW j \in Jobs, NEW next, Moves(j, next),
         Due(j) = "reserve", next \in {"write", "done"},
         registry[job[j].to] = None, registry' = [registry EXCEPT ![job[j].to] = job[j].acct]
  PROVE  /\ \A b \in Accounts : Reserved(b)'
         /\ \A k \in Jobs : ClaimHeld(k)'
         /\ \A i, k \in Jobs : Apart(i, k)'
<1>0. \A k \in Jobs : job'[k].acct = job[k].acct
  BY DEF Moves
<1>1. /\ job[j].acct \in Accounts /\ job[j].to \in Emails
      /\ Claim(j)' \in {job[j].to, None}
  BY DEF JobsInv, Shape, Claim, Moves, Writes
<1>2. ASSUME NEW b \in Accounts PROVE Reserved(b)' /\ email[b] # job[j].to
  <2>1. Reserved(b) /\ email[b] \in Emails \cup {None}
    BY DEF TypeOK
  <2>2. email[b] # job[j].to
    BY <1>1, <2>1, IdentityAssumption DEF Reserved, Stored
  <2> QED BY <1>1, <2>1, <2>2 DEF Reserved, Stored, TypeOK
<1>3. ASSUME NEW k \in Jobs \ {j}, Claim(k) # None
      PROVE  ClaimHeld(k)' /\ (Claim(k) # job[j].to \/ Gone(job[k].acct))
  <2>1. Claim(k)' = Claim(k) BY OthersStay
  <2>2. Claim(k) \in Emails /\ job[k].acct \in Accounts
    <3>1. Due(k) \in Writes BY <1>3 DEF Claim, Writes
    <3> QED BY <1>3, <3>1 DEF Claim, TypeOK, JobsInv, Shape
  <2>3. ClaimHeld(k) BY DEF JobsInv
  <2>4. Claim(k) # job[j].to \/ Gone(job[k].acct)
    BY <1>3, <2>2, <2>3, IdentityAssumption DEF ClaimHeld
  <2> QED BY <1>0, <1>1, <1>3, <2>1, <2>2, <2>3, <2>4 DEF ClaimHeld, Gone, TypeOK
<1>4. ASSUME NEW k \in Jobs \ {j}, Claim(k) = None PROVE ClaimHeld(k)'
  BY <1>4, OthersStay DEF ClaimHeld
<1>5. ClaimHeld(j)'
  BY <1>0, <1>1, <1>2 DEF ClaimHeld, TypeOK
<1>6. ASSUME NEW i \in Jobs, NEW k \in Jobs PROVE Apart(i, k)'
  <2>1. CASE i = k BY <2>1 DEF Apart
  <2>2. CASE i = j /\ k # j
    <3>1. Claim(k)' = Claim(k) BY <2>2, OthersStay
    <3> QED BY <1>0, <1>1, <1>3, <2>2, <3>1 DEF Apart, Gone
  <2>3. CASE i # j /\ k = j
    <3>1. Claim(i)' = Claim(i) BY <2>3, OthersStay
    <3> QED BY <1>0, <1>1, <1>3, <2>3, <3>1 DEF Apart, Gone
  <2>4. CASE i # j /\ k # j
    <3>1. Apart(i, k) BY DEF JobsInv
    <3>2. Claim(i)' = Claim(i) /\ Claim(k)' = Claim(k)
      BY <2>4, OthersStay
    <3> QED BY <1>0, <3>1, <3>2 DEF Apart, Gone
  <2> QED BY <2>1, <2>2, <2>3, <2>4
<1> QED BY <1>2, <1>3, <1>4, <1>5, <1>6

-----------------------------------------------------------------------------
(* Steps that write an account *)

\* What one account's document does, all rows staying: with this, only claims and
\* loads of that account's jobs are in question.
LEMMA OtherAccounts ==
  ASSUME TypeOK, JobsInv, \A b \in Accounts : Reserved(b), UNCHANGED registry,
         NEW j \in Jobs, NEW next, Moves(j, next), NEW a \in Accounts, a = job[j].acct,
         \A b \in Accounts \ {a} : email'[b] = email[b] /\ version'[b] = version[b],
         used' = used \cup {a}
  PROVE  /\ \A b \in Accounts \ {a} : Reserved(b)'
         /\ \A k \in Jobs : job'[k].acct = job[k].acct
         /\ \A k \in Jobs : job[k].acct # a /\ Due(k) \in Writes =>
              Fresh(k)' /\ Loaded(k)' /\ ClaimHeld(k)'
         /\ \A i, k \in Jobs : job[i].acct # a /\ Due(i) \in Writes => Apart(i, k)'
<1>1. \A k \in Jobs : job'[k].acct = job[k].acct
  BY DEF Moves
<1>2. \A b \in Accounts \ {a} : Reserved(b)'
  BY DEF Reserved, Stored
<1>3. ASSUME NEW k \in Jobs, job[k].acct # a, Due(k) \in Writes
      PROVE  Fresh(k)' /\ Loaded(k)' /\ ClaimHeld(k)'
  <2>1. k \in Jobs \ {j} /\ job[k].acct \in Accounts \ {a}
    BY <1>3 DEF JobsInv, Shape
  <2>2. Due(k)' = Due(k) /\ Claim(k)' = Claim(k) /\ job'[k] = job[k]
    BY <2>1, OthersStay
  <2>3. Fresh(k) /\ Loaded(k) /\ ClaimHeld(k) BY DEF JobsInv
  <2>4. Gone(job[k].acct) => Gone(job[k].acct)'
    BY <2>1, <2>2 DEF Gone
  <2>5. Fresh(k)' BY <1>1, <2>1, <2>2, <2>3 DEF Fresh
  <2>6. Loaded(k)' BY <2>1, <2>2, <2>3, <2>4 DEF Loaded
  <2>7. ClaimHeld(k)' BY <2>1, <2>2, <2>3, <2>4 DEF ClaimHeld
  <2> QED BY <2>5, <2>6, <2>7
<1>4. ASSUME NEW i \in Jobs, NEW k \in Jobs, job[i].acct # a, Due(i) \in Writes
      PROVE  Apart(i, k)'
  <2>1. i \in Jobs \ {j} /\ job[i].acct \in Accounts \ {a}
    BY <1>4 DEF JobsInv, Shape
  <2>2. Claim(i)' = Claim(i) BY <2>1, OthersStay
  <2>3. CASE k = j BY <1>1, <2>1, <2>3 DEF Apart
  <2>4. CASE k # j
    <3>1. Claim(k)' = Claim(k) BY <2>4, OthersStay
    <3>2. Apart(i, k) BY DEF JobsInv
    <3> QED BY <1>1, <2>1, <2>2, <3>1, <3>2 DEF Apart, Gone
  <2> QED BY <2>3, <2>4
<1> QED BY <1>1, <1>2, <1>3, <1>4

\* A job with nothing due says nothing.
LEMMA NothingDue ==
  ASSUME NEW j \in Jobs, Due(j)' \notin Writes
  PROVE  /\ Fresh(j)' /\ Loaded(j)' /\ ClaimHeld(j)' /\ Claim(j)' = None
         /\ \A k \in Jobs : Apart(j, k)'
BY DEF Fresh, Loaded, ClaimHeld, Claim, Apart, Writes

LEMMA CreatingKeeps ==
  ASSUME TypeOK, JobsInv, \A b \in Accounts : Reserved(b),
         NEW j \in Jobs, Moves(j, "done"), UNCHANGED registry,
         Due(j) = "write", job[j].op = "create",
         email' = [email EXCEPT ![job[j].acct] = job[j].to], UNCHANGED version,
         used' = used \cup {job[j].acct}
  PROVE  /\ \A b \in Accounts : Reserved(b)'
         /\ \A k \in Jobs : Fresh(k)' /\ Loaded(k)' /\ ClaimHeld(k)'
         /\ \A i, k \in Jobs : Apart(i, k)'
<1> DEFINE a == job[j].acct
<1>1. a \in Accounts /\ job[j].to \in Emails /\ job[j].from = None /\ Claim(j) = job[j].to
  BY IdentityAssumption DEF JobsInv, Shape, Writes, Claim
<1>2. a \notin used /\ \A k \in Jobs \ {j} : job[k].acct # a
  BY DEF JobsInv, Fresh
<1>3. registry[job[j].to] = a
  BY <1>1, <1>2, IdentityAssumption DEF JobsInv, ClaimHeld, Gone
<1>4. Reserved(a)'
  <2>1. job'[j].acct = a /\ email'[a] = job[j].to BY <1>1 DEF Moves, TypeOK
  <2> QED BY <1>3, <2>1 DEF Reserved
<1>5. \A b \in Accounts \ {a} : email'[b] = email[b] /\ version'[b] = version[b]
  BY DEF TypeOK
<1>6. Due(j)' \notin Writes BY DEF Moves, Writes
<1>7. ASSUME NEW k \in Jobs PROVE Fresh(k)' /\ Loaded(k)' /\ ClaimHeld(k)' /\ \A i \in Jobs : Apart(k, i)'
  <2>1. CASE k = j BY <1>6, <2>1, NothingDue
  <2>2. CASE k # j /\ Due(k) \in Writes
    BY <1>1, <1>2, <1>5, <2>2, OtherAccounts
  <2>3. CASE k # j /\ Due(k) \notin Writes
    BY <2>3, OthersStay, NothingDue
  <2> QED BY <2>1, <2>2, <2>3
<1> QED BY <1>1, <1>4, <1>5, <1>7, OtherAccounts

LEMMA DeletingKeeps ==
  ASSUME TypeOK, JobsInv, \A b \in Accounts : Reserved(b),
         NEW j \in Jobs, NEW next \in {"purge", "done"}, Moves(j, next), UNCHANGED registry,
         Due(j) = "write", job[j].op = "delete",
         email' = [email EXCEPT ![job[j].acct] = None], UNCHANGED version,
         used' = used \cup {job[j].acct}
  PROVE  /\ \A b \in Accounts : Reserved(b)'
         /\ \A k \in Jobs : Fresh(k)' /\ Loaded(k)' /\ ClaimHeld(k)'
         /\ \A i, k \in Jobs : Apart(i, k)'
<1> DEFINE a == job[j].acct
<1>1. a \in Accounts /\ a \in used
  BY DEF JobsInv, Shape, Loaded, Writes
<1>2. Gone(a)' /\ Reserved(a)'
  BY <1>1 DEF Gone, Reserved, Stored, TypeOK, Moves
<1>3. \A b \in Accounts \ {a} : email'[b] = email[b] /\ version'[b] = version[b]
  BY DEF TypeOK
<1>4. \A k \in Jobs : job'[k].acct = job[k].acct
  BY DEF Moves
<1>5. ASSUME NEW k \in Jobs, job[k].acct = a, Due(k) \in Writes
      PROVE  Fresh(k)' /\ Loaded(k)' /\ ClaimHeld(k)' /\ \A i \in Jobs : Apart(k, i)'
  <2>1. job'[k].acct = a /\ email'[a] = None /\ a \in used'
    BY <1>1, <1>4, <1>5 DEF TypeOK
  <2>2. Claim(k)' # None => email'[a] # Claim(k)'
    BY <2>1
  <2>3. ClaimHeld(k)' /\ \A i \in Jobs : Apart(k, i)'
    BY <2>1, <2>2 DEF ClaimHeld, Apart, Gone
  <2>4. CASE k = j
    BY <1>1, <2>1, <2>3, <2>4 DEF Fresh, Loaded, Gone, Moves, Writes
  <2>5. CASE k # j
    <3>1. Due(k)' = Due(k) /\ job'[k] = job[k] BY <2>5, OthersStay
    <3>2. Fresh(k) /\ Loaded(k) BY DEF JobsInv
    <3>3. Fresh(k)' BY <1>1, <1>5, <3>1, <3>2 DEF Fresh
    <3>4. Loaded(k)' BY <1>5, <2>1, <3>1, <3>2 DEF Loaded, Gone
    <3> QED BY <2>3, <3>3, <3>4
  <2> QED BY <2>4, <2>5
<1>6. ASSUME NEW k \in Jobs PROVE Fresh(k)' /\ Loaded(k)' /\ ClaimHeld(k)' /\ \A i \in Jobs : Apart(k, i)'
  <2>1. CASE Due(k) \in Writes
    BY <1>1, <1>3, <1>5, <2>1, OtherAccounts
  <2>2. CASE Due(k) \notin Writes
    <3>1. k # j BY <2>2 DEF Writes
    <3> QED BY <2>2, <3>1, OthersStay, NothingDue
  <2> QED BY <2>1, <2>2
<1> QED BY <1>1, <1>2, <1>3, <1>6, OtherAccounts
\* A save moves the account to the address it had reserved; no other save of the
\* account can happen any more, and no other job claims its old row.
LEMMA UpdatingKeeps ==
  ASSUME TypeOK, JobsInv, \A b \in Accounts : Reserved(b),
         NEW j \in Jobs, NEW next \in {NextDue(j), "done"}, Moves(j, next), UNCHANGED registry,
         Due(j) = "write", job[j].op = "update",
         Stored(job[j].acct), version[job[j].acct] = job[j].seen,
         email' = [email EXCEPT ![job[j].acct] = job[j].to],
         version' = [version EXCEPT ![job[j].acct] = @ + 1],
         used' = used \cup {job[j].acct}
  PROVE  /\ \A b \in Accounts : Reserved(b)'
         /\ \A k \in Jobs : Fresh(k)' /\ Loaded(k)' /\ ClaimHeld(k)'
         /\ \A i, k \in Jobs : Apart(i, k)'
<1> DEFINE a == job[j].acct
<1>1. /\ a \in Accounts /\ a \in used /\ job[j].to \in Emails /\ job[j].from \in Emails
      /\ email[a] = job[j].from /\ ~Gone(a)
  BY DEF JobsInv, Shape, Loaded, Writes, Stored, Gone
<1>2. \A k \in Jobs : job'[k].acct = job[k].acct
  BY DEF Moves
<1>3. /\ \A b \in Accounts \ {a} : email'[b] = email[b] /\ version'[b] = version[b]
      /\ email'[a] = job[j].to /\ version'[a] = version[a] + 1 /\ version[a] \in Nat
      /\ a \in used'
  BY <1>1 DEF TypeOK
<1>4. registry[job[j].from] = a
  BY <1>1 DEF Reserved, Stored
<1>5. job[j].to # job[j].from => Claim(j) = job[j].to /\ registry[job[j].to] = a
  <2>1. CASE job[j].to # job[j].from
    <3>1. Claim(j) = job[j].to BY <2>1 DEF Claim
    <3>2. ClaimHeld(j) BY DEF JobsInv
    <3> QED BY <1>1, <3>1, <3>2, IdentityAssumption DEF ClaimHeld
  <2> QED BY <2>1
<1>6. Reserved(a)'
  <2>1. registry[job[j].to] = a BY <1>4, <1>5
  <2> QED BY <1>2, <1>3, <2>1 DEF Reserved
<1>7. next \in {"retire", "done"} /\ (next = "retire" => job[j].to # job[j].from)
  BY DEF NextDue
<1>8. ASSUME NEW k \in Jobs \ {j}, job[k].acct = a, Claim(k) # None
      PROVE  Claim(k)' = Claim(k) /\ Claim(k) \notin {job[j].to, job[j].from}
             /\ registry[Claim(k)] = a
  <2>1. Claim(k)' = Claim(k) BY OthersStay
  <2>2. ClaimHeld(k) /\ Apart(j, k) BY DEF JobsInv
  <2>3. Claim(k) # job[j].from /\ registry[Claim(k)] = a
    BY <1>1, <1>8, <2>2 DEF ClaimHeld
  <2>4. Claim(k) # job[j].to
    BY <1>1, <1>5, <1>8, <2>2, <2>3 DEF Apart
  <2> QED BY <2>1, <2>3, <2>4
<1>9. Fresh(j)' /\ Loaded(j)' /\ ClaimHeld(j)' /\ \A k \in Jobs : Apart(j, k)'
  <2>1. CASE next = "done"
    BY <2>1, NothingDue DEF Moves, Writes
  <2>2. CASE next = "retire"
    <3>1. Claim(j)' = job[j].from /\ Due(j)' = "retire" /\ job'[j].op = "update"
      BY <2>2 DEF Moves, Claim
    <3>2. Fresh(j)' /\ Loaded(j)'
      BY <1>2, <1>3, <3>1 DEF Fresh, Loaded
    <3>3. ClaimHeld(j)'
      BY <1>2, <1>3, <1>4, <1>7, <2>2, <3>1 DEF ClaimHeld
    <3>4. ASSUME NEW k \in Jobs PROVE Apart(j, k)'
      <4>1. CASE k = j BY <4>1 DEF Apart
      <4>2. CASE k # j /\ job[k].acct = a /\ Claim(k) # None
        BY <1>8, <3>1, <4>2 DEF Apart
      <4>3. CASE k # j /\ job[k].acct # a
        BY <1>2, <4>3 DEF Apart
      <4>4. CASE k # j /\ Claim(k) = None
        BY <4>4, OthersStay DEF Apart
      <4> QED BY <4>1, <4>2, <4>3, <4>4
    <3> QED BY <3>2, <3>3, <3>4
  <2> QED BY <1>7, <2>1, <2>2
<1>10. ASSUME NEW k \in Jobs \ {j}, job[k].acct = a, Due(k) \in Writes
       PROVE  Fresh(k)' /\ Loaded(k)' /\ ClaimHeld(k)' /\ \A i \in Jobs : Apart(k, i)'
  <2>1. Due(k)' = Due(k) /\ Claim(k)' = Claim(k) /\ job'[k] = job[k] BY OthersStay
  <2>2. Fresh(k) /\ Loaded(k) BY DEF JobsInv
  <2>3. Fresh(k)' BY <1>1, <1>10, <2>1, <2>2 DEF Fresh
  <2>4. job[k].seen \in Nat BY DEF TypeOK
  <2>5. Loaded(k)' BY <1>1, <1>3, <1>10, <2>1, <2>2, <2>4 DEF Loaded
  <2>6. ClaimHeld(k)'
    BY <1>3, <1>8, <1>10, <2>1 DEF ClaimHeld
  <2>7. ASSUME NEW i \in Jobs PROVE Apart(k, i)'
    <3>1. CASE i = j
      <4>1. Claim(k)' # None => Claim(k)' # Claim(j)'
        BY <1>7, <1>8, <1>10, <2>1 DEF Claim, Moves
      <4> QED BY <3>1, <4>1 DEF Apart
    <3>2. CASE i # j
      <4>1. Claim(i)' = Claim(i) BY <3>2, OthersStay
      <4>2. Apart(k, i) BY DEF JobsInv
      <4> QED BY <1>1, <1>2, <1>10, <2>1, <4>1, <4>2 DEF Apart
    <3> QED BY <3>1, <3>2
  <2> QED BY <2>3, <2>5, <2>6, <2>7
<1>11. ASSUME NEW k \in Jobs PROVE Fresh(k)' /\ Loaded(k)' /\ ClaimHeld(k)' /\ \A i \in Jobs : Apart(k, i)'
  <2>1. CASE k = j BY <1>9, <2>1
  <2>2. CASE k # j /\ Due(k) \in Writes /\ job[k].acct = a BY <1>10, <2>2
  <2>3. CASE Due(k) \in Writes /\ job[k].acct # a
    BY <1>1, <1>3, <2>3, OtherAccounts
  <2>4. CASE k # j /\ Due(k) \notin Writes
    BY <2>4, OthersStay, NothingDue
  <2> QED BY <2>1, <2>2, <2>3, <2>4
<1> QED BY <1>1, <1>2, <1>3, <1>6, <1>11, OtherAccounts

-----------------------------------------------------------------------------
(* Every step keeps the invariant *)

\* A write that is carried out, whichever it is.
LEMMA PerformingKeeps ==
  ASSUME TypeOK, JobsInv, UsedInv, \A b \in Accounts : Reserved(b), NEW j \in Jobs, Performs(j)
  PROVE  JobsInv' /\ UsedInv' /\ \A b \in Accounts : Reserved(b)'
<1> DEFINE Rest == /\ \A b \in Accounts : Reserved(b)'
                   /\ \A k \in Jobs : Fresh(k)' /\ Loaded(k)' /\ ClaimHeld(k)'
                   /\ \A i, k \in Jobs : Apart(i, k)'
<1>1. PICK next \in {NextDue(j), "done"} : Moves(j, next)
  BY DEF Performs
<1>2. /\ Due(j) \in Writes /\ Applies(j, Due(j)) /\ Apply(j, Due(j))
      /\ Shape(j) /\ Loaded(j) /\ job[j].acct \in Accounts
  BY DEF Performs, JobsInv, Shape
<1>3. \A k \in Jobs : Shape(k)'
  BY <1>1, ShapeKept
<1>4. CASE Due(j) = "reserve"
  <2>1. /\ UNCHANGED <<email, version, used>> /\ registry[job[j].to] = None
        /\ registry' = [registry EXCEPT ![job[j].to] = job[j].acct]
    BY <1>2, <1>4 DEF Apply, Applies
  <2>2. next \in {"write", "done"} BY <1>4 DEF NextDue
  <2>3. Rest
    BY <1>1, <1>4, <2>1, <2>2, AccountsStay, ReservingKeeps
  <2> QED BY <1>3, <2>1, <2>3 DEF JobsInv, UsedInv, Stored
<1>5. CASE Due(j) \in {"undo", "retire"}
  <2> DEFINE e == IF Due(j) = "undo" THEN job[j].to ELSE job[j].from
  <2>1. UNCHANGED <<email, version, used>> /\ registry' = Freed(e, job[j].acct)
    BY <1>2, <1>5 DEF Apply
  <2>2. next = "done" BY <1>5 DEF NextDue
  <2>3. e = Claim(j) BY <1>2, <1>5 DEF Shape, Claim
  <2>4. \A f \in Emails : \/ registry'[f] = registry[f]
                          \/ registry[f] = job[j].acct /\ f = Claim(j)
    BY <2>1, <2>3 DEF Freed, TypeOK
  <2>5. Rest
    BY <1>1, <1>2, <2>1, <2>2, <2>4, AccountsStay, FreeingKeeps
  <2> QED BY <1>3, <2>1, <2>5 DEF JobsInv, UsedInv, Stored
<1>6. CASE Due(j) = "purge"
  <2>1. /\ UNCHANGED <<email, version, used>>
        /\ \A f \in Emails : registry'[f] = registry[f] \/ registry[f] = job[j].acct
    BY <1>2, <1>6 DEF Apply
  <2>2. next = "done" /\ Gone(job[j].acct) BY <1>2, <1>6 DEF NextDue, Loaded
  <2>3. Rest
    BY <1>1, <1>2, <2>1, <2>2, AccountsStay, FreeingKeeps
  <2> QED BY <1>3, <2>1, <2>3 DEF JobsInv, UsedInv, Stored
<1>7. CASE Due(j) = "write"
  <2>1. /\ UNCHANGED registry /\ used' = used \cup {job[j].acct}
        /\ email' = [email EXCEPT ![job[j].acct] = IF job[j].op = "delete" THEN None ELSE job[j].to]
        /\ version' = [version EXCEPT ![job[j].acct] = IF job[j].op = "update" THEN @ + 1 ELSE @]
    BY <1>2, <1>7 DEF Apply
  <2>2. UsedInv'
    BY <1>2, <2>1 DEF UsedInv, Stored, TypeOK
  <2>3. CASE job[j].op = "create"
    <3>1. next = "done" /\ UNCHANGED version BY <1>7, <2>1, <2>3 DEF NextDue, TypeOK
    <3>2. Rest BY <1>1, <1>7, <2>1, <2>3, <3>1, CreatingKeeps
    <3> QED BY <1>3, <2>2, <3>2 DEF JobsInv
  <2>4. CASE job[j].op = "delete"
    <3>1. next \in {"purge", "done"} /\ UNCHANGED version BY <1>7, <2>1, <2>4 DEF NextDue, TypeOK
    <3>2. Rest BY <1>1, <1>7, <2>1, <2>4, <3>1, DeletingKeeps
    <3> QED BY <1>3, <2>2, <3>2 DEF JobsInv
  <2>5. CASE job[j].op = "update"
    <3>1. Stored(job[j].acct) /\ version[job[j].acct] = job[j].seen
      BY <1>2, <1>7, <2>5 DEF Applies
    <3>2. Rest BY <1>1, <1>7, <2>1, <2>5, <3>1, UpdatingKeeps
    <3> QED BY <1>3, <2>2, <3>2 DEF JobsInv
  <2> QED BY <1>2, <1>7, <2>3, <2>4, <2>5 DEF Shape
<1> QED BY <1>2, <1>4, <1>5, <1>6, <1>7 DEF Writes

\* A write that fails, for sure or perhaps.
LEMMA FailingKeeps ==
  ASSUME TypeOK, JobsInv, UsedInv, \A b \in Accounts : Reserved(b), NEW j \in Jobs,
         FailDefinitely(j) \/ LoseReply(j)
  PROVE  JobsInv' /\ UsedInv' /\ \A b \in Accounts : Reserved(b)'
<1>1. PICK next : /\ Moves(j, next)
                  /\ \/ next \in {Due(j), "done"}
                     \/ Due(j) = "write" /\ job[j].op # "delete" /\ job[j].to # job[j].from /\ next = "undo"
  BY FailuresMove
<1>2. UNCHANGED <<email, version, used, registry>>
  BY FailuresMove DEF store
<1>3. \A k \in Jobs : Shape(k)' BY <1>1, ShapeKept
<1>4. \A k \in Jobs : /\ Fresh(k)' /\ Loaded(k)' /\ (Gone(job[k].acct)' <=> Gone(job[k].acct))
  BY <1>1, <1>2, AccountsStay
<1>5. \A k \in Jobs : job'[k].acct = job[k].acct BY <1>1 DEF Moves
<1>6. ASSUME NEW k \in Jobs PROVE Claim(k)' \in {Claim(k), None}
  <2>1. CASE k = j BY <1>1, <2>1 DEF Moves, Claim
  <2>2. CASE k # j BY <1>1, <2>2, OthersStay
  <2> QED BY <2>1, <2>2
<1>7. ASSUME NEW k \in Jobs PROVE ClaimHeld(k)'
  <2>1. ClaimHeld(k) BY DEF JobsInv
  <2> QED BY <1>2, <1>5, <1>6, <2>1 DEF ClaimHeld, Gone
<1>8. ASSUME NEW i \in Jobs, NEW k \in Jobs PROVE Apart(i, k)'
  <2>1. Apart(i, k) BY DEF JobsInv
  <2>2. Claim(i)' \in {Claim(i), None} /\ Claim(k)' \in {Claim(k), None} BY <1>6
  <2> QED BY <1>2, <1>5, <2>1, <2>2 DEF Apart, Gone
<1> QED BY <1>2, <1>3, <1>4, <1>7, <1>8 DEF JobsInv, UsedInv, Reserved, Stored

\* A job that starts claims nothing yet, and knows its account as it is.
LEMMA StartingKeeps ==
  ASSUME TypeOK, JobsInv, UsedInv, NEW j \in Jobs, NEW a \in Accounts,
         (\E e \in Emails : StartCreate(j, a, e) \/ StartUpdate(j, a, e)) \/ StartDelete(j, a)
  PROVE  JobsInv' /\ UNCHANGED <<store, process>>
<1>1. PICK op \in {"create", "update", "delete"}, t \in Emails, s \in {"reserve", "write"} :
        /\ Start(j, op, a, t, s)
        /\ op = "create" => a \notin used /\ (\A k \in Jobs : job[k].acct # a) /\ s = "reserve"
        /\ op # "create" => Stored(a)
        /\ op = "update" => (s = "write" <=> t = email[a])
        /\ op = "delete" => s = "write"
  BY DEF StartCreate, StartUpdate, StartDelete, Stored, TypeOK
<1>2. /\ late' = late /\ UNCHANGED store /\ job[j].at = "idle"
      /\ \A k \in Jobs \ {j} : job'[k] = job[k]
      /\ job'[j] = [op |-> op, acct |-> a, from |-> email[a], to |-> t, seen |-> version[a], at |-> s]
  BY <1>1 DEF Start, TypeOK
<1>3. late[j] = "none" BY <1>2 DEF JobsInv, Shape
<1>4. Due(j)' = s BY <1>2, <1>3 DEF Due
<1>5. email[a] \in Emails \cup {None} /\ (op = "create" => email[a] = None) /\ (op # "create" => email[a] \in Emails)
  BY <1>1 DEF UsedInv, Stored, TypeOK
<1>6. a \in used <=> op # "create"
  BY <1>1 DEF UsedInv
<1>7. Shape(j)' BY <1>1, <1>2, <1>3, <1>4, <1>5, IdentityAssumption DEF Shape, Writes
<1>8. Claim(j)' = None BY <1>1, <1>2, <1>4 DEF Claim
<1>9. Fresh(j)' BY <1>1, <1>2, <1>4 DEF Fresh, store
<1>10. Loaded(j)'
  BY <1>1, <1>2, <1>4, <1>6 DEF Loaded, store, TypeOK
<1>11. ClaimHeld(j)' /\ \A k \in Jobs : Apart(j, k)' /\ Apart(k, j)'
  BY <1>8 DEF ClaimHeld, Apart
<1>12. ASSUME NEW k \in Jobs \ {j}
       PROVE  Shape(k)' /\ Fresh(k)' /\ Loaded(k)' /\ ClaimHeld(k)' /\ \A i \in Jobs \ {j} : Apart(k, i)'
  <2>1. /\ Shape(k) /\ Fresh(k) /\ Loaded(k) /\ ClaimHeld(k) /\ \A i \in Jobs : Apart(k, i)
    BY DEF JobsInv
  <2>2. \A i \in Jobs \ {j} : Due(i)' = Due(i) /\ Claim(i)' = Claim(i) /\ job'[i] = job[i]
    BY <1>2 DEF Due, Claim
  <2>3. Shape(k)' BY <1>2, <2>1, <2>2 DEF Shape
  <2>4. Fresh(k)'
    BY <1>1, <1>2, <1>6, <2>1, <2>2 DEF Fresh, store
  <2>5. Loaded(k)' BY <1>2, <2>1, <2>2 DEF Loaded, Gone, store
  <2>6. ClaimHeld(k)' BY <1>2, <2>1, <2>2 DEF ClaimHeld, Gone, store
  <2>7. \A i \in Jobs \ {j} : Apart(k, i)' BY <1>2, <2>1, <2>2 DEF Apart, Gone, store
  <2> QED BY <2>3, <2>4, <2>5, <2>6, <2>7
<1>13. UNCHANGED process BY <1>1 DEF Start
<1> QED BY <1>2, <1>7, <1>9, <1>10, <1>11, <1>12, <1>13 DEF JobsInv

\* Without jobs under way there is nothing to keep.
LEMMA QuietJobs ==
  /\ (\A k \in Jobs : job[k].at \in {"idle", "done"} /\ late[k] = "none") => JobsInv
  /\ (\A k \in Jobs : job'[k].at \in {"idle", "done"} /\ late'[k] = "none") => JobsInv'
BY DEF JobsInv, Shape, Fresh, Loaded, ClaimHeld, Apart, Claim, Due, Writes

\* The reconciliation: what each pass has established when the next begins.
LEMMA StartupKeeps ==
  ASSUME IdentityInv, StartupNext
  PROVE  UsedInv' /\ StartupInv' /\ JobsInv' /\ ServingInv'
<1> USE DEF store, process
<1>1. TypeOK /\ UsedInv /\ StartupInv
  BY DEF IdentityInv
<1>2. mode # "serving" /\ UNCHANGED <<email, used, job, late>>
  BY DEF StartupNext, Scan, StartSweep, StartInsert, Open, Normalize, Insert, Sweep
<1>3. UsedInv'
  BY <1>1, <1>2 DEF UsedInv, Stored
<1>4. \A k \in Jobs : job'[k].at \in {"idle", "done"} /\ late'[k] = "none"
  BY <1>1, <1>2 DEF StartupInv
<1>5. JobsInv'
  BY <1>4, QuietJobs
<1>6. NoTwo' <=> NoTwo
  BY <1>2 DEF NoTwo, Stored
<1>7. CASE Scan
  <2>0. NoTwo <=> ~ \E a, b \in Accounts : a # b /\ Stored(a) /\ email[a] = email[b]
    BY DEF NoTwo
  <2>1. valid' = {} /\ ((mode' = "refused" /\ ~NoTwo) \/ (mode' = "normalizing" /\ NoTwo))
    BY <1>7, <2>0 DEF Scan, Pass
  <2> QED BY <1>3, <1>4, <1>5, <1>6, <2>1 DEF StartupInv, ServingInv
<1>8. CASE \E a \in Accounts : Normalize(a)
  <2>1. UNCHANGED <<registry, mode, todo, valid>> /\ mode = "normalizing"
    BY <1>8 DEF Normalize
  <2> QED BY <1>1, <1>3, <1>4, <1>5, <1>6, <2>1 DEF StartupInv, ServingInv
<1>9. CASE StartSweep
  <2>1. /\ UNCHANGED registry /\ mode' = "sweeping" /\ valid' = {} /\ NoTwo
        /\ todo' = {e \in Emails : registry[e] # None}
    BY <1>1, <1>9 DEF StartSweep, Pass, StartupInv
  <2>2. \A e \in Emails \ todo' : Fit(e)'
    BY <2>1 DEF Fit
  <2> QED BY <1>3, <1>4, <1>5, <1>6, <2>1, <2>2 DEF StartupInv, ServingInv
<1>10. ASSUME NEW e \in Emails, Sweep(e) PROVE StartupInv' /\ ServingInv'
  <2>1. mode = "sweeping" /\ mode' = "sweeping" /\ NoTwo
    BY <1>1, <1>10 DEF Sweep, StartupInv
  <2>2. \A f \in Emails : f # e \/ Fits(e) => registry'[f] = registry[f]
    BY <1>1, <1>10 DEF Sweep, TypeOK
  <2>3. ~Fits(e) => registry'[e] = None
    BY <1>1, <1>10 DEF Sweep, TypeOK
  <2>4. \A f \in Emails : f # e \/ Fits(e) => (Fits(f)' <=> Fits(f))
    BY <1>2, <2>2 DEF Fits
  <2>5. \A f \in valid' : Fits(f)'
    BY <1>1, <1>10, <2>1, <2>4 DEF Sweep, StartupInv, TypeOK
  <2>6. \A f \in Emails \ todo' : Fit(f)'
    BY <1>1, <1>10, <2>1, <2>2, <2>3, <2>4 DEF Sweep, StartupInv, Fit
  <2> QED BY <1>4, <1>6, <2>1, <2>5, <2>6 DEF StartupInv, ServingInv
<1>11. CASE StartInsert
  <2>1. /\ mode = "sweeping" /\ todo = {} /\ mode' = "inserting" /\ NoTwo /\ UNCHANGED registry
        /\ todo' = InUse \ valid
    BY <1>1, <1>11 DEF StartInsert, Pass, StartupInv
  <2>2. \A e \in Emails : Fit(e)'
    BY <1>1, <1>2, <2>1 DEF StartupInv, Fit, Fits
  <2>3. ASSUME NEW a \in Accounts, Stored(a) PROVE email[a] \in todo' \/ registry[email[a]] = a
    <3>1. email[a] \in InUse
      BY <1>1, <2>3 DEF InUse, Stored, TypeOK
    <3>2. CASE email[a] \in valid
      <4>1. Fits(email[a]) BY <1>1, <2>1, <3>2 DEF StartupInv
      <4> QED BY <2>1, <2>3, <4>1 DEF Fits, NoTwo
    <3> QED BY <2>1, <3>1, <3>2
  <2>4. \A a \in Accounts : Stored(a)' => email'[a] \in todo' \/ registry'[email'[a]] = a
    BY <1>2, <2>1, <2>3 DEF Stored
  <2> QED BY <1>3, <1>4, <1>5, <1>6, <2>1, <2>2, <2>4 DEF StartupInv, ServingInv
<1>12. ASSUME NEW a \in Accounts, Insert(a) PROVE StartupInv' /\ ServingInv'
  <2>1. /\ mode = "inserting" /\ NoTwo /\ email[a] \in todo /\ email[a] \in Emails
        /\ \A e \in Emails : Fit(e)
        /\ \A b \in Accounts : Stored(b) => email[b] \in todo \/ registry[email[b]] = b
    BY <1>1, <1>12 DEF Insert, StartupInv, TypeOK
  <2>2. Stored(a) BY <2>1, IdentityAssumption DEF Stored
  <2>3. registry[email[a]] \in {None, a}
    <3>1. Fit(email[a]) BY <2>1
    <3> QED BY <2>1, <2>2, <3>1 DEF Fit, Fits, NoTwo, Stored
  <2>4. /\ registry' = [registry EXCEPT ![email[a]] = a] /\ mode' = "inserting"
        /\ todo' = todo \ {email[a]}
    BY <1>12, <2>1, <2>3 DEF Insert, Pass
  <2>5. registry'[email[a]] = a /\ \A e \in Emails \ {email[a]} : registry'[e] = registry[e]
    BY <1>1, <2>1, <2>4 DEF TypeOK
  <2>6. \A e \in Emails : Fit(e)'
    BY <1>2, <2>1, <2>5 DEF Fit, Fits
  <2>7. ASSUME NEW b \in Accounts, Stored(b) PROVE email[b] \in todo' \/ registry'[email[b]] = b
    <3>1. email[b] \in Emails BY <1>1, <2>7 DEF Stored, TypeOK
    <3>2. CASE email[b] = email[a] BY <2>1, <2>5, <2>7, <3>2 DEF NoTwo
    <3>3. CASE email[b] # email[a] BY <2>1, <2>4, <2>5, <2>7, <3>1, <3>3
    <3> QED BY <3>2, <3>3
  <2>8. \A b \in Accounts : Stored(b)' => email'[b] \in todo' \/ registry'[email'[b]] = b
    BY <1>2, <2>7 DEF Stored
  <2> QED BY <1>4, <1>6, <2>1, <2>4, <2>6, <2>8 DEF StartupInv, ServingInv
<1>13. CASE Open
  <2>1. mode = "inserting" /\ todo = {} /\ mode' = "serving" /\ UNCHANGED registry
    BY <1>13 DEF Open, Pass
  <2>2. \A a \in Accounts : Reserved(a)'
    BY <1>1, <1>2, <2>1 DEF StartupInv, Reserved, Stored
  <2> QED BY <1>3, <1>5, <2>1, <2>2 DEF StartupInv, ServingInv
<1> QED BY <1>3, <1>5, <1>7, <1>8, <1>9, <1>10, <1>11, <1>12, <1>13 DEF StartupNext

LEMMA IdentityStarts == Init => IdentityInv
<1> SUFFICES ASSUME Init PROVE IdentityInv OBVIOUS
<1>1. TypeOK BY TypingStarts
<1>2. \A k \in Jobs : job[k].at = "idle" /\ late[k] = "none"
  BY DEF Init, Idle
<1>3. JobsInv BY <1>2, QuietJobs
<1>4. UsedInv /\ mode = "down" BY DEF Init, UsedInv
<1> QED BY <1>1, <1>2, <1>3, <1>4 DEF IdentityInv, StartupInv, ServingInv

LEMMA IdentityKept == IdentityInv /\ [Next]_vars => IdentityInv'
<1> SUFFICES ASSUME IdentityInv, [Next]_vars PROVE IdentityInv' OBVIOUS
<1>1. TypeOK /\ UsedInv /\ StartupInv /\ JobsInv /\ ServingInv
  BY DEF IdentityInv
<1>2. TypeOK' BY <1>1, TypingKept
<1>3. ASSUME NEW j \in Jobs, JobNext(j) PROVE IdentityInv'
  <2>1. mode = "serving" /\ \A b \in Accounts : Reserved(b)
    <3>1. job[j].at \in Writes \/ late[j] # "none" \/ mode = "serving"
      BY <1>3 DEF JobNext, StartCreate, StartUpdate, StartDelete, Start, Succeed,
                  FailDefinitely, LoseReply, HappenLate, Writes
    <3> QED BY <1>1, <3>1 DEF StartupInv, ServingInv, Writes
  <2>2. UNCHANGED mode
    BY <1>3 DEF JobNext, StartCreate, StartUpdate, StartDelete, Start, Succeed,
                FailDefinitely, LoseReply, HappenLate, process
  <2>3. StartupInv' BY <2>1, <2>2 DEF StartupInv
  <2>4. CASE \E a \in Accounts :
                (\E e \in Emails : StartCreate(j, a, e) \/ StartUpdate(j, a, e)) \/ StartDelete(j, a)
    <3>1. JobsInv' /\ UNCHANGED store BY <1>1, <2>4, StartingKeeps
    <3>2. UsedInv' /\ \A b \in Accounts : Reserved(b)'
      BY <1>1, <2>1, <3>1 DEF UsedInv, Reserved, Stored, store
    <3> QED BY <1>2, <2>3, <3>1, <3>2 DEF IdentityInv, ServingInv
  <2>5. CASE Succeed(j) \/ HappenLate(j)
    <3>1. Performs(j) BY <1>1, <2>5, WritesPerform
    <3> QED BY <1>1, <1>2, <2>1, <2>3, <3>1, PerformingKeeps DEF IdentityInv, ServingInv
  <2>6. CASE FailDefinitely(j) \/ LoseReply(j)
    BY <1>1, <1>2, <2>1, <2>3, <2>6, FailingKeeps DEF IdentityInv, ServingInv
  <2> QED BY <1>3, <2>4, <2>5, <2>6 DEF JobNext
<1>4. CASE StartupNext
  BY <1>2, <1>4, StartupKeeps DEF IdentityInv
<1>5. CASE Crash
  <2>1. \A k \in Jobs : job'[k].at \in {"idle", "done"} /\ late'[k] = "none"
    BY <1>1, <1>5 DEF Crash, TypeOK
  <2>2. JobsInv' BY <2>1, QuietJobs
  <2>3. mode' = "down" /\ UNCHANGED <<email, used>> BY <1>5 DEF Crash, Pass, store
  <2>4. UsedInv' BY <1>1, <2>3 DEF UsedInv, Stored
  <2> QED BY <1>2, <2>1, <2>2, <2>3, <2>4 DEF IdentityInv, StartupInv, ServingInv
<1>6. CASE UNCHANGED vars
  <2>1. UsedInv' /\ ServingInv' BY <1>1, <1>6 DEF vars, store, process, UsedInv, ServingInv, Reserved, Stored
  <2>2. StartupInv'
    BY <1>1, <1>6 DEF vars, store, process, StartupInv, NoTwo, Stored, Fits, Fit
  <2>3. JobsInv'
    BY <1>1, <1>6 DEF vars, store, process, JobsInv, Shape, Fresh, Loaded, ClaimHeld, Apart, Claim, Due, Gone
  <2> QED BY <1>2, <2>1, <2>2, <2>3 DEF IdentityInv
<1> QED BY <1>3, <1>4, <1>5, <1>6 DEF Next

LEMMA IdentityInvariant == Spec => []IdentityInv
BY IdentityStarts, IdentityKept, PTL DEF Spec

-----------------------------------------------------------------------------
(* Theorems *)

\* The variables keep their types.
THEOREM IdentityTyped == Spec => []TypeOK
<1>1. IdentityInv => TypeOK BY DEF IdentityInv
<1> QED BY <1>1, IdentityInvariant, PTL

\* For any accounts, addresses and jobs, through every crossing of their writes
\* with lost replies, late writes and crashes, an address is of one account, and
\* the registry names it.
THEOREM AddressHasOneOwner == Spec => []OneOwner
<1>1. IdentityInv => OneOwner
  <2> SUFFICES ASSUME IdentityInv, mode = "serving" PROVE OneOwner
    BY DEF OneOwner, StoredIsReserved, NoSharedEmail
  <2>1. \A a \in Accounts : Stored(a) => registry[email[a]] = a
    BY DEF IdentityInv, ServingInv, Reserved
  <2> QED BY <2>1 DEF OneOwner, StoredIsReserved, NoSharedEmail, Stored
<1> QED BY <1>1, IdentityInvariant, PTL

\* Whatever an older release left and however often a start was cut short, the
\* process opens with an exact registry, and refuses only real duplicates.
THEOREM StartsAreExact == Spec => StartIsExact
<1>1. IdentityInv => RefusesOnlyDuplicates
  BY DEF IdentityInv, StartupInv, RefusesOnlyDuplicates, NoTwo
<1>2. IdentityInv /\ [Next]_vars =>
        [mode # "serving" /\ mode' = "serving" => \A e \in Emails : Exact(e)']_vars
  <2> SUFFICES ASSUME IdentityInv, Next, mode # "serving", mode' = "serving", NEW e \in Emails
               PROVE  Exact(e)'
    OBVIOUS
  <2>1. Open
    BY DEF Next, JobNext, StartupNext, StartCreate, StartUpdate, StartDelete, Start, Succeed, FailDefinitely,
           LoseReply, HappenLate, Scan, StartSweep, StartInsert, Normalize, Insert, Sweep, Crash,
           Pass, process
  <2>2. /\ mode = "inserting" /\ todo = {} /\ UNCHANGED <<email, registry>>
    BY <2>1 DEF Open, store
  <2>3. Fit(e) /\ \A a \in Accounts : Stored(a) => registry[email[a]] = a
    BY <2>2 DEF IdentityInv, StartupInv
  <2>4. \A a \in Accounts : email[a] = e <=> registry[e] = a
    BY <2>3, IdentityAssumption DEF Fit, Fits, Stored
  <2> QED BY <2>2, <2>4 DEF Exact
<1> QED BY <1>1, <1>2, IdentityInvariant, PTL DEF Spec, StartIsExact, OpensExact
-----------------------------------------------------------------------------
(* What jobs leave behind.  Until a reply is lost, a row that its owner does *)
(* not have is on its way: a job claims it, or purges it with all others.    *)

Awaited(e, a) ==
  registry[e] = a /\ email[a] # e =>
    \E j \in Jobs : job[j].acct = a /\ (Claim(j) = e \/ Due(j) = "purge")

CleanInv ==
  mode = "serving" /\ clean =>
    /\ \A j \in Jobs : late[j] = "none"
    /\ \A e \in Emails, a \in Accounts : Awaited(e, a)

\* Whoever waits for a job that does not move, or keeps its claim, waits on.
LEMMA AwaitedStays ==
  ASSUME NEW j \in Jobs, NEW next, Moves(j, next), NEW e \in Emails, NEW a \in Accounts,
         Awaited(e, a), registry'[e] = a => registry[e] = a, UNCHANGED email,
         job[j].acct = a => Claim(j)' = Claim(j) /\ Due(j) # "purge"
  PROVE  Awaited(e, a)'
<1>1. ASSUME registry'[e] = a, email'[a] # e PROVE \E k \in Jobs : job'[k].acct = a /\ (Claim(k)' = e \/ Due(k)' = "purge")
  <2>1. PICK k \in Jobs : job[k].acct = a /\ (Claim(k) = e \/ Due(k) = "purge")
    BY <1>1 DEF Awaited
  <2>2. CASE k = j BY <2>1, <2>2 DEF Moves
  <2>3. CASE k # j BY <2>1, <2>3, OthersStay
  <2> QED BY <2>2, <2>3
<1> QED BY <1>1 DEF Awaited

\* A write that succeeds leaves its row to the next step of its job.
LEMMA SucceedingAwaited ==
  ASSUME IdentityInv, NEW j \in Jobs, Succeed(j), NEW a \in Accounts, a = job[j].acct,
         \A f \in Emails, c \in Accounts : Awaited(f, c),
         NEW e \in Emails, NEW b \in Accounts
  PROVE  Awaited(e, b)'
<1>1. /\ TypeOK /\ JobsInv /\ Due(j) \in Writes /\ Applies(j, Due(j)) /\ Apply(j, Due(j))
      /\ Moves(j, NextDue(j))
  <2>1. TypeOK /\ JobsInv BY DEF IdentityInv
  <2>2. job[j].at \in Writes /\ late[j] = "none" /\ Due(j) = job[j].at
    BY <2>1 DEF Succeed, JobsInv, Shape, Due, Writes
  <2>3. Following(j) = NextDue(j) BY <2>2 DEF Following, NextDue
  <2>4. Moves(j, Following(j)) BY <2>1, <2>2 DEF Succeed, MoveTo, Moves, Due, TypeOK
  <2> QED BY <2>1, <2>2, <2>3, <2>4 DEF Succeed
<1>2. \A k \in Jobs : Shape(k) /\ Fresh(k) /\ Loaded(k) /\ ClaimHeld(k)
  BY <1>1 DEF JobsInv
<1>3. job'[j].acct = a /\ Due(j)' = NextDue(j)
  BY <1>1 DEF Moves
<1>4. CASE Due(j) = "reserve"
  <2>1. /\ UNCHANGED <<email, version, used>> /\ job[j].to \in Emails
        /\ registry' = [registry EXCEPT ![job[j].to] = a]
    BY <1>1, <1>2, <1>4 DEF Apply, Shape
  <2>2. Claim(j) = None /\ Claim(j)' = job[j].to
    BY <1>1, <1>2, <1>4 DEF Claim, Moves, NextDue, Shape
  <2>3. CASE e = job[j].to
    BY <1>1, <1>3, <2>1, <2>2, <2>3 DEF Awaited, TypeOK
  <2>4. CASE e # job[j].to
    <3>1. ASSUME registry'[e] = b, email'[b] # e
          PROVE  \E k \in Jobs : job'[k].acct = b /\ (Claim(k)' = e \/ Due(k)' = "purge")
      <4>1. PICK k \in Jobs : job[k].acct = b /\ (Claim(k) = e \/ Due(k) = "purge")
        BY <1>1, <2>1, <2>4, <3>1 DEF Awaited, TypeOK
      <4>2. k # j BY <1>4, <2>2, <4>1, IdentityAssumption DEF TypeOK
      <4> QED BY <1>1, <4>1, <4>2, OthersStay
    <3> QED BY <3>1 DEF Awaited
  <2> QED BY <2>3, <2>4
\* A row that stays, waited for by another job.
<1>5. ASSUME NEW k \in Jobs \ {j}, job[k].acct = b, Claim(k) = e \/ Due(k) = "purge"
      PROVE  Awaited(e, b)'
  BY <1>1, <1>5, OthersStay DEF Awaited
<1>6. CASE Due(j) \in {"undo", "retire"}
  <2> DEFINE c == IF Due(j) = "undo" THEN job[j].to ELSE job[j].from
  <2>1. UNCHANGED <<email, version, used>> /\ registry' = Freed(c, a)
    BY <1>1, <1>6 DEF Apply
  <2>2. c = Claim(j) BY <1>2, <1>6 DEF Shape, Claim
  <2>3. ASSUME registry'[e] = b, email'[b] # e PROVE Awaited(e, b)'
    <3>1. registry[e] = b /\ ~(b = a /\ e = c)
      BY <1>1, <2>1, <2>3, IdentityAssumption DEF Freed, TypeOK
    <3>2. PICK k \in Jobs : job[k].acct = b /\ (Claim(k) = e \/ Due(k) = "purge")
      BY <2>1, <2>3, <3>1 DEF Awaited
    <3>3. k # j BY <1>6, <2>2, <3>1, <3>2
    <3> QED BY <1>5, <3>2, <3>3
  <2> QED BY <2>3 DEF Awaited
<1>7. CASE Due(j) = "purge"
  <2>1. /\ UNCHANGED <<email, version, used>>
        /\ registry'[e] = IF registry[e] = a THEN None ELSE registry[e]
    BY <1>1, <1>7 DEF Apply
  <2>2. ASSUME registry'[e] = b, email'[b] # e PROVE Awaited(e, b)'
    <3>1. registry[e] = b /\ b # a BY <2>1, <2>2, IdentityAssumption
    <3>2. PICK k \in Jobs : job[k].acct = b /\ (Claim(k) = e \/ Due(k) = "purge")
      BY <2>1, <2>2, <3>1 DEF Awaited
    <3> QED BY <1>5, <3>1, <3>2
  <2> QED BY <2>2 DEF Awaited
<1>8. CASE Due(j) = "write"
  <2>1. /\ UNCHANGED registry
        /\ email'[a] = IF job[j].op = "delete" THEN None ELSE job[j].to
        /\ \A c \in Accounts \ {a} : email'[c] = email[c]
    BY <1>1, <1>8 DEF Apply, TypeOK
  <2>2. ASSUME registry[e] = b, email'[b] # e, b # a PROVE Awaited(e, b)'
    <3>1. PICK k \in Jobs : job[k].acct = b /\ (Claim(k) = e \/ Due(k) = "purge")
      BY <2>1, <2>2 DEF Awaited
    <3> QED BY <1>5, <2>2, <3>1
  <2>3. ASSUME registry[e] = a, email'[a] # e, job[j].op = "create" PROVE FALSE
    <3>1. a \notin used /\ (\A k \in Jobs \ {j} : job[k].acct # a) /\ job[j].to # e
      BY <1>2, <1>8, <2>1, <2>3 DEF Fresh
    <3>2. email[a] = None BY <1>1, <3>1 DEF IdentityInv, UsedInv, Stored
    <3>3. Claim(j) = e
      BY <1>1, <1>8, <2>3, <3>1, <3>2, IdentityAssumption DEF Awaited
    <3> QED BY <1>8, <2>3, <3>1, <3>3, IdentityAssumption DEF Claim
  <2>4. ASSUME job[j].op = "delete" PROVE Awaited(e, a)'
    BY <1>3, <1>8, <2>4 DEF Awaited, NextDue
  <2>5. ASSUME registry[e] = a, email'[a] # e, job[j].op = "update" PROVE Awaited(e, a)'
    <3>1. email[a] = job[j].from /\ job[j].to # e
      BY <1>1, <1>2, <1>8, <2>1, <2>5 DEF Applies, Loaded, Stored
    <3>2. CASE e = job[j].from
      BY <1>1, <1>3, <1>8, <2>5, <3>1, <3>2 DEF Awaited, NextDue, Claim, Moves
    <3>3. CASE e # job[j].from
      <4>1. PICK k \in Jobs : job[k].acct = a /\ (Claim(k) = e \/ Due(k) = "purge")
        BY <1>1, <2>5, <3>1, <3>3 DEF Awaited
      <4>2. k # j BY <1>8, <3>1, <4>1, IdentityAssumption DEF Claim
      <4>3. \E i \in Jobs : job'[i].acct = a /\ (Claim(i)' = e \/ Due(i)' = "purge")
        BY <1>1, <4>1, <4>2, OthersStay
      <4> QED BY <4>3 DEF Awaited
    <3> QED BY <3>2, <3>3
  <2>6. job[j].op \in {"create", "update", "delete"} BY <1>1, <1>2 DEF Shape
  <2>7. ASSUME registry[e] = b, email'[b] # e PROVE Awaited(e, b)'
    <3>1. CASE b = a BY <2>3, <2>4, <2>5, <2>6, <2>7, <3>1
    <3> QED BY <2>2, <2>7, <3>1
  <2> QED BY <2>1, <2>7 DEF Awaited
<1> QED BY <1>1, <1>4, <1>6, <1>7, <1>8 DEF Writes

LEMMA CleanStarts == Init => CleanInv
BY DEF Init, CleanInv

LEMMA CleanKept == IdentityInv /\ CleanInv /\ [Next]_vars => CleanInv'
<1> SUFFICES ASSUME IdentityInv, CleanInv, [Next]_vars, mode' = "serving", clean'
             PROVE  (\A j \in Jobs : late'[j] = "none") /\ \A e \in Emails, a \in Accounts : Awaited(e, a)'
  BY DEF CleanInv
<1>1. TypeOK /\ StartupInv /\ JobsInv
  BY DEF IdentityInv
<1>2. CASE UNCHANGED vars
  BY <1>2 DEF vars, store, process, CleanInv, Awaited, Claim, Due
<1>3. CASE Open
  <2>1. mode = "inserting" /\ todo = {} /\ UNCHANGED <<email, registry, late>>
    BY <1>3 DEF Open, store
  <2>2. (\A j \in Jobs : late[j] = "none") /\ \A e \in Emails : Fit(e)
    BY <1>1, <2>1 DEF StartupInv
  <2> QED BY <2>1, <2>2, IdentityAssumption DEF Awaited, Fit, Fits
<1>4. ASSUME NEW j \in Jobs, JobNext(j)
      PROVE  (\A i \in Jobs : late'[i] = "none") /\ \A e \in Emails, a \in Accounts : Awaited(e, a)'
  <2>1. mode = "serving" /\ clean /\ ~LoseReply(j)
    BY <1>4 DEF JobNext, StartCreate, StartUpdate, StartDelete, Start, Succeed, FailDefinitely,
                LoseReply, HappenLate, process
  <2>2. (\A i \in Jobs : late[i] = "none") /\ \A e \in Emails, a \in Accounts : Awaited(e, a)
    BY <2>1 DEF CleanInv
  <2>3. UNCHANGED late
    BY <1>4, <2>1, <2>2 DEF JobNext, StartCreate, StartUpdate, StartDelete, Start, Succeed,
                            FailDefinitely, HappenLate
  <2>4. CASE Succeed(j)
    <3>1. job[j].acct \in Accounts
      BY <1>1, <2>2, <2>4 DEF JobsInv, Shape, Due, Succeed, Writes
    <3> QED BY <2>2, <2>3, <2>4, <3>1, SucceedingAwaited
  <2>5. CASE FailDefinitely(j)
    <3>1. job[j].at \in {"reserve", "write"} /\ Due(j) = job[j].at /\ UNCHANGED store
      BY <2>2, <2>5 DEF FailDefinitely, Due
    <3>2. PICK s \in {"undo", "done"} :
            /\ MoveTo(j, s)
            /\ s = "undo" <=> job[j].at = "write" /\ job[j].op # "delete" /\ job[j].to # job[j].from
      BY <2>5 DEF FailDefinitely
    <3>3. Moves(j, s) BY <1>1, <2>2, <2>3, <3>2 DEF MoveTo, Moves, Due, TypeOK
    <3>4. Claim(j)' = Claim(j) BY <3>1, <3>2, <3>3 DEF Claim, Moves
    <3> QED BY <2>2, <2>3, <3>1, <3>3, <3>4, AwaitedStays DEF store
  <2>6. CASE \E a \in Accounts :
                (\E e \in Emails : StartCreate(j, a, e) \/ StartUpdate(j, a, e)) \/ StartDelete(j, a)
    <3>1. /\ job[j].at = "idle" /\ UNCHANGED store
          /\ \A k \in Jobs \ {j} : job'[k] = job[k]
      BY <1>1, <2>6 DEF StartCreate, StartUpdate, StartDelete, Start, TypeOK
    <3>2. Due(j) = "idle" /\ Claim(j) = None BY <2>2, <3>1 DEF Due, Claim
    <3>3. ASSUME NEW e \in Emails, NEW a \in Accounts, registry[e] = a, email[a] # e
          PROVE  \E k \in Jobs : job'[k].acct = a /\ (Claim(k)' = e \/ Due(k)' = "purge")
      <4>1. PICK k \in Jobs : job[k].acct = a /\ (Claim(k) = e \/ Due(k) = "purge")
        BY <2>2, <3>3 DEF Awaited
      <4>2. k # j BY <3>2, <4>1, IdentityAssumption
      <4>3. Claim(k)' = Claim(k) /\ Due(k)' = Due(k) /\ job'[k] = job[k]
        BY <2>3, <3>1, <4>2 DEF Claim, Due
      <4> QED BY <4>1, <4>3
    <3> QED BY <2>2, <2>3, <3>1, <3>3 DEF Awaited, store
  <2>7. ~HappenLate(j) BY <2>2 DEF HappenLate
  <2> QED BY <1>4, <2>1, <2>4, <2>5, <2>6, <2>7 DEF JobNext
<1>5. Next => (\E j \in Jobs : JobNext(j)) \/ Open
  BY DEF Next, StartupNext, Scan, StartSweep, StartInsert, Normalize, Insert, Sweep, Crash, Pass, process,
         StartupInv
<1> QED BY <1>2, <1>3, <1>4, <1>5

\* Without a lost reply, jobs leave nothing behind in the registry when they
\* have ended, whatever they did to each other.
THEOREM NothingIsLeftBehind == Spec => []NothingLeftBehind
<1>1. IdentityInv /\ CleanInv => NothingLeftBehind
  <2> SUFFICES ASSUME IdentityInv, CleanInv, mode = "serving", clean,
                      \A j \in Jobs : job[j].at \in {"idle", "done"},
                      NEW e \in Emails, NEW a \in Accounts
               PROVE  email[a] = e <=> registry[e] = a
    BY DEF NothingLeftBehind, Exact
  <2>1. email[a] = e => registry[e] = a
    BY IdentityAssumption DEF IdentityInv, ServingInv, Reserved, Stored
  <2>2. \A j \in Jobs : Due(j) \in {"idle", "done"} /\ Claim(j) = None
    BY DEF CleanInv, Due, Claim
  <2>3. registry[e] = a => email[a] = e
    BY <2>2, IdentityAssumption DEF CleanInv, Awaited
  <2> QED BY <2>1, <2>3
<1> QED BY <1>1, CleanStarts, CleanKept, IdentityInvariant, PTL DEF Spec
-----------------------------------------------------------------------------
(* Both parts together.  A behaviour of the composition is one of each part,  *)
(* so that what holds of a part holds of it.                                  *)

Assigning == INSTANCE TutorAssignmentProofs WITH Tutors <- TutorIds, Users <- UserIds,
    Requests <- AssignmentRequests, tutor <- taTutor, user <- taUser, used <- taUsed,
    job <- taJob, inside <- taInside, crossed <- taCrossed, cut <- taCut

LEMMA RegistryRuns == AccountsSpec => Spec
<1>1. AccountsInit => Init
  BY DEF AccountsInit
<1>2. [AccountsNext]_accountsVars => [Next]_vars
  BY DEF AccountsNext, accountsVars
<1> QED BY <1>1, <1>2, PTL DEF AccountsSpec, Spec

LEMMA TutoringRuns == AccountsSpec => Tutoring!Spec
<1>1. AccountsInit => Tutoring!Init
  BY DEF AccountsInit
<1>2. [AccountsNext]_accountsVars => [Tutoring!Next]_(Tutoring!vars)
  BY DEF AccountsNext, accountsVars, tutorVars, Tutoring!vars
<1> QED BY <1>1, <1>2, PTL DEF AccountsSpec, Tutoring!Spec

\* The theorems about tutors are of an instance of their own; the operators of both
\* are the same once they are expanded.
LEMMA SameSteps ==
  /\ Tutoring!Init => Assigning!Init
  /\ [Tutoring!Next]_(Tutoring!vars) => [Assigning!Next]_(Assigning!vars)
<1> USE DEF
      Tutoring!Active, Assigning!Active, Tutoring!Assigned, Assigning!Assigned, Tutoring!Idle,
      Assigning!Idle, Tutoring!Init, Assigning!Init, Tutoring!Goto, Assigning!Goto, Tutoring!lock,
      Assigning!lock, Tutoring!Leave, Assigning!Leave, Tutoring!Answer, Assigning!Answer,
      Tutoring!Own, Assigning!Own, Tutoring!Writes, Assigning!Writes, Tutoring!GivenUp,
      Assigning!GivenUp, Tutoring!Begin, Assigning!Begin, Tutoring!SignUpTutor,
      Assigning!SignUpTutor, Tutoring!SignUpUser, Assigning!SignUpUser, Tutoring!ByAdmin,
      Assigning!ByAdmin, Tutoring!BySelf, Assigning!BySelf, Tutoring!SubmitStatus,
      Assigning!SubmitStatus, Tutoring!SubmitOfTutor, Assigning!SubmitOfTutor,
      Tutoring!SubmitOfUser, Assigning!SubmitOfUser, Tutoring!SubmitOfAdmin,
      Assigning!SubmitOfAdmin, Tutoring!SubmitOwn, Assigning!SubmitOwn, Tutoring!Enter,
      Assigning!Enter, Tutoring!MayAct, Assigning!MayAct, Tutoring!Checked, Assigning!Checked,
      Tutoring!Check, Assigning!Check, Tutoring!CheckTutor, Assigning!CheckTutor,
      Tutoring!FindTutor, Assigning!FindTutor, Tutoring!FindUser, Assigning!FindUser,
      Tutoring!Send, Assigning!Send, Tutoring!FreshTutor, Assigning!FreshTutor,
      Tutoring!FreshUser, Assigning!FreshUser, Tutoring!SavedTutor, Assigning!SavedTutor,
      Tutoring!SavedUser, Assigning!SavedUser, Tutoring!Due, Assigning!Due, Tutoring!AfterStatus,
      Assigning!AfterStatus, Tutoring!SaveTutor, Assigning!SaveTutor, Tutoring!Unmodified,
      Assigning!Unmodified, Tutoring!SaveUser, Assigning!SaveUser, Tutoring!Visit,
      Assigning!Visit, Tutoring!Unassign, Assigning!Unassign, Tutoring!Unassigned,
      Assigning!Unassigned, Tutoring!DeleteTutor, Assigning!DeleteTutor, Tutoring!DeleteUser,
      Assigning!DeleteUser, Tutoring!Fail, Assigning!Fail, Tutoring!TimeOut, Assigning!TimeOut,
      Tutoring!Emptying, Assigning!Emptying, Tutoring!HappensLate, Assigning!HappensLate,
      Tutoring!LateTutor, Assigning!LateTutor, Tutoring!LateUser, Assigning!LateUser,
      Tutoring!LateUnassign, Assigning!LateUnassign, Tutoring!LateDeletion,
      Assigning!LateDeletion, Tutoring!Submit, Assigning!Submit, Tutoring!Step, Assigning!Step,
      Tutoring!Failure, Assigning!Failure
<1>1. ASSUME NEW r \in AssignmentRequests, Tutoring!Submit(r) PROVE Assigning!Submit(r)
  BY <1>1
<1>2. ASSUME NEW r \in AssignmentRequests, Tutoring!Step(r) PROVE Assigning!Step(r)
  <2>1. Tutoring!Enter(r) => Assigning!Enter(r) OBVIOUS
  <2>2. Tutoring!Check(r) => Assigning!Check(r) OBVIOUS
  <2>3. Tutoring!CheckTutor(r) => Assigning!CheckTutor(r) OBVIOUS
  <2>4. Tutoring!FindTutor(r) => Assigning!FindTutor(r) OBVIOUS
  <2>5. Tutoring!FindUser(r) => Assigning!FindUser(r) OBVIOUS
  <2>6. Tutoring!Send(r) => Assigning!Send(r) OBVIOUS
  <2>7. Tutoring!SaveTutor(r) => Assigning!SaveTutor(r) OBVIOUS
  <2>8. Tutoring!SaveUser(r) => Assigning!SaveUser(r) OBVIOUS
  <2>9. Tutoring!Unassigned(r) => Assigning!Unassigned(r) OBVIOUS
  <2>10. Tutoring!DeleteTutor(r) => Assigning!DeleteTutor(r) OBVIOUS
  <2>11. Tutoring!DeleteUser(r) => Assigning!DeleteUser(r) OBVIOUS
  <2>12. \A u \in UserIds : Tutoring!Unassign(r, u) => Assigning!Unassign(r, u) OBVIOUS
  <2> HIDE DEF Tutoring!Enter, Assigning!Enter, Tutoring!Check, Assigning!Check,
       Tutoring!CheckTutor, Assigning!CheckTutor, Tutoring!FindTutor, Assigning!FindTutor,
       Tutoring!FindUser, Assigning!FindUser, Tutoring!Send, Assigning!Send, Tutoring!SaveTutor,
       Assigning!SaveTutor, Tutoring!SaveUser, Assigning!SaveUser, Tutoring!Unassigned,
       Assigning!Unassigned, Tutoring!DeleteTutor, Assigning!DeleteTutor, Tutoring!DeleteUser,
       Assigning!DeleteUser, Tutoring!Unassign, Assigning!Unassign
  <2> QED BY <1>2, <2>1, <2>2, <2>3, <2>4, <2>5, <2>6, <2>7, <2>8, <2>9, <2>10, <2>11, <2>12
<1>3. ASSUME NEW r \in AssignmentRequests, Tutoring!Failure(r) PROVE Assigning!Failure(r)
  <2>1. Tutoring!Fail(r) => Assigning!Fail(r) OBVIOUS
  <2>2. Tutoring!TimeOut(r) => Assigning!TimeOut(r) OBVIOUS
  <2>3. Tutoring!LateTutor(r) => Assigning!LateTutor(r) OBVIOUS
  <2>4. Tutoring!LateUser(r) => Assigning!LateUser(r) OBVIOUS
  <2>5. Tutoring!LateDeletion(r) => Assigning!LateDeletion(r) OBVIOUS
  <2>6. \A u \in UserIds : Tutoring!LateUnassign(r, u) => Assigning!LateUnassign(r, u) OBVIOUS
  <2> HIDE DEF Tutoring!Fail, Assigning!Fail, Tutoring!TimeOut, Assigning!TimeOut,
       Tutoring!LateTutor, Assigning!LateTutor, Tutoring!LateUser, Assigning!LateUser,
       Tutoring!LateDeletion, Assigning!LateDeletion, Tutoring!LateUnassign,
       Assigning!LateUnassign
  <2> QED BY <1>3, <2>1, <2>2, <2>3, <2>4, <2>5, <2>6
<1>4. ASSUME NEW t \in TutorIds, Tutoring!SignUpTutor(t) PROVE Assigning!SignUpTutor(t)
  BY <1>4
<1>5. ASSUME NEW u \in UserIds, Tutoring!SignUpUser(u) PROVE Assigning!SignUpUser(u)
  BY <1>5
<1>6. Tutoring!Init => Assigning!Init
  OBVIOUS
<1>7. UNCHANGED Tutoring!vars => UNCHANGED Assigning!vars
  BY DEF Tutoring!vars, Assigning!vars
<1>8. Tutoring!Next => Assigning!Next
  <2> HIDE DEF Tutoring!Submit, Assigning!Submit, Tutoring!Step, Assigning!Step,
               Tutoring!Failure, Assigning!Failure, Tutoring!SignUpTutor, Assigning!SignUpTutor,
               Tutoring!SignUpUser, Assigning!SignUpUser
  <2> QED BY <1>1, <1>2, <1>3, <1>4, <1>5 DEF Tutoring!Next, Assigning!Next
<1> QED BY <1>6, <1>7, <1>8

LEMMA TutoringIsAssigning == AccountsSpec => Assigning!Spec
BY TutoringRuns, SameSteps, PTL DEF Tutoring!Spec, Assigning!Spec

LEMMA SameAssumption == Assigning!AssignmentAssumption
BY AccountsAssumption DEF Tutoring!AssignmentAssumption, Assigning!AssignmentAssumption,
     Tutoring!TutorDocument, Assigning!TutorDocument, Tutoring!UserDocument, Assigning!UserDocument

-----------------------------------------------------------------------------
(* Theorems about both parts *)

\* The variables of both parts keep their types.
THEOREM AccountsTyped == AccountsSpec => []AccountsTypeOK
<1>1. Assigning!Spec => [](Assigning!TypeOK /\ Assigning!AssignmentInv)
  BY SameAssumption, Assigning!AssignmentHolds
<1>2. Assigning!TypeOK => Tutoring!TypeOK
  BY DEF Assigning!TypeOK, Tutoring!TypeOK, Tutoring!TutorDocument, Assigning!TutorDocument,
         Tutoring!UserDocument, Assigning!UserDocument
<1> QED BY <1>1, <1>2, RegistryRuns, TutoringIsAssigning, IdentityTyped, PTL DEF AccountsTypeOK

\* For any tutors, users and requests, the tutor of a user has been approved and, with
\* nobody inside the lock, exists and is active, unless an unassignment did not end
\* well or a write was carried out after its request had given it up.
THEOREM AssignedTutorsFit == AccountsSpec => []AssignedIsFit
<1>1. Assigning!Spec => []Assigning!AssignedIsFit
  BY SameAssumption, Assigning!AssignedAreFit
<1>2. Assigning!AssignedIsFit => AssignedIsFit
  BY DEF AssignedIsFit, Tutoring!AssignedIsFit, Assigning!AssignedIsFit, Tutoring!AssignedWasApproved,
         Assigning!AssignedWasApproved, Tutoring!AssignedIsActive, Assigning!AssignedIsActive,
         Tutoring!Assigned, Assigning!Assigned, Tutoring!Active, Assigning!Active
<1> QED BY <1>1, <1>2, TutoringIsAssigning, PTL

\* For any tutors, users and requests, a tutor acts only on its own users while it is
\* active, and a change of its status revokes its sessions.
THEOREM TutorsActRightly == AccountsSpec => TutorsAct
<1>1. Assigning!Spec => Assigning!TutorsAct
  BY SameAssumption, Assigning!TutorsActOnTheirOwn
<1>2. Assigning!TutorsActOnTheirUsers => Tutoring!TutorsActOnTheirUsers
  BY DEF Assigning!TutorsActOnTheirUsers, Tutoring!TutorsActOnTheirUsers, Tutoring!Assigned,
         Assigning!Assigned, Tutoring!Active, Assigning!Active
<1>3. Assigning!StatusChangeRevokes <=> Tutoring!StatusChangeRevokes
  BY DEF Assigning!StatusChangeRevokes, Tutoring!StatusChangeRevokes, Assigning!vars, Tutoring!vars
<1> QED BY <1>1, <1>2, <1>3, TutoringIsAssigning, PTL DEF TutorsAct, Tutoring!TutorsAct, Assigning!TutorsAct

\* Beside the tutors, the registry keeps all it promises.
THEOREM RegistryKeepsOrder == AccountsSpec => [](OneOwner /\ NothingLeftBehind) /\ StartIsExact
BY RegistryRuns, AddressHasOneOwner, NothingIsLeftBehind, StartsAreExact, PTL
================================================================================
