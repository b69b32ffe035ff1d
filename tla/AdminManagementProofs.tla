------------------------ MODULE AdminManagementProofs ------------------------
(***************************************************************************)
(* AdminManagement is correct for any number of administrators, requests   *)
(* and operator commands.                                                  *)
(***************************************************************************)
EXTENDS AdminManagement, FiniteSetTheorems, TLAPS

-----------------------------------------------------------------------------
(* The inductive invariant, a job at a time *)

\* The steps each operation takes.
Route(op) ==
  CASE op = "none" -> {"idle", "done"}
    [] op = "create" -> {"waiting", "authorize", "write"}
    [] op = "update" -> {"waiting", "authorize", "load", "countManagers", "write"}
    [] op = "delete" -> {"waiting", "authorize", "load", "countAdmins", "countManagers", "write"}
    [] op = "bootstrap" -> {"waiting", "check", "write"}
    [] op = "recover" -> {"waiting", "check", "load", "write"}
    [] op = "reset" -> {"load", "write"}

OnRoute(j) ==
  /\ job[j].at \in Route(job[j].op)
  /\ j \in Requests => /\ job[j].op \in {"none", "create", "update", "delete"}
                       /\ job[j].op # "none" => job[j].actor \in Admins
  /\ j \in Commands => job[j].op \in {"none", "bootstrap", "recover", "reset"}
  /\ job[j].op = "recover" => job[j].flag = "grant"
  /\ job[j].op = "reset" => job[j].flag = "keep"
  /\ job[j].op = "none" <=> job[j].target = None

\* Past the entrance of the lock; a password reset never is.
Locked(j) ==
  /\ job[j].op # "reset"
  /\ job[j].at \in {"authorize", "check", "load", "countAdmins", "countManagers", "write"}

LockHeld(j) == Locked(j) => inside = j

\* A document to be created has an id that nobody has had.
Creating(j) == job[j].op \in {"create", "bootstrap"}
TargetFresh(j) == job[j].target # None => (Creating(j) <=> job[j].target \notin used)

\* What a job has found out inside the lock is still so.
Authorized(j) ==
  /\ j \in Requests
  /\ job[j].at \in {"load", "countAdmins", "countManagers", "write"}
  /\ NeedsManager(j)
  => job[j].actor \in Managers

HasLoaded(j) == ~ Creating(j) /\ job[j].at \in {"countAdmins", "countManagers", "write"}

TargetKnown(j) ==
  Locked(j) /\ HasLoaded(j) =>
    /\ job[j].target \in Existing
    /\ job[j].doc.manager <=> job[j].target \in Managers

AnotherAdmin(j) == \E a \in Existing : a # job[j].target
AnotherManager(j) == \E a \in Managers : a # job[j].target

Demotes(j) == job[j].op = "delete" \/ (job[j].op = "update" /\ job[j].flag = "revoke")

OthersRemain(j) ==
  /\ job[j].op = "delete" /\ job[j].at = "countManagers" /\ ~ job[j].lone => AnotherAdmin(j)
  /\ job[j].op = "delete" /\ job[j].at = "write" => AnotherAdmin(j)
  /\ Demotes(j) /\ job[j].at = "write" /\ job[j].doc.manager => AnotherManager(j)

\* A document that a save will find in the version loaded has not changed.
VersionTells(j) ==
  HasLoaded(j) /\ job[j].target \in Existing =>
    LET doc == job[j].doc
        now == account[job[j].target] IN
    doc.version <= now.version /\ (doc.version = now.version => doc.auth = now.auth)

JobInv(j) ==
  /\ OnRoute(j) /\ LockHeld(j) /\ TargetFresh(j)
  /\ Authorized(j) /\ TargetKnown(j) /\ OthersRemain(j) /\ VersionTells(j)

\* No two jobs create a document with the same id.
NewIdsDiffer ==
  \A j, k \in Jobs : Creating(j) /\ Creating(k) /\ job[j].target = job[k].target => j = k

ManagementInv ==
  TypeOK /\ Existing \subseteq used /\ NewIdsDiffer /\ \A j \in Jobs : JobInv(j)

-----------------------------------------------------------------------------
(* Counting and typing *)

\* A set that does not count at most one element has one besides any given.
LEMMA AnotherOne ==
  ASSUME NEW S, IsFiniteSet(S), NEW t, ~ (Cardinality(S) <= 1)
  PROVE  \E a \in S : a # t
<1> SUFFICES ASSUME S \subseteq {t} PROVE FALSE
  OBVIOUS
<1>1. IsFiniteSet({t}) /\ Cardinality({t}) = 1
  BY FS_Singleton
<1>2. Cardinality(S) <= Cardinality({t})
  BY <1>1, FS_Subset
<1> QED
  BY <1>1, <1>2

LEMMA AdminsFinite == IsFiniteSet(Existing) /\ IsFiniteSet(Managers)
BY ManagementAssumption, FS_Subset DEF Existing, Managers

\* The record of a job that is over.
Over == [Idle EXCEPT !.at = "done"]

LEMMA IdleTyped ==
  /\ Idle \in JobState /\ Over \in JobState
  /\ Idle.op = "none" /\ Idle.target = None /\ Idle.at = "idle"
  /\ Over.op = "none" /\ Over.target = None /\ Over.at = "done"
BY DEF Idle, Over, JobState, Document, Fresh

LEMMA ExistingTyped ==
  ASSUME TypeOK, NEW a \in Existing
  PROVE  a \in Admins /\ account[a] \in Document
BY DEF TypeOK, Existing, Exists

-----------------------------------------------------------------------------
(* A step of a job that leaves the accounts alone *)

\* The other jobs keep what they know, and whoever is in the lock stays there.
LEMMA JobMoves ==
  ASSUME ManagementInv, NEW j \in Jobs, NEW b \in JobState,
         job' = [job EXCEPT ![j] = b], UNCHANGED <<account, used, late>>,
         inside' = inside \/ inside' = (IF inside = j THEN None ELSE inside)
           \/ (inside = None /\ inside' = j),
         b.op \in {"create", "bootstrap"} =>
           (b.op = job[j].op /\ b.target = job[j].target)
             \/ (\A k \in Jobs : job[k].target # b.target),
         JobInv(j)'
  PROVE  ManagementInv'
<1>0. TypeOK /\ Existing \subseteq used /\ NewIdsDiffer /\ \A k \in Jobs : JobInv(k)
  BY DEF ManagementInv
<1>1. job'[j] = b /\ \A k \in Jobs : k # j => job'[k] = job[k]
  BY <1>0 DEF TypeOK
<1>2. TypeOK'
  BY <1>0 DEF TypeOK
<1>3. Existing' = Existing /\ Managers' = Managers
  BY DEF Managers, Existing, Exists
<1>4. (Existing \subseteq used)'
  BY <1>0, <1>3
<1>5. NewIdsDiffer'
  BY <1>0, <1>1 DEF NewIdsDiffer, Creating
<1>6. ASSUME NEW k \in Jobs, k # j
      PROVE  JobInv(k)'
  <2>1. JobInv(k) /\ job'[k] = job[k] /\ None # k
    BY <1>0, <1>1, <1>6, ManagementAssumption DEF Jobs
  <2>2. LockHeld(k)'
    BY <1>6, <2>1 DEF JobInv, LockHeld, Locked
  <2>3. OnRoute(k)' /\ TargetFresh(k)' /\ Authorized(k)'
    BY <1>3, <2>1 DEF JobInv, OnRoute, TargetFresh, Creating, Authorized, NeedsManager, Self
  <2>4. TargetKnown(k)' /\ OthersRemain(k)'
    BY <1>3, <2>1 DEF JobInv, TargetKnown, Locked, HasLoaded, Creating, OthersRemain, Demotes,
       AnotherAdmin, AnotherManager
  <2>5. VersionTells(k)'
    BY <1>3, <2>1 DEF JobInv, VersionTells, HasLoaded, Creating
  <2> QED
    BY <2>2, <2>3, <2>4, <2>5 DEF JobInv
<1> QED
  BY <1>2, <1>4, <1>5, <1>6 DEF ManagementInv

\* A job that is over, or has not begun, or waits, claims nothing.
LEMMA OverKnowsNothing ==
  ASSUME NEW j, job'[j] = Over
  PROVE  JobInv(j)'
BY IdleTyped DEF JobInv, OnRoute, Route, LockHeld, Locked, TargetFresh, Authorized, TargetKnown,
   HasLoaded, Creating, OthersRemain, VersionTells

LEMMA EndKeepsInv ==
  ASSUME ManagementInv, NEW j \in Jobs, End(j), UNCHANGED <<account, used, late>>
  PROVE  ManagementInv'
<1>1. job' = [job EXCEPT ![j] = Over]
  BY DEF End, Over
<1>2. job'[j] = Over
  BY <1>1 DEF ManagementInv, TypeOK
<1> QED
  BY <1>1, <1>2, IdleTyped, OverKnowsNothing, JobMoves DEF End, Leave

-----------------------------------------------------------------------------
(* What the steps of a job record *)

\* The same job, further on.
SameOrder(b, j) ==
  /\ b.op = job[j].op /\ b.actor = job[j].actor /\ b.seen = job[j].seen
  /\ b.target = job[j].target /\ b.flag = job[j].flag /\ b.secret = job[j].secret

LEMMA JobAdvances ==
  ASSUME ManagementInv, NEW j \in Jobs, NEW b \in JobState,
         job' = [job EXCEPT ![j] = b], UNCHANGED <<account, used, late>>,
         inside' = inside \/ (inside = None /\ inside' = j),
         SameOrder(b, j), b.at \in Route(b.op), LockHeld(j)',
         Authorized(j)', TargetKnown(j)', OthersRemain(j)', VersionTells(j)'
  PROVE  ManagementInv'
<1>1. job'[j] = b /\ JobInv(j)
  BY DEF ManagementInv, TypeOK
<1>2. OnRoute(j)' /\ TargetFresh(j)'
  BY <1>1 DEF SameOrder, JobInv, OnRoute, TargetFresh, Creating
<1>3. JobInv(j)'
  BY <1>2 DEF JobInv
<1>4. b.op = job[j].op /\ b.target = job[j].target
  BY DEF SameOrder
<1> QED
  BY <1>3, <1>4, JobMoves

LEMMA GotoAdvances ==
  ASSUME TypeOK, NEW j \in Jobs, NEW step, Goto(j, step),
         step \in {"authorize", "load", "check", "write"}
  PROVE  LET b == [job[j] EXCEPT !.at = step] IN
         /\ b \in JobState /\ SameOrder(b, j) /\ b.doc = job[j].doc /\ b.lone = job[j].lone
         /\ b.at = step /\ job' = [job EXCEPT ![j] = b] /\ job'[j] = b
BY DEF TypeOK, Goto, JobState, SameOrder

\* A job that has just begun.
LEMMA BeginKeepsInv ==
  ASSUME ManagementInv, NEW j \in Jobs, NEW b \in JobState,
         job' = [job EXCEPT ![j] = b], UNCHANGED <<account, used, inside, late>>,
         b.at = "waiting" \/ (b.op = "reset" /\ b.at = "load"),
         OnRoute(j)', b.target \in Admins,
         IF b.op \in {"create", "bootstrap"} THEN NewId(b.target) ELSE b.target \in used,
         j \in Commands \/ b.at = "waiting"
  PROVE  ManagementInv'
<1>1. job'[j] = b
  BY DEF ManagementInv, TypeOK
<1>2. TargetFresh(j)'
  BY <1>1 DEF TargetFresh, Creating, NewId
<1>3. LockHeld(j)' /\ TargetKnown(j)' /\ OthersRemain(j)' /\ VersionTells(j)'
  BY <1>1 DEF LockHeld, Locked, TargetKnown, HasLoaded, OthersRemain, VersionTells
<1>4. Authorized(j)'
  BY <1>1, ManagementAssumption DEF Authorized
<1>5. JobInv(j)'
  BY <1>2, <1>3, <1>4 DEF JobInv
<1>6. b.op \in {"create", "bootstrap"} => \A k \in Jobs : job[k].target # b.target
  BY DEF NewId
<1> QED
  BY <1>5, <1>6, JobMoves

LEMMA SubmitKeepsInv ==
  ASSUME ManagementInv, NEW r \in Requests, NEW op \in {"create", "update", "delete"},
         NEW a \in Admins, NEW t \in Admins, NEW flag \in {"keep", "grant", "revoke"},
         NEW secret \in BOOLEAN, Submit(r, op, a, t, flag, secret),
         IF op = "create" THEN NewId(t) ELSE t \in used
  PROVE  ManagementInv'
<1> DEFINE b == [Idle EXCEPT !.op = op, !.actor = a, !.seen = account[a].auth, !.target = t,
                              !.flag = flag, !.secret = secret, !.at = "waiting"]
<1>1. r \in Jobs /\ r \notin Commands
  BY ManagementAssumption DEF Jobs
<1>2. account[a] \in Document
  BY DEF Submit, Exists, ManagementInv, TypeOK
<1>3. account[a].auth \in Nat
  BY <1>2 DEF Document
<1>4. b \in JobState
  BY <1>3, IdleTyped DEF JobState
<1>5. /\ b.op = op /\ b.actor = a /\ b.target = t /\ b.flag = flag /\ b.at = "waiting"
  BY DEF Idle
<1>6. job' = [job EXCEPT ![r] = b] /\ UNCHANGED <<account, used, inside, late>>
  BY DEF Submit
<1> HIDE DEF b
<1>7. job'[r] = b
  BY <1>1, <1>6 DEF ManagementInv, TypeOK
<1>8. OnRoute(r)'
  BY <1>1, <1>5, <1>7, ManagementAssumption DEF OnRoute, Route
<1> QED
  BY <1>1, <1>4, <1>5, <1>6, <1>8, BeginKeepsInv

LEMMA CommandKeepsInv ==
  ASSUME ManagementInv, NEW c \in Commands, NEW t \in Admins,
         BeginBootstrap(c, t) \/ BeginRecover(c, t) \/ BeginReset(c, t)
  PROVE  ManagementInv'
<1>1. c \in Jobs /\ c \notin Requests
  BY ManagementAssumption DEF Jobs
<1>2. ASSUME NEW op \in {"bootstrap", "recover", "reset"}, NEW flag \in {"keep", "grant"},
             NEW secret \in BOOLEAN, NEW step \in {"waiting", "load"},
             Begin(c, op, t, flag, secret, step),
             flag = (IF op = "reset" THEN "keep" ELSE "grant"),
             step = (IF op = "reset" THEN "load" ELSE "waiting"),
             IF op = "bootstrap" THEN NewId(t) ELSE t \in used
      PROVE  ManagementInv'
  <2> DEFINE b == [Idle EXCEPT !.op = op, !.target = t, !.flag = flag, !.secret = secret,
                                !.at = step]
  <2>1. b \in JobState
    BY IdleTyped DEF JobState
  <2>2. b.op = op /\ b.target = t /\ b.flag = flag /\ b.at = step
    BY DEF Idle
  <2>3. job' = [job EXCEPT ![c] = b] /\ UNCHANGED <<account, used, inside, late>>
    BY <1>2 DEF Begin
  <2> HIDE DEF b
  <2>4. job'[c] = b
    BY <1>1, <2>3 DEF ManagementInv, TypeOK
  <2>5. OnRoute(c)'
    BY <1>1, <1>2, <2>2, <2>4, ManagementAssumption DEF OnRoute, Route
  <2> QED
    BY <1>1, <1>2, <2>1, <2>2, <2>3, <2>5, BeginKeepsInv
<1> QED
  BY <1>2 DEF BeginBootstrap, BeginRecover, BeginReset

-----------------------------------------------------------------------------
(* The steps inside the lock *)

LEMMA EnterKeepsInv ==
  ASSUME ManagementInv, NEW j \in Jobs, Enter(j)
  PROVE  ManagementInv'
<1> DEFINE step == IF j \in Requests THEN "authorize" ELSE "check"
           b == [job[j] EXCEPT !.at = step]
<1>1. TypeOK /\ JobInv(j)
  BY DEF ManagementInv
<1>2. Goto(j, step) /\ job[j].at = "waiting" /\ inside = None /\ inside' = j
  BY DEF Enter
<1>3. /\ b \in JobState /\ SameOrder(b, j) /\ b.at = step
      /\ job' = [job EXCEPT ![j] = b] /\ job'[j] = b
  BY <1>1, <1>2, GotoAdvances
<1> HIDE DEF b
<1>4. b.at \in Route(b.op)
  BY <1>1, <1>2, <1>3 DEF JobInv, OnRoute, Route, SameOrder, Jobs
<1>5. LockHeld(j)' /\ Authorized(j)' /\ TargetKnown(j)' /\ OthersRemain(j)' /\ VersionTells(j)'
  BY <1>2, <1>3 DEF LockHeld, Authorized, TargetKnown, HasLoaded, OthersRemain, VersionTells
<1> QED
  BY <1>2, <1>3, <1>4, <1>5, JobAdvances DEF Enter

\* Inside the lock a job goes on; what it knew it still knows.
LEMMA InLockAdvances ==
  ASSUME ManagementInv, NEW j \in Jobs, NEW b \in JobState,
         job' = [job EXCEPT ![j] = b], UNCHANGED <<account, used, inside, late>>,
         SameOrder(b, j), b.at \in Route(b.op), job[j].op = "reset" \/ Locked(j),
         Authorized(j)', TargetKnown(j)', OthersRemain(j)', VersionTells(j)'
  PROVE  ManagementInv'
<1>1. job'[j] = b /\ JobInv(j)
  BY DEF ManagementInv, TypeOK
<1>2. LockHeld(j)'
  BY <1>1 DEF JobInv, LockHeld, Locked, SameOrder
<1> QED
  BY <1>2, JobAdvances

\* A job has read the document of its target.
LEMMA ReadKeepsInv ==
  ASSUME ManagementInv, NEW j \in Jobs, NEW b \in JobState,
         job' = [job EXCEPT ![j] = b], UNCHANGED <<account, used, inside, late>>,
         SameOrder(b, j), job[j].op \in {"update", "delete", "recover", "reset"},
         job[j].op = "reset" \/ Locked(j),
         job[j].target \in Existing, b.doc = account[job[j].target],
         b.at = Loaded(j, b.doc),
         Authorized(j)'
  PROVE  ManagementInv'
<1>1. job'[j] = b /\ JobInv(j) /\ Existing' = Existing /\ Managers' = Managers
  BY DEF ManagementInv, TypeOK, Managers, Existing, Exists
<1>2. b.doc \in Document
  BY DEF JobState
<1>3. b.at \in Route(b.op)
  BY DEF Route, Loaded, SameOrder
<1>4. TargetKnown(j)'
  BY <1>1 DEF TargetKnown, SameOrder, Managers
<1>5. OthersRemain(j)'
  BY <1>1 DEF OthersRemain, Demotes, SameOrder, Loaded
<1>6. VersionTells(j)'
  <2>1. (account[job[j].target])' = b.doc /\ job'[j].doc = b.doc
    BY <1>1 DEF SameOrder
  <2>2. b.doc.version \in Nat
    BY <1>2 DEF Document
  <2> QED
    BY <1>1, <2>1, <2>2 DEF VersionTells, SameOrder
<1> QED
  BY <1>3, <1>4, <1>5, <1>6, InLockAdvances

LEMMA LoadKeepsInv ==
  ASSUME ManagementInv, NEW j \in Jobs, Load(j)
  PROVE  ManagementInv'
<1> DEFINE t == job[j].target
           b == [job[j] EXCEPT !.doc = account[t], !.at = Loaded(j, account[t])]
<1>1. TypeOK /\ JobInv(j) /\ job[j].at = "load"
  BY DEF ManagementInv, Load
<1>2. CASE Exists(t)
  <2>1. job' = [job EXCEPT ![j] = b] /\ UNCHANGED <<account, used, inside, late>>
    BY <1>2 DEF Load
  <2>2. job[j].op \in {"update", "delete", "recover", "reset"}
    BY <1>1 DEF JobInv, OnRoute, Route, TypeOK, JobState
  <2>3. t \in Existing
    BY <1>1, <1>2, <2>2 DEF JobInv, OnRoute, Existing, TypeOK, JobState
  <2>4. account[t] \in Document /\ job[j] \in JobState
    BY <1>1, <2>3, ExistingTyped DEF TypeOK
  <2>5. b \in JobState /\ SameOrder(b, j) /\ b.doc = account[t] /\ b.at = Loaded(j, b.doc)
    <3>1. Loaded(j, account[t]) \in {"countAdmins", "countManagers", "write"}
      BY DEF Loaded
    <3>2. b \in JobState /\ b.doc = account[t] /\ b.at = Loaded(j, account[t])
      BY <2>4, <3>1 DEF JobState
    <3>3. SameOrder(b, j)
      BY <2>4 DEF JobState, SameOrder
    <3> QED
      BY <3>2, <3>3
  <2> HIDE DEF b
  <2>6. job[j].op = "reset" \/ Locked(j)
    BY <1>1 DEF Locked
  <2>7. job'[j] = b /\ Managers' = Managers
    BY <1>1, <2>1 DEF TypeOK, Managers, Existing, Exists
  <2>8. Authorized(j)'
    BY <1>1, <2>5, <2>7 DEF JobInv, Authorized, NeedsManager, Self, SameOrder
  <2> QED
    BY <2>1, <2>2, <2>3, <2>5, <2>6, <2>8, ReadKeepsInv
<1>3. CASE ~ Exists(t)
  BY <1>3, EndKeepsInv DEF Load
<1> QED
  BY <1>2, <1>3

LEMMA AuthorizeKeepsInv ==
  ASSUME ManagementInv, NEW r \in Requests, Authorize(r)
  PROVE  ManagementInv'
<1> DEFINE a == job[r].actor
           ok == Exists(a) /\ account[a].auth = job[r].seen /\ (NeedsManager(r) => account[a].manager)
<1>1. TypeOK /\ JobInv(r) /\ job[r].at = "authorize" /\ r \in Jobs
  BY DEF ManagementInv, Authorize, Jobs
<1>2. job[r].op \in {"create", "update", "delete"} /\ a \in Admins /\ job[r] \in JobState
  BY <1>1 DEF JobInv, OnRoute, Route, TypeOK, JobState
<1>3. Locked(r)
  BY <1>1, <1>2 DEF Locked
<1>4. CASE ~ ok
  BY <1>1, <1>4, EndKeepsInv DEF Authorize
<1>5. CASE ok
  <2>1. a \in Existing /\ (NeedsManager(r) => a \in Managers) /\ account[a] \in Document
    BY <1>1, <1>2, <1>5, ExistingTyped DEF Existing, Managers
  <2>2. Existing' = Existing /\ Managers' = Managers
    BY DEF Managers, Existing, Exists, Authorize
  <2>3. CASE Self(r)
    <3> DEFINE b == [job[r] EXCEPT !.doc = account[a], !.at = Loaded(r, account[a])]
    <3>1. job' = [job EXCEPT ![r] = b] /\ UNCHANGED <<account, used, inside, late>>
      BY <1>1, <1>2, <1>5, <2>3 DEF Authorize
    <3>2. job[r].op \in {"update", "delete"} /\ job[r].target = a
      <4>1. a \in used /\ TargetFresh(r)
        BY <1>1, <2>1 DEF ManagementInv, JobInv
      <4>2. job[r].target = a /\ a # None
        BY <1>2, <2>3, ManagementAssumption DEF Self
      <4> QED
        BY <1>2, <4>1, <4>2 DEF TargetFresh, Creating
    <3>3. b \in JobState /\ SameOrder(b, r) /\ b.doc = account[a] /\ b.at = Loaded(r, b.doc)
      BY <1>2, <2>1, <3>2 DEF JobState, SameOrder, Loaded
    <3> HIDE DEF b
    <3>4. job'[r] = b
      BY <1>1, <3>1 DEF TypeOK
    <3>5. Authorized(r)'
      BY <2>1, <2>2, <3>3, <3>4 DEF Authorized, NeedsManager, Self, SameOrder
    <3> QED
      BY <1>1, <1>3, <2>1, <3>1, <3>2, <3>3, <3>5, ReadKeepsInv
  <2>4. CASE ~ Self(r)
    <3> DEFINE step == IF job[r].op = "create" THEN "write" ELSE "load"
               b == [job[r] EXCEPT !.at = step]
    <3>1. job' = [job EXCEPT ![r].doc = job[r].doc, ![r].at = step]
          /\ UNCHANGED <<account, used, inside, late>>
      BY <1>5, <2>4 DEF Authorize
    <3>2. b \in JobState /\ SameOrder(b, r) /\ b.at = step /\ b.doc = job[r].doc
      BY <1>2 DEF JobState, SameOrder
    <3>3. job' = [job EXCEPT ![r] = b]
      <4>1. [job[r] EXCEPT !.doc = job[r].doc, !.at = step] = b
        BY <1>2 DEF JobState
      <4> QED
        BY <1>1, <3>1, <4>1 DEF TypeOK
    <3> HIDE DEF b
    <3>4. job'[r] = b
      BY <1>1, <3>3 DEF TypeOK
    <3>5. b.at \in Route(b.op)
      BY <1>2, <3>2 DEF Route, SameOrder
    <3>6. Authorized(r)'
      BY <2>1, <2>2, <3>2, <3>4 DEF Authorized, NeedsManager, Self, SameOrder
    <3>7. TargetKnown(r)' /\ VersionTells(r)' /\ OthersRemain(r)'
      BY <1>2, <3>2, <3>4 DEF TargetKnown, VersionTells, OthersRemain, HasLoaded, Creating, Demotes,
         SameOrder
    <3> QED
      BY <1>1, <1>3, <3>1, <3>2, <3>3, <3>5, <3>6, <3>7, InLockAdvances
  <2> QED
    BY <2>3, <2>4
<1> QED
  BY <1>4, <1>5

LEMMA CountAdminsKeepsInv ==
  ASSUME ManagementInv, NEW r \in Requests, CountAdmins(r)
  PROVE  ManagementInv'
<1> DEFINE few == Cardinality(Existing) <= 1
           b == [job[r] EXCEPT !.lone = few, !.at = "countManagers"]
<1>1. TypeOK /\ JobInv(r) /\ job[r].at = "countAdmins" /\ r \in Jobs
  BY DEF ManagementInv, CountAdmins, Jobs
<1>2. job[r] \in JobState /\ job[r].op = "delete"
  BY <1>1 DEF JobInv, OnRoute, Route, TypeOK, JobState
<1>3. few \in BOOLEAN
  OBVIOUS
<1>4. b \in JobState /\ SameOrder(b, r) /\ b.doc = job[r].doc /\ b.lone = few /\ b.at = "countManagers"
  BY <1>2, <1>3 DEF JobState, SameOrder
<1>5. job' = [job EXCEPT ![r] = b] /\ UNCHANGED <<account, used, inside, late>>
  BY <1>1, <1>2 DEF CountAdmins, TypeOK, JobState
<1> HIDE DEF b
<1>6. job'[r] = b /\ Existing' = Existing /\ Managers' = Managers
  BY <1>1, <1>5 DEF TypeOK, Managers, Existing, Exists
<1>7. ~ few => AnotherAdmin(r)
  BY AnotherOne, AdminsFinite DEF AnotherAdmin
<1> HIDE DEF few
<1>8. OthersRemain(r)'
  BY <1>2, <1>4, <1>6, <1>7 DEF OthersRemain, AnotherAdmin, SameOrder
<1>9. Authorized(r)' /\ TargetKnown(r)' /\ VersionTells(r)'
  BY <1>1, <1>2, <1>4, <1>5, <1>6 DEF JobInv, Authorized, NeedsManager, Self, TargetKnown, Locked,
     HasLoaded, Creating, VersionTells, SameOrder
<1>10. b.at \in Route(b.op) /\ Locked(r)
  BY <1>1, <1>2, <1>4 DEF Route, Locked, SameOrder
<1> QED
  BY <1>1, <1>4, <1>5, <1>8, <1>9, <1>10, InLockAdvances

LEMMA CountManagersKeepsInv ==
  ASSUME ManagementInv, NEW r \in Requests, CountManagers(r)
  PROVE  ManagementInv'
<1> DEFINE b == [job[r] EXCEPT !.at = "write"]
<1>1. TypeOK /\ JobInv(r) /\ job[r].at = "countManagers" /\ r \in Jobs
  BY DEF ManagementInv, CountManagers, Jobs
<1>2. CASE Blocked(r)
  BY <1>1, <1>2, EndKeepsInv DEF CountManagers
<1>3. CASE ~ Blocked(r)
  <2>1. job[r] \in JobState /\ job[r].op \in {"update", "delete"}
    BY <1>1 DEF JobInv, OnRoute, Route, TypeOK, JobState
  <2>2. Goto(r, "write") /\ UNCHANGED <<account, used, inside, late>>
    BY <1>3 DEF CountManagers
  <2>3. /\ b \in JobState /\ SameOrder(b, r) /\ b.doc = job[r].doc /\ b.at = "write"
        /\ job' = [job EXCEPT ![r] = b] /\ job'[r] = b
    BY <1>1, <2>2, GotoAdvances
  <2> HIDE DEF b
  <2>4. Existing' = Existing /\ Managers' = Managers
    BY <2>2 DEF Managers, Existing, Exists
  <2>5. job[r].doc.manager => AnotherManager(r)
    BY <1>3, AnotherOne, AdminsFinite DEF Blocked, LastManager, AnotherManager
  <2>6. job[r].op = "delete" => AnotherAdmin(r)
    BY <1>1, <1>3 DEF JobInv, OthersRemain, Blocked
  <2>7. OthersRemain(r)'
    BY <2>3, <2>4, <2>5, <2>6 DEF OthersRemain, AnotherAdmin, AnotherManager, SameOrder
  <2>8. Authorized(r)' /\ TargetKnown(r)' /\ VersionTells(r)'
    BY <1>1, <2>1, <2>2, <2>3, <2>4 DEF JobInv, Authorized, NeedsManager, Self, TargetKnown, Locked,
       HasLoaded, Creating, VersionTells, SameOrder
  <2>9. b.at \in Route(b.op) /\ Locked(r)
    BY <1>1, <2>1, <2>3 DEF Route, Locked, SameOrder
  <2> QED
    BY <1>1, <2>2, <2>3, <2>7, <2>8, <2>9, InLockAdvances
<1> QED
  BY <1>2, <1>3

LEMMA CheckKeepsInv ==
  ASSUME ManagementInv, NEW c \in Commands, Check(c)
  PROVE  ManagementInv'
<1>1. TypeOK /\ JobInv(c) /\ job[c].at = "check" /\ c \in Jobs /\ c \notin Requests
  BY ManagementAssumption DEF ManagementInv, Check, Jobs
<1>2. CASE End(c)
  BY <1>1, <1>2, EndKeepsInv DEF Check
<1>3. ASSUME NEW step, UNCHANGED inside, Goto(c, step),
             \/ job[c].op = "bootstrap" /\ step = "write"
             \/ job[c].op = "recover" /\ step = "load"
      PROVE  ManagementInv'
  <2> DEFINE b == [job[c] EXCEPT !.at = step]
  <2>1. /\ b \in JobState /\ SameOrder(b, c) /\ b.at = step
        /\ job' = [job EXCEPT ![c] = b] /\ job'[c] = b
    BY <1>1, <1>3, GotoAdvances
  <2> HIDE DEF b
  <2>2. b.at \in Route(b.op) /\ Locked(c)
    BY <1>1, <1>3, <2>1 DEF Route, Locked, SameOrder
  <2>3. Authorized(c)' /\ TargetKnown(c)' /\ VersionTells(c)' /\ OthersRemain(c)'
    BY <1>1, <1>3, <2>1 DEF Authorized, TargetKnown, VersionTells, OthersRemain, HasLoaded, Creating,
       Demotes, SameOrder
  <2> QED
    BY <1>1, <1>3, <2>1, <2>2, <2>3, InLockAdvances DEF Check
<1> QED
  BY <1>2, <1>3 DEF Check

-----------------------------------------------------------------------------
(* The write of a job *)

\* What a save makes of the document it finds.
LEMMA SavedFacts ==
  ASSUME ManagementInv, NEW j \in Jobs, job[j].at = "write",
         job[j].op \in {"update", "recover", "reset"}, job[j].target \in Existing, Applies(j)
  PROVE  LET old == account[job[j].target]
             new == Saved(j)
             doc == job[j].doc IN
         /\ new \in Document
         /\ new = old \/ new.version = old.version + 1
         /\ new.auth >= old.auth
         /\ new.manager # old.manager => FlagChanges(j) /\ new.manager = NewFlag(j)
         /\ new.manager # old.manager \/ new.secret # old.secret => new.auth > old.auth
<1> DEFINE old == account[job[j].target]
           doc == job[j].doc
<1>1. TypeOK /\ JobInv(j) /\ job[j] \in JobState
  BY DEF ManagementInv, TypeOK
<1>2. old \in Document /\ doc \in Document
  BY <1>1, ExistingTyped DEF JobState
<1>3. /\ old.auth \in Nat /\ old.version \in Nat /\ doc.auth \in Nat /\ doc.version \in Nat
      /\ old.manager \in BOOLEAN /\ doc.manager \in BOOLEAN /\ old.secret \in Jobs \cup {None}
  BY <1>2 DEF Document
<1>4. CASE Unmodified(j)
  <2>1. Saved(j) = old
    BY <1>4 DEF Saved
  <2> QED
    BY <1>2, <1>3, <2>1
<1>5. CASE ~ Unmodified(j)
  <2>1. old.version = doc.version
    BY <1>5 DEF Applies
  <2>2. old.auth = doc.auth
    BY <1>1, <2>1 DEF JobInv, VersionTells, HasLoaded, Creating
  <2>3. FlagChanges(j) \in BOOLEAN /\ NewFlag(j) \in BOOLEAN /\ job[j].secret \in BOOLEAN
    BY <1>1, <1>3 DEF FlagChanges, NewFlag, JobState
  <2>4. Saved(j) =
          [manager |-> IF FlagChanges(j) THEN NewFlag(j) ELSE old.manager,
           auth |-> IF FlagChanges(j) \/ job[j].secret THEN old.auth + 1 ELSE old.auth,
           version |-> old.version + 1,
           secret |-> IF job[j].secret THEN j ELSE old.secret]
    BY <1>5, <2>2 DEF Saved
  <2>5. Saved(j) \in Document
    BY <1>3, <2>3, <2>4 DEF Document
  <2>6. /\ Saved(j).manager = IF FlagChanges(j) THEN NewFlag(j) ELSE old.manager
        /\ Saved(j).auth = IF FlagChanges(j) \/ job[j].secret THEN old.auth + 1 ELSE old.auth
        /\ Saved(j).version = old.version + 1
        /\ Saved(j).secret = IF job[j].secret THEN j ELSE old.secret
    BY <2>4
  <2> QED
    BY <1>3, <2>3, <2>5, <2>6
<1> QED
  BY <1>4, <1>5

\* What a write leaves behind.
LEMMA CommitEffect ==
  ASSUME ManagementInv, NEW j \in Jobs, Commit(j)
  PROVE  LET t == job[j].target IN
         /\ job[j].op \in {"create", "bootstrap", "delete", "update", "recover", "reset"}
         /\ t \in Admins /\ used' = used \cup {t} /\ UNCHANGED late
         /\ job' = [job EXCEPT ![j] = Over]
         /\ account' \in [Admins -> Document \cup {None}]
         /\ \A a \in Admins : a # t => account'[a] = account[a]
         /\ Creating(j) => t \notin used /\ account'[t] = Fresh(job[j].flag = "grant")
         /\ job[j].op = "delete" => account'[t] = None
         /\ job[j].op \in {"update", "recover", "reset"} =>
              t \in Existing /\ account'[t] = Saved(j) /\ Saved(j) \in Document
<1> DEFINE t == job[j].target
<1>1. TypeOK /\ JobInv(j) /\ job[j].at = "write" /\ job[j] \in JobState
  BY DEF ManagementInv, TypeOK, Commit
<1>2. job[j].op \in {"create", "bootstrap", "delete", "update", "recover", "reset"}
  BY <1>1 DEF JobInv, OnRoute, Route, JobState
<1>3. t \in Admins
  BY <1>1, <1>2 DEF JobInv, OnRoute, JobState
<1>4. used' = used \cup {t} /\ UNCHANGED late /\ job' = [job EXCEPT ![j] = Over]
  BY DEF Commit, Write, End, Over
<1>5. CASE Creating(j)
  <2>1. t \notin used
    BY <1>1, <1>3, <1>5, ManagementAssumption DEF JobInv, TargetFresh
  <2>2. account' = [account EXCEPT ![t] = Fresh(job[j].flag = "grant")]
    BY <1>5 DEF Commit, Write, Creating
  <2>3. Fresh(job[j].flag = "grant") \in Document
    BY DEF Fresh, Document
  <2> QED
    BY <1>1, <1>2, <1>3, <1>4, <1>5, <2>1, <2>2, <2>3 DEF TypeOK, Creating
<1>6. CASE job[j].op = "delete"
  <2>1. account' = [account EXCEPT ![t] = None]
    BY <1>6 DEF Commit, Write
  <2> QED
    BY <1>1, <1>3, <1>4, <1>6, <2>1 DEF TypeOK, Creating
<1>7. CASE job[j].op \in {"update", "recover", "reset"}
  <2>1. t \in Existing /\ Applies(j)
    BY <1>3, <1>7 DEF Commit, Applies, Existing
  <2>2. account' = [account EXCEPT ![t] = Saved(j)]
    BY <1>7 DEF Commit, Write
  <2>3. Saved(j) \in Document
    BY <1>1, <1>7, <2>1, SavedFacts
  <2> HIDE DEF t
  <2>4. account'[t] = Saved(j) /\ account' \in [Admins -> Document \cup {None}]
        /\ \A a \in Admins : a # t => account'[a] = account[a]
    BY <1>1, <1>3, <2>2, <2>3 DEF TypeOK
  <2> QED
    BY <1>2, <1>3, <1>4, <1>7, <2>1, <2>3, <2>4 DEF Creating, t
<1> QED
  BY <1>2, <1>5, <1>6, <1>7 DEF Creating

\* A write and the two sets the model is about.
LEMMA CommitPrivileges ==
  ASSUME ManagementInv, NEW j \in Jobs, Commit(j)
  PROVE  /\ \A a \in Existing : a # job[j].target => a \in Existing'
         /\ \A a \in Managers : a # job[j].target => a \in Managers'
         /\ job[j].op # "delete" /\ job[j].target \in Existing => job[j].target \in Existing'
         /\ job[j].op = "reset" => Existing' = Existing /\ Managers' = Managers
         /\ Creating(j) => job[j].target \notin Existing
<1> DEFINE t == job[j].target
<1>0. TypeOK /\ JobInv(j) /\ Existing \subseteq used /\ job[j].at = "write"
  BY DEF ManagementInv, Commit
<1>1. /\ job[j].op \in {"create", "bootstrap", "delete", "update", "recover", "reset"}
      /\ t \in Admins
      /\ \A a \in Admins : a # t => account'[a] = account[a]
      /\ Creating(j) => t \notin used
      /\ job[j].op \in {"update", "recover", "reset"} =>
           t \in Existing /\ account'[t] = Saved(j) /\ Saved(j) \in Document
  BY CommitEffect
<1>2. \A a \in Existing : a # t => a \in Existing'
  BY <1>1 DEF Existing, Exists
<1>3. \A a \in Managers : a # t => a \in Managers'
  BY <1>1, <1>2 DEF Managers, Existing
<1>4. Creating(j) => t \notin Existing
  BY <1>0, <1>1
<1>5. job[j].op # "delete" /\ t \in Existing => t \in Existing'
  BY <1>1, <1>4, NoneIsNoDocument DEF Existing, Exists, Creating
<1>6. ASSUME job[j].op = "reset"
      PROVE  Existing' = Existing /\ Managers' = Managers
  <2>1. t \in Existing /\ account'[t] = Saved(j) /\ Applies(j)
    BY <1>1, <1>6 DEF Commit
  <2>2. ~ FlagChanges(j)
    BY <1>0, <1>6 DEF JobInv, OnRoute, FlagChanges, NewFlag
  <2>3. account'[t].manager = account[t].manager
    BY <1>0, <1>6, <2>1, <2>2, SavedFacts
  <2>4. Existing' = Existing
    BY <1>1, <1>5, <1>6, <2>1 DEF Existing, Exists
  <2>5. \A a \in Existing : account'[a].manager = account[a].manager
    BY <1>1, <2>3 DEF Existing
  <2> QED
    BY <2>4, <2>5 DEF Managers
<1> QED
  BY <1>2, <1>3, <1>4, <1>5, <1>6

LEMMA CommitKeepsInv ==
  ASSUME ManagementInv, NEW j \in Jobs, Commit(j)
  PROVE  ManagementInv'
<1> DEFINE t == job[j].target
<1>0. TypeOK /\ Existing \subseteq used /\ NewIdsDiffer /\ \A k \in Jobs : JobInv(k)
  BY DEF ManagementInv
<1>1. /\ t \in Admins /\ used' = used \cup {t} /\ UNCHANGED late
      /\ job' = [job EXCEPT ![j] = Over]
      /\ account' \in [Admins -> Document \cup {None}]
      /\ \A a \in Admins : a # t => account'[a] = account[a]
  BY CommitEffect
<1>2. job'[j] = Over /\ \A k \in Jobs : k # j => job'[k] = job[k]
  BY <1>0, <1>1 DEF TypeOK
<1>3. inside' = IF inside = j THEN None ELSE inside
  BY DEF Commit, End, Leave
<1>4. TypeOK'
  BY <1>0, <1>1, <1>3, IdleTyped DEF TypeOK
<1>5. (Existing \subseteq used)'
  BY <1>0, <1>1 DEF Existing, Exists
<1>6. NewIdsDiffer'
  BY <1>0, <1>2, IdleTyped DEF NewIdsDiffer, Creating
<1>7. ASSUME NEW k \in Jobs, k # j
      PROVE  JobInv(k)'
  <2>1. JobInv(k) /\ JobInv(j) /\ job'[k] = job[k] /\ job[k] \in JobState /\ k # None
    BY <1>0, <1>2, <1>7, ManagementAssumption DEF Jobs, TypeOK
  <2>2. LockHeld(k)'
    BY <1>3, <1>7, <2>1 DEF JobInv, LockHeld, Locked
  <2>3. OnRoute(k)'
    BY <2>1 DEF JobInv, OnRoute
  <2>4. job[k].target \in Admins => (Creating(k) => job[k].target # t)
    <3>1. Creating(j) => (Creating(k) => job[k].target # t)
      BY <1>0, <1>7 DEF NewIdsDiffer
    <3>2. ~ Creating(j) => t \in used
      BY <1>1, <2>1, ManagementAssumption DEF JobInv, TargetFresh
    <3> QED
      BY <2>1, <3>1, <3>2, ManagementAssumption DEF JobInv, TargetFresh
  <2>5. TargetFresh(k)'
    BY <1>1, <2>1, <2>4 DEF JobInv, TargetFresh, Creating, JobState
  <2>6. VersionTells(k)'
    <3> SUFFICES ASSUME HasLoaded(k), job[k].target \in Existing'
                 PROVE  /\ job[k].doc.version <= account'[job[k].target].version
                        /\ job[k].doc.version = account'[job[k].target].version =>
                             job[k].doc.auth = account'[job[k].target].auth
      BY <2>1 DEF VersionTells, HasLoaded, Creating
    <3>1. VersionTells(k) /\ job[k].target \in Admins /\ job[k].target \in used
      BY <1>4, <2>1 DEF JobInv, OnRoute, Route, TargetFresh, HasLoaded, Existing, JobState
    <3>2. CASE job[k].target # t
      BY <1>1, <3>1, <3>2 DEF VersionTells, Existing, Exists
    <3>3. CASE job[k].target = t
      <4>1. ~ Creating(j) /\ job[j].op # "delete"
        BY <3>1, <3>3, CommitEffect DEF Existing, Exists
      <4>2. /\ job[j].op \in {"update", "recover", "reset"} /\ t \in Existing
            /\ account'[t] = Saved(j) /\ job[j].at = "write" /\ Applies(j)
        BY <4>1, CommitEffect DEF Creating, Commit
      <4>3. account'[t] = account[t] \/ account'[t].version = account[t].version + 1
        BY <4>2, SavedFacts
      <4>4. account[t].version \in Nat /\ job[k].doc.version \in Nat
        BY <1>0, <2>1, <4>2, ExistingTyped DEF Document, JobState
      <4> QED
        BY <3>1, <3>3, <4>2, <4>3, <4>4 DEF VersionTells
    <3> QED
      BY <3>2, <3>3
  <2>7. CASE job[j].op = "reset"
    <3>1. Existing' = Existing /\ Managers' = Managers
      BY <2>7, CommitPrivileges
    <3>2. Authorized(k)' /\ TargetKnown(k)' /\ OthersRemain(k)'
      BY <2>1, <3>1 DEF JobInv, Authorized, NeedsManager, Self, TargetKnown, Locked, HasLoaded,
         Creating, OthersRemain, Demotes, AnotherAdmin, AnotherManager
    <3> QED
      BY <2>1, <2>2, <2>3, <2>5, <2>6, <3>2 DEF JobInv
  <2>8. CASE job[j].op # "reset"
    <3>1. Locked(j)
      BY <2>8 DEF Locked, Commit
    <3>2. ~ Locked(k)
      BY <1>7, <2>1, <3>1 DEF JobInv, LockHeld
    <3>3. ~ Locked(k)' /\ OnRoute(k)'
      BY <2>1, <2>3, <3>2 DEF Locked
    <3>4. TargetKnown(k)'
      BY <3>3 DEF TargetKnown
    <3>5. Authorized(k)' /\ OthersRemain(k)'
      BY <3>3, ManagementAssumption DEF Locked, OnRoute, Authorized, OthersRemain, Demotes
    <3> QED
      BY <2>1, <2>2, <2>3, <2>5, <2>6, <3>4, <3>5 DEF JobInv
  <2> QED
    BY <2>7, <2>8
<1>8. JobInv(j)'
  BY <1>2, OverKnowsNothing
<1> QED
  BY <1>4, <1>5, <1>6, <1>7, <1>8 DEF ManagementInv

-----------------------------------------------------------------------------
(* The invariant holds *)

LEMMA ManagementInitial == Init => ManagementInv
<1> SUFFICES ASSUME Init PROVE ManagementInv
  OBVIOUS
<1>1. PICK S \in SUBSET Admins : \E M \in SUBSET S :
        /\ account = [a \in Admins |-> IF a \in S THEN Fresh(a \in M) ELSE None]
        /\ used = S
  BY DEF Init
<1>2. \A m \in BOOLEAN : Fresh(m) \in Document
  BY DEF Fresh, Document
<1>3. account \in [Admins -> Document \cup {None}] /\ used \in SUBSET Admins
  <2>1. PICK M \in SUBSET S :
          account = [a \in Admins |-> IF a \in S THEN Fresh(a \in M) ELSE None]
    BY <1>1
  <2>2. ASSUME NEW a \in Admins
        PROVE  (IF a \in S THEN Fresh(a \in M) ELSE None) \in Document \cup {None}
    <3>1. (a \in M) \in BOOLEAN
      OBVIOUS
    <3> QED
      BY <1>2, <3>1
  <2> QED
    BY <1>1, <2>1, <2>2
<1>4. job \in [Jobs -> JobState] /\ \A j \in Jobs : job[j] = Idle
  BY IdleTyped DEF Init
<1>5. TypeOK
  BY <1>3, <1>4 DEF Init, TypeOK
<1>6. Existing \subseteq used
  BY <1>1 DEF Existing, Exists
<1>7. NewIdsDiffer
  BY <1>4, IdleTyped DEF NewIdsDiffer, Creating
<1>8. ASSUME NEW j \in Jobs PROVE JobInv(j)
  BY <1>4, IdleTyped DEF JobInv, OnRoute, Route, LockHeld, Locked, TargetFresh, Authorized,
     TargetKnown, HasLoaded, OthersRemain, VersionTells
<1> QED
  BY <1>5, <1>6, <1>7, <1>8 DEF ManagementInv

LEMMA RequestKeepsInv ==
  ASSUME ManagementInv, NEW r \in Requests, RequestNext(r)
  PROVE  ManagementInv'
<1>1. \A a \in Existing : a \in used
  BY DEF ManagementInv
<1>2. ASSUME NEW a \in Admins, NEW t \in Admins, NEW flag \in {"keep", "grant", "revoke"},
             SubmitCreate(r, a, t, flag)
      PROVE  ManagementInv'
  <2>1. NewId(t) /\ Submit(r, "create", a, t, flag, FALSE)
    BY <1>2 DEF SubmitCreate
  <2> QED
    BY <2>1, SubmitKeepsInv
<1>3. ASSUME NEW a \in Admins, NEW t \in Admins, NEW flag \in {"keep", "grant", "revoke"},
             SubmitUpdatePeer(r, a, t, flag)
      PROVE  ManagementInv'
  <2>1. t \in used /\ Submit(r, "update", a, t, flag, FALSE)
    BY <1>3 DEF SubmitUpdatePeer
  <2> QED
    BY <2>1, SubmitKeepsInv
<1>4. ASSUME NEW a \in Admins, NEW t \in Admins, SubmitDelete(r, a, t)
      PROVE  ManagementInv'
  <2>1. t \in used /\ Submit(r, "delete", a, t, "keep", FALSE)
    BY <1>4 DEF SubmitDelete
  <2> QED
    BY <2>1, SubmitKeepsInv
<1>5. ASSUME NEW a \in Admins, NEW flag \in {"keep", "grant", "revoke"}, NEW secret \in BOOLEAN,
             SubmitUpdateSelf(r, a, flag, secret)
      PROVE  ManagementInv'
  <2>1. a \in used /\ Submit(r, "update", a, a, flag, secret)
    BY <1>1, <1>5 DEF SubmitUpdateSelf, Existing
  <2> QED
    BY <2>1, SubmitKeepsInv
<1> QED
  BY <1>2, <1>3, <1>4, <1>5, AuthorizeKeepsInv, CountAdminsKeepsInv, CountManagersKeepsInv
     DEF RequestNext

\* Every step keeps the invariant.
LEMMA ManagementStep == ManagementInv /\ [Next]_vars => ManagementInv'
<1> SUFFICES ASSUME ManagementInv, [Next]_vars PROVE ManagementInv'
  OBVIOUS
<1>1. ASSUME NEW r \in Requests, RequestNext(r) PROVE ManagementInv'
  BY <1>1, RequestKeepsInv
<1>2. ASSUME NEW c \in Commands, CommandNext(c) PROVE ManagementInv'
  BY <1>2, CommandKeepsInv, CheckKeepsInv DEF CommandNext
<1>3. ASSUME NEW j \in Jobs, Fail(j) PROVE ManagementInv'
  BY <1>3, EndKeepsInv DEF Fail
<1>4. ASSUME NEW j \in Jobs, Enter(j) \/ Load(j) \/ Commit(j) PROVE ManagementInv'
  BY <1>4, EnterKeepsInv, LoadKeepsInv, CommitKeepsInv
<1>5. CASE UNCHANGED vars
  <2>1. Existing' = Existing /\ Managers' = Managers
    BY <1>5 DEF vars, Managers, Existing, Exists
  <2>2. TypeOK' /\ NewIdsDiffer' /\ (Existing \subseteq used)'
    BY <1>5, <2>1 DEF vars, ManagementInv, TypeOK, NewIdsDiffer, Creating
  <2>3. ASSUME NEW j \in Jobs PROVE JobInv(j)'
    <3>1. JobInv(j) /\ UNCHANGED vars
      BY <1>5 DEF ManagementInv
    <3>2. OnRoute(j)' /\ LockHeld(j)' /\ TargetFresh(j)' /\ Authorized(j)'
      BY <2>1, <3>1 DEF vars, JobInv, OnRoute, LockHeld, Locked, TargetFresh, Creating, Authorized,
         NeedsManager, Self
    <3>3. TargetKnown(j)' /\ OthersRemain(j)' /\ VersionTells(j)'
      BY <2>1, <3>1 DEF vars, JobInv, TargetKnown, Locked, HasLoaded, Creating, OthersRemain,
         Demotes, AnotherAdmin, AnotherManager, VersionTells
    <3> QED
      BY <3>2, <3>3 DEF JobInv
  <2> QED
    BY <2>2, <2>3 DEF ManagementInv
<1> QED
  BY <1>1, <1>2, <1>3, <1>4, <1>5 DEF Next

\* The inductive invariant holds in every reachable state.
THEOREM ManagementInvariant == Spec => []ManagementInv
BY ManagementInitial, ManagementStep, PTL DEF Spec

\* Type correctness, for any number of administrators and jobs.
THEOREM ManagementTyped == Spec => []TypeOK
BY ManagementInvariant, PTL DEF ManagementInv

-----------------------------------------------------------------------------
(* What the invariant is for *)

\* What adminController.ts:54-61 and 104-110 read of the actor still holds when
\* the write it allowed reaches the database.
THEOREM ActorStaysManager == Spec => []ActorIsManager
<1>1. ASSUME ManagementInv, NEW r \in Requests, job[r].at = "write", Peer(r)
      PROVE  job[r].actor \in Managers
  <2>1. Authorized(r)
    BY <1>1 DEF ManagementInv, JobInv, Jobs
  <2> QED
    BY <1>1, <2>1 DEF Authorized, NeedsManager, Peer
<1>2. ManagementInv => ActorIsManager
  BY <1>1 DEF ActorIsManager
<1> QED
  BY <1>2, ManagementInvariant, PTL

\* Only a write touches the accounts.
LEMMA OnlyCommitWrites ==
  ASSUME [Next]_vars, ~ \E j \in Jobs : Commit(j)
  PROVE  account' = account
<1>1. ASSUME NEW r \in Requests, RequestNext(r) PROVE account' = account
  <2>1. \A op, a, t, flag, secret : Submit(r, op, a, t, flag, secret) => account' = account
    BY DEF Submit
  <2>2. Authorize(r) \/ CountAdmins(r) \/ CountManagers(r) => account' = account
    BY DEF Authorize, CountAdmins, CountManagers
  <2> QED
    BY <1>1, <2>1, <2>2
       DEF RequestNext, SubmitCreate, SubmitUpdatePeer, SubmitDelete, SubmitUpdateSelf
<1>2. ASSUME NEW c \in Commands, CommandNext(c) PROVE account' = account
  BY <1>2 DEF CommandNext, BeginBootstrap, BeginRecover, BeginReset, Begin, Check
<1>3. ASSUME NEW j \in Jobs, Enter(j) \/ Load(j) \/ Fail(j) PROVE account' = account
  BY <1>3 DEF Enter, Load, Fail
<1> QED
  BY <1>1, <1>2, <1>3 DEF Next, vars

\* A delete leaves another admin.
LEMMA CommitKeepsAdmin ==
  ASSUME ManagementInv, NEW j \in Jobs, Commit(j), Existing # {}
  PROVE  Existing' # {}
<1>1. JobInv(j) /\ job[j].at = "write"
  BY DEF ManagementInv, Commit
<1>2. \A a \in Existing : a # job[j].target => a \in Existing'
  BY CommitPrivileges
<1>3. CASE job[j].op = "delete"
  BY <1>1, <1>2, <1>3 DEF JobInv, OthersRemain, AnotherAdmin
<1>4. CASE job[j].op # "delete"
  BY <1>2, <1>4, CommitPrivileges
<1> QED
  BY <1>3, <1>4

\* A delete or a demotion leaves another manager, and nothing else takes the
\* privilege away.
LEMMA CommitKeepsManager ==
  ASSUME ManagementInv, NEW j \in Jobs, Commit(j), Managers # {}
  PROVE  Managers' # {}
<1> DEFINE t == job[j].target
<1>1. JobInv(j) /\ job[j].at = "write" /\ job[j] \in JobState
  BY DEF ManagementInv, TypeOK, Commit
<1>2. \A a \in Managers : a # t => a \in Managers'
  BY CommitPrivileges
<1>3. CASE AnotherManager(j)
  BY <1>2, <1>3 DEF AnotherManager
<1>4. CASE ~ AnotherManager(j)
  <2>1. t \in Managers /\ t \in Existing
    BY <1>4 DEF AnotherManager, Managers
  <2>2. job[j].op \in {"delete", "update", "recover", "reset"}
    BY <2>1, CommitEffect, CommitPrivileges DEF Creating
  <2>3. job[j].op # "delete"
    <3> SUFFICES ASSUME job[j].op = "delete" PROVE FALSE
      OBVIOUS
    <3>1. job[j].doc.manager
      BY <1>1, <2>1 DEF JobInv, TargetKnown, Locked, HasLoaded, Creating
    <3> QED
      BY <1>1, <1>4, <3>1 DEF JobInv, OthersRemain, Demotes
  <2>4. account'[t] = Saved(j) /\ Applies(j) /\ t \in Existing'
    BY <2>1, <2>2, <2>3, CommitEffect, CommitPrivileges DEF Commit
  <2>5. account[t].manager
    BY <2>1 DEF Managers
  <2>6. CASE Saved(j).manager = account[t].manager
    BY <2>4, <2>5, <2>6 DEF Managers
  <2>7. CASE Saved(j).manager # account[t].manager
    <3>1. FlagChanges(j) /\ Saved(j).manager = NewFlag(j)
      BY <1>1, <2>1, <2>2, <2>3, <2>4, <2>7, SavedFacts
    <3>2. job[j].op # "reset"
      BY <1>1, <3>1 DEF JobInv, OnRoute, FlagChanges, NewFlag
    <3>3. job[j].doc.manager
      BY <1>1, <2>1, <2>2, <2>3, <3>2 DEF JobInv, TargetKnown, Locked, HasLoaded, Creating
    <3>4. job[j].flag = "grant" \/ job[j].flag = "revoke"
      BY <1>1, <3>1 DEF FlagChanges, NewFlag, JobState
    <3>5. CASE job[j].flag = "grant"
      BY <2>4, <3>1, <3>5 DEF NewFlag, Managers
    <3>6. CASE job[j].flag = "revoke"
      <4>1. job[j].op = "update"
        BY <1>1, <2>2, <2>3, <3>2, <3>6 DEF JobInv, OnRoute
      <4> QED
        BY <1>1, <1>4, <3>3, <3>6, <4>1 DEF JobInv, OthersRemain, Demotes
    <3> QED
      BY <3>4, <3>5, <3>6
  <2> QED
    BY <2>6, <2>7
<1> QED
  BY <1>3, <1>4

\* adminController.ts:65-70 and 113-124: the last manager stays, however requests
\* and commands cross.
THEOREM ManagerIsKept == Spec => KeepsManager
<1>1. ManagementInv /\ [Next]_vars => [Managers # {} => Managers' # {}]_vars
  <2> SUFFICES ASSUME ManagementInv, [Next]_vars, Managers # {} PROVE Managers' # {}
    OBVIOUS
  <2>1. CASE \E j \in Jobs : Commit(j)
    BY <2>1, CommitKeepsManager
  <2>2. CASE ~ \E j \in Jobs : Commit(j)
    BY <2>2, OnlyCommitWrites DEF Managers, Existing, Exists
  <2> QED
    BY <2>1, <2>2
<1> QED
  BY <1>1, ManagementInvariant, PTL DEF Spec, KeepsManager

\* adminController.ts:113-121: the last admin stays, be it a manager or not.
THEOREM AdminIsKept == Spec => KeepsAdmin
<1>1. ManagementInv /\ [Next]_vars => [Existing # {} => Existing' # {}]_vars
  <2> SUFFICES ASSUME ManagementInv, [Next]_vars, Existing # {} PROVE Existing' # {}
    OBVIOUS
  <2>1. CASE \E j \in Jobs : Commit(j)
    BY <2>1, CommitKeepsAdmin
  <2>2. CASE ~ \E j \in Jobs : Commit(j)
    BY <2>2, OnlyCommitWrites DEF Existing, Exists
  <2> QED
    BY <2>1, <2>2
<1> QED
  BY <1>1, ManagementInvariant, PTL DEF Spec, KeepsAdmin

\* Neither the last admin nor the last manager is lost under the lock.
THEOREM LastIsKept == Spec => KeepsLast
BY AdminIsKept, ManagerIsKept DEF KeepsLast

\* accountService.ts:67-117: no change of credentials or privilege leaves an
\* authorization version that a session from before it could carry, also next
\* to a password reset.
THEOREM ChangesAreRevoking == Spec => ChangesRevoke
<1> DEFINE Revokes(a) ==
      Exists(a) /\ account'[a] # None =>
        /\ account'[a].auth >= account[a].auth
        /\ account'[a].manager # account[a].manager \/ account'[a].secret # account[a].secret =>
             account'[a].auth > account[a].auth
<1>1. ASSUME ManagementInv, [Next]_vars, NEW a \in Admins, Exists(a), account'[a] # None
      PROVE  Revokes(a)
  <2>1. account[a] \in Document /\ account[a].auth \in Nat
    BY <1>1 DEF ManagementInv, TypeOK, Exists, Document
  <2>2. CASE account'[a] = account[a]
    BY <2>1, <2>2
  <2>3. ASSUME NEW j \in Jobs, Commit(j), a = job[j].target
        PROVE  Revokes(a)
    <3>1. a \in Existing
      BY <1>1 DEF Existing
    <3>2. job[j].op \in {"update", "recover", "reset"} /\ account'[a] = Saved(j)
      BY <1>1, <2>3, <3>1, CommitEffect, CommitPrivileges DEF Creating
    <3> QED
      BY <1>1, <2>3, <3>1, <3>2, SavedFacts DEF Commit
  <2>4. ASSUME NEW j \in Jobs, Commit(j), a # job[j].target
        PROVE  account'[a] = account[a]
    BY <1>1, <2>4, CommitEffect
  <2> QED
    BY <1>1, <2>2, <2>3, <2>4, OnlyCommitWrites
<1>2. ManagementInv /\ [Next]_vars => [\A a \in Admins : Revokes(a)]_vars
  BY <1>1
<1> HIDE DEF Revokes
<1>3. Spec => [][\A a \in Admins : Revokes(a)]_vars
  BY <1>2, ManagementInvariant, PTL DEF Spec
<1> QED
  BY <1>3 DEF ChangesRevoke, Revokes
=============================================================================
