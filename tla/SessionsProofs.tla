---------------------------- MODULE SessionsProofs ----------------------------
(***************************************************************************)
(* Sessions is correct for any number of accounts, requests and ids.       *)
(***************************************************************************)
EXTENDS Sessions, TLAPS

-----------------------------------------------------------------------------
(* The inductive invariant.  Its parts take the accounts, the ids in use and *)
(* the crossed ids as arguments, to be stated of either state of a step.     *)

\* A session names a known account and no version the account has yet to
\* reach; if it is current it is proved, or was crossed and is no admin's.
Good(x, s, acc, known, cr) ==
  /\ x.owner \in known \cup {None}
  /\ x.owner # None /\ acc[x.owner] # None =>
       /\ x.auth <= acc[x.owner].auth
       /\ x.auth = acc[x.owner].auth /\ x.proof # x.auth => s \in cr /\ x.owner \notin Admins

Proved(x, acc) ==
  x.owner # None /\ acc[x.owner] # None /\ x.auth = acc[x.owner].auth => x.proof = x.auth

\* The document loaded for an own update is of the version of its session,
\* unless that was crossed; if it is found unchanged, so is its authVersion.
DocGood(x, s, d, acc, cr) ==
  /\ d.auth = x.auth \/ (s \in cr /\ x.owner \notin Admins)
  /\ acc[x.owner] # None =>
       /\ d.auth <= acc[x.owner].auth
       /\ d.version <= acc[x.owner].version
       /\ d.version = acc[x.owner].version => d.auth = acc[x.owner].auth

StoreGood(s) ==
  Stored(s) => Good(store[s], s, account, used, crossed) /\ store[s].owner = holder[s]

\* A request that may save under its present id holds a session of its holder.
KeepsId(r) ==
  job[r].at \in {"hydrate", "load", "edit", "save", "check", "remove", "destroy"} =>
    job[r].sid \in Sids /\ holder[job[r].sid] = job[r].sess.owner

HasOwner(r) == job[r].at \in {"load", "edit", "check", "remove"} => job[r].sess.owner # None

JobGood(r) ==
  /\ Good(job[r].sess, job[r].sid, account, used, crossed)
  /\ KeepsId(r)
  /\ HasOwner(r)
  /\ job[r].at = "regenerate" => Proved(job[r].sess, account)
  /\ job[r].at = "edit" => DocGood(job[r].sess, job[r].sid, job[r].doc, account, crossed)

SessionsInv ==
  /\ TypeOK
  /\ \A a \in Accounts : Exists(a) => a \in used
  /\ \A s \in Sids : StoreGood(s)
  /\ \A r \in Requests : JobGood(r)

-----------------------------------------------------------------------------
(* Types *)

LEMMA IdleTypes ==
  ASSUME NEW step \in Steps
  PROVE /\ Idle \in JobState
        /\ [Idle EXCEPT !.at = step] \in JobState
        /\ \A s \in Sids, x \in Session, op \in Ops :
             [Idle EXCEPT !.op = op, !.sid = s, !.at = step, !.sess = x] \in JobState
<1>1. New \in Document /\ Anonymous \in Session
  BY DEF New, Document, Anonymous, Of, Session
<1>2. "none" \in Ops /\ "idle" \in Steps
  BY DEF Ops, Steps
<1>3. Idle \in JobState
  BY <1>1, <1>2 DEF JobState, Idle
<1>4. [Idle EXCEPT !.at = step] \in JobState
  BY <1>3 DEF JobState
<1>5. ASSUME NEW s \in Sids, NEW x \in Session, NEW op \in Ops
      PROVE [Idle EXCEPT !.op = op, !.sid = s, !.at = step, !.sess = x] \in JobState
  BY <1>3 DEF JobState
<1> QED BY <1>3, <1>4, <1>5

LEMMA InitTyped == Init => TypeOK
<1> SUFFICES ASSUME Init PROVE TypeOK
  OBVIOUS
<1> USE SessionsAssumption
<1>1. PICK A \in SUBSET Accounts :
        /\ account = [a \in Accounts |-> IF a \in A THEN New ELSE None]
        /\ used = A
        /\ holder \in [Sids -> A \cup {None, Unused}]
  BY DEF Init
<1>2. account \in [Accounts -> Document \cup {None}]
  BY <1>1 DEF New, Document
<1>3. store \in [Sids -> Session \cup {None}]
  BY <1>1 DEF Init, Of, Session, Fresh
<1>4. Idle \in JobState
  BY IdleTypes DEF Steps
<1>5. job \in [Requests -> JobState]
  BY <1>4 DEF Init
<1> QED
  BY <1>1, <1>2, <1>3, <1>5 DEF TypeOK, Init

\* A request may be given any step and any session.
LEMMA JobTypes ==
  ASSUME NEW j \in JobState, NEW step \in Steps
  PROVE /\ [j EXCEPT !.at = step] \in JobState
        /\ \A x \in Session : [j EXCEPT !.sess = x, !.doc = New, !.at = step] \in JobState
        /\ \A d \in Document : [j EXCEPT !.doc = d, !.at = step] \in JobState
        /\ \A s \in Sids : [j EXCEPT !.sid = s, !.at = step] \in JobState
<1>1. New \in Document
  BY DEF New, Document
<1> QED BY <1>1 DEF JobState

LEMMA StepTyped ==
  ASSUME TypeOK, NEW r \in Requests, JobGood(r), Step(r)
  PROVE TypeOK'
<1> USE SessionsAssumption
<1>a. job[r] \in JobState /\ job[r].sess \in Session /\ job[r].doc \in Document
  BY DEF TypeOK, JobState
<1>b. Anonymous \in Session /\ New \in Document
  BY DEF Anonymous, Of, Session, New, Document
<1>c. \A a \in Accounts : Exists(a) => account[a] \in Document
  BY DEF TypeOK, Exists
<1>d. \A s \in Sids : Stored(s) => store[s] \in Session
  BY DEF TypeOK, Stored
<1>e. \A s : Remove(s) => store' \in [Sids -> Session \cup {None}]
  BY DEF Remove, TypeOK
<1>f. ASSUME NEW step \in Steps, Goto(r, step) PROVE job' \in [Requests -> JobState]
  <2>1. [job[r] EXCEPT !.at = step] \in JobState
    BY <1>a, JobTypes
  <2> QED BY <1>f, <2>1 DEF Goto, TypeOK
<1>g. End(r) => job' \in [Requests -> JobState]
  <2>1. [Idle EXCEPT !.at = "done"] \in JobState
    BY IdleTypes DEF Steps
  <2> QED BY <2>1 DEF End, TypeOK
<1>h. ASSUME NEW x \in Session, NEW step \in Steps, Carry(r, x, step)
      PROVE job' \in [Requests -> JobState]
  <2>1. [job[r] EXCEPT !.sess = x, !.doc = New, !.at = step] \in JobState
    BY <1>a, JobTypes
  <2> QED BY <1>h, <2>1 DEF Carry, TypeOK
<1>i. \A a \in Accounts, d \in Document : Authenticated(a, d) \in Session
  BY DEF Authenticated, Of, Document, Session
<1>1. ASSUME NEW s \in Sids, Arrive(r, s) PROVE TypeOK'
  <2>1. ASSUME NEW op \in Ops, NEW step \in Steps, Begin(r, op, s, step)
        PROVE job' \in [Requests -> JobState]
    <3>1. (IF Stored(s) THEN store[s] ELSE Anonymous) \in Session
      BY <1>b, <1>d
    <3> QED BY <2>1, <3>1, IdleTypes DEF Begin, TypeOK
  <2>2. holder' \in [Sids -> Accounts \cup {None, Unused}]
    BY <1>1 DEF Arrive, ArriveCsrf, ArriveLogin, ArriveSignup, ArriveAuthenticated, TypeOK
  <2>3. \E op \in Ops, step \in Steps : Begin(r, op, s, step)
    BY <1>1 DEF Ops, Steps, Arrive, ArriveCsrf, ArriveLogin, ArriveSignup, ArriveAuthenticated
  <2>4. UNCHANGED <<account, used, store, crossed, closed>>
    BY <2>3 DEF Begin
  <2> QED BY <2>1, <2>2, <2>3, <2>4 DEF TypeOK
<1>2. ASSUME NEW a \in Accounts, Find(r, a) PROVE TypeOK'
  <2>1. Authenticated(a, account[a]) \in Session
    BY <1>2, <1>c, <1>i DEF Find
  <2> QED BY <1>2, <2>1, <1>h DEF Steps, Find, TypeOK
<1>3. ASSUME NEW a \in Accounts, Create(r, a) PROVE TypeOK'
  <2>1. account' \in [Accounts -> Document \cup {None}] /\ used' \in SUBSET Accounts
    BY <1>3, <1>b DEF Create, TypeOK
  <2> QED BY <1>3, <2>1, <1>b, <1>i, <1>h DEF Steps, Create, TypeOK
<1>4. ASSUME Hydrate(r) PROVE TypeOK'
  BY <1>4, <1>f, <1>g DEF Steps, Hydrate, Admit, TypeOK
<1>5. ASSUME Clear(r) PROVE TypeOK'
  BY <1>5, <1>b, <1>e, <1>g, <1>h DEF Steps, Clear, TypeOK
<1>6. ASSUME Load(r) PROVE TypeOK'
  <2>1. job[r].sess.owner \in Accounts /\ job[r].sid \in Sids
    BY <1>6, <1>a DEF Load, JobGood, HasOwner, KeepsId, Session
  <2>2. account[job[r].sess.owner] \in Document
    BY <1>6, <2>1, <1>c DEF Load, MayLoad
  <2>3. job' \in [Requests -> JobState]
    BY <1>6, <2>2, <1>a, JobTypes DEF Steps, Load, TypeOK
  <2>4. crossed' \in SUBSET Sids
    BY <1>6, <2>1 DEF Load, TypeOK
  <2> QED BY <1>6, <2>3, <2>4 DEF Load, TypeOK
<1>7. ASSUME NEW e \in Edits, SaveAccount(r, e) PROVE TypeOK'
  <2>1. Updated(r, e) \in Session
    BY <1>a DEF Updated, Of, Session, Document, Edits
  <2>2. account' \in [Accounts -> Document \cup {None}]
    <3>1. job[r].sess.owner \in Accounts => account[job[r].sess.owner].version \in Nat
      BY <1>7, <1>c DEF SaveAccount, Applies, Document
    <3>2. Updated(r, e).auth \in Nat
      BY <2>1 DEF Session
    <3>3. CASE e.modifies
      <4>1. account' = [account EXCEPT ![job[r].sess.owner] =
                          [auth |-> Updated(r, e).auth, version |-> @.version + 1]]
        BY <1>7, <3>3 DEF SaveAccount
      <4>2. job[r].sess.owner \in Accounts =>
              [auth |-> Updated(r, e).auth,
               version |-> account[job[r].sess.owner].version + 1] \in Document
        BY <3>1, <3>2 DEF Document
      <4> QED BY <4>1, <4>2 DEF TypeOK
    <3>4. CASE ~ e.modifies
      BY <1>7, <3>4 DEF SaveAccount, TypeOK
    <3> QED BY <3>3, <3>4
  <2> QED BY <1>7, <2>1, <2>2, <1>h DEF Steps, SaveAccount, TypeOK
<1>8. ASSUME Regenerate(r) PROVE TypeOK'
  <2>1. PICK s \in Sids : /\ holder' = [holder EXCEPT ![s] = job[r].sess.owner]
                          /\ job' = [job EXCEPT ![r].sid = s, ![r].at = "save"]
    BY <1>8 DEF Regenerate
  <2>2. job' \in [Requests -> JobState]
    BY <2>1, <1>a, JobTypes DEF Steps, TypeOK
  <2>3. holder' \in [Sids -> Accounts \cup {None, Unused}]
    BY <2>1, <1>a DEF TypeOK, Session
  <2> QED BY <1>8, <2>2, <2>3, <1>e DEF Regenerate, TypeOK
<1>9. ASSUME SaveSession(r) PROVE TypeOK'
  BY <1>9, <1>a, <1>g DEF SaveSession, Saved, TypeOK
<1>10. ASSUME CheckOwner(r) PROVE TypeOK'
  BY <1>10, <1>f DEF Steps, CheckOwner, TypeOK
<1>11. ASSUME RemoveOwner(r) PROVE TypeOK'
  BY <1>11, <1>f DEF Steps, RemoveOwner, TypeOK
<1>12. ASSUME Destroy(r) PROVE TypeOK'
  <2>1. job[r].sid \in Sids
    BY <1>12 DEF Destroy, JobGood, KeepsId
  <2> QED BY <1>12, <2>1, <1>e, <1>g DEF Destroy, TypeOK
<1>13. ASSUME Fail(r) PROVE TypeOK'
  BY <1>13, <1>g DEF Fail, TypeOK
<1> QED
  BY <1>1, <1>2, <1>3, <1>4, <1>5, <1>6, <1>7, <1>8, <1>9, <1>10, <1>11, <1>12, <1>13 DEF Step

LEMMA NextTyped == SessionsInv /\ [Next]_vars => TypeOK'
<1> SUFFICES ASSUME SessionsInv, [Next]_vars PROVE TypeOK'
  OBVIOUS
<1>0. TypeOK
  BY DEF SessionsInv
<1>1. ASSUME NEW r \in Requests, Step(r) PROVE TypeOK'
  BY <1>0, <1>1, StepTyped DEF SessionsInv
<1>2. ASSUME NEW a \in Accounts, ChangeElsewhere(a) PROVE TypeOK'
  BY <1>0, <1>2 DEF ChangeElsewhere, TypeOK, Document, Exists
<1>3. ASSUME NEW a \in Accounts, DeleteElsewhere(a) PROVE TypeOK'
  BY <1>0, <1>3 DEF DeleteElsewhere, TypeOK
<1>4. ASSUME NEW s \in Sids, Expire(s) PROVE TypeOK'
  BY <1>0, <1>4 DEF Expire, Remove, TypeOK
<1>5. CASE UNCHANGED vars
  BY <1>0, <1>5 DEF vars, TypeOK
<1> QED
  BY <1>1, <1>2, <1>3, <1>4, <1>5 DEF Next
-----------------------------------------------------------------------------
(* What a step does to the accounts, and what that leaves true *)

AccountMoves(a) ==
  \/ account'[a] = None
  \/ account'[a] = account[a]
  \/ /\ account[a] # None
     /\ account'[a].version = account[a].version + 1
     /\ account'[a].auth \in {account[a].auth, account[a].auth + 1}
  \/ a \notin used

Moves ==
  /\ \A a \in Accounts : AccountMoves(a)
  /\ used \subseteq used'
  /\ crossed \subseteq crossed'

HolderMoves == \A s \in Sids : holder'[s] = holder[s] \/ Fresh(s)

LEMMA StepMoves ==
  ASSUME SessionsInv, [Next]_vars
  PROVE Moves /\ HolderMoves
<1> SUFFICES Moves /\ HolderMoves
  OBVIOUS
<1>a. /\ account \in [Accounts -> Document \cup {None}]
      /\ holder \in [Sids -> Accounts \cup {None, Unused}]
  BY DEF SessionsInv, TypeOK
<1>b. ASSUME UNCHANGED <<account, used>>, crossed \subseteq crossed' PROVE Moves
  BY <1>b DEF Moves, AccountMoves
<1>c. UNCHANGED holder => HolderMoves
  BY DEF HolderMoves
<1>1. ASSUME NEW r \in Requests, NEW s \in Sids, Arrive(r, s) PROVE Moves /\ HolderMoves
  <2>1. UNCHANGED <<account, used, crossed>>
    BY <1>1 DEF Arrive, ArriveCsrf, ArriveLogin, ArriveSignup, ArriveAuthenticated, Begin
  <2>2. HolderMoves
    BY <1>1, <1>a DEF HolderMoves, Arrive, ArriveCsrf, ArriveLogin, ArriveSignup,
                      ArriveAuthenticated
  <2> QED BY <2>1, <2>2, <1>b
<1>2. ASSUME NEW r \in Requests, NEW a \in Accounts, Create(r, a) PROVE Moves /\ HolderMoves
  BY <1>2, <1>a, <1>c DEF Create, Moves, AccountMoves
<1>3. ASSUME NEW r \in Requests, Load(r) PROVE Moves /\ HolderMoves
  BY <1>3, <1>b, <1>c DEF Load
<1>4. ASSUME NEW r \in Requests, NEW e \in Edits, SaveAccount(r, e)
      PROVE Moves /\ HolderMoves
  <2> DEFINE a == job[r].sess.owner
             d == job[r].doc
  <2>1. a # None /\ a \in Accounts /\ d \in Document
    BY <1>4 DEF SessionsInv, JobGood, HasOwner, SaveAccount, TypeOK, JobState, Session
  <2>2. DocGood(job[r].sess, job[r].sid, d, account, crossed)
    BY <1>4 DEF SessionsInv, JobGood, SaveAccount
  <2>3. account[a] \in Document /\ account[a] # None
    BY <1>4, <1>a, <2>1 DEF SaveAccount, Applies, Exists
  <2>4. CASE e.modifies
    <3>1. account[a].auth = d.auth
      BY <1>4, <2>2, <2>3, <2>4 DEF SaveAccount, Applies, DocGood
    <3>2. Updated(r, e).auth \in {d.auth, d.auth + 1}
      BY <2>1 DEF Updated, Of, Document
    <3>3. account' = [account EXCEPT ![a] = [auth |-> Updated(r, e).auth,
                                             version |-> @.version + 1]]
      BY <1>4, <2>4 DEF SaveAccount
    <3>4. \A b \in Accounts : AccountMoves(b)
      BY <3>1, <3>2, <3>3, <2>1, <2>3, <1>a DEF AccountMoves
    <3> QED BY <3>4, <1>4, <1>c DEF SaveAccount, Moves
  <2>5. CASE ~ e.modifies
    BY <1>4, <2>5, <1>b, <1>c DEF SaveAccount
  <2> QED BY <2>4, <2>5
<1>5. ASSUME NEW r \in Requests, Regenerate(r) PROVE Moves /\ HolderMoves
  <2>1. HolderMoves
    BY <1>5, <1>a DEF Regenerate, HolderMoves
  <2> QED BY <1>5, <2>1, <1>b DEF Regenerate
<1>6. ASSUME NEW r \in Requests, RemoveOwner(r) PROVE Moves /\ HolderMoves
  BY <1>6, <1>a, <1>c DEF RemoveOwner, Moves, AccountMoves
<1>7. ASSUME NEW r \in Requests,
             \/ Hydrate(r) \/ Clear(r) \/ SaveSession(r) \/ CheckOwner(r) \/ Destroy(r)
             \/ Fail(r) \/ \E a \in Accounts : Find(r, a)
      PROVE Moves /\ HolderMoves
  <2>1. UNCHANGED <<account, used, holder, crossed>>
    BY <1>7 DEF Hydrate, Clear, SaveSession, CheckOwner, Destroy, Fail, Find
  <2> QED BY <2>1, <1>b, <1>c
<1>8. ASSUME NEW a \in Accounts, ChangeElsewhere(a) PROVE Moves /\ HolderMoves
  BY <1>8, <1>a, <1>c DEF ChangeElsewhere, Exists, Document, Moves, AccountMoves
<1>9. ASSUME NEW a \in Accounts, DeleteElsewhere(a) PROVE Moves /\ HolderMoves
  BY <1>9, <1>a, <1>c DEF DeleteElsewhere, Moves, AccountMoves
<1>10. ASSUME NEW s \in Sids, Expire(s) PROVE Moves /\ HolderMoves
  BY <1>10, <1>b, <1>c DEF Expire
<1>11. CASE UNCHANGED vars
  BY <1>11, <1>b, <1>c DEF vars
<1> QED
  BY <1>1, <1>2, <1>3, <1>4, <1>5, <1>6, <1>7, <1>8, <1>9, <1>10, <1>11 DEF Next, Step

\* A good session stays good, a proved one proved, a loaded document good:
\* another authVersion is one that no session and no document has yet.
LEMMA GoodKept ==
  ASSUME TypeOK, TypeOK', Moves,
         NEW x \in Session, NEW s, Good(x, s, account, used, crossed)
  PROVE Good(x, s, account', used', crossed')
<1>1. x.owner \in used' \cup {None}
  BY DEF Good, Moves
<1>2. ASSUME x.owner # None, account'[x.owner] # None
      PROVE /\ x.auth <= account'[x.owner].auth
            /\ x.auth = account'[x.owner].auth /\ x.proof # x.auth
                 => s \in crossed' /\ x.owner \notin Admins
  <2>1. x.owner \in Accounts /\ x.owner \in used /\ AccountMoves(x.owner)
    BY <1>2 DEF Good, Moves, Session
  <2>2. CASE account'[x.owner] = account[x.owner]
    BY <1>2, <2>2 DEF Good, Moves
  <2>3. CASE /\ account[x.owner] # None
             /\ account'[x.owner].auth \in {account[x.owner].auth, account[x.owner].auth + 1}
    <3>1. x.auth \in Nat /\ account[x.owner].auth \in Nat
      BY <2>1, <2>3 DEF Session, TypeOK, Document
    <3> QED BY <1>2, <2>3, <3>1 DEF Good, Moves
  <2> QED BY <1>2, <2>1, <2>2, <2>3 DEF AccountMoves
<1> QED BY <1>1, <1>2 DEF Good

LEMMA ProvedKept ==
  ASSUME TypeOK, TypeOK', Moves, NEW x \in Session, NEW s,
         Good(x, s, account, used, crossed), Proved(x, account)
  PROVE Proved(x, account')
<1> SUFFICES ASSUME x.owner # None, account'[x.owner] # None,
                    x.auth = account'[x.owner].auth
             PROVE x.proof = x.auth
  BY DEF Proved
<1>1. x.owner \in Accounts /\ x.owner \in used /\ AccountMoves(x.owner)
  BY DEF Good, Moves, Session
<1>2. CASE account'[x.owner] = account[x.owner]
  BY <1>2 DEF Proved
<1>3. CASE /\ account[x.owner] # None
           /\ account'[x.owner].auth \in {account[x.owner].auth, account[x.owner].auth + 1}
  <2>1. x.auth \in Nat /\ account[x.owner].auth \in Nat
    BY <1>1, <1>3 DEF Session, TypeOK, Document
  <2> QED BY <1>3, <2>1 DEF Good, Proved
<1> QED BY <1>1, <1>2, <1>3 DEF AccountMoves

LEMMA DocKept ==
  ASSUME TypeOK, TypeOK', Moves, NEW x \in Session, NEW s, NEW d \in Document,
         x.owner # None, Good(x, s, account, used, crossed), DocGood(x, s, d, account, crossed)
  PROVE DocGood(x, s, d, account', crossed')
<1>1. d.auth = x.auth \/ (s \in crossed' /\ x.owner \notin Admins)
  BY DEF DocGood, Moves
<1>2. ASSUME account'[x.owner] # None
      PROVE /\ d.auth <= account'[x.owner].auth
            /\ d.version <= account'[x.owner].version
            /\ d.version = account'[x.owner].version => d.auth = account'[x.owner].auth
  <2>1. x.owner \in Accounts /\ x.owner \in used /\ AccountMoves(x.owner)
    BY DEF Good, Moves, Session
  <2>2. CASE account'[x.owner] = account[x.owner]
    BY <1>2, <2>2 DEF DocGood
  <2>3. CASE /\ account[x.owner] # None
             /\ account'[x.owner].version = account[x.owner].version + 1
             /\ account'[x.owner].auth \in {account[x.owner].auth, account[x.owner].auth + 1}
    <3>1. account[x.owner] \in [auth : Nat, version : Nat] /\ d.auth \in Nat /\ d.version \in Nat
      BY <2>1, <2>3 DEF TypeOK, Document
    <3> QED BY <2>3, <3>1 DEF DocGood
  <2> QED BY <1>2, <2>1, <2>2, <2>3 DEF AccountMoves
<1> QED BY <1>1, <1>2 DEF DocGood

-----------------------------------------------------------------------------
(* The invariant is kept *)

LEMMA InitGood == Init => SessionsInv
<1> SUFFICES ASSUME Init PROVE SessionsInv
  OBVIOUS
<1>1. TypeOK
  BY InitTyped
<1>2. PICK A \in SUBSET Accounts :
        /\ account = [a \in Accounts |-> IF a \in A THEN New ELSE None]
        /\ used = A
        /\ holder \in [Sids -> A \cup {None, Unused}]
  BY DEF Init
<1>3. \A a \in Accounts : Exists(a) => a \in used
  BY <1>2 DEF Exists
<1>4. ASSUME NEW s \in Sids, Stored(s) PROVE StoreGood(s)
  <2>1. store[s] = Of(holder[s], 0, 0) /\ ~ Fresh(s)
    BY <1>4 DEF Init, Stored
  <2>2. holder[s] \in A \cup {None}
    BY <1>2, <2>1 DEF Fresh
  <2>3. holder[s] # None => account[holder[s]] = New
    BY <1>2, <2>2
  <2> QED BY <1>2, <2>1, <2>2, <2>3 DEF StoreGood, Good, Of, New
<1>5. ASSUME NEW r \in Requests PROVE JobGood(r)
  <2>1. job[r] = Idle
    BY DEF Init
  <2>2. job[r].at = "idle" /\ job[r].sess.owner = None
    BY <2>1 DEF Idle, Anonymous, Of
  <2> QED BY <2>2 DEF JobGood, Good, KeepsId, HasOwner
<1> QED
  BY <1>1, <1>3, <1>4, <1>5 DEF SessionsInv, StoreGood

\* A request that a step leaves alone stays good.
LEMMA OthersGood ==
  ASSUME SessionsInv, TypeOK', Moves, HolderMoves, NEW q \in Requests, job'[q] = job[q]
  PROVE JobGood(q)'
<1> DEFINE x == job[q].sess
           s == job[q].sid
<1> USE SessionsAssumption
<1>1. TypeOK /\ JobGood(q)
  BY DEF SessionsInv
<1>2. x \in Session /\ job[q].doc \in Document
  BY <1>1 DEF TypeOK, JobState
<1>3. Good(x, s, account', used', crossed')
  BY <1>1, <1>2, GoodKept DEF JobGood
<1>4. job[q].at = "regenerate" => Proved(x, account')
  BY <1>1, <1>2, ProvedKept DEF JobGood
<1>5. job[q].at = "edit" => DocGood(x, s, job[q].doc, account', crossed')
  BY <1>1, <1>2, DocKept DEF JobGood, HasOwner
<1>6. KeepsId(q)'
  BY <1>1, <1>2 DEF JobGood, KeepsId, HolderMoves, Fresh, Session, Accounts
<1>7. HasOwner(q)'
  BY <1>1 DEF JobGood, HasOwner
<1> QED BY <1>3, <1>4, <1>5, <1>6, <1>7 DEF JobGood

\* A session that a step leaves in the store stays good.
LEMMA StoredGood ==
  ASSUME SessionsInv, TypeOK', Moves, HolderMoves, NEW s \in Sids, store'[s] \in {store[s], None}
  PROVE StoreGood(s)'
<1> SUFFICES ASSUME store'[s] # None PROVE StoreGood(s)'
  BY DEF StoreGood, Stored
<1>1. TypeOK /\ Stored(s) /\ StoreGood(s) /\ store[s] \in Session
  BY DEF SessionsInv, TypeOK, Stored
<1>2. Good(store[s], s, account', used', crossed')
  BY <1>1, GoodKept DEF StoreGood
<1>3. store[s].owner = holder'[s]
  BY <1>1, SessionsAssumption DEF StoreGood, HolderMoves, Fresh, Session, Accounts
<1> QED BY <1>2, <1>3 DEF StoreGood

\* A request that ends or has not begun has an empty session.
LEMMA EndGood ==
  ASSUME TypeOK, TypeOK', NEW r \in Requests, End(r)
  PROVE JobGood(r)'
<1>1. job'[r] = [Idle EXCEPT !.at = "done"]
  BY DEF End, TypeOK
<1>2. job'[r].at = "done" /\ job'[r].sess.owner = None
  BY <1>1 DEF Idle, Anonymous, Of
<1> QED BY <1>2 DEF JobGood, Good, KeepsId, HasOwner

\* The session a request is given, and where it goes on.
LEMMA CarryGood ==
  ASSUME TypeOK, TypeOK', NEW r \in Requests, NEW x \in Session,
         NEW step \in {"create", "regenerate", "save"}, Carry(r, x, step),
         Good(x, job[r].sid, account', used', crossed'),
         step = "regenerate" => Proved(x, account'),
         step = "save" => job[r].sid \in Sids /\ holder'[job[r].sid] = x.owner
  PROVE JobGood(r)'
<1>1. job'[r] = [job[r] EXCEPT !.sess = x, !.doc = New, !.at = step]
  BY DEF Carry, TypeOK
<1>2. job[r] \in JobState
  BY DEF TypeOK
<1>3. job'[r].sess = x /\ job'[r].sid = job[r].sid /\ job'[r].at = step
  BY <1>1, <1>2 DEF JobState
<1> QED BY <1>3 DEF JobGood, KeepsId, HasOwner

\* A request that only goes on stays good if the next step asks no more.
LEMMA GotoGood ==
  ASSUME SessionsInv, TypeOK', Moves, UNCHANGED holder, NEW r \in Requests,
         job[r].at \in {"hydrate", "check", "remove"}, NEW step \in {"clear", "load", "check",
                                                                     "remove", "destroy"},
         Goto(r, step), step \in {"load", "check", "remove"} => job[r].sess.owner # None
  PROVE JobGood(r)'
<1>1. TypeOK /\ JobGood(r) /\ job[r] \in JobState
  BY DEF SessionsInv, TypeOK
<1>2. job'[r] = [job[r] EXCEPT !.at = step]
  BY <1>1 DEF Goto, TypeOK
<1>3. job'[r].sess = job[r].sess /\ job'[r].sid = job[r].sid /\ job'[r].at = step
  BY <1>1, <1>2 DEF JobState
<1>4. Good(job[r].sess, job[r].sid, account', used', crossed')
  BY <1>1, GoodKept DEF JobGood, JobState
<1>5. job[r].sid \in Sids /\ holder'[job[r].sid] = job[r].sess.owner
  BY <1>1 DEF JobGood, KeepsId
<1> QED BY <1>3, <1>4, <1>5 DEF JobGood, KeepsId, HasOwner

\* The step of a request leaves the request good.
LEMMA MoverGood ==
  ASSUME SessionsInv, TypeOK', Moves, HolderMoves, NEW r \in Requests, Step(r)
  PROVE JobGood(r)'
<1> USE SessionsAssumption
<1>a. TypeOK /\ JobGood(r) /\ job[r] \in JobState
  BY DEF SessionsInv, TypeOK
<1>b. job[r].sess \in Session /\ job[r].doc \in Document
  BY <1>a DEF JobState
<1>c. Anonymous \in Session /\ Anonymous.owner = None /\ New \in Document
  BY DEF Anonymous, Of, Session, New, Document
<1>d. End(r) => JobGood(r)'
  BY <1>a, EndGood
<1>1. ASSUME NEW s \in Sids, Arrive(r, s) PROVE JobGood(r)'
  <2>1. PICK op \in Ops, step \in {"save", "find", "create", "hydrate"} : Begin(r, op, s, step)
    BY <1>1 DEF Ops, Arrive, ArriveCsrf, ArriveLogin, ArriveSignup, ArriveAuthenticated
  <2> DEFINE x == IF Stored(s) THEN store[s] ELSE Anonymous
  <2>2. job'[r] = [Idle EXCEPT !.op = op, !.sid = s, !.at = step, !.sess = x]
    BY <1>a, <2>1 DEF Begin, TypeOK
  <2>3. job'[r].sess = x /\ job'[r].sid = s /\ job'[r].at = step
    BY <2>2 DEF Idle
  <2>4. UNCHANGED <<account, used, crossed>>
    BY <2>1 DEF Begin
  <2>5. Good(x, s, account, used, crossed)
    BY <1>c DEF Good, SessionsInv, StoreGood
  <2>6. CASE Stored(s)
    <3>1. holder[s] = x.owner /\ ~ Fresh(s)
      <4>1. x.owner \in Accounts \cup {None}
        BY <2>6, <1>a DEF TypeOK, Stored, Session
      <4> QED BY <2>6, <4>1 DEF SessionsInv, StoreGood, Fresh, Accounts
    <3>2. holder'[s] = x.owner
      BY <3>1 DEF HolderMoves
    <3> QED BY <2>3, <2>4, <2>5, <3>2 DEF JobGood, KeepsId, HasOwner
  <2>7. CASE ~ Stored(s)
    <3>1. holder'[s] = None
      BY <1>1, <1>a, <2>7 DEF Arrive, ArriveCsrf, ArriveLogin, ArriveSignup,
                              ArriveAuthenticated, Loads, TypeOK
    <3> QED BY <2>3, <2>4, <2>5, <2>7, <3>1, <1>c DEF JobGood, KeepsId, HasOwner
  <2> QED BY <2>6, <2>7
<1>2. ASSUME NEW a \in Accounts, Find(r, a) PROVE JobGood(r)'
  <2> DEFINE x == Authenticated(a, account[a])
  <2>1. account[a] \in Document /\ a \in used /\ a # None /\ a # Unused
    BY <1>2, <1>a DEF Find, Exists, TypeOK, SessionsInv, Accounts
  <2>2. x \in Session /\ x.owner = a /\ x.auth = account[a].auth /\ x.proof = x.auth
    BY <2>1 DEF Authenticated, Of, Session, Document
  <2>3. x.auth <= account[a].auth
    BY <2>1, <2>2 DEF Document
  <2>4. Good(x, job[r].sid, account', used', crossed') /\ Proved(x, account')
    BY <1>2, <2>1, <2>2, <2>3 DEF Find, Good, Proved
  <2> QED BY <1>2, <1>a, <2>2, <2>4, CarryGood DEF Find
<1>3. ASSUME NEW a \in Accounts, Create(r, a) PROVE JobGood(r)'
  <2> DEFINE x == Authenticated(a, New)
  <2>1. account'[a] = New /\ a \in used'
    BY <1>3, <1>a DEF Create, TypeOK
  <2>2. x \in Session /\ x.owner = a /\ x.auth = 0 /\ x.proof = 0
    BY DEF Authenticated, Of, Session, New
  <2>3. Good(x, job[r].sid, account', used', crossed') /\ Proved(x, account')
    BY <2>1, <2>2 DEF Good, Proved, New
  <2> QED BY <1>3, <1>a, <2>2, <2>3, CarryGood DEF Create
<1>4. ASSUME Hydrate(r) PROVE JobGood(r)'
  <2>1. UNCHANGED holder /\ job[r].at = "hydrate"
    BY <1>4 DEF Hydrate
  <2>2. \/ End(r) \/ Goto(r, "clear")
        \/ job[r].sess.owner # None /\ (\E step \in {"destroy", "check", "load"} : Goto(r, step))
    BY <1>4 DEF Hydrate, Admit, Current
  <2> QED BY <1>d, <2>1, <2>2, GotoGood
<1>5. ASSUME Clear(r) PROVE JobGood(r)'
  <2>1. Good(Anonymous, job[r].sid, account', used', crossed')
    BY <1>c DEF Good
  <2> QED BY <1>5, <1>a, <1>c, <1>d, <2>1, CarryGood DEF Clear
<1>6. ASSUME Load(r) PROVE JobGood(r)'
  <2> DEFINE x == job[r].sess
             d == account[x.owner]
             s == job[r].sid
  <2>1. x.owner # None /\ s \in Sids /\ holder'[s] = x.owner /\ d # None
    BY <1>6, <1>a DEF Load, MayLoad, Exists, JobGood, KeepsId, HasOwner
  <2>2. d \in Document
    BY <2>1, <1>a, <1>b DEF Session, TypeOK
  <2>3. job'[r] = [job[r] EXCEPT !.doc = d, !.at = "edit"]
    BY <1>6, <1>a DEF Load, TypeOK
  <2>4. job'[r].sess = x /\ job'[r].sid = s /\ job'[r].at = "edit" /\ job'[r].doc = d
    BY <2>3, <1>a DEF JobState
  <2>5. Good(x, s, account', used', crossed')
    BY <1>a, <1>b, GoodKept DEF JobGood
  <2>6. d.auth = x.auth \/ (s \in crossed' /\ x.owner \notin Admins)
    BY <1>6, <2>1 DEF Load, MayLoad, Current, Exists
  <2>7. DocGood(x, s, d, account', crossed')
    BY <1>6, <2>2, <2>6 DEF Load, DocGood, Document
  <2> QED BY <2>1, <2>4, <2>5, <2>7 DEF JobGood, KeepsId, HasOwner
<1>7. ASSUME NEW e \in Edits, SaveAccount(r, e) PROVE JobGood(r)'
  <2> DEFINE x == job[r].sess
             d == job[r].doc
             s == job[r].sid
             y == Updated(r, e)
             more == IF e.bumps THEN 1 ELSE 0
  <2>1. /\ x.owner # None /\ x.owner \in Accounts /\ s \in Sids /\ holder[s] = x.owner
        /\ Good(x, s, account, used, crossed) /\ DocGood(x, s, d, account, crossed)
    BY <1>7, <1>a, <1>b DEF SaveAccount, JobGood, KeepsId, HasOwner, Session
  <2>2. account[x.owner] # None /\ account[x.owner] \in Document
    BY <1>7, <1>a, <2>1 DEF SaveAccount, Applies, Exists, TypeOK
  <2>3. /\ y \in Session /\ y.owner = x.owner /\ y.auth = d.auth + more
        /\ y.proof = IF e.proves THEN y.auth ELSE x.proof + more
    BY <1>b DEF Updated, Of, Session, Document
  <2>4. account'[x.owner] = IF e.modifies
                              THEN [auth |-> y.auth, version |-> account[x.owner].version + 1]
                              ELSE account[x.owner]
    BY <1>7, <1>a, <2>1 DEF SaveAccount, TypeOK
  <2>5. e.modifies => d.auth = account[x.owner].auth
    BY <1>7, <2>1, <2>2 DEF SaveAccount, Applies, DocGood
  <2>6. ~ e.modifies => more = 0
    BY DEF Edits
  <2>7. y.auth <= account'[x.owner].auth
    <3>1. CASE e.modifies
      BY <2>3, <2>4, <3>1 DEF Session
    <3>2. CASE ~ e.modifies
      <4>1. y.auth = d.auth
        BY <2>3, <2>6, <3>2, <1>b DEF Document
      <4> QED BY <2>1, <2>2, <2>4, <3>2, <4>1 DEF DocGood
    <3> QED BY <3>1, <3>2
  <2>8. ASSUME y.auth = account'[x.owner].auth, y.proof # y.auth
        PROVE s \in crossed /\ x.owner \notin Admins
    <3>1. d.auth = account[x.owner].auth
      BY <2>3, <2>4, <2>5, <2>6, <2>8, <2>2, <1>b DEF Document
    <3>2. x.proof # d.auth
      BY <2>3, <2>8, <1>b DEF Session, Document
    <3>3. CASE d.auth = x.auth
      BY <2>1, <2>2, <3>1, <3>2, <3>3 DEF Good
    <3>4. CASE d.auth # x.auth
      BY <2>1, <3>4 DEF DocGood
    <3> QED BY <3>3, <3>4
  <2>9. UNCHANGED <<used, holder, crossed>>
    BY <1>7 DEF SaveAccount
  <2>10. Good(y, s, account', used', crossed')
    BY <2>1, <2>3, <2>7, <2>8, <2>9 DEF Good
  <2>11. e.proves => Proved(y, account')
    BY <2>3 DEF Proved
  <2>12. Carry(r, y, IF e.proves THEN "regenerate" ELSE "save")
    BY <1>7 DEF SaveAccount
  <2>13. CASE e.proves
    BY <1>a, <2>3, <2>10, <2>11, <2>12, <2>13, CarryGood
  <2>14. CASE ~ e.proves
    BY <1>a, <2>1, <2>3, <2>9, <2>10, <2>12, <2>14, CarryGood
  <2> QED BY <2>13, <2>14
<1>8. ASSUME Regenerate(r) PROVE JobGood(r)'
  <2>1. PICK s \in Sids : /\ holder' = [holder EXCEPT ![s] = job[r].sess.owner]
                          /\ job' = [job EXCEPT ![r].sid = s, ![r].at = "save"]
    BY <1>8 DEF Regenerate
  <2>2. job'[r] = [job[r] EXCEPT !.sid = s, !.at = "save"]
    BY <2>1, <1>a DEF TypeOK
  <2>3. job'[r].sess = job[r].sess /\ job'[r].sid = s /\ job'[r].at = "save"
    BY <2>2, <1>a DEF JobState
  <2>4. holder'[s] = job[r].sess.owner
    BY <2>1, <1>a DEF TypeOK
  <2>5. UNCHANGED <<account, used, crossed>>
    BY <1>8 DEF Regenerate
  <2>6. Proved(job[r].sess, account) /\ Good(job[r].sess, job[r].sid, account, used, crossed)
    BY <1>8, <1>a DEF Regenerate, JobGood
  <2>7. Good(job[r].sess, s, account', used', crossed')
    BY <2>5, <2>6 DEF Good, Proved
  <2> QED BY <2>3, <2>4, <2>7 DEF JobGood, KeepsId, HasOwner
<1>9. ASSUME CheckOwner(r) PROVE JobGood(r)'
  <2>1. UNCHANGED holder /\ job[r].at = "check" /\ Goto(r, "remove") /\ job[r].sess.owner # None
    BY <1>9 DEF CheckOwner, Current
  <2> QED BY <2>1, GotoGood
<1>10. ASSUME RemoveOwner(r) PROVE JobGood(r)'
  <2>1. UNCHANGED holder /\ job[r].at = "remove" /\ Goto(r, "destroy")
    BY <1>10 DEF RemoveOwner
  <2> QED BY <2>1, GotoGood
<1>11. ASSUME SaveSession(r) \/ Destroy(r) \/ Fail(r) PROVE JobGood(r)'
  BY <1>11, <1>d DEF SaveSession, Destroy, Fail
<1> QED
  BY <1>1, <1>2, <1>3, <1>4, <1>5, <1>6, <1>7, <1>8, <1>9, <1>10, <1>11 DEF Step

\* The step of a request changes no other request.
LEMMA OneMoves ==
  ASSUME TypeOK, NEW r \in Requests, Step(r), NEW q \in Requests, q # r
  PROVE job'[q] = job[q]
BY DEF TypeOK, Step, Arrive, ArriveCsrf, ArriveLogin, ArriveSignup, ArriveAuthenticated, Begin,
       Find, Create, Hydrate, Admit, Clear, Load, SaveAccount, Regenerate, SaveSession,
       CheckOwner, RemoveOwner, Destroy, Fail, Goto, Carry, End

\* Only a save puts something into the store.
LEMMA StoreMoves ==
  ASSUME TypeOK, NEW r \in Requests, Step(r), NEW s \in Sids
  PROVE store'[s] \in {store[s], None} \/ (SaveSession(r) /\ job[r].sid = s)
<1>1. Remove(job[r].sid) => store'[s] \in {store[s], None}
  BY DEF Remove, TypeOK
<1>2. CASE SaveSession(r)
  BY <1>2 DEF SaveSession, TypeOK
<1>3. CASE UNCHANGED store
  BY <1>3
<1> QED
  BY <1>1, <1>2, <1>3 DEF Step, Arrive, ArriveCsrf, ArriveLogin, ArriveSignup,
       ArriveAuthenticated, Begin, Find, Create, Hydrate, Clear, Load, SaveAccount, Regenerate,
       CheckOwner, RemoveOwner, Destroy, Fail

LEMMA InvKept == SessionsInv /\ [Next]_vars => SessionsInv'
<1> SUFFICES ASSUME SessionsInv, [Next]_vars PROVE SessionsInv'
  OBVIOUS
<1>1. TypeOK /\ TypeOK' /\ Moves /\ HolderMoves
  BY NextTyped, StepMoves DEF SessionsInv
<1>2. \A a \in Accounts : Exists(a)' => a \in used'
  <2>1. ASSUME NEW r \in Requests, NEW a \in Accounts, Create(r, a)
        PROVE \A b \in Accounts : Exists(b)' => b \in used'
    BY <2>1, <1>1 DEF Create, SessionsInv, Exists, TypeOK
  <2>2. ASSUME \A a \in Accounts : account'[a] # None => account[a] # None
        PROVE \A a \in Accounts : Exists(a)' => a \in used'
    BY <2>2, <1>1 DEF SessionsInv, Exists, Moves
  <2>3. ASSUME NEW r \in Requests, NEW e \in Edits, SaveAccount(r, e)
        PROVE \A a \in Accounts : account'[a] # None => account[a] # None
    BY <2>3, <1>1 DEF SaveAccount, Applies, Exists, TypeOK
  <2>4. ASSUME NEW r \in Requests, RemoveOwner(r)
        PROVE \A a \in Accounts : account'[a] # None => account[a] # None
    BY <2>4, <1>1 DEF RemoveOwner, TypeOK
  <2>5. ASSUME NEW a \in Accounts, ChangeElsewhere(a) \/ DeleteElsewhere(a)
        PROVE \A b \in Accounts : account'[b] # None => account[b] # None
    <3>1. account[a] # None /\ \A b \in Accounts : b # a => account'[b] = account[b]
      BY <2>5, <1>1 DEF ChangeElsewhere, DeleteElsewhere, Exists, TypeOK
    <3> QED BY <3>1
  <2>6. ASSUME NEW r \in Requests, Step(r)
        PROVE \/ UNCHANGED account \/ RemoveOwner(r)
              \/ (\E a \in Accounts : Create(r, a)) \/ (\E e \in Edits : SaveAccount(r, e))
    <3>1. (\E s \in Sids : Arrive(r, s)) => UNCHANGED account
      BY DEF Arrive, ArriveCsrf, ArriveLogin, ArriveSignup, ArriveAuthenticated, Begin
    <3> QED
      BY <2>6, <3>1 DEF Step, Find, Hydrate, Clear, Load, Regenerate, SaveSession, CheckOwner,
                        Destroy, Fail
  <2>7. ASSUME NEW r \in Requests, Step(r)
        PROVE \A a \in Accounts : Exists(a)' => a \in used'
    <3>1. CASE UNCHANGED account
      BY <2>2, <3>1
    <3>2. CASE RemoveOwner(r)
      BY <2>2, <2>4, <3>2
    <3>3. CASE \E a \in Accounts : Create(r, a)
      BY <2>1, <3>3
    <3>4. CASE \E e \in Edits : SaveAccount(r, e)
      BY <2>2, <2>3, <3>4
    <3> QED BY <2>6, <2>7, <3>1, <3>2, <3>3, <3>4
  <2>8. (\E s \in Sids : Expire(s)) \/ UNCHANGED vars => UNCHANGED account
    BY DEF Expire, vars
  <2>9. UNCHANGED account => \A a \in Accounts : Exists(a)' => a \in used'
    BY <2>2
  <2> QED
    BY <2>2, <2>5, <2>7, <2>8, <2>9 DEF Next
<1>3. ASSUME NEW r \in Requests, Step(r)
      PROVE (\A s \in Sids : StoreGood(s)') /\ (\A q \in Requests : JobGood(q)')
  <2>1. ASSUME NEW q \in Requests PROVE JobGood(q)'
    BY <1>1, <1>3, MoverGood, OneMoves, OthersGood
  <2>2. ASSUME NEW s \in Sids PROVE StoreGood(s)'
    <3>1. CASE store'[s] \in {store[s], None}
      BY <1>1, <3>1, StoredGood
    <3>2. CASE SaveSession(r) /\ job[r].sid = s
      <4>1. store'[s] = job[r].sess /\ UNCHANGED <<account, used, holder, crossed>>
        BY <1>1, <3>2 DEF SaveSession, Saved, TypeOK
      <4>2. /\ Good(job[r].sess, s, account, used, crossed)
            /\ holder[s] = job[r].sess.owner
        BY <3>2 DEF SessionsInv, JobGood, KeepsId, SaveSession
      <4> QED BY <4>1, <4>2 DEF StoreGood
    <3> QED BY <1>1, <1>3, <3>1, <3>2, StoreMoves
  <2> QED BY <2>1, <2>2
<1>4. ASSUME UNCHANGED job, \A s \in Sids : store'[s] \in {store[s], None}
      PROVE (\A s \in Sids : StoreGood(s)') /\ (\A q \in Requests : JobGood(q)')
  BY <1>1, <1>4, OthersGood, StoredGood
<1>5. ASSUME NEW a \in Accounts, ChangeElsewhere(a) \/ DeleteElsewhere(a)
      PROVE UNCHANGED job /\ \A s \in Sids : store'[s] \in {store[s], None}
  BY <1>5 DEF ChangeElsewhere, DeleteElsewhere
<1>6. ASSUME NEW s \in Sids, Expire(s)
      PROVE UNCHANGED job /\ \A t \in Sids : store'[t] \in {store[t], None}
  BY <1>1, <1>6 DEF Expire, Remove, TypeOK
<1>7. ASSUME UNCHANGED vars
      PROVE UNCHANGED job /\ \A s \in Sids : store'[s] \in {store[s], None}
  BY <1>7 DEF vars
<1>8. (\A s \in Sids : StoreGood(s)') /\ (\A q \in Requests : JobGood(q)')
  BY <1>3, <1>4, <1>5, <1>6, <1>7 DEF Next
<1> QED
  BY <1>1, <1>2, <1>8 DEF SessionsInv

-----------------------------------------------------------------------------
(* Theorems *)

LEMMA InvAlways == Spec => []SessionsInv
<1> QED BY InitGood, InvKept, PTL DEF Spec

\* The variables keep their types.
THEOREM SessionsTyped == Spec => []TypeOK
<1>1. SessionsInv => TypeOK
  BY DEF SessionsInv
<1> QED BY <1>1, InvAlways, PTL

\* A valid session of an admin belongs to a client that proved the admin's
\* present credentials: updateAdmin compares the version inside the lock.
THEOREM AdminSessionsAreProved == Spec => []AdminSessionsProved
<1>1. SessionsInv => AdminSessionsProved
  BY DEF SessionsInv, AdminSessionsProved, StoreGood, Good, Current, Exists
<1> QED BY <1>1, InvAlways, PTL

\* A valid session of any account that is not proved was revived by an own
\* update that crossed the change of the credentials.
THEOREM OnlyCrossingsRevive == Spec => []UnprovedWasCrossed
<1>1. SessionsInv => UnprovedWasCrossed
  BY DEF SessionsInv, UnprovedWasCrossed, StoreGood, Good, Current, Exists
<1> QED BY <1>1, InvAlways, PTL

\* An id is stored only for whom it was generated for: no session is fixed
\* before a login or sign-up.
THEOREM IdsAreKept == Spec => []IdsKeepOwner
<1>1. SessionsInv => IdsKeepOwner
  BY DEF SessionsInv, IdsKeepOwner, StoreGood
<1> QED BY <1>1, InvAlways, PTL
=============================================================================
