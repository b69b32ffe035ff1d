----------------------------- MODULE BrowserProofs -----------------------------
(***************************************************************************)
(* Proofs about the pages of the browser, part by part: each has an        *)
(* inductive invariant, which the steps of the other parts leave alone,    *)
(* and the properties that follow from it are those of module Browser.     *)
(***************************************************************************)
EXTENDS Browser, Sequences, TLAPS, FiniteSetTheorems, SequenceTheorems

-----------------------------------------------------------------------------
(* The administrator's page *)

AdminCall == [stage : {"none", "sent", "answered", "refreshing"}, stale : BOOLEAN,
              answer : {"none", "ok", "denied", "lost", "manager", "plain"}]
AdminAction == [call : AdminCall, kind : Page!Kinds, rest : Seq(Page!Directories)]

\* Stronger than TypeOK by the shape of the records, and by what has been begun
\* bounding what has been changed.
AdminTypes ==
  /\ apManager \in BOOLEAN /\ apSession \in BOOLEAN /\ apShown \in BOOLEAN
  /\ apDraft \in 0 .. AdminEdits /\ apCreated \subseteq 1 .. AdminEdits
  /\ apAction \in AdminAction /\ Len(apAction.rest) <= 2 /\ apProfile \in AdminCall
  /\ apListed \in [Page!Directories -> 0 .. AdminActions]
  /\ apAltered \in [Page!Directories -> 0 .. AdminActions]
  /\ apLoads \in [Page!Directories -> [stage : {"none", "sent", "answered", "denied"},
                                       seen : 0 .. AdminActions, awaited : BOOLEAN]]
  /\ apBegun \in 0 .. AdminActions /\ apTyped \in 0 .. AdminEdits
  /\ apOthers \in 0 .. AdminElsewhere /\ apLost \in 0 .. AdminLosses
  /\ apAction.call.stage = "sent" =>
       /\ \A d \in Page!Directories : apAltered[d] < apBegun
       /\ apAction.call.answer = "none"
  /\ \A d \in Page!Directories : apAltered[d] <= apBegun

\* Given up by the account itself, with an answer that is still to be read.
GivenUp ==
  /\ apAction.kind = "own" /\ apAction.call.stage = "answered" /\ apAction.call.answer = "ok"

\* The privilege is shown for as long as the server knows it, so what is typed for
\* a new administrator stays while its creation may still be carried out.
ManagerShown ==
  /\ apSession /\ apManager => apShown /\ (apProfile.stage = "answered" => apProfile.answer # "plain")
  /\ GivenUp => ~(apSession /\ apManager)
  /\ apDraft # 0 => apShown
  /\ apAction.kind = "create" =>
       /\ apAction.call.stage = "sent" /\ apSession /\ apManager => apDraft # 0
       /\ apAction.call.stage = "answered" /\ apAction.call.answer = "ok" => apDraft \in apCreated \cup {0}

\* Without interference a privilege shown in vain, and a session that moved on under
\* an action, are the work of the account giving up its own privilege.
Undisturbed ==
  /\ apSession
  /\ apManager => apShown
  /\ apProfile.stage = "answered" /\ apProfile.answer = "plain" => ~apManager
  /\ apProfile.stage = "answered" /\ apProfile.answer = "manager" /\ ~apProfile.stale => apShown
  /\ apShown /\ ~apManager => GivenUp /\ ~apAction.call.stale
  /\ apAction.call.stale => GivenUp /\ ~apShown

\* A directory shows what was changed in it, or will: a load has seen it or is still
\* to be served, or the action is about to ask for one.
Follows(d) ==
  \/ apLoads[d].stage = "none" /\ apListed[d] = apAltered[d]
  \/ apLoads[d].stage = "sent"
  \/ apLoads[d].stage = "answered" /\ apLoads[d].seen = apAltered[d]
  \/ /\ apAction.call.stage = "answered" /\ apAction.call.answer = "ok" /\ ~apAction.call.stale
     /\ \E i \in 1 .. Len(Page!Refreshes(apAction.kind)) : Page!Refreshes(apAction.kind)[i] = d
  \/ /\ apAction.call.stage = "refreshing"
     /\ \E i \in 1 .. Len(apAction.rest) : apAction.rest[i] = d

AdminInv ==
  /\ AdminTypes /\ ManagerShown
  /\ apOthers = 0 /\ apLost = 0 => Undisturbed /\ \A d \in Page!Directories : Follows(d)


LEMMA CallMoves ==
  ASSUME NEW c \in AdminCall, NEW s, NEW n
  PROVE  /\ [c EXCEPT !.stage = s] = [stage |-> s, stale |-> c.stale, answer |-> c.answer]
         /\ [c EXCEPT !.stale = s] = [stage |-> c.stage, stale |-> s, answer |-> c.answer]
         /\ [c EXCEPT !.stage = s, !.answer = n] = [stage |-> s, stale |-> c.stale, answer |-> n]
<1>1. [c EXCEPT !.stage = s] = [stage |-> s, stale |-> c.stale, answer |-> c.answer]
  BY DEF AdminCall
<1>2. [c EXCEPT !.stale = s] = [stage |-> c.stage, stale |-> s, answer |-> c.answer]
  BY DEF AdminCall
<1>3. [c EXCEPT !.stage = s, !.answer = n]
      = [[stage |-> s, stale |-> c.stale, answer |-> c.answer] EXCEPT !.answer = n]
  BY <1>1
<1>4. [[stage |-> s, stale |-> c.stale, answer |-> c.answer] EXCEPT !.answer = n]
      = [stage |-> s, stale |-> c.stale, answer |-> n]
  OBVIOUS
<1> QED BY <1>1, <1>2, <1>3, <1>4

LEMMA ActionMoves ==
  ASSUME NEW a \in AdminAction
  PROVE  /\ \A s, n : [a EXCEPT !.call.stage = s, !.call.answer = n]
                       = [call |-> [stage |-> s, stale |-> a.call.stale, answer |-> n],
                          kind |-> a.kind, rest |-> a.rest]
         /\ \A s, r : [a EXCEPT !.call.stage = s, !.rest = r]
                       = [call |-> [stage |-> s, stale |-> a.call.stale, answer |-> a.call.answer],
                          kind |-> a.kind, rest |-> r]
         /\ \A c : [a EXCEPT !.call = c] = [call |-> c, kind |-> a.kind, rest |-> a.rest]
         /\ \A r : [a EXCEPT !.rest = r] = [call |-> a.call, kind |-> a.kind, rest |-> r]
<1>1. a.call \in AdminCall
  BY DEF AdminAction
<1>2. ASSUME NEW s, NEW n
      PROVE  [a EXCEPT !.call.stage = s, !.call.answer = n]
             = [call |-> [stage |-> s, stale |-> a.call.stale, answer |-> n],
                kind |-> a.kind, rest |-> a.rest]
  <2> DEFINE b == [call |-> [stage |-> s, stale |-> a.call.stale, answer |-> a.call.answer],
                   kind |-> a.kind, rest |-> a.rest]
  <2>1. [a EXCEPT !.call.stage = s]
        = [call |-> [a.call EXCEPT !.stage = s], kind |-> a.kind, rest |-> a.rest]
    BY DEF AdminAction
  <2>2. [a EXCEPT !.call.stage = s] = b
    BY <2>1, <1>1, CallMoves
  <2>3. [a EXCEPT !.call.stage = s, !.call.answer = n] = [b EXCEPT !.call.answer = n]
    BY <2>2, Zenon
  <2>4. [b EXCEPT !.call.answer = n]
        = [call |-> [stage |-> s, stale |-> a.call.stale, answer |-> n],
           kind |-> a.kind, rest |-> a.rest]
    OBVIOUS
  <2> QED BY <2>3, <2>4
<1>3. ASSUME NEW s, NEW r
      PROVE  [a EXCEPT !.call.stage = s, !.rest = r]
             = [call |-> [stage |-> s, stale |-> a.call.stale, answer |-> a.call.answer],
                kind |-> a.kind, rest |-> r]
  <2> DEFINE b == [call |-> [stage |-> s, stale |-> a.call.stale, answer |-> a.call.answer],
                   kind |-> a.kind, rest |-> a.rest]
  <2>1. [a EXCEPT !.call.stage = s]
        = [call |-> [a.call EXCEPT !.stage = s], kind |-> a.kind, rest |-> a.rest]
    BY DEF AdminAction
  <2>2. [a EXCEPT !.call.stage = s] = b
    BY <2>1, <1>1, CallMoves
  <2>3. [a EXCEPT !.call.stage = s, !.rest = r] = [b EXCEPT !.rest = r]
    BY <2>2, Zenon
  <2>4. [b EXCEPT !.rest = r]
        = [call |-> [stage |-> s, stale |-> a.call.stale, answer |-> a.call.answer],
           kind |-> a.kind, rest |-> r]
    OBVIOUS
  <2> QED BY <2>3, <2>4
<1>4. \A c : [a EXCEPT !.call = c] = [call |-> c, kind |-> a.kind, rest |-> a.rest]
  BY DEF AdminAction
<1>5. \A r : [a EXCEPT !.rest = r] = [call |-> a.call, kind |-> a.kind, rest |-> r]
  BY DEF AdminAction
<1> QED BY <1>2, <1>3, <1>4, <1>5, Zenon

LEMMA AdminParameters ==
  /\ AdminActions \in Nat /\ AdminEdits \in Nat /\ AdminElsewhere \in Nat /\ AdminLosses \in Nat
BY BrowserAssumption DEF Page!PageAssumption

LEMMA AdminRefreshes ==
  ASSUME NEW kind \in Page!Kinds
  PROVE  /\ Page!Refreshes(kind) \in Seq(Page!Directories)
         /\ Len(Page!Refreshes(kind)) \in 1 .. 2 /\ Len(Page!Refreshes(kind)) <= 2
         /\ Page!Refreshes(kind)[1] = Page!Changes(kind)
         /\ Page!Changes(kind) \in Page!Directories
<1>1. Page!Changes(kind) \in Page!Directories
  BY DEF Page!Changes, Page!Directories, Page!Kinds
<1>2. CASE kind = "removeTutor"
  <2>1. Page!Refreshes(kind) = <<"tutors", "users">> /\ Page!Changes(kind) = "tutors"
    BY <1>2 DEF Page!Refreshes, Page!Changes
  <2> QED BY <2>1, <1>1 DEF Page!Directories
<1>3. CASE kind # "removeTutor"
  <2>1. Page!Refreshes(kind) = <<Page!Changes(kind)>>
    BY <1>3 DEF Page!Refreshes
  <2> HIDE DEF Page!Directories
  <2> QED BY <2>1, <1>1
<1> QED BY <1>2, <1>3

LEMMA AdminTails ==
  ASSUME NEW S, NEW s \in Seq(S), s # <<>>
  PROVE  /\ Head(s) = s[1] /\ Head(s) \in S
         /\ Tail(s) \in Seq(S) /\ Len(Tail(s)) = Len(s) - 1 /\ Len(s) \in Nat
         /\ \A i \in 2 .. Len(s) : i - 1 \in 1 .. Len(Tail(s)) /\ Tail(s)[i - 1] = s[i]
OBVIOUS

LEMMA AdminInitial == Page!Init => AdminInv
<1> SUFFICES ASSUME Page!Init PROVE AdminInv OBVIOUS
<1> USE AdminParameters DEF Page!Init, Page!NoAction, Page!NoCall, Page!NoLoad
<1>1. AdminTypes
  <2>1. apAction \in AdminAction /\ Len(apAction.rest) <= 2 /\ apProfile \in AdminCall
    BY DEF AdminAction, AdminCall, Page!Kinds
  <2>2. /\ apListed \in [Page!Directories -> 0 .. AdminActions]
        /\ apAltered \in [Page!Directories -> 0 .. AdminActions]
        /\ \A d \in Page!Directories : apAltered[d] <= apBegun
    OBVIOUS
  <2> QED BY <2>1, <2>2 DEF AdminTypes
<1>2. ManagerShown
  BY DEF ManagerShown, GivenUp
<1>3. Undisturbed
  BY DEF Undisturbed
<1>4. \A d \in Page!Directories : Follows(d)
  BY DEF Follows
<1> QED BY <1>1, <1>2, <1>3, <1>4 DEF AdminInv

LEMMA AdminServesAction ==
  ASSUME AdminInv, NEW done \in BOOLEAN, Page!ServeAction(done)
  PROVE  AdminInv'
<1> DEFINE kind == apAction.kind
           d0 == Page!Changes(kind)
<1>1. AdminTypes /\ ManagerShown /\ kind \in Page!Kinds /\ apAction \in AdminAction
  BY DEF AdminInv, AdminTypes, AdminAction
<1>2. d0 \in Page!Directories /\ Len(Page!Refreshes(kind)) \in 1 .. 2 /\ Page!Refreshes(kind)[1] = d0
  BY <1>1, AdminRefreshes
<1>3. PICK n \in {"ok", "denied", "lost"} :
        /\ apAction' = [call |-> [stage |-> "answered", stale |-> apAction.call.stale, answer |-> n],
                        kind |-> kind, rest |-> apAction.rest]
        /\ done /\ n # "lost" => n = "ok"
        /\ n = "ok" => done
        /\ IF n = "lost" THEN apLost < AdminLosses /\ apLost' = apLost + 1 ELSE apLost' = apLost
  <2>1. /\ apAction \in AdminAction
        /\ \A n : [apAction EXCEPT !.call.stage = "answered", !.call.answer = n]
                = [call |-> [stage |-> "answered", stale |-> apAction.call.stale, answer |-> n],
                   kind |-> apAction.kind, rest |-> apAction.rest]
    <3>1. apAction \in AdminAction
      BY <1>1
    <3>2. \A s, n : [apAction EXCEPT !.call.stage = s, !.call.answer = n]
                   = [call |-> [stage |-> s, stale |-> apAction.call.stale, answer |-> n],
                      kind |-> apAction.kind, rest |-> apAction.rest]
      BY <3>1, ActionMoves
    <3> QED BY <3>1, <3>2
  <2> DEFINE served(n) == [call |-> [stage |-> "answered", stale |-> apAction.call.stale, answer |-> n],
                           kind |-> kind, rest |-> apAction.rest]
  <2>2. \/ apAction' = served(IF done THEN "ok" ELSE "denied") /\ apLost' = apLost
        \/ apAction' = served("lost") /\ apLost < AdminLosses /\ apLost' = apLost + 1
    BY <2>1, Zenon DEF Page!ServeAction
  <2> HIDE DEF served
  <2>3. CASE apAction' = served("lost") /\ apLost < AdminLosses /\ apLost' = apLost + 1
    <3> WITNESS "lost" \in {"ok", "denied", "lost"}
    <3> QED BY <2>3 DEF served
  <2>4. CASE apAction' = served(IF done THEN "ok" ELSE "denied") /\ apLost' = apLost
    <3>1. CASE done
      <4> WITNESS "ok" \in {"ok", "denied", "lost"}
      <4> QED BY <2>4, <3>1 DEF served
    <3>2. CASE ~done
      <4> WITNESS "denied" \in {"ok", "denied", "lost"}
      <4> QED BY <2>4, <3>2 DEF served
    <3> QED BY <3>1, <3>2
  <2> QED BY <2>2, <2>3, <2>4
<1>4. /\ apAction.call.stage = "sent"
      /\ done => Page!Allowed(kind) /\ (kind = "create" => apDraft \notin apCreated)
      /\ IF done
         THEN /\ apAltered' = [apAltered EXCEPT ![d0] = @ + 1]
              /\ apManager' = (apManager /\ kind # "own")
              /\ apCreated' = IF kind = "create" THEN apCreated \cup {apDraft} ELSE apCreated
         ELSE UNCHANGED <<apAltered, apManager, apCreated>>
      /\ UNCHANGED <<apSession, apShown, apDraft, apProfile, apListed, apLoads, apBegun, apTyped, apOthers>>
  BY DEF Page!ServeAction
<1> HIDE DEF d0, kind
<1>5. AdminTypes'
  <2>1. apAction' \in AdminAction /\ apAction'.rest = apAction.rest /\ apAction'.call.stage = "answered"
    BY <1>1, <1>3 DEF AdminTypes, AdminAction, AdminCall
  <2>2. /\ apAltered' \in [Page!Directories -> 0 .. AdminActions]
        /\ \A d \in Page!Directories : apAltered'[d] <= apBegun'
    <3>1. /\ apAltered \in [Page!Directories -> 0 .. AdminActions] /\ apBegun \in 0 .. AdminActions
          /\ \A d \in Page!Directories : apAltered[d] < apBegun
          /\ apBegun' = apBegun
      BY <1>1, <1>4 DEF AdminTypes
    <3>2. CASE done
      BY <3>1, <3>2, <1>2, <1>4, AdminParameters
    <3>3. CASE ~done
      BY <3>1, <3>3, <1>4, AdminParameters
    <3> QED BY <3>2, <3>3
  <2>3. apCreated' \subseteq 1 .. AdminEdits
    <3>1. apCreated \subseteq 1 .. AdminEdits /\ apDraft \in 0 .. AdminEdits
      BY <1>1 DEF AdminTypes
    <3>2. CASE done /\ kind = "create"
      <4>1. apDraft # 0
        BY <3>2, <1>1, <1>4 DEF ManagerShown, GivenUp, Page!Allowed, kind
      <4>2. apDraft \in 1 .. AdminEdits
        BY <3>1, <4>1, AdminParameters
      <4>3. apCreated' = apCreated \cup {apDraft}
        BY <3>2, <1>4
      <4> QED BY <3>1, <4>2, <4>3
    <3>3. CASE ~(done /\ kind = "create")
      BY <3>1, <3>3, <1>4
    <3> QED BY <3>2, <3>3
  <2>4. apManager' \in BOOLEAN
    BY <1>1, <1>4 DEF AdminTypes
  <2>5. apLost' \in 0 .. AdminLosses
    BY <1>1, <1>3, AdminParameters DEF AdminTypes
  <2> QED BY <1>1, <1>4, <2>1, <2>2, <2>3, <2>4, <2>5 DEF AdminTypes
<1>6. ManagerShown'
  BY <1>1, <1>3, <1>4 DEF ManagerShown, GivenUp, AdminTypes, Page!Allowed, kind
<1>7. ASSUME apOthers' = 0, apLost' = 0
      PROVE  Undisturbed' /\ \A d \in Page!Directories : Follows(d)'
  <2>1. n # "lost" /\ apOthers = 0 /\ apLost = 0
    BY <1>1, <1>3, <1>4, <1>7, AdminParameters DEF AdminTypes
  <2>2. Undisturbed /\ \A d \in Page!Directories : Follows(d)
    BY <2>1 DEF AdminInv
  <2>3. ~apAction.call.stale /\ (apShown => apManager)
    BY <2>2, <1>4 DEF Undisturbed, GivenUp
  <2>4. Undisturbed'
    BY <1>1, <1>3, <1>4, <2>1, <2>2, <2>3 DEF Undisturbed, GivenUp, AdminTypes, Page!Allowed, kind
  <2>5. ASSUME NEW d \in Page!Directories PROVE Follows(d)'
    <3>1. CASE done /\ d = d0
      <4>1. apAction'.call.stage = "answered" /\ apAction'.call.answer = "ok" /\ ~apAction'.call.stale
            /\ apAction'.kind = kind
        BY <3>1, <1>3, <2>1, <2>3
      <4>2. 1 \in 1 .. Len(Page!Refreshes(kind)) /\ Page!Refreshes(kind)[1] = d
        BY <1>2, <3>1
      <4> QED BY <4>1, <4>2 DEF Follows
    <3>2. CASE ~done \/ d # d0
      <4>1. apAltered'[d] = apAltered[d]
        BY <3>2, <1>1, <1>2, <1>4 DEF AdminTypes
      <4> QED BY <4>1, <2>2, <1>4 DEF Follows
    <3> QED BY <3>1, <3>2
  <2> QED BY <2>4, <2>5
<1> QED BY <1>5, <1>6, <1>7 DEF AdminInv

LEMMA AdminServesProfile ==
  ASSUME AdminInv, Page!ServeProfile
  PROVE  AdminInv'
<1>1. AdminTypes /\ ManagerShown /\ apProfile \in AdminCall
  BY DEF AdminInv, AdminTypes
<1>2. PICK n \in {"denied", "manager", "plain", "lost"} :
        /\ apProfile' = [stage |-> "answered", stale |-> apProfile.stale, answer |-> n]
        /\ n = "manager" => apManager
        /\ n = "plain" => apSession /\ ~apManager
        /\ IF n = "lost" THEN apLost < AdminLosses /\ apLost' = apLost + 1 ELSE apLost' = apLost
  BY <1>1, CallMoves DEF Page!ServeProfile
<1>3. UNCHANGED <<apManager, apSession, apShown, apDraft, apAction, apListed, apLoads, apAltered,
                  apCreated, apBegun, apTyped, apOthers>>
  BY DEF Page!ServeProfile
<1>4. AdminTypes'
  <2>1. apProfile' \in AdminCall
    BY <1>1, <1>2 DEF AdminCall
  <2>2. apLost' \in 0 .. AdminLosses
    BY <1>1, <1>2, AdminParameters DEF AdminTypes
  <2> QED BY <1>1, <1>3, <2>1, <2>2 DEF AdminTypes
<1>5. ManagerShown'
  BY <1>1, <1>2, <1>3 DEF ManagerShown, GivenUp
<1>6. ASSUME apOthers' = 0, apLost' = 0
      PROVE  Undisturbed' /\ \A d \in Page!Directories : Follows(d)'
  <2>1. apOthers = 0 /\ apLost = 0
    BY <1>1, <1>2, <1>3, <1>6, AdminParameters DEF AdminTypes
  <2>2. Undisturbed /\ \A d \in Page!Directories : Follows(d)
    BY <2>1 DEF AdminInv
  <2>3. Undisturbed'
    BY <1>2, <1>3, <2>2 DEF Undisturbed, GivenUp
  <2> QED BY <1>3, <2>2, <2>3 DEF Follows
<1> QED BY <1>4, <1>5, <1>6 DEF AdminInv

LEMMA AdminAnswersProfile ==
  ASSUME AdminInv, Page!ProfileAnswered
  PROVE  AdminInv'
<1> DEFINE allowed == apProfile.answer = "manager"
           heard == ~apProfile.stale /\ apProfile.answer \in {"manager", "plain"}
<1>1. AdminTypes /\ ManagerShown /\ apProfile \in AdminCall /\ apAction \in AdminAction
      /\ apAction.call \in AdminCall
  BY DEF AdminInv, AdminTypes, AdminAction
<1>2. /\ apProfile.stage = "answered"
      /\ apProfile' = [stage |-> "none", stale |-> FALSE, answer |-> "none"]
      /\ UNCHANGED <<apManager, apSession, apAltered, apCreated, apBegun, apTyped, apOthers, apLost>>
  BY DEF Page!ProfileAnswered, Page!NoCall, Page!counts
<1>3. CASE ~heard \/ allowed = apShown
  <2>1. /\ apShown' = apShown /\ apAction' = apAction /\ apListed' = apListed /\ apLoads' = apLoads
        /\ apDraft' = apDraft
    BY <1>1, <1>3 DEF Page!ProfileAnswered, Page!SetCurrentAdmin, Page!Hidden, ManagerShown, GivenUp, AdminTypes
  <2>2. AdminTypes'
    BY <1>1, <1>2, <2>1 DEF AdminTypes, AdminCall
  <2>3. ManagerShown'
    BY <1>1, <1>2, <2>1 DEF ManagerShown, GivenUp
  <2>4. ASSUME apOthers' = 0, apLost' = 0
        PROVE  Undisturbed' /\ \A d \in Page!Directories : Follows(d)'
    <3>1. Undisturbed /\ \A d \in Page!Directories : Follows(d)
      BY <1>2, <2>4 DEF AdminInv
    <3> QED BY <1>2, <2>1, <3>1 DEF Undisturbed, GivenUp, Follows
  <2> QED BY <2>2, <2>3, <2>4 DEF AdminInv
<1>4. CASE heard /\ allowed # apShown
  <2>1. /\ apShown' = allowed
        /\ apDraft' = IF allowed THEN apDraft ELSE 0
        /\ apListed' = [d \in Page!Directories |-> 0]
        /\ apLoads' = [d \in Page!Directories |-> [stage |-> "sent", seen |-> 0, awaited |-> FALSE]]
        /\ apAction' = [apAction EXCEPT !.call = Page!Outdated(apAction.call)]
    BY <1>4 DEF Page!ProfileAnswered, Page!SetCurrentAdmin, Page!Hidden, Page!Load
  <2>2. LET c == Page!Outdated(apAction.call) IN
        c \in AdminCall /\ c.stage = apAction.call.stage /\ c.answer = apAction.call.answer
    <3>1. CASE apAction.call.stage = "none"
      BY <1>1, <3>1 DEF Page!Outdated, AdminCall
    <3>2. CASE apAction.call.stage # "none"
      <4>1. Page!Outdated(apAction.call)
            = [stage |-> apAction.call.stage, stale |-> TRUE, answer |-> apAction.call.answer]
        BY <1>1, <3>2, CallMoves DEF Page!Outdated
      <4> QED BY <1>1, <4>1 DEF AdminCall
    <3> QED BY <3>1, <3>2
  <2>3. apAction' = [call |-> Page!Outdated(apAction.call), kind |-> apAction.kind, rest |-> apAction.rest]
    BY <1>1, <2>1, ActionMoves, Zenon
  <2>4. /\ apAction' \in AdminAction /\ apAction'.rest = apAction.rest /\ apAction'.kind = apAction.kind
        /\ apAction'.call.stage = apAction.call.stage /\ apAction'.call.answer = apAction.call.answer
    <3>2. apAction' \in AdminAction
      BY <1>1, <2>2, <2>3 DEF AdminAction
    <3>3. apAction'.call = Page!Outdated(apAction.call) /\ apAction'.rest = apAction.rest
          /\ apAction'.kind = apAction.kind
      BY <2>3
    <3> QED BY <2>2, <3>2, <3>3
  <2>5. AdminTypes'
    BY <1>1, <1>2, <2>1, <2>4, AdminParameters DEF AdminTypes, AdminCall
  <2>6. ManagerShown'
    BY <1>1, <1>2, <1>4, <2>1, <2>4 DEF ManagerShown, GivenUp, AdminTypes
  <2>7. ASSUME apOthers' = 0, apLost' = 0
        PROVE  Undisturbed' /\ \A d \in Page!Directories : Follows(d)'
    <3>1. Undisturbed
      BY <1>2, <2>7 DEF AdminInv
    <3>2. ~allowed /\ apShown /\ ~apManager
      BY <1>1, <1>2, <1>4, <3>1 DEF Undisturbed, AdminTypes
    <3>3. GivenUp
      BY <3>1, <3>2 DEF Undisturbed
    <3>4. Undisturbed'
      BY <1>2, <2>1, <2>4, <3>1, <3>2, <3>3 DEF Undisturbed, GivenUp
    <3>5. \A d \in Page!Directories : Follows(d)'
      BY <2>1 DEF Follows
    <3> QED BY <3>4, <3>5
  <2> QED BY <2>5, <2>6, <2>7 DEF AdminInv
<1> QED BY <1>3, <1>4

LEMMA AdminActionDone ==
  ASSUME AdminInv, Page!ActionDone
  PROVE  AdminInv'
<1> DEFINE kind == apAction.kind
<1>1. AdminTypes /\ ManagerShown /\ apProfile \in AdminCall /\ apAction \in AdminAction
      /\ kind \in Page!Kinds /\ apAction.call \in AdminCall
  BY DEF AdminInv, AdminTypes, AdminAction
<1>2. Page!Refreshes(kind) \in Seq(Page!Directories) /\ Len(Page!Refreshes(kind)) <= 2
  BY <1>1, AdminRefreshes
<1>3. /\ apAction.call.stage = "answered" /\ ~apAction.call.stale /\ apAction.call.answer = "ok"
      /\ apAction' = [call |-> [stage |-> "refreshing", stale |-> apAction.call.stale,
                                answer |-> apAction.call.answer],
                      kind |-> kind, rest |-> Page!Refreshes(kind)]
      /\ UNCHANGED <<apManager, apSession, apAltered, apCreated, apBegun, apTyped, apOthers, apLost>>
  BY <1>1, ActionMoves, Zenon DEF Page!ActionDone, Page!counts
<1>4. /\ apAction' \in AdminAction /\ apAction'.rest = Page!Refreshes(kind)
      /\ apAction'.call.stage = "refreshing" /\ ~apAction'.call.stale /\ apAction'.kind = kind
  BY <1>1, <1>2, <1>3 DEF AdminAction, AdminCall
<1>5. CASE kind # "own" \/ ~apShown
  <2>1. /\ UNCHANGED <<apShown, apListed, apLoads, apProfile>>
        /\ apDraft' = IF kind = "create" \/ kind = "own" THEN 0 ELSE apDraft
    BY <1>1, <1>5 DEF Page!ActionDone, Page!SetCurrentAdmin, Page!Hidden, AdminTypes
  <2>2. AdminTypes'
    <3>1. Len(apAction'.rest) <= 2
      BY <1>2, <1>4, Zenon
    <3>2. apDraft' \in 0 .. AdminEdits
      BY <1>1, <2>1, AdminParameters DEF AdminTypes
    <3> QED BY <1>1, <1>3, <1>4, <2>1, <3>1, <3>2 DEF AdminTypes
  <2>3. ManagerShown'
    BY <1>1, <1>3, <1>4, <2>1 DEF ManagerShown, GivenUp
  <2>4. ASSUME apOthers' = 0, apLost' = 0
        PROVE  Undisturbed' /\ \A d \in Page!Directories : Follows(d)'
    <3>1. Undisturbed /\ \A d \in Page!Directories : Follows(d)
      BY <1>3, <2>4 DEF AdminInv
    <3>2. Undisturbed'
      BY <1>3, <1>4, <1>5, <2>1, <3>1 DEF Undisturbed, GivenUp
    <3>3. \A d \in Page!Directories : Follows(d)'
      BY <1>3, <1>4, <2>1, <3>1 DEF Follows
    <3> QED BY <3>2, <3>3
  <2> QED BY <2>2, <2>3, <2>4 DEF AdminInv
<1>6. CASE kind = "own" /\ apShown
  <2>1. /\ apShown' = FALSE /\ apDraft' = 0
        /\ apListed' = [d \in Page!Directories |-> 0]
        /\ apLoads' = [d \in Page!Directories |-> [stage |-> "sent", seen |-> 0, awaited |-> FALSE]]
        /\ apProfile' = Page!Outdated(apProfile)
    BY <1>1, <1>6 DEF Page!ActionDone, Page!SetCurrentAdmin, Page!Hidden, Page!Load, AdminTypes
  <2>2. /\ apProfile' \in AdminCall /\ apProfile'.stage = apProfile.stage
        /\ apProfile'.answer = apProfile.answer
        /\ apProfile.stage # "none" => apProfile'.stale
    <3>1. CASE apProfile.stage = "none"
      BY <1>1, <2>1, <3>1 DEF Page!Outdated
    <3>2. CASE apProfile.stage # "none"
      <4>1. apProfile' = [stage |-> apProfile.stage, stale |-> TRUE, answer |-> apProfile.answer]
        BY <1>1, <2>1, <3>2, CallMoves DEF Page!Outdated
      <4> QED BY <1>1, <4>1 DEF AdminCall
    <3> QED BY <3>1, <3>2
  <2>3. AdminTypes'
    <3>1. /\ apListed' \in [Page!Directories -> 0 .. AdminActions]
          /\ apLoads' \in [Page!Directories -> [stage : {"none", "sent", "answered", "denied"},
                                               seen : 0 .. AdminActions, awaited : BOOLEAN]]
      BY <2>1, AdminParameters
    <3>2. Len(apAction'.rest) <= 2
      BY <1>2, <1>4, Zenon
    <3>3. apDraft' \in 0 .. AdminEdits
      BY <2>1, AdminParameters
    <3>4. apShown' \in BOOLEAN
      BY <2>1
    <3> QED BY <1>1, <1>3, <1>4, <2>2, <3>1, <3>2, <3>3, <3>4 DEF AdminTypes
  <2>4. ManagerShown'
    BY <1>1, <1>3, <1>4, <1>6, <2>1, <2>2 DEF ManagerShown, GivenUp
  <2>5. ASSUME apOthers' = 0, apLost' = 0
        PROVE  Undisturbed' /\ \A d \in Page!Directories : Follows(d)'
    <3>1. Undisturbed
      BY <1>3, <2>5 DEF AdminInv
    <3>2. Undisturbed'
      BY <1>1, <1>3, <1>4, <1>6, <2>1, <2>2, <3>1 DEF Undisturbed, ManagerShown, GivenUp
    <3>3. \A d \in Page!Directories : Follows(d)'
      BY <2>1 DEF Follows
    <3> QED BY <3>2, <3>3
  <2> QED BY <2>3, <2>4, <2>5 DEF AdminInv
<1> QED BY <1>5, <1>6

\* What only ends or begins an action leaves all else as it is.
LEMMA AdminEndsAction ==
  ASSUME AdminInv, Page!ActionFails \/ Page!ActionOver
  PROVE  AdminInv'
<1>1. AdminTypes /\ ManagerShown
  BY DEF AdminInv
<1>2. /\ apAction' = Page!NoAction
      /\ UNCHANGED <<apManager, apSession, apShown, apDraft, apProfile, apListed, apLoads, apAltered,
                     apCreated, apBegun, apTyped, apOthers, apLost>>
  BY DEF Page!ActionFails, Page!ActionOver, Page!Over, Page!counts
<1>3. /\ apAction' \in AdminAction /\ Len(apAction'.rest) <= 2 /\ apAction'.call.stage = "none"
      /\ ~apAction'.call.stale
  BY <1>2 DEF Page!NoAction, Page!NoCall, AdminAction, AdminCall, Page!Kinds
<1>4. AdminTypes'
  BY <1>1, <1>2, <1>3 DEF AdminTypes
<1>5. ManagerShown'
  BY <1>1, <1>2, <1>3 DEF ManagerShown, GivenUp
<1>6. ASSUME apOthers' = 0, apLost' = 0
      PROVE  Undisturbed' /\ \A d \in Page!Directories : Follows(d)'
  <2>1. Undisturbed /\ \A d \in Page!Directories : Follows(d)
    BY <1>2, <1>6 DEF AdminInv
  <2>2. CASE Page!ActionFails
    <3>1. apAction.call.stage = "answered" /\ (apAction.call.stale \/ apAction.call.answer # "ok")
      BY <2>2 DEF Page!ActionFails
    <3>2. Undisturbed'
      BY <3>1, <2>1, <1>1, <1>2, <1>3 DEF Undisturbed, GivenUp, AdminTypes
    <3>3. \A d \in Page!Directories : Follows(d)'
      BY <3>1, <2>1, <1>2 DEF Follows
    <3> QED BY <3>2, <3>3
  <2>3. CASE Page!ActionOver
    <3>1. apAction.call.stage = "refreshing" /\ apAction.rest = <<>>
      BY <2>3 DEF Page!ActionOver
    <3>2. Undisturbed'
      BY <3>1, <2>1, <1>1, <1>2, <1>3 DEF Undisturbed, GivenUp, AdminTypes
    <3>3. \A i \in 1 .. Len(apAction.rest) : FALSE
      BY <3>1
    <3>4. \A d \in Page!Directories : Follows(d)'
      BY <3>1, <3>3, <2>1, <1>2 DEF Follows
    <3> QED BY <3>2, <3>4
  <2> QED BY <2>2, <2>3
<1> QED BY <1>4, <1>5, <1>6 DEF AdminInv

LEMMA AdminRefresh ==
  ASSUME AdminInv, Page!Refresh
  PROVE  AdminInv'
<1> DEFINE h == Head(apAction.rest)
<1>1. AdminTypes /\ ManagerShown /\ apAction \in AdminAction /\ apAction.rest \in Seq(Page!Directories)
  BY DEF AdminInv, AdminTypes, AdminAction
<1>2. /\ apAction.call.stage = "refreshing" /\ apAction.rest # <<>>
      /\ apLoads' = [apLoads EXCEPT ![h] = [stage |-> "sent", seen |-> 0, awaited |-> TRUE]]
      /\ UNCHANGED <<apManager, apSession, apShown, apDraft, apProfile, apListed, apAltered,
                     apCreated, apBegun, apTyped, apOthers, apLost>>
  BY DEF Page!Refresh, Page!Load, Page!counts
<1>3. /\ h = apAction.rest[1] /\ h \in Page!Directories
      /\ Tail(apAction.rest) \in Seq(Page!Directories) /\ Len(Tail(apAction.rest)) = Len(apAction.rest) - 1
      /\ Len(apAction.rest) \in Nat
      /\ \A i \in 2 .. Len(apAction.rest) :
           i - 1 \in 1 .. Len(Tail(apAction.rest)) /\ Tail(apAction.rest)[i - 1] = apAction.rest[i]
  BY <1>1, <1>2, AdminTails
<1>4. apAction' = [call |-> apAction.call, kind |-> apAction.kind, rest |-> Tail(apAction.rest)]
  <2>1. \A r : [apAction EXCEPT !.rest = r] = [call |-> apAction.call, kind |-> apAction.kind, rest |-> r]
    BY <1>1, ActionMoves
  <2> QED BY <2>1 DEF Page!Refresh
<1> HIDE DEF h
<1>5. AdminTypes'
  <2>1. apAction' \in AdminAction
    BY <1>1, <1>3, <1>4 DEF AdminAction
  <2>2. Len(apAction'.rest) <= 2
    <3>1. Len(apAction.rest) <= 2
      BY <1>1 DEF AdminTypes
    <3>2. Len(Tail(apAction.rest)) <= 2
      BY <3>1, <1>3
    <3> QED BY <3>2, <1>4
  <2>3. apLoads' \in [Page!Directories -> [stage : {"none", "sent", "answered", "denied"},
                                           seen : 0 .. AdminActions, awaited : BOOLEAN]]
    BY <1>1, <1>2, <1>3, AdminParameters DEF AdminTypes
  <2> QED BY <1>1, <1>2, <1>4, <2>1, <2>2, <2>3 DEF AdminTypes
<1>6. ManagerShown'
  BY <1>1, <1>2, <1>4 DEF ManagerShown, GivenUp
<1>7. ASSUME apOthers' = 0, apLost' = 0
      PROVE  Undisturbed' /\ \A d \in Page!Directories : Follows(d)'
  <2>1. Undisturbed /\ \A d \in Page!Directories : Follows(d)
    BY <1>2, <1>7 DEF AdminInv
  <2>2. Undisturbed'
    BY <1>1, <1>2, <1>4, <2>1 DEF Undisturbed, GivenUp
  <2>3. ASSUME NEW d \in Page!Directories PROVE Follows(d)'
    <3>1. CASE d = h
      <4>1. apLoads'[d].stage = "sent"
        BY <3>1, <1>1, <1>2, <1>3 DEF AdminTypes
      <4> QED BY <4>1 DEF Follows
    <3>2. CASE d # h
      <4>1. apLoads'[d] = apLoads[d]
        BY <3>2, <1>1, <1>2 DEF AdminTypes
      <4>2. CASE \E i \in 1 .. Len(apAction.rest) : apAction.rest[i] = d
        <5>1. PICK i \in 1 .. Len(apAction.rest) : apAction.rest[i] = d
          BY <4>2
        <5>2. i \in 2 .. Len(apAction.rest)
          BY <5>1, <3>2, <1>3
        <5>3. i - 1 \in 1 .. Len(Tail(apAction.rest)) /\ Tail(apAction.rest)[i - 1] = d
          BY <5>1, <5>2, <1>3
        <5>4. \E k \in 1 .. Len(apAction'.rest) : apAction'.rest[k] = d
          <6> HIDE <1>3
          <6>1. apAction'.rest = Tail(apAction.rest)
            BY <1>4
          <6> QED BY <5>3, <6>1, Zenon
        <5>5. apAction'.call.stage = "refreshing"
          BY <1>2, <1>4
        <5> QED BY <5>4, <5>5 DEF Follows
      <4>3. CASE ~\E i \in 1 .. Len(apAction.rest) : apAction.rest[i] = d
        BY <4>3, <4>1, <2>1, <1>2 DEF Follows
      <4> QED BY <4>2, <4>3
    <3> QED BY <3>1, <3>2
  <2> QED BY <2>2, <2>3
<1> QED BY <1>5, <1>6, <1>7 DEF AdminInv

LEMMA AdminServesLoad ==
  ASSUME AdminInv, NEW e \in Page!Directories, Page!ServeLoad(e)
  PROVE  AdminInv'
<1> DEFINE answer == [stage |-> IF apSession THEN "answered" ELSE "denied", seen |-> apAltered[e],
                      awaited |-> apLoads[e].awaited]
<1>1. AdminTypes /\ ManagerShown
  BY DEF AdminInv
<1>2. /\ apLoads[e].stage = "sent"
      /\ apLoads' = [apLoads EXCEPT ![e].stage = IF apSession THEN "answered" ELSE "denied",
                                    ![e].seen = apAltered[e]]
      /\ UNCHANGED <<apManager, apSession, apShown, apDraft, apAction, apProfile, apListed, apAltered,
                     apCreated, apBegun, apTyped, apOthers, apLost>>
  BY DEF Page!ServeLoad, Page!counts
<1>3. apLoads \in [Page!Directories -> [stage : {"none", "sent", "answered", "denied"},
                                        seen : 0 .. AdminActions, awaited : BOOLEAN]]
  BY <1>1 DEF AdminTypes
<1>4. /\ \A d \in Page!Directories : d # e => apLoads'[d] = apLoads[d]
      /\ DOMAIN apLoads' = Page!Directories /\ apLoads' = [d \in Page!Directories |-> apLoads'[d]]
  BY <1>2, <1>3
<1>5. apLoads'[e] = answer
  <2> DEFINE c == IF apSession THEN "answered" ELSE "denied"
             f == [apLoads EXCEPT ![e].stage = c]
  <2> HIDE DEF c
  <2>1. f[e] = [stage |-> c, seen |-> apLoads[e].seen, awaited |-> apLoads[e].awaited]
        /\ DOMAIN f = Page!Directories
    BY <1>3
  <2>2. apLoads' = [f EXCEPT ![e].seen = apAltered[e]]
    BY <1>2, Zenon DEF c
  <2> HIDE DEF f
  <2>3. apLoads'[e] = [f[e] EXCEPT !.seen = apAltered[e]]
    BY <2>1, <2>2
  <2>4. apLoads'[e] = [stage |-> c, seen |-> apAltered[e], awaited |-> apLoads[e].awaited]
    BY <2>1, <2>3
  <2> QED BY <2>4 DEF c
<1>6. AdminTypes'
  <2>1. apLoads'[e] \in [stage : {"none", "sent", "answered", "denied"},
                         seen : 0 .. AdminActions, awaited : BOOLEAN]
    <3>1. apAltered[e] \in 0 .. AdminActions /\ apLoads[e].awaited \in BOOLEAN
      BY <1>1, <1>3 DEF AdminTypes
    <3> QED BY <3>1, <1>5
  <2>2. apLoads' \in [Page!Directories -> [stage : {"none", "sent", "answered", "denied"},
                                           seen : 0 .. AdminActions, awaited : BOOLEAN]]
    <3> HIDE DEF answer
    <3> QED BY <2>1, <1>3, <1>4
  <2> QED BY <1>1, <1>2, <2>2 DEF AdminTypes
<1>7. ManagerShown'
  BY <1>1, <1>2 DEF ManagerShown, GivenUp
<1>8. ASSUME apOthers' = 0, apLost' = 0
      PROVE  Undisturbed' /\ \A d \in Page!Directories : Follows(d)'
  <2>1. Undisturbed /\ \A d \in Page!Directories : Follows(d)
    BY <1>2, <1>8 DEF AdminInv
  <2>2. Undisturbed'
    BY <1>2, <2>1 DEF Undisturbed, GivenUp
  <2>3. Follows(e)'
    <3>1. apLoads'[e].stage = "answered" /\ apLoads'[e].seen = apAltered'[e]
      BY <1>2, <1>5, <2>1 DEF Undisturbed
    <3> QED BY <3>1 DEF Follows
  <2>4. \A d \in Page!Directories : d # e => Follows(d)'
    BY <1>2, <1>4, <2>1 DEF Follows
  <2> QED BY <2>2, <2>3, <2>4
<1> QED BY <1>6, <1>7, <1>8 DEF AdminInv

LEMMA AdminLoadOver ==
  ASSUME AdminInv, NEW e \in Page!Directories, Page!LoadOver(e)
  PROVE  AdminInv'
<1>1. AdminTypes /\ ManagerShown
  BY DEF AdminInv
<1>2. /\ apLoads' = [apLoads EXCEPT ![e] = [stage |-> "none", seen |-> 0, awaited |-> FALSE]]
      /\ UNCHANGED <<apManager, apSession, apShown, apDraft, apAction, apProfile, apAltered,
                     apCreated, apBegun, apTyped, apOthers>>
  BY DEF Page!LoadOver, Page!NoLoad
<1>3. \/ apLoads[e].stage = "answered" /\ apListed' = [apListed EXCEPT ![e] = apLoads[e].seen]
         /\ apLost' = apLost
      \/ apLoads[e].stage = "denied" /\ apListed' = [apListed EXCEPT ![e] = 0] /\ apLost' = apLost
      \/ apLost < AdminLosses /\ apLost' = apLost + 1 /\ apListed' = apListed
  BY DEF Page!LoadOver
<1>4. AdminTypes'
  <2>1. apLoads' \in [Page!Directories -> [stage : {"none", "sent", "answered", "denied"},
                                           seen : 0 .. AdminActions, awaited : BOOLEAN]]
    BY <1>1, <1>2, AdminParameters DEF AdminTypes
  <2>2. apListed' \in [Page!Directories -> 0 .. AdminActions]
    BY <1>1, <1>3, AdminParameters DEF AdminTypes
  <2>3. apLost' \in 0 .. AdminLosses
    BY <1>1, <1>3, AdminParameters DEF AdminTypes
  <2> QED BY <1>1, <1>2, <2>1, <2>2, <2>3 DEF AdminTypes
<1>5. ManagerShown'
  BY <1>1, <1>2 DEF ManagerShown, GivenUp
<1>6. ASSUME apOthers' = 0, apLost' = 0
      PROVE  Undisturbed' /\ \A d \in Page!Directories : Follows(d)'
  <2>1. apOthers = 0 /\ apLost = 0 /\ apLost' = apLost
    BY <1>1, <1>2, <1>3, <1>6, AdminParameters DEF AdminTypes
  <2>2. Undisturbed /\ \A d \in Page!Directories : Follows(d)
    BY <2>1 DEF AdminInv
  <2>3. Undisturbed'
    BY <1>2, <2>2 DEF Undisturbed, GivenUp
  <2>4. ASSUME NEW d \in Page!Directories PROVE Follows(d)'
    <3>1. CASE d # e
      <4>1. apLoads'[d] = apLoads[d] /\ apListed'[d] = apListed[d]
        BY <3>1, <1>1, <1>2, <1>3 DEF AdminTypes
      <4> QED BY <4>1, <2>2, <1>2 DEF Follows
    <3>2. CASE d = e /\ apLoads[e].stage = "answered" /\ apLoads[e].seen = apAltered[e]
      <4>1. apLoads'[d].stage = "none" /\ apListed'[d] = apAltered'[d]
        BY <3>2, <2>1, <1>1, <1>2, <1>3, AdminParameters DEF AdminTypes
      <4> QED BY <4>1 DEF Follows
    <3>3. CASE d = e /\ ~(apLoads[e].stage = "answered" /\ apLoads[e].seen = apAltered[e])
      <4>1. apLoads[e].stage \in {"answered", "denied"}
        BY <2>1, <1>1, <1>3, AdminParameters DEF AdminTypes
      <4> QED BY <4>1, <3>3, <2>2, <1>2 DEF Follows
    <3> QED BY <3>1, <3>2, <3>3
  <2> QED BY <2>3, <2>4
<1> QED BY <1>4, <1>5, <1>6 DEF AdminInv

LEMMA AdminTyped ==
  ASSUME AdminInv, Page!Type
  PROVE  AdminInv'
<1>1. AdminTypes /\ ManagerShown
  BY DEF AdminInv
<1>2. /\ apShown /\ apAction.call.stage = "none" /\ apTyped < AdminEdits
      /\ apTyped' = apTyped + 1 /\ apDraft' = apTyped + 1
      /\ UNCHANGED <<apManager, apSession, apShown, apAction, apProfile, apListed, apLoads, apAltered,
                     apCreated, apBegun, apOthers, apLost>>
  BY DEF Page!Type, Page!Fillable, Page!actionPending
<1>3. AdminTypes'
  <2>1. apTyped' \in 0 .. AdminEdits /\ apDraft' \in 0 .. AdminEdits
    BY <1>1, <1>2, AdminParameters DEF AdminTypes
  <2> QED BY <1>1, <1>2, <2>1 DEF AdminTypes
<1>4. ManagerShown'
  BY <1>1, <1>2 DEF ManagerShown, GivenUp
<1> QED BY <1>2, <1>3, <1>4 DEF AdminInv, Undisturbed, GivenUp, Follows

LEMMA AdminSavesProfile ==
  ASSUME AdminInv, Page!SaveProfile
  PROVE  AdminInv'
<1>1. AdminTypes /\ ManagerShown
  BY DEF AdminInv
<1>2. /\ apProfile' \in AdminCall /\ apProfile'.stage = "sent"
      /\ UNCHANGED <<apManager, apSession, apShown, apDraft, apAction, apListed, apLoads, apAltered,
                     apCreated, apBegun, apTyped, apOthers, apLost>>
  <2>1. apProfile' = [stage |-> "sent", stale |-> FALSE, answer |-> "none"]
    BY DEF Page!SaveProfile, Page!Sent, Page!NoCall
  <2> QED BY <2>1 DEF Page!SaveProfile, AdminCall, Page!counts
<1>3. AdminTypes'
  BY <1>1, <1>2 DEF AdminTypes
<1>4. ManagerShown'
  BY <1>1, <1>2 DEF ManagerShown, GivenUp
<1> QED BY <1>2, <1>3, <1>4 DEF AdminInv, Undisturbed, GivenUp, Follows

LEMMA AdminBegins ==
  ASSUME AdminInv, NEW kind \in Page!Kinds, Page!Begin(kind)
  PROVE  AdminInv'
<1>1. AdminTypes /\ ManagerShown
  BY DEF AdminInv
<1>2. /\ apAction.call.stage = "none" /\ apBegun < AdminActions /\ apBegun' = apBegun + 1
      /\ kind = "create" => apDraft # 0
      /\ apAction' = [call |-> [stage |-> "sent", stale |-> FALSE, answer |-> "none"],
                      kind |-> kind, rest |-> <<>>]
      /\ UNCHANGED <<apManager, apSession, apShown, apDraft, apProfile, apListed, apLoads, apAltered,
                     apCreated, apTyped, apOthers, apLost>>
  BY DEF Page!Begin, Page!actionPending, Page!Offered, Page!Sent, Page!NoCall
<1>3. AdminTypes'
  <2>1. apAction' \in AdminAction /\ Len(apAction'.rest) <= 2 /\ apAction'.call.answer = "none"
    BY <1>2 DEF AdminAction, AdminCall
  <2>2. /\ apBegun' \in 0 .. AdminActions
        /\ \A d \in Page!Directories : apAltered'[d] < apBegun' /\ apAltered'[d] <= apBegun'
    BY <1>1, <1>2, AdminParameters DEF AdminTypes
  <2> QED BY <1>1, <1>2, <2>1, <2>2 DEF AdminTypes
<1>4. ManagerShown'
  BY <1>1, <1>2 DEF ManagerShown, GivenUp
<1>5. ASSUME apOthers' = 0, apLost' = 0
      PROVE  Undisturbed' /\ \A d \in Page!Directories : Follows(d)'
  <2>1. Undisturbed /\ \A d \in Page!Directories : Follows(d)
    BY <1>2, <1>5 DEF AdminInv
  <2>2. Undisturbed'
    BY <1>2, <2>1 DEF Undisturbed, GivenUp
  <2> QED BY <1>2, <2>1, <2>2 DEF Follows
<1> QED BY <1>3, <1>4, <1>5 DEF AdminInv

LEMMA AdminElseEnded ==
  ASSUME AdminInv, Page!ElseEnded
  PROVE  AdminInv'
<1>1. AdminTypes /\ ManagerShown
  BY DEF AdminInv
<1>2. /\ apOthers < AdminElsewhere /\ apOthers' = apOthers + 1
      /\ UNCHANGED <<apShown, apDraft, apAction, apProfile, apListed, apLoads, apAltered,
                     apCreated, apBegun, apTyped, apLost>>
  BY DEF Page!ElseEnded, Page!page
<1>3. apManager' \in BOOLEAN /\ apSession' \in BOOLEAN /\ ~(apSession' /\ apManager')
  BY <1>1 DEF Page!ElseEnded, AdminTypes
<1>4. AdminTypes'
  <2>1. apOthers' \in 0 .. AdminElsewhere
    BY <1>1, <1>2, AdminParameters DEF AdminTypes
  <2> QED BY <1>1, <1>2, <1>3, <2>1 DEF AdminTypes
<1>5. ManagerShown'
  BY <1>1, <1>2, <1>3 DEF ManagerShown, GivenUp
<1>6. apOthers' # 0
  BY <1>1, <1>2, AdminParameters DEF AdminTypes
<1> QED BY <1>4, <1>5, <1>6 DEF AdminInv

LEMMA AdminStep == AdminInv /\ [Page!Next]_adminVars => AdminInv'
<1> SUFFICES ASSUME AdminInv, [Page!Next]_adminVars PROVE AdminInv'
  OBVIOUS
<1>1. CASE Page!Next
  BY <1>1, AdminServesAction, AdminServesProfile, AdminAnswersProfile, AdminEndsAction, AdminActionDone,
     AdminRefresh, AdminServesLoad, AdminLoadOver, AdminTyped, AdminSavesProfile, AdminBegins,
     AdminElseEnded, Zenon DEF Page!Next, Page!Progress
<1>2. CASE UNCHANGED adminVars
  BY <1>2 DEF adminVars, AdminInv, AdminTypes, ManagerShown, Undisturbed, GivenUp, Follows
<1> QED BY <1>1, <1>2

LEMMA AdminLives == [BrowserNext]_browserVars => [Page!Next]_adminVars
BY DEF BrowserNext, OthersStill, browserVars

\* The account, the session, the draft and the directories of an administrator's page
\* are as AdminInv says in every state of a browser.
THEOREM AdminHolds == BrowserSpec => []AdminInv
<1>1. BrowserInit => AdminInv
  BY AdminInitial DEF BrowserInit
<1>2. AdminInv /\ [BrowserNext]_browserVars => AdminInv'
  BY AdminLives, AdminStep
<1> QED BY <1>1, <1>2, PTL DEF BrowserSpec

\* AdminProfile.vue: without another administrator in the way and with every answer
\* read, the privilege shown and the directories are those of the server; a draft is
\* shown, and goes only once its account exists or with the permission.
THEOREM AdminPageIsTrue == BrowserSpec => AdminPageTrue
<1>1. AdminInv => Page!NoHiddenDraft
  BY DEF AdminInv, ManagerShown, Page!NoHiddenDraft
<1>2. AdminInv => Page!PrivilegeIsShown
  BY DEF AdminInv, AdminTypes, Undisturbed, GivenUp, Page!PrivilegeIsShown, Page!Quiet, Page!actionPending
<1>3. AdminInv => Page!DirectoriesFollow
  <2> SUFFICES ASSUME AdminInv, Page!Quiet, apOthers = 0, apLost = 0 PROVE apListed = apAltered
    BY DEF Page!DirectoriesFollow
  <2>1. ASSUME NEW d \in Page!Directories PROVE apListed[d] = apAltered[d]
    <3>1. Follows(d)
      BY DEF AdminInv
    <3>2. apAction.call.stage = "none" /\ apLoads[d].stage = "none"
      BY DEF Page!Quiet, Page!actionPending, Page!NoLoad
    <3> QED BY <3>1, <3>2 DEF Follows
  <2> QED BY <2>1 DEF AdminInv, AdminTypes
<1>4. AdminInv /\ [BrowserNext]_browserVars
      => [apDraft # 0 /\ apDraft' = 0 => apDraft \in apCreated \/ ~apShown']_(Page!vars)
  <2> SUFFICES ASSUME AdminInv, Page!Next, apDraft # 0, apDraft' = 0, apShown'
               PROVE  apDraft \in apCreated
    BY AdminLives DEF adminVars, Page!vars, Page!page, Page!counts
  <2>1. AdminTypes /\ ManagerShown
    BY DEF AdminInv
  <2>2. CASE Page!ActionDone
    BY <2>1, <2>2 DEF Page!ActionDone, Page!SetCurrentAdmin, ManagerShown, AdminTypes
  <2>3. CASE Page!ProfileAnswered
    BY <2>3 DEF Page!ProfileAnswered, Page!SetCurrentAdmin, Page!Hidden
  <2>4. CASE Page!Type
    BY <2>1, <2>4, AdminParameters DEF Page!Type, AdminTypes
  <2>5. CASE ~(Page!ActionDone \/ Page!ProfileAnswered \/ Page!Type)
    BY <2>5 DEF Page!Next, Page!Progress, Page!ServeAction, Page!ServeProfile, Page!ActionFails,
       Page!Refresh, Page!ActionOver, Page!ServeLoad, Page!LoadOver, Page!SaveProfile, Page!Begin,
       Page!ElseEnded, Page!page
  <2> QED BY <2>2, <2>3, <2>4, <2>5
<1> QED BY <1>1, <1>2, <1>3, <1>4, AdminHolds, PTL DEF AdminPageTrue, Page!DraftIsUsed, BrowserSpec

-----------------------------------------------------------------------------
(* The two forms of an account *)

Account == [name : ProfileNames, email : Addresses]
FormCall == [stage : {"idle", "sent", "executed"}, value : ProfileNames \cup Addresses \cup {None},
             answer : Account \cup {None}]

\* Stronger than TypeOK by what the calls of each form carry.
DraftTypes ==
  /\ pdServer \in Account /\ pdShown \in Account
  /\ pdEditing \in BOOLEAN /\ pdPassword \in BOOLEAN /\ pdUnsure \in BOOLEAN
  /\ pdDraft \in ProfileNames \cup {None} /\ pdTyped \in ProfileNames \cup {None}
  /\ pdDraft = None <=> ~pdEditing
  /\ pdEmail \in Spellings /\ pdOvertakes \in Nat
  /\ pdCalls \in [Draft!Forms -> FormCall]
  /\ \A f \in Draft!Forms :
       /\ pdCalls[f].stage = "idle" => pdCalls[f] = Draft!Idle
       /\ pdCalls[f].stage = "executed" => pdCalls[f].answer \in Account
  /\ pdCalls["profile"].stage # "idle" => pdEditing /\ pdCalls["profile"].value \in ProfileNames
  /\ pdCalls["credentials"].stage # "idle" => pdCalls["credentials"].value \in Addresses \cup {None}

\* What was typed and not yet confirmed is in the form.
TypedIsThere == pdTyped # None => pdEditing /\ pdDraft = pdTyped

\* Each form's own field is shown as it is stored while no change of it is executed
\* and unanswered.  The answer of the last executed is the account as stored, and
\* the one of the first of two has its own field as stored and the other's as shown.
AnswersAreTrue ==
  LET profile == pdCalls["profile"]
      credentials == pdCalls["credentials"]
      both == profile.stage = "executed" /\ credentials.stage = "executed" IN
  /\ profile.stage # "executed" => pdShown.name = pdServer.name
  /\ credentials.stage # "executed" => pdShown.email = pdServer.email
  /\ profile.stage = "executed" /\ ~both => profile.answer = pdServer
  /\ credentials.stage = "executed" /\ ~both => credentials.answer = pdServer
  /\ both /\ pdFirst = "profile" =>
       /\ profile.answer.name = pdServer.name /\ profile.answer.email = pdShown.email
       /\ credentials.answer = pdServer
  /\ both /\ pdFirst # "profile" =>
       /\ pdFirst = "credentials"
       /\ credentials.answer.email = pdServer.email /\ credentials.answer.name = pdShown.name
       /\ profile.answer = pdServer

DraftInv ==
  /\ DraftTypes /\ TypedIsThere
  /\ ~pdUnsure /\ pdOvertakes = 0 => AnswersAreTrue /\ (pdEditing => pdOriginal = pdShown.name)


LEMMA DraftParameters ==
  /\ Addresses \subseteq Spellings /\ \A s \in Spellings : Normal(s) \in Addresses
  /\ \A e \in Addresses : Normal(e) = e
  /\ None \notin ProfileNames \cup Spellings /\ Overtaking \in Nat
BY BrowserAssumption DEF Draft!DraftAssumption

LEMMA AccountMoves ==
  ASSUME NEW c \in Account, NEW d \in Account, NEW v
  PROVE  /\ c.name \in ProfileNames /\ c.email \in Addresses
         /\ c.name = d.name /\ c.email = d.email => c = d
         /\ [c EXCEPT !.name = v] = [name |-> v, email |-> c.email]
         /\ [c EXCEPT !.email = v] = [name |-> c.name, email |-> v]
BY DEF Account

LEMMA FormNames == Draft!Forms = {"profile", "credentials"}
BY DEF Draft!Forms

LEMMA DraftInitial == Draft!Init => DraftInv
<1> SUFFICES ASSUME Draft!Init PROVE DraftInv
  OBVIOUS
<1> USE DEF Draft!Init
<1>1. pdServer \in Account /\ pdShown = pdServer /\ pdShown.email \in Addresses
  <2>1. pdServer \in Account
    BY DEF Account
  <2> QED BY <2>1 DEF Account
<1>2. \A f \in Draft!Forms : pdCalls[f] = Draft!Idle
  OBVIOUS
<1>3. pdCalls \in [Draft!Forms -> FormCall] /\ Draft!Idle.stage = "idle"
  <2>1. Draft!Idle \in FormCall /\ Draft!Idle.stage = "idle"
    BY DEF Draft!Idle, FormCall
  <2> QED BY <2>1
<1>4. pdCalls["profile"].stage = "idle" /\ pdCalls["credentials"].stage = "idle"
  BY <1>2, <1>3, FormNames
<1>5. DraftTypes
  BY <1>1, <1>2, <1>3, <1>4, DraftParameters DEF DraftTypes
<1>6. AnswersAreTrue
  BY <1>1, <1>4 DEF AnswersAreTrue
<1> QED BY <1>5, <1>6 DEF DraftInv, TypedIsThere

LEMMA DraftTyping ==
  ASSUME DraftInv, Draft!Edit \/ Draft!Discard \/ (\E n \in ProfileNames : Draft!TypeName(n)) \/ Draft!TypeCredentials
  PROVE  DraftInv'
<1>1. DraftTypes /\ TypedIsThere
  BY DEF DraftInv
<1>2. UNCHANGED <<pdServer, pdShown, pdCalls, pdFirst, pdOvertakes, pdUnsure>>
  BY DEF Draft!Edit, Draft!Discard, Draft!TypeName, Draft!TypeCredentials
<1>3. pdShown.name \in ProfileNames
  BY <1>1, AccountMoves DEF DraftTypes
<1>4. CASE Draft!Edit
  <2>1. /\ ~pdEditing /\ pdEditing' /\ pdOriginal' = pdShown.name /\ pdDraft' = pdShown.name
        /\ UNCHANGED <<pdEmail, pdPassword, pdTyped>>
    BY <1>4 DEF Draft!Edit
  <2>2. pdTyped = None /\ pdEditing' \in BOOLEAN
    BY <2>1, <1>1, <1>4 DEF TypedIsThere, Draft!Edit
  <2>3. DraftTypes' /\ TypedIsThere'
    BY <1>1, <1>2, <1>3, <2>1, <2>2, DraftParameters DEF DraftTypes, TypedIsThere
  <2> QED BY <1>2, <2>1, <2>3 DEF DraftInv, AnswersAreTrue
<1>5. ASSUME NEW n \in ProfileNames, Draft!TypeName(n) PROVE DraftInv'
  <2>1. /\ pdEditing /\ pdDraft' = n /\ pdTyped' = n
        /\ UNCHANGED <<pdEditing, pdOriginal, pdEmail, pdPassword>>
    BY <1>5 DEF Draft!TypeName
  <2>2. DraftTypes' /\ TypedIsThere'
    BY <1>1, <1>2, <2>1, DraftParameters DEF DraftTypes, TypedIsThere
  <2> QED BY <1>2, <2>1, <2>2 DEF DraftInv, AnswersAreTrue
<1>6. CASE Draft!TypeCredentials
  <2>1. /\ pdEmail' \in Spellings /\ pdPassword' \in BOOLEAN
        /\ UNCHANGED <<pdEditing, pdDraft, pdOriginal, pdTyped>>
    BY <1>6 DEF Draft!TypeCredentials
  <2>2. DraftTypes' /\ TypedIsThere'
    BY <1>1, <1>2, <2>1 DEF DraftTypes, TypedIsThere
  <2> QED BY <1>2, <2>1, <2>2 DEF DraftInv, AnswersAreTrue
<1>7. CASE Draft!Discard
  <2>1. /\ pdEditing' = FALSE /\ pdDraft' = None /\ pdTyped' = None
        /\ pdCalls["profile"] = Draft!Idle
        /\ UNCHANGED <<pdOriginal, pdEmail, pdPassword>>
    BY <1>7 DEF Draft!Discard, Draft!Pending
  <2>2. pdCalls["profile"].stage = "idle"
    BY <2>1 DEF Draft!Idle
  <2>3. DraftTypes' /\ TypedIsThere'
    BY <1>1, <1>2, <2>1, <2>2, DraftParameters DEF DraftTypes, TypedIsThere
  <2> QED BY <1>2, <2>1, <2>3 DEF DraftInv, AnswersAreTrue
<1> QED BY <1>4, <1>5, <1>6, <1>7

\* A call that begins, or ends without an answer that counts, executes nothing.
LEMMA DraftCallMoves ==
  ASSUME DraftInv, NEW form \in Draft!Forms, NEW c \in FormCall,
         pdCalls' = [pdCalls EXCEPT ![form] = c], pdCalls[form].stage # "executed",
         \/ c = Draft!Idle
         \/ /\ c.stage = "sent"
            /\ form = "profile" => pdEditing /\ c.value \in ProfileNames
            /\ form = "credentials" => c.value \in Addresses \cup {None},
         UNCHANGED <<pdServer, pdShown, pdEditing, pdDraft, pdOriginal, pdEmail, pdPassword, pdFirst,
                     pdOvertakes, pdTyped, pdUnsure>>
  PROVE  DraftInv'
<1>1. DraftTypes /\ TypedIsThere /\ Draft!Idle.stage = "idle"
  BY DEF DraftInv, Draft!Idle
<1>2. /\ pdCalls' \in [Draft!Forms -> FormCall] /\ pdCalls'[form] = c
      /\ \A f \in Draft!Forms : f # form => pdCalls'[f] = pdCalls[f]
      /\ c.stage # "executed"
  BY <1>1 DEF DraftTypes
<1>3. DraftTypes'
  BY <1>1, <1>2, FormNames DEF DraftTypes
<1>4. TypedIsThere'
  BY <1>1 DEF TypedIsThere
<1>5. AnswersAreTrue => AnswersAreTrue'
  BY <1>1, <1>2, FormNames DEF AnswersAreTrue
<1> QED BY <1>3, <1>4, <1>5 DEF DraftInv

LEMMA DraftSubmits ==
  ASSUME DraftInv, Draft!SaveProfile \/ Draft!SaveCredentials
  PROVE  DraftInv'
<1> DEFINE sent(v) == [stage |-> "sent", value |-> v, answer |-> None]
<1>1. DraftTypes
  BY DEF DraftInv
<1>2. ASSUME NEW form \in Draft!Forms, NEW v, Draft!Submit(form, v),
             form = "profile" => pdEditing /\ v \in ProfileNames,
             form = "credentials" => v \in Addresses \cup {None}
      PROVE  DraftInv'
  <2>1. sent(v) \in FormCall /\ sent(v).stage = "sent" /\ sent(v).value = v
    BY <1>2, FormNames DEF FormCall
  <2>2. pdCalls[form].stage # "executed"
    BY <1>2 DEF Draft!Submit, Draft!Pending, Draft!Idle
  <2>3. /\ pdCalls' = [pdCalls EXCEPT ![form] = sent(v)]
        /\ UNCHANGED <<pdServer, pdShown, pdEditing, pdDraft, pdOriginal, pdEmail, pdPassword, pdFirst,
                       pdOvertakes, pdTyped, pdUnsure>>
    BY <1>2 DEF Draft!Submit
  <2> HIDE DEF sent
  <2> QED BY <1>2, <2>1, <2>2, <2>3, DraftCallMoves
<1>3. CASE Draft!SaveProfile
  <2>1. pdEditing /\ Draft!Submit("profile", pdDraft) /\ pdDraft \in ProfileNames
    BY <1>1, <1>3 DEF Draft!SaveProfile, DraftTypes
  <2> QED BY <2>1, <1>2, FormNames
<1>4. CASE Draft!SaveCredentials
  <2> DEFINE v == IF Draft!ChangesEmail THEN Normal(pdEmail) ELSE None
  <2>1. Draft!Submit("credentials", v)
    BY <1>4 DEF Draft!SaveCredentials
  <2>2. v \in Addresses \cup {None}
    BY <1>1, DraftParameters DEF DraftTypes
  <2> HIDE DEF v
  <2> QED BY <2>1, <2>2, <1>2, FormNames
<1> QED BY <1>3, <1>4

LEMMA DraftNotConfirmed ==
  ASSUME DraftInv, NEW form \in Draft!Forms, Draft!NotConfirmed(form)
  PROVE  DraftInv'
<1>1. /\ pdCalls' = [pdCalls EXCEPT ![form] = Draft!Idle]
      /\ UNCHANGED <<pdServer, pdShown, pdEditing, pdDraft, pdOriginal, pdEmail, pdPassword, pdFirst,
                     pdOvertakes, pdTyped>>
      /\ pdUnsure' = TRUE \/ (pdUnsure' = pdUnsure /\ pdCalls[form].stage = "sent")
  BY DEF Draft!NotConfirmed
<1>2. Draft!Idle \in FormCall /\ Draft!Idle.stage = "idle"
  BY DEF Draft!Idle, FormCall
<1>3. CASE pdUnsure' = pdUnsure /\ pdCalls[form].stage = "sent"
  BY <1>1, <1>2, <1>3, DraftCallMoves
<1>4. CASE pdUnsure' = TRUE
  <2>1. DraftTypes /\ TypedIsThere
    BY DEF DraftInv
  <2>2. /\ pdCalls' \in [Draft!Forms -> FormCall] /\ pdCalls'[form] = Draft!Idle
        /\ \A f \in Draft!Forms : f # form => pdCalls'[f] = pdCalls[f]
    BY <1>1, <1>2, <2>1 DEF DraftTypes
  <2>3. pdUnsure' \in BOOLEAN
    BY <1>4
  <2>4. DraftTypes'
    BY <1>1, <1>2, <2>1, <2>2, <2>3, FormNames DEF DraftTypes
  <2> QED BY <1>1, <1>4, <2>1, <2>4 DEF DraftInv, TypedIsThere
<1> QED BY <1>1, <1>3, <1>4

LEMMA DraftExecutes ==
  ASSUME DraftInv, NEW form \in Draft!Forms, Draft!Execute(form)
  PROVE  DraftInv'
<1> DEFINE v == pdCalls[form].value
           profile == pdCalls["profile"]
           credentials == pdCalls["credentials"]
<1>1. DraftTypes /\ TypedIsThere /\ pdServer \in Account /\ pdShown \in Account
  BY DEF DraftInv, DraftTypes
<1>2. /\ pdCalls[form].stage = "sent" /\ pdServer' = Draft!Written(form, v)
      /\ pdCalls' = [pdCalls EXCEPT ![form].stage = "executed", ![form].answer = pdServer']
      /\ pdFirst' = IF pdCalls[Draft!Other(form)].stage = "executed" THEN Draft!Other(form) ELSE form
      /\ UNCHANGED <<pdShown, pdEditing, pdDraft, pdOriginal, pdEmail, pdPassword, pdOvertakes,
                     pdTyped, pdUnsure>>
  BY DEF Draft!Execute
<1>3. /\ pdServer' \in Account
      /\ form = "profile" => pdServer'.email = pdServer.email
      /\ form = "credentials" => pdServer'.name = pdServer.name
  <2>1. CASE v = None
    BY <2>1, <1>1, <1>2 DEF Draft!Written
  <2>2. CASE v # None /\ form = "profile"
    <3>1. v \in ProfileNames
      BY <2>2, <1>1, <1>2 DEF DraftTypes
    <3>2. pdServer' = [name |-> v, email |-> pdServer.email]
      BY <2>2, <1>1, <1>2, AccountMoves DEF Draft!Written
    <3> QED BY <2>2, <3>1, <3>2, <1>1, AccountMoves DEF Account
  <2>3. CASE v # None /\ form = "credentials"
    <3>1. v \in Addresses
      BY <2>3, <1>1, <1>2 DEF DraftTypes
    <3>2. pdServer' = [name |-> pdServer.name, email |-> v]
      BY <2>3, <1>1, <1>2, AccountMoves DEF Draft!Written
    <3> QED BY <2>3, <3>1, <3>2, <1>1, AccountMoves DEF Account
  <2> QED BY <2>1, <2>2, <2>3, FormNames
<1>4. /\ pdCalls' \in [Draft!Forms -> FormCall]
      /\ pdCalls'[form] = [stage |-> "executed", value |-> v, answer |-> pdServer']
      /\ \A f \in Draft!Forms : f # form => pdCalls'[f] = pdCalls[f]
  <2> DEFINE g == [pdCalls EXCEPT ![form].stage = "executed"]
  <2>1. pdCalls \in [Draft!Forms -> FormCall]
    BY <1>1 DEF DraftTypes
  <2>2. /\ DOMAIN g = Draft!Forms /\ \A f \in Draft!Forms : f # form => g[f] = pdCalls[f]
        /\ g[form] = [pdCalls[form] EXCEPT !.stage = "executed"]
    BY <2>1
  <2>3. g[form] = [stage |-> "executed", value |-> v, answer |-> pdCalls[form].answer]
    BY <2>1, <2>2 DEF FormCall
  <2>4. pdCalls' = [g EXCEPT ![form].answer = pdServer']
    BY <1>2, Zenon
  <2> HIDE DEF g
  <2>5. /\ pdCalls' = [f \in Draft!Forms |-> IF f = form THEN [g[form] EXCEPT !.answer = pdServer'] ELSE g[f]]
    BY <2>2, <2>4
  <2>6. [g[form] EXCEPT !.answer = pdServer'] = [stage |-> "executed", value |-> v, answer |-> pdServer']
    BY <2>3
  <2>7. /\ pdCalls'[form] = [stage |-> "executed", value |-> v, answer |-> pdServer']
        /\ \A f \in Draft!Forms : f # form => pdCalls'[f] = pdCalls[f]
        /\ pdCalls' = [f \in Draft!Forms |-> pdCalls'[f]]
    BY <2>2, <2>5, <2>6
  <2>8. pdCalls'[form] \in FormCall
    BY <2>1, <2>7, <1>3 DEF FormCall
  <2> QED BY <2>1, <2>7, <2>8
<1> HIDE DEF v
<1>5. DraftTypes'
  <2>1. pdCalls'[form].stage = "executed" /\ pdCalls'[form].value = pdCalls[form].value
        /\ pdCalls'[form].answer \in Account
    BY <1>3, <1>4 DEF v
  <2> QED BY <1>1, <1>2, <1>3, <1>4, <2>1, FormNames DEF DraftTypes
<1>6. TypedIsThere'
  BY <1>1, <1>2 DEF TypedIsThere
<1>7. ASSUME AnswersAreTrue PROVE AnswersAreTrue'
  <2>1. CASE form = "profile"
    <3>1. /\ profile'.stage = "executed" /\ profile'.answer = pdServer' /\ credentials' = credentials
          /\ pdServer'.email = pdServer.email
          /\ pdFirst' = IF credentials.stage = "executed" THEN "credentials" ELSE "profile"
      BY <2>1, <1>2, <1>3, <1>4, FormNames DEF Draft!Other
    <3>2. profile.stage = "sent"
      BY <2>1, <1>2
    <3> QED BY <3>1, <3>2, <1>2, <1>7 DEF AnswersAreTrue
  <2>2. CASE form = "credentials"
    <3>1. /\ credentials'.stage = "executed" /\ credentials'.answer = pdServer' /\ profile' = profile
          /\ pdServer'.name = pdServer.name
          /\ pdFirst' = IF profile.stage = "executed" THEN "profile" ELSE "credentials"
      BY <2>2, <1>2, <1>3, <1>4, FormNames DEF Draft!Other
    <3>2. credentials.stage = "sent"
      BY <2>2, <1>2
    <3> QED BY <3>1, <3>2, <1>2, <1>7 DEF AnswersAreTrue
  <2> QED BY <2>1, <2>2, FormNames
<1> QED BY <1>2, <1>5, <1>6, <1>7 DEF DraftInv

\* setCurrentUser(): the account is shown, and the form has an address.
LEMMA DraftShows ==
  ASSUME DraftTypes, NEW account \in Account, Draft!SetCurrent(account)
  PROVE  pdShown' = account /\ pdEmail' \in Spellings
<1>1. account.email \in Spellings /\ pdEmail \in Spellings
  BY AccountMoves, DraftParameters DEF DraftTypes
<1> QED BY <1>1 DEF Draft!SetCurrent, Draft!Followed

LEMMA DraftProfileSaved ==
  ASSUME DraftInv, Draft!ProfileSaved
  PROVE  DraftInv'
<1> DEFINE profile == pdCalls["profile"]
           credentials == pdCalls["credentials"]
<1>1. DraftTypes /\ TypedIsThere /\ profile.stage = "executed" /\ profile.answer \in Account
      /\ Draft!Idle.stage = "idle" /\ Draft!Idle \in FormCall
  BY FormNames DEF DraftInv, DraftTypes, Draft!ProfileSaved, Draft!Idle, FormCall
<1>2. /\ pdShown' = profile.answer /\ pdEmail' \in Spellings
      /\ pdCalls' = [pdCalls EXCEPT !["profile"] = Draft!Idle]
      /\ pdTyped' = IF pdTyped = profile.value THEN None ELSE pdTyped
      /\ IF pdDraft # profile.value
         THEN pdOriginal' = pdShown'.name /\ UNCHANGED <<pdEditing, pdDraft>>
         ELSE pdEditing' = FALSE /\ pdDraft' = None
      /\ UNCHANGED <<pdServer, pdPassword, pdFirst, pdUnsure>>
  <2>1. Draft!SetCurrent(profile.answer)
    BY DEF Draft!ProfileSaved, Draft!Updated
  <2> QED BY <2>1, <1>1, DraftShows DEF Draft!ProfileSaved, Draft!Newer
<1>3. /\ pdOvertakes' \in Nat
      /\ pdOvertakes' = 0 => /\ pdOvertakes = 0
                             /\ credentials.stage = "executed" => pdFirst = "profile"
  BY <1>1 DEF DraftTypes, Draft!ProfileSaved, Draft!InTurn, Draft!Other
<1>4. /\ pdCalls' \in [Draft!Forms -> FormCall] /\ profile' = Draft!Idle /\ credentials' = credentials
      /\ \A f \in Draft!Forms : f # "profile" => pdCalls'[f] = pdCalls[f]
  BY <1>1, <1>2, FormNames DEF DraftTypes
<1>5. TypedIsThere' /\ (pdDraft' = None <=> ~pdEditing') /\ pdEditing' \in BOOLEAN
      /\ pdDraft' \in ProfileNames \cup {None} /\ pdTyped' \in ProfileNames \cup {None}
  BY <1>1, <1>2 DEF TypedIsThere, DraftTypes
<1>6. DraftTypes'
  BY <1>1, <1>2, <1>3, <1>4, <1>5, FormNames DEF DraftTypes
<1>7. ASSUME ~pdUnsure', pdOvertakes' = 0
      PROVE  AnswersAreTrue' /\ (pdEditing' => pdOriginal' = pdShown'.name)
  <2>1. AnswersAreTrue /\ (credentials.stage = "executed" => pdFirst = "profile")
    BY <1>2, <1>3, <1>7 DEF DraftInv
  <2>2. CASE credentials.stage = "executed"
    BY <2>1, <2>2, <1>1, <1>2, <1>4 DEF AnswersAreTrue
  <2>3. CASE credentials.stage # "executed"
    BY <2>1, <2>3, <1>1, <1>2, <1>4 DEF AnswersAreTrue
  <2> QED BY <2>2, <2>3
<1> QED BY <1>5, <1>6, <1>7 DEF DraftInv

LEMMA DraftCredentialsSaved ==
  ASSUME DraftInv, Draft!CredentialsSaved
  PROVE  DraftInv'
<1> DEFINE profile == pdCalls["profile"]
           credentials == pdCalls["credentials"]
<1>1. DraftTypes /\ TypedIsThere /\ credentials.stage = "executed" /\ credentials.answer \in Account
      /\ Draft!Idle.stage = "idle" /\ Draft!Idle \in FormCall
  BY FormNames DEF DraftInv, DraftTypes, Draft!CredentialsSaved, Draft!Idle, FormCall
<1>2. /\ pdShown' = credentials.answer /\ pdEmail' \in Spellings /\ pdPassword' = FALSE
      /\ pdCalls' = [pdCalls EXCEPT !["credentials"] = Draft!Idle]
      /\ UNCHANGED <<pdServer, pdEditing, pdDraft, pdOriginal, pdFirst, pdTyped, pdUnsure>>
  <2>1. Draft!SetCurrent(credentials.answer)
    BY DEF Draft!CredentialsSaved, Draft!Updated
  <2> QED BY <2>1, <1>1, DraftShows DEF Draft!CredentialsSaved
<1>3. /\ pdOvertakes' \in Nat
      /\ pdOvertakes' = 0 => /\ pdOvertakes = 0
                             /\ profile.stage = "executed" => pdFirst = "credentials"
  BY <1>1 DEF DraftTypes, Draft!CredentialsSaved, Draft!InTurn, Draft!Other
<1>4. /\ pdCalls' \in [Draft!Forms -> FormCall] /\ credentials' = Draft!Idle /\ profile' = profile
      /\ \A f \in Draft!Forms : f # "credentials" => pdCalls'[f] = pdCalls[f]
  BY <1>1, <1>2, FormNames DEF DraftTypes
<1>5. pdPassword' \in BOOLEAN
  BY <1>2
<1>6. DraftTypes' /\ TypedIsThere'
  BY <1>1, <1>2, <1>3, <1>4, <1>5, FormNames DEF DraftTypes, TypedIsThere
<1>7. ASSUME ~pdUnsure', pdOvertakes' = 0
      PROVE  AnswersAreTrue' /\ (pdEditing' => pdOriginal' = pdShown'.name)
  <2>1. /\ AnswersAreTrue /\ (pdEditing => pdOriginal = pdShown.name)
        /\ profile.stage = "executed" => pdFirst = "credentials"
    BY <1>2, <1>3, <1>7 DEF DraftInv
  <2>2. CASE profile.stage = "executed"
    BY <2>1, <2>2, <1>1, <1>2, <1>4 DEF AnswersAreTrue
  <2>3. CASE profile.stage # "executed"
    BY <2>1, <2>3, <1>1, <1>2, <1>4 DEF AnswersAreTrue
  <2> QED BY <2>2, <2>3
<1> QED BY <1>6, <1>7 DEF DraftInv

LEMMA DraftStep == DraftInv /\ [Draft!Next]_draftVars => DraftInv'
<1> SUFFICES ASSUME DraftInv, [Draft!Next]_draftVars PROVE DraftInv'
  OBVIOUS
<1>1. CASE Draft!Next
  BY <1>1, DraftTyping, DraftSubmits, DraftProfileSaved, DraftCredentialsSaved, DraftExecutes,
     DraftNotConfirmed, Zenon DEF Draft!Next
<1>2. CASE UNCHANGED draftVars
  BY <1>2 DEF draftVars, DraftInv, DraftTypes, TypedIsThere, AnswersAreTrue
<1> QED BY <1>1, <1>2

LEMMA DraftLives == [BrowserNext]_browserVars => [Draft!Next]_draftVars
BY DEF BrowserNext, OthersStill, browserVars

\* What was typed is in the form, and what the forms show and were answered is what
\* the server stored, as DraftInv says, in every state of a browser.
THEOREM DraftHolds == BrowserSpec => []DraftInv
<1>1. BrowserInit => DraftInv
  BY DraftInitial DEF BrowserInit
<1>2. DraftInv /\ [BrowserNext]_browserVars => DraftInv'
  BY DraftLives, DraftStep
<1> QED BY <1>1, <1>2, PTL DEF BrowserSpec

\* useEditable.ts, ChangeCredentials.vue: what was typed stays until a save of just
\* that is confirmed or it is discarded, what the server does not have is counted as
\* unsaved, and with every answer read in its turn the account shown is the one stored.
THEOREM FormsAreKept == BrowserSpec => FormsKeep
<1>1. DraftInv => Draft!WorkIsKept
  <2> SUFFICES ASSUME DraftInv PROVE Draft!WorkIsKept
    OBVIOUS
  <2>1. DraftTypes /\ TypedIsThere
    BY DEF DraftInv
  <2>2. /\ pdCalls["profile"].stage # "idle" => Draft!Pending("profile")
        /\ pdCalls["credentials"].stage # "idle" => Draft!Pending("credentials")
    BY DEF Draft!Pending, Draft!Idle
  <2>3. ASSUME ~pdUnsure, pdOvertakes = 0, pdTyped # None, pdTyped # pdServer.name
        PROVE  Draft!UnsavedProfile
    <3>1. AnswersAreTrue /\ pdEditing /\ pdDraft = pdTyped /\ pdOriginal = pdShown.name
      BY <2>1, <2>3 DEF DraftInv, TypedIsThere
    <3>2. pdCalls["profile"].stage # "executed" => pdOriginal = pdServer.name
      BY <3>1 DEF AnswersAreTrue
    <3> QED BY <2>2, <2>3, <3>1, <3>2 DEF Draft!UnsavedProfile
  <2>4. ASSUME ~pdUnsure, pdOvertakes = 0, Normal(pdEmail) # pdServer.email
        PROVE  Draft!UnsavedCredentials
    <3>1. AnswersAreTrue
      BY <2>4 DEF DraftInv
    <3>2. pdCalls["credentials"].stage # "executed" => pdShown.email = pdServer.email
      BY <3>1 DEF AnswersAreTrue
    <3>3. pdEmail = pdShown.email => Normal(pdEmail) = pdShown.email
      BY <2>1, AccountMoves, DraftParameters DEF DraftTypes
    <3> QED BY <2>2, <2>4, <3>2, <3>3 DEF Draft!UnsavedCredentials
  <2> QED BY <2>1, <2>3, <2>4 DEF Draft!WorkIsKept, TypedIsThere
<1>2. DraftInv => Draft!ConfirmedIsShown
  <2> SUFFICES ASSUME DraftInv, ~Draft!Pending("profile"), ~Draft!Pending("credentials"),
                      ~pdUnsure, pdOvertakes = 0
               PROVE  pdShown = pdServer
    BY DEF Draft!ConfirmedIsShown
  <2>1. pdCalls["profile"].stage = "idle" /\ pdCalls["credentials"].stage = "idle"
    BY DEF Draft!Pending, Draft!Idle
  <2>2. pdShown.name = pdServer.name /\ pdShown.email = pdServer.email
    BY <2>1 DEF DraftInv, AnswersAreTrue
  <2> QED BY <2>2, AccountMoves DEF DraftInv, DraftTypes
<1>3. [BrowserNext]_browserVars
      => [/\ Draft!ProfileSaved /\ pdEmail # pdShown.email => pdEmail' = pdEmail
          /\ pdShown' # pdShown /\ pdEmail = pdShown.email => pdEmail' = pdShown'.email]_(Draft!vars)
  <2> SUFFICES ASSUME Draft!Next
               PROVE  /\ Draft!ProfileSaved /\ pdEmail # pdShown.email => pdEmail' = pdEmail
                      /\ pdShown' # pdShown /\ pdEmail = pdShown.email => pdEmail' = pdShown'.email
    BY DraftLives DEF draftVars, Draft!vars
  <2>1. ASSUME NEW account, Draft!SetCurrent(account)
        PROVE  /\ pdEmail # pdShown.email => pdEmail' = pdEmail
               /\ pdEmail = pdShown.email => pdEmail' = pdShown'.email
    BY <2>1 DEF Draft!SetCurrent, Draft!Followed
  <2>2. CASE Draft!ProfileSaved \/ Draft!CredentialsSaved
    BY <2>1, <2>2 DEF Draft!ProfileSaved, Draft!CredentialsSaved
  <2>3. CASE ~(Draft!ProfileSaved \/ Draft!CredentialsSaved)
    BY <2>3 DEF Draft!Next, Draft!Edit, Draft!Discard, Draft!TypeName, Draft!SaveProfile, Draft!SaveCredentials,
       Draft!Submit, Draft!TypeCredentials, Draft!Execute, Draft!NotConfirmed
  <2> QED BY <2>2, <2>3
<1> QED BY <1>1, <1>2, <1>3, DraftHolds, PTL DEF FormsKeep, Draft!AddressFollows, BrowserSpec

-----------------------------------------------------------------------------
(* A directory with a choice in it *)

Params == [q : Queries, cursor : Queries \cup {View!Null}]
PageLoad == [who : Accounts, revision : 0 .. ViewSessions, params : Params, sent : BOOLEAN]

Fit(params) == params.cursor \in {View!Null, params.q}

\* Stronger than TypeOK by what each load asks for.
ViewTypes ==
  /\ dvAccount \in Accounts \cup {Nobody, View!Disposed} /\ dvRevision \in 0 .. ViewSessions
  /\ dvTutor \in Tutors \cup {None} /\ dvSelected \in Tutors \cup {None}
  /\ dvQuery \in Queries
  /\ dvLoads \in Seq(PageLoad) /\ dvLatest \in 0 .. Len(dvLoads)
  /\ dvCursors \in [next : Queries \cup {View!Null}, previous : Queries \cup {View!Null}]
  /\ dvCurrent \in Params
  /\ dvLoading \in BOOLEAN /\ dvError \in BOOLEAN /\ dvSaving \in BOOLEAN
  /\ dvLookup \in {"none", "sent", "outdated"}

\* The load that counts is of the present session, and there is one where somebody
\* is signed in; what is shown is of the present session too.
OfTheSession ==
  /\ dvLoading <=> dvLatest # 0 /\ dvLoads[dvLatest].sent
  /\ dvLatest # 0 => dvLoads[dvLatest].who = dvAccount /\ dvLoads[dvLatest].revision = dvRevision
  /\ View!Enabled => dvLatest # 0
  /\ dvItems # View!Empty => dvItems.who = dvAccount /\ dvItems.revision = dvRevision
  /\ View!Enabled /\ ~dvLoading /\ ~dvError =>
       dvItems.q = dvLoads[dvLatest].params.q /\ dvCurrent = dvLoads[dvLatest].params

\* The cursors are of the search of the page shown, and so is the one it was got with.
OfTheSearch ==
  /\ \A i \in 1 .. Len(dvLoads) : Fit(dvLoads[i].params)
  /\ Fit(dvCurrent)
  /\ {dvCursors.next, dvCursors.previous} \subseteq {View!Null, dvCurrent.q}

\* A lookup that still counts was sent after the last choice.
LookupIsNewer == dvSelected # None => dvLookup # "sent"

ViewInv == ViewTypes /\ OfTheSession /\ OfTheSearch /\ LookupIsNewer


LEMMA ViewParameters ==
  /\ Nobody \notin Accounts /\ All \in Queries /\ None \notin Tutors
  /\ ViewLoads \in Nat /\ ViewSessions \in Nat
BY BrowserAssumption DEF View!ViewAssumption

LEMMA ViewPlainParams == View!NoParams \in Params /\ Fit(View!NoParams) /\ View!NoParams.q = All
BY ViewParameters DEF View!NoParams, Params, Fit

LEMMA ViewAppends ==
  ASSUME NEW s \in Seq(PageLoad), NEW e \in PageLoad
  PROVE  /\ Append(s, e) \in Seq(PageLoad) /\ Len(Append(s, e)) = Len(s) + 1 /\ Len(s) \in Nat
         /\ Len(s) + 1 \in 1 .. Len(Append(s, e)) /\ Append(s, e)[Len(s) + 1] = e
         /\ \A i \in 1 .. Len(s) : Append(s, e)[i] = s[i]
         /\ \A i \in 1 .. Len(Append(s, e)) : i \in 1 .. Len(s) \/ i = Len(s) + 1
OBVIOUS

\* A load that is begun counts, and asks for what it was called with.
LEMMA ViewBegins ==
  ASSUME ViewTypes, \A i \in 1 .. Len(dvLoads) : Fit(dvLoads[i].params),
         NEW who \in Accounts, NEW rev \in 0 .. ViewSessions, NEW params \in Params, Fit(params),
         dvLoads' = Append(dvLoads, [who |-> who, revision |-> rev, params |-> params, sent |-> TRUE]),
         dvLatest' = Len(dvLoads) + 1
  PROVE  /\ dvLoads' \in Seq(PageLoad) /\ dvLatest' \in 0 .. Len(dvLoads') /\ dvLatest' # 0
         /\ dvLoads'[dvLatest'].sent /\ dvLoads'[dvLatest'].who = who
         /\ dvLoads'[dvLatest'].revision = rev /\ dvLoads'[dvLatest'].params = params
         /\ \A i \in 1 .. Len(dvLoads') : Fit(dvLoads'[i].params)
<1> DEFINE e == [who |-> who, revision |-> rev, params |-> params, sent |-> TRUE]
<1>1. e \in PageLoad /\ dvLoads \in Seq(PageLoad)
  BY DEF PageLoad, ViewTypes
<1>2. e.sent /\ e.who = who /\ e.revision = rev /\ e.params = params
  OBVIOUS
<1>3. dvLoads' = Append(dvLoads, e)
  OBVIOUS
<1> HIDE DEF e
<1>4. /\ dvLoads' \in Seq(PageLoad) /\ Len(dvLoads') = Len(dvLoads) + 1 /\ Len(dvLoads) \in Nat
      /\ dvLoads'[Len(dvLoads) + 1] = e
      /\ \A i \in 1 .. Len(dvLoads) : dvLoads'[i] = dvLoads[i]
      /\ \A i \in 1 .. Len(dvLoads') : i \in 1 .. Len(dvLoads) \/ i = Len(dvLoads) + 1
  BY <1>1, <1>3, ViewAppends
<1>5. dvLatest' \in 0 .. Len(dvLoads') /\ dvLatest' # 0 /\ dvLoads'[dvLatest'] = e
  BY <1>4
<1>6. ASSUME NEW i \in 1 .. Len(dvLoads') PROVE Fit(dvLoads'[i].params)
  BY <1>2, <1>4
<1> QED BY <1>2, <1>4, <1>5, <1>6

LEMMA ViewAsks ==
  ASSUME ViewInv, View!Enabled, NEW params \in Params, Fit(params), View!Load(params),
         UNCHANGED <<dvQuery, dvItems, dvCursors, dvCurrent, dvSelected, dvLookup, dvSaving,
                     dvAccount, dvTutor, dvRevision>>
  PROVE  ViewInv'
<1>1. dvAccount \in Accounts /\ dvRevision \in 0 .. ViewSessions
  BY DEF ViewInv, ViewTypes, View!Enabled
<1>2. /\ dvLoads' = Append(dvLoads, [who |-> dvAccount, revision |-> dvRevision, params |-> params, sent |-> TRUE])
      /\ dvLatest' = Len(dvLoads) + 1 /\ dvLoading' = TRUE /\ dvError' = FALSE
  BY DEF View!Load
<1>3. /\ dvLoads' \in Seq(PageLoad) /\ dvLatest' \in 0 .. Len(dvLoads') /\ dvLatest' # 0
      /\ dvLoads'[dvLatest'].sent /\ dvLoads'[dvLatest'].who = dvAccount
      /\ dvLoads'[dvLatest'].revision = dvRevision /\ dvLoads'[dvLatest'].params = params
      /\ \A i \in 1 .. Len(dvLoads') : Fit(dvLoads'[i].params)
  BY <1>1, <1>2, ViewBegins DEF ViewInv, OfTheSearch
<1>4. dvLoading' \in BOOLEAN /\ dvError' \in BOOLEAN
  BY <1>2
<1>5. ViewTypes'
  BY <1>2, <1>3, <1>4 DEF ViewInv, ViewTypes
<1>6. OfTheSession'
  BY <1>2, <1>3 DEF ViewInv, OfTheSession, View!Enabled
<1>7. OfTheSearch' /\ LookupIsNewer'
  BY <1>3 DEF ViewInv, OfTheSearch, Fit, LookupIsNewer
<1> QED BY <1>5, <1>6, <1>7 DEF ViewInv

LEMMA ViewMoves ==
  ASSUME ViewInv, View!Search \/ View!NextPage \/ View!PreviousPage \/ View!Refresh \/ View!RefreshAfterAction
  PROVE  ViewInv'
<1> DEFINE untouched == UNCHANGED <<dvQuery, dvItems, dvCursors, dvCurrent, dvSelected, dvLookup, dvSaving,
                                    dvAccount, dvTutor, dvRevision>>
<1>1. /\ dvQuery \in Queries /\ dvCurrent \in Params /\ dvCurrent.q \in Queries /\ Fit(dvCurrent)
      /\ dvCursors.next \in Queries \cup {View!Null} /\ dvCursors.previous \in Queries \cup {View!Null}
      /\ dvCursors.next \in {View!Null, dvCurrent.q} /\ dvCursors.previous \in {View!Null, dvCurrent.q}
  BY DEF ViewInv, ViewTypes, OfTheSearch, Params
<1>2. \E params \in Params : Fit(params) /\ View!Enabled /\ View!Load(params) /\ untouched
  <2>1. ASSUME NEW q \in Queries, NEW c \in {View!Null, q},
               View!Asked([q |-> q, cursor |-> c])
        PROVE  \E params \in Params : Fit(params) /\ View!Enabled /\ View!Load(params) /\ untouched
    <3>1. [q |-> q, cursor |-> c] \in Params /\ Fit([q |-> q, cursor |-> c])
      BY DEF Params, Fit
    <3>2. View!Enabled /\ View!Load([q |-> q, cursor |-> c]) /\ untouched
      BY <2>1 DEF View!Asked, View!choice, View!session
    <3> QED BY <3>1, <3>2
  <2>2. CASE View!Search
    BY <2>2, <2>1, <1>1 DEF View!Search
  <2>3. CASE View!NextPage
    BY <2>3, <2>1, <1>1 DEF View!NextPage, View!PageQuery
  <2>4. CASE View!PreviousPage
    BY <2>4, <2>1, <1>1 DEF View!PreviousPage, View!PageQuery
  <2>5. CASE View!Refresh \/ View!RefreshAfterAction
    <3>1. View!Enabled /\ View!Load(dvCurrent) /\ untouched
      BY <2>5 DEF View!Refresh, View!RefreshAfterAction, View!Asked, View!choice, View!session
    <3> QED BY <3>1, <1>1
  <2> QED BY <2>2, <2>3, <2>4, <2>5
<1>3. PICK params \in Params : Fit(params) /\ View!Enabled /\ View!Load(params) /\ untouched
  BY <1>2
<1> QED BY <1>3, ViewAsks

LEMMA ViewAnswers ==
  ASSUME ViewInv, NEW i \in 1 .. Len(dvLoads), NEW outcome \in {"page", "denied", "failed"},
         View!Answer(i, outcome)
  PROVE  ViewInv'
<1>1. /\ dvLoads \in Seq(PageLoad) /\ dvLoads[i] \in PageLoad /\ dvLoads[i].params \in Params
      /\ Fit(dvLoads[i].params) /\ dvLatest \in 0 .. Len(dvLoads) /\ Len(dvLoads) \in Nat
  <2>1. dvLoads \in Seq(PageLoad) /\ dvLatest \in 0 .. Len(dvLoads) /\ Fit(dvLoads[i].params)
    BY DEF ViewInv, ViewTypes, OfTheSearch
  <2>2. dvLoads[i] \in PageLoad /\ Len(dvLoads) \in Nat
    BY <2>1
  <2> QED BY <2>1, <2>2 DEF PageLoad
<1>2. /\ dvLoads[i].sent /\ dvLoads' = [dvLoads EXCEPT ![i].sent = FALSE]
      /\ UNCHANGED <<dvQuery, dvLatest, dvSelected, dvLookup, dvSaving, dvAccount, dvTutor, dvRevision>>
  BY DEF View!Answer, View!choice, View!session
<1>3. /\ dvLoads' \in Seq(PageLoad) /\ Len(dvLoads') = Len(dvLoads)
      /\ dvLoads'[i] = [who |-> dvLoads[i].who, revision |-> dvLoads[i].revision,
                        params |-> dvLoads[i].params, sent |-> FALSE]
      /\ \A j \in 1 .. Len(dvLoads) : j # i => dvLoads'[j] = dvLoads[j]
  <2> DEFINE e == [who |-> dvLoads[i].who, revision |-> dvLoads[i].revision,
                   params |-> dvLoads[i].params, sent |-> FALSE]
  <2>0. \A c \in PageLoad : \A s : [c EXCEPT !.sent = s]
                = [who |-> c.who, revision |-> c.revision, params |-> c.params, sent |-> s]
    BY DEF PageLoad
  <2>1. [dvLoads[i] EXCEPT !.sent = FALSE] = e /\ e \in PageLoad
    <3>1. e \in PageLoad
      BY <1>1 DEF PageLoad
    <3> QED BY <1>1, <2>0, <3>1
  <2>2. dvLoads' = [dvLoads EXCEPT ![i] = e]
    BY <1>2, <2>1
  <2> HIDE DEF e
  <2>3. /\ dvLoads' \in Seq(PageLoad) /\ Len(dvLoads') = Len(dvLoads) /\ dvLoads'[i] = e
        /\ \A j \in 1 .. Len(dvLoads) : j # i => dvLoads'[j] = dvLoads[j]
    BY <1>1, <2>1, <2>2
  <2> QED BY <2>3 DEF e
<1>4. /\ \A j \in 1 .. Len(dvLoads') : dvLoads'[j].params = dvLoads[j].params
      /\ \A j \in 1 .. Len(dvLoads') : Fit(dvLoads'[j].params)
      /\ dvLatest # 0 => /\ dvLatest \in 1 .. Len(dvLoads)
                         /\ dvLoads'[dvLatest].who = dvLoads[dvLatest].who
                         /\ dvLoads'[dvLatest].revision = dvLoads[dvLatest].revision
                         /\ dvLoads'[dvLatest].params = dvLoads[dvLatest].params
                         /\ i # dvLatest => dvLoads'[dvLatest].sent = dvLoads[dvLatest].sent
  BY <1>1, <1>3 DEF ViewInv, OfTheSearch
<1>5. CASE i # dvLatest
  <2>1. UNCHANGED <<dvItems, dvCursors, dvCurrent, dvError, dvLoading>>
    BY <1>5 DEF View!Answer, View!IsLatest
  <2>2. ViewTypes'
    BY <1>2, <1>3, <2>1 DEF ViewInv, ViewTypes
  <2>3. OfTheSession'
    BY <1>2, <1>4, <1>5, <2>1 DEF ViewInv, OfTheSession, View!Enabled
  <2>4. OfTheSearch' /\ LookupIsNewer'
    BY <1>2, <1>4, <2>1 DEF ViewInv, OfTheSearch, LookupIsNewer, Fit
  <2> QED BY <2>2, <2>3, <2>4 DEF ViewInv
<1>6. CASE i = dvLatest
  <2> DEFINE params == dvLoads[i].params
  <2>0. /\ dvLoading' = FALSE /\ dvError' = (outcome # "page") /\ ~dvLoads'[i].sent
        /\ params.q \in Queries /\ i # 0
    <3>1. dvLoading' = FALSE /\ dvError' = (outcome # "page")
      BY <1>6 DEF View!Answer, View!IsLatest, View!Done
    <3>2. params.q \in Queries
      BY <1>1 DEF Params
    <3>3. ~dvLoads'[i].sent
      BY <1>3
    <3> QED BY <3>1, <3>2, <3>3
  <2>1. CASE outcome = "page"
    <3>1. /\ dvItems' = [who |-> dvLoads[i].who, revision |-> dvLoads[i].revision, q |-> params.q]
          /\ dvCursors' \in [next : {View!Null, params.q}, previous : {View!Null, params.q}]
          /\ dvCurrent' = params
      BY <1>6, <2>1 DEF View!Answer, View!IsLatest
    <3>2. dvItems'.who = dvLoads[i].who /\ dvItems'.revision = dvLoads[i].revision /\ dvItems'.q = params.q
      BY <3>1
    <3>3. /\ dvCursors' \in [next : Queries \cup {View!Null}, previous : Queries \cup {View!Null}]
          /\ {dvCursors'.next, dvCursors'.previous} \subseteq {View!Null, params.q}
      BY <2>0, <3>1
    <3> HIDE DEF params
    <3>4. ViewTypes'
      <4>1. dvLoading' \in BOOLEAN /\ dvError' \in BOOLEAN /\ dvCurrent' \in Params
        BY <2>0, <3>1, <1>1 DEF params
      <4> QED BY <1>2, <1>3, <3>3, <4>1 DEF ViewInv, ViewTypes
    <3>5. OfTheSession'
      BY <1>2, <1>4, <1>6, <2>0, <3>1, <3>2 DEF ViewInv, OfTheSession, View!Enabled, params
    <3>6. OfTheSearch'
      BY <1>1, <1>4, <3>1, <3>3 DEF OfTheSearch, Fit, params
    <3>7. LookupIsNewer'
      BY <1>2 DEF ViewInv, LookupIsNewer
    <3> QED BY <3>4, <3>5, <3>6, <3>7 DEF ViewInv
  <2>2. CASE outcome # "page"
    <3>1. \/ dvItems' = View!Empty /\ dvCursors' = View!NoCursors /\ dvCurrent' = dvCurrent
          \/ UNCHANGED <<dvItems, dvCursors, dvCurrent>>
      BY <1>6, <2>2 DEF View!Answer, View!IsLatest
    <3>2. /\ View!NoCursors \in [next : Queries \cup {View!Null}, previous : Queries \cup {View!Null}]
          /\ View!NoCursors.next = View!Null /\ View!NoCursors.previous = View!Null
      BY DEF View!NoCursors
    <3>3. ViewTypes'
      <4>1. dvLoading' \in BOOLEAN /\ dvError' \in BOOLEAN
        BY <2>0
      <4> QED BY <1>2, <1>3, <3>1, <3>2, <4>1 DEF ViewInv, ViewTypes
    <3>4. OfTheSession'
      BY <1>2, <1>4, <1>6, <2>0, <2>2, <3>1 DEF ViewInv, OfTheSession, View!Enabled
    <3>5. OfTheSearch' /\ LookupIsNewer'
      BY <1>2, <1>4, <3>1, <3>2 DEF ViewInv, OfTheSearch, Fit, LookupIsNewer
    <3> QED BY <3>3, <3>4, <3>5 DEF ViewInv
  <2> QED BY <2>1, <2>2
<1> QED BY <1>5, <1>6

LEMMA ViewChoice ==
  ASSUME ViewInv,
         \/ \E text \in Queries : View!Type(text)
         \/ \E t \in Tutors : View!Choose(t)
         \/ View!LookupAnswered \/ View!Save
  PROVE  ViewInv'
<1>1. UNCHANGED <<dvLoads, dvLatest, dvItems, dvCursors, dvCurrent, dvLoading, dvError,
                  dvAccount, dvTutor, dvRevision>>
  BY DEF View!Type, View!Choose, View!LookupAnswered, View!Save, View!directory, View!choice, View!session
<1>2. /\ dvQuery' \in Queries /\ dvSelected' \in Tutors \cup {None} /\ dvSaving' \in BOOLEAN
      /\ dvLookup' \in {"none", "sent", "outdated"}
  BY DEF ViewInv, ViewTypes, View!Type, View!Choose, View!LookupAnswered, View!LookupCounts, View!Save,
         View!directory, View!choice, View!session
<1>3. LookupIsNewer'
  BY DEF ViewInv, LookupIsNewer, View!Type, View!Choose, View!LookupAnswered, View!Save,
         View!directory, View!choice, View!session
<1> QED BY <1>1, <1>2, <1>3 DEF ViewInv, ViewTypes, OfTheSession, OfTheSearch, Fit, View!Enabled

\* clear() forgets the page of the session before, whoever is signed in then.
LEMMA ViewRestarts ==
  ASSUME ViewInv, NEW who \in Accounts \cup {Nobody, View!Disposed}, NEW rev \in 0 .. ViewSessions,
         View!Restart(who, rev), View!Assigned(who, dvTutor'),
         dvAccount' = who, dvRevision' = rev, dvTutor' \in Tutors \cup {None}, dvSaving' \in BOOLEAN
  PROVE  ViewInv'
<1>1. /\ dvQuery' = All /\ dvItems' = View!Empty /\ dvCursors' = View!NoCursors
      /\ dvCurrent' = View!NoParams /\ dvError' = FALSE
      /\ dvSelected' = None /\ dvLookup' \in {"none", "sent"}
  BY DEF View!Restart, View!Assigned
<1>2. /\ View!NoCursors \in [next : Queries \cup {View!Null}, previous : Queries \cup {View!Null}]
      /\ View!NoCursors.next = View!Null /\ View!NoCursors.previous = View!Null
  BY DEF View!NoCursors
<1>3. /\ dvLoads' \in Seq(PageLoad) /\ dvLatest' \in 0 .. Len(dvLoads')
      /\ \A i \in 1 .. Len(dvLoads') : Fit(dvLoads'[i].params)
      /\ dvLoading' \in BOOLEAN
      /\ dvLoading' <=> dvLatest' # 0 /\ dvLoads'[dvLatest'].sent
      /\ dvLatest' # 0 => dvLoads'[dvLatest'].who = who /\ dvLoads'[dvLatest'].revision = rev
      /\ who \in Accounts => dvLatest' # 0 /\ dvLoading'
  <2>1. CASE who \in Accounts
    <3>1. /\ dvLoads' = Append(dvLoads, [who |-> who, revision |-> rev, params |-> View!NoParams, sent |-> TRUE])
          /\ dvLatest' = Len(dvLoads) + 1 /\ dvLoading' = TRUE
      BY <2>1 DEF View!Restart
    <3> QED BY <2>1, <3>1, ViewPlainParams, ViewBegins DEF ViewInv, OfTheSearch
  <2>2. CASE who \notin Accounts
    <3>1. dvLatest' = 0 /\ dvLoading' = FALSE /\ dvLoads' = dvLoads
      BY <2>2 DEF View!Restart
    <3>2. dvLoads \in Seq(PageLoad) /\ Len(dvLoads) \in Nat
      BY DEF ViewInv, ViewTypes
    <3>3. dvLatest' \in 0 .. Len(dvLoads') /\ dvLoads' \in Seq(PageLoad)
      BY <3>1, <3>2
    <3>5. dvLoading' \in BOOLEAN
      BY <3>1
    <3>4. \A i \in 1 .. Len(dvLoads') : Fit(dvLoads'[i].params)
      BY <3>1 DEF ViewInv, OfTheSearch
    <3> QED BY <2>2, <3>1, <3>3, <3>4, <3>5
  <2> QED BY <2>1, <2>2
<1>4. ViewTypes'
  <2>1. dvError' \in BOOLEAN
    BY <1>1
  <2> QED BY <1>1, <1>2, <1>3, <2>1, ViewPlainParams, ViewParameters DEF ViewTypes
<1>5. OfTheSession'
  BY <1>1, <1>3 DEF OfTheSession, View!Enabled
<1>6. OfTheSearch' /\ LookupIsNewer'
  BY <1>1, <1>2, <1>3, ViewPlainParams DEF OfTheSearch, Fit, LookupIsNewer
<1> QED BY <1>4, <1>5, <1>6 DEF ViewInv

LEMMA ViewSessionMoves ==
  ASSUME ViewInv,
         \/ View!Saved \/ View!ProfileSaved \/ View!Dispose
         \/ \E who \in Accounts \cup {Nobody} : View!ChangeSession(who)
  PROVE  ViewInv'
<1>1. /\ dvAccount \in Accounts \cup {Nobody, View!Disposed} /\ dvRevision \in 0 .. ViewSessions
      /\ dvTutor \in Tutors \cup {None} /\ dvSelected \in Tutors \cup {None} /\ dvSaving \in BOOLEAN
  BY DEF ViewInv, ViewTypes
<1>2. CASE View!Saved
  <2>1. dvSaving' = FALSE /\ dvAccount' = dvAccount /\ dvRevision' = dvRevision /\ dvSaving' \in BOOLEAN
    BY <1>2 DEF View!Saved
  <2>2. CASE dvTutor' = dvSelected /\ View!Restart(dvAccount, dvRevision) /\ View!Assigned(dvAccount, dvTutor')
    BY <1>1, <2>1, <2>2, ViewRestarts
  <2>3. CASE UNCHANGED <<dvTutor, dvQuery, dvLoads, dvLatest, dvItems, dvCursors, dvCurrent, dvLoading,
                         dvError, dvSelected, dvLookup>>
    BY <2>1, <2>3 DEF ViewInv, ViewTypes, OfTheSession, OfTheSearch, LookupIsNewer, Fit, View!Enabled
  <2> QED BY <1>2, <2>2, <2>3 DEF View!Saved, View!directory
<1>3. CASE View!ProfileSaved
  <2>1. /\ View!Restart(dvAccount, dvRevision) /\ View!Assigned(dvAccount, dvTutor')
        /\ UNCHANGED <<dvAccount, dvTutor, dvRevision, dvSaving>>
    BY <1>3 DEF View!ProfileSaved, View!session
  <2> QED BY <1>1, <2>1, ViewRestarts
<1>4. CASE View!Dispose
  <2>1. /\ View!Restart(View!Disposed, dvRevision) /\ View!Assigned(View!Disposed, dvTutor')
        /\ dvAccount' = View!Disposed /\ dvTutor' = None /\ UNCHANGED <<dvRevision, dvSaving>>
    BY <1>4 DEF View!Dispose
  <2> QED BY <1>1, <2>1, ViewRestarts
<1>5. ASSUME NEW who \in Accounts \cup {Nobody}, View!ChangeSession(who) PROVE ViewInv'
  <2>1. /\ View!Restart(who, dvRevision + 1) /\ View!Assigned(who, dvTutor')
        /\ dvRevision < ViewSessions /\ dvRevision' = dvRevision + 1
        /\ dvAccount' = who /\ dvTutor' \in Tutors \cup {None} /\ dvSaving' = FALSE
    BY <1>5 DEF View!ChangeSession
  <2>2. dvRevision + 1 \in 0 .. ViewSessions
    BY <1>1, <2>1, ViewParameters
  <2>3. dvSaving' \in BOOLEAN
    BY <2>1
  <2> QED BY <1>1, <2>1, <2>2, <2>3, ViewRestarts
<1> QED BY <1>2, <1>3, <1>4, <1>5

LEMMA ViewInitial == View!Init \/ ViewAtRest => ViewInv
<1>1. /\ View!NoCursors \in [next : Queries \cup {View!Null}, previous : Queries \cup {View!Null}]
      /\ View!NoCursors.next = View!Null /\ View!NoCursors.previous = View!Null
  BY DEF View!NoCursors
<1>2. ASSUME View!Init PROVE ViewInv
  <2> DEFINE e == [who |-> dvAccount, revision |-> 0, params |-> View!NoParams, sent |-> TRUE]
  <2>1. e \in PageLoad /\ e.who = dvAccount /\ e.revision = 0 /\ e.params = View!NoParams /\ e.sent
    BY <1>2, ViewPlainParams, ViewParameters DEF View!Init, PageLoad
  <2>2. dvLoads = <<e>>
    BY <1>2 DEF View!Init
  <2> HIDE DEF e
  <2>3. dvLoads \in Seq(PageLoad) /\ Len(dvLoads) = 1 /\ dvLoads[1] = e
    BY <2>1, <2>2
  <2>4. ViewTypes
    <3>1. /\ dvAccount \in Accounts /\ dvTutor \in Tutors \cup {None} /\ dvRevision = 0
          /\ dvQuery = All /\ dvLatest = 1 /\ dvCursors = View!NoCursors
          /\ dvCurrent = View!NoParams /\ dvSelected = None
          /\ dvLookup \in {"none", "sent", "outdated"}
      BY <1>2 DEF View!Init
    <3>2. dvLoading \in BOOLEAN /\ dvError \in BOOLEAN /\ dvSaving \in BOOLEAN
      BY <1>2 DEF View!Init
    <3>3. dvRevision \in 0 .. ViewSessions /\ dvLatest \in 0 .. Len(dvLoads)
      BY <2>3, <3>1, ViewParameters
    <3> QED BY <1>1, <2>3, <3>1, <3>2, <3>3, ViewPlainParams, ViewParameters DEF ViewTypes
  <2>5. OfTheSession
    BY <1>2, <2>1, <2>3 DEF View!Init, OfTheSession, View!Enabled
  <2>6. OfTheSearch /\ LookupIsNewer
    BY <1>1, <1>2, <2>1, <2>3, ViewPlainParams DEF View!Init, OfTheSearch, Fit, LookupIsNewer
  <2> QED BY <2>4, <2>5, <2>6 DEF ViewInv
<1>3. ASSUME ViewAtRest PROVE ViewInv
  <2>1. dvLoads \in Seq(PageLoad) /\ Len(dvLoads) = 0
    BY <1>3 DEF ViewAtRest
  <2>2. ViewTypes
    <3>1. /\ dvAccount = View!Disposed /\ dvTutor = None /\ dvRevision = 0
          /\ dvQuery = All /\ dvLatest = 0 /\ dvCursors = View!NoCursors
          /\ dvCurrent = View!NoParams /\ dvSelected = None
          /\ dvLookup \in {"none", "sent", "outdated"}
      BY <1>3 DEF ViewAtRest
    <3>2. dvLoading \in BOOLEAN /\ dvError \in BOOLEAN /\ dvSaving \in BOOLEAN
      BY <1>3 DEF ViewAtRest
    <3>3. dvRevision \in 0 .. ViewSessions /\ dvLatest \in 0 .. Len(dvLoads)
      BY <2>1, <3>1, ViewParameters
    <3> QED BY <1>1, <2>1, <3>1, <3>2, <3>3, ViewPlainParams, ViewParameters DEF ViewTypes
  <2>3. OfTheSession
    BY <1>3, <2>1 DEF ViewAtRest, OfTheSession, View!Enabled
  <2>4. OfTheSearch /\ LookupIsNewer
    BY <1>1, <1>3, <2>1, ViewPlainParams DEF ViewAtRest, OfTheSearch, Fit, LookupIsNewer
  <2> QED BY <2>2, <2>3, <2>4 DEF ViewInv
<1> QED BY <1>2, <1>3

LEMMA ViewStep == ViewInv /\ [View!Next]_viewVars => ViewInv'
<1> SUFFICES ASSUME ViewInv, [View!Next]_viewVars PROVE ViewInv'
  OBVIOUS
<1>1. CASE View!Next
  BY <1>1, ViewMoves, ViewAnswers, ViewChoice, ViewSessionMoves, Zenon DEF View!Next
<1>2. CASE UNCHANGED viewVars
  BY <1>2 DEF viewVars, ViewInv, ViewTypes, OfTheSession, OfTheSearch, LookupIsNewer, Fit, View!Enabled
<1> QED BY <1>1, <1>2

LEMMA ViewLives == [BrowserNext]_browserVars => [View!Next]_viewVars
BY DEF BrowserNext, OthersStill, browserVars

\* The loads of a directory and what is shown of it are of the present session and
\* of the search they were made for, as ViewInv says, in every state of a browser.
THEOREM ViewHolds == BrowserSpec => []ViewInv
<1>1. BrowserInit => ViewInv
  BY ViewInitial DEF BrowserInit
<1>2. ViewInv /\ [BrowserNext]_browserVars => ViewInv'
  BY ViewLives, ViewStep
<1> QED BY <1>1, <1>2, PTL DEF BrowserSpec

\* useDirectory.ts: whatever the order of the answers, the page shown is of the
\* present account and session and of the load that counts, and no cursor meets a
\* search it was not made for.
THEOREM PageShownIsCurrent == BrowserSpec => []PageIsCurrent
<1>1. ViewInv => PageIsCurrent
  <2>1. ViewInv => View!OwnLatestPage
    BY DEF ViewInv, OfTheSession, View!OwnLatestPage
  <2>2. ViewInv => View!CursorsFit
    BY DEF ViewInv, OfTheSearch, Fit, View!CursorsFit
  <2> QED BY <2>1, <2>2 DEF PageIsCurrent
<1> QED BY <1>1, ViewHolds, PTL

\* UserSignup.vue: only the account, its session or another choice takes a choice
\* away; no page, no search and no late lookup does.
THEOREM ChoiceIsKept == BrowserSpec => ChoiceSurvives
<1>1. ViewInv /\ [BrowserNext]_browserVars
      => [dvSelected # None /\ dvSelected' # dvSelected =>
            \/ \E t \in Tutors : View!Choose(t)
            \/ View!Saved \/ View!ProfileSaved
            \/ dvAccount' # dvAccount \/ dvRevision' # dvRevision]_(View!vars)
  <2> SUFFICES ASSUME ViewInv, View!Next, dvSelected # None, dvSelected' # dvSelected,
                      ~\E t \in Tutors : View!Choose(t), ~View!Saved, ~View!ProfileSaved,
                      dvAccount' = dvAccount, dvRevision' = dvRevision
               PROVE  FALSE
    BY ViewLives DEF viewVars, View!vars, View!directory, View!choice, View!session
  <2>1. dvLookup # "sent" /\ dvRevision \in Nat
    BY DEF ViewInv, LookupIsNewer, ViewTypes
  <2>2. CASE View!LookupAnswered
    BY <2>1, <2>2 DEF View!LookupAnswered, View!LookupCounts
  <2>3. CASE View!Dispose \/ \E who \in Accounts \cup {Nobody} : View!ChangeSession(who)
    BY <2>1, <2>3 DEF View!Dispose, View!ChangeSession
  <2>4. CASE ~View!LookupAnswered /\ ~View!Dispose /\ ~\E who \in Accounts \cup {Nobody} : View!ChangeSession(who)
    BY <2>4 DEF View!Next, View!Type, View!Search, View!NextPage, View!PreviousPage, View!Refresh,
       View!RefreshAfterAction, View!Asked, View!Answer, View!Save, View!choice, View!directory
  <2> QED BY <2>2, <2>3, <2>4
<1> QED BY <1>1, ViewHolds, PTL DEF ChoiceSurvives, View!ChoiceSurvives, BrowserSpec

-----------------------------------------------------------------------------
(* The session of a page and its calls *)

CallRecord == [kind : Client!Kinds, who : Accounts \cup {Nobody},
               stage : {"idle", "token", "sent", "answered", "ended", "cancelled"},
               token : Nat, retried : BOOLEAN, stale : BOOLEAN, answer : Client!Answers]

\* TypeOK, with the tokens bounded by the present one apart from the records.
ClientTypes ==
  /\ csSession \in Accounts \cup {Nobody} /\ csShown \in Accounts \cup {Nobody}
  /\ csToken \in Nat /\ csCsrfToken \in Nat /\ csCsrfToken <= csToken
  /\ csCsrf \in [stage : {"none", "sent", "answered"}, token : Nat] /\ csCsrf.token <= csToken
  /\ csCalls \in [Client!Calls -> CallRecord]
  /\ \A c \in Client!Calls : csCalls[c].token <= csToken
  /\ csTabs \in 0 .. OtherTabs /\ csLost \in 0 .. ClientLosses
  /\ csExecuted \in [PageWrites -> Nat] /\ csSignedOut \in BOOLEAN

\* A write is carried out at most once, and then answered; only writes of the present
\* session wait for a token or are yet to be submitted.
WritesOnce ==
  \A c \in PageWrites :
    /\ csExecuted[c] <= 1
    /\ csExecuted[c] > 0 => /\ csCalls[c].stage \in {"answered", "ended", "cancelled"}
                            /\ csCalls[c].answer \in {"ok", "lost"}
                            /\ csLost = 0 => csCalls[c].answer = "ok"
    /\ csCalls[c].answer = "ok" => csExecuted[c] > 0
    /\ csCalls[c].stage \in {"idle", "token"} => ~csCalls[c].stale

Present(c) == Client!Under(csCalls[c].stage) /\ ~csCalls[c].stale

\* No call of the present session is on its way to show an account where one was
\* signed out, and an account enters only where none is shown.
EntersAlone ==
  /\ csSignedOut => csShown = Nobody /\ \A c \in Client!Calls : ~Present(c)
  /\ \A c \in PageWrites : csCalls[c].kind \in Client!Entering =>
       csCalls[c].who # Nobody /\ (Present(c) => csShown = Nobody)
  /\ csCalls[Client!Boot].kind \in {"me", "account"}

\* Carried out, with an answer that did not reach the page.
Unheard(c) == csExecuted[c] > 0 /\ csCalls[c].stage # "ended"
\* One of these that gave the session at the server to another account, or to none.
Moved(c) == Unheard(c) /\ csCalls[c].kind \in Client!Entering \cup {"logout", "delete"}
MovedTo(c) == IF csCalls[c].kind \in Client!Entering THEN csCalls[c].who ELSE Nobody

\* Nobody else touched the session and no answer was lost.  Then the page shows the
\* account of the session, and so will what is still to be heard, unless a write
\* unheard of moved the session; and if just one did, it knows where to.
SessionFollows ==
  /\ (\A c \in PageWrites : ~Moved(c)) =>
       /\ csShown \in {Nobody, csSession}
       /\ \A c \in PageWrites : Unheard(c) /\ Present(c) => csCalls[c].who = csSession
       /\ LET boot == csCalls[Client!Boot] IN
          Present(Client!Boot) /\ boot.stage = "answered" /\ boot.answer \in Accounts =>
            boot.answer = csSession
  /\ \A c \in PageWrites :
       Moved(c) /\ Present(c) /\ (\A d \in PageWrites : Moved(d) => d = c) => csSession = MovedTo(c)

ClientInv ==
  /\ ClientTypes /\ WritesOnce /\ EntersAlone
  /\ csTabs = 0 /\ csLost = 0 => SessionFollows

\* A step leaves alone what was sent for an older session.
NothingOldSent ==
  \A c \in PageWrites : csCalls[c].stale /\ csCalls'[c].stage = "sent" => csCalls[c].stage = "sent"

LEMMA ClientParameters ==
  /\ Nobody \notin Accounts /\ OtherTabs \in Nat /\ ClientLosses \in Nat
  /\ Client!Boot \notin PageWrites /\ "ok" \notin Accounts /\ "ok" # Nobody /\ "lost" \notin Accounts
BY BrowserAssumption DEF Client!ClientAssumption, Client!Outcomes

LEMMA ClientNames ==
  /\ PageWrites \subseteq Client!Calls /\ Client!Boot \in Client!Calls
  /\ \A c \in Client!Calls : c \in PageWrites <=> c # Client!Boot
BY ClientParameters DEF Client!Calls

\* A call that ends, and one that is of an older session from now on.
LEMMA CallEnds ==
  ASSUME NEW c \in CallRecord, NEW how \in Client!Answers
  PROVE  LET e == Client!Ended(c, how) IN
         /\ e \in CallRecord
         /\ e.kind = c.kind /\ e.who = c.who /\ e.stage = "ended" /\ e.token = c.token
         /\ e.answer = how /\ e.stale = c.stale
<1> DEFINE e == [kind |-> c.kind, who |-> c.who, stage |-> "ended", token |-> c.token,
                 retried |-> c.retried, stale |-> c.stale, answer |-> how]
<1>1. Client!Ended(c, how) = e
  <2>1. [c EXCEPT !.stage = "ended"]
        = [kind |-> c.kind, who |-> c.who, stage |-> "ended", token |-> c.token,
           retried |-> c.retried, stale |-> c.stale, answer |-> c.answer]
    BY DEF CallRecord
  <2>2. Client!Ended(c, how)
        = [[kind |-> c.kind, who |-> c.who, stage |-> "ended", token |-> c.token,
            retried |-> c.retried, stale |-> c.stale, answer |-> c.answer] EXCEPT !.answer = how]
    BY <2>1, Zenon DEF Client!Ended
  <2> QED BY <2>2
<1>2. e \in CallRecord
  BY DEF CallRecord
<1>3. e.kind = c.kind /\ e.who = c.who /\ e.stage = "ended" /\ e.token = c.token /\ e.answer = how
  OBVIOUS
<1>4. e.stale = c.stale
  OBVIOUS
<1> HIDE DEF e
<1> QED BY <1>1, <1>2, <1>3, <1>4

LEMMA CallAges ==
  ASSUME NEW c \in CallRecord, NEW b
  PROVE  /\ [c EXCEPT !.stale = b]
            = [kind |-> c.kind, who |-> c.who, stage |-> c.stage, token |-> c.token,
               retried |-> c.retried, stale |-> b, answer |-> c.answer]
         /\ [Client!Cancelled(c) EXCEPT !.stale = b]
            = [kind |-> c.kind, who |-> c.who, stage |-> "cancelled", token |-> c.token,
               retried |-> c.retried, stale |-> b, answer |-> c.answer]
<1>1. [c EXCEPT !.stale = b]
      = [kind |-> c.kind, who |-> c.who, stage |-> c.stage, token |-> c.token,
         retried |-> c.retried, stale |-> b, answer |-> c.answer]
  BY DEF CallRecord
<1>2. Client!Cancelled(c)
      = [kind |-> c.kind, who |-> c.who, stage |-> "cancelled", token |-> c.token,
         retried |-> c.retried, stale |-> c.stale, answer |-> c.answer]
  BY DEF Client!Cancelled, CallRecord
<1>3. [Client!Cancelled(c) EXCEPT !.stale = b]
      = [[kind |-> c.kind, who |-> c.who, stage |-> "cancelled", token |-> c.token,
          retried |-> c.retried, stale |-> c.stale, answer |-> c.answer] EXCEPT !.stale = b]
  BY <1>2, Zenon
<1>4. [[kind |-> c.kind, who |-> c.who, stage |-> "cancelled", token |-> c.token,
        retried |-> c.retried, stale |-> c.stale, answer |-> c.answer] EXCEPT !.stale = b]
      = [kind |-> c.kind, who |-> c.who, stage |-> "cancelled", token |-> c.token,
         retried |-> c.retried, stale |-> b, answer |-> c.answer]
  OBVIOUS
<1> QED BY <1>1, <1>3, <1>4

LEMMA CallOutdated ==
  ASSUME NEW c \in CallRecord
  PROVE  LET a == [c EXCEPT !.stale = TRUE]
             e == [Client!Cancelled(c) EXCEPT !.stale = TRUE] IN
         /\ a \in CallRecord /\ a.stale
         /\ a.kind = c.kind /\ a.who = c.who /\ a.stage = c.stage /\ a.token = c.token
         /\ a.answer = c.answer
         /\ e \in CallRecord /\ e.stale
         /\ e.kind = c.kind /\ e.who = c.who /\ e.stage = "cancelled" /\ e.token = c.token
         /\ e.answer = c.answer
<1> DEFINE a == [kind |-> c.kind, who |-> c.who, stage |-> c.stage, token |-> c.token,
                 retried |-> c.retried, stale |-> TRUE, answer |-> c.answer]
           e == [kind |-> c.kind, who |-> c.who, stage |-> "cancelled", token |-> c.token,
                 retried |-> c.retried, stale |-> TRUE, answer |-> c.answer]
<1>1. [c EXCEPT !.stale = TRUE] = a
  BY CallAges
<1>2. [Client!Cancelled(c) EXCEPT !.stale = TRUE] = e
  BY CallAges
<1>3. a \in CallRecord /\ e \in CallRecord
  BY DEF CallRecord
<1>4. a.kind = c.kind /\ a.who = c.who /\ a.stage = c.stage /\ a.token = c.token /\ a.answer = c.answer
  OBVIOUS
<1>5. e.kind = c.kind /\ e.who = c.who /\ e.stage = "cancelled" /\ e.token = c.token /\ e.answer = c.answer
  OBVIOUS
<1>6. a.stale = TRUE /\ e.stale = TRUE
  OBVIOUS
<1> HIDE DEF a, e
<1> QED BY <1>1, <1>2, <1>3, <1>4, <1>5, <1>6

\* The other changes of a call.
Stands(c, s) == [c EXCEPT !.stage = s]
LEMMA CallStands ==
  ASSUME NEW c \in CallRecord, NEW s \in {"idle", "token", "sent", "answered", "ended", "cancelled"}
  PROVE  LET e == Stands(c, s) IN
         /\ e \in CallRecord
         /\ e.kind = c.kind /\ e.who = c.who /\ e.stage = s
         /\ e.token = c.token /\ e.answer = c.answer /\ e.stale = c.stale /\ e.retried = c.retried
<1> DEFINE e == [kind |-> c.kind, who |-> c.who, stage |-> s, token |-> c.token,
                 retried |-> c.retried, stale |-> c.stale, answer |-> c.answer]
<1>1. [c EXCEPT !.stage = s]
      = [kind |-> c.kind, who |-> c.who, stage |-> s, token |-> c.token,
         retried |-> c.retried, stale |-> c.stale, answer |-> c.answer]
  BY DEF CallRecord
<1>2. e \in CallRecord
  BY DEF CallRecord
<1>3. e.kind = c.kind /\ e.who = c.who /\ e.stage = s /\ e.token = c.token /\ e.answer = c.answer
  OBVIOUS
<1>4. e.stale = c.stale
  OBVIOUS
<1>5. e.retried = c.retried
  OBVIOUS
<1>6. Stands(c, s) = e
  BY <1>1 DEF Stands
<1> HIDE DEF e
<1> QED BY <1>2, <1>3, <1>4, <1>5, <1>6

Sends(c, s, t) == [c EXCEPT !.stage = s, !.token = t]
LEMMA CallSends ==
  ASSUME NEW c \in CallRecord, NEW s \in {"idle", "token", "sent", "answered", "ended", "cancelled"}, NEW t \in Nat
  PROVE  LET e == Sends(c, s, t) IN
         /\ e \in CallRecord
         /\ e.kind = c.kind /\ e.who = c.who /\ e.stage = s
         /\ e.token = t /\ e.answer = c.answer /\ e.stale = c.stale /\ e.retried = c.retried
<1> DEFINE e == [kind |-> c.kind, who |-> c.who, stage |-> s, token |-> t,
                 retried |-> c.retried, stale |-> c.stale, answer |-> c.answer]
<1>1. [c EXCEPT !.stage = s]
      = [kind |-> c.kind, who |-> c.who, stage |-> s, token |-> c.token,
         retried |-> c.retried, stale |-> c.stale, answer |-> c.answer]
  BY DEF CallRecord
<1>2. [c EXCEPT !.stage = s, !.token = t]
      = [kind |-> c.kind, who |-> c.who, stage |-> s, token |-> t,
         retried |-> c.retried, stale |-> c.stale, answer |-> c.answer]
  <2>1. [c EXCEPT !.stage = s, !.token = t]
        = [[kind |-> c.kind, who |-> c.who, stage |-> s, token |-> c.token,
            retried |-> c.retried, stale |-> c.stale, answer |-> c.answer] EXCEPT !.token = t]
    BY <1>1, Zenon
  <2> QED BY <2>1
<1>3. e \in CallRecord
  BY DEF CallRecord
<1>4. e.kind = c.kind /\ e.who = c.who /\ e.stage = s /\ e.token = t /\ e.answer = c.answer
  OBVIOUS
<1>5. e.stale = c.stale
  OBVIOUS
<1>6. e.retried = c.retried
  OBVIOUS
<1>7. Sends(c, s, t) = e
  BY <1>2 DEF Sends
<1> HIDE DEF e
<1> QED BY <1>3, <1>4, <1>5, <1>6, <1>7

IsFor(c, k, w) == [c EXCEPT !.kind = k, !.who = w]
LEMMA CallIsFor ==
  ASSUME NEW c \in CallRecord, NEW k \in Client!Kinds, NEW w \in Accounts \cup {Nobody}
  PROVE  LET e == IsFor(c, k, w) IN
         /\ e \in CallRecord
         /\ e.kind = k /\ e.who = w /\ e.stage = c.stage
         /\ e.token = c.token /\ e.answer = c.answer /\ e.stale = c.stale /\ e.retried = c.retried
<1> DEFINE e == [kind |-> k, who |-> w, stage |-> c.stage, token |-> c.token,
                 retried |-> c.retried, stale |-> c.stale, answer |-> c.answer]
<1>1. [c EXCEPT !.kind = k]
      = [kind |-> k, who |-> c.who, stage |-> c.stage, token |-> c.token,
         retried |-> c.retried, stale |-> c.stale, answer |-> c.answer]
  BY DEF CallRecord
<1>2. [c EXCEPT !.kind = k, !.who = w]
      = [kind |-> k, who |-> w, stage |-> c.stage, token |-> c.token,
         retried |-> c.retried, stale |-> c.stale, answer |-> c.answer]
  <2>1. [c EXCEPT !.kind = k, !.who = w]
        = [[kind |-> k, who |-> c.who, stage |-> c.stage, token |-> c.token,
            retried |-> c.retried, stale |-> c.stale, answer |-> c.answer] EXCEPT !.who = w]
    BY <1>1, Zenon
  <2> QED BY <2>1
<1>3. e \in CallRecord
  BY DEF CallRecord
<1>4. e.kind = k /\ e.who = w /\ e.stage = c.stage /\ e.token = c.token /\ e.answer = c.answer
  OBVIOUS
<1>5. e.stale = c.stale
  OBVIOUS
<1>6. e.retried = c.retried
  OBVIOUS
<1>7. IsFor(c, k, w) = e
  BY <1>2 DEF IsFor
<1> HIDE DEF e
<1> QED BY <1>3, <1>4, <1>5, <1>6, <1>7

Asks(c, k, s) == [c EXCEPT !.kind = k, !.stage = s]
LEMMA CallAsks ==
  ASSUME NEW c \in CallRecord, NEW k \in Client!Kinds, NEW s \in {"idle", "token", "sent", "answered", "ended", "cancelled"}
  PROVE  LET e == Asks(c, k, s) IN
         /\ e \in CallRecord
         /\ e.kind = k /\ e.who = c.who /\ e.stage = s
         /\ e.token = c.token /\ e.answer = c.answer /\ e.stale = c.stale /\ e.retried = c.retried
<1> DEFINE e == [kind |-> k, who |-> c.who, stage |-> s, token |-> c.token,
                 retried |-> c.retried, stale |-> c.stale, answer |-> c.answer]
<1>1. [c EXCEPT !.kind = k]
      = [kind |-> k, who |-> c.who, stage |-> c.stage, token |-> c.token,
         retried |-> c.retried, stale |-> c.stale, answer |-> c.answer]
  BY DEF CallRecord
<1>2. [c EXCEPT !.kind = k, !.stage = s]
      = [kind |-> k, who |-> c.who, stage |-> s, token |-> c.token,
         retried |-> c.retried, stale |-> c.stale, answer |-> c.answer]
  <2>1. [c EXCEPT !.kind = k, !.stage = s]
        = [[kind |-> k, who |-> c.who, stage |-> c.stage, token |-> c.token,
            retried |-> c.retried, stale |-> c.stale, answer |-> c.answer] EXCEPT !.stage = s]
    BY <1>1, Zenon
  <2> QED BY <2>1
<1>3. e \in CallRecord
  BY DEF CallRecord
<1>4. e.kind = k /\ e.who = c.who /\ e.stage = s /\ e.token = c.token /\ e.answer = c.answer
  OBVIOUS
<1>5. e.stale = c.stale
  OBVIOUS
<1>6. e.retried = c.retried
  OBVIOUS
<1>7. Asks(c, k, s) = e
  BY <1>2 DEF Asks
<1> HIDE DEF e
<1> QED BY <1>3, <1>4, <1>5, <1>6, <1>7

Lost(c, s, n) == [c EXCEPT !.stage = s, !.answer = n]
LEMMA CallLost ==
  ASSUME NEW c \in CallRecord, NEW s \in {"idle", "token", "sent", "answered", "ended", "cancelled"}, NEW n \in Client!Answers
  PROVE  LET e == Lost(c, s, n) IN
         /\ e \in CallRecord
         /\ e.kind = c.kind /\ e.who = c.who /\ e.stage = s
         /\ e.token = c.token /\ e.answer = n /\ e.stale = c.stale /\ e.retried = c.retried
<1> DEFINE e == [kind |-> c.kind, who |-> c.who, stage |-> s, token |-> c.token,
                 retried |-> c.retried, stale |-> c.stale, answer |-> n]
<1>1. [c EXCEPT !.stage = s]
      = [kind |-> c.kind, who |-> c.who, stage |-> s, token |-> c.token,
         retried |-> c.retried, stale |-> c.stale, answer |-> c.answer]
  BY DEF CallRecord
<1>2. [c EXCEPT !.stage = s, !.answer = n]
      = [kind |-> c.kind, who |-> c.who, stage |-> s, token |-> c.token,
         retried |-> c.retried, stale |-> c.stale, answer |-> n]
  <2>1. [c EXCEPT !.stage = s, !.answer = n]
        = [[kind |-> c.kind, who |-> c.who, stage |-> s, token |-> c.token,
            retried |-> c.retried, stale |-> c.stale, answer |-> c.answer] EXCEPT !.answer = n]
    BY <1>1, Zenon
  <2> QED BY <2>1
<1>3. e \in CallRecord
  BY DEF CallRecord
<1>4. e.kind = c.kind /\ e.who = c.who /\ e.stage = s /\ e.token = c.token /\ e.answer = n
  OBVIOUS
<1>5. e.stale = c.stale
  OBVIOUS
<1>6. e.retried = c.retried
  OBVIOUS
<1>7. Lost(c, s, n) = e
  BY <1>2 DEF Lost
<1> HIDE DEF e
<1> QED BY <1>3, <1>4, <1>5, <1>6, <1>7

Again(c, s, b, n) == [c EXCEPT !.stage = s, !.retried = b, !.answer = n]
LEMMA CallAgain ==
  ASSUME NEW c \in CallRecord, NEW s \in {"idle", "token", "sent", "answered", "ended", "cancelled"}, NEW b \in BOOLEAN, NEW n \in Client!Answers
  PROVE  LET e == Again(c, s, b, n) IN
         /\ e \in CallRecord
         /\ e.kind = c.kind /\ e.who = c.who /\ e.stage = s
         /\ e.token = c.token /\ e.answer = n /\ e.stale = c.stale /\ e.retried = b
<1> DEFINE e == [kind |-> c.kind, who |-> c.who, stage |-> s, token |-> c.token,
                 retried |-> b, stale |-> c.stale, answer |-> n]
<1>1. [c EXCEPT !.stage = s]
      = [kind |-> c.kind, who |-> c.who, stage |-> s, token |-> c.token,
         retried |-> c.retried, stale |-> c.stale, answer |-> c.answer]
  BY DEF CallRecord
<1>2. [c EXCEPT !.stage = s, !.retried = b]
      = [kind |-> c.kind, who |-> c.who, stage |-> s, token |-> c.token,
         retried |-> b, stale |-> c.stale, answer |-> c.answer]
  <2>1. [c EXCEPT !.stage = s, !.retried = b]
        = [[kind |-> c.kind, who |-> c.who, stage |-> s, token |-> c.token,
            retried |-> c.retried, stale |-> c.stale, answer |-> c.answer] EXCEPT !.retried = b]
    BY <1>1, Zenon
  <2> QED BY <2>1
<1>3. [c EXCEPT !.stage = s, !.retried = b, !.answer = n]
      = [kind |-> c.kind, who |-> c.who, stage |-> s, token |-> c.token,
         retried |-> b, stale |-> c.stale, answer |-> n]
  <2>1. [c EXCEPT !.stage = s, !.retried = b, !.answer = n]
        = [[kind |-> c.kind, who |-> c.who, stage |-> s, token |-> c.token,
            retried |-> b, stale |-> c.stale, answer |-> c.answer] EXCEPT !.answer = n]
    BY <1>2, Zenon
  <2> QED BY <2>1
<1>4. e \in CallRecord
  BY DEF CallRecord
<1>5. e.kind = c.kind /\ e.who = c.who /\ e.stage = s /\ e.token = c.token /\ e.answer = n
  OBVIOUS
<1>6. e.stale = c.stale
  OBVIOUS
<1>7. e.retried = b
  OBVIOUS
<1>8. Again(c, s, b, n) = e
  BY <1>3 DEF Again
<1> HIDE DEF e
<1> QED BY <1>4, <1>5, <1>6, <1>7, <1>8

Answered(c, s, n, t) == [c EXCEPT !.stage = s, !.answer = n, !.token = t]
LEMMA CallAnswered ==
  ASSUME NEW c \in CallRecord, NEW s \in {"idle", "token", "sent", "answered", "ended", "cancelled"}, NEW n \in Client!Answers, NEW t \in Nat
  PROVE  LET e == Answered(c, s, n, t) IN
         /\ e \in CallRecord
         /\ e.kind = c.kind /\ e.who = c.who /\ e.stage = s
         /\ e.token = t /\ e.answer = n /\ e.stale = c.stale /\ e.retried = c.retried
<1> DEFINE e == [kind |-> c.kind, who |-> c.who, stage |-> s, token |-> t,
                 retried |-> c.retried, stale |-> c.stale, answer |-> n]
<1>1. [c EXCEPT !.stage = s]
      = [kind |-> c.kind, who |-> c.who, stage |-> s, token |-> c.token,
         retried |-> c.retried, stale |-> c.stale, answer |-> c.answer]
  BY DEF CallRecord
<1>2. [c EXCEPT !.stage = s, !.answer = n]
      = [kind |-> c.kind, who |-> c.who, stage |-> s, token |-> c.token,
         retried |-> c.retried, stale |-> c.stale, answer |-> n]
  <2>1. [c EXCEPT !.stage = s, !.answer = n]
        = [[kind |-> c.kind, who |-> c.who, stage |-> s, token |-> c.token,
            retried |-> c.retried, stale |-> c.stale, answer |-> c.answer] EXCEPT !.answer = n]
    BY <1>1, Zenon
  <2> QED BY <2>1
<1>3. [c EXCEPT !.stage = s, !.answer = n, !.token = t]
      = [kind |-> c.kind, who |-> c.who, stage |-> s, token |-> t,
         retried |-> c.retried, stale |-> c.stale, answer |-> n]
  <2>1. [c EXCEPT !.stage = s, !.answer = n, !.token = t]
        = [[kind |-> c.kind, who |-> c.who, stage |-> s, token |-> c.token,
            retried |-> c.retried, stale |-> c.stale, answer |-> n] EXCEPT !.token = t]
    BY <1>2, Zenon
  <2> QED BY <2>1
<1>4. e \in CallRecord
  BY DEF CallRecord
<1>5. e.kind = c.kind /\ e.who = c.who /\ e.stage = s /\ e.token = t /\ e.answer = n
  OBVIOUS
<1>6. e.stale = c.stale
  OBVIOUS
<1>7. e.retried = c.retried
  OBVIOUS
<1>8. Answered(c, s, n, t) = e
  BY <1>3 DEF Answered
<1> HIDE DEF e
<1> QED BY <1>4, <1>5, <1>6, <1>7, <1>8

\* What a step does to one call when nothing is carried out and no other account is
\* shown: a call goes on, ends without having moved the session, or is submitted.
Goes(c, x, y, signedOut) ==
  /\ y.stale = x.stale
  /\ Client!Under(y.stage) /\ ~y.stale => Client!Under(x.stage) \/ ~signedOut
  /\ c \in PageWrites =>
       /\ y.kind \in Client!Entering =>
            \/ y.kind = x.kind /\ y.who = x.who /\ (Client!Under(y.stage) => Client!Under(x.stage))
            \/ y.who # Nobody /\ csShown = Nobody
       /\ y.stage \in {"idle", "token"} => ~x.stale
       /\ y.stage = "sent" => x.stage \in {"idle", "token", "sent"}
       /\ y.answer = "ok" <=> x.answer = "ok"
       /\ csExecuted[c] > 0 =>
            /\ y.kind = x.kind /\ y.who = x.who /\ y.answer = x.answer
            /\ y.stage \in {"answered", "ended", "cancelled"}
            /\ Client!Under(y.stage) => Client!Under(x.stage)
            /\ x.stage = "ended" => y.stage = "ended"
            /\ csLost = 0 /\ y.stage = "ended" /\ x.kind \in Client!Entering \cup {"logout", "delete"} =>
                 x.stage = "ended"
  /\ c = Client!Boot =>
       /\ y.kind \in {"me", "account"}
       /\ y.stage = "answered" =>
            \/ x.stage = "answered" /\ y.answer = x.answer
            \/ y.answer \in {Nobody, csSession} \/ y.answer \notin Accounts

LEMMA ClientGoes ==
  ASSUME ClientInv, ClientTypes', UNCHANGED <<csSession, csShown, csTabs, csExecuted>>,
         csSignedOut' => csSignedOut, csLost' = 0 => csLost = 0,
         \A c \in Client!Calls : Goes(c, csCalls[c], csCalls'[c], csSignedOut')
  PROVE  ClientInv' /\ NothingOldSent
<1>1. ClientTypes /\ WritesOnce /\ EntersAlone /\ PageWrites \subseteq Client!Calls
      /\ Client!Boot \in Client!Calls
  BY ClientNames DEF ClientInv
<1>2. WritesOnce'
  <2> SUFFICES ASSUME NEW c \in PageWrites
               PROVE  /\ csExecuted'[c] <= 1
                      /\ csExecuted'[c] > 0 => /\ csCalls'[c].stage \in {"answered", "ended", "cancelled"}
                                               /\ csCalls'[c].answer \in {"ok", "lost"}
                                               /\ csLost' = 0 => csCalls'[c].answer = "ok"
                      /\ csCalls'[c].answer = "ok" => csExecuted'[c] > 0
                      /\ csCalls'[c].stage \in {"idle", "token"} => ~csCalls'[c].stale
    BY DEF WritesOnce
  <2>1. Goes(c, csCalls[c], csCalls'[c], csSignedOut') /\ csExecuted'[c] = csExecuted[c]
    BY <1>1
  <2> QED BY <1>1, <2>1 DEF WritesOnce, Goes
<1>3. EntersAlone'
  <2>1. ASSUME csSignedOut' PROVE csShown' = Nobody /\ \A c \in Client!Calls : ~Present(c)'
    <3>1. csShown' = Nobody
      BY <1>1, <2>1 DEF EntersAlone
    <3>2. ASSUME NEW c \in Client!Calls, Present(c)' PROVE FALSE
      <4>1. ~Present(c)
        BY <1>1, <2>1 DEF EntersAlone
      <4> QED BY <4>1, <3>2, <2>1 DEF Present, Goes
    <3> QED BY <3>1, <3>2
  <2>2. ASSUME NEW c \in PageWrites, csCalls'[c].kind \in Client!Entering
        PROVE  csCalls'[c].who # Nobody /\ (Present(c)' => csShown' = Nobody)
    <3>1. Goes(c, csCalls[c], csCalls'[c], csSignedOut')
      BY <1>1
    <3>2. csCalls[c].kind \in Client!Entering => csCalls[c].who # Nobody /\ (Present(c) => csShown = Nobody)
      BY <1>1 DEF EntersAlone
    <3> QED BY <3>1, <3>2, <2>2 DEF Present, Goes
  <2>3. csCalls'[Client!Boot].kind \in {"me", "account"}
    BY <1>1 DEF Goes
  <2> QED BY <2>1, <2>2, <2>3 DEF EntersAlone
<1>4. ASSUME csTabs' = 0, csLost' = 0 PROVE SessionFollows'
  <2>1. SessionFollows
    BY <1>4 DEF ClientInv
  <2>2. ASSUME NEW c \in PageWrites
        PROVE  /\ Unheard(c)' => Unheard(c)
               /\ Unheard(c)' /\ Present(c)' => Present(c) /\ csCalls'[c].who = csCalls[c].who
               /\ Moved(c)' <=> Moved(c)
               /\ Moved(c)' => MovedTo(c)' = MovedTo(c)
    <3>1. Goes(c, csCalls[c], csCalls'[c], csSignedOut') /\ csExecuted'[c] = csExecuted[c]
      BY <1>1
    <3>2. csLost = 0
      BY <1>4
    <3> QED BY <3>1, <3>2 DEF Unheard, Moved, MovedTo, Present, Goes
  <2>3. ASSUME \A c \in PageWrites : ~Moved(c)'
        PROVE  /\ csShown' \in {Nobody, csSession'}
               /\ \A c \in PageWrites : Unheard(c)' /\ Present(c)' => csCalls'[c].who = csSession'
               /\ Present(Client!Boot)' /\ csCalls'[Client!Boot].stage = "answered"
                  /\ csCalls'[Client!Boot].answer \in Accounts => csCalls'[Client!Boot].answer = csSession'
    <3>1. \A c \in PageWrites : ~Moved(c)
      BY <2>2, <2>3
    <3>2. csShown' \in {Nobody, csSession'}
      BY <2>1, <3>1 DEF SessionFollows
    <3>3. \A c \in PageWrites : Unheard(c)' /\ Present(c)' => csCalls'[c].who = csSession'
      BY <2>1, <2>2, <3>1 DEF SessionFollows
    <3>4. Present(Client!Boot)' /\ csCalls'[Client!Boot].stage = "answered"
          /\ csCalls'[Client!Boot].answer \in Accounts => csCalls'[Client!Boot].answer = csSession'
      <4>1. Goes(Client!Boot, csCalls[Client!Boot], csCalls'[Client!Boot], csSignedOut')
        BY <1>1
      <4> QED BY <2>1, <3>1, <4>1, ClientParameters DEF SessionFollows, Goes, Present, Client!Under
    <3> QED BY <3>2, <3>3, <3>4
  <2>4. ASSUME NEW c \in PageWrites, Moved(c)', Present(c)', \A d \in PageWrites : Moved(d)' => d = c
        PROVE  csSession' = MovedTo(c)'
    <3>1. Moved(c) /\ Present(c) /\ \A d \in PageWrites : Moved(d) => d = c
      BY <2>2, <2>4 DEF Moved
    <3> QED BY <3>1, <2>1, <2>2, <2>4 DEF SessionFollows
  <2> QED BY <2>3, <2>4 DEF SessionFollows
<1>5. NothingOldSent
  <2> SUFFICES ASSUME NEW c \in PageWrites, csCalls[c].stale, csCalls'[c].stage = "sent"
               PROVE  csCalls[c].stage = "sent"
    BY DEF NothingOldSent
  <2>1. Goes(c, csCalls[c], csCalls'[c], csSignedOut')
    BY <1>1
  <2> QED BY <1>1, <2>1 DEF Goes, WritesOnce
<1> QED BY <1>2, <1>3, <1>4, <1>5 DEF ClientInv

LEMMA ClientShows ==
  ASSUME ClientInv, NEW c \in Client!Calls, csCalls[c].stage = "answered", NEW how \in Client!Answers,
         c \in PageWrites => how = csCalls[c].answer, NEW account \in Accounts \cup {Nobody},
         Client!Show(account, [csCalls EXCEPT ![c] = Client!Ended(@, how)]),
         UNCHANGED <<csSession, csToken, csTabs, csLost, csExecuted>>,
         csSignedOut' \in BOOLEAN, csSignedOut' => account = Nobody,
         csTabs = 0 /\ csLost = 0 /\ (\A d \in PageWrites : Moved(d) => d = c) => account \in {Nobody, csSession}
  PROVE  ClientInv' /\ NothingOldSent
<1>1. ClientTypes /\ WritesOnce /\ EntersAlone /\ PageWrites \subseteq Client!Calls
      /\ Client!Boot \in Client!Calls /\ csCalls \in [Client!Calls -> CallRecord]
  BY ClientNames DEF ClientInv, ClientTypes
<1>2. /\ csShown' = account /\ csCsrfToken' = 0 /\ csCsrf' = Client!NoRequest
      /\ csCalls' = Client!Reset([csCalls EXCEPT ![c] = Client!Ended(@, how)])
  BY DEF Client!Show
<1>3. /\ csCalls' \in [Client!Calls -> CallRecord]
      /\ \A d \in Client!Calls :
           /\ csCalls'[d].kind = csCalls[d].kind /\ csCalls'[d].who = csCalls[d].who
           /\ csCalls'[d].token = csCalls[d].token
           /\ csCalls'[d].answer = IF d = c THEN how ELSE csCalls[d].answer
           /\ IF d = c THEN csCalls'[d].stage = "ended"
              ELSE \/ csCalls'[d].stage = csCalls[d].stage /\ csCalls'[d].stage # "token"
                   \/ Client!Under(csCalls[d].stage) /\ csCalls'[d].stage = "cancelled"
           /\ Client!Under(csCalls'[d].stage) => csCalls'[d].stale
           /\ csCalls'[d].stage = "idle" => csCalls'[d].stale = csCalls[d].stale
  <2>0. PICK first : first = [csCalls EXCEPT ![c] = Client!Ended(@, how)]
    OBVIOUS
  <2>1. /\ first \in [Client!Calls -> CallRecord]
        /\ \A d \in Client!Calls :
             /\ first[d].kind = csCalls[d].kind /\ first[d].who = csCalls[d].who
             /\ first[d].token = csCalls[d].token
             /\ first[d].answer = IF d = c THEN how ELSE csCalls[d].answer
             /\ first[d].stage = IF d = c THEN "ended" ELSE csCalls[d].stage
             /\ d # c => first[d].stale = csCalls[d].stale
    <3> DEFINE e == Client!Ended(csCalls[c], how)
    <3>1. /\ e \in CallRecord /\ e.kind = csCalls[c].kind /\ e.who = csCalls[c].who
          /\ e.token = csCalls[c].token /\ e.answer = how /\ e.stage = "ended"
      <4>1. csCalls[c] \in CallRecord
        BY <1>1
      <4> QED BY <4>1, CallEnds
    <3>2. first = [csCalls EXCEPT ![c] = e]
      BY <2>0
    <3> HIDE DEF e
    <3>3. /\ first \in [Client!Calls -> CallRecord] /\ first[c] = e
          /\ \A d \in Client!Calls : d # c => first[d] = csCalls[d]
      BY <1>1, <3>1, <3>2
    <3> QED BY <3>1, <3>3
  <2>2. csCalls' = Client!Reset(first)
    BY <1>2, <2>0
  <2>3. ASSUME NEW d \in Client!Calls
        PROVE  /\ csCalls'[d] \in CallRecord
               /\ csCalls'[d].kind = first[d].kind /\ csCalls'[d].who = first[d].who
               /\ csCalls'[d].token = first[d].token /\ csCalls'[d].answer = first[d].answer
               /\ \/ csCalls'[d].stage = first[d].stage /\ csCalls'[d].stage # "token"
                  \/ Client!Under(first[d].stage) /\ csCalls'[d].stage = "cancelled"
               /\ Client!Under(csCalls'[d].stage) => csCalls'[d].stale
               /\ ~Client!Under(first[d].stage) => csCalls'[d] = first[d]
    <3> DEFINE old == [first[d] EXCEPT !.stale = TRUE]
               gone == [Client!Cancelled(first[d]) EXCEPT !.stale = TRUE]
    <3>1. first[d] \in CallRecord
      BY <2>1
    <3>2. csCalls'[d] = IF ~Client!Under(first[d].stage) THEN first[d]
                     ELSE IF d = Client!Boot \/ first[d].stage = "token" THEN gone ELSE old
      BY <2>2 DEF Client!Reset
    <3>3. /\ old \in CallRecord /\ old.stale
          /\ old.kind = first[d].kind /\ old.who = first[d].who /\ old.stage = first[d].stage
          /\ old.token = first[d].token /\ old.answer = first[d].answer
      BY <3>1, CallOutdated
    <3>4. /\ gone \in CallRecord /\ gone.stale
          /\ gone.kind = first[d].kind /\ gone.who = first[d].who /\ gone.stage = "cancelled"
          /\ gone.token = first[d].token /\ gone.answer = first[d].answer
      BY <3>1, CallOutdated
    <3> HIDE DEF old, gone
    <3>5. CASE ~Client!Under(first[d].stage)
      BY <3>1, <3>2, <3>5 DEF Client!Under
    <3>6. CASE Client!Under(first[d].stage) /\ csCalls'[d] = gone
      BY <3>4, <3>6
    <3>7. CASE Client!Under(first[d].stage) /\ csCalls'[d] = old /\ first[d].stage # "token"
      BY <3>3, <3>7
    <3> QED BY <3>2, <3>5, <3>6, <3>7
  <2>4. csCalls' = [d \in Client!Calls |-> csCalls'[d]]
    BY <2>2 DEF Client!Reset
  <2>5. csCalls' \in [Client!Calls -> CallRecord]
    BY <2>3, <2>4
  <2>6. ASSUME NEW d \in Client!Calls
        PROVE  /\ csCalls'[d].kind = csCalls[d].kind /\ csCalls'[d].who = csCalls[d].who
               /\ csCalls'[d].token = csCalls[d].token
               /\ csCalls'[d].answer = IF d = c THEN how ELSE csCalls[d].answer
               /\ IF d = c THEN csCalls'[d].stage = "ended"
                  ELSE \/ csCalls'[d].stage = csCalls[d].stage /\ csCalls'[d].stage # "token"
                       \/ Client!Under(csCalls[d].stage) /\ csCalls'[d].stage = "cancelled"
               /\ Client!Under(csCalls'[d].stage) => csCalls'[d].stale
               /\ csCalls'[d].stage = "idle" => csCalls'[d].stale = csCalls[d].stale
    <3>1. ASSUME d = c PROVE csCalls'[d].stage = "ended"
      <4>1. first[d].stage = "ended"
        BY <2>1, <3>1
      <4>2. ~Client!Under(first[d].stage)
        BY <4>1 DEF Client!Under
      <4>3. csCalls'[d] = first[d]
        BY <2>3, <4>2
      <4> QED BY <4>1, <4>3
    <3>2. d # c => \/ csCalls'[d].stage = csCalls[d].stage /\ csCalls'[d].stage # "token"
                   \/ Client!Under(csCalls[d].stage) /\ csCalls'[d].stage = "cancelled"
      BY <2>1, <2>3
    <3>3. ASSUME csCalls'[d].stage = "idle" PROVE csCalls'[d].stale = csCalls[d].stale
      <4>1. d # c
        BY <3>1, <3>3
      <4>2. csCalls'[d] = first[d]
        BY <2>3, <3>3 DEF Client!Under
      <4> QED BY <2>1, <4>1, <4>2
    <3>4. /\ csCalls'[d].kind = csCalls[d].kind /\ csCalls'[d].who = csCalls[d].who
          /\ csCalls'[d].token = csCalls[d].token
          /\ csCalls'[d].answer = IF d = c THEN how ELSE csCalls[d].answer
      <4>1. /\ csCalls'[d].kind = first[d].kind /\ csCalls'[d].who = first[d].who
            /\ csCalls'[d].token = first[d].token /\ csCalls'[d].answer = first[d].answer
        BY <2>3
      <4>2. /\ first[d].kind = csCalls[d].kind /\ first[d].who = csCalls[d].who
            /\ first[d].token = csCalls[d].token
            /\ first[d].answer = IF d = c THEN how ELSE csCalls[d].answer
        BY <2>1
      <4> QED BY <4>1, <4>2
    <3>5. Client!Under(csCalls'[d].stage) => csCalls'[d].stale
      BY <2>3
    <3> QED BY <3>1, <3>2, <3>3, <3>4, <3>5
  <2> QED BY <2>5, <2>6
<1>4. ClientTypes'
  <2>1. csCsrf' \in [stage : {"none", "sent", "answered"}, token : Nat] /\ csCsrf'.token = 0
    BY <1>2 DEF Client!NoRequest
  <2>2. \A d \in Client!Calls : csCalls'[d].token <= csToken'
    BY <1>1, <1>3 DEF ClientTypes
  <2>3. csToken' = csToken /\ csToken \in Nat /\ csCsrfToken' <= csToken'
    BY <1>1, <1>2 DEF ClientTypes
  <2>4. csSession' \in Accounts \cup {Nobody} /\ csShown' \in Accounts \cup {Nobody}
    BY <1>1, <1>2 DEF ClientTypes
  <2>5. csTabs' \in 0 .. OtherTabs /\ csLost' \in 0 .. ClientLosses
        /\ csExecuted' \in [PageWrites -> Nat] /\ csSignedOut' \in BOOLEAN
    BY <1>1 DEF ClientTypes
  <2> QED BY <1>2, <1>3, <2>1, <2>2, <2>3, <2>4, <2>5 DEF ClientTypes
<1>5. \A d \in Client!Calls : ~Present(d)'
  BY <1>3 DEF Present
<1>6. WritesOnce'
  <2> SUFFICES ASSUME NEW d \in PageWrites
               PROVE  /\ csExecuted'[d] <= 1
                      /\ csExecuted'[d] > 0 => /\ csCalls'[d].stage \in {"answered", "ended", "cancelled"}
                                               /\ csCalls'[d].answer \in {"ok", "lost"}
                                               /\ csLost' = 0 => csCalls'[d].answer = "ok"
                      /\ csCalls'[d].answer = "ok" => csExecuted'[d] > 0
                      /\ csCalls'[d].stage \in {"idle", "token"} => ~csCalls'[d].stale
    BY DEF WritesOnce
  <2>1. csCalls'[d].answer = csCalls[d].answer
    BY <1>1, <1>3
  <2>2. d # c => \/ csCalls'[d].stage = csCalls[d].stage /\ csCalls'[d].stage # "token"
                 \/ csCalls'[d].stage = "cancelled"
    BY <1>1, <1>3
  <2>3. d = c => csCalls'[d].stage = "ended"
    BY <1>1, <1>3
  <2>4. csCalls'[d].stage = "idle" => csCalls'[d].stale = csCalls[d].stale
    BY <1>1, <1>3
  <2> QED BY <1>1, <2>1, <2>2, <2>3, <2>4 DEF WritesOnce
<1>7. EntersAlone'
  <2>1. csSignedOut' => csShown' = Nobody
    BY <1>2
  <2>2. ASSUME NEW d \in PageWrites, csCalls'[d].kind \in Client!Entering PROVE csCalls'[d].who # Nobody
    BY <1>1, <1>3, <2>2 DEF EntersAlone
  <2>3. csCalls'[Client!Boot].kind \in {"me", "account"}
    BY <1>1, <1>3 DEF EntersAlone
  <2>4. \A d \in PageWrites : ~Present(d)'
    BY <1>1, <1>5
  <2> QED BY <1>5, <2>1, <2>2, <2>3, <2>4 DEF EntersAlone
<1>8. ASSUME csTabs' = 0, csLost' = 0 PROVE SessionFollows'
  <2>1. ASSUME \A d \in PageWrites : ~Moved(d)' PROVE csShown' \in {Nobody, csSession'}
    <3>1. ASSUME NEW d \in PageWrites, Moved(d), d # c PROVE FALSE
      <4>1. Moved(d)'
        BY <1>1, <1>3, <3>1 DEF Moved, Unheard, Client!Under
      <4> QED BY <4>1, <2>1
    <3> QED BY <3>1, <1>2, <1>8
  <2> QED BY <1>1, <1>5, <2>1 DEF SessionFollows
<1>9. NothingOldSent
  <2> SUFFICES ASSUME NEW d \in PageWrites, csCalls'[d].stage = "sent"
               PROVE  csCalls[d].stage = "sent"
    BY DEF NothingOldSent
  <2>1. d # c
    BY <1>1, <1>3
  <2> QED BY <1>1, <1>3, <2>1
<1> QED BY <1>4, <1>6, <1>7, <1>8, <1>9 DEF ClientInv

LEMMA ClientStill ==
  ASSUME ClientInv, NEW c \in Client!Calls, NEW b \in BOOLEAN
  PROVE  Goes(c, csCalls[c], csCalls[c], b)
<1>1. ASSUME c \in PageWrites
      PROVE  /\ csCalls[c].stage \in {"idle", "token"} => ~csCalls[c].stale
             /\ csExecuted[c] > 0 => csCalls[c].stage \in {"answered", "ended", "cancelled"}
  BY <1>1 DEF ClientInv, WritesOnce
<1>2. csCalls[Client!Boot].kind \in {"me", "account"}
  BY DEF ClientInv, EntersAlone
<1> DEFINE x == csCalls[c]
<1>3. ASSUME c \in PageWrites
      PROVE  /\ x.stage \in {"idle", "token"} => ~x.stale
             /\ csExecuted[c] > 0 => x.stage \in {"answered", "ended", "cancelled"}
  BY <1>1, <1>3
<1>4. ASSUME c = Client!Boot
      PROVE  /\ x.kind \in {"me", "account"}
             /\ x.stage = "answered" =>
                  \/ x.stage = "answered" /\ x.answer = x.answer
                  \/ x.answer \in {Nobody, csSession} \/ x.answer \notin Accounts
  BY <1>2, <1>4
<1> HIDE DEF x
<1>5. ASSUME c \in PageWrites
      PROVE  /\ x.kind \in Client!Entering =>
                  \/ x.kind = x.kind /\ x.who = x.who /\ (Client!Under(x.stage) => Client!Under(x.stage))
                  \/ x.who # Nobody /\ csShown = Nobody
             /\ x.stage \in {"idle", "token"} => ~x.stale
             /\ x.stage = "sent" => x.stage \in {"idle", "token", "sent"}
             /\ x.answer = "ok" <=> x.answer = "ok"
             /\ csExecuted[c] > 0 =>
                  /\ x.kind = x.kind /\ x.who = x.who /\ x.answer = x.answer
                  /\ x.stage \in {"answered", "ended", "cancelled"}
                  /\ Client!Under(x.stage) => Client!Under(x.stage)
                  /\ x.stage = "ended" => x.stage = "ended"
                  /\ csLost = 0 /\ x.stage = "ended"
                     /\ x.kind \in Client!Entering \cup {"logout", "delete"} => x.stage = "ended"
  BY <1>3, <1>5
<1>6. Goes(c, x, x, b)
  BY <1>4, <1>5, Zenon DEF Goes
<1> QED BY <1>6 DEF x

\* One call goes on.
LEMMA OneGoes ==
  ASSUME ClientInv, NEW c \in Client!Calls, NEW e \in CallRecord, csCalls' = [csCalls EXCEPT ![c] = e],
         e.token <= csToken, Goes(c, csCalls[c], e, csSignedOut'),
         UNCHANGED <<csSession, csToken, csShown, csTabs, csExecuted>>,
         csCsrfToken' \in Nat, csCsrfToken' <= csToken,
         csCsrf' \in [stage : {"none", "sent", "answered"}, token : Nat], csCsrf'.token <= csToken,
         csLost' \in 0 .. ClientLosses, csLost' = 0 => csLost = 0,
         csSignedOut' \in BOOLEAN, csSignedOut' => csSignedOut
  PROVE  ClientInv' /\ NothingOldSent
<1>1. /\ csSession \in Accounts \cup {Nobody} /\ csShown \in Accounts \cup {Nobody} /\ csToken \in Nat
      /\ csCalls \in [Client!Calls -> CallRecord]
      /\ \A d \in Client!Calls : csCalls[d].token <= csToken
      /\ csTabs \in 0 .. OtherTabs /\ csExecuted \in [PageWrites -> Nat]
  BY DEF ClientInv, ClientTypes
<1>2. /\ csCalls' \in [Client!Calls -> CallRecord] /\ csCalls'[c] = e
      /\ \A d \in Client!Calls : d # c => csCalls'[d] = csCalls[d]
  BY <1>1
<1>3. ClientTypes'
  <2>1. \A d \in Client!Calls : csCalls'[d].token <= csToken'
    BY <1>1, <1>2
  <2>2. csCsrfToken' <= csToken' /\ csCsrf'.token <= csToken'
    OBVIOUS
  <2> QED BY <1>1, <1>2, <2>1, <2>2 DEF ClientTypes
<1>4. ASSUME NEW d \in Client!Calls PROVE Goes(d, csCalls[d], csCalls'[d], csSignedOut')
  <2>1. CASE d = c
    BY <1>2, <2>1
  <2>2. CASE d # c
    <3>1. csCalls'[d] = csCalls[d]
      BY <1>2, <2>2
    <3> QED BY <3>1, ClientStill, Zenon
  <2> QED BY <2>1, <2>2
<1> QED BY <1>3, <1>4, ClientGoes

LEMMA ClientTyped ==
  ASSUME ClientInv
  PROVE  /\ csCsrfToken \in Nat /\ csToken \in Nat /\ csCsrfToken <= csToken
         /\ csCsrf \in [stage : {"none", "sent", "answered"}, token : Nat] /\ csCsrf.token <= csToken
         /\ csLost \in 0 .. ClientLosses /\ csSignedOut \in BOOLEAN
         /\ csCalls \in [Client!Calls -> CallRecord]
         /\ \A c \in Client!Calls : csCalls[c] \in CallRecord /\ csCalls[c].token <= csToken
         /\ csSession \in Accounts \cup {Nobody} /\ csShown \in Accounts \cup {Nobody}
         /\ csExecuted \in [PageWrites -> Nat] /\ csTabs \in 0 .. OtherTabs
BY DEF ClientInv, ClientTypes

\* A caller has its answer, and no other account is shown.
LEMMA CallOver ==
  ASSUME ClientInv, NEW c \in Client!Calls, csCalls[c].stage = "answered", NEW how \in Client!Answers,
         c \in PageWrites => how = csCalls[c].answer,
         csCalls' = [csCalls EXCEPT ![c] = Client!Ended(@, how)],
         c \in PageWrites /\ csLost = 0 /\ csExecuted[c] > 0 =>
           csCalls[c].kind \notin Client!Entering \cup {"logout", "delete"},
         UNCHANGED <<csSession, csToken, csShown, csTabs, csLost, csExecuted, csSignedOut, csCsrf>>,
         csCsrfToken' \in Nat, csCsrfToken' <= csToken
  PROVE  ClientInv' /\ NothingOldSent
<1>0. PICK x : x = csCalls[c]
  OBVIOUS
<1>1. x \in CallRecord /\ x.token <= csToken
  BY <1>0, ClientTyped
<1>2. PICK e : e = Client!Ended(x, how)
  OBVIOUS
<1>3. /\ e \in CallRecord /\ e.kind = x.kind /\ e.who = x.who /\ e.stage = "ended"
      /\ e.token = x.token /\ e.answer = how
  BY <1>1, <1>2, CallEnds
<1>4. e.stale = x.stale
  BY <1>1, <1>2, CallEnds
<1>5. csCalls' = [csCalls EXCEPT ![c] = e]
  BY <1>0, <1>2
<1>6. Goes(c, x, e, csSignedOut')
  <2>1. ~Client!Under(e.stage) /\ e.stage \notin {"idle", "token", "sent", "answered"}
    BY <1>3 DEF Client!Under
  <2>2. c \in PageWrites => e.answer = x.answer
    BY <1>0, <1>3
  <2>3. c = Client!Boot => e.kind \in {"me", "account"}
    BY <1>0, <1>3 DEF ClientInv, EntersAlone
  <2>4. ASSUME c \in PageWrites, csLost = 0, csExecuted[c] > 0
        PROVE  x.kind \notin Client!Entering \cup {"logout", "delete"}
    BY <1>0, <2>4
  <2> QED BY <1>3, <1>4, <2>1, <2>2, <2>3, <2>4 DEF Goes
<1>7. Goes(c, csCalls[c], e, csSignedOut')
  BY <1>0, <1>6
<1>8. e.token <= csToken
  BY <1>1, <1>3
<1>9. /\ csCsrf' \in [stage : {"none", "sent", "answered"}, token : Nat] /\ csCsrf'.token <= csToken
      /\ csLost' \in 0 .. ClientLosses /\ csSignedOut' \in BOOLEAN
  BY ClientTyped
<1> QED BY <1>3, <1>5, <1>7, <1>8, <1>9, OneGoes

LEMMA ClientReads ==
  ASSUME ClientInv, Client!BootKnows \/ Client!ReadFailed
  PROVE  ClientInv' /\ NothingOldSent
<1>0. Client!Boot \in Client!Calls /\ Client!Boot \notin PageWrites
  BY ClientNames, ClientParameters
<1>1. CASE Client!ReadFailed
  <2>1. /\ csCalls[Client!Boot].stage = "answered"
        /\ csCalls' = [csCalls EXCEPT ![Client!Boot] = Client!Ended(@, "lost")]
        /\ UNCHANGED <<csSession, csToken, csShown, csTabs, csLost, csExecuted, csSignedOut, csCsrf, csCsrfToken>>
    BY <1>1 DEF Client!ReadFailed, Client!Read
  <2>2. "lost" \in Client!Answers
    BY DEF Client!Answers, Client!Outcomes
  <2>3. csCsrfToken' \in Nat /\ csCsrfToken' <= csToken
    BY <2>1, ClientTyped
  <2> QED BY <1>0, <2>1, <2>2, <2>3, CallOver
<1>2. CASE Client!BootKnows
  <2>0. PICK x : x = csCalls[Client!Boot]
    OBVIOUS
  <2>1. x \in CallRecord /\ x.token <= csToken
    BY <1>0, <2>0, ClientTyped
  <2> DEFINE e == Asks(x, "account", "sent")
  <2>9. "account" \in Client!Kinds
    BY DEF Client!Kinds
  <2>3. /\ e \in CallRecord /\ e.kind = "account" /\ e.stage = "sent" /\ e.token = x.token
    BY <2>1, <2>9, CallAsks
  <2>4. e.stale = x.stale
    BY <2>1, <2>9, CallAsks
  <2>5. /\ csCalls' = [csCalls EXCEPT ![Client!Boot].kind = "account", ![Client!Boot].stage = "sent"]
        /\ UNCHANGED <<csSession, csToken, csShown, csTabs, csLost, csExecuted, csSignedOut, csCsrf, csCsrfToken>>
        /\ csCalls[Client!Boot].stage = "answered"
    BY <1>2 DEF Client!BootKnows, Client!Read
  <2>6. csCalls' = [csCalls EXCEPT ![Client!Boot] = e]
    <3>1. csCalls \in [Client!Calls -> CallRecord]
      BY ClientTyped
    <3> QED BY <1>0, <2>0, <2>5, <3>1 DEF Asks
  <2> HIDE DEF e
  <2>7. Goes(Client!Boot, csCalls[Client!Boot], e, csSignedOut')
    <3>1. Client!Under(x.stage)
      BY <2>0, <2>5 DEF Client!Under
    <3>2. Goes(Client!Boot, x, e, csSignedOut')
      BY <1>0, <2>3, <2>4, <3>1 DEF Goes
    <3> QED BY <2>0, <3>2
  <2>8. /\ csCsrf' \in [stage : {"none", "sent", "answered"}, token : Nat] /\ csCsrf'.token <= csToken
        /\ csLost' \in 0 .. ClientLosses /\ csSignedOut' \in BOOLEAN
        /\ csCsrfToken' \in Nat /\ csCsrfToken' <= csToken /\ e.token <= csToken
    BY <2>1, <2>3, <2>5, ClientTyped
  <2> QED BY <1>0, <2>3, <2>5, <2>6, <2>7, <2>8, OneGoes
<1> QED BY <1>1, <1>2

\* Several calls go on.
LEMMA ManyGo ==
  ASSUME ClientInv, csCalls' = [c \in Client!Calls |-> csCalls'[c]],
         \A c \in Client!Calls : /\ csCalls'[c] \in CallRecord /\ csCalls'[c].token <= csToken
                                 /\ Goes(c, csCalls[c], csCalls'[c], csSignedOut'),
         UNCHANGED <<csSession, csToken, csShown, csTabs, csExecuted, csSignedOut>>,
         csCsrfToken' \in Nat, csCsrfToken' <= csToken,
         csCsrf' \in [stage : {"none", "sent", "answered"}, token : Nat], csCsrf'.token <= csToken,
         csLost' \in 0 .. ClientLosses, csLost' = 0 => csLost = 0
  PROVE  ClientInv' /\ NothingOldSent
<1>1. csCalls' \in [Client!Calls -> CallRecord]
  OBVIOUS
<1>2. ClientTypes'
  <2>1. \A d \in Client!Calls : csCalls'[d].token <= csToken'
    OBVIOUS
  <2>2. csCsrfToken' <= csToken' /\ csCsrf'.token <= csToken'
    OBVIOUS
  <2> QED BY <1>1, <2>1, <2>2, ClientTyped DEF ClientTypes
<1>3. \A c \in Client!Calls : Goes(c, csCalls[c], csCalls'[c], csSignedOut')
  OBVIOUS
<1> QED BY <1>2, <1>3, ClientGoes

\* A call is answered, and was not carried out.
LEMMA CallHeard ==
  ASSUME ClientInv, NEW c \in Client!Calls, csCalls[c].stage = "sent",
         NEW e \in CallRecord, csCalls' = [csCalls EXCEPT ![c] = e],
         e.kind = csCalls[c].kind, e.who = csCalls[c].who, e.stage = "answered",
         e.token = csCalls[c].token, e.stale = csCalls[c].stale, e.answer # "ok",
         c = Client!Boot => e.answer \in {Nobody, csSession} \/ e.answer \notin Accounts,
         UNCHANGED <<csSession, csToken, csShown, csTabs, csExecuted, csSignedOut, csCsrf, csCsrfToken>>,
         csLost' \in 0 .. ClientLosses, csLost' = 0 => csLost = 0
  PROVE  ClientInv' /\ NothingOldSent
<1>1. Goes(c, csCalls[c], e, csSignedOut')
  <2>1. Client!Under(csCalls[c].stage)
    BY DEF Client!Under
  <2>2. c \in PageWrites => csCalls[c].answer # "ok" /\ ~(csExecuted[c] > 0)
    BY DEF ClientInv, WritesOnce
  <2>3. c = Client!Boot => e.kind \in {"me", "account"}
    BY DEF ClientInv, EntersAlone
  <2> QED BY <2>1, <2>2, <2>3 DEF Goes
<1>2. /\ csCsrf' \in [stage : {"none", "sent", "answered"}, token : Nat] /\ csCsrf'.token <= csToken
      /\ csSignedOut' \in BOOLEAN /\ csCsrfToken' \in Nat /\ csCsrfToken' <= csToken
      /\ e.token <= csToken
  BY ClientTyped
<1> QED BY <1>1, <1>2, OneGoes

LEMMA ClientLoses ==
  ASSUME ClientInv, NEW c \in Client!Calls, Client!Lose(c)
  PROVE  ClientInv' /\ NothingOldSent
<1> DEFINE e == Lost(csCalls[c], "answered", "lost")
<1>1. /\ csCalls[c].stage = "sent" /\ csLost' = csLost + 1 /\ csLost < ClientLosses
      /\ csCalls' = [csCalls EXCEPT ![c].stage = "answered", ![c].answer = "lost"]
      /\ UNCHANGED <<csSession, csToken, csShown, csTabs, csExecuted, csSignedOut, csCsrf, csCsrfToken>>
  BY DEF Client!Lose
<1>2. csCalls[c] \in CallRecord /\ csCalls \in [Client!Calls -> CallRecord]
  BY ClientTyped
<1>3. "lost" \in Client!Answers
  BY DEF Client!Answers, Client!Outcomes
<1>4. e \in CallRecord /\ e.kind = csCalls[c].kind /\ e.who = csCalls[c].who /\ e.stage = "answered"
      /\ e.answer = "lost"
  BY <1>2, <1>3, CallLost
<1>5. e.token = csCalls[c].token
  BY <1>2, <1>3, CallLost
<1>6. e.stale = csCalls[c].stale
  BY <1>2, <1>3, CallLost
<1>7. csCalls' = [csCalls EXCEPT ![c] = e]
  BY <1>1, <1>2 DEF Lost
<1> HIDE DEF e
<1>8. csLost' \in 0 .. ClientLosses /\ (csLost' = 0 => csLost = 0)
  BY <1>1, ClientTyped, ClientParameters
<1>9. e.answer # "ok" /\ e.answer \notin Accounts
  BY <1>4, ClientParameters
<1> QED BY <1>1, <1>4, <1>5, <1>6, <1>7, <1>8, <1>9, CallHeard

LEMMA ClientDrops ==
  ASSUME ClientInv, NEW c \in PageWrites, Client!DropObsolete(c)
  PROVE  ClientInv' /\ NothingOldSent
<1> DEFINE e == Stands(csCalls[c], "cancelled")
<1>0. c \in Client!Calls /\ c # Client!Boot
  BY ClientNames
<1>1. /\ csCalls[c].stage = "answered"
      /\ csCalls' = [csCalls EXCEPT ![c] = Client!Cancelled(@)]
      /\ UNCHANGED <<csSession, csToken, csShown, csTabs, csLost, csExecuted, csSignedOut, csCsrf, csCsrfToken>>
  BY DEF Client!DropObsolete
<1>2. csCalls[c] \in CallRecord /\ csCalls \in [Client!Calls -> CallRecord] /\ csCalls[c].token <= csToken
  BY <1>0, ClientTyped
<1>4. e \in CallRecord /\ e.kind = csCalls[c].kind /\ e.who = csCalls[c].who /\ e.stage = "cancelled"
      /\ e.answer = csCalls[c].answer
  BY <1>2, CallStands
<1>5. e.token = csCalls[c].token
  BY <1>2, CallStands
<1>6. e.stale = csCalls[c].stale
  BY <1>2, CallStands
<1>7. csCalls' = [csCalls EXCEPT ![c] = e]
  BY <1>1 DEF Stands, Client!Cancelled
<1> HIDE DEF e
<1>8. Goes(c, csCalls[c], e, csSignedOut')
  <2>1. ~Client!Under(e.stage) /\ e.stage \notin {"idle", "token", "sent", "ended"}
    BY <1>4 DEF Client!Under
  <2> QED BY <1>0, <1>1, <1>4, <1>6, <2>1 DEF Goes
<1>9. /\ csCsrf' \in [stage : {"none", "sent", "answered"}, token : Nat] /\ csCsrf'.token <= csToken
      /\ csSignedOut' \in BOOLEAN /\ csCsrfToken' \in Nat /\ csCsrfToken' <= csToken
      /\ csLost' \in 0 .. ClientLosses /\ e.token <= csToken
  BY <1>1, <1>2, <1>5, ClientTyped
<1> QED BY <1>0, <1>1, <1>4, <1>7, <1>8, <1>9, OneGoes

\* A write waiting for a token is sent with it, or cancelled.
LEMMA WaiterGoes ==
  ASSUME ClientInv, NEW c \in Client!Calls, csCalls[c].stage = "token", NEW b \in BOOLEAN,
         NEW e \in CallRecord, e.kind = csCalls[c].kind, e.who = csCalls[c].who,
         e.stage \in {"sent", "cancelled"}, e.answer = csCalls[c].answer, e.stale = csCalls[c].stale
  PROVE  Goes(c, csCalls[c], e, b)
<1>1. Client!Under(csCalls[c].stage)
  BY DEF Client!Under
<1>2. c \in PageWrites => ~(csExecuted[c] > 0)
  BY DEF ClientInv, WritesOnce
<1>3. c = Client!Boot => e.kind \in {"me", "account"}
  BY DEF ClientInv, EntersAlone
<1> QED BY <1>1, <1>2, <1>3 DEF Goes

LEMMA ClientCancels ==
  ASSUME NEW x \in CallRecord
  PROVE  LET e == Client!Cancelled(x) IN
         /\ e \in CallRecord /\ e.kind = x.kind /\ e.who = x.who /\ e.stage = "cancelled"
         /\ e.answer = x.answer /\ e.token = x.token /\ e.stale = x.stale
<1> DEFINE e == Stands(x, "cancelled")
<1>1. e \in CallRecord /\ e.kind = x.kind /\ e.who = x.who /\ e.stage = "cancelled"
      /\ e.answer = x.answer /\ e.token = x.token
  BY CallStands
<1>2. e.stale = x.stale
  BY CallStands
<1>3. Client!Cancelled(x) = e
  BY DEF Stands, Client!Cancelled
<1> HIDE DEF e
<1> QED BY <1>1, <1>2, <1>3

LEMMA ClientTokens ==
  ASSUME ClientInv, Client!ServeToken \/ Client!TokenArrives \/ Client!TokenFails
  PROVE  ClientInv' /\ NothingOldSent
<1>0. /\ csCsrfToken \in Nat /\ csToken \in Nat /\ csCsrfToken <= csToken
      /\ csCsrf \in [stage : {"none", "sent", "answered"}, token : Nat] /\ csCsrf.token <= csToken
      /\ csLost \in 0 .. ClientLosses
      /\ csCalls \in [Client!Calls -> CallRecord]
      /\ \A c \in Client!Calls : csCalls[c] \in CallRecord /\ csCalls[c].token <= csToken
  BY ClientTyped
<1>4. csSignedOut \in BOOLEAN
  BY ClientTyped
<1>1. CASE Client!ServeToken
  <2>1. /\ csCsrf' = [stage |-> "answered", token |-> csToken] /\ csCalls' = csCalls
        /\ UNCHANGED <<csSession, csToken, csShown, csTabs, csLost, csExecuted, csSignedOut, csCsrfToken>>
    BY <1>1 DEF Client!ServeToken
  <2>2. csCsrf' \in [stage : {"none", "sent", "answered"}, token : Nat] /\ csCsrf'.token = csToken
    BY <1>0, <2>1
  <2>3. csCalls' = [c \in Client!Calls |-> csCalls'[c]]
    BY <1>0, <2>1
  <2>4. ASSUME NEW c \in Client!Calls
        PROVE  /\ csCalls'[c] \in CallRecord /\ csCalls'[c].token <= csToken
               /\ Goes(c, csCalls[c], csCalls'[c], csSignedOut')
    <3>1. Goes(c, csCalls[c], csCalls[c], csSignedOut)
      BY <1>4, ClientStill
    <3> QED BY <1>0, <2>1, <3>1, Zenon
  <2> QED BY <1>0, <2>1, <2>2, <2>3, <2>4, ManyGo
<1>2. CASE Client!TokenArrives
  <2>1. /\ csCsrfToken' = csCsrf.token /\ csCsrf' = Client!NoRequest
        /\ csCalls' = [c \in Client!Calls |-> IF csCalls[c].stage = "token"
                         THEN [csCalls[c] EXCEPT !.stage = "sent", !.token = csCsrf.token] ELSE csCalls[c]]
        /\ UNCHANGED <<csSession, csToken, csShown, csTabs, csLost, csExecuted, csSignedOut>>
    BY <1>2 DEF Client!TokenArrives
  <2>2. /\ csCsrf' \in [stage : {"none", "sent", "answered"}, token : Nat] /\ csCsrf'.token = 0
    BY <1>0, <2>1 DEF Client!NoRequest
  <2>5. PICK t \in Nat : t = csCsrf.token
    BY <1>0
  <2>3. csCalls' = [c \in Client!Calls |-> csCalls'[c]]
    BY <2>1
  <2>4. ASSUME NEW c \in Client!Calls
        PROVE  /\ csCalls'[c] \in CallRecord /\ csCalls'[c].token <= csToken
               /\ Goes(c, csCalls[c], csCalls'[c], csSignedOut')
    <3>1. CASE csCalls[c].stage # "token"
      <4>1. Goes(c, csCalls[c], csCalls[c], csSignedOut)
        BY <1>4, ClientStill
      <4>2. csCalls'[c] = csCalls[c]
        BY <2>1, <3>1
      <4> QED BY <1>0, <2>1, <4>1, <4>2, Zenon
    <3>2. CASE csCalls[c].stage = "token"
      <4>0. PICK x : x = csCalls[c]
        OBVIOUS
      <4> DEFINE e == Sends(x, "sent", t)
      <4>1. x \in CallRecord /\ csCalls[c] = x /\ t \in Nat
        BY <1>0, <2>5, <4>0
      <4>2. e \in CallRecord /\ e.kind = x.kind /\ e.who = x.who /\ e.stage = "sent"
            /\ e.token = t /\ e.answer = x.answer
        BY <4>1, CallSends
      <4>3. e.stale = x.stale
        BY <4>1, CallSends
      <4>4. csCalls'[c] = e
        BY <2>1, <2>5, <3>2, <4>1 DEF Sends
      <4> HIDE DEF e
      <4>5. Goes(c, csCalls[c], e, csSignedOut)
        BY <1>4, <3>2, <4>1, <4>2, <4>3, WaiterGoes
      <4>6. e.token <= csToken
        BY <1>0, <2>5, <4>2
      <4> QED BY <2>1, <4>2, <4>4, <4>5, <4>6, Zenon
    <3> QED BY <3>1, <3>2
  <2>6. /\ csCsrfToken' \in Nat /\ csCsrfToken' <= csToken /\ csCsrf'.token <= csToken
        /\ csLost' \in 0 .. ClientLosses /\ (csLost' = 0 => csLost = 0)
    <3>1. csCsrfToken' \in Nat /\ csCsrfToken' <= csToken
      BY <1>0, <2>1, <2>5
    <3>2. csCsrf'.token <= csToken
      BY <1>0, <2>2
    <3>3. csLost' \in 0 .. ClientLosses /\ (csLost' = 0 => csLost = 0)
      BY <1>0, <2>1
    <3> QED BY <3>1, <3>2, <3>3
  <2> QED BY <2>1, <2>2, <2>3, <2>4, <2>6, ManyGo
<1>3. CASE Client!TokenFails
  <2>1. /\ csLost < ClientLosses /\ csLost' = csLost + 1 /\ csCsrf' = Client!NoRequest
        /\ csCalls' = [c \in Client!Calls |->
                         IF csCalls[c].stage = "token" THEN Client!Cancelled(csCalls[c]) ELSE csCalls[c]]
        /\ UNCHANGED <<csSession, csToken, csShown, csTabs, csExecuted, csSignedOut, csCsrfToken>>
    BY <1>3 DEF Client!TokenFails, Client!WithoutToken
  <2>2. /\ csCsrf' \in [stage : {"none", "sent", "answered"}, token : Nat] /\ csCsrf'.token = 0
    BY <1>0, <2>1 DEF Client!NoRequest
  <2>3. csCalls' = [c \in Client!Calls |-> csCalls'[c]]
    BY <2>1
  <2>4. ASSUME NEW c \in Client!Calls
        PROVE  /\ csCalls'[c] \in CallRecord /\ csCalls'[c].token <= csToken
               /\ Goes(c, csCalls[c], csCalls'[c], csSignedOut')
    <3>1. CASE csCalls[c].stage # "token"
      <4>1. Goes(c, csCalls[c], csCalls[c], csSignedOut)
        BY <1>4, ClientStill
      <4>2. csCalls'[c] = csCalls[c]
        BY <2>1, <3>1
      <4> QED BY <1>0, <2>1, <4>1, <4>2, Zenon
    <3>2. CASE csCalls[c].stage = "token"
      <4> DEFINE e == Client!Cancelled(csCalls[c])
      <4>1. csCalls[c] \in CallRecord
        BY <1>0
      <4>2. e \in CallRecord /\ e.kind = csCalls[c].kind /\ e.who = csCalls[c].who /\ e.stage = "cancelled"
            /\ e.token = csCalls[c].token /\ e.answer = csCalls[c].answer
        BY <4>1, ClientCancels
      <4>3. e.stale = csCalls[c].stale
        BY <4>1, ClientCancels
      <4>4. csCalls'[c] = e
        BY <2>1, <3>2
      <4> HIDE DEF e
      <4>5. Goes(c, csCalls[c], e, csSignedOut)
        BY <1>4, <3>2, <4>2, <4>3, WaiterGoes
      <4>6. e.token <= csToken
        BY <1>0, <4>2
      <4> QED BY <2>1, <4>2, <4>4, <4>5, <4>6, Zenon
    <3> QED BY <3>1, <3>2
  <2>5. csLost' \in 0 .. ClientLosses /\ (csLost' = 0 => csLost = 0)
    BY <1>0, <2>1, ClientParameters
  <2>6. csCsrfToken' \in Nat /\ csCsrfToken' <= csToken /\ csCsrf'.token <= csToken
    BY <1>0, <2>1, <2>2
  <2> QED BY <2>1, <2>2, <2>3, <2>4, <2>5, <2>6, ManyGo
<1> QED BY <1>1, <1>2, <1>3

\* A write is submitted: by a page that shows an account, or to enter where it shows none.
LEMMA ClientSubmits ==
  ASSUME ClientInv, NEW c \in PageWrites, NEW kind \in Client!Kinds, NEW who \in Accounts \cup {Nobody},
         Client!Submit(c, kind, who),
         kind \in Client!Entering => csShown = Nobody /\ who # Nobody,
         kind \notin Client!Entering => csShown # Nobody
  PROVE  ClientInv' /\ NothingOldSent
<1>0. c \in Client!Calls /\ c # Client!Boot
  BY ClientNames
<1>1. PICK x : x = csCalls[c]
  OBVIOUS
<1>2. x \in CallRecord /\ x.token <= csToken /\ x.stage = "idle"
  BY <1>0, <1>1, ClientTyped DEF Client!Submit
<1> DEFINE call == IsFor(x, kind, who)
<1>3. call \in CallRecord /\ call.kind = kind /\ call.who = who /\ call.stage = x.stage
      /\ call.token = x.token /\ call.answer = x.answer
  BY <1>2, CallIsFor
<1>4. call.stale = x.stale
  BY <1>2, CallIsFor
<1>5. Client!Send(c, call, csCalls, csCsrfToken)
  BY <1>1 DEF Client!Submit, IsFor
<1>6. /\ csSignedOut' = (csSignedOut /\ kind \notin Client!Entering)
      /\ UNCHANGED <<csSession, csToken, csShown, csCsrfToken, csTabs, csLost, csExecuted>>
  BY DEF Client!Submit
<1> HIDE DEF call
<1>7. csSignedOut' = FALSE
  <2>1. CASE kind \in Client!Entering
    BY <1>6, <2>1
  <2>2. CASE kind \notin Client!Entering
    <3>1. ~csSignedOut
      BY <2>2 DEF ClientInv, EntersAlone
    <3> QED BY <1>6, <3>1
  <2> QED BY <2>1, <2>2
<1>8. /\ x.answer # "ok" /\ ~(csExecuted[c] > 0) /\ ~x.stale
  BY <1>1, <1>2 DEF ClientInv, WritesOnce
\* What goes out, or waits for a token.
<1>9. ASSUME NEW e \in CallRecord, e.kind = kind, e.who = who, e.stage \in {"sent", "token"},
             e.answer = x.answer, e.stale = x.stale
      PROVE  Goes(c, csCalls[c], e, csSignedOut')
  <2>1. Goes(c, x, e, FALSE)
    <3>1. kind \in Client!Entering => e.who # Nobody /\ csShown = Nobody
      BY <1>9
    <3> QED BY <1>0, <1>2, <1>8, <1>9, <3>1 DEF Goes
  <2> QED BY <1>1, <1>7, <2>1
<1>10. /\ csCsrfToken \in Nat /\ csCsrfToken <= csToken /\ csToken \in Nat
       /\ csCsrf \in [stage : {"none", "sent", "answered"}, token : Nat] /\ csCsrf.token <= csToken
       /\ csLost \in 0 .. ClientLosses
  BY ClientTyped
<1>11. CASE csCsrfToken # 0
  <2>0. PICK t : t = csCsrfToken
    OBVIOUS
  <2> DEFINE e == Sends(call, "sent", t)
  <2>1. t \in Nat /\ call \in CallRecord
    BY <1>3, <1>10, <2>0
  <2>2. e \in CallRecord /\ e.kind = call.kind /\ e.who = call.who /\ e.stage = "sent" /\ e.token = t
        /\ e.answer = call.answer
    BY <2>1, CallSends
  <2>3. e.stale = call.stale
    BY <2>1, CallSends
  <2>4. csCalls' = [csCalls EXCEPT ![c] = e] /\ csCsrf' = csCsrf
    BY <1>5, <1>11, <2>0 DEF Client!Send, Sends
  <2> HIDE DEF e
  <2>5. Goes(c, csCalls[c], e, csSignedOut')
    BY <1>3, <1>4, <1>9, <2>2, <2>3
  <2>6. /\ csCsrfToken' \in Nat /\ csCsrfToken' <= csToken /\ e.token <= csToken
        /\ csCsrf' \in [stage : {"none", "sent", "answered"}, token : Nat] /\ csCsrf'.token <= csToken
        /\ csLost' \in 0 .. ClientLosses
    BY <1>6, <1>10, <2>0, <2>2, <2>4
  <2> QED BY <1>0, <1>6, <1>7, <2>2, <2>4, <2>5, <2>6, OneGoes
<1>12. CASE csCsrfToken = 0
  <2> DEFINE e == Stands(call, "token")
  <2>2. e \in CallRecord /\ e.kind = call.kind /\ e.who = call.who /\ e.stage = "token"
        /\ e.token = call.token /\ e.answer = call.answer
    BY <1>3, CallStands
  <2>3. e.stale = call.stale
    BY <1>3, CallStands
  <2>4. /\ csCalls' = [csCalls EXCEPT ![c] = e]
        /\ csCsrf' = IF csCsrf = Client!NoRequest THEN Client!Requested ELSE csCsrf
    BY <1>5, <1>12 DEF Client!Send, Stands
  <2> HIDE DEF e
  <2>5. Goes(c, csCalls[c], e, csSignedOut')
    BY <1>3, <1>4, <1>9, <2>2, <2>3
  <2>6. csCsrf' \in [stage : {"none", "sent", "answered"}, token : Nat] /\ csCsrf'.token <= csToken
    BY <1>10, <2>4 DEF Client!Requested
  <2>7. /\ csCsrfToken' \in Nat /\ csCsrfToken' <= csToken /\ e.token <= csToken
        /\ csLost' \in 0 .. ClientLosses
    BY <1>2, <1>3, <1>6, <1>10, <2>2
  <2> QED BY <1>0, <1>6, <1>7, <2>2, <2>4, <2>5, <2>6, <2>7, OneGoes
<1> QED BY <1>11, <1>12

LEMMA ClientRetries ==
  ASSUME ClientInv, NEW c \in PageWrites, Client!Retry(c)
  PROVE  ClientInv' /\ NothingOldSent
<1>0. c \in Client!Calls /\ c # Client!Boot
  BY ClientNames
<1>1. /\ csCalls[c].stage = "answered" /\ ~csCalls[c].stale /\ csCalls[c].answer = "rejected"
      /\ csCalls' = [Client!WithoutToken(csCalls) EXCEPT
                       ![c] = [@ EXCEPT !.stage = "token", !.retried = TRUE, !.answer = "none"]]
      /\ csCsrfToken' = 0 /\ csCsrf' = Client!Requested
      /\ UNCHANGED <<csSession, csToken, csShown, csTabs, csLost, csExecuted, csSignedOut>>
  BY DEF Client!Retry, Client!Obsolete, Client!Retries
<1>2. /\ csToken \in Nat /\ csLost \in 0 .. ClientLosses
      /\ csCalls \in [Client!Calls -> CallRecord]
      /\ \A d \in Client!Calls : csCalls[d] \in CallRecord /\ csCalls[d].token <= csToken
  BY ClientTyped
<1>3. csSignedOut \in BOOLEAN
  BY ClientTyped
<1>4. /\ csCalls' = [d \in Client!Calls |-> csCalls'[d]]
      /\ csCalls'[c] = Again(csCalls[c], "token", TRUE, "none")
      /\ \A d \in Client!Calls : d # c =>
           csCalls'[d] = IF csCalls[d].stage = "token" THEN Client!Cancelled(csCalls[d]) ELSE csCalls[d]
  BY <1>0, <1>1 DEF Client!WithoutToken, Again
<1>5. ASSUME NEW d \in Client!Calls
      PROVE  /\ csCalls'[d] \in CallRecord /\ csCalls'[d].token <= csToken
             /\ Goes(d, csCalls[d], csCalls'[d], csSignedOut')
  <2>1. CASE d = c
    <3>0. PICK x : x = csCalls[c]
      OBVIOUS
    <3>1. PICK b : b = TRUE
      OBVIOUS
    <3> DEFINE e == Again(x, "token", b, "none")
    <3>2. x \in CallRecord /\ b \in BOOLEAN /\ "none" \in Client!Answers
      BY <1>0, <1>2, <3>0, <3>1 DEF Client!Answers, Client!Outcomes
    <3>3. e \in CallRecord /\ e.kind = x.kind /\ e.who = x.who /\ e.stage = "token"
          /\ e.token = x.token /\ e.answer = "none"
      BY <3>2, CallAgain
    <3>4. e.stale = x.stale
      BY <3>2, CallAgain
    <3>5. csCalls'[c] = e
      BY <1>4, <3>0, <3>1
    <3> HIDE DEF e
    <3>6. Goes(c, x, e, csSignedOut)
      <4>1. x.stage = "answered" /\ x.answer = "rejected" /\ Client!Under(x.stage)
        BY <1>1, <3>0 DEF Client!Under
      <4>2. ~x.stale
        BY <1>1, <3>0
      <4>3. ~(csExecuted[c] > 0)
        BY <1>1 DEF ClientInv, WritesOnce
      <4> QED BY <1>0, <3>3, <3>4, <4>1, <4>2, <4>3 DEF Goes
    <3>7. e.token <= csToken
      BY <1>0, <1>2, <3>0, <3>3
    <3> QED BY <1>1, <2>1, <3>0, <3>3, <3>5, <3>6, <3>7, Zenon
  <2>2. CASE d # c /\ csCalls[d].stage # "token"
    <3>1. Goes(d, csCalls[d], csCalls[d], csSignedOut)
      BY <1>3, ClientStill
    <3>2. csCalls'[d] = csCalls[d]
      BY <1>4, <2>2
    <3> QED BY <1>1, <1>2, <3>1, <3>2, Zenon
  <2>3. CASE d # c /\ csCalls[d].stage = "token"
    <3> DEFINE e == Client!Cancelled(csCalls[d])
    <3>1. csCalls[d] \in CallRecord
      BY <1>2
    <3>2. e \in CallRecord /\ e.kind = csCalls[d].kind /\ e.who = csCalls[d].who /\ e.stage = "cancelled"
          /\ e.token = csCalls[d].token /\ e.answer = csCalls[d].answer
      BY <3>1, ClientCancels
    <3>3. e.stale = csCalls[d].stale
      BY <3>1, ClientCancels
    <3>4. csCalls'[d] = e
      BY <1>4, <2>3
    <3> HIDE DEF e
    <3>5. Goes(d, csCalls[d], e, csSignedOut)
      BY <1>3, <2>3, <3>2, <3>3, WaiterGoes
    <3>6. e.token <= csToken
      BY <1>2, <3>2
    <3> QED BY <1>1, <3>2, <3>4, <3>5, <3>6, Zenon
  <2> QED BY <2>1, <2>2, <2>3
<1>6. csCsrf' \in [stage : {"none", "sent", "answered"}, token : Nat] /\ csCsrf'.token = 0
  BY <1>1 DEF Client!Requested
<1>7. csCsrfToken' \in Nat /\ csCsrfToken' <= csToken /\ csCsrf'.token <= csToken
      /\ csLost' \in 0 .. ClientLosses
  BY <1>1, <1>2, <1>6
<1> QED BY <1>1, <1>4, <1>5, <1>6, <1>7, ManyGo

\* The answer of a write shows another account.
LEMMA WriteShows ==
  ASSUME ClientInv, NEW c \in PageWrites, csCalls[c].stage = "answered",
         NEW account \in Accounts \cup {Nobody}, Client!Show(account, Client!Over(c)),
         UNCHANGED <<csSession, csToken, csTabs, csLost, csExecuted>>,
         csSignedOut' \in BOOLEAN, csSignedOut' => account = Nobody,
         csTabs = 0 /\ csLost = 0 /\ (\A d \in PageWrites : Moved(d) => d = c) => account \in {Nobody, csSession}
  PROVE  ClientInv' /\ NothingOldSent
<1>1. PICK how : how = csCalls[c].answer
  OBVIOUS
<1>2. c \in Client!Calls
  BY ClientNames
<1>3. how \in Client!Answers
  BY <1>1, <1>2, ClientTyped DEF CallRecord
<1>4. Client!Show(account, [csCalls EXCEPT ![c] = Client!Ended(@, how)])
  BY <1>1 DEF Client!Over
<1> QED BY <1>1, <1>2, <1>3, <1>4, ClientShows

\* It shows the account that is shown already.
LEMMA WriteOver ==
  ASSUME ClientInv, NEW c \in PageWrites, csCalls[c].stage = "answered", csCalls' = Client!Over(c),
         csLost = 0 /\ csExecuted[c] > 0 =>
           csCalls[c].kind \notin Client!Entering \cup {"logout", "delete"},
         UNCHANGED <<csSession, csToken, csShown, csTabs, csLost, csExecuted, csSignedOut, csCsrf>>,
         csCsrfToken' \in Nat, csCsrfToken' <= csToken
  PROVE  ClientInv' /\ NothingOldSent
<1>1. PICK how : how = csCalls[c].answer
  OBVIOUS
<1>2. c \in Client!Calls
  BY ClientNames
<1>3. how \in Client!Answers
  BY <1>1, <1>2, ClientTyped DEF CallRecord
<1>4. csCalls' = [csCalls EXCEPT ![c] = Client!Ended(@, how)]
  BY <1>1 DEF Client!Over
<1> QED BY <1>1, <1>2, <1>3, <1>4, CallOver

\* An answer "ok" is that of a write that was carried out.
LEMMA GivenOk ==
  ASSUME ClientInv, NEW c \in PageWrites, NEW kind, Client!Given(c, kind, {"ok"})
  PROVE  /\ csCalls[c].stage = "answered" /\ csCalls[c].kind = kind /\ Present(c) /\ Unheard(c)
         /\ csCalls[c].who \in Accounts \cup {Nobody} /\ csCalls[c].token <= csToken
         /\ csCalls[c].token \in Nat
         /\ UNCHANGED <<csSession, csToken, csTabs, csLost, csExecuted>>
         /\ csCsrfToken \in Nat /\ csCsrfToken <= csToken /\ csSignedOut \in BOOLEAN
         /\ ~csSignedOut
<1>1. csCalls[c].stage = "answered" /\ csCalls[c].kind = kind /\ csCalls[c].answer = "ok"
      /\ UNCHANGED <<csSession, csToken, csTabs, csLost, csExecuted>>
  BY DEF Client!Given
<1>2. ~csCalls[c].stale
  BY DEF Client!Given, Client!Obsolete
<1>3. Present(c)
  BY <1>1, <1>2 DEF Present, Client!Under
<1>4. Unheard(c)
  BY <1>1 DEF ClientInv, WritesOnce, Unheard
<1>5. c \in Client!Calls
  BY ClientNames
<1>6. ~csSignedOut
  BY <1>3, <1>5 DEF ClientInv, EntersAlone
<1>7. csCalls[c] \in CallRecord /\ csCalls[c].token <= csToken
  BY <1>5, ClientTyped
<1>8. csCalls[c].who \in Accounts \cup {Nobody} /\ csCalls[c].token \in Nat
  BY <1>7 DEF CallRecord
<1>9. csCsrfToken \in Nat /\ csCsrfToken <= csToken
  BY ClientTyped
<1>10. csSignedOut \in BOOLEAN
  BY ClientTyped
<1> QED BY <1>1, <1>3, <1>4, <1>6, <1>7, <1>8, <1>9, <1>10

\* Signed in, by the only one that moved the session.
LEMMA EnteredHolds ==
  ASSUME ClientInv, NEW c \in PageWrites, Present(c), Unheard(c), csCalls[c].kind \in Client!Entering,
         csTabs = 0, csLost = 0, \A d \in PageWrites : Moved(d) => d = c
  PROVE  csCalls[c].who = csSession
<1>1. SessionFollows /\ Moved(c)
  BY DEF ClientInv, Moved
<1>2. csSession = MovedTo(c)
  BY <1>1 DEF SessionFollows
<1> QED BY <1>2 DEF MovedTo

LEMMA ClientEnters ==
  ASSUME ClientInv, NEW c \in PageWrites, Client!LoggedIn(c) \/ Client!SignedUp(c)
  PROVE  ClientInv' /\ NothingOldSent
<1>1. PICK kind \in Client!Entering : Client!Given(c, kind, {"ok"})
  BY DEF Client!LoggedIn, Client!SignedUp, Client!Entering
<1>2. /\ csCalls[c].stage = "answered" /\ csCalls[c].kind = kind /\ Present(c) /\ Unheard(c)
      /\ csCalls[c].who \in Accounts \cup {Nobody}
      /\ UNCHANGED <<csSession, csToken, csTabs, csLost, csExecuted>>
  BY <1>1, GivenOk
<1>3. csSignedOut \in BOOLEAN
  BY <1>1, GivenOk
<1>4. ~csSignedOut
  BY <1>1, GivenOk
<1>5. csShown = Nobody /\ csCalls[c].who # Nobody
  BY <1>1, <1>2 DEF ClientInv, EntersAlone
<1>6. Client!Show(csCalls[c].who, Client!Over(c)) /\ UNCHANGED csSignedOut
  BY <1>5 DEF Client!LoggedIn, Client!SignedUp, Client!SetCurrent
<1>7. csTabs = 0 /\ csLost = 0 /\ (\A d \in PageWrites : Moved(d) => d = c) => csCalls[c].who \in {Nobody, csSession}
  BY <1>1, <1>2, EnteredHolds
<1>8. csSignedOut' \in BOOLEAN
  BY <1>3, <1>6
<1>9. csSignedOut' => csCalls[c].who = Nobody
  BY <1>4, <1>6
<1> QED BY <1>2, <1>6, <1>7, <1>8, <1>9, WriteShows

LEMMA ClientSaves ==
  ASSUME ClientInv, NEW c \in PageWrites, Client!Saved(c)
  PROVE  ClientInv' /\ NothingOldSent
<1>1. /\ csCalls[c].stage = "answered" /\ csCalls[c].kind = "save" /\ Present(c) /\ Unheard(c)
      /\ csCalls[c].who \in Accounts \cup {Nobody}
      /\ UNCHANGED <<csSession, csToken, csTabs, csLost, csExecuted>>
      /\ csCsrfToken \in Nat /\ csCsrfToken <= csToken
  BY GivenOk DEF Client!Saved
<1>2. csSignedOut \in BOOLEAN
  BY GivenOk DEF Client!Saved
<1>3. ~csSignedOut
  BY GivenOk DEF Client!Saved
<1>4. Client!SetCurrent(csCalls[c].who, Client!Over(c)) /\ UNCHANGED csSignedOut
  BY DEF Client!Saved
<1>5. "save" \notin Client!Entering \cup {"logout", "delete"}
  BY DEF Client!Entering
<1>6. CASE csCalls[c].who = csShown
  <2>1. csCalls' = Client!Over(c) /\ UNCHANGED <<csShown, csCsrfToken, csCsrf>>
    BY <1>4, <1>6 DEF Client!SetCurrent
  <2>2. csCsrfToken' \in Nat /\ csCsrfToken' <= csToken
    BY <1>1, <2>1
  <2> QED BY <1>1, <1>4, <1>5, <2>1, <2>2, WriteOver
<1>7. CASE csCalls[c].who # csShown
  <2>1. Client!Show(csCalls[c].who, Client!Over(c))
    BY <1>4, <1>7 DEF Client!SetCurrent
  <2>2. ASSUME csTabs = 0, csLost = 0, \A d \in PageWrites : Moved(d) => d = c
        PROVE  csCalls[c].who \in {Nobody, csSession}
    <3>1. \A d \in PageWrites : ~Moved(d)
      BY <1>1, <1>5, <2>2 DEF Moved
    <3> QED BY <1>1, <2>2, <3>1 DEF ClientInv, SessionFollows
  <2>3. csSignedOut' \in BOOLEAN
    BY <1>2, <1>4
  <2>4. csSignedOut' => csCalls[c].who = Nobody
    BY <1>3, <1>4
  <2> QED BY <1>1, <2>1, <2>2, <2>3, <2>4, WriteShows
<1> QED BY <1>6, <1>7

LEMMA CredentialsOver ==
  ASSUME ClientInv, NEW c \in PageWrites, Client!CredentialsSaved(c)
  PROVE  ClientInv' /\ NothingOldSent
<1>1. /\ csCalls[c].stage = "answered" /\ csCalls[c].kind = "credentials"
      /\ csCalls[c].token <= csToken /\ csCalls[c].token \in Nat
      /\ UNCHANGED <<csSession, csToken, csTabs, csLost, csExecuted>>
  BY GivenOk DEF Client!CredentialsSaved
<1>2. /\ csCsrfToken' = csCalls[c].token /\ csCalls' = Client!Over(c)
      /\ UNCHANGED <<csShown, csCsrf, csSignedOut>>
  BY DEF Client!CredentialsSaved
<1>3. "credentials" \notin Client!Entering \cup {"logout", "delete"}
  BY DEF Client!Entering
<1>4. csCsrfToken' \in Nat /\ csCsrfToken' <= csToken
  BY <1>1, <1>2
<1> QED BY <1>1, <1>2, <1>3, <1>4, WriteOver

LEMMA ClientLeaves ==
  ASSUME ClientInv, NEW c \in PageWrites, Client!Deleted(c) \/ Client!LoggedOut(c)
  PROVE  ClientInv' /\ NothingOldSent
<1>1. /\ csCalls[c].stage = "answered" /\ Client!Show(Nobody, Client!Over(c)) /\ csSignedOut' = TRUE
      /\ UNCHANGED <<csSession, csToken, csTabs, csLost, csExecuted>>
  BY DEF Client!Deleted, Client!LoggedOut, Client!Given
<1>2. csSignedOut' \in BOOLEAN
  BY <1>1
<1> QED BY <1>1, <1>2, WriteShows

LEMMA ClientFails ==
  ASSUME ClientInv, NEW c \in PageWrites, Client!Failed(c)
  PROVE  ClientInv' /\ NothingOldSent
<1>1. /\ csCalls[c].stage = "answered" /\ csCalls[c].answer # "ok" /\ csCalls' = Client!Over(c)
      /\ UNCHANGED <<csSession, csToken, csShown, csTabs, csLost, csExecuted, csSignedOut, csCsrf, csCsrfToken>>
  BY DEF Client!Failed, Client!Given
<1>2. ~(csLost = 0 /\ csExecuted[c] > 0)
  BY <1>1 DEF ClientInv, WritesOnce
<1>3. csCsrfToken' \in Nat /\ csCsrfToken' <= csToken
  BY <1>1, ClientTyped
<1> QED BY <1>1, <1>2, <1>3, WriteOver

\* What the page is told of its session when it is mounted.
LEMMA BootHears ==
  ASSUME ClientInv, Client!BootDenied \/ Client!AccountRead
  PROVE  ClientInv' /\ NothingOldSent
<1>0. Client!Boot \in Client!Calls /\ Client!Boot \notin PageWrites
  BY ClientNames, ClientParameters
<1>1. /\ csCalls[Client!Boot].stage = "answered"
      /\ UNCHANGED <<csSession, csToken, csTabs, csLost, csExecuted, csSignedOut>>
  BY DEF Client!BootDenied, Client!AccountRead, Client!Read
<1>2. csSignedOut' \in BOOLEAN
  BY <1>1, ClientTyped
<1>3. {"ok", "denied"} \subseteq Client!Answers
  BY DEF Client!Answers, Client!Outcomes
<1>4. Present(Client!Boot)
  BY DEF Client!BootDenied, Client!AccountRead, Client!Read, Client!Obsolete, Present, Client!Under
<1>5. ~csSignedOut
  BY <1>0, <1>4 DEF ClientInv, EntersAlone
<1>6. CASE Client!BootDenied
  <2>1. Client!Show(Nobody, [csCalls EXCEPT ![Client!Boot] = Client!Ended(@, "denied")])
    BY <1>6 DEF Client!BootDenied
  <2> QED BY <1>0, <1>1, <1>2, <1>3, <2>1, ClientShows
<1>7. CASE Client!AccountRead
  <2>0. PICK account : account = csCalls[Client!Boot].answer
    OBVIOUS
  <2>1. account \in Accounts
    BY <1>7, <2>0 DEF Client!AccountRead, Client!Read
  <2>2. Client!SetCurrent(account, [csCalls EXCEPT ![Client!Boot] = Client!Ended(@, "ok")])
    BY <1>7, <2>0 DEF Client!AccountRead
  <2>3. CASE account = csShown
    <3>1. /\ csCalls' = [csCalls EXCEPT ![Client!Boot] = Client!Ended(@, "ok")]
          /\ UNCHANGED <<csShown, csCsrfToken, csCsrf>>
      BY <2>2, <2>3 DEF Client!SetCurrent
    <3>2. csCsrfToken' \in Nat /\ csCsrfToken' <= csToken
      BY <3>1, ClientTyped
    <3> QED BY <1>0, <1>1, <1>3, <3>1, <3>2, CallOver
  <2>4. CASE account # csShown
    <3>1. Client!Show(account, [csCalls EXCEPT ![Client!Boot] = Client!Ended(@, "ok")])
      BY <2>2, <2>4 DEF Client!SetCurrent
    <3>2. ASSUME csTabs = 0, csLost = 0, \A d \in PageWrites : Moved(d) => d = Client!Boot
          PROVE  account \in {Nobody, csSession}
      <4>1. \A d \in PageWrites : ~Moved(d)
        BY <1>0, <3>2
      <4> QED BY <1>1, <1>4, <2>0, <2>1, <3>2, <4>1 DEF ClientInv, SessionFollows
    <3>3. csSignedOut' => account = Nobody
      BY <1>1, <1>5
    <3> QED BY <1>0, <1>1, <1>2, <1>3, <2>1, <3>1, <3>2, <3>3, ClientShows
  <2> QED BY <2>3, <2>4
<1> QED BY <1>6, <1>7

LEMMA TabMoves ==
  ASSUME ClientInv, NEW account \in Accounts \cup {Nobody}, Client!OtherTab(account)
  PROVE  ClientInv' /\ NothingOldSent
<1>1. /\ csTabs' = csTabs + 1 /\ csTabs < OtherTabs /\ csSession' = account /\ csToken' = csToken + 1
      /\ UNCHANGED <<csShown, csCsrfToken, csCsrf, csCalls, csLost, csExecuted, csSignedOut>>
  BY DEF Client!OtherTab
<1>2. ClientTypes'
  <2>1. csTabs' \in 0 .. OtherTabs /\ csToken' \in Nat /\ csToken <= csToken'
    BY <1>1, ClientParameters DEF ClientInv, ClientTypes
  <2>2. csCsrfToken' \in Nat /\ csCsrfToken' <= csToken'
    BY <1>1, <2>1, ClientTyped
  <2>3. csCsrf' \in [stage : {"none", "sent", "answered"}, token : Nat]
    BY <1>1, ClientTyped
  <2>4. csCsrf'.token <= csToken'
    <3>1. csCsrf.token \in Nat /\ csCsrf.token <= csToken
      BY ClientTyped
    <3> QED BY <1>1, <2>1, <3>1, ClientTyped
  <2>5. ASSUME NEW c \in Client!Calls PROVE csCalls'[c].token <= csToken'
    <3>1. csCalls[c].token \in Nat /\ csCalls[c].token <= csToken
      BY ClientTyped DEF CallRecord
    <3> QED BY <1>1, <2>1, <3>1, ClientTyped
  <2>6. csSignedOut' \in BOOLEAN
    BY <1>1, ClientTyped
  <2>7. csCalls' \in [Client!Calls -> CallRecord] /\ csShown' \in Accounts \cup {Nobody}
        /\ csLost' \in 0 .. ClientLosses /\ csExecuted' \in [PageWrites -> Nat]
    BY <1>1, ClientTyped
  <2> QED BY <1>1, <2>1, <2>2, <2>3, <2>4, <2>5, <2>6, <2>7 DEF ClientTypes
<1>3. WritesOnce'
  BY <1>1 DEF ClientInv, WritesOnce
<1>4. EntersAlone'
  BY <1>1 DEF ClientInv, EntersAlone, Present
<1>5. csTabs' # 0
  BY <1>1 DEF ClientInv, ClientTypes
<1>6. NothingOldSent
  BY <1>1 DEF NothingOldSent
<1> QED BY <1>2, <1>3, <1>4, <1>5, <1>6 DEF ClientInv

\* The server answers a call it does not carry out.
LEMMA ServerRefuses ==
  ASSUME ClientInv, NEW c \in Client!Calls, NEW answer \in Client!Verdict(c), answer # "ok",
         Client!Serve(c, answer)
  PROVE  ClientInv' /\ NothingOldSent
<1>0. PICK x : x = csCalls[c]
  OBVIOUS
<1>1. x \in CallRecord /\ x.stage = "sent" /\ x.token \in Nat
  BY <1>0, ClientTyped DEF Client!Serve, CallRecord
<1>2. answer \in Client!Answers /\ (c = Client!Boot => answer \in {Nobody, csSession} \/ answer \notin Accounts)
  <2>1. csSession \in Accounts \cup {Nobody} /\ {"denied", "rejected"} \subseteq Client!Outcomes
    BY ClientTyped DEF Client!Outcomes
  <2>2. Client!Outcomes \subseteq Client!Answers /\ Accounts \cup {Nobody} \subseteq Client!Answers
    BY DEF Client!Answers
  <2>3. CASE c = Client!Boot
    <3>1. answer = csSession \/ answer = "denied"
      BY <2>3 DEF Client!Verdict
    <3>2. "denied" \notin Accounts
      BY <2>1, BrowserAssumption DEF Client!ClientAssumption
    <3> QED BY <2>1, <2>2, <3>1, <3>2
  <2>4. CASE c # Client!Boot
    <3>1. answer \in {"denied", "rejected"}
      BY <2>4 DEF Client!Verdict, Client!Verdicts
    <3> QED BY <2>1, <2>2, <2>4, <3>1
  <2> QED BY <2>3, <2>4
<1>3. UNCHANGED <<csSession, csToken, csShown, csTabs, csExecuted, csSignedOut, csCsrf, csCsrfToken>>
  BY DEF Client!Serve
<1>4. csLost \in 0 .. ClientLosses /\ csCalls \in [Client!Calls -> CallRecord]
  BY ClientTyped
<1>5. \/ /\ csCalls' = [csCalls EXCEPT ![c] = Answered(x, "answered", answer, x.token)]
         /\ csLost' = csLost
      \/ /\ csLost < ClientLosses /\ csLost' = csLost + 1
         /\ csCalls' = [csCalls EXCEPT ![c] = Lost(x, "answered", "lost")]
  <2>1. [csCalls EXCEPT ![c].stage = "answered", ![c].answer = "lost"]
        = [csCalls EXCEPT ![c] = Lost(x, "answered", "lost")]
    BY <1>0, <1>4 DEF Lost
  <2>2. CASE csLost' = csLost /\ csCalls' = [csCalls EXCEPT ![c] =
               [csCalls[c] EXCEPT !.stage = "answered", !.answer = answer, !.token = @]]
    <3>1. [x EXCEPT !.stage = "answered", !.answer = answer, !.token = @]
          = [x EXCEPT !.stage = "answered", !.answer = answer, !.token = x.token]
      BY <1>1 DEF CallRecord
    <3> QED BY <1>0, <2>2, <3>1 DEF Answered
  <2>3. CASE csLost < ClientLosses /\ csLost' = csLost + 1
             /\ csCalls' = [csCalls EXCEPT ![c].stage = "answered", ![c].answer = "lost"]
    BY <2>1, <2>3
  <2> QED BY <2>2, <2>3 DEF Client!Serve
<1>6. CASE /\ csCalls' = [csCalls EXCEPT ![c] = Answered(x, "answered", answer, x.token)]
           /\ csLost' = csLost
  <2>0. PICK t \in Nat : t = x.token
    BY <1>1
  <2> DEFINE e == Answered(x, "answered", answer, t)
  <2>5. x \in CallRecord /\ answer \in Client!Answers
    BY <1>1, <1>2
  <2>1. e \in CallRecord /\ e.kind = x.kind /\ e.who = x.who /\ e.stage = "answered"
        /\ e.token = t /\ e.answer = answer
    BY <2>5, CallAnswered
  <2>2. e.stale = x.stale
    BY <2>5, CallAnswered
  <2>3. csCalls' = [csCalls EXCEPT ![c] = e]
    BY <1>6, <2>0
  <2> HIDE DEF e
  <2>4. e.token = csCalls[c].token
    BY <1>0, <2>0, <2>1
  <2> QED BY <1>0, <1>1, <1>2, <1>3, <1>4, <1>6, <2>1, <2>2, <2>3, <2>4, CallHeard
<1>7. CASE /\ csLost < ClientLosses /\ csLost' = csLost + 1
           /\ csCalls' = [csCalls EXCEPT ![c] = Lost(x, "answered", "lost")]
  <2> DEFINE e == Lost(x, "answered", "lost")
  <2>0. "lost" \in Client!Answers /\ "lost" \notin Accounts
    BY ClientParameters DEF Client!Answers, Client!Outcomes
  <2>1. e \in CallRecord /\ e.kind = x.kind /\ e.who = x.who /\ e.stage = "answered"
        /\ e.token = x.token /\ e.answer = "lost"
    BY <1>1, <2>0, CallLost
  <2>2. e.stale = x.stale
    BY <1>1, <2>0, CallLost
  <2> HIDE DEF e
  <2>3. csLost' \in 0 .. ClientLosses /\ (csLost' = 0 => csLost = 0)
    BY <1>4, <1>7, ClientParameters
  <2>4. csCalls' = [csCalls EXCEPT ![c] = e]
    BY <1>7 DEF e
  <2> QED BY <1>0, <1>1, <1>3, <2>0, <2>1, <2>2, <2>3, <2>4, CallHeard
<1> QED BY <1>5, <1>6, <1>7

\* The server carries a write out, and the page is answered or is not.
LEMMA ServerExecutes ==
  ASSUME ClientInv, NEW c \in Client!Calls, "ok" \in Client!Verdict(c), Client!Serve(c, "ok")
  PROVE  ClientInv' /\ NothingOldSent
<1>0. c \in PageWrites
  <2>1. csSession # "ok"
    BY ClientTyped, ClientParameters
  <2>2. c # Client!Boot
    BY <2>1 DEF Client!Verdict
  <2> QED BY <2>2, ClientNames
<1>1. PICK x : x = csCalls[c]
  OBVIOUS
<1>2. PICK t : t = IF Client!Rotates(x.kind) THEN csToken + 1 ELSE x.token
  OBVIOUS
<1>3. /\ x.stage = "sent" /\ csExecuted' = [csExecuted EXCEPT ![c] = @ + 1]
      /\ csSession' = Client!SessionAfter(x)
      /\ csToken' = IF Client!Rotates(x.kind) THEN csToken + 1 ELSE csToken
      /\ UNCHANGED <<csShown, csCsrfToken, csCsrf, csTabs, csSignedOut>>
  BY <1>1 DEF Client!Serve
<1>4. /\ x \in CallRecord /\ x.token <= csToken /\ csToken \in Nat
      /\ csCalls \in [Client!Calls -> CallRecord]
      /\ csLost \in 0 .. ClientLosses /\ csExecuted \in [PageWrites -> Nat]
      /\ csSession \in Accounts \cup {Nobody}
  BY <1>1, ClientTyped
<1>5. x.token \in Nat /\ x.kind \in Client!Kinds /\ x.who \in Accounts \cup {Nobody}
  BY <1>4 DEF CallRecord
<1>6. t \in Nat /\ t <= csToken' /\ csToken' \in Nat /\ csToken <= csToken'
  BY <1>2, <1>3, <1>4, <1>5
<1>7. {"ok", "lost"} \subseteq Client!Answers
  BY DEF Client!Answers, Client!Outcomes
\* The call as it is then.
<1>8. PICK e \in CallRecord :
        /\ csCalls' = [csCalls EXCEPT ![c] = e]
        /\ e.kind = x.kind /\ e.who = x.who /\ e.stage = "answered" /\ e.token <= csToken'
        /\ e.stale = x.stale
        /\ \/ e.answer = "ok" /\ csLost' = csLost
           \/ e.answer = "lost" /\ csLost < ClientLosses /\ csLost' = csLost + 1
  <2>1. \/ /\ csCalls' = [csCalls EXCEPT ![c] = Answered(x, "answered", "ok", t)]
           /\ csLost' = csLost
        \/ /\ csLost < ClientLosses /\ csLost' = csLost + 1
           /\ csCalls' = [csCalls EXCEPT ![c] = Lost(x, "answered", "lost")]
    <3>1. [csCalls EXCEPT ![c].stage = "answered", ![c].answer = "lost"]
          = [csCalls EXCEPT ![c] = Lost(x, "answered", "lost")]
      BY <1>1, <1>4 DEF Lost
    <3>2. CASE csLost' = csLost /\ csCalls' = [csCalls EXCEPT ![c] =
                 [csCalls[c] EXCEPT !.stage = "answered", !.answer = "ok",
                                    !.token = IF Client!Rotates(csCalls[c].kind) THEN csToken + 1 ELSE @]]
      <4>1. [x EXCEPT !.stage = "answered", !.answer = "ok",
                      !.token = IF Client!Rotates(x.kind) THEN csToken + 1 ELSE @]
            = [x EXCEPT !.stage = "answered", !.answer = "ok",
                        !.token = IF Client!Rotates(x.kind) THEN csToken + 1 ELSE x.token]
        BY <1>4 DEF CallRecord
      <4> QED BY <1>1, <1>2, <3>2, <4>1 DEF Answered
    <3>3. CASE csLost < ClientLosses /\ csLost' = csLost + 1
               /\ csCalls' = [csCalls EXCEPT ![c].stage = "answered", ![c].answer = "lost"]
      BY <3>1, <3>3
    <3> QED BY <3>2, <3>3 DEF Client!Serve
  <2>2. CASE /\ csCalls' = [csCalls EXCEPT ![c] = Answered(x, "answered", "ok", t)]
             /\ csLost' = csLost
    <3> DEFINE e == Answered(x, "answered", "ok", t)
    <3>0. x \in CallRecord /\ t \in Nat /\ "ok" \in Client!Answers
      BY <1>4, <1>6, <1>7
    <3>1. e \in CallRecord /\ e.kind = x.kind /\ e.who = x.who /\ e.stage = "answered"
          /\ e.token = t /\ e.answer = "ok"
      BY <3>0, CallAnswered
    <3>2. e.stale = x.stale
      BY <3>0, CallAnswered
    <3>3. csCalls' = [csCalls EXCEPT ![c] = e]
      BY <2>2
    <3> HIDE DEF e
    <3>4. e.token <= csToken'
      BY <1>6, <3>1
    <3> QED BY <2>2, <3>1, <3>2, <3>3, <3>4
  <2>3. CASE /\ csLost < ClientLosses /\ csLost' = csLost + 1
             /\ csCalls' = [csCalls EXCEPT ![c] = Lost(x, "answered", "lost")]
    <3> DEFINE e == Lost(x, "answered", "lost")
    <3>0. x \in CallRecord /\ "lost" \in Client!Answers
      BY <1>4, <1>7
    <3>1. e \in CallRecord /\ e.kind = x.kind /\ e.who = x.who /\ e.stage = "answered"
          /\ e.token = x.token /\ e.answer = "lost"
      BY <3>0, CallLost
    <3>2. e.stale = x.stale
      BY <3>0, CallLost
    <3>3. csCalls' = [csCalls EXCEPT ![c] = e]
      BY <2>3
    <3> HIDE DEF e
    <3>4. e.token <= csToken'
      BY <1>4, <1>5, <1>6, <3>1
    <3> QED BY <2>3, <3>1, <3>2, <3>3, <3>4
  <2> QED BY <2>1, <2>2, <2>3
<1>9. /\ csCalls' \in [Client!Calls -> CallRecord] /\ csCalls'[c] = e
      /\ \A d \in Client!Calls : d # c => csCalls'[d] = csCalls[d]
  BY <1>4, <1>8
<1>10. /\ csExecuted' \in [PageWrites -> Nat] /\ csExecuted'[c] = csExecuted[c] + 1
       /\ \A d \in PageWrites : d # c => csExecuted'[d] = csExecuted[d]
  BY <1>0, <1>3, <1>4
<1>11. csExecuted[c] = 0
  BY <1>0, <1>1, <1>3, <1>4 DEF ClientInv, WritesOnce
<1>12. csLost' \in 0 .. ClientLosses /\ (csLost' = 0 => csLost = 0 /\ e.answer = "ok")
  BY <1>4, <1>8, ClientParameters
<1>13. ClientTypes'
  <2>1. ASSUME NEW d \in Client!Calls PROVE csCalls'[d].token <= csToken'
    <3>1. csCalls[d].token \in Nat /\ csCalls[d].token <= csToken
      BY ClientTyped DEF CallRecord
    <3>2. d # c => csCalls'[d].token <= csToken'
      BY <1>4, <1>6, <1>9, <3>1
    <3> QED BY <1>8, <1>9, <3>2
  <2>2. csCsrfToken' \in Nat /\ csCsrfToken' <= csToken'
    BY <1>3, <1>4, <1>6, ClientTyped
  <2>3. csCsrf' \in [stage : {"none", "sent", "answered"}, token : Nat]
    BY <1>3, ClientTyped
  <2>4. csCsrf'.token <= csToken'
    <3>1. csCsrf.token \in Nat /\ csCsrf.token <= csToken
      BY ClientTyped
    <3> QED BY <1>3, <1>4, <1>6, <3>1
  <2>5. csSignedOut' \in BOOLEAN
    BY <1>3, ClientTyped
  <2>6. csSession' \in Accounts \cup {Nobody}
    BY <1>3, <1>4, <1>5 DEF Client!SessionAfter
  <2>7. csShown' \in Accounts \cup {Nobody} /\ csTabs' \in 0 .. OtherTabs
    BY <1>3, ClientTyped
  <2> QED BY <1>6, <1>9, <1>10, <1>12, <2>1, <2>2, <2>3, <2>4, <2>5, <2>6, <2>7 DEF ClientTypes
<1>14. WritesOnce'
  <2> SUFFICES ASSUME NEW d \in PageWrites
               PROVE  /\ csExecuted'[d] <= 1
                      /\ csExecuted'[d] > 0 => /\ csCalls'[d].stage \in {"answered", "ended", "cancelled"}
                                               /\ csCalls'[d].answer \in {"ok", "lost"}
                                               /\ csLost' = 0 => csCalls'[d].answer = "ok"
                      /\ csCalls'[d].answer = "ok" => csExecuted'[d] > 0
                      /\ csCalls'[d].stage \in {"idle", "token"} => ~csCalls'[d].stale
    BY DEF WritesOnce
  <2>1. CASE d = c
    BY <1>8, <1>9, <1>10, <1>11, <1>12, <2>1
  <2>2. CASE d # c
    <3>1. csCalls'[d] = csCalls[d] /\ csExecuted'[d] = csExecuted[d]
      BY <1>9, <1>10, <2>2, ClientNames
    <3> QED BY <1>12, <3>1 DEF ClientInv, WritesOnce
  <2> QED BY <2>1, <2>2
<1>15. ASSUME NEW d \in Client!Calls
       PROVE  /\ csCalls'[d].kind = csCalls[d].kind /\ csCalls'[d].who = csCalls[d].who
              /\ Present(d)' <=> Present(d)
  <2>1. CASE d = c
    <3>1. e.stale = csCalls[c].stale /\ Client!Under(e.stage) /\ Client!Under(csCalls[c].stage)
      BY <1>1, <1>3, <1>8 DEF Client!Under
    <3> QED BY <1>1, <1>8, <1>9, <2>1, <3>1 DEF Present
  <2>2. CASE d # c
    <3>1. csCalls'[d] = csCalls[d]
      BY <1>9, <2>2
    <3> QED BY <3>1 DEF Present
  <2> QED BY <2>1, <2>2
<1>16. EntersAlone'
  <2>1. EntersAlone /\ PageWrites \subseteq Client!Calls /\ Client!Boot \in Client!Calls
    BY ClientNames DEF ClientInv
  <2>2. csSignedOut' => csShown' = Nobody /\ \A d \in Client!Calls : ~Present(d)'
    BY <1>3, <1>15, <2>1 DEF EntersAlone
  <2>3. \A d \in PageWrites : csCalls'[d].kind \in Client!Entering =>
          csCalls'[d].who # Nobody /\ (Present(d)' => csShown' = Nobody)
    BY <1>3, <1>15, <2>1 DEF EntersAlone
  <2>4. csCalls'[Client!Boot].kind \in {"me", "account"}
    BY <1>15, <2>1 DEF EntersAlone
  <2> QED BY <2>2, <2>3, <2>4 DEF EntersAlone
<1>17. NothingOldSent
  <2> SUFFICES ASSUME NEW d \in PageWrites, csCalls'[d].stage = "sent"
               PROVE  csCalls[d].stage = "sent"
    BY DEF NothingOldSent
  <2> QED BY <1>1, <1>3, <1>9, ClientNames
<1>18. ASSUME csTabs' = 0, csLost' = 0 PROVE SessionFollows'
  <2>1. SessionFollows
    BY <1>3, <1>12, <1>18 DEF ClientInv
  <2>2. ASSUME NEW d \in PageWrites, d # c
        PROVE  /\ csCalls'[d] = csCalls[d] /\ (Unheard(d)' <=> Unheard(d)) /\ (Moved(d)' <=> Moved(d))
               /\ MovedTo(d)' = MovedTo(d)
    <3>1. csCalls'[d] = csCalls[d] /\ csExecuted'[d] = csExecuted[d]
      BY <1>9, <1>10, <2>2, ClientNames
    <3> QED BY <3>1 DEF Unheard, Moved, MovedTo
  <2>3. Unheard(c)' /\ ~Moved(c) /\ csCalls'[c].kind = x.kind /\ csCalls'[c].who = x.who
    BY <1>8, <1>9, <1>10, <1>11 DEF Unheard, Moved
  <2>4. CASE x.kind \in Client!Entering \cup {"logout", "delete"}
    <3>1. Moved(c)'
      BY <2>3, <2>4 DEF Moved
    <3>2. csSession' = MovedTo(c)'
      BY <1>3, <2>3, <2>4 DEF MovedTo, Client!SessionAfter
    <3> QED BY <1>0, <3>1, <3>2 DEF SessionFollows
  <2>5. CASE x.kind \notin Client!Entering \cup {"logout", "delete"}
    <3>1. csSession' = csSession
      BY <1>3, <2>5 DEF Client!SessionAfter
    <3>2. x.who = csSession
      <4>1. c # Client!Boot
        BY <1>0, ClientNames
      <4>2. "ok" \in Client!Verdicts(csCalls[c])
        BY <4>1 DEF Client!Verdict
      <4> QED BY <1>1, <2>5, <4>2 DEF Client!Verdicts, Client!Meant
    <3>3. ~Moved(c)'
      BY <2>3, <2>5 DEF Moved
    <3>4. ASSUME \A d \in PageWrites : ~Moved(d)'
          PROVE  /\ csShown' \in {Nobody, csSession'}
                 /\ \A d \in PageWrites : Unheard(d)' /\ Present(d)' => csCalls'[d].who = csSession'
                 /\ Present(Client!Boot)' /\ csCalls'[Client!Boot].stage = "answered"
                    /\ csCalls'[Client!Boot].answer \in Accounts => csCalls'[Client!Boot].answer = csSession'
      <4>1. \A d \in PageWrites : ~Moved(d)
        BY <2>2, <2>3, <3>4
      <4>2. csShown' \in {Nobody, csSession'}
        BY <1>3, <2>1, <3>1, <4>1 DEF SessionFollows
      <4>3. ASSUME NEW d \in PageWrites, Unheard(d)', Present(d)' PROVE csCalls'[d].who = csSession'
        <5>1. CASE d = c
          BY <2>3, <3>1, <3>2, <5>1
        <5>2. CASE d # c
          <6>1. Unheard(d) /\ Present(d) /\ csCalls'[d].who = csCalls[d].who
            BY <1>15, <2>2, <4>3, <5>2, ClientNames
          <6> QED BY <2>1, <3>1, <4>1, <6>1 DEF SessionFollows
        <5> QED BY <5>1, <5>2
      <4>4. Present(Client!Boot)' /\ csCalls'[Client!Boot].stage = "answered"
            /\ csCalls'[Client!Boot].answer \in Accounts => csCalls'[Client!Boot].answer = csSession'
        <5>1. csCalls'[Client!Boot] = csCalls[Client!Boot] /\ (Present(Client!Boot)' <=> Present(Client!Boot))
          BY <1>0, <1>9, <1>15, ClientNames
        <5> QED BY <2>1, <3>1, <4>1, <5>1 DEF SessionFollows
      <4> QED BY <4>2, <4>3, <4>4
    <3>5. ASSUME NEW d \in PageWrites, Moved(d)', Present(d)', \A f \in PageWrites : Moved(f)' => f = d
          PROVE  csSession' = MovedTo(d)'
      <4>1. d # c
        BY <3>3, <3>5
      <4>2. Moved(d) /\ Present(d) /\ MovedTo(d)' = MovedTo(d)
        BY <1>15, <2>2, <3>5, <4>1, ClientNames
      <4>3. \A f \in PageWrites : Moved(f) => f = d
        BY <2>2, <2>3, <3>5
      <4> QED BY <2>1, <3>1, <4>2, <4>3 DEF SessionFollows
    <3> QED BY <3>4, <3>5 DEF SessionFollows
  <2> QED BY <2>4, <2>5
<1> QED BY <1>13, <1>14, <1>16, <1>17, <1>18 DEF ClientInv

LEMMA ClientInitial == Client!Init => ClientInv
<1> SUFFICES ASSUME Client!Init PROVE ClientInv
  OBVIOUS
<1>1. /\ csSession \in Accounts \cup {Nobody} /\ csToken = 1 /\ csShown = Nobody /\ csCsrfToken = 0
      /\ csCsrf = Client!NoRequest /\ csTabs = 0 /\ csLost = 0
      /\ csExecuted = [c \in PageWrites |-> 0] /\ csSignedOut = FALSE
      /\ csCalls = [c \in Client!Calls |-> IF c = Client!Boot
                      THEN [Client!Unsent("me") EXCEPT !.stage = "sent"] ELSE Client!Unsent("save")]
  BY DEF Client!Init
<1> DEFINE boot == [kind |-> "me", who |-> Nobody, stage |-> "sent", token |-> 0,
                    retried |-> FALSE, stale |-> FALSE, answer |-> "none"]
           idle == [kind |-> "save", who |-> Nobody, stage |-> "idle", token |-> 0,
                    retried |-> FALSE, stale |-> FALSE, answer |-> "none"]
<1>2. [Client!Unsent("me") EXCEPT !.stage = "sent"] = boot /\ Client!Unsent("save") = idle
  <2> DEFINE me == [kind |-> "me", who |-> Nobody, stage |-> "idle", token |-> 0,
                    retried |-> FALSE, stale |-> FALSE, answer |-> "none"]
  <2>1. Client!Unsent("save") = idle
    BY DEF Client!Unsent
  <2>2. Client!Unsent("me") = me
    BY DEF Client!Unsent
  <2>3. [me EXCEPT !.stage = "sent"] = boot
    <3>1. ASSUME NEW b
          PROVE  [[kind |-> "me", who |-> Nobody, stage |-> "idle", token |-> 0,
                   retried |-> b, stale |-> b, answer |-> "none"] EXCEPT !.stage = "sent"]
                 = [kind |-> "me", who |-> Nobody, stage |-> "sent", token |-> 0,
                    retried |-> b, stale |-> b, answer |-> "none"]
      OBVIOUS
    <3> QED BY <3>1
  <2> HIDE DEF me, boot, idle
  <2> QED BY <2>1, <2>2, <2>3
<1>3. boot \in CallRecord /\ idle \in CallRecord
  <2>1. {"me", "save"} \subseteq Client!Kinds
    BY DEF Client!Kinds
  <2>2. "none" \in Client!Answers
    BY DEF Client!Answers, Client!Outcomes
  <2> QED BY <2>1, <2>2 DEF CallRecord
<1>4. /\ boot.kind = "me" /\ boot.stage = "sent" /\ boot.token = 0
      /\ idle.kind = "save" /\ idle.stage = "idle" /\ idle.token = 0 /\ idle.answer = "none"
  OBVIOUS
<1>5. ~idle.stale
  OBVIOUS
<1> HIDE DEF boot, idle
<1>6. csCalls = [c \in Client!Calls |-> IF c = Client!Boot THEN boot ELSE idle]
  BY <1>1, <1>2
<1>7. /\ csCalls \in [Client!Calls -> CallRecord] /\ csCalls[Client!Boot] = boot
      /\ \A c \in PageWrites : csCalls[c] = idle
  BY <1>3, <1>6, ClientNames
<1>8. ClientTypes
  <2>1. csCsrf \in [stage : {"none", "sent", "answered"}, token : Nat] /\ csCsrf.token = 0
    BY <1>1 DEF Client!NoRequest
  <2>2. \A c \in Client!Calls : csCalls[c].token <= csToken
    <3>1. ASSUME NEW c \in Client!Calls PROVE csCalls[c].token = 0
      BY <1>4, <1>7, ClientNames
    <3> QED BY <1>1, <3>1
  <2>3. csSignedOut \in BOOLEAN
    BY <1>1
  <2>4. csExecuted \in [PageWrites -> Nat] /\ csTabs \in 0 .. OtherTabs /\ csLost \in 0 .. ClientLosses
    BY <1>1, ClientParameters
  <2> QED BY <1>1, <1>7, <2>1, <2>2, <2>3, <2>4 DEF ClientTypes
<1>9. WritesOnce
  BY <1>1, <1>4, <1>5, <1>7 DEF WritesOnce
<1>10. EntersAlone
  BY <1>1, <1>4, <1>7 DEF EntersAlone, Client!Entering
<1>11. SessionFollows
  <2>1. \A c \in PageWrites : ~Unheard(c)
    BY <1>1 DEF Unheard
  <2> QED BY <1>1, <1>4, <1>7, <2>1 DEF SessionFollows, Moved
<1> QED BY <1>8, <1>9, <1>10, <1>11 DEF ClientInv

LEMMA ClientMoves == ClientInv /\ Client!Next => ClientInv' /\ NothingOldSent
<1> SUFFICES ASSUME ClientInv, Client!Next PROVE ClientInv' /\ NothingOldSent
  OBVIOUS
<1>1. CASE Client!BootKnows \/ Client!ReadFailed
  BY <1>1, ClientReads
<1>2. CASE Client!BootDenied \/ Client!AccountRead
  BY <1>2, BootHears
<1>3. CASE Client!ServeToken \/ Client!TokenArrives \/ Client!TokenFails
  BY <1>3, ClientTokens
<1>4. ASSUME NEW c \in PageWrites, NEW kind \in Client!Entering, NEW who \in Accounts, Client!Enter(c, kind, who)
      PROVE  ClientInv' /\ NothingOldSent
  <2>1. kind \in Client!Kinds /\ who # Nobody
    BY ClientParameters DEF Client!Kinds
  <2>2. csShown = Nobody /\ Client!Submit(c, kind, who)
    BY <1>4 DEF Client!Enter
  <2> QED BY <2>1, <2>2, ClientSubmits
<1>5. ASSUME NEW c \in PageWrites, NEW kind \in {"logout", "delete", "save", "credentials"},
             csShown # Nobody, Client!Submit(c, kind, csShown)
      PROVE  ClientInv' /\ NothingOldSent
  <2>1. kind \in Client!Kinds /\ kind \notin Client!Entering
    BY DEF Client!Kinds, Client!Entering
  <2>2. csShown \in Accounts \cup {Nobody}
    BY ClientTyped
  <2> QED BY <1>5, <2>1, <2>2, ClientSubmits
<1>6. ASSUME NEW c \in PageWrites, Client!LogOut(c) \/ \E kind \in {"delete", "save", "credentials"} : Client!Act(c, kind)
      PROVE  ClientInv' /\ NothingOldSent
  BY <1>5, <1>6 DEF Client!LogOut, Client!Act
<1>7. ASSUME NEW c \in PageWrites, Client!Retry(c) \/ Client!DropObsolete(c)
      PROVE  ClientInv' /\ NothingOldSent
  BY <1>7, ClientRetries, ClientDrops
<1>8. ASSUME NEW c \in PageWrites,
             \/ Client!LoggedIn(c) \/ Client!SignedUp(c) \/ Client!Saved(c) \/ Client!CredentialsSaved(c)
             \/ Client!Deleted(c) \/ Client!LoggedOut(c) \/ Client!Failed(c)
      PROVE  ClientInv' /\ NothingOldSent
  BY <1>8, ClientEnters, ClientSaves, CredentialsOver, ClientLeaves, ClientFails
<1>9. ASSUME NEW c \in Client!Calls, Client!Lose(c) \/ \E answer \in Client!Verdict(c) : Client!Serve(c, answer)
      PROVE  ClientInv' /\ NothingOldSent
  <2>1. CASE Client!Lose(c)
    BY <2>1, ClientLoses
  <2>2. ASSUME NEW answer \in Client!Verdict(c), Client!Serve(c, answer)
        PROVE  ClientInv' /\ NothingOldSent
    <3>1. CASE answer = "ok"
      BY <2>2, <3>1, ServerExecutes
    <3>2. CASE answer # "ok"
      BY <2>2, <3>2, ServerRefuses
    <3> QED BY <3>1, <3>2
  <2> QED BY <1>9, <2>1, <2>2
<1>10. ASSUME NEW account \in Accounts \cup {Nobody}, Client!OtherTab(account)
       PROVE  ClientInv' /\ NothingOldSent
  BY <1>10, TabMoves
<1> QED BY <1>1, <1>2, <1>3, <1>4, <1>6, <1>7, <1>8, <1>9, <1>10 DEF Client!Next

LEMMA ClientStep == ClientInv /\ [Client!Next]_clientVars => ClientInv'
<1>1. ClientInv /\ Client!Next => ClientInv'
  BY ClientMoves
<1>2. ClientInv /\ UNCHANGED clientVars => ClientInv'
  <2> SUFFICES ASSUME ClientInv, UNCHANGED clientVars PROVE ClientInv'
    OBVIOUS
  <2>1. ClientTypes'
    BY DEF ClientInv, ClientTypes, clientVars
  <2>2. WritesOnce' /\ EntersAlone'
    BY DEF ClientInv, WritesOnce, EntersAlone, Present, clientVars
  <2>3. csTabs' = 0 /\ csLost' = 0 => SessionFollows'
    BY DEF ClientInv, SessionFollows, Moved, MovedTo, Unheard, Present, clientVars
  <2> QED BY <2>1, <2>2, <2>3 DEF ClientInv
<1> QED BY <1>1, <1>2

LEMMA ClientLives == [BrowserNext]_browserVars => [Client!Next]_clientVars
BY DEF BrowserNext, OthersStill, browserVars

\* The calls of a page and the account it shows are as ClientInv says in every state
\* of a browser.
THEOREM ClientHolds == BrowserSpec => []ClientInv
<1>1. BrowserInit => ClientInv
  BY ClientInitial DEF BrowserInit
<1>2. ClientInv /\ [BrowserNext]_browserVars => ClientInv'
  BY ClientLives, ClientStep
<1> QED BY <1>1, <1>2, PTL DEF BrowserSpec

\* api.ts: whatever answers are lost, however often a token is rejected and whoever
\* moves the session, a write is carried out at most once, and one of an old session
\* is not sent in a newer one.
THEOREM WritesAreRight == BrowserSpec => WritesRight
<1>1. ClientInv => Client!ExecutedOnce
  BY DEF ClientInv, WritesOnce, Client!ExecutedOnce
<1>2. ClientInv /\ [BrowserNext]_browserVars
      => [\A c \in PageWrites :
            csCalls[c].stale /\ csCalls'[c].stage = "sent" => csCalls[c].stage = "sent"]_(Client!vars)
  <2> SUFFICES ASSUME ClientInv, Client!Next PROVE NothingOldSent
    BY ClientLives DEF clientVars, Client!vars, NothingOldSent
  <2> QED BY ClientMoves
<1> QED BY <1>1, <1>2, ClientHolds, PTL DEF WritesRight, Client!StaleNeverSent, BrowserSpec

\* stores/app.ts: after a confirmed logout no answer on its way shows an account again,
\* and an account shown when all is quiet is that of the session, unless another tab,
\* a lost answer or a dropped one came between.
THEOREM AccountShownIsCurrent == BrowserSpec => []AccountIsCurrent
<1>1. ClientInv => AccountIsCurrent
  <2> SUFFICES ASSUME ClientInv PROVE Client!SignedOutStays /\ Client!NoOldAccount
    BY DEF AccountIsCurrent
  <2>1. Client!SignedOutStays
    BY DEF ClientInv, EntersAlone, Client!SignedOutStays
  <2>2. ASSUME csTabs = 0, csLost = 0, \A c \in PageWrites : csExecuted[c] > 0 => csCalls[c].stage = "ended"
        PROVE  csShown \in {Nobody, csSession}
    <3>1. \A c \in PageWrites : ~Moved(c)
      BY <2>2 DEF Moved, Unheard
    <3> QED BY <2>2, <3>1 DEF ClientInv, SessionFollows
  <2> QED BY <2>1, <2>2 DEF Client!NoOldAccount
<1> QED BY <1>1, ClientHolds, PTL

-----------------------------------------------------------------------------
(* The pages of a directory *)

Positions == Nat \X Nat

\* How many of a set of positions come before one.
Earlier(S, k) == {l \in S : Paging!Before(l, k)}
Rank(S, k) == Paging!Cardinality(Earlier(S, k))

\* The instance speaks of finite sets as the library does.
LEMMA PagingCardinality ==
  \A S : (Paging!IsFiniteSet(S) <=> IsFiniteSet(S)) /\ Paging!Cardinality(S) = Cardinality(S)
BY DEF Paging!IsFiniteSet, IsFiniteSet, Paging!Cardinality, Cardinality

\* The positions are in a strict total order.
LEMMA PositionsOrdered ==
  /\ \A k \in Positions : ~Paging!Before(k, k)
  /\ \A k, l, m \in Positions : Paging!Before(k, l) /\ Paging!Before(l, m) => Paging!Before(k, m)
  /\ \A k, l \in Positions : k = l \/ Paging!Before(k, l) \/ Paging!Before(l, k)
  BY DEF Positions, Paging!Before

\* Ranks of a finite set are numbers below its size, and grow with the position.
LEMMA RanksGrow ==
  ASSUME NEW S, IsFiniteSet(S), S \subseteq Positions
  PROVE  /\ \A k \in S : Rank(S, k) \in 0 .. Cardinality(S) - 1
         /\ \A k, l \in S : Paging!Before(k, l) => Rank(S, k) < Rank(S, l)
         /\ \A k, l \in S : Rank(S, k) = Rank(S, l) => k = l
<1>1. \A k \in Positions : IsFiniteSet(Earlier(S, k)) /\ Rank(S, k) \in Nat
  <2> TAKE k \in Positions
  <2>1. Earlier(S, k) \in SUBSET S
    BY DEF Earlier
  <2> QED BY <2>1, FS_Subset, FS_CardinalityType, PagingCardinality DEF Rank
<1>2. \A k \in S : Rank(S, k) \in 0 .. Cardinality(S) - 1
  <2> TAKE k \in S
  <2>1. Earlier(S, k) \in SUBSET S /\ Earlier(S, k) # S
    BY PositionsOrdered DEF Earlier
  <2>2. Rank(S, k) <= Cardinality(S) /\ Rank(S, k) # Cardinality(S)
    BY <2>1, FS_Subset, PagingCardinality DEF Rank
  <2> QED BY <1>1, <2>2, FS_CardinalityType
<1>3. \A k, l \in S : Paging!Before(k, l) => Rank(S, k) < Rank(S, l)
  <2> SUFFICES ASSUME NEW k \in S, NEW l \in S, Paging!Before(k, l)
               PROVE  Rank(S, k) < Rank(S, l)
    OBVIOUS
  <2>1. Earlier(S, k) \in SUBSET Earlier(S, l)
    BY PositionsOrdered DEF Earlier
  <2>2. k \in Earlier(S, l) /\ k \notin Earlier(S, k)
    BY PositionsOrdered DEF Earlier
  <2>3. Rank(S, k) <= Rank(S, l) /\ Rank(S, k) # Rank(S, l)
    BY <1>1, <2>1, <2>2, FS_Subset, PagingCardinality DEF Rank
  <2> QED BY <1>1, <2>3
<1>4. \A k, l \in S : Rank(S, k) = Rank(S, l) => k = l
  <2> SUFFICES ASSUME NEW k \in S, NEW l \in S, Rank(S, k) = Rank(S, l), k # l
               PROVE  FALSE
    OBVIOUS
  <2>1. Paging!Before(k, l) \/ Paging!Before(l, k)
    BY PositionsOrdered
  <2> QED BY <1>1, <1>3, <2>1
<1> QED BY <1>2, <1>3, <1>4

\* Every number below its size is a rank of a finite set.
LEMMA RanksReach ==
  ASSUME NEW S, IsFiniteSet(S), S \subseteq Positions, NEW i \in 0 .. Cardinality(S) - 1
  PROVE  \E k \in S : Rank(S, k) = i
<1> DEFINE T == 0 .. Cardinality(S) - 1
<1> DEFINE f == [k \in S |-> Rank(S, k)]
<1>1. Cardinality(S) \in Nat
  BY FS_CardinalityType
<1>2. IsFiniteSet(T) /\ Cardinality(T) = Cardinality(S)
  BY <1>1, FS_Interval
<1>3. f \in Injection(S, T)
  BY RanksGrow DEF Injection, IsInjective
<1>4. f \in Surjection(S, T)
  BY <1>2, <1>3, FS_Injection
<1> QED BY <1>4 DEF Surjection

\* A set of positions in order has each of them once, and each at its rank.
LEMMA SortedInOrder ==
  ASSUME NEW S, IsFiniteSet(S), S \subseteq Positions
  PROVE  /\ Paging!Sorted(S) \in Seq(S)
         /\ Len(Paging!Sorted(S)) = Cardinality(S)
         /\ \A i, j \in 1 .. Cardinality(S) :
              i < j => Paging!Before(Paging!Sorted(S)[i], Paging!Sorted(S)[j])
         /\ \A j \in 1 .. Cardinality(S) :
              Paging!Sorted(S)[j] \in S /\ Rank(S, Paging!Sorted(S)[j]) = j - 1
         /\ \A k \in S : \E j \in 1 .. Cardinality(S) : Paging!Sorted(S)[j] = k
<1> DEFINE n == Cardinality(S)
<1> DEFINE s == Paging!Sorted(S)
<1>1. n \in Nat
  BY FS_CardinalityType
<1>2. s = [j \in 1 .. n |-> CHOOSE k \in S : Rank(S, k) = j - 1]
  <2>1. s = [j \in 1 .. Paging!Cardinality(S) |-> CHOOSE k \in S : Rank(S, k) = j - 1]
    BY Zenon DEF Paging!Sorted, Rank, Earlier
  <2>2. Paging!Cardinality(S) = n
    BY PagingCardinality
  <2> QED BY <2>1, <2>2, Zenon
<1>3. \A j \in 1 .. n : s[j] \in S /\ Rank(S, s[j]) = j - 1
  <2> TAKE j \in 1 .. n
  <2>1. j - 1 \in 0 .. Cardinality(S) - 1
    BY <1>1
  <2>2. \E k \in S : Rank(S, k) = j - 1
    BY <2>1, RanksReach
  <2> QED BY <1>2, <2>2
<1>4. s \in Seq(S) /\ Len(s) = n
  BY <1>1, <1>2, <1>3
<1> HIDE DEF s
<1>5. \A i, j \in 1 .. n : i < j => Paging!Before(s[i], s[j])
  <2> SUFFICES ASSUME NEW i \in 1 .. n, NEW j \in 1 .. n, i < j
               PROVE  Paging!Before(s[i], s[j])
    OBVIOUS
  <2>1. s[i] \in S /\ s[j] \in S /\ Rank(S, s[i]) < Rank(S, s[j])
    BY <1>1, <1>3
  <2>2. ~Paging!Before(s[j], s[i])
    BY <2>1, RanksGrow
  <2>3. s[i] # s[j]
    BY <1>3
  <2> QED BY <2>1, <2>2, <2>3, PositionsOrdered
<1>6. \A k \in S : \E j \in 1 .. n : s[j] = k
  <2> TAKE k \in S
  <2>1. Rank(S, k) + 1 \in 1 .. n
    BY <1>1, RanksGrow
  <2>2. Rank(S, s[Rank(S, k) + 1]) = Rank(S, k)
    BY <1>1, <1>3, <2>1, RanksGrow
  <2> QED BY <1>3, <2>1, <2>2, RanksGrow
<1> QED BY <1>3, <1>4, <1>5, <1>6 DEF s

\* A sequence of positions in order, and the set of them.
InOrder(s) == \A i, j \in 1 .. Len(s) : i < j => Paging!Before(s[i], s[j])
Rows(s) == {s[j] : j \in 1 .. Len(s)}

\* The first of a sequence in order are as many as there are places for them.
LEMMA InOrderCounts ==
  ASSUME NEW s \in Seq(Positions), InOrder(s), NEW m \in 0 .. Len(s)
  PROVE  /\ IsFiniteSet({s[i] : i \in 1 .. m})
         /\ Cardinality({s[i] : i \in 1 .. m}) = m
<1> DEFINE I == 1 .. m
<1> DEFINE T == {s[i] : i \in 1 .. m}
<1> DEFINE f == [i \in I |-> s[i]]
<1>1. m \in Nat /\ Len(s) \in Nat
  BY LenProperties
<1>2. IsFiniteSet(I) /\ Cardinality(I) = m
  BY <1>1, FS_Interval
<1>3. f \in Surjection(I, T)
  BY DEF Surjection
<1>4. \A i, j \in I : f[i] = f[j] => i = j
  <2> SUFFICES ASSUME NEW i \in I, NEW j \in I, s[i] = s[j], i < j
               PROVE  FALSE
    BY <1>1
  <2>1. s[i] \in Positions /\ Paging!Before(s[i], s[j])
    BY <1>1, ElementOfSeq DEF InOrder
  <2> QED BY <2>1, PositionsOrdered
<1>5. f \in Injection(I, T)
  BY <1>3, <1>4 DEF Injection, IsInjective, Surjection
<1> QED BY <1>2, <1>3, <1>5, FS_Surjection

\* A sequence in order is its set of positions, sorted.
LEMMA InOrderIsSorted ==
  ASSUME NEW s \in Seq(Positions), InOrder(s)
  PROVE  /\ IsFiniteSet(Rows(s)) /\ Rows(s) \subseteq Positions
         /\ Cardinality(Rows(s)) = Len(s)
         /\ s = Paging!Sorted(Rows(s))
<1> DEFINE S == Rows(s)
<1>1. Len(s) \in Nat /\ Len(s) \in 0 .. Len(s) /\ \A j \in 1 .. Len(s) : s[j] \in Positions
  BY LenProperties, ElementOfSeq
<1>2. IsFiniteSet(S) /\ Cardinality(S) = Len(s)
  BY <1>1, InOrderCounts DEF Rows
<1>3. S \subseteq Positions
  BY <1>1 DEF Rows
<1>4. \A j \in 1 .. Len(s) : Rank(S, s[j]) = j - 1
  <2> TAKE j \in 1 .. Len(s)
  <2> DEFINE T == {s[i] : i \in 1 .. j - 1}
  <2>1. j - 1 \in 0 .. Len(s)
    BY <1>1
  <2>2. Cardinality(T) = j - 1
    BY <2>1, InOrderCounts
  <2>3. Earlier(S, s[j]) = T
    <3>1. \A i \in 1 .. Len(s) : Paging!Before(s[i], s[j]) <=> i < j
      <4> TAKE i \in 1 .. Len(s)
      <4>1. i < j => Paging!Before(s[i], s[j])
        BY DEF InOrder
      <4>2. j < i => Paging!Before(s[j], s[i])
        BY DEF InOrder
      <4>3. s[i] \in Positions /\ s[j] \in Positions
        BY <1>1
      <4>4. ~Paging!Before(s[i], s[i]) /\ ~(Paging!Before(s[i], s[j]) /\ Paging!Before(s[j], s[i]))
        BY <4>3, PositionsOrdered
      <4>5. i < j \/ i = j \/ j < i
        BY <1>1
      <4>6. ASSUME i = j PROVE ~Paging!Before(s[i], s[j]) /\ ~(i < j)
        BY <1>1, <4>4, <4>6
      <4>7. ASSUME j < i PROVE ~Paging!Before(s[i], s[j]) /\ ~(i < j)
        BY <1>1, <4>2, <4>4, <4>7
      <4> QED BY <4>1, <4>5, <4>6, <4>7
    <3>2. Earlier(S, s[j]) = {s[i] : i \in {i \in 1 .. Len(s) : Paging!Before(s[i], s[j])}}
      BY DEF Earlier, Rows
    <3>3. {i \in 1 .. Len(s) : Paging!Before(s[i], s[j])} = 1 .. j - 1
      BY <1>1, <3>1
    <3> QED BY <3>2, <3>3
  <2>4. Rank(S, s[j]) = Cardinality(Earlier(S, s[j]))
    BY PagingCardinality DEF Rank
  <2> QED BY <2>2, <2>3, <2>4
<1> DEFINE t == Paging!Sorted(S)
<1>5. /\ t \in Seq(S) /\ Len(t) = Len(s)
      /\ \A j \in 1 .. Len(s) : t[j] \in S /\ Rank(S, t[j]) = j - 1
  BY <1>2, <1>3, SortedInOrder
<1> HIDE DEF t
<1>6. s \in Seq(S)
  BY <1>1 DEF Rows
<1>7. \A j \in 1 .. Len(s) : s[j] = t[j]
  <2> TAKE j \in 1 .. Len(s)
  <2>1. s[j] \in S /\ t[j] \in S /\ Rank(S, s[j]) = Rank(S, t[j])
    BY <1>4, <1>5 DEF Rows
  <2> QED BY <1>2, <1>3, <2>1, RanksGrow
<1>8. s = t
  BY <1>5, <1>6, <1>7, SeqEqual
<1> QED BY <1>2, <1>3, <1>8 DEF t

LEMMA PagingParameters ==
  /\ ListIds \subseteq Nat /\ ListNames \subseteq Nat /\ IsFiniteSet(ListIds)
  /\ None \notin Nat /\ PageSize \in Nat \ {0} /\ ListChanges \in Nat
BY BrowserAssumption, PagingCardinality DEF Paging!PagingAssumption

Least(i, j) == IF i < j THEN i ELSE j

\* One row more than a page is fetched, and of those the first are shown, or the
\* last where the page goes backwards.
LEMMA FetchedAndSelected ==
  ASSUME NEW S, IsFiniteSet(S), S \subseteq Positions, NEW back \in BOOLEAN
  PROVE  LET n == Cardinality(S)
             m == Least(n, PageSize)
             rows == Paging!Fetched(S, back)
             page == Paging!Selected(rows, back)
         IN  /\ Len(rows) > PageSize <=> n > PageSize
             /\ page \in Seq(S) /\ Len(page) = m
             /\ \A j \in 1 .. m : page[j] = Paging!Sorted(S)[IF back THEN n - m + j ELSE j]
<1> DEFINE n == Cardinality(S)
<1> DEFINE m == Least(n, PageSize)
<1> DEFINE s == Paging!Sorted(S)
<1> DEFINE o == IF back THEN Paging!Reverse(s) ELSE s
<1> DEFINE f == IF n <= PageSize THEN n ELSE PageSize + 1
<1> DEFINE rows == Paging!Fetched(S, back)
<1> DEFINE front == SubSeq(rows, 1, m)
<1> DEFINE page == Paging!Selected(rows, back)
<1>1. n \in Nat /\ PageSize \in Nat /\ m \in 0 .. n /\ m <= PageSize /\ f \in m .. n
  BY FS_CardinalityType, PagingParameters DEF Least
<1>2. s \in Seq(S) /\ Len(s) = n /\ \A j \in 1 .. n : s[j] \in S
  BY SortedInOrder, ElementOfSeq
<1>3. /\ o \in Seq(S) /\ Len(o) = n
      /\ \A j \in 1 .. n : o[j] \in S /\ o[j] = s[IF back THEN n - j + 1 ELSE j]
  <2> HIDE DEF s
  <2>1. Paging!Reverse(s) = [j \in 1 .. n |-> s[n - j + 1]]
    BY <1>1, <1>2 DEF Paging!Reverse
  <2>2. \A j \in 1 .. n : n - j + 1 \in 1 .. n
    BY <1>1
  <2>3. Paging!Reverse(s) \in Seq(S) /\ Len(Paging!Reverse(s)) = n
    BY <1>1, <1>2, <2>1, <2>2
  <2> QED BY <1>1, <1>2, <2>1, <2>2, <2>3
<1>4. rows = SubSeq(o, 1, f)
  BY <1>2, <1>3 DEF Paging!Fetched
<1> HIDE DEF o, s
<1>5. /\ rows \in Seq(S) /\ Len(rows) = f
      /\ \A j \in 1 .. f : rows[j] = o[j]
  <2> HIDE DEF rows, f
  <2>1. f \in Int /\ 0 <= f /\ \A j \in 1 .. f : o[j] \in S
    BY <1>1, <1>3
  <2>2. SubSeq(o, 1, f) \in Seq(S) /\ Len(SubSeq(o, 1, f)) = f /\ \A j \in 1 .. f : SubSeq(o, 1, f)[j] = o[j]
    BY <2>1, SubSeqProperties
  <2> QED BY <1>4, <2>2
<1>6. Len(rows) > PageSize <=> n > PageSize
  BY <1>1, <1>5
<1>7. (IF Len(rows) < PageSize THEN Len(rows) ELSE PageSize) = m
  BY <1>1, <1>5 DEF Least
<1>8. page = IF back THEN Paging!Reverse(front) ELSE front
  <2> HIDE DEF rows, m
  <2> QED BY <1>7, Zenon DEF Paging!Selected
<1>9. /\ front \in Seq(S) /\ Len(front) = m
      /\ \A j \in 1 .. m : front[j] = o[j]
  <2> HIDE DEF rows, f, m
  <2>1. m \in Int /\ 0 <= m /\ \A j \in 1 .. m : rows[j] \in S /\ rows[j] = o[j]
    BY <1>1, <1>3, <1>5
  <2> QED BY <2>1, SubSeqProperties
<1> HIDE DEF front, page, rows
<1>10. /\ page \in Seq(S) /\ Len(page) = m
       /\ \A j \in 1 .. m : page[j] = s[IF back THEN n - m + j ELSE j]
  <2>1. CASE ~back
    BY <1>1, <1>3, <1>8, <1>9, <2>1
  <2>2. CASE back
    <3> HIDE DEF m, n
    <3>1. page = [j \in 1 .. m |-> front[m - j + 1]]
      BY <1>8, <1>9, <2>2 DEF Paging!Reverse
    <3>2. \A j \in 1 .. m : m - j + 1 \in 1 .. m /\ m - j + 1 \in 1 .. n /\ n - (m - j + 1) + 1 = n - m + j
      BY <1>1
    <3>3. \A j \in 1 .. m : page[j] = s[n - m + j] /\ page[j] \in S
      <4> TAKE j \in 1 .. m
      <4>1. page[j] = front[m - j + 1]
        BY <3>1
      <4>2. front[m - j + 1] = o[m - j + 1]
        BY <1>9, <3>2
      <4>3. o[m - j + 1] \in S /\ o[m - j + 1] = s[n - (m - j + 1) + 1]
        BY <1>3, <2>2, <3>2
      <4> QED BY <3>2, <4>1, <4>2, <4>3
    <3>4. page \in Seq(S) /\ Len(page) = m
      <4>1. m \in Nat
        BY <1>1
      <4>2. page \in [1 .. m -> S]
        BY <3>1, <3>3
      <4> QED BY <4>1, <4>2
    <3> QED BY <2>2, <3>3, <3>4
  <2> QED BY <2>1, <2>2
<1> QED BY <1>6, <1>10 DEF page, rows, s

\* What a page is: rows of the directory on the asked side of its token, in order,
\* none left out but past the end of a full page, to which a cursor then leads.
IsPage(keys, token, back, items, on, before) ==
  /\ items \in Seq(keys) /\ Len(items) <= PageSize /\ InOrder(items)
  /\ \A k \in Rows(items) : Paging!Beyond(k, token, back)
  /\ \A k \in keys : Paging!Beyond(k, token, back) =>
       \/ k \in Rows(items)
       \/ /\ Len(items) = PageSize
          /\ back => before = items[1] /\ Paging!Before(k, items[1])
          /\ ~back => on = items[Len(items)] /\ Paging!Before(items[Len(items)], k)
  /\ on # Paging!Null => items # <<>> /\ on = items[Len(items)] /\ (back \/ Len(items) = PageSize)
  /\ items = <<>> => before = token
  /\ items # <<>> =>
       /\ before \in {Paging!Null, items[1]}
       /\ back => on # Paging!Null
       /\ ~back /\ token # Paging!Null => before = items[1]

LEMMA PagesArePages ==
  ASSUME NEW token, NEW back \in BOOLEAN, back => token # Paging!Null,
         IsFiniteSet(Paging!Keys), Paging!Keys \subseteq Positions
  PROVE  LET page == Paging!Page(token, back)
         IN  IsPage(Paging!Keys, token, back, page.items, page.next, page.previous)
<1> DEFINE keys == Paging!Keys
<1> DEFINE S == {k \in keys : Paging!Beyond(k, token, back)}
<1> DEFINE n == Cardinality(S)
<1> DEFINE m == Least(n, PageSize)
<1> DEFINE s == Paging!Sorted(S)
<1> DEFINE rows == Paging!Fetched(S, back)
<1> DEFINE items == Paging!Selected(rows, back)
<1> DEFINE more == Len(rows) > PageSize
<1> DEFINE on == IF items # <<>> /\ (IF back THEN token # Paging!Null ELSE more)
                 THEN items[Len(items)] ELSE Paging!Null
<1> DEFINE before == IF items = <<>> THEN token
                     ELSE IF (IF back THEN more ELSE token # Paging!Null)
                          THEN items[1] ELSE Paging!Null
<1> DEFINE page == Paging!Page(token, back)
<1>1. S \subseteq keys /\ S \subseteq Positions /\ IsFiniteSet(S)
  BY FS_Subset
<1>2. n \in Nat /\ PageSize \in Nat \ {0} /\ m \in 0 .. n /\ m <= PageSize /\ (m < PageSize => m = n)
  BY <1>1, FS_CardinalityType, PagingParameters DEF Least
<1>3. more <=> n > PageSize
  BY <1>1, FetchedAndSelected
<1>4. /\ items \in Seq(S) /\ Len(items) = m
      /\ \A j \in 1 .. m : items[j] = s[IF back THEN n - m + j ELSE j]
  BY <1>1, FetchedAndSelected
<1>5. page.items = items /\ page.next = on /\ page.previous = before
  BY DEF Paging!Page, Paging!EndOf, Paging!Last
<1>6. /\ \A i, j \in 1 .. n : i < j => Paging!Before(s[i], s[j])
      /\ \A k \in S : \E j \in 1 .. n : s[j] = k
  BY <1>1, SortedInOrder
<1>7. Paging!Null = <<>>
  BY DEF Paging!Null
<1> HIDE DEF n, m, s, rows, items, page
<1>8. InOrder(items)
  <2> SUFFICES ASSUME NEW i \in 1 .. m, NEW j \in 1 .. m, i < j
               PROVE  Paging!Before(items[i], items[j])
    BY <1>4 DEF InOrder
  <2>1. CASE back
    <3>1. n - m + i \in 1 .. n /\ n - m + j \in 1 .. n /\ n - m + i < n - m + j
      BY <1>2
    <3> QED BY <1>4, <1>6, <2>1, <3>1
  <2>2. CASE ~back
    <3>1. i \in 1 .. n /\ j \in 1 .. n
      BY <1>2
    <3> QED BY <1>4, <1>6, <2>2, <3>1
  <2> QED BY <2>1, <2>2
<1>9. \A j \in 1 .. m : items[j] \in S
  BY <1>4, ElementOfSeq
<1>10. items \in Seq(keys) /\ Len(items) <= PageSize
  BY <1>1, <1>2, <1>4
<1>11. \A k \in Rows(items) : Paging!Beyond(k, token, back)
  BY <1>4, <1>9 DEF Rows
<1>12. m # 0 => items # <<>>
  BY <1>4
<1>13. ASSUME NEW k \in keys, Paging!Beyond(k, token, back), k \notin Rows(items)
       PROVE  /\ Len(items) = PageSize
              /\ back => before = items[1] /\ Paging!Before(k, items[1])
              /\ ~back => on = items[Len(items)] /\ Paging!Before(items[Len(items)], k)
  <2>1. PICK j \in 1 .. n : s[j] = k
    BY <1>6, <1>13
  <2>2. CASE back
    <3>1. ~(j > n - m)
      <4>1. ASSUME j > n - m PROVE j - (n - m) \in 1 .. m /\ n - m + (j - (n - m)) = j
        BY <1>2, <4>1
      <4>2. ASSUME j > n - m PROVE items[j - (n - m)] = k
        BY <1>4, <2>1, <2>2, <4>1, <4>2
      <4> QED BY <1>4, <1>13, <4>1, <4>2 DEF Rows
    <3>2. m = PageSize /\ n > PageSize /\ m # 0 /\ 1 \in 1 .. m /\ n - m + 1 \in 1 .. n /\ j < n - m + 1
      BY <1>2, <3>1
    <3>3. items[1] = s[n - m + 1] /\ Paging!Before(k, items[1])
      BY <1>4, <1>6, <2>1, <2>2, <3>2
    <3>4. before = items[1]
      BY <1>3, <1>12, <2>2, <3>2
    <3> QED BY <1>4, <2>2, <3>2, <3>3, <3>4
  <2>3. CASE ~back
    <3>1. ~(j <= m)
      <4>1. ASSUME j <= m PROVE j \in 1 .. m /\ items[j] = k
        BY <1>2, <1>4, <2>1, <2>3, <4>1
      <4> QED BY <1>4, <1>13, <4>1 DEF Rows
    <3>2. m = PageSize /\ n > PageSize /\ m # 0 /\ m \in 1 .. m /\ m \in 1 .. n /\ m < j
      BY <1>2, <3>1
    <3>3. items[m] = s[m] /\ Paging!Before(items[m], k)
      BY <1>4, <1>6, <2>1, <2>3, <3>2
    <3>4. on = items[m]
      BY <1>3, <1>4, <1>12, <2>3, <3>2
    <3> QED BY <1>4, <2>3, <3>2, <3>3, <3>4
  <2> QED BY <2>2, <2>3
<1>14. on # Paging!Null => items # <<>> /\ on = items[Len(items)] /\ (back \/ Len(items) = PageSize)
  <2>1. n > PageSize => m = PageSize
    BY <1>2
  <2> QED BY <1>3, <1>4, <2>1
<1>15. \A k \in Positions : k # Paging!Null
  BY <1>7 DEF Positions
<1>16. items = <<>> => before = token
  OBVIOUS
<1>17. items # <<>> =>
         /\ before \in {Paging!Null, items[1]}
         /\ back => on # Paging!Null
         /\ ~back /\ token # Paging!Null => before = items[1]
  <2> HAVE items # <<>>
  <2>1. Len(items) \in 1 .. m
    BY <1>2, <1>4
  <2>2. items[Len(items)] # Paging!Null
    BY <1>1, <1>9, <1>15, <2>1
  <2> QED BY <2>2
<1>18. \A k \in keys : Paging!Beyond(k, token, back) =>
         \/ k \in Rows(items)
         \/ /\ Len(items) = PageSize
            /\ back => before = items[1] /\ Paging!Before(k, items[1])
            /\ ~back => on = items[Len(items)] /\ Paging!Before(items[Len(items)], k)
  BY <1>13
<1> HIDE DEF on, before, keys
<1>19. IsPage(keys, token, back, items, on, before)
  BY <1>8, <1>10, <1>11, <1>14, <1>16, <1>17, <1>18 DEF IsPage
<1> QED BY <1>5, <1>19 DEF page, keys

\* The rows of a page lie between its first and its last.
LEMMA FirstAndLast ==
  ASSUME NEW s \in Seq(Positions), InOrder(s), s # <<>>
  PROVE  /\ s[1] \in Rows(s) /\ s[Len(s)] \in Rows(s) /\ Rows(s) \subseteq Positions
         /\ Len(s) \in Nat \ {0}
         /\ \A k \in Rows(s) : ~Paging!Before(k, s[1]) /\ ~Paging!Before(s[Len(s)], k)
<1> DEFINE n == Len(s)
<1>1. n \in Nat \ {0}
  BY LenProperties, EmptySeq
<1>2. \A j \in 1 .. n : s[j] \in Positions
  BY ElementOfSeq
<1>3. ASSUME NEW j \in 1 .. n
      PROVE  ~Paging!Before(s[j], s[1]) /\ ~Paging!Before(s[n], s[j])
  <2>1. 1 \in 1 .. n /\ n \in 1 .. n /\ (j = 1 \/ 1 < j) /\ (j = n \/ j < n)
    BY <1>1
  <2>2. j = 1 \/ Paging!Before(s[1], s[j])
    BY <2>1 DEF InOrder
  <2>3. j = n \/ Paging!Before(s[j], s[n])
    BY <2>1 DEF InOrder
  <2>4. s[1] \in Positions /\ s[n] \in Positions /\ s[j] \in Positions
    BY <1>2, <2>1
  <2>5. ~Paging!Before(s[j], s[1])
    BY <2>2, <2>4, PositionsOrdered
  <2>6. ~Paging!Before(s[n], s[j])
    BY <2>3, <2>4, PositionsOrdered
  <2> QED BY <2>5, <2>6
<1>4. \A k \in Rows(s) : ~Paging!Before(k, s[1]) /\ ~Paging!Before(s[n], k)
  BY <1>3 DEF Rows
<1>5. 1 \in 1 .. n /\ n \in 1 .. n
  BY <1>1
<1> QED BY <1>1, <1>2, <1>4, <1>5 DEF Rows

\* The last rows of a set of positions, as many as there is room for.
IsTail(s, T) ==
  /\ s \in Seq(T) /\ InOrder(s) /\ Len(s) <= PageSize
  /\ \A k \in T : k \in Rows(s) \/ (s # <<>> /\ Len(s) = PageSize /\ Paging!Before(k, s[1]))

LEMMA TailsContained ==
  ASSUME NEW T, T \subseteq Positions, NEW a, NEW b, IsTail(a, T), IsTail(b, T)
  PROVE  Rows(a) \subseteq Rows(b)
<1> SUFFICES ASSUME NEW x \in Rows(a), x \notin Rows(b)
             PROVE  FALSE
  OBVIOUS
<1>1. a \in Seq(T) /\ a \in Seq(Positions) /\ b \in Seq(T) /\ b \in Seq(Positions)
  BY DEF IsTail
<1>2. InOrder(a) /\ InOrder(b) /\ Len(a) <= PageSize
  BY DEF IsTail
<1>3. Rows(a) \subseteq T /\ Rows(b) \subseteq T
  BY <1>1, ElementOfSeq DEF Rows
<1>4. b # <<>> /\ Len(b) = PageSize /\ Paging!Before(x, b[1])
  BY <1>3 DEF IsTail
<1>5. a # <<>>
  BY EmptySeq DEF Rows
<1>6. /\ a[1] \in Positions /\ x \in Positions /\ b[1] \in Positions
      /\ ~Paging!Before(x, a[1])
  BY <1>1, <1>2, <1>3, <1>4, <1>5, FirstAndLast
<1>7. \A y \in Rows(b) : y \in Positions /\ ~Paging!Before(y, b[1])
  BY <1>1, <1>2, <1>4, FirstAndLast
<1>8. \A y \in Rows(b) : y \in Rows(a)
  <2> SUFFICES ASSUME NEW y \in Rows(b), Paging!Before(y, a[1])
               PROVE  FALSE
    BY <1>3 DEF IsTail
  <2>1. y \in Positions /\ ~Paging!Before(y, b[1])
    BY <1>7
  <2> QED BY <1>4, <1>6, <2>1, PositionsOrdered
<1>9. Rows(b) \cup {x} \subseteq Rows(a)
  BY <1>8
<1>10. /\ IsFiniteSet(Rows(a)) /\ Cardinality(Rows(a)) = Len(a)
       /\ IsFiniteSet(Rows(b)) /\ Cardinality(Rows(b)) = Len(b)
  BY <1>1, <1>2, InOrderIsSorted
<1>11. Cardinality(Rows(b) \cup {x}) = Len(b) + 1
  BY <1>10, FS_AddElement
<1>12. Cardinality(Rows(b) \cup {x}) <= Cardinality(Rows(a))
  BY <1>9, <1>10, FS_Subset
<1>13. Len(a) \in Nat /\ Len(b) \in Nat
  BY <1>1, LenProperties
<1> QED BY <1>2, <1>4, <1>10, <1>11, <1>12, <1>13, PagingParameters

\* There is only one such sequence.
LEMMA TailsAreEqual ==
  ASSUME NEW T, T \subseteq Positions, NEW a, NEW b, IsTail(a, T), IsTail(b, T)
  PROVE  a = b
<1>1. Rows(a) = Rows(b)
  <2>1. Rows(a) \subseteq Rows(b)
    BY TailsContained
  <2>2. Rows(b) \subseteq Rows(a)
    BY TailsContained
  <2> QED BY <2>1, <2>2
<1>2. a \in Seq(Positions) /\ b \in Seq(Positions) /\ InOrder(a) /\ InOrder(b)
  BY DEF IsTail
<1> QED BY <1>1, <1>2, InOrderIsSorted

\* Rows with none left out before their last, but for want of room.
RunTo(s, keys) ==
  /\ s # <<>> /\ s \in Seq(keys) /\ InOrder(s) /\ Len(s) <= PageSize
  /\ \A k \in keys : ~Paging!Before(s[Len(s)], k) =>
       k \in Rows(s) \/ (Len(s) = PageSize /\ Paging!Before(k, s[1]))

\* What is beyond a token, and what is not.
LEMMA BeyondMeans ==
  ASSUME NEW k, NEW token
  PROVE  /\ Paging!Beyond(k, Paging!Null, FALSE)
         /\ token # Paging!Null => (Paging!Beyond(k, token, FALSE) <=> Paging!Before(token, k))
         /\ token # Paging!Null => (Paging!Beyond(k, token, TRUE) <=> Paging!Before(k, token))
  BY DEF Paging!Beyond

\* A page with a way on is a run of the directory to where that leads from.
LEMMA PagesRun ==
  ASSUME NEW keys, keys \subseteq Positions, NEW token \in Positions \cup {Paging!Null},
         NEW back \in BOOLEAN, back => token # Paging!Null, NEW items, NEW on, NEW before,
         IsPage(keys, token, back, items, on, before), on # Paging!Null
  PROVE  on = items[Len(items)] /\ RunTo(items, keys)
<1>1. on = items[Len(items)] /\ items # <<>> /\ (back \/ Len(items) = PageSize)
  BY DEF IsPage
<1>2. items \in Seq(keys) /\ items \in Seq(Positions) /\ InOrder(items) /\ Len(items) <= PageSize
  BY DEF IsPage
<1> DEFINE first == items[1]
<1> DEFINE last == items[Len(items)]
<1>3. /\ first \in Positions /\ last \in Positions
      /\ first \in Rows(items) /\ last \in Rows(items) /\ ~Paging!Before(last, first)
  BY <1>1, <1>2, FirstAndLast
<1>4. Paging!Beyond(first, token, back) /\ Paging!Beyond(last, token, back)
  BY <1>3 DEF IsPage
<1> HIDE DEF first, last
<1>5. ASSUME NEW k \in keys, ~Paging!Before(last, k), k \notin Rows(items)
      PROVE  Len(items) = PageSize /\ Paging!Before(k, first)
  <2>0. k \in Positions
    OBVIOUS
  <2>1. CASE back
    <3>1. Paging!Before(last, token) /\ token \in Positions
      BY <1>4, <2>1, BeyondMeans
    <3>2. Paging!Before(k, token)
      BY <1>3, <1>5, <2>0, <3>1, PositionsOrdered
    <3>3. Paging!Beyond(k, token, back)
      BY <2>1, <3>2, BeyondMeans
    <3> QED BY <1>5, <2>1, <3>3 DEF IsPage, first
  <2>2. CASE ~back
    <3>1. ~Paging!Beyond(k, token, back)
      BY <1>5, <2>2 DEF IsPage, last
    <3>2. token # Paging!Null /\ ~Paging!Before(token, k) /\ Paging!Before(token, first)
      BY <1>4, <2>2, <3>1, BeyondMeans
    <3>3. Paging!Before(k, first)
      BY <1>3, <2>0, <3>2, PositionsOrdered
    <3> QED BY <1>1, <2>2, <3>3
  <2> QED BY <2>1, <2>2
<1> QED BY <1>1, <1>2, <1>5 DEF RunTo, first, last

\* What is before a page that goes on from a token is what is not beyond the token.
LEMMA PagesFollow ==
  ASSUME NEW keys, keys \subseteq Positions, NEW token \in Positions, NEW items, NEW on, NEW before,
         token # Paging!Null,
         IsPage(keys, token, FALSE, items, on, before), items # <<>>
  PROVE  /\ before = items[1] /\ before \in Positions
         /\ \A k \in keys : Paging!Before(k, items[1]) <=> ~Paging!Before(token, k)
<1>1. before = items[1]
  BY DEF IsPage
<1>2. items \in Seq(Positions) /\ InOrder(items)
  BY DEF IsPage
<1> DEFINE first == items[1]
<1> DEFINE last == items[Len(items)]
<1>3. /\ first \in Positions /\ last \in Positions
      /\ first \in Rows(items) /\ ~Paging!Before(last, first)
      /\ \A k \in Rows(items) : ~Paging!Before(k, first)
  BY <1>2, FirstAndLast
<1>4. Paging!Before(token, first)
  BY <1>3, BeyondMeans DEF IsPage
<1> HIDE DEF first, last
<1>5. ASSUME NEW k \in keys
      PROVE  Paging!Before(k, first) <=> ~Paging!Before(token, k)
  <2>0. k \in Positions
    OBVIOUS
  <2>1. ASSUME ~Paging!Before(token, k) PROVE Paging!Before(k, first)
    BY <1>3, <1>4, <2>0, <2>1, PositionsOrdered
  <2>2. ASSUME Paging!Before(k, first), Paging!Before(token, k) PROVE FALSE
    <3>1. Paging!Beyond(k, token, FALSE)
      BY <2>2, BeyondMeans
    <3>2. k \in Rows(items) \/ Paging!Before(last, k)
      BY <3>1 DEF IsPage, last
    <3>3. k \notin Rows(items)
      BY <1>3, <2>2
    <3> QED BY <1>3, <2>0, <2>2, <3>2, <3>3, PositionsOrdered
  <2> QED BY <2>1, <2>2
<1> QED BY <1>1, <1>3, <1>5 DEF first

\* One page back from there is the page before.
LEMMA PagesReturn ==
  ASSUME NEW keys, keys \subseteq Positions, NEW token \in Positions, token # Paging!Null,
         NEW s, RunTo(s, keys), NEW items, NEW on, NEW before,
         IsPage(keys, token, TRUE, items, on, before),
         \A k \in keys : Paging!Before(k, token) <=> ~Paging!Before(s[Len(s)], k)
  PROVE  items = s
<1> DEFINE T == {k \in keys : Paging!Before(k, token)}
<1> DEFINE last == s[Len(s)]
<1>1. s \in Seq(keys) /\ s \in Seq(Positions) /\ InOrder(s) /\ s # <<>> /\ Len(s) <= PageSize
  BY DEF RunTo
<1>2. items \in Seq(keys) /\ InOrder(items) /\ Len(items) <= PageSize
  BY DEF IsPage
<1>3. \A k \in Rows(s) : k \in keys /\ ~Paging!Before(last, k)
  BY <1>1, FirstAndLast, ElementOfSeq DEF Rows
<1>4. \A j \in 1 .. Len(s) : s[j] \in T
  BY <1>3 DEF Rows
<1>5. \A j \in 1 .. Len(items) : items[j] \in T
  <2> TAKE j \in 1 .. Len(items)
  <2>1. items[j] \in keys /\ items[j] \in Rows(items)
    BY <1>2, ElementOfSeq DEF Rows
  <2> QED BY <2>1, BeyondMeans DEF IsPage
<1>6. s \in Seq(T) /\ items \in Seq(T)
  <2> HIDE DEF T
  <2> QED BY <1>1, <1>2, <1>4, <1>5
<1>7. IsTail(s, T)
  BY <1>1, <1>6 DEF IsTail, RunTo
<1>8. \A k \in T : k \in Rows(items) \/ (items # <<>> /\ Len(items) = PageSize /\ Paging!Before(k, items[1]))
  <2> TAKE k \in T
  <2>1. Paging!Beyond(k, token, TRUE)
    BY BeyondMeans
  <2>2. k \in Rows(items) \/ (Len(items) = PageSize /\ Paging!Before(k, items[1]))
    BY <2>1 DEF IsPage
  <2>3. Len(items) = PageSize => items # <<>>
    BY PagingParameters, EmptySeq
  <2> QED BY <2>2, <2>3
<1>9. IsTail(items, T)
  BY <1>2, <1>6, <1>8 DEF IsTail
<1>10. T \subseteq Positions
  OBVIOUS
<1> QED BY <1>7, <1>9, <1>10, TailsAreEqual

Places == ListNames \X ListIds

PagingTypes ==
  /\ dpName \in [ListIds -> ListNames \cup {None}]
  /\ dpShown \in Seq(Places) /\ Len(dpShown) <= PageSize
  /\ dpNext \in Places \cup {Paging!Null} /\ dpPrevious \in Places \cup {Paging!Null}
  /\ dpChanges \in 0 .. ListChanges /\ dpSteady \subseteq ListIds /\ dpStill \in BOOLEAN
  /\ dpAsked.backwards \in BOOLEAN

\* What a walk has seen is in order and before the place from which it goes on, and
\* every account whose row has stayed was seen or is still ahead.
SeenInOrder ==
  /\ dpSeen \in Seq(Positions) /\ InOrder(dpSeen)
  /\ ~dpAsked.backwards /\ dpNext # Paging!Null => \A k \in Rows(dpSeen) : ~Paging!Before(dpNext, k)

SeenOrAhead(i) ==
  LET k == <<dpName[i], i>>
  IN  k \in Rows(dpSeen) \/ (dpNext # Paging!Null /\ Paging!Before(dpNext, k))

SeenIsComplete ==
  ~dpAsked.backwards => \A i \in dpSteady : dpName[i] # None => SeenOrAhead(i)

\* While no row has changed the page shown is a run of the directory, and so is the
\* one before it, right before the page shown.
WaysLead ==
  /\ dpStill /\ dpNext # Paging!Null => dpNext = dpShown[Len(dpShown)] /\ RunTo(dpShown, Paging!Keys)
  /\ dpFrom # Paging!Null =>
       /\ RunTo(dpFrom, Paging!Keys)
       /\ dpShown # <<>> =>
            /\ dpPrevious # Paging!Null
            /\ \A k \in Paging!Keys :
                 Paging!Before(k, dpPrevious) <=> ~Paging!Before(dpFrom[Len(dpFrom)], k)

PagingInv == PagingTypes /\ SeenInOrder /\ SeenIsComplete /\ WaysLead

LEMMA KeysArePlaces ==
  ASSUME dpName \in [ListIds -> ListNames \cup {None}]
  PROVE  IsFiniteSet(Paging!Keys) /\ Paging!Keys \subseteq Places /\ Places \subseteq Positions
<1> DEFINE I == {i \in ListIds : dpName[i] # None}
<1> DEFINE f == [i \in I |-> <<dpName[i], i>>]
<1>1. Paging!Keys = {<<dpName[i], i>> : i \in I}
  BY DEF Paging!Keys
<1>2. f \in Surjection(I, Paging!Keys)
  BY <1>1 DEF Surjection
<1>3. IsFiniteSet(I)
  BY PagingParameters, FS_Subset
<1>4. IsFiniteSet(Paging!Keys)
  BY <1>2, <1>3, FS_Surjection
<1>5. Paging!Keys \subseteq Places
  BY <1>1 DEF Places
<1>6. Places \subseteq Positions
  BY PagingParameters DEF Places, Positions
<1> QED BY <1>4, <1>5, <1>6

LEMMA NullIsNoPlace == Paging!Null = <<>> /\ Paging!Null \notin Positions
  BY DEF Paging!Null, Positions

\* A page that is taken: what it is, its types, and a run where it has a way on.
LEMMA PageTaken ==
  ASSUME dpName \in [ListIds -> ListNames \cup {None}],
         NEW token \in Places \cup {Paging!Null}, NEW back \in BOOLEAN, back => token # Paging!Null
  PROVE  LET page == Paging!Page(token, back)
         IN  /\ IsPage(Paging!Keys, token, back, page.items, page.next, page.previous)
             /\ page.items \in Seq(Places) /\ Len(page.items) <= PageSize
             /\ page.next \in Places \cup {Paging!Null} /\ page.previous \in Places \cup {Paging!Null}
             /\ page.next # Paging!Null =>
                  page.next = page.items[Len(page.items)] /\ RunTo(page.items, Paging!Keys)
<1> DEFINE page == Paging!Page(token, back)
<1> DEFINE keys == Paging!Keys
<1>1. IsFiniteSet(keys) /\ keys \subseteq Places /\ keys \subseteq Positions /\ Places \subseteq Positions
  BY KeysArePlaces
<1>2. IsPage(keys, token, back, page.items, page.next, page.previous)
  BY <1>1, PagesArePages
<1>3. token \in Positions \cup {Paging!Null}
  BY <1>1
<1> HIDE DEF page, keys
<1>4. page.items \in Seq(keys) /\ page.items \in Seq(Places) /\ Len(page.items) <= PageSize
  BY <1>1, <1>2 DEF IsPage
<1>5. page.next # Paging!Null => page.next = page.items[Len(page.items)] /\ RunTo(page.items, keys)
  BY <1>1, <1>2, <1>3, PagesRun
<1>6. page.items # <<>> => page.items[1] \in Places /\ page.items[Len(page.items)] \in Places
  BY <1>4, EmptySeq, LenProperties, ElementOfSeq
<1>7. page.next \in Places \cup {Paging!Null}
  BY <1>2, <1>6 DEF IsPage
<1>8. page.previous \in Places \cup {Paging!Null}
  BY <1>2, <1>6 DEF IsPage
<1> QED BY <1>2, <1>4, <1>5, <1>7, <1>8 DEF page, keys

\* The first page of a directory, to begin with and later.
LEMMA FirstPageSeen ==
  ASSUME dpName \in [ListIds -> ListNames \cup {None}],
         NEW items, NEW on, NEW before,
         IsPage(Paging!Keys, Paging!Null, FALSE, items, on, before)
  PROVE  /\ items \in Seq(Positions) /\ InOrder(items)
         /\ on # Paging!Null => \A k \in Rows(items) : ~Paging!Before(on, k)
         /\ \A i \in ListIds : dpName[i] # None =>
              \/ <<dpName[i], i>> \in Rows(items)
              \/ on # Paging!Null /\ Paging!Before(on, <<dpName[i], i>>)
<1> DEFINE keys == Paging!Keys
<1>1. keys \subseteq Positions
  BY KeysArePlaces
<1>2. items \in Seq(keys) /\ items \in Seq(Positions) /\ InOrder(items)
  BY <1>1 DEF IsPage
<1>3. on # Paging!Null => items # <<>> /\ on = items[Len(items)]
  BY DEF IsPage
<1>4. on # Paging!Null => \A k \in Rows(items) : ~Paging!Before(on, k)
  BY <1>2, <1>3, FirstAndLast
<1>5. ASSUME NEW k \in keys, k \notin Rows(items)
      PROVE  on # Paging!Null /\ Paging!Before(on, k)
  <2>1. on = items[Len(items)] /\ Paging!Before(items[Len(items)], k) /\ Len(items) = PageSize
    BY <1>5, BeyondMeans DEF IsPage
  <2>2. items # <<>>
    BY <2>1, PagingParameters, EmptySeq
  <2>3. on \in Positions
    BY <1>2, <2>1, <2>2, FirstAndLast
  <2> QED BY <2>1, <2>3, NullIsNoPlace
<1>6. \A i \in ListIds : dpName[i] # None => <<dpName[i], i>> \in keys
  BY DEF Paging!Keys
<1> HIDE DEF keys
<1> QED BY <1>2, <1>4, <1>5, <1>6

LEMMA PagingInitial == Paging!Init => PagingInv
<1> SUFFICES ASSUME Paging!Init PROVE PagingInv
  OBVIOUS
<1> DEFINE page == Paging!Page(Paging!Null, FALSE)
<1>1. dpName \in [ListIds -> ListNames \cup {None}]
  BY DEF Paging!Init
<1>2. /\ dpShown = page.items /\ dpNext = page.next /\ dpPrevious = page.previous /\ dpSeen = page.items
      /\ dpChanges = 0 /\ dpSteady = ListIds /\ dpStill = TRUE /\ dpFrom = Paging!Null
      /\ dpAsked = [token |-> Paging!Null, backwards |-> FALSE]
  BY DEF Paging!Init
<1>3. dpAsked.backwards = FALSE
  BY <1>2
<1>4. /\ IsPage(Paging!Keys, Paging!Null, FALSE, page.items, page.next, page.previous)
      /\ page.items \in Seq(Places) /\ Len(page.items) <= PageSize
      /\ page.next \in Places \cup {Paging!Null} /\ page.previous \in Places \cup {Paging!Null}
      /\ page.next # Paging!Null =>
           page.next = page.items[Len(page.items)] /\ RunTo(page.items, Paging!Keys)
  BY <1>1, PageTaken
<1> HIDE DEF page
<1>5. PagingTypes
  BY <1>1, <1>2, <1>3, <1>4, PagingParameters DEF PagingTypes
<1>6. /\ page.items \in Seq(Positions) /\ InOrder(page.items)
      /\ page.next # Paging!Null => \A k \in Rows(page.items) : ~Paging!Before(page.next, k)
      /\ \A i \in ListIds : dpName[i] # None =>
           \/ <<dpName[i], i>> \in Rows(page.items)
           \/ page.next # Paging!Null /\ Paging!Before(page.next, <<dpName[i], i>>)
  BY <1>1, <1>4, FirstPageSeen
<1>7. SeenInOrder
  BY <1>2, <1>6 DEF SeenInOrder
<1>8. SeenIsComplete
  BY <1>2, <1>6 DEF SeenIsComplete, SeenOrAhead
<1>9. WaysLead
  BY <1>2, <1>4 DEF WaysLead
<1> QED BY <1>5, <1>7, <1>8, <1>9 DEF PagingInv

\* A page is taken: the rows stay, and what is shown then is a page.
LEMMA Taken ==
  ASSUME PagingTypes, NEW token \in Places \cup {Paging!Null}, NEW back \in BOOLEAN,
         back => token # Paging!Null, Paging!Take(token, back)
  PROVE  /\ dpName' = dpName /\ Paging!Keys' = Paging!Keys /\ dpChanges' = dpChanges
         /\ dpStill' = TRUE /\ dpAsked'.backwards = back
         /\ dpShown' = Paging!Page(token, back).items
         /\ IsPage(Paging!Keys, token, back, dpShown', dpNext', dpPrevious')
         /\ dpShown' \in Seq(Places) /\ Len(dpShown') <= PageSize
         /\ dpNext' \in Places \cup {Paging!Null} /\ dpPrevious' \in Places \cup {Paging!Null}
         /\ dpNext' # Paging!Null =>
              dpNext' = dpShown'[Len(dpShown')] /\ RunTo(dpShown', Paging!Keys)
<1> DEFINE page == Paging!Page(token, back)
<1>1. /\ dpShown' = page.items /\ dpNext' = page.next /\ dpPrevious' = page.previous
      /\ dpAsked' = [token |-> token, backwards |-> back]
      /\ dpStill' = TRUE /\ dpName' = dpName /\ dpChanges' = dpChanges
  BY Zenon DEF Paging!Take
<1>2. dpAsked'.backwards = back
  BY <1>1
<1>3. Paging!Keys' = Paging!Keys
  BY <1>1 DEF Paging!Keys
<1>4. /\ IsPage(Paging!Keys, token, back, page.items, page.next, page.previous)
      /\ page.items \in Seq(Places) /\ Len(page.items) <= PageSize
      /\ page.next \in Places \cup {Paging!Null} /\ page.previous \in Places \cup {Paging!Null}
      /\ page.next # Paging!Null =>
           page.next = page.items[Len(page.items)] /\ RunTo(page.items, Paging!Keys)
  BY PageTaken DEF PagingTypes
<1> HIDE DEF page
<1> QED BY <1>1, <1>2, <1>3, <1>4 DEF page

\* What is in order before a token and what is in order beyond it.
LEMMA OrderGoesOn ==
  ASSUME NEW a \in Seq(Positions), NEW b \in Seq(Positions), NEW token \in Positions,
         InOrder(a), InOrder(b), \A k \in Rows(a) : ~Paging!Before(token, k),
         \A k \in Rows(b) : Paging!Before(token, k)
  PROVE  a \o b \in Seq(Positions) /\ InOrder(a \o b) /\ Rows(a \o b) = Rows(a) \cup Rows(b)
<1> DEFINE m == Len(a)
<1> DEFINE n == Len(b)
<1> DEFINE c == a \o b
<1>1. m \in Nat /\ n \in Nat
  BY LenProperties
<1>2. /\ c \in Seq(Positions) /\ Len(c) = m + n
      /\ \A i \in 1 .. m + n : c[i] = IF i <= m THEN a[i] ELSE b[i - m]
  BY ConcatProperties
<1> HIDE DEF c
<1>3. ASSUME NEW i \in 1 .. m + n, NEW j \in 1 .. m + n, i < j
      PROVE  Paging!Before(c[i], c[j])
  <2>1. CASE j <= m
    <3>0. i \in 1 .. m /\ j \in 1 .. m /\ i <= m
      BY <1>1, <1>3, <2>1
    <3>1. i \in 1 .. m /\ j \in 1 .. m /\ c[i] = a[i] /\ c[j] = a[j]
      BY <1>2, <2>1, <3>0
    <3> QED BY <1>3, <3>1 DEF InOrder
  <2>2. CASE i > m
    <3>1. i - m \in 1 .. n /\ j - m \in 1 .. n /\ i - m < j - m /\ c[i] = b[i - m] /\ c[j] = b[j - m]
      BY <1>1, <1>2, <1>3, <2>2
    <3> QED BY <3>1 DEF InOrder
  <2>3. CASE i <= m /\ j > m
    <3>1. i \in 1 .. m /\ j - m \in 1 .. n /\ c[i] = a[i] /\ c[j] = b[j - m]
      BY <1>1, <1>2, <1>3, <2>3
    <3>2. c[i] \in Positions /\ c[j] \in Positions /\ ~Paging!Before(token, c[i]) /\ Paging!Before(token, c[j])
      BY <3>1, ElementOfSeq DEF Rows
    <3> QED BY <3>2, PositionsOrdered
  <2> QED BY <1>1, <2>1, <2>2, <2>3
<1>4. InOrder(c)
  BY <1>2, <1>3 DEF InOrder
<1>5. Rows(c) = Rows(a) \cup Rows(b)
  <2>1. ASSUME NEW i \in 1 .. m + n PROVE c[i] \in Rows(a) \cup Rows(b)
    <3>1. i <= m => i \in 1 .. m
      BY <1>1
    <3>2. i > m => i - m \in 1 .. n
      BY <1>1
    <3> QED BY <1>1, <1>2, <3>1, <3>2 DEF Rows
  <2>2. ASSUME NEW i \in 1 .. m PROVE a[i] \in Rows(c)
    <3>0. i \in 1 .. m + n /\ i <= m
      BY <1>1
    <3>1. i \in 1 .. m + n /\ c[i] = a[i]
      BY <1>2, <3>0
    <3> QED BY <1>2, <3>1 DEF Rows
  <2>3. ASSUME NEW i \in 1 .. n PROVE b[i] \in Rows(c)
    <3>0. i + m \in 1 .. m + n /\ ~(i + m <= m) /\ (i + m) - m = i
      BY <1>1
    <3>1. i + m \in 1 .. m + n /\ c[i + m] = b[i]
      BY <1>2, <3>0
    <3> QED BY <1>2, <3>1 DEF Rows
  <2>4. Rows(c) \subseteq Rows(a) \cup Rows(b)
    BY <1>2, <2>1 DEF Rows
  <2>5. Rows(a) \subseteq Rows(c)
    BY <2>2 DEF Rows
  <2>6. Rows(b) \subseteq Rows(c)
    BY <2>3 DEF Rows
  <2> QED BY <2>4, <2>5, <2>6
<1> QED BY <1>2, <1>4, <1>5 DEF c

LEMMA FirstStep == PagingInv /\ Paging!First => PagingInv'
<1> SUFFICES ASSUME PagingInv, Paging!First PROVE PagingInv'
  OBVIOUS
<1>1. PagingTypes /\ Paging!Take(Paging!Null, FALSE)
  BY DEF PagingInv, Paging!First
<1>2. /\ dpName' = dpName /\ Paging!Keys' = Paging!Keys /\ dpChanges' = dpChanges
      /\ dpStill' = TRUE /\ dpAsked'.backwards = FALSE
      /\ dpShown' = Paging!Page(Paging!Null, FALSE).items
      /\ IsPage(Paging!Keys, Paging!Null, FALSE, dpShown', dpNext', dpPrevious')
      /\ dpShown' \in Seq(Places) /\ Len(dpShown') <= PageSize
      /\ dpNext' \in Places \cup {Paging!Null} /\ dpPrevious' \in Places \cup {Paging!Null}
      /\ dpNext' # Paging!Null =>
           dpNext' = dpShown'[Len(dpShown')] /\ RunTo(dpShown', Paging!Keys)
  BY <1>1, Taken
<1>3. dpSeen' = dpShown' /\ dpSteady' = ListIds /\ dpFrom' = Paging!Null
  BY <1>2 DEF Paging!First
<1>4. dpName \in [ListIds -> ListNames \cup {None}]
  BY <1>1 DEF PagingTypes
<1>5. PagingTypes'
  BY <1>1, <1>2, <1>3 DEF PagingTypes
<1>6. /\ dpShown' \in Seq(Positions) /\ InOrder(dpShown')
      /\ dpNext' # Paging!Null => \A k \in Rows(dpShown') : ~Paging!Before(dpNext', k)
      /\ \A i \in ListIds : dpName[i] # None =>
           \/ <<dpName[i], i>> \in Rows(dpShown')
           \/ dpNext' # Paging!Null /\ Paging!Before(dpNext', <<dpName[i], i>>)
  BY <1>2, <1>4, FirstPageSeen
<1>7. SeenInOrder'
  BY <1>3, <1>6 DEF SeenInOrder
<1>8. SeenIsComplete'
  BY <1>2, <1>3, <1>6 DEF SeenIsComplete, SeenOrAhead
<1>9. WaysLead'
  BY <1>2, <1>3 DEF WaysLead
<1> QED BY <1>5, <1>7, <1>8, <1>9 DEF PagingInv

LEMMA NextStep == PagingInv /\ Paging!Next_ => PagingInv'
<1> SUFFICES ASSUME PagingInv, Paging!Next_ PROVE PagingInv'
  OBVIOUS
<1> DEFINE keys == Paging!Keys
<1>1. /\ PagingTypes /\ SeenInOrder /\ SeenIsComplete /\ WaysLead
      /\ Paging!Take(dpNext, FALSE) /\ dpNext # Paging!Null
  BY DEF PagingInv, Paging!Next_
<1>2. dpName \in [ListIds -> ListNames \cup {None}] /\ dpNext \in Places /\ dpAsked.backwards \in BOOLEAN
  BY <1>1 DEF PagingTypes
<1>3. keys \subseteq Positions /\ dpNext \in Positions
  BY <1>2, KeysArePlaces
<1>4. /\ dpName' = dpName /\ Paging!Keys' = keys /\ dpChanges' = dpChanges
      /\ dpStill' = TRUE /\ dpAsked'.backwards = FALSE
      /\ dpShown' = Paging!Page(dpNext, FALSE).items
      /\ IsPage(keys, dpNext, FALSE, dpShown', dpNext', dpPrevious')
      /\ dpShown' \in Seq(Places) /\ Len(dpShown') <= PageSize
      /\ dpNext' \in Places \cup {Paging!Null} /\ dpPrevious' \in Places \cup {Paging!Null}
      /\ dpNext' # Paging!Null =>
           dpNext' = dpShown'[Len(dpShown')] /\ RunTo(dpShown', keys)
  BY <1>1, <1>2, Taken
<1>5. /\ dpSeen' = IF dpAsked.backwards THEN <<>> ELSE dpSeen \o dpShown'
      /\ dpSteady' = IF dpAsked.backwards THEN {} ELSE dpSteady
      /\ dpFrom' = IF dpStill THEN dpShown ELSE Paging!Null
  BY <1>4 DEF Paging!Next_
<1>6. PagingTypes'
  BY <1>1, <1>4, <1>5 DEF PagingTypes
<1> HIDE DEF keys
<1>7. /\ dpShown' \in Seq(Positions) /\ InOrder(dpShown')
      /\ \A k \in Rows(dpShown') : Paging!Before(dpNext, k)
  <2>1. dpShown' \in Seq(keys) /\ InOrder(dpShown') /\ \A k \in Rows(dpShown') : Paging!Beyond(k, dpNext, FALSE)
    BY <1>4 DEF IsPage
  <2>2. dpShown' \in Seq(Positions)
    BY <1>3, <2>1
  <2> QED BY <1>1, <2>1, <2>2, BeyondMeans
<1>8. /\ dpNext' # Paging!Null =>
           /\ dpShown' # <<>> /\ dpNext' \in Positions /\ Paging!Before(dpNext, dpNext')
           /\ \A k \in Rows(dpShown') : ~Paging!Before(dpNext', k)
  <2>1. dpNext' # Paging!Null => dpShown' # <<>> /\ dpNext' = dpShown'[Len(dpShown')]
    BY <1>4 DEF IsPage
  <2> QED BY <1>7, <2>1, FirstAndLast
<1>9. ASSUME dpAsked.backwards PROVE SeenInOrder' /\ SeenIsComplete'
  <2>1. dpSeen' = <<>> /\ dpSteady' = {}
    BY <1>5, <1>9
  <2>2. <<>> \in Seq(Positions) /\ InOrder(<<>>) /\ Rows(<<>>) = {}
    BY EmptySeq DEF InOrder, Rows
  <2>3. SeenInOrder'
    BY <2>1, <2>2 DEF SeenInOrder
  <2>4. SeenIsComplete'
    BY <2>1 DEF SeenIsComplete
  <2> QED BY <2>3, <2>4
<1>10. ASSUME ~dpAsked.backwards PROVE SeenInOrder' /\ SeenIsComplete'
  <2>1. dpSeen' = dpSeen \o dpShown' /\ dpSteady' = dpSteady
    BY <1>5, <1>10
  <2>2. /\ dpSeen \in Seq(Positions) /\ InOrder(dpSeen)
        /\ \A k \in Rows(dpSeen) : k \in Positions /\ ~Paging!Before(dpNext, k)
    BY <1>1, <1>10, ElementOfSeq DEF SeenInOrder, Rows
  <2>3. /\ dpSeen' \in Seq(Positions) /\ InOrder(dpSeen')
        /\ Rows(dpSeen') = Rows(dpSeen) \cup Rows(dpShown')
    BY <1>3, <1>7, <2>1, <2>2, OrderGoesOn
  <2>4. dpNext' # Paging!Null => \A k \in Rows(dpSeen') : ~Paging!Before(dpNext', k)
    <3> SUFFICES ASSUME dpNext' # Paging!Null, NEW k \in Rows(dpSeen), Paging!Before(dpNext', k)
                 PROVE  FALSE
      BY <1>8, <2>3
    <3> QED BY <1>3, <1>8, <2>2, PositionsOrdered
  <2>5. SeenInOrder'
    BY <2>3, <2>4 DEF SeenInOrder
  <2>6. ASSUME NEW i \in dpSteady, dpName[i] # None
        PROVE  \/ <<dpName[i], i>> \in Rows(dpSeen')
               \/ dpNext' # Paging!Null /\ Paging!Before(dpNext', <<dpName[i], i>>)
    <3> DEFINE k == <<dpName[i], i>>
    <3>1. k \in keys
      <4>1. i \in ListIds
        BY <1>1 DEF PagingTypes
      <4> QED BY <2>6, <4>1 DEF Paging!Keys, keys
    <3>2. k \in Rows(dpSeen) \/ Paging!Before(dpNext, k)
      BY <1>1, <1>10, <2>6 DEF SeenIsComplete, SeenOrAhead
    <3> HIDE DEF k
    <3>3. ASSUME Paging!Before(dpNext, k), k \notin Rows(dpShown')
          PROVE  dpNext' # Paging!Null /\ Paging!Before(dpNext', k)
      <4>1. Paging!Beyond(k, dpNext, FALSE)
        BY <1>1, <3>3, BeyondMeans
      <4>2. Len(dpShown') = PageSize /\ dpNext' = dpShown'[Len(dpShown')] /\ Paging!Before(dpNext', k)
        BY <1>4, <3>1, <3>3, <4>1 DEF IsPage
      <4>3. dpShown' # <<>>
        BY <4>2, PagingParameters, EmptySeq
      <4>4. dpNext' \in Positions
        BY <1>7, <4>2, <4>3, FirstAndLast
      <4> QED BY <4>2, <4>4, NullIsNoPlace
    <3>4. k \in Rows(dpSeen') \/ (dpNext' # Paging!Null /\ Paging!Before(dpNext', k))
      BY <2>3, <3>2, <3>3
    <3> QED BY <3>4 DEF k
  <2>7. SeenIsComplete'
    BY <1>4, <2>1, <2>6 DEF SeenIsComplete, SeenOrAhead
  <2> QED BY <2>5, <2>7
<1>11. WaysLead'
  <2>1. ASSUME dpFrom' # Paging!Null
        PROVE  /\ RunTo(dpFrom', keys)
               /\ dpShown' # <<>> =>
                    /\ dpPrevious' # Paging!Null
                    /\ \A k \in keys :
                         Paging!Before(k, dpPrevious') <=> ~Paging!Before(dpFrom'[Len(dpFrom')], k)
    <3>1. dpStill /\ dpFrom' = dpShown
      BY <1>5, <2>1
    <3>2. dpNext = dpShown[Len(dpShown)] /\ RunTo(dpShown, keys)
      BY <1>1, <3>1 DEF WaysLead, keys
    <3>3. ASSUME dpShown' # <<>>
          PROVE  /\ dpPrevious' = dpShown'[1] /\ dpPrevious' \in Positions
                 /\ \A k \in keys : Paging!Before(k, dpShown'[1]) <=> ~Paging!Before(dpNext, k)
      <4>1. IsPage(keys, dpNext, FALSE, dpShown', dpNext', dpPrevious')
        BY <1>4
      <4> QED BY <1>1, <1>3, <3>3, <4>1, PagesFollow, Zenon
    <3> QED BY <3>1, <3>2, <3>3, NullIsNoPlace
  <2>2. dpNext' # Paging!Null => dpNext' = dpShown'[Len(dpShown')] /\ RunTo(dpShown', keys)
    BY <1>4
  <2> QED BY <1>4, <2>1, <2>2 DEF WaysLead
<1> QED BY <1>6, <1>9, <1>10, <1>11 DEF PagingInv

LEMMA PreviousStep == PagingInv /\ Paging!Previous => PagingInv'
<1> SUFFICES ASSUME PagingInv, Paging!Previous PROVE PagingInv'
  OBVIOUS
<1>1. PagingTypes /\ Paging!Take(dpPrevious, TRUE) /\ dpPrevious # Paging!Null
  BY DEF PagingInv, Paging!Previous
<1>2. dpPrevious \in Places \cup {Paging!Null}
  BY <1>1 DEF PagingTypes
<1>3. /\ dpName' = dpName /\ Paging!Keys' = Paging!Keys /\ dpChanges' = dpChanges
      /\ dpStill' = TRUE /\ dpAsked'.backwards = TRUE
      /\ dpShown' \in Seq(Places) /\ Len(dpShown') <= PageSize
      /\ dpNext' \in Places \cup {Paging!Null} /\ dpPrevious' \in Places \cup {Paging!Null}
      /\ dpNext' # Paging!Null =>
           dpNext' = dpShown'[Len(dpShown')] /\ RunTo(dpShown', Paging!Keys)
  BY <1>1, <1>2, Taken
<1>4. dpSeen' = <<>> /\ dpSteady' = {} /\ dpFrom' = Paging!Null
  BY DEF Paging!Previous
<1>5. PagingTypes'
  BY <1>1, <1>3, <1>4 DEF PagingTypes
<1>6. <<>> \in Seq(Positions) /\ InOrder(<<>>) /\ Rows(<<>>) = {}
  BY EmptySeq DEF InOrder, Rows
<1>7. SeenInOrder' /\ SeenIsComplete'
  BY <1>3, <1>4, <1>6 DEF SeenInOrder, SeenIsComplete
<1>8. WaysLead'
  BY <1>3, <1>4 DEF WaysLead
<1> QED BY <1>5, <1>7, <1>8 DEF PagingInv

LEMMA ChangeStep == PagingInv /\ (\E i \in ListIds : Paging!Change(i)) => PagingInv'
<1> SUFFICES ASSUME PagingInv, NEW i \in ListIds, Paging!Change(i) PROVE PagingInv'
  OBVIOUS
<1>1. PICK n \in (ListNames \cup {None}) \ {dpName[i]} : dpName' = [dpName EXCEPT ![i] = n]
  BY DEF Paging!Change
<1>2. /\ PagingTypes /\ SeenInOrder /\ SeenIsComplete
  BY DEF PagingInv
<1>3. /\ dpChanges < ListChanges /\ dpChanges' = dpChanges + 1
      /\ dpSteady' = dpSteady \ {i} /\ dpStill' = FALSE /\ dpFrom' = Paging!Null
      /\ dpShown' = dpShown /\ dpNext' = dpNext /\ dpPrevious' = dpPrevious
      /\ dpSeen' = dpSeen /\ dpAsked' = dpAsked
  BY DEF Paging!Change
<1>4. PagingTypes'
  <2>1. dpName' \in [ListIds -> ListNames \cup {None}]
    BY <1>1, <1>2 DEF PagingTypes
  <2>2. dpChanges' \in 0 .. ListChanges
    BY <1>2, <1>3, PagingParameters DEF PagingTypes
  <2> QED BY <1>2, <1>3, <2>1, <2>2 DEF PagingTypes
<1>5. SeenInOrder'
  BY <1>2, <1>3 DEF SeenInOrder
<1>6. SeenIsComplete'
  <2>1. \A j \in dpSteady \ {i} : dpName'[j] = dpName[j]
    BY <1>1, <1>2 DEF PagingTypes
  <2> QED BY <1>2, <1>3, <2>1 DEF SeenIsComplete, SeenOrAhead
<1>7. WaysLead'
  BY <1>3 DEF WaysLead
<1> QED BY <1>4, <1>5, <1>6, <1>7 DEF PagingInv

LEMMA PagingStep == PagingInv /\ [Paging!Next]_pagingVars => PagingInv'
<1> SUFFICES ASSUME PagingInv, [Paging!Next]_pagingVars PROVE PagingInv'
  OBVIOUS
<1>1. CASE Paging!Next
  BY <1>1, FirstStep, NextStep, PreviousStep, ChangeStep, Zenon DEF Paging!Next
<1>2. CASE UNCHANGED pagingVars
  BY <1>2 DEF pagingVars, PagingInv, PagingTypes, SeenInOrder, SeenIsComplete, SeenOrAhead, WaysLead,
     Paging!Keys
<1> QED BY <1>1, <1>2

LEMMA PagingLives == [BrowserNext]_browserVars => [Paging!Next]_pagingVars
BY DEF BrowserNext, OthersStill, browserVars

\* docs/directory-contract.md: the pages of a directory and the walk through them,
\* as PagingInv says, in every state.
THEOREM PagingHolds == BrowserSpec => []PagingInv
<1>1. BrowserInit => PagingInv
  BY PagingInitial DEF BrowserInit
<1>2. PagingInv /\ [BrowserNext]_browserVars => PagingInv'
  BY PagingLives, PagingStep
<1> QED BY <1>1, <1>2, PTL DEF BrowserSpec

\* A page is a run of the directory with ways on at both ends.
LEMMA PagesShowRuns ==
  ASSUME NEW keys, keys \subseteq Positions, NEW token \in Positions \cup {Paging!Null},
         NEW back \in BOOLEAN, back => token # Paging!Null, NEW items, NEW on, NEW before,
         IsPage(keys, token, back, items, on, before), items # <<>>
  PROVE  /\ Rows(items) = {k \in keys : ~Paging!Before(k, items[1]) /\ ~Paging!Before(items[Len(items)], k)}
         /\ \A j \in 1 .. Len(items) - 1 : Paging!Before(items[j], items[j + 1])
         /\ (\E k \in keys : Paging!Before(items[Len(items)], k)) => on # Paging!Null
         /\ (\E k \in keys : Paging!Before(k, items[1])) => before # Paging!Null
<1> DEFINE first == items[1]
<1> DEFINE last == items[Len(items)]
<1>1. items \in Seq(keys) /\ items \in Seq(Positions) /\ InOrder(items)
  BY DEF IsPage
<1>2. /\ first \in Positions /\ last \in Positions /\ Len(items) \in Nat \ {0}
      /\ first \in Rows(items) /\ last \in Rows(items)
      /\ \A k \in Rows(items) : k \in keys /\ ~Paging!Before(k, first) /\ ~Paging!Before(last, k)
  BY <1>1, FirstAndLast, ElementOfSeq DEF Rows
<1>3. Paging!Beyond(first, token, back) /\ Paging!Beyond(last, token, back)
  BY <1>2 DEF IsPage
<1>4. /\ before \in {Paging!Null, first} /\ (back => on # Paging!Null)
      /\ ~back /\ token # Paging!Null => before = first
      /\ on # Paging!Null => on = last
  BY DEF IsPage
<1>5. \A k \in keys : Paging!Beyond(k, token, back) =>
        \/ k \in Rows(items)
        \/ /\ back => before = first /\ Paging!Before(k, first)
           /\ ~back => on = last /\ Paging!Before(last, k)
  BY DEF IsPage
<1>6. first # Paging!Null /\ last # Paging!Null
  BY <1>2, NullIsNoPlace
<1> HIDE DEF first, last
<1>7. ASSUME NEW k \in keys, ~Paging!Before(k, first), ~Paging!Before(last, k)
      PROVE  k \in Rows(items)
  <2>0. k \in Positions
    OBVIOUS
  <2>1. Paging!Beyond(k, token, back)
    <3>1. CASE token = Paging!Null
      BY <3>1 DEF Paging!Beyond
    <3>2. CASE token # Paging!Null /\ back
      <4>1. Paging!Before(last, token) /\ token \in Positions
        BY <1>3, <3>2, BeyondMeans
      <4>2. Paging!Before(k, token)
        BY <1>2, <1>7, <2>0, <4>1, PositionsOrdered
      <4> QED BY <3>2, <4>2, BeyondMeans
    <3>3. CASE token # Paging!Null /\ ~back
      <4>1. Paging!Before(token, first) /\ token \in Positions
        BY <1>3, <3>3, BeyondMeans
      <4>2. Paging!Before(token, k)
        BY <1>2, <1>7, <2>0, <4>1, PositionsOrdered
      <4> QED BY <3>3, <4>2, BeyondMeans
    <3> QED BY <3>1, <3>2, <3>3
  <2> QED BY <1>5, <1>7, <2>1
<1>8. ASSUME NEW j \in 1 .. Len(items) - 1 PROVE Paging!Before(items[j], items[j + 1])
  <2>1. j \in 1 .. Len(items) /\ j + 1 \in 1 .. Len(items) /\ j < j + 1
    BY <1>2
  <2> QED BY <1>1, <2>1 DEF InOrder
<1>9. ASSUME NEW k \in keys, Paging!Before(last, k), ~back PROVE on # Paging!Null
  <2>0. k \in Positions
    OBVIOUS
  <2>1. Paging!Beyond(k, token, back)
    <3>1. CASE token = Paging!Null
      BY <3>1 DEF Paging!Beyond
    <3>2. CASE token # Paging!Null
      <4>1. Paging!Before(token, last) /\ token \in Positions
        BY <1>3, <1>9, <3>2, BeyondMeans
      <4>2. Paging!Before(token, k)
        BY <1>2, <1>9, <2>0, <4>1, PositionsOrdered
      <4> QED BY <1>9, <3>2, <4>2, BeyondMeans
    <3> QED BY <3>1, <3>2
  <2> QED BY <1>2, <1>5, <1>6, <1>9, <2>1
<1>10. ASSUME NEW k \in keys, Paging!Before(k, first) PROVE before # Paging!Null
  <2>0. k \in Positions /\ k \notin Rows(items)
    BY <1>2, <1>10
  <2>1. CASE back
    <3>1. Paging!Before(first, token) /\ token \in Positions
      BY <1>3, <2>1, BeyondMeans
    <3>2. Paging!Before(k, token)
      BY <1>2, <1>10, <2>0, <3>1, PositionsOrdered
    <3>3. Paging!Beyond(k, token, back)
      BY <2>1, <3>2, BeyondMeans
    <3> QED BY <1>5, <1>6, <2>0, <2>1, <3>3
  <2>2. CASE ~back /\ token # Paging!Null
    BY <1>4, <1>6, <2>2
  <2>3. CASE ~back /\ token = Paging!Null
    <3>1. Paging!Beyond(k, token, back)
      BY <2>3 DEF Paging!Beyond
    <3>2. Paging!Before(last, k)
      BY <1>5, <2>0, <2>3, <3>1
    <3>3. ~Paging!Before(last, first)
      BY <1>2
    <3> QED BY <1>2, <1>10, <2>0, <3>2, <3>3, PositionsOrdered
  <2> QED BY <2>1, <2>2, <2>3
<1>11. Rows(items) = {k \in keys : ~Paging!Before(k, first) /\ ~Paging!Before(last, k)}
  BY <1>2, <1>7
<1> QED BY <1>4, <1>8, <1>9, <1>10, <1>11 DEF first, last

\* Every page a step shows is one from the rows there are.
LEMMA StepsShowRuns ==
  ASSUME PagingTypes, NEW token \in Places \cup {Paging!Null}, NEW back \in BOOLEAN,
         back => token # Paging!Null, Paging!Take(token, back), dpShown' # <<>>
  PROVE  /\ Rows(dpShown') = {k \in Paging!Keys : ~Paging!Before(k, dpShown'[1])
                                                  /\ ~Paging!Before(dpShown'[Len(dpShown')], k)}
         /\ \A j \in 1 .. Len(dpShown') - 1 : Paging!Before(dpShown'[j], dpShown'[j + 1])
         /\ (\E k \in Paging!Keys : Paging!Before(dpShown'[Len(dpShown')], k)) => dpNext' # Paging!Null
         /\ (\E k \in Paging!Keys : Paging!Before(k, dpShown'[1])) => dpPrevious' # Paging!Null
<1>1. Paging!Keys \subseteq Positions /\ Places \subseteq Positions
  BY KeysArePlaces DEF PagingTypes
<1>2. IsPage(Paging!Keys, token, back, dpShown', dpNext', dpPrevious')
  BY Taken
<1>3. token \in Positions \cup {Paging!Null}
  BY <1>1
<1> DEFINE items == dpShown'
<1> DEFINE keys == Paging!Keys
<1>4. items # <<>>
  OBVIOUS
<1> HIDE DEF items, keys
<1>5. IsPage(keys, token, back, items, dpNext', dpPrevious') /\ keys \subseteq Positions
  BY <1>1, <1>2 DEF items, keys
<1>6. /\ Rows(items) = {k \in keys : ~Paging!Before(k, items[1]) /\ ~Paging!Before(items[Len(items)], k)}
      /\ \A j \in 1 .. Len(items) - 1 : Paging!Before(items[j], items[j + 1])
      /\ (\E k \in keys : Paging!Before(items[Len(items)], k)) => dpNext' # Paging!Null
      /\ (\E k \in keys : Paging!Before(k, items[1])) => dpPrevious' # Paging!Null
  BY <1>3, <1>4, <1>5, PagesShowRuns
<1> QED BY <1>6 DEF items, keys

\* sendDirectory and its cursors: a walk to the last page shows every row that has
\* not changed, none twice; a page leaves out no row between two of its own and has
\* a way on wherever the directory goes on; and one page on and one back is where one
\* was.
THEOREM PagesLeadOnAndBack == BrowserSpec => PagesLeadThrough
<1>1. PagingInv => Paging!WalkIsComplete
  <2> SUFFICES ASSUME PagingInv PROVE Paging!WalkIsComplete
    OBVIOUS
  <2>1. \A j, k \in 1 .. Len(dpSeen) : j < k => Paging!Before(dpSeen[j], dpSeen[k])
    BY DEF PagingInv, SeenInOrder, InOrder
  <2>2. dpNext = Paging!Null /\ ~dpAsked.backwards =>
          \A i \in dpSteady : dpName[i] # None => \E j \in 1 .. Len(dpSeen) : dpSeen[j] = <<dpName[i], i>>
    BY DEF PagingInv, SeenIsComplete, SeenOrAhead, Rows
  <2> QED BY <2>1, <2>2 DEF Paging!WalkIsComplete
<1>2. PagingInv /\ [BrowserNext]_browserVars
      => [dpAsked' # dpAsked \/ dpShown' # dpShown =>
            LET inside(k) == ~Paging!Before(k, dpShown'[1]) /\ ~Paging!Before(dpShown'[Len(dpShown')], k)
            IN  dpShown' # <<>> =>
                  /\ {dpShown'[j] : j \in 1 .. Len(dpShown')} = {k \in Paging!Keys : inside(k)}
                  /\ \A j \in 1 .. Len(dpShown') - 1 : Paging!Before(dpShown'[j], dpShown'[j + 1])
                  /\ (\E k \in Paging!Keys : Paging!Before(dpShown'[Len(dpShown')], k)) => dpNext' # Paging!Null
                  /\ (\E k \in Paging!Keys : Paging!Before(k, dpShown'[1])) => dpPrevious' # Paging!Null
         ]_(Paging!vars)
  <2> SUFFICES ASSUME PagingTypes, Paging!Next, dpAsked' # dpAsked \/ dpShown' # dpShown, dpShown' # <<>>
               PROVE
                  /\ Rows(dpShown') = {k \in Paging!Keys : ~Paging!Before(k, dpShown'[1])
                                                          /\ ~Paging!Before(dpShown'[Len(dpShown')], k)}
                  /\ \A j \in 1 .. Len(dpShown') - 1 : Paging!Before(dpShown'[j], dpShown'[j + 1])
                  /\ (\E k \in Paging!Keys : Paging!Before(dpShown'[Len(dpShown')], k)) => dpNext' # Paging!Null
                  /\ (\E k \in Paging!Keys : Paging!Before(k, dpShown'[1])) => dpPrevious' # Paging!Null
    BY PagingLives DEF pagingVars, Paging!vars, PagingInv, Rows
  <2>1. dpNext \in Places \cup {Paging!Null} /\ dpPrevious \in Places \cup {Paging!Null}
    BY DEF PagingTypes
  <2>2. ~\E i \in ListIds : Paging!Change(i)
    BY DEF Paging!Change
  <2>3. CASE Paging!First
    <3>1. Paging!Take(Paging!Null, FALSE)
      BY <2>3 DEF Paging!First
    <3> QED BY <3>1, StepsShowRuns
  <2>4. CASE Paging!Next_
    <3>1. Paging!Take(dpNext, FALSE)
      BY <2>4 DEF Paging!Next_
    <3> QED BY <2>1, <3>1, StepsShowRuns
  <2>5. CASE Paging!Previous
    <3>1. Paging!Take(dpPrevious, TRUE) /\ dpPrevious # Paging!Null
      BY <2>5 DEF Paging!Previous
    <3> QED BY <2>1, <3>1, StepsShowRuns
  <2> QED BY <2>2, <2>3, <2>4, <2>5 DEF Paging!Next
<1>3. PagingInv /\ [BrowserNext]_browserVars
      => [Paging!Previous /\ dpFrom # Paging!Null /\ dpShown # <<>> => dpShown' = dpFrom]_(Paging!vars)
  <2> SUFFICES ASSUME PagingInv, Paging!Previous, dpFrom # Paging!Null, dpShown # <<>>
               PROVE  dpShown' = dpFrom
    BY DEF Paging!vars
  <2>1. PagingTypes /\ dpPrevious \in Places \cup {Paging!Null}
    BY DEF PagingInv, PagingTypes
  <2>2. Paging!Take(dpPrevious, TRUE) /\ dpPrevious # Paging!Null
    BY DEF Paging!Previous
  <2>3. IsPage(Paging!Keys, dpPrevious, TRUE, dpShown', dpNext', dpPrevious')
    BY <2>1, <2>2, Taken
  <2>4. Paging!Keys \subseteq Positions /\ dpPrevious \in Positions
    BY <2>1, <2>2, KeysArePlaces DEF PagingTypes
  <2>5. /\ RunTo(dpFrom, Paging!Keys)
        /\ \A k \in Paging!Keys :
             Paging!Before(k, dpPrevious) <=> ~Paging!Before(dpFrom[Len(dpFrom)], k)
    BY DEF PagingInv, WaysLead
  <2> QED BY <2>2, <2>3, <2>4, <2>5, PagesReturn, Zenon
<1> QED BY <1>1, <1>2, <1>3, PagingHolds, PTL
        DEF PagesLeadThrough, Paging!PagesAreRuns, Paging!BackAgain, BrowserSpec

-----------------------------------------------------------------------------
(* The types of all parts *)

LEMMA ClientTypesFollow == ClientInv => Client!TypeOK
<1> SUFFICES ASSUME ClientInv PROVE Client!TypeOK
  OBVIOUS
<1>1. ClientTypes
  BY DEF ClientInv
<1>2. csCsrfToken \in 0 .. csToken /\ csCsrf \in [stage : {"none", "sent", "answered"}, token : 0 .. csToken]
  <2>1. csToken \in Nat /\ csCsrfToken \in Nat /\ csCsrfToken <= csToken
    BY <1>1 DEF ClientTypes
  <2>2. csCsrf \in [stage : {"none", "sent", "answered"}, token : Nat] /\ csCsrf.token <= csToken
    BY <1>1 DEF ClientTypes
  <2>3. csCsrf.token \in 0 .. csToken
    BY <2>1, <2>2
  <2>4. csCsrf = [stage |-> csCsrf.stage, token |-> csCsrf.token] /\ csCsrf.stage \in {"none", "sent", "answered"}
    BY <2>2
  <2> QED BY <2>1, <2>3, <2>4
<1>3. csCalls \in [Client!Calls -> [kind : Client!Kinds, who : Accounts \cup {Nobody},
        stage : {"idle", "token", "sent", "answered", "ended", "cancelled"},
        token : 0 .. csToken, retried : BOOLEAN, stale : BOOLEAN, answer : Client!Answers]]
  <2> DEFINE R == [kind : Client!Kinds, who : Accounts \cup {Nobody},
        stage : {"idle", "token", "sent", "answered", "ended", "cancelled"},
        token : 0 .. csToken, retried : BOOLEAN, stale : BOOLEAN, answer : Client!Answers]
  <2>1. csToken \in Nat /\ csCalls \in [Client!Calls -> CallRecord]
    BY <1>1 DEF ClientTypes
  <2>2. \A c \in Client!Calls : csCalls[c].token <= csToken
    BY <1>1 DEF ClientTypes
  <2>3. \A x \in CallRecord : x.token <= csToken => x \in R
    <3> TAKE x \in CallRecord
    <3> HAVE x.token <= csToken
    <3>1. x.token \in 0 .. csToken
      BY <2>1 DEF CallRecord
    <3> QED BY <3>1 DEF CallRecord
  <2> HIDE DEF R
  <2>4. \A c \in Client!Calls : csCalls[c] \in R
    BY <2>1, <2>2, <2>3
  <2>5. csCalls \in [Client!Calls -> R]
    BY <2>1, <2>4
  <2> QED BY <2>5 DEF R
<1>4. /\ {csSession, csShown} \subseteq Accounts \cup {Nobody} /\ csToken \in Nat
      /\ csTabs \in 0 .. OtherTabs /\ csLost \in 0 .. ClientLosses
      /\ csExecuted \in [PageWrites -> Nat] /\ csSignedOut \in BOOLEAN
  BY <1>1 DEF ClientTypes
<1> QED BY <1>2, <1>3, <1>4 DEF Client!TypeOK

LEMMA ViewTypesFollow == ViewInv => View!TypeOK
<1> SUFFICES ASSUME ViewInv PROVE View!TypeOK
  OBVIOUS
<1>1. dvCurrent \in [q : Queries, cursor : Queries \cup {View!Null}]
  BY DEF ViewInv, ViewTypes, Params
<1>2. dvLoading \in BOOLEAN /\ (dvLoading <=> dvLatest # 0 /\ dvLoads[dvLatest].sent)
  BY DEF ViewInv, ViewTypes, OfTheSession
<1>3. dvLatest # 0 => dvLoads[dvLatest].sent \in BOOLEAN
  <2>1. dvLoads \in Seq(PageLoad) /\ (dvLatest # 0 => dvLatest \in 1 .. Len(dvLoads))
    BY DEF ViewInv, ViewTypes
  <2>2. dvLatest # 0 => dvLoads[dvLatest] \in PageLoad
    BY <2>1, ElementOfSeq
  <2> QED BY <2>2 DEF PageLoad
<1>4. dvLoading = (dvLatest # 0 /\ dvLoads[dvLatest].sent)
  BY <1>2, <1>3
<1> QED BY <1>1, <1>4 DEF ViewInv, ViewTypes, View!TypeOK

LEMMA DraftTypesFollow == DraftInv => Draft!TypeOK
<1> SUFFICES ASSUME DraftInv PROVE Draft!TypeOK
  OBVIOUS
<1>1. DraftTypes
  BY DEF DraftInv
<1>2. {pdServer, pdShown} \subseteq [name : ProfileNames, email : Addresses]
  BY <1>1 DEF DraftTypes, Account
<1>3. pdEditing \in BOOLEAN /\ (pdDraft = None <=> ~pdEditing)
  BY <1>1 DEF DraftTypes
<1>4. (pdDraft = None) = ~pdEditing
  BY <1>3
<1>5. \A f \in Draft!Forms : pdCalls[f].stage \in {"idle", "sent", "executed"}
  BY <1>1 DEF DraftTypes, FormCall
<1> QED BY <1>1, <1>2, <1>4, <1>5 DEF DraftTypes, Draft!TypeOK

LEMMA AdminTypesFollow == AdminInv => Page!TypeOK
<1> SUFFICES ASSUME AdminInv PROVE Page!TypeOK
  OBVIOUS
<1>1. AdminTypes
  BY DEF AdminInv
<1>2. apAction.call \in AdminCall /\ apProfile \in AdminCall /\ apAction.kind \in Page!Kinds
  BY <1>1 DEF AdminTypes, AdminAction
<1>3. \A call \in {apAction.call, apProfile} :
        /\ call.stage \in {"none", "sent", "answered", "refreshing"}
        /\ call.stale \in BOOLEAN
        /\ call.answer \in {"none", "ok", "denied", "lost", "manager", "plain"}
  BY <1>2 DEF AdminCall
<1> QED BY <1>1, <1>2, <1>3 DEF AdminTypes, Page!TypeOK

LEMMA PagingTypesFollow == PagingInv => Paging!TypeOK
  BY DEF PagingInv, PagingTypes, Places, Paging!TypeOK

\* The types of the variables of every part of a browser, in every state.
THEOREM BrowserTyped == BrowserSpec => []BrowserTypeOK
<1>1. ClientInv /\ ViewInv /\ DraftInv /\ AdminInv /\ PagingInv => BrowserTypeOK
  BY ClientTypesFollow, ViewTypesFollow, DraftTypesFollow, AdminTypesFollow, PagingTypesFollow DEF BrowserTypeOK
<1> QED BY <1>1, ClientHolds, ViewHolds, DraftHolds, AdminHolds, PagingHolds, PTL
=============================================================================
