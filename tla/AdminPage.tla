-------------------------------- MODULE AdminPage --------------------------------
(***************************************************************************)
(* The page of an administrator, components/AdminProfile.vue: its actions  *)
(* on other accounts one at a time, the draft of a new administrator, the  *)
(* three directories it refreshes, and beside them the form of the         *)
(* administrator's own profile (useEditable.ts), which reads the same      *)
(* privilege back.  What one directory does by itself, its own searches    *)
(* included, is DirectoryView.                                             *)
(*                                                                         *)
(* A directory is known by how many of the changes the page made in it it  *)
(* shows.  `stale` says that sessionRevision moved on since the call.      *)
(***************************************************************************)
EXTENDS Naturals, Sequences

CONSTANTS
  Actions,    \* bound: actions begun
  Edits,      \* bound: drafts typed
  Elsewhere,  \* bound: changes of the session or the privilege by others
  Losses      \* bound: answers that never come

PageAssumption == {Actions, Edits, Elsewhere, Losses} \subseteq Nat

VARIABLES
  manager,    \* editAdmins of the account, at the server
  session,    \* whether the server still takes the session
  shown,      \* currentAdmin.editAdmins
  draft,      \* newAdmin: a number for what was typed, 0 for emptyAdmin
  action,     \* the action that is pending
  profile,    \* the save of the own profile
  listed,     \* the changes each directory shows
  loads,      \* its load that counts
  altered,    \* ghost: the changes made in it by actions of the page
  created,    \* ghost: the drafts of which the server made accounts
  begun, typed, others, lost   \* what the bounds count

page == <<shown, draft, action, profile, listed, loads>>
counts == <<begun, typed, others, lost>>
vars == <<manager, session, page, altered, created, counts>>

Directories == {"admins", "tutors", "users"}
\* peer: removeAdmin(), and setAdminManager() for another; own: for oneself.
Kinds == {"create", "peer", "own", "status", "removeTutor", "removeUser"}

\* The directory an action changes.
Changes(kind) ==
  CASE kind \in {"status", "removeTutor"} -> "tutors"
    [] kind = "removeUser" -> "users"
    [] OTHER -> "admins"

NoCall == [stage |-> "none", stale |-> FALSE, answer |-> "none"]
NoAction == [call |-> NoCall, kind |-> "create", rest |-> <<>>]
Sent == [NoCall EXCEPT !.stage = "sent"]
\* seen: the changes the answer shows; awaited: by the action.
Load(awaited) == [stage |-> "sent", seen |-> 0, awaited |-> awaited]
NoLoad == [stage |-> "none", seen |-> 0, awaited |-> FALSE]

\* The page is mounted, and its directories have been loaded.
Init ==
  /\ manager \in BOOLEAN /\ shown = manager /\ session = TRUE
  /\ draft = 0 /\ action = NoAction /\ profile = NoCall
  /\ listed = [d \in Directories |-> 0] /\ altered = listed
  /\ loads = [d \in Directories |-> NoLoad]
  /\ created = {}
  /\ begun = 0 /\ typed = 0 /\ others = 0 /\ lost = 0

actionPending == action.call.stage # "none"

-----------------------------------------------------------------------------
(* Faulty variants of the operators below, each the code after a plausible   *)
(* slip; no specification uses them, they show what the properties detect.   *)

\* The inputs of the draft enabled while an action is pending.
FillableAlways == shown
\* The draft kept by the watcher of the privilege.
HiddenKept(allowed) == draft
\* The administrators refreshed after any action.
RefreshesAdmins(kind) == <<"admins">>
\* actionPending reset on success only.
OverAtSuccess(answer) == IF answer = "ok" THEN NoAction ELSE [action EXCEPT !.call.stage = "failed"]
\* The privilege set without invalidateSessionReads().
OutdatedNever(call) == call

-----------------------------------------------------------------------------
(* The administrator *)

\* The form is displayed to a manager, and disabled by actionPending.
Fillable == shown /\ ~actionPending

Type ==
  /\ Fillable /\ typed < Edits
  /\ typed' = typed + 1
  /\ draft' = typed'
  /\ UNCHANGED <<manager, session, shown, action, profile, listed, loads, altered, created, begun, others, lost>>

\* The buttons displayed: all but the removal of users are for managers, and the
\* inputs of the draft are required.
Offered(kind) == (kind # "removeUser" => shown) /\ (kind = "create" => draft # 0)

Begin(kind) ==
  /\ ~actionPending /\ begun < Actions
  /\ Offered(kind)
  /\ begun' = begun + 1
  /\ action' = [call |-> Sent, kind |-> kind, rest |-> <<>>]
  /\ UNCHANGED <<manager, session, shown, draft, profile, listed, loads, altered, created, typed, others, lost>>

SaveProfile ==
  /\ profile.stage = "none"
  /\ profile' = Sent
  /\ UNCHANGED <<manager, session, shown, draft, action, listed, loads, altered, created, counts>>

-----------------------------------------------------------------------------
(* The server *)

Allowed(kind) == session /\ (manager \/ kind = "removeUser")

\* An action is carried out or refused, for want of permission or as a conflict.
ServeAction(done) ==
  /\ action.call.stage = "sent"
  /\ done => Allowed(action.kind) /\ (action.kind = "create" => draft \notin created)
  /\ \/ action' = [action EXCEPT !.call.stage = "answered", !.call.answer = IF done THEN "ok" ELSE "denied"]
        /\ UNCHANGED lost
     \/ /\ lost < Losses /\ lost' = lost + 1
        /\ action' = [action EXCEPT !.call.stage = "answered", !.call.answer = "lost"]
  /\ IF done
     THEN /\ altered' = [altered EXCEPT ![Changes(action.kind)] = @ + 1]
          /\ manager' = (manager /\ action.kind # "own")
          /\ created' = IF action.kind = "create" THEN created \cup {draft} ELSE created
     ELSE UNCHANGED <<altered, manager, created>>
  /\ UNCHANGED <<session, shown, draft, profile, listed, loads, begun, typed, others>>

\* The saved profile comes back with the privilege.
ServeProfile ==
  /\ profile.stage = "sent"
  /\ \/ /\ profile' = [profile EXCEPT !.stage = "answered", !.answer =
                         IF ~session THEN "denied" ELSE IF manager THEN "manager" ELSE "plain"]
        /\ UNCHANGED lost
     \/ /\ lost < Losses /\ lost' = lost + 1
        /\ profile' = [profile EXCEPT !.stage = "answered", !.answer = "lost"]
  /\ UNCHANGED <<manager, session, shown, draft, action, listed, loads, altered, created, begun, typed, others>>

ServeLoad(d) ==
  /\ loads[d].stage = "sent"
  /\ loads' = [loads EXCEPT ![d].stage = IF session THEN "answered" ELSE "denied", ![d].seen = altered[d]]
  /\ UNCHANGED <<manager, session, shown, draft, action, profile, listed, altered, created, counts>>

\* Another manager ends the session, by taking the privilege or otherwise, or
\* another tab of the administrator gives the privilege up.
ElseEnded ==
  /\ others < Elsewhere /\ others' = others + 1
  /\ \/ session' = FALSE /\ manager' \in BOOLEAN
     \/ manager' = FALSE /\ UNCHANGED session
  /\ UNCHANGED <<page, altered, created, begun, typed, lost>>

-----------------------------------------------------------------------------
(* The answers *)

\* A call on its way when sessionRevision moves on.
Outdated(call) == IF call.stage = "none" THEN call ELSE [call EXCEPT !.stale = TRUE]
\* What the watcher of the privilege leaves of the draft.
Hidden(allowed) == IF allowed THEN draft ELSE 0

\* setCurrentAdmin(): with another privilege, invalidateSessionReads() moves
\* sessionRevision on, and every directory starts anew.
SetCurrentAdmin(allowed) ==
  /\ shown' = allowed
  /\ draft' = Hidden(allowed)
  /\ IF allowed = shown THEN UNCHANGED <<listed, loads>>
     ELSE /\ listed' = [d \in Directories |-> 0]
          /\ loads' = [d \in Directories |-> Load(FALSE)]

ProfileAnswered ==
  /\ profile.stage = "answered"
  /\ profile' = NoCall
  /\ IF ~profile.stale /\ profile.answer \in {"manager", "plain"}
     THEN LET allowed == profile.answer = "manager" IN
          /\ SetCurrentAdmin(allowed)
          /\ action' = IF allowed = shown THEN action ELSE [action EXCEPT !.call = Outdated(@)]
     ELSE UNCHANGED <<shown, draft, listed, loads, action>>
  /\ UNCHANGED <<manager, session, altered, created, counts>>

\* The directories an action refreshes.
Refreshes(kind) == IF kind = "removeTutor" THEN <<"tutors", "users">> ELSE <<Changes(kind)>>

\* finally: actionPending is reset, whatever the answer.
Over(answer) == NoAction

\* "canceled", a message of the server, or a failure is displayed.
ActionFails ==
  /\ action.call.stage = "answered" /\ (action.call.stale \/ action.call.answer # "ok")
  /\ action' = Over("failed")
  /\ UNCHANGED <<manager, session, shown, draft, profile, listed, loads, altered, created, counts>>

\* The rest of an action up to its first refresh().
ActionDone ==
  /\ action.call.stage = "answered" /\ ~action.call.stale /\ action.call.answer = "ok"
  /\ action' = [action EXCEPT !.call.stage = "refreshing", !.rest = Refreshes(action.kind)]
  /\ IF action.kind = "own"
     THEN SetCurrentAdmin(FALSE) /\ profile' = IF shown THEN Outdated(profile) ELSE profile
     ELSE /\ draft' = IF action.kind = "create" THEN 0 ELSE draft
          /\ UNCHANGED <<shown, listed, loads, profile>>
  /\ UNCHANGED <<manager, session, altered, created, counts>>

\* refresh(): the load before no longer counts.
Refresh ==
  /\ action.call.stage = "refreshing" /\ action.rest # <<>>
  /\ \A d \in Directories : ~loads[d].awaited
  /\ loads' = [loads EXCEPT ![Head(action.rest)] = Load(TRUE)]
  /\ action' = [action EXCEPT !.rest = Tail(@)]
  /\ UNCHANGED <<manager, session, shown, draft, profile, listed, altered, created, counts>>

\* The message of success is displayed.
ActionOver ==
  /\ action.call.stage = "refreshing" /\ action.rest = <<>>
  /\ \A d \in Directories : ~loads[d].awaited
  /\ action' = Over("ok")
  /\ UNCHANGED <<manager, session, shown, draft, profile, listed, loads, altered, created, counts>>

\* A load ends with the page, with none for want of a session, or with the old one.
LoadOver(d) ==
  /\ \/ loads[d].stage = "answered" /\ listed' = [listed EXCEPT ![d] = loads[d].seen] /\ UNCHANGED lost
     \/ loads[d].stage = "denied" /\ listed' = [listed EXCEPT ![d] = 0] /\ UNCHANGED lost
     \/ loads[d].stage = "sent" /\ lost < Losses /\ lost' = lost + 1 /\ UNCHANGED listed
  /\ loads' = [loads EXCEPT ![d] = NoLoad]
  /\ UNCHANGED <<manager, session, shown, draft, action, profile, altered, created, begun, typed, others>>

Progress ==
  \/ \E done \in BOOLEAN : ServeAction(done)
  \/ ServeProfile \/ ProfileAnswered
  \/ ActionFails \/ ActionDone \/ Refresh \/ ActionOver
  \/ \E d \in Directories : ServeLoad(d) \/ LoadOver(d)

Next ==
  \/ Progress
  \/ Type \/ SaveProfile \/ (\E kind \in Kinds : Begin(kind))
  \/ ElseEnded

Spec == Init /\ [][Next]_vars

\* Calls are answered or time out (api.ts:8), and callbacks run.
Fairness ==
  /\ WF_vars((\E done \in BOOLEAN : ServeAction(done)) \/ ActionFails \/ ActionDone \/ Refresh
             \/ ActionOver)
  /\ \A d \in Directories : WF_vars(ServeLoad(d) \/ LoadOver(d))
FairSpec == Spec /\ Fairness

-----------------------------------------------------------------------------
(* Properties *)

\* Types of the variables.
TypeOK ==
  /\ {manager, session, shown} \subseteq BOOLEAN
  /\ draft \in 0 .. Edits
  /\ \A call \in {action.call, profile} :
       /\ call.stage \in {"none", "sent", "answered", "refreshing"}
       /\ call.stale \in BOOLEAN
       /\ call.answer \in {"none", "ok", "denied", "lost", "manager", "plain"}
  /\ action.kind \in Kinds /\ Len(action.rest) <= 2
  /\ listed \in [Directories -> 0 .. Actions] /\ altered \in [Directories -> 0 .. Actions]
  /\ loads \in [Directories -> [stage : {"none", "sent", "answered", "denied"},
                                seen : 0 .. Actions, awaited : BOOLEAN]]
  /\ created \subseteq 1 .. Edits
  /\ begun \in 0 .. Actions /\ typed \in 0 .. Edits /\ others \in 0 .. Elsewhere /\ lost \in 0 .. Losses

\* directory-contract.md:63, "losing admin-management permission clears the hidden
\* account-creation draft": none is kept where it cannot be seen.
NoHiddenDraft == draft # 0 => shown

\* AdminProfile.vue:89-99: what was typed for a new administrator goes only once
\* that account exists, or with the permission; no other answer takes it.
DraftIsUsed ==
  [][draft # 0 /\ draft' = 0 => draft \in created \/ ~shown']_vars

Quiet ==
  /\ ~actionPending /\ profile = NoCall
  /\ \A d \in Directories : loads[d] = NoLoad

\* directory-contract.md:47, "Late responses cannot restore old accounts": when
\* all is answered, and nobody else interfered, the privilege shown is the one
\* the account has, in whichever order the answers came.
PrivilegeIsShown ==
  Quiet /\ session /\ others = 0 /\ lost = 0 => shown = manager

\* AdminProfile.vue:67-164: then each directory shows what the actions made of it.
DirectoriesFollow ==
  Quiet /\ session /\ others = 0 /\ lost = 0 => listed = altered

\* AdminProfile.vue:80: no action leaves the buttons dead for good.
ActionsEnd == []<>~actionPending
=============================================================================
