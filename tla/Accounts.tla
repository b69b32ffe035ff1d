------------------------------- MODULE Accounts -------------------------------
(***************************************************************************)
(* The identity registry with the jobs on accounts, and the tutors and     *)
(* their users.  They share no state (an assignment names documents, not   *)
(* addresses), so a behaviour is one of one of them, `part`, while the     *)
(* other stands still.                                                     *)
(***************************************************************************)
EXTENDS IdentityRegistry

CONSTANTS TutorIds, UserIds, AssignmentRequests   \* of TutorAssignment

VARIABLE part   \* "registry" or "tutors"

VARIABLES taTutor, taUser, taUsed, taJob, taInside, taCrossed, taCut
tutorVars == <<taTutor, taUser, taUsed, taJob, taInside, taCrossed, taCut>>
Tutoring == INSTANCE TutorAssignment WITH Tutors <- TutorIds, Users <- UserIds,
    Requests <- AssignmentRequests, tutor <- taTutor, user <- taUser, used <- taUsed,
    job <- taJob, inside <- taInside, crossed <- taCrossed, cut <- taCut

ASSUME AccountsAssumption == Tutoring!AssignmentAssumption

accountsVars == <<part, vars, tutorVars>>

AccountsInit == part \in {"registry", "tutors"} /\ Init /\ Tutoring!Init

AccountsNext ==
  /\ (part = "registry" /\ Next) \/ (part = "tutors" /\ Tutoring!Next)
  /\ UNCHANGED part
  /\ part # "registry" => UNCHANGED vars
  /\ part # "tutors" => UNCHANGED tutorVars

AccountsSpec == AccountsInit /\ [][AccountsNext]_accountsVars

-----------------------------------------------------------------------------
(* Properties: those of the parts, which are stated and explained in their  *)
(* modules, gathered by the question they answer.                           *)

\* Types of the variables of both parts.
AccountsTypeOK == TypeOK /\ Tutoring!TypeOK

\* The tutor of a user has been approved at some time and, with nobody inside the
\* lock, exists and is active, but for an unassignment that did not end well and for
\* writes carried out after they were given up.
AssignedIsFit == Tutoring!AssignedIsFit

\* A tutor acts only on users assigned to it, while it is active, and a change of
\* its status revokes its sessions.
TutorsAct == Tutoring!TutorsAct
=============================================================================
