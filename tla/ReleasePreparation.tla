----------------------------- MODULE ReleasePreparation -----------------------------
(***************************************************************************)
(* deploy/systemd/prepare-release.sh on the checkouts beneath the release  *)
(* root, and which of them promote-release.sh takes.  A preparation may    *)
(* end at any of its commands (set -e, or a kill) and leaves what it did.  *)
(* The operator prepares one release at a time and promotes none that is   *)
(* being prepared (deploy/systemd/README.md, steps 5 and 6); promotion     *)
(* itself is module Promotion, here only its choice and its verdict.       *)
(***************************************************************************)
EXTENDS Naturals, Sequences

CONSTANTS
  Releases,   \* checkouts beneath the release root
  NoRelease

PreparationAssumption == NoRelease \notin Releases

VARIABLES
  modules,    \* node_modules of each: none, or installed for development or production
  built,      \* those with back-end/dist and front-end/dist
  marked,     \* those with .operation-opportunity-release-prepared.json
  preparing,  \* the release being prepared and the number of its next command
  current,    \* the release the link selects
  previous,   \* previous_target, while a promotion is under way
  promoting,  \* whether one is
  checked,    \* ghost: releases that passed audits, tests and the checks of the build
  kept,       \* ghost: releases that were promoted successfully
  trouble     \* ghost: since then a promotion was killed or ended by `set -e`

checkouts == <<modules, built, marked, checked>>
vars == <<checkouts, preparing, current, previous, promoting, kept, trouble>>

Idle == [release |-> NoRelease, next |-> 1]

Init ==
  /\ modules = [r \in Releases |-> "none"]
  /\ built = {} /\ marked = {} /\ checked = {} /\ kept = {}
  /\ preparing = Idle
  /\ current = NoRelease /\ previous = NoRelease /\ promoting = FALSE /\ trouble = FALSE

-----------------------------------------------------------------------------
(* Faulty variants of the operators below, each the code after a plausible   *)
(* slip; no specification uses them, they show what the properties detect.   *)

\* A checkout prepared without a look at git status.
CleanAlways(r) == TRUE
\* The marker of the preparation not asked for.
AcceptsBuilt(r) == r \in built
\* The candidate restored by a failed promotion.
RestoredCandidate == current

-----------------------------------------------------------------------------
(* prepare-release.sh *)

\* npm ci removes node_modules before it installs.
Commands ==
  <<"remove", "install", "test", "build", "verify", "mark", "remove", "production", "smoke">>

\* git status: node_modules and dist are ignored (.gitignore), the marker is not.
Clean(r) == r \notin marked

Begin(r) ==
  /\ preparing = Idle
  /\ ~(promoting /\ r = current)
  /\ Clean(r)
  /\ preparing' = [release |-> r, next |-> 1]
  /\ UNCHANGED <<checkouts, current, previous, promoting, kept, trouble>>

\* The next command succeeds.
Run ==
  LET r == preparing.release
      command == Commands[preparing.next] IN
  /\ preparing # Idle
  /\ modules' = CASE command = "remove" -> [modules EXCEPT ![r] = "none"]
                  [] command = "install" -> [modules EXCEPT ![r] = "development"]
                  [] command = "production" -> [modules EXCEPT ![r] = "production"]
                  [] OTHER -> modules
  /\ built' = IF command = "build" THEN built \cup {r} ELSE built
  /\ checked' = IF command = "verify" THEN checked \cup {r} ELSE checked
  /\ marked' = IF command = "mark" THEN marked \cup {r} ELSE marked
  /\ preparing' = IF preparing.next = Len(Commands) THEN Idle ELSE [preparing EXCEPT !.next = @ + 1]
  /\ UNCHANGED <<current, previous, promoting, kept, trouble>>

\* It fails or is killed, and the script ends; npm ci may have removed the modules.
Fail ==
  /\ preparing # Idle
  /\ preparing' = Idle
  /\ UNCHANGED <<checkouts, current, previous, promoting, kept, trouble>>

-----------------------------------------------------------------------------
(* promote-release.sh *)

\* The files of a prepared release are there, the identity in both the same.
Accepts(r) == r \in built \cap marked

Select(r) ==
  /\ ~promoting /\ preparing.release # r
  /\ Accepts(r)
  /\ current' = r /\ previous' = current /\ promoting' = TRUE
  /\ UNCHANGED <<checkouts, preparing, kept, trouble>>

\* The API starts and passes every check; it cannot without its modules.
Promoted ==
  /\ promoting /\ modules[current] # "none"
  /\ promoting' = FALSE /\ previous' = NoRelease
  /\ kept' = kept \cup {current} /\ trouble' = FALSE
  /\ UNCHANGED <<checkouts, preparing, current>>

\* A check fails, for want of modules or otherwise: the previous release again.
Restored == previous
NotPromoted ==
  /\ promoting
  /\ current' = Restored
  /\ promoting' = FALSE /\ previous' = NoRelease
  /\ UNCHANGED <<checkouts, preparing, kept, trouble>>

\* `set -e` or a kill ends the script before the release is restored or after; what
\* it had selected stays, and the next promotion takes that for the previous one.
Aborted ==
  /\ promoting
  /\ current' \in {current, Restored}
  /\ promoting' = FALSE /\ previous' = NoRelease
  /\ trouble' = TRUE
  /\ UNCHANGED <<checkouts, preparing, kept>>

Next ==
  \/ \E r \in Releases : Begin(r) \/ Select(r)
  \/ Run \/ Fail \/ Promoted \/ NotPromoted \/ Aborted

Spec == Init /\ [][Next]_vars

-----------------------------------------------------------------------------
(* Properties *)

\* Types of the variables.
TypeOK ==
  /\ modules \in [Releases -> {"none", "development", "production"}]
  /\ {built, marked, checked, kept} \subseteq SUBSET Releases /\ marked \subseteq built
  /\ preparing \in {Idle} \cup [release : Releases, next : 1 .. Len(Commands)]
  /\ {current, previous} \subseteq Releases \cup {NoRelease}
  /\ promoting \in BOOLEAN /\ trouble \in BOOLEAN
  /\ ~promoting => previous = NoRelease

\* deploy/systemd/README.md:35: a release that was promoted can be promoted again.
\* No preparation ever takes the modules from under a release in service, or from
\* one an operator may roll back to.
KeptIsWhole == \A r \in kept : r \in built /\ modules[r] # "none"

\* deploy/systemd/README.md:33: what is in service passed audits, tests and the
\* checks of the build, whichever preparations failed before or after.
ServedIsChecked == current # NoRelease => current \in checked

\* deploy/systemd/README.md:35, as far as the code keeps it: while no promotion was
\* killed or ended by `set -e` since the last success, what is in service after
\* any number of failed ones was itself promoted, and so can be promoted again.
ServedWasPromoted == ~promoting /\ ~trouble /\ current # NoRelease => current \in kept
=============================================================================
