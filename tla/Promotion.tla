------------------------------- MODULE Promotion -------------------------------
(***************************************************************************)
(* deploy/systemd/promote-release.sh: the candidate is selected by a link, *)
(* its identity written for the API, API and Nginx take it up, everything  *)
(* is verified, and a candidate that fails is undone.  `set -e` ends the   *)
(* script at any other step that fails.  Around it systemd restarts a      *)
(* crashed API from whatever is selected then, the host may reboot, and    *)
(* the script may be killed.  Operators run one promotion at a time.       *)
(***************************************************************************)
EXTENDS FiniteSets

CONSTANTS
  Releases,  \* the prepared releases
  Sound,     \* those whose API becomes ready and whose edge policy is strict
  None

PromotionAssumption == Sound \subseteq Releases /\ None \notin Releases

VARIABLES
  link,      \* the release `current` names, or None
  env,       \* the release whose identity release.env holds, or None
  api,       \* the release whose code runs and the identity it was given, or Down
  edge,      \* the release whose Nginx files are loaded, or None
  phase,     \* how far the script is
  target,    \* candidate
  previous,  \* previous_target
  verified,  \* ghost: the release promoted last, or None
  trouble    \* ghost: since then a script was killed or aborted, or the
             \*   configuration of Nginx was refused while undoing

host == <<link, env, api, edge>>
ghosts == <<verified, trouble>>
vars == <<link, env, api, edge, phase, target, previous, verified, trouble>>

Down == [code |-> None, identity |-> None]
Ended == {"none", "promoted", "restored", "unverified", "aborted", "killed"}

Init ==
  /\ link = None /\ env = None /\ api = Down /\ edge = None
  /\ phase = "none" /\ target = None /\ previous = None
  /\ verified = None /\ trouble = FALSE

-----------------------------------------------------------------------------
(* Faulty variants of the operators below, each the code after a plausible   *)
(* slip; no specification uses them, they show what the properties detect.   *)

\* The previous release read again when it is needed.
RestoredReleaseReadLate == link
\* Nginx reloaded only for a first release.
LoadedFirst == IF edge = None THEN link ELSE edge
\* The link removed whatever it named before.
KeepsAReleaseNever == FALSE

-----------------------------------------------------------------------------
(* The steps of the script.  Each goes from one phase to another.            *)

\* `set -e`: a failing command that is not a condition ends the script.
\* A restart that fails leaves the API down.
Abort(from) ==
  /\ phase = from /\ phase' = "aborted" /\ trouble' = TRUE
  /\ api' \in {api} \cup (IF from = "rewritten" THEN {Down} ELSE {})
  /\ UNCHANGED <<link, env, edge, target, previous, verified>>

\* A prepared release is named on the command line.  Where there is no link at all
\* `readlink -f` prints the path of the link itself, which is beneath no release
\* root, and the script refuses; the model lets it begin, with no previous release.
Begin(candidate) ==
  /\ phase \in Ended
  /\ target' = candidate
  /\ previous' = link
  /\ phase' = "begun"
  /\ UNCHANGED <<host, ghosts>>

\* activate_target
Activate(from, release, to) ==
  /\ phase = from /\ phase' = to
  /\ link' = release
  /\ UNCHANGED <<env, api, edge, target, previous, ghosts>>

\* write_release_environment
WriteEnvironment(from, release, to) ==
  /\ phase = from /\ phase' = to
  /\ env' = release
  /\ UNCHANGED <<link, api, edge, target, previous, ghosts>>

\* What a start of the API takes up: its directory is under the link, and the
\* unit does not start without release.env.
Started == IF link = None \/ env = None THEN Down ELSE [code |-> link, identity |-> env]

\* systemctl restart, which reports a start that fails.
Restart(from, to) ==
  /\ phase = from /\ Started # Down
  /\ phase' = to
  /\ api' = Started
  /\ UNCHANGED <<link, env, edge, target, previous, ghosts>>

\* The files Nginx includes are under the link.
Loaded == link

Reload(from, to) ==
  /\ phase = from /\ phase' = to
  /\ edge' = Loaded
  /\ UNCHANGED <<link, env, api, target, previous, ghosts>>

\* identity_matches: `commit` and `deployedAt` come from release.env; two
\* releases may have the same version.
IdentityMatches(release) == api.identity = release

\* wait_for_target: what one of its thirty attempts must see.  The static
\* identity is read through the link; headers do not name their release.
Verifies(release) ==
  /\ api.code \in Sound /\ IdentityMatches(release)
  /\ link = release
  /\ edge \in Sound

-----------------------------------------------------------------------------
(* The candidate *)

Promoted ==
  /\ phase = "reloaded" /\ Verifies(target)
  /\ phase' = "promoted"
  /\ verified' = target /\ trouble' = FALSE
  /\ UNCHANGED <<host, target, previous>>

\* nginx -t, the restart, the reload or the thirty attempts fail.  The API is
\* down after a restart that failed.
CandidateFails ==
  /\ phase \in {"written", "tested", "restarted", "reloaded"}
  /\ phase' = "failed"
  /\ api' \in {api} \cup (IF phase = "tested" THEN {Down} ELSE {})
  /\ UNCHANGED <<link, env, edge, target, previous, ghosts>>

TestCandidate ==
  /\ phase = "written" /\ phase' = "tested"
  /\ UNCHANGED <<host, target, previous, ghosts>>

Candidate ==
  \/ Activate("begun", target, "activated") \/ Abort("begun")
  \/ WriteEnvironment("activated", target, "written") \/ Abort("activated")
  \/ TestCandidate
  \/ Restart("tested", "restarted")
  \/ Reload("restarted", "reloaded")
  \/ Promoted
  \/ CandidateFails

-----------------------------------------------------------------------------
(* Undoing it *)

RestoredRelease == previous
KeepsARelease == previous # None

\* nginx -t refuses, which is no reason to stop: what is loaded stays.
RefuseConfiguration(from, to) ==
  /\ phase = from /\ phase' = to
  /\ trouble' = TRUE
  /\ UNCHANGED <<host, target, previous, verified>>

\* The script ends either way; what it prints tells whether this was verified.
Restored ==
  /\ phase = "undone"
  /\ phase' \in {"unverified"} \cup (IF Verifies(previous) THEN {"restored"} ELSE {})
  /\ UNCHANGED <<host, target, previous, ghosts>>

RestorePrevious ==
  \/ Activate("failed", RestoredRelease, "relinked") \/ Abort("failed")
  \/ WriteEnvironment("relinked", RestoredRelease, "rewritten") \/ Abort("relinked")
  \/ Restart("rewritten", "rerun") \/ Abort("rewritten")
  \/ Reload("rerun", "undone") \/ RefuseConfiguration("rerun", "undone") \/ Abort("rerun")

\* systemctl stop
Stop ==
  /\ phase = "unlinked" /\ phase' = "stopped"
  /\ api' = Down
  /\ UNCHANGED <<link, env, edge, target, previous, ghosts>>

\* Nginx includes its files from the link, which is gone: nginx -t refuses.
RemoveFirst ==
  \/ Activate("failed", None, "unlinked")
  \/ Stop
  \/ RefuseConfiguration("stopped", "unverified")

Undo ==
  \/ KeepsARelease /\ RestorePrevious
  \/ ~KeepsARelease /\ RemoveFirst
  \/ Restored

-----------------------------------------------------------------------------
(* The host *)

\* Restart=on-failure: an API that crashed or did not start is started again.
Respawn ==
  /\ api' = Started
  /\ UNCHANGED <<link, env, edge, phase, target, previous, ghosts>>

Kill ==
  /\ phase \notin Ended
  /\ phase' = "killed" /\ trouble' = TRUE
  /\ UNCHANGED <<host, target, previous, verified>>

\* Both services come up from what is selected; a script that ran is gone.
Reboot ==
  /\ api' = Started
  /\ edge' = link
  /\ phase' = IF phase \in Ended THEN phase ELSE "killed"
  /\ trouble' = (trouble \/ phase \notin Ended)
  /\ UNCHANGED <<link, env, target, previous, verified>>

Next ==
  \/ \E r \in Releases : Begin(r)
  \/ Candidate \/ Undo
  \/ Respawn \/ Kill \/ Reboot

Spec == Init /\ [][Next]_vars

-----------------------------------------------------------------------------
(* Properties *)

Whole(release) ==
  /\ link = release /\ env = release /\ edge = release
  /\ api = [code |-> release, identity |-> release]

\* Types of the variables.
TypeOK ==
  /\ {link, env, edge, target, previous, verified} \subseteq Releases \cup {None}
  /\ api \in [code : Releases \cup {None}, identity : Releases \cup {None}]
  /\ (api.code = None) = (api.identity = None)
  /\ trouble \in BOOLEAN

\* Once a promotion has been reported, link, identity, code and edge policy are
\* all of that release, whatever was left by killed or failed promotions before,
\* and through crashes and reboots until the next promotion begins.
PromotedIsWhole == phase = "promoted" => Whole(target) /\ target \in Sound

\* deploy/systemd/README.md:35, as far as the code keeps it: while no script was
\* killed or stopped by `set -e` since the last success, a candidate that failed
\* leaves that release serving, in all four places.
LastVerifiedServes ==
  phase \in Ended /\ ~trouble /\ verified # None => Whole(verified)

\* A host that has served a verified release always has a release selected.
NeverUnlinked == verified # None => link # None
=============================================================================
