# Verification of Operation Opportunity

TLA+ models of the concurrent core of Operation Opportunity (an Express/MongoDB
API with a Vue front end), the TLC runs that check them on small instances and
TLAPS proofs that hold for every instance. `PROJECT.json` lists components,
runs, hazards and theorems, and maps every definition to the lines it models.
Paths below are relative to `back-end/src/` unless they say otherwise.

    tlc -config Server.cfg MCServer                         # a run
    tlapm WorkflowCapacityProofs.tla                        # the proofs of a module

## The system

One API process (Node, one callback at a time), MongoDB with an account
collection per role, operator commands that open the same database, a browser
client, and shell scripts that promote releases.

| Component | State | Operations | What makes it correct |
|---|---|---|---|
| authorization slot, `services/workflowCapacity.ts` | `active`, queue of admit callbacks, a timer and an abort listener per waiter | `run` | one workflow at a time, FIFO, bounded queue, nobody waits beyond the deadline, the slot is never lost |
| authorization workflow lock, `services/adminWorkflow.ts` | the lease document (owner, expiresAt) | acquire, work, release | serial workflows; a lease backs the work; requests are answered |
| identity registry, `services/identityRegistry.ts`, `identityIndex.ts`, `accountService.ts`, `identityWriteSafety.ts` | account documents, `AccountEmail` rows, a scratch index at startup | create, update, delete an account; reconcile at startup | an address names at most one account of any role |
| administrator management, `controllers/users/adminController.ts` and the commands | `editAdmins`, `authVersion`, `__v` of each admin | create, update, delete; bootstrap, recovery grant, password reset | a manager always remains; only managers act; every change revokes |
| tutors and users, `controllers/users/tutorController.ts`, `userController.ts` | `status` of a tutor, `tutor` of a user | sign-up, status, assignment, staff update, deletion | assigned tutors are approved and active; tutors act on their own users |
| sessions, `middleware/auth.ts`, `security/session.ts`, `controllers/auth/` | the session store, the session held by a request, the CSRF token | hydrate, login, logout, self update | a session is current only for who proved the current credentials |
| password work, `passwordWork.ts` | two slots, a queue of 32 | hash, verify | bounded work, slots returned |
| request capacity and lifecycle, `runtimeCapacity.ts`, `serviceLifecycle.ts`, `server.ts` | requests in flight, draining flag, phases of start and stop | admit, settle, start, shutdown | a slot is kept until the work has settled; a drain ends |
| service log, `serviceLog.ts` | queued bytes, dropped count | write, drain | bounded memory, drops are reported |
| rate limiting, `middleware/boundedRateStore.ts` | counts per key with reset times | increment, reset | bounded keys, no live count is lost while there is room |
| readiness, `databaseCapacity.ts` | the pending probe | probe | one probe at a time, a failure is not remembered |
| directories, `services/directory.ts` | cursor of a page, stream to a client | page, stream | every unchanged row once; what closes is whole |
| quote proxy, `controllers/common/quoteProxy.ts` | one attempt over the socket, one over HTTP, each with its timer | get | an answer somebody has earned, one fallback, nothing for a caller who left |
| front-end session, `front-end/src/api.ts`, `stores/app.ts` | the account shown, session epoch, CSRF token, its request | read, write, retry, bootstrap, login, logout | an answer of an older session changes nothing; a write happens once |
| front-end directories, `front-end/src/composables/useDirectory.ts`, `components/UserSignup.vue` | the page shown, its cursors, the choice | load, search, page, choose | the page is of the present session and search; the choice survives |
| front-end forms, `front-end/src/composables/useEditable.ts`, `components/ChangeCredentials.vue` | drafts, pending saves | edit, save, cancel | unconfirmed work is kept, the confirmed account is shown |
| administrator's page, `front-end/src/components/AdminProfile.vue` | a pending action, the draft of an administrator, three directories | create, promote, assign, delete, save | a draft and a privilege fit each other; directories follow |
| release preparation and promotion, `deploy/systemd/*.sh` | checkouts and their markers, the `current` link, the environment file | prepare, promote, roll back | what serves is whole, was checked, and is what was verified last |
| start-up migration, configuration, validation, scripts | none they share | | not modelled, see below |

Components meet in three ways: handlers call `withAuthorizationWorkflowLock`,
which nests the slot of the process around the lease in Mongo; handlers and
commands call the account service, which writes an account and its registry row
apart; and a session carries the `authVersion` of its account, which every
privileged handler compares again inside the lock. Everything that is hard comes
from there: the code between two awaits is atomic, everything else interleaves;
a Mongo write may be lost, applied without its reply, or applied late; no write
covers two documents; a process may die anywhere; leases run out under work.

The lines where this bites are the `hazards` of `PROJECT.json`.

## The modules

| Module | Models | Extends |
|---|---|---|
| `SerialExecution` | abstract: at most one call executes, each call ends once | |
| `WorkflowCapacity` | the authorization slot | |
| `WorkflowCapacityProofs` | its theorems | `WorkflowCapacity` |
| `AdminWorkflow` | the slot around the lease | `WorkflowCapacity` |
| `AdminWorkflowProofs` | its theorems | `AdminWorkflow`, `WorkflowCapacityProofs` |
| `IdentityRegistry` | accounts, registry rows, startup reconciliation | |
| `AdminManagement` | who is an admin and a manager | |
| `AdminManagementProofs` | its theorems | `AdminManagement` |
| `TutorAssignment` | approval of tutors, tutors of users | |
| `TutorAssignmentProofs` | its theorems | `TutorAssignment` |
| `Accounts` | the registry beside tutors and users | `IdentityRegistry` |
| `AccountsProofs` | its theorems | `Accounts` |
| `Sessions` | which session is valid after which change | |
| `SessionsProofs` | its theorems | `Sessions` |
| `BoundedExecution` | abstract: at most so many calls execute, each at most once | |
| `PasswordCapacity` | the slots for hashes and their queue | |
| `RequestCapacity` | admission of requests and the return of their slots | |
| `ServiceLifecycle` | start, signals, drain and exit of the process | `RequestCapacity` |
| `ServiceLog` | the journal and the admission it stops | |
| `RateLimit` | counters of clients under a clock that may be set back | |
| `Readiness` | probes and the check they share | |
| `QuoteProxy` | one quote, from the page to the Quotes API | |
| `DirectoryPaging` | pages of a changing directory | |
| `DirectoryStream` | the streamed array of a directory | |
| `ClientSession` | a page's session: calls, token, retry, epochs | |
| `DirectoryView` | a directory on a page and the choice made in it | |
| `ProfileDraft` | two forms over one account | |
| `AdminPage` | the page of an administrator | |
| `Promotion` | a promotion with its rollback | |
| `ReleasePreparation` | what preparations leave and promotions take | |
| `Server` | the server's parts side by side | `WorkflowCapacity` |
| `ServerProofs` | its theorems | `Server`, `WorkflowCapacityProofs` |
| `Browser` | the parts of a page side by side | |
| `BrowserProofs` | its theorems | `Browser` |
| other `MC...` | values of the constants for TLC | the module they check |

Each module has a section of faulty variants of its operators (a dropped guard,
an unversioned save, a lock left out). No specification uses them. `PROJECT.json`
names for every property the variant that violates it, which shows that the
property depends on that line of the code.

### WorkflowCapacity

`stage` is where a call of `run` is: "waiting" while its `admit` is in the
queue, "admitted" from the hand-over until its continuation runs, "running" in
the operation. An action is one callback. A call that finds the slot free runs
its checks and its operation's first part in the same callback (`StartAtOnce`);
a call that was handed the slot repeats the checks later (`Resume`,
`ResumeTooLate`) and hands the slot on if it may no longer run. Time is a
counter: all deadlines are the time of the call plus one constant, so they pass
in the order of the calls (`calls`, `late`).

`SerialExecution` is what callers rely on; `ImplementsSerial` is the refinement
under `serialStatus`, which maps an admitted call to pending and both refusals
to one.

Run `Server`, part "slot": four calls, two of them readers with an abort signal, a
queue of two. That fills the queue, refuses a call, and has a waiter leave from
the middle while others wait. Fairness: time passes, a due timer fires, a
resolved promise continues. An operation need not settle.

### AdminWorkflow

Adds `phase` (where an owner is in `withAuthorizationWorkflowLock`) and the
lease. "granted" is the time between Mongo applying the upsert and the reply, in
which deadlines pass and aborts come; a reply that never comes leaves the lease
behind. The lease (30 s) is longer than the wait of a call (5 s), so it expires
only after the call's own deadline. Operator commands are owners without a slot
and may be killed anywhere.

Run `AdminWorkflow`: three calls with one reader, a queue of one, one command.
Two calls contend for the slot and one for the queue while the command holds,
loses or abandons the lease. Fairness as above, and operations of the API
settle (each database call has a timeout) but are not owed the lease:
`CallsAnswered` holds even if a command keeps it for ever.

Run `AdminWorkflowAcrossProcesses` shows the disagreement with the repository's
README.md line 14 ("serialized across processes"): work that outlives its lease
overlaps with a command. `OverlapNeedsLapse` says that this is the only way.

### IdentityRegistry

A job is a create, an update or a delete; its writes are "reserve" (create the
registry row), "write" (the account), "undo" (free the new row after a definite
failure), "retire" (free the old row), "purge" (free all rows of a deleted
account). `LoseReply` ends a job with an unknown outcome; the write stays in
`late` and may be applied at any later time or never. Saves compare `__v`, rows
are created only where there is none and deleted only with their owner. The
startup runs `Scan`, `Normalize`, `Sweep`, `Insert`, one write per step, and
`Crash` may cut it short or end the serving process together with its jobs.
`Init` is any data an older release may have left: addresses not normalized,
rows of deleted accounts, rows with the wrong owner, duplicates across roles.

Run `Accounts`, part "serving": three accounts of two roles, three addresses,
three jobs, a crash; it starts with tidy data. Part "starting": any data over two
addresses, two crashes, one job between the starts.

### AdminManagement

`account` holds what decides about an admin: the privilege, `authVersion`,
`__v` and who changed the credentials last. A request is hydrated (`Submit...`,
with the route's guard), waits for the lock, reads its actor again
(`Authorize`), reads its target, counts, and writes; a save finds its document
only in the version it was loaded. `Fail` ends a job at any of these points.
`grant-admin-manager` and `create-admin-user` take the lock, and
`reset-account-password` does not.

The lock is taken to be exclusive: for requests this is `ApiWorkflowsSerial`;
for a command next to the API it needs a lease that does not lapse, which is the
exclusive maintenance the deployment documents ask for. The assumption matters:
without it a recovery grant to an admin who is just being deleted leaves no
manager.

Run `AdminManagement`: three ids, two requests, one command, from every set of
admins and managers. Two requests are enough for every crossing of two actors;
the command adds the unlocked reset. Run `AdminManagementLate` adds saves that
the database carries out after their call has timed out, which the properties of the
first run leave aside, and shows that then the last manager can be lost, against
README.md line 12.

### TutorAssignment

The relation is in the user documents, the approval in the tutor documents.
`updateMany` visits the users one by one and leaves `__v` alone, a save sets
only modified paths, profile updates take no lock, and `Fail` ends a request
between any two calls. A call that times out (`TimeOut`, `databaseCapacity.ts:11`)
ends its request as well, which leaves the lock, while its write may be carried out
at any later time (`Late...`) or be lost; what follows the write in its handler
never comes. A late suspension thus leaves its users assigned, a late assignment
gives a user a tutor suspended or deleted meanwhile, and a late deletion comes
after users were assigned anew. The ghost `cut` remembers the tutors to which one
of these happened, or whose unassignment failed, until a complete one; the
properties say that no other tutor is unfit. The ghost `crossed` marks the request
inside the lock when such a write is carried out next to it: then, and only then,
a tutor may act on a user that it has lost since the check.

Run `Accounts`, part "tutors": two tutors, two users, two requests, from every
legal assignment; tutors, users and requests are interchangeable (`Alike`). Two
requests are enough for a write given up next to one inside the lock. Run
`TutorSuspension` shows that a suspension repeated after a failed unassignment is answered with success and unassigns nobody
(`tutorController.ts:122`), against `docs/security-audit-2026-07-29.md` line 37.

### Sessions

A request works on the copy of the session it loaded (`sess`) and saves it under
the id it has by then (`sid`), which a save revives if somebody else destroyed
it. The steps are the calls the handlers await: `Hydrate` compares the session
with its account, `Clear` destroys an invalid session, `Find` and `Create` are
login and sign-up, `Load` and `SaveAccount` an own update, `CheckOwner` and
`RemoveOwner` an own deletion, `Regenerate`, `SaveSession` and `Destroy` what
becomes of the session; `Fail` ends a request at any of them. A step is the moment
its call takes effect, not the moment its answer arrives. A request that was
answered with an error while a save was still on its way (a timed-out call, a lost
reply) therefore stands at that step until the save is carried out, at any later
time, and `Fail` ends it then; or the save is lost, and `Fail` ends it there. No
lock is modelled here and nothing else looks at whether a request has ended, so
late saves of accounts and sessions are among the behaviours. express-session
and connect-mongo are external, modelled as the handlers use them: load a copy,
regenerate (destroy, then a fresh id), save (an upsert), destroy, and the expiry
of the store (`Expire`).

The authorization lock around `updateAdmin` and the deletions is left out: it
only takes behaviours away, and what these handlers compare inside it (`MayLoad`,
`CheckOwner`) is kept. `ChangeElsewhere` stands for every other change of an
`authVersion`, `DeleteElsewhere` for every other deletion. A save without
modified paths does not compare `__v` (`Applies`).

Four variables are ghosts. `proof` in a session is the `authVersion` whose
credentials its client has shown to know or has set; `crossed` are the sessions
whose own update loaded an account that had changed since; `closed` are the
confirmed logouts; `holder` is for whom an id was generated.

Run `Sessions`: one admin, one other account, two requests, three ids. Two
requests give every crossing of two; three ids give a regeneration next to
another session; one change elsewhere (`MaxAuth`) makes every session stale once,
own updates may change further. The account kinds differ only in `MayLoad` and
`Allowed`. `CHECK_DEADLOCK FALSE`, since requests are made once and the run ends.

Run `SessionsRevoked` shows that the own update of a user or tutor
(`userController.ts:82`, `tutorController.ts:58`) that crosses a change of the
credentials gives its session the new `authVersion`, against README.md line 15.
`UnprovedWasCrossed` says that this is the only way, and `AdminSessionsProved`
that an admin, whose version is compared again, is not affected. Run
`SessionsLogout` shows that a request under way during a logout stores the
session again (`authController.ts:90`), against
`docs/security-audit-2026-07-29.md` line 43.

### The runs of many parts

The modules below share no state with each other. `Server`, `Browser` and
`Accounts` put several of them side by side: each has its own variables, under
a prefix, a constant-valued variable `part` says which of them a behaviour is
about, and all others stand still. The state space is the sum of the parts, not
their product. The properties are stated and explained in the modules of the
parts; a composition gathers those of one part by the question they answer
(`ExitsClean` of `Server` is `DisposedIdle` and `SuccessIsClean` of
`ServiceLifecycle`), and `PROJECT.json` has a faulty variant for each.

`MCServer`, `MCBrowser` and `MCAccounts` give the constants values. The latter two
also leave a part that is not chosen only one initial state and bound disturbances
(`MCSpec`), so that TLC explores less; the theorems are about the compositions
without this. In a part that stands still no action under fairness is enabled, so that
the fairness of each module is assumed as it stands there. Deadlock is not checked,
because requests are made once and a part then ends.

Liveness is stated as `[]<>` of a state without the obligation: once the call
ends it stays ended, so this says that it ends.

### PasswordCapacity

`stage` of a call of `run`, as for the slot above, but there is neither a
deadline nor a signal: only a hand-over (`Settle`) ends a wait. `ImplementsBounded`
is the refinement of `BoundedExecution`, in which no queue is in sight. Run
`Server`, part "password": five calls for two slots, and a queue of two that
fills. Fairness: promises continue, a hash of fixed cost comes to an end.

### RequestCapacity and ServiceLifecycle

`at` is where a request is among the middleware of `app.ts`; `pending` holds the
runs (`requestWork.run` around session, principal and handler) that have not
settled. Each middleware calls the next from within its run, so that a run
settles after the request has moved on, and `Finish`, `Disconnect` and `Settle`
come in any order; whichever is last returns the slot. `ServiceLifecycle` adds
`start`, `cleanup` and `exit`: signals at any time, a start that fails, the steps
of `cleanup()` with a failing one, and the deadline. Only the timer is under
fairness there, since all else may hang. Parts "request" (three requests, two
slots) and "life" (two requests).

### ServiceLog

Records are sizes in the queues of two streams, which call back late, with an
error, or not before the reader resumes. `admitted` and `owed` are what admission
and the bound on the records of a request come to; `LogAssumption` is the comment
on the headroom, `HeadroomSuffices` what it is for, and `PendingAccounted` compares
the counter with the bytes that were handed over. Part "log": two requests
with two records each, one record of others, room for exactly all of them.

### RateLimit

`counters` is the Map in its order of insertion, `overflow` the counter shared by
clients without room; the clock may read anything at each call. `granted` keeps
the answers that let a client through in the last length of a window, each with the
counter it came from and what that stood at. `RateBounded` is no more than four
limits: two windows of the client's own counter and two of the shared one. Part
"rate": three clients, room for two, a window of two ticks in a clock of six.

### Readiness

`pings` are the checks under way, of which there may be only one, `probe` how far
each response is, `fresh` the probes a check has come back to since they came.
The database goes up and down and capacity changes at will. Part "probe": four
probes, of which three may wait.

### QuoteProxy

From the page's `fetch` over the handler to the API: URL, attempt over the socket
with its deadline, headers, body, one fallback over HTTP, the answer, and the
departure of the page anywhere. Statuses and bodies are the classes the code
tells apart. Part "quote": three queries, nine base URLs, with and without a
socket. Fairness: the deadlines fire and callbacks run; no upstream need answer.

### DirectoryStream and DirectoryPaging

A stream has rows read, parts written and parts taken; `waits` says what the
handler awaits. Deadline and disconnection set `signal`, which ends any wait.
Part "stream" of `Server`: eight rows through a connection that takes three.
A page is computed from rows and cursor as the code does it, a row more than fits
and reversed where it walks back (`Selected`, `Page`); rows come, go and are
renamed between pages. Part "paging" of `Browser`: four accounts of two names,
two to a page, two changes, walks in both directions: a page between two others, and a
last page that is not full. The order of rows is defined by their ranks (`Sorted`),
which is what a sort by distinct keys computes.

### ClientSession

One page with its bootstrap and writes, over the browser's session at the server,
which another tab may change. `stale` is an older epoch in a call; `csrf` is the
request for a token that several writes may wait for; `Retry`, `DropObsolete`,
`TokenFails` are the branches of the interceptors. Answers come in any order, and
`Lose` drops one. Part "client" of `Browser`: two writes of any kind, two
accounts, and one disturbance, a lost answer or a change by another tab. Two
writes are what shares a token request; a third repeats the second.

`FailureDisplayed` is what `docs/directory-contract.md` line 57 says, and run
`ClientTokenFailure` shows it violated: the error of a failed token request
carries no epoch (`api.ts:75`), and the waiting save is cancelled in silence.

### DirectoryView, ProfileDraft, AdminPage

`DirectoryView` is `useDirectory` in `UserSignup.vue`: up to three loads under
way, each with the account, session and search it was made for; the page shown
remembers its own, which `OwnLatestPage` and `CursorsFit` compare. The choice of
a tutor races the lookup of the assigned one. `ProfileDraft` has the two forms
of an account with one save each, answered in either order and possibly without
an answer, the first of which may be closed without a save (`Discard`); `Overtaking` bounds answers that overtake. `AdminPage` has one action
at a time, then its refreshes in the order of the code, beside the own profile,
while somebody else changes the privilege or an answer is lost (one of these in
a behaviour). Parts "view", "draft" and "admin" of `Browser`; in the last one,
three edits and actions in all. Fairness: calls time out or are answered, callbacks
run; it is stated of the one action's steps together, since at most one of them can
be taken at a time, and of each directory's load.

### Promotion and ReleasePreparation

The host is what `current` selects, whose identity `release.env` holds, which
code the API runs under which identity, and which files Nginx has loaded; the
script goes through `promote-release.sh` command by command. A command that fails
outside of a condition ends it (`Abort`), one inside begins the rollback; systemd
restarts a crashed API from whatever is selected then; `Kill` and `Reboot` come
anywhere. `trouble` is set when a script was killed or aborted, for
`LastVerifiedServes`. Part "promotion": three releases, one of them unsound, so a
failing candidate may follow and precede a good one. `ReleasePreparation` has the
commands of `prepare-release.sh` with a failure at any of them, and only the
choice and the verdict of a promotion, or its end by a kill or `set -e`
(`Aborted`), which leaves a release selected that was not promoted and that the next
promotion takes for the previous one. `ServedWasPromoted` is therefore about the time
until such an end (`trouble` again), `ServedIsChecked` and `KeptIsWhole` about all
times. Part "preparation": three checkouts.

`Begin` of `Promotion` goes beyond the code: it also begins where no link exists,
which the script refuses (see below). This adds behaviours, among them the branch of
the script that removes the link of a first promotion.

## Disagreements no run records

Six more places where code and documents differ were met while modelling. The
models follow the code, and the properties checked say what remains true there.

- `front-end/src/stores/app.ts:89`: an account read by the bootstrap and answered
  before a login was carried out, but handled after it, shows the old account and
  moves the epoch on, so that the login's answer is dropped
  (`docs/directory-contract.md` line 47, "Late responses cannot restore old
  accounts"). `NoOldAccount` excludes writes whose answer was dropped.
- `front-end/src/api.ts:83`: the retry of one write aborts the token request that
  another one waits for, which is cancelled without its retry (line 53 there).
  `ExecutedOnce` shows that nothing is done twice.
- `front-end/src/components/UserSignup.vue:36`: the getter of the watcher returns
  a new array, so it runs on every update of the user and resets an unsaved choice
  (lines 58 and 62 there). `ChoiceSurvives` names the steps that may do it.
- `front-end/src/components/ChangeCredentials.vue:70`: of two saves answered in
  the opposite order the earlier one's account is shown last (line 56 there).
  `ConfirmedIsShown` and `WorkIsKept` assume that no answer overtook another.
- `deploy/systemd/promote-release.sh:184`: a failing `write_release_environment`
  ends the script under `set -e` before the rollback (`deploy/systemd/README.md`
  line 35). `LastVerifiedServes` and `ServedWasPromoted` exclude aborted scripts.
- `deploy/systemd/promote-release.sh:60`: without a link `readlink -f` prints the
  link's own path, which line 64 refuses as outside of the release root, so that
  steps 5 and 6 of `deploy/systemd/README.md` cannot be the first on a host; the
  branch of lines 199 to 203 is never taken. The properties hold with that branch.

## What is proved

TLC checks instances; the theorems hold for any number of calls, owners,
accounts, rows, releases and so on and for any bounds, from the named assumptions
on the constants only: `CapacityAssumption`, `WorkflowAssumption`,
`ManagementAssumption`, `NoneIsNoDocument`, `IdentityAssumption`,
`AccountsAssumption`, `SessionsAssumption`, `NoneIsNoRecord`, and
`ServerAssumption` and `BrowserAssumption`, which are the assumptions of the
parts. They say that bounds are natural numbers, which sets are finite, that stand-ins
for "none" are no values, that the headroom of the log is what its comment computes
(`LogAssumption`), and that an account is not called like an outcome
(`ClientAssumption`). One theorem has a hypothesis of its own:
`QuotesAreServed` takes base URLs whose path does not end in `quotes/quotes`
(`QuoteBasesNamed`), as those of the repository's README.md lines 45 to 46 do not;
the code adds the collection only where the path does not end in it.

Every safety and action property of a passing run is stated by a theorem. For each
module the proof is that of an inductive invariant; what follows says why it is as
strong as it is.

- `WorkflowCapacityProofs`. The inductive invariant `CapacityInv` is the type
  invariant, `SlotAccounted` and `QueueAccounted` together: a hand-over must
  reach exactly one waiting call, which the queue part says, and a queue must
  have a holder to serve it, which both say. `OldestAdmitted` needs
  `WaitingInOrder` on top, the order of the queue against the order of the
  calls. The refinement maps every step to a step of `SerialExecution` or a
  stutter. The lemmas `OneLeaves` and `OneJoins` are what splice, shift and push
  do to a list without repetitions.
- `AdminWorkflowProofs`. Every step of the workflow is a step of the slot or
  leaves it alone, so all theorems of the slot hold of the workflow. On top,
  `WorkflowInv` says that an owner between grant and release has the live lease
  unless it lapsed; serial execution within the API follows from the slot alone.
- `AdminManagementProofs`. `ManagementInv` says of every job what the code
  relies on without reading it again. Only one job is past the entrance of the
  lock (`LockHeld`); so the actor that was read is still a manager
  (`Authorized`), the target that was loaded still exists with the privilege it
  had (`TargetKnown`), and the other admin or manager that was counted is still
  there (`OthersRemain`). The password reset, the one job outside the lock, can
  spoil none of this, because it changes neither set. `VersionTells` says that a
  document found in the version in which it was loaded also has the `authVersion`
  it was loaded with, which makes "one more than loaded" higher than every
  version before; ids are fresh when they are created (`TargetFresh`,
  `NewIdsDiffer`), or a late create could revive a deleted document. From these
  follow `ActorIsManager`, `KeepsManager`, `KeepsAdmin` and `ChangesRevoke`, for
  any finite set of admins; `KeepsLast` is the two of them. TLC checked the invariant on the instance of the run
  before it was proved.
- `AccountsProofs`. `IdentityInv` follows every write that is still due,
  in the program or late at the database (`Claim`): the row of an
  address that it will store, or has to free, names its account, which does not
  have that address (`ClaimHeld`), and no two of them claim the same row
  (`Apart`), unless the account is gone meanwhile. Hence the
  rows a job frees, now or later, are no longer in use. `StartupInv` says what
  each pass of the reconciliation leaves to the next one, wherever a crash cut an
  earlier start short. From these follow `OneOwner` while the process serves, and
  `StartIsExact`. `NothingLeftBehind` needs the converse on top: `CleanInv` says
  that as long as no reply was lost, a row that its owner does not have is claimed by
  a job or about to be purged (`Awaited`), and the proof follows a claim from step to
  step of its job. What `TutorAssignmentProofs` shows is carried over to the
  composition by its name for every definition (`Assigning`).
- `TutorAssignmentProofs`. `AssignmentInv` says what the one request inside the
  lock has read and still relies on (`KnownInside`), and that an assigned tutor is
  active unless a suspension is on its way through the users (`Suspending`), or
  something happened that `cut` records. Profile updates (`Own`) change neither a
  status nor an assignment, so what the holder knows stays true beside them; a write
  that was given up may change both (`BesideWrites`), and the lemma `StandsBeside`
  says what the holder knows nevertheless, but for `cut` and `crossed`. That a tutor
  once approved is never pending again (`ApprovedOnce`) needs neither: it is what an
  assignment carried out late still rests on. Other requests change versions, hence
  `Tells`, which relates a loaded tutor to its `authVersion` as `VersionTells` does
  for admins. From these follow `AssignedIsFit` and `TutorsAct`, for any tutors, users
  and requests.
- `SessionsProofs`. `SessionsInv` rests on one fact: no session, stored or held
  by a request, and no loaded document is ahead of its account (`Good`), so
  a new `authVersion` is one nobody carries yet, and every change makes all
  sessions stale at once. `DocGood` relates a loaded document to the session
  that loaded it: of the same `authVersion`, unless the load was a crossing; and
  a document found in the version in which it was loaded has the `authVersion`
  it had, on which the identity written after the save relies. `KeepsId` says
  that a request that will save holds an id of its session's owner. Types and all
  three properties of the run follow, for any accounts, requests and ids.
- `ServerProofs`. One invariant for each part, and each outlasts the steps of the
  others because they leave its variables alone.
  - `PasswordInv`: slots and queue vouch for each other, since a hand-over moves a slot
    from the call that settles to the head of the queue. With it, every step is one
    of `BoundedExecution` or a stutter.
  - `RequestInv`, and `LifeRequestsInv` for the same middleware under the
    lifecycle: the slots taken are those of requests that have been admitted and not
    released, counted as a finite set, and what is booked for a request is what has
    not settled yet. `LifeInv` adds that past the drain all is quiet (`LifeQuiet`)
    and stays so, since nothing is admitted any more.
  - `LogInv`: the bytes handed over, and room for every record that is still owed
    (`LogRoom`), whatever the streams do. Admission keeps it, by `LogAssumption`.
  - `RateInv`: the counters stand in the order in which their windows end, which is
    why the loop of `prune()` may stop at the first live one, although the machine's
    clock may be set back. For `RateBounded` it follows every answer that let a client
    through: within its window its counter stands at least as high (`Backed`), so that
    the next answer of that counter has a higher number and no two answers of a window
    have the same (`OnceEach`); windows of one counter do not overlap, so that only two
    can meet the last length of a window (`TwoWindows`); an injection of the answers
    into four times the limit (`EarnedBounds`) concludes. This counts without a sum,
    whose properties would need induction over data.
  - `ProbeInv`: one check at a time is under way, while it is shared, and whoever has
    its result was there when it came back.
  - `QuoteInv`: which attempts precede the present one, and that a socket that did not
    help is answered for only when the page has gone.
  - `StreamInv`: what is whole so far, and that nothing is written past what the
    connection takes.
  - `PromotionInv`: what a candidate under way, a rollback under way and an ended
    script each have left on the host, and that there is something to go back to.
    `PreparationInv`: a marker vouches for the build and its checks, a promotion for
    the marker (`MarkersVouch`), and what serves or may have to serve again has one,
    also after a promotion that died (`SelectionVouched`).
  - The slot within the server is that of `WorkflowCapacity` (`SlotRuns`), so the
    theorems about it hold here.
- `BrowserProofs`, in the same way.
  - `AdminInv`: the privilege is shown as long as the server knows it
    (`ManagerShown`); without interference the page and the server differ only while
    the account gives up its own privilege (`Undisturbed`); and what was changed in a
    directory is shown, or a load has seen it, or one is still to come (`Follows`).
  - `DraftInv`: what was typed is in the form, and the answers of two saves differ from
    the stored account only in the field of the later one (`AnswersAreTrue`).
  - `ViewInv`: the load that counts is of the present session (`OfTheSession`), the
    cursors are of the search shown (`OfTheSearch`), and a lookup that still counts was
    sent after the last choice (`LookupIsNewer`).
  - `ClientInv`: a write is carried out at most once and then answered (`WritesOnce`),
    no call of the present session shows an account where one was signed out
    (`EntersAlone`), and without interference the page shows the account of the
    session, or knows of the one write that moved it (`SessionFollows`).
  - `PagingInv`: what a walk has seen is in order and before the place from which it
    goes on, every account whose row stayed was seen or is ahead, and pages of
    unchanged rows lead on and back (`WaysLead`). It rests on lemmas about ranks in a
    finite set: the rows of a directory in order are each row once (`SortedInOrder`),
    what is fetched is its beginning beyond the cursor (`FetchedAndSelected`), and two
    runs that end alike are equal (`TailsAreEqual`).

## What is only model-checked

- Liveness, which is beyond the prover: `CallsAnswered` of `AdminWorkflow`,
  `WorkEnds` of `Server` and `BrowserWorkEnds` of `Browser`.
- The violations, and the faulty variants.

## What is abstracted

Payloads, names, wording, audit and service logs, HTTP status codes beyond
success and refusal, validation of inputs. The e-mail reservation inside the
creation of an admin is a possible failure in `AdminManagement` and modelled
in full in `IdentityRegistry`. Password hashing is a point at which a job may
fail. The scratch index of the startup is what it knows: the owner of each
address and which rows were verified.

## Not modelled

- The migration at start-up: seven idempotent `updateMany` calls, before the
  reconciliation and with nothing next to them.
- Configuration, Vault access and the validation of inputs: they parse, and the
  models take their results as inputs.
- `useUnsavedChanges.ts` beyond the condition of one view's warning: the sum over
  the views on a page.
- Layout, routing and translation of the front end, which share no state.
- `install-api-unit.sh` and the build, measurement and verification scripts, which are
  run by hand outside of the running system.
- Reconciliation by an operator command while the API serves: the deployment
  documents ask for exclusive maintenance, which the models assume.

## Plan

1. (done) The slot, the workflow, identity registry, managers, tutors, sessions;
   proofs of the slot, the workflow, the managers and the sessions.
2. (done) Password slots, requests, lifecycle, log, rates, readiness, quotes,
   directories; the page's session, directories, forms and the administrator's
   page; preparation and promotion of releases.
3. (done) The proofs of the identity registry and of tutors and their users.
4. (done) The proofs of the modules of 2, part by part, in `ServerProofs` and
   `BrowserProofs`.
5. More refinements: abstract specifications of the session of a page and of a
   promotion, against which their invariants are shown now.
