----------------------------- MODULE ClientSession -----------------------------
(***************************************************************************)
(* One page of the browser: front-end/src/api.ts, stores/app.ts and the    *)
(* components that call them (login and sign-up in AccountManagement.vue,  *)
(* useDeleteAccount.ts, useEditable.ts), over the one session the browser  *)
(* has at the server, which other tabs share.                              *)
(*                                                                         *)
(* Epochs are only compared for equality with the present one, so a call   *)
(* has a flag for having an older one: `stale`.  An aborted call ends at   *)
(* once.  bootstrapSession() is called when the page is mounted, and only  *)
(* it calls refreshCurrent...().                                           *)
(***************************************************************************)
EXTENDS Naturals, FiniteSets

CONSTANTS
  Writes,      \* the mutations of the page, each submitted once
  Accounts,    \* the accounts of the person at the browser
  Nobody,      \* no account
  OtherTabs,   \* bound: changes of the session by other tabs
  Losses       \* bound: calls whose answer never comes, by timeout or failure

\* The first call of a page, bootstrapSession().
Boot == "boot"
\* What a call is answered, but for the account that bootstrapSession() asks for.
Outcomes == {"none", "ok", "rejected", "denied", "lost"}

ClientAssumption ==
  /\ Nobody \notin Accounts /\ {OtherTabs, Losses} \subseteq Nat
  /\ Boot \notin Writes /\ (Accounts \cup {Nobody}) \cap Outcomes = {}

VARIABLES
  session,     \* the account of the session at the server
  token,       \* its CSRF token: a number, fresh with every session
  shown,       \* currentUser, currentTutor or currentAdmin
  csrfToken,   \* the variable of that name, 0 for null
  csrf,        \* csrfRequest: none, sent, or answered with a token
  calls,       \* the calls of the page: its bootstrap and its writes
  tabs,        \* changes by other tabs so far
  lost,        \* answers lost so far
  executed,    \* ghost: how often the server carried out each write
  signedOut    \* ghost: logout was confirmed and no login has been tried since

vars == <<session, token, shown, csrfToken, csrf, calls, tabs, lost, executed, signedOut>>

NoRequest == [stage |-> "none", token |-> 0]
Calls == Writes \cup {Boot}
Entering == {"login", "signup"}
Kinds == Entering \cup {"me", "account", "logout", "delete", "save", "credentials"}
Answers == Accounts \cup {Nobody} \cup Outcomes

\* token: what the call carries; retried: _csrfRetried; stale: _sessionEpoch is old.
Unsent(kind) ==
  [kind |-> kind, who |-> Nobody, stage |-> "idle", token |-> 0,
   retried |-> FALSE, stale |-> FALSE, answer |-> "none"]

Init ==
  /\ session \in Accounts \cup {Nobody}
  /\ token = 1
  /\ shown = Nobody
  /\ csrfToken = 0
  /\ csrf = NoRequest
  /\ calls = [c \in Calls |->
       IF c = Boot THEN [Unsent("me") EXCEPT !.stage = "sent"] ELSE Unsent("save")]
  /\ tabs = 0
  /\ lost = 0
  /\ executed = [c \in Writes |-> 0]
  /\ signedOut = FALSE

Ended(call, how) == [call EXCEPT !.stage = "ended", !.answer = how]
Cancelled(call) == [call EXCEPT !.stage = "cancelled"]
Under(stage) == stage \in {"token", "sent", "answered"}

\* sessionBusy, set by login, sign-up and logout until they are over.
Busy == \E c \in Writes : calls[c].kind \in Entering \cup {"logout"} /\ Under(calls[c].stage)

-----------------------------------------------------------------------------
(* Faulty variants of the operators below, each the code after a plausible   *)
(* slip; no specification uses them, they show what the properties detect.   *)

\* A write repeated when its answer does not come.
RetriesLost(call) == call.answer \in {"rejected", "lost"} /\ ~call.retried
\* The epoch looked at by nobody when an answer comes.
ObsoleteNever(call) == FALSE
\* No word to those who wait for a token, and no second look at the epoch.
ResetKeepingWrites(all) ==
  [c \in Calls |->
     IF c = Boot /\ Under(all[c].stage) THEN [Cancelled(all[c]) EXCEPT !.stale = TRUE]
     ELSE IF Under(all[c].stage) THEN [all[c] EXCEPT !.stale = TRUE] ELSE all[c]]

-----------------------------------------------------------------------------
(* The client *)

Requested == [stage |-> "sent", token |-> 0]

\* clearCsrfToken(): whoever waits for the token is cancelled.
WithoutToken(all) ==
  [c \in Calls |-> IF all[c].stage = "token" THEN Cancelled(all[c]) ELSE all[c]]

\* resetApiSession(): reads are aborted, writes on their way become stale.
Reset(all) ==
  [c \in Calls |->
     IF ~Under(all[c].stage) THEN all[c]
     ELSE IF c = Boot \/ all[c].stage = "token" THEN [Cancelled(all[c]) EXCEPT !.stale = TRUE]
     ELSE [all[c] EXCEPT !.stale = TRUE]]

\* clearSession(), and the setters that show another account.
Show(account, all) ==
  /\ shown' = account
  /\ calls' = Reset(all)
  /\ csrfToken' = 0
  /\ csrf' = NoRequest

\* setCurrentUser() and its like, given the same account or another.
SetCurrent(account, all) ==
  IF account = shown
  THEN calls' = all /\ UNCHANGED <<shown, csrfToken, csrf>>
  ELSE Show(account, all)

\* The request interceptor: a write goes out with the token or waits for it.
Send(c, call, all, have) ==
  IF have # 0
  THEN calls' = [all EXCEPT ![c] = [call EXCEPT !.stage = "sent", !.token = have]] /\ UNCHANGED csrf
  ELSE /\ calls' = [all EXCEPT ![c] = [call EXCEPT !.stage = "token"]]
       /\ csrf' = IF csrf = NoRequest THEN Requested ELSE csrf

Submit(c, kind, who) ==
  /\ calls[c].stage = "idle"
  /\ Send(c, [calls[c] EXCEPT !.kind = kind, !.who = who], calls, csrfToken)
  /\ signedOut' = (signedOut /\ kind \notin Entering)
  /\ UNCHANGED <<session, token, shown, csrfToken, tabs, lost, executed>>

\* loginTutor() and addSignup(): offered to a page that shows no account.
Enter(c, kind, who) == ~Busy /\ shown = Nobody /\ Submit(c, kind, who)
LogOut(c) == ~Busy /\ shown # Nobody /\ Submit(c, "logout", shown)
\* A deletion or a save does not look at sessionBusy.
Act(c, kind) == shown # Nobody /\ Submit(c, kind, shown)

\* getCsrfToken() comes back to all who wait for it.
TokenArrives ==
  /\ csrf.stage = "answered"
  /\ csrfToken' = csrf.token
  /\ csrf' = NoRequest
  /\ calls' = [c \in Calls |-> IF calls[c].stage = "token"
                 THEN [calls[c] EXCEPT !.stage = "sent", !.token = csrf.token] ELSE calls[c]]
  /\ UNCHANGED <<session, token, shown, tabs, lost, executed, signedOut>>

\* An error of the token request has a config without _sessionEpoch, which the
\* response interceptor of those who wait takes for one of another session.
TokenFails ==
  /\ csrf = Requested
  /\ lost < Losses
  /\ lost' = lost + 1
  /\ csrf' = NoRequest
  /\ calls' = WithoutToken(calls)
  /\ UNCHANGED <<session, token, shown, csrfToken, tabs, executed, signedOut>>

-----------------------------------------------------------------------------
(* The response interceptor and the callers *)

Obsolete(call) == call.stale
Retries(call) == call.answer = "rejected" /\ ~call.retried

\* The answer to a call of an older session: CanceledError.
DropObsolete(c) ==
  /\ calls[c].stage = "answered" /\ Obsolete(calls[c])
  /\ calls' = [calls EXCEPT ![c] = Cancelled(@)]
  /\ UNCHANGED <<session, token, shown, csrfToken, csrf, tabs, lost, executed, signedOut>>

\* Rejected before anything was done: once more, with a new token.
Retry(c) ==
  /\ calls[c].stage = "answered" /\ ~Obsolete(calls[c]) /\ Retries(calls[c])
  /\ calls' = [WithoutToken(calls) EXCEPT
                 ![c] = [@ EXCEPT !.stage = "token", !.retried = TRUE, !.answer = "none"]]
  /\ csrfToken' = 0
  /\ csrf' = Requested
  /\ UNCHANGED <<session, token, shown, tabs, lost, executed, signedOut>>

\* The bootstrap call is given one of these answers.
Read(kind, answers) ==
  /\ calls[Boot].stage = "answered" /\ ~Obsolete(calls[Boot])
  /\ calls[Boot].kind \in kind /\ calls[Boot].answer \in answers
  /\ UNCHANGED <<session, token, tabs, lost, executed, signedOut>>

\* bootstrapSession(): there is an account, which is loaded next, or none.
BootKnows ==
  /\ Read({"me"}, Accounts)
  /\ calls' = [calls EXCEPT ![Boot].kind = "account", ![Boot].stage = "sent"]
  /\ UNCHANGED <<shown, csrfToken, csrf>>
BootDenied ==
  Read({"me", "account"}, {Nobody, "denied"}) /\ Show(Nobody, [calls EXCEPT ![Boot] = Ended(@, "denied")])

\* refreshCurrentUser() and its like.
AccountRead ==
  /\ Read({"account"}, Accounts)
  /\ SetCurrent(calls[Boot].answer, [calls EXCEPT ![Boot] = Ended(@, "ok")])

\* "Your current work has been kept; please retry."
ReadFailed ==
  /\ Read({"me", "account"}, {"lost"})
  /\ calls' = [calls EXCEPT ![Boot] = Ended(@, "lost")]
  /\ UNCHANGED <<shown, csrfToken, csrf>>

\* The answer is given to the caller, whose `revision` is then the present one.
Given(c, kind, answers) ==
  LET call == calls[c] IN
  /\ call.stage = "answered" /\ ~Obsolete(call) /\ ~Retries(call)
  /\ call.kind = kind /\ call.answer \in answers
  /\ UNCHANGED <<session, token, tabs, lost, executed>>
Over(c) == [calls EXCEPT ![c] = Ended(@, @.answer)]

LoggedIn(c) == Given(c, "login", {"ok"}) /\ Show(calls[c].who, Over(c)) /\ UNCHANGED signedOut
SignedUp(c) == Given(c, "signup", {"ok"}) /\ SetCurrent(calls[c].who, Over(c)) /\ UNCHANGED signedOut
Saved(c) == Given(c, "save", {"ok"}) /\ SetCurrent(calls[c].who, Over(c)) /\ UNCHANGED signedOut
\* New credentials come with a new token, which the response interceptor keeps.
CredentialsSaved(c) ==
  /\ Given(c, "credentials", {"ok"})
  /\ csrfToken' = calls[c].token
  /\ calls' = Over(c)
  /\ UNCHANGED <<shown, csrf, signedOut>>
Deleted(c) == Given(c, "delete", {"ok"}) /\ Show(Nobody, Over(c)) /\ signedOut' = TRUE
\* No session at the server is as good as a session that is over.
LoggedOut(c) == Given(c, "logout", {"ok", "denied"}) /\ Show(Nobody, Over(c)) /\ signedOut' = TRUE
\* A message is displayed, and the page stays as it is.
Failed(c) ==
  /\ \E kind \in Kinds \ {"logout"} : Given(c, kind, {"rejected", "denied", "lost"})
     \/ Given(c, "logout", {"rejected", "lost"})
  /\ calls' = Over(c)
  /\ UNCHANGED <<shown, csrfToken, csrf, signedOut>>

-----------------------------------------------------------------------------
(* The server, and other tabs *)

ServeToken ==
  /\ csrf = Requested
  /\ csrf' = [stage |-> "answered", token |-> token]
  /\ UNCHANGED <<session, token, shown, csrfToken, calls, tabs, lost, executed, signedOut>>

\* A logout ends whatever session there is; the rest is for the account it names.
Meant(call) == session = call.who \/ (call.kind = "logout" /\ session # Nobody)

\* An account may enter, or be refused.
Verdicts(call) ==
  IF call.kind \in Entering THEN {"ok", "denied"}
  ELSE IF Meant(call) THEN {"ok"} ELSE {"denied"}

\* The answers to a call.
Verdict(c) ==
  LET call == calls[c] IN
  IF c = Boot THEN {IF call.kind = "account" /\ session = Nobody THEN "denied" ELSE session}
  ELSE IF call.token # token THEN {"rejected"} ELSE Verdicts(call)

\* What is carried out changes the session and, but for a profile, its token; an
\* answer with credentials carries the new one.
SessionAfter(call) ==
  IF call.kind \in Entering THEN call.who
  ELSE IF call.kind \in {"logout", "delete"} THEN Nobody ELSE session
Rotates(kind) == kind # "save"

Serve(c, answer) ==
  LET call == calls[c]
      answered == [call EXCEPT !.stage = "answered", !.answer = answer,
                     !.token = IF answer = "ok" /\ Rotates(call.kind) THEN token + 1 ELSE @]
  IN
  /\ call.stage = "sent"
  /\ \/ calls' = [calls EXCEPT ![c] = answered] /\ UNCHANGED lost
     \/ /\ lost < Losses /\ lost' = lost + 1
        /\ calls' = [calls EXCEPT ![c].stage = "answered", ![c].answer = "lost"]
  /\ IF answer = "ok"
     THEN /\ executed' = [executed EXCEPT ![c] = @ + 1]
          /\ session' = SessionAfter(call)
          /\ token' = IF Rotates(call.kind) THEN token + 1 ELSE token
     ELSE UNCHANGED <<executed, session, token>>
  /\ UNCHANGED <<shown, csrfToken, csrf, tabs, signedOut>>

\* The call does not reach the server.
Lose(c) ==
  /\ calls[c].stage = "sent"
  /\ lost < Losses
  /\ lost' = lost + 1
  /\ calls' = [calls EXCEPT ![c].stage = "answered", ![c].answer = "lost"]
  /\ UNCHANGED <<session, token, shown, csrfToken, csrf, tabs, executed, signedOut>>

OtherTab(account) ==
  /\ tabs < OtherTabs
  /\ tabs' = tabs + 1
  /\ session' = account
  /\ token' = token + 1
  /\ UNCHANGED <<shown, csrfToken, csrf, calls, lost, executed, signedOut>>

Next ==
  \/ BootKnows \/ BootDenied \/ AccountRead \/ ReadFailed \/ ServeToken \/ TokenArrives \/ TokenFails
  \/ \E c \in Writes :
       \/ \E kind \in Entering, who \in Accounts : Enter(c, kind, who)
       \/ LogOut(c) \/ (\E kind \in {"delete", "save", "credentials"} : Act(c, kind))
       \/ Retry(c) \/ DropObsolete(c)
       \/ LoggedIn(c) \/ SignedUp(c) \/ Saved(c) \/ CredentialsSaved(c) \/ Deleted(c) \/ LoggedOut(c) \/ Failed(c)
  \/ \E c \in Calls : Lose(c) \/ \E answer \in Verdict(c) : Serve(c, answer)
  \/ \E account \in Accounts \cup {Nobody} : OtherTab(account)

Spec == Init /\ [][Next]_vars

-----------------------------------------------------------------------------
(* Properties *)

\* Types of the variables.
TypeOK ==
  /\ {session, shown} \subseteq Accounts \cup {Nobody}
  /\ token \in Nat /\ csrfToken \in 0 .. token
  /\ csrf \in [stage : {"none", "sent", "answered"}, token : 0 .. token]
  /\ calls \in [Calls -> [kind : Kinds, who : Accounts \cup {Nobody},
       stage : {"idle", "token", "sent", "answered", "ended", "cancelled"},
       token : 0 .. token, retried : BOOLEAN, stale : BOOLEAN, answer : Answers]]
  /\ tabs \in 0 .. OtherTabs /\ lost \in 0 .. Losses
  /\ executed \in [Writes -> Nat] /\ signedOut \in BOOLEAN

\* api.ts:77: the repetition of a rejected write never carries it out twice,
\* whatever answers were lost and whatever other tabs did to the token.
ExecutedOnce == \A c \in Writes : executed[c] <= 1

\* store.app.actions.spec.test.ts:17: after a confirmed logout no answer that
\* was on its way shows an account again.
SignedOutStays == signedOut => shown = Nobody

\* directory-contract.md:52: an old session's write is not sent again, or sent
\* at last, when the page has another session or none.
StaleNeverSent ==
  [][\A c \in Writes :
       calls[c].stale /\ calls'[c].stage = "sent" => calls[c].stage = "sent"]_vars

Quiet == csrf = NoRequest /\ \A c \in Calls : ~Under(calls[c].stage)

\* directory-contract.md:47, "Late responses cannot restore old accounts": when
\* all is quiet, and nobody else touched the session, nothing was lost and no write
\* was carried out whose answer the page then dropped, the account shown is the
\* one the server has, if any is shown.
NoOldAccount ==
  Quiet /\ tabs = 0 /\ lost = 0 /\ (\A c \in Writes : executed[c] > 0 => calls[c].stage = "ended") =>
    shown \in {Nobody, session}

\* directory-contract.md:57, "Temporary failures retain the draft and display the
\* failure": useEditable.ts:74 displays all but cancelled saves, so none of the
\* present session may end as cancelled.
FailureDisplayed ==
  \A c \in Writes :
    calls[c].stage = "cancelled" /\ calls[c].kind = "save" => calls[c].stale
=============================================================================
