------------------------------ MODULE ProfileDraft ------------------------------
(***************************************************************************)
(* The profile page: the form of useEditable.ts (with ProfileFields.vue),  *)
(* the form of ChangeCredentials.vue next to it, and what both count as    *)
(* unsaved (useUnsavedChanges.ts).  Each form submits one change at a time *)
(* and both write the same account, so two answers may be on their way.    *)
(*                                                                         *)
(* `name` stands for the fields of the profile, which are submitted        *)
(* together.  A page that is left and a session that ends are modelled in  *)
(* DirectoryView and ClientSession.                                        *)
(***************************************************************************)
EXTENDS Naturals

CONSTANTS
  Names,       \* what may be typed as the name
  Emails,      \* addresses as the server keeps them
  Spellings,   \* what may be typed as the address: Emails and other spellings
  Normal(_),   \* trim().toLowerCase() of a spelling
  None,
  Overtaking   \* bound: answers that overtake one the server sent before

DraftAssumption ==
  /\ Emails \subseteq Spellings /\ \A s \in Spellings : Normal(s) \in Emails
  /\ \A e \in Emails : Normal(e) = e
  /\ None \notin Names \cup Spellings /\ Overtaking \in Nat

VARIABLES
  server,     \* the account as stored: name and email
  shown,      \* currentUser and the like
  editing,
  draft,      \* draft.name, None while not editing
  original,   \* original.name
  email,      \* of the credentials form
  password,   \* its password fields are not empty
  calls,      \* the PUT of each form: what it carries and, once executed, its answer
  first,      \* the form whose change the server executed first of two
  overtakes,  \* answers that have overtaken another so far
  typed,      \* ghost: the name typed last, until it is confirmed as saved or discarded
  unsure      \* ghost: a call has failed without an answer

vars == <<server, shown, editing, draft, original, email, password, calls, first, overtakes, typed, unsure>>

Forms == {"profile", "credentials"}
Other(form) == IF form = "profile" THEN "credentials" ELSE "profile"
Idle == [stage |-> "idle", value |-> None, answer |-> None]
Pending(form) == calls[form] # Idle

Init ==
  /\ server \in [name : Names, email : Emails]
  /\ shown = server
  /\ editing = FALSE /\ draft = None /\ original = None
  /\ email = shown.email /\ password = FALSE
  /\ calls = [f \in Forms |-> Idle]
  /\ first = None /\ overtakes = 0
  /\ typed = None /\ unsure = FALSE

-----------------------------------------------------------------------------
(* Faulty variants of the operators below, each the code after a plausible   *)
(* slip; no specification uses them, they show what the properties detect.   *)

\* The form closed when its save is confirmed.
NewerNever == FALSE
\* The draft of the address replaced with the account.
FollowedAlways(was, is) == is
\* The account refreshed by the form for the profile only.
UpdatedByProfile(form) == IF form = "profile" THEN calls[form].answer ELSE shown

-----------------------------------------------------------------------------
(* The forms *)

UnsavedProfile == Pending("profile") \/ (editing /\ draft # original)
UnsavedCredentials == Pending("credentials") \/ email # shown.email \/ password

\* toggle()
Edit ==
  /\ ~editing /\ ~Pending("profile")
  /\ editing' = TRUE
  /\ original' = shown.name /\ draft' = shown.name
  /\ UNCHANGED <<server, shown, email, password, calls, first, overtakes, typed, unsure>>

\* toggle() again, and the person agrees to lose what is not saved.
Discard ==
  /\ editing /\ ~Pending("profile")
  /\ editing' = FALSE /\ draft' = None /\ typed' = None
  /\ UNCHANGED <<server, shown, original, email, password, calls, first, overtakes, unsure>>

\* The fields stay open while a save is under way.
TypeName(n) ==
  /\ editing /\ n # draft
  /\ draft' = n /\ typed' = n
  /\ UNCHANGED <<server, shown, editing, original, email, password, calls, first, overtakes, unsure>>

Submit(form, value) ==
  /\ ~Pending(form)
  /\ calls' = [calls EXCEPT ![form] = [stage |-> "sent", value |-> value, answer |-> None]]
  /\ UNCHANGED <<server, shown, editing, draft, original, email, password, first, overtakes, typed, unsure>>

\* save()
SaveProfile == editing /\ Submit("profile", draft)

TypeCredentials ==
  /\ ~Pending("credentials")
  /\ email' \in Spellings /\ password' \in BOOLEAN
  /\ UNCHANGED <<server, shown, editing, draft, original, calls, first, overtakes, typed, unsure>>

ChangesEmail == Normal(email) # shown.email

\* saveCredentials()
SaveCredentials ==
  /\ ChangesEmail \/ password
  /\ Submit("credentials", IF ChangesEmail THEN Normal(email) ELSE None)

-----------------------------------------------------------------------------
(* The server, which answers with the account as it is then *)

Written(form, value) ==
  IF value = None THEN server
  ELSE IF form = "profile" THEN [server EXCEPT !.name = value] ELSE [server EXCEPT !.email = value]

Execute(form) ==
  /\ calls[form].stage = "sent"
  /\ server' = Written(form, calls[form].value)
  /\ calls' = [calls EXCEPT ![form].stage = "executed", ![form].answer = server']
  /\ first' = IF calls[Other(form)].stage = "executed" THEN Other(form) ELSE form
  /\ UNCHANGED <<shown, editing, draft, original, email, password, overtakes, typed, unsure>>

-----------------------------------------------------------------------------
(* The answers *)

InTurn(form) ==
  IF calls[Other(form)].stage = "executed" /\ first # form
  THEN overtakes < Overtaking /\ overtakes' = overtakes + 1
  ELSE UNCHANGED overtakes

\* The watcher of the account's address.
Followed(was, is) == IF email = was THEN is ELSE email

Updated(form) == calls[form].answer

\* setCurrentUser() and its like
SetCurrent(account) ==
  /\ shown' = account
  /\ email' = IF account.email = shown.email THEN email ELSE Followed(shown.email, account.email)

\* Something was typed while this was being saved.
Newer == draft # calls["profile"].value

ProfileSaved ==
  /\ calls["profile"].stage = "executed" /\ InTurn("profile")
  /\ SetCurrent(Updated("profile"))
  /\ calls' = [calls EXCEPT !["profile"] = Idle]
  /\ typed' = IF typed = calls["profile"].value THEN None ELSE typed
  /\ IF Newer
     THEN original' = shown'.name /\ UNCHANGED <<editing, draft>>
     ELSE editing' = FALSE /\ draft' = None /\ UNCHANGED original
  /\ UNCHANGED <<server, password, first, unsure>>

CredentialsSaved ==
  /\ calls["credentials"].stage = "executed" /\ InTurn("credentials")
  /\ SetCurrent(Updated("credentials"))
  /\ calls' = [calls EXCEPT !["credentials"] = Idle]
  /\ password' = FALSE
  /\ UNCHANGED <<server, editing, draft, original, first, typed, unsure>>

\* The server refuses; or no answer comes, whether it has executed the change or not.
NotConfirmed(form) ==
  /\ Pending(form)
  /\ calls' = [calls EXCEPT ![form] = Idle]
  /\ unsure' \in {TRUE} \cup (IF calls[form].stage = "sent" THEN {unsure} ELSE {})
  /\ UNCHANGED <<server, shown, editing, draft, original, email, password, first, overtakes, typed>>

Next ==
  \/ Edit \/ Discard \/ \E n \in Names : TypeName(n)
  \/ SaveProfile \/ TypeCredentials \/ SaveCredentials
  \/ ProfileSaved \/ CredentialsSaved
  \/ \E f \in Forms : Execute(f) \/ NotConfirmed(f)

Spec == Init /\ [][Next]_vars

-----------------------------------------------------------------------------
(* Properties *)

\* Types of the variables.
TypeOK ==
  /\ {server, shown} \subseteq [name : Names, email : Emails]
  /\ editing \in BOOLEAN /\ password \in BOOLEAN /\ unsure \in BOOLEAN
  /\ draft \in Names \cup {None} /\ (draft = None) = ~editing
  /\ email \in Spellings
  /\ typed \in Names \cup {None}
  /\ \A f \in Forms : calls[f].stage \in {"idle", "sent", "executed"}

\* docs/directory-contract.md:56-58: what was typed stays in the form until a save
\* of just that is confirmed or the person discards it, through earlier saves,
\* failures and the other form;
\* and a name or address the server does not have is warned about, unless a call
\* ended without an answer or one answer overtook another.
WorkIsKept ==
  /\ typed # None => editing /\ draft = typed
  /\ ~unsure /\ overtakes = 0 /\ typed # None /\ typed # server.name => UnsavedProfile
  /\ ~unsure /\ overtakes = 0 /\ Normal(email) # server.email => UnsavedCredentials

\* An address that was typed is never replaced by the answer to a save of the
\* profile, and follows the account where nothing was typed.
AddressFollows ==
  [][/\ ProfileSaved /\ email # shown.email => email' = email
     /\ shown' # shown /\ email = shown.email => email' = shown'.email]_vars

\* docs/directory-contract.md:56: "Confirmed saves update the account", so at rest
\* the account shown is the one stored, unless an answer was overtaken by another:
\* each form takes the whole account from its own.
ConfirmedIsShown ==
  ~Pending("profile") /\ ~Pending("credentials") /\ ~unsure /\ overtakes = 0 => shown = server
=============================================================================
