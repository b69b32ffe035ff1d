----------------------------- MODULE DirectoryView -----------------------------
(***************************************************************************)
(* A view with a directory and a choice in it: composables/useDirectory.ts *)
(* with its controls (DirectoryControls.vue) as UserSignup.vue uses them   *)
(* to choose a tutor, while the session changes under the view.            *)
(*                                                                         *)
(* Numbers of requests and revisions are only compared for equality with   *)
(* the present ones: `latest` names the load that counts, and a lookup     *)
(* knows whether a choice was made since.                                  *)
(***************************************************************************)
EXTENDS Naturals, Sequences

CONSTANTS
  Accounts,   \* who may be signed in
  Nobody,
  Queries,    \* texts of the search box, All among them for none
  All,
  Tutors,     \* tutors to choose
  NoTutor,
  Loads,      \* bound: loads of the directory
  Sessions    \* bound: changes of sessionRevision

ViewAssumption ==
  Nobody \notin Accounts /\ All \in Queries /\ NoTutor \notin Tutors /\ {Loads, Sessions} \subseteq Nat

VARIABLES
  account,   \* currentUser, or Nobody, or Disposed once the view is gone
  tutor,     \* currentUser.tutor
  revision,  \* sessionRevision
  query,     \* of the search box
  loads,     \* the requests made
  latest,    \* the one whose number is `sequence`, 0 for none
  items,     \* the page shown: whose, of which session and search, or Empty
  cursors,   \* nextCursor and previousCursor: the search each was made for, or Null
  current,   \* params of the page shown
  loading,
  error,     \* of the directory
  selected,  \* selectedTutor
  lookup,    \* the request for the assigned tutor: "none", "sent", or "outdated"
             \*   once a choice was made
  saving

directory == <<query, loads, latest, items, cursors, current, loading, error>>
choice == <<selected, lookup, saving>>
session == <<account, tutor, revision>>
vars == <<directory, choice, session>>

Disposed == "disposed"
Null == "null"
Empty == [who |-> Nobody, revision |-> 0, q |-> Null]
NoCursors == [next |-> Null, previous |-> Null]
NoParams == [q |-> All, cursor |-> Null]

-----------------------------------------------------------------------------
(* Faulty variants of the operators below, each the code after a plausible   *)
(* slip; no specification uses them, they show what the properties detect.   *)

\* An answer taken from whichever request it is.
IsLatestAlways(i) == TRUE
\* The text of the search box sent with the cursor of another search.
PageQueryOfBox == query
\* loading reset on success only.
DoneAfterPage(outcome) == outcome = "page"
\* The number of the selection looked at before the request only.
LookupCountsAlways == TRUE

-----------------------------------------------------------------------------
(* useDirectory *)

\* load(): the request before is aborted, and no longer counts in any case.
Load(params) ==
  /\ Len(loads) < Loads
  /\ loads' = Append(loads, [who |-> account, revision |-> revision, params |-> params, sent |-> TRUE])
  /\ latest' = Len(loads) + 1
  /\ loading' = TRUE
  /\ error' = FALSE

Enabled == account \notin {Nobody, Disposed}

\* The buttons are disabled while loading.
Asked(params) ==
  /\ Enabled /\ ~loading
  /\ Load(params)
  /\ UNCHANGED <<query, items, cursors, current, choice, session>>

Type(text) ==
  /\ Enabled /\ query # text
  /\ query' = text
  /\ UNCHANGED <<loads, latest, items, cursors, current, loading, error, choice, session>>

\* pageParams
PageQuery == current.q

Search == Asked([q |-> query, cursor |-> Null])
NextPage == cursors.next # Null /\ Asked([q |-> PageQuery, cursor |-> cursors.next])
PreviousPage == cursors.previous # Null /\ Asked([q |-> PageQuery, cursor |-> cursors.previous])
Refresh == Asked(current)

\* A view calls refresh() after its own actions (AdminProfile.vue), loading or not.
RefreshAfterAction ==
  /\ Enabled
  /\ Load(current)
  /\ UNCHANGED <<query, items, cursors, current, choice, session>>

IsLatest(i) == i = latest
Done(outcome) == TRUE

\* A page, a refusal, or any other failure, a page that is not one included.  An
\* aborted request may still have its answer.
Answer(i, outcome) ==
  /\ loads[i].sent
  /\ loads' = [loads EXCEPT ![i].sent = FALSE]
  /\ IF ~IsLatest(i)
     THEN UNCHANGED <<items, cursors, current, error, loading>>
     ELSE /\ loading' = (loading /\ ~Done(outcome))
          /\ error' = (outcome # "page")
          /\ \/ /\ outcome = "page"
                /\ items' = [who |-> loads[i].who, revision |-> loads[i].revision, q |-> loads[i].params.q]
                /\ cursors' \in [next : {Null, loads[i].params.q}, previous : {Null, loads[i].params.q}]
                /\ current' = loads[i].params
             \/ outcome = "denied" /\ items' = Empty /\ cursors' = NoCursors /\ UNCHANGED current
             \/ outcome = "failed" /\ UNCHANGED <<items, cursors, current>>
  /\ UNCHANGED <<query, latest, choice, session>>

-----------------------------------------------------------------------------
(* UserSignup *)

\* The setter of selectedTutorId, from the page shown.
Choose(t) ==
  /\ Enabled /\ items # Empty /\ ~saving /\ t # selected
  /\ selected' = t
  /\ lookup' = IF lookup = "sent" THEN "outdated" ELSE lookup
  /\ UNCHANGED <<directory, saving, session>>

\* The watcher of account, tutor and session: what was chosen goes, and the
\* assigned tutor is asked for again.
Assigned(who, t) ==
  /\ selected' = NoTutor
  /\ lookup' = IF who \in Accounts /\ t # NoTutor THEN "sent" ELSE "none"

\* controller.signal.aborted and the revision, looked at when the answer comes.
LookupCounts == lookup = "sent"

LookupAnswered ==
  /\ lookup # "none"
  /\ lookup' = "none"
  /\ selected' \in {selected} \cup (IF LookupCounts THEN {tutor} ELSE {})
  /\ UNCHANGED <<directory, saving, session>>

Save ==
  /\ Enabled /\ selected # NoTutor /\ ~saving
  /\ saving' = TRUE
  /\ UNCHANGED <<directory, selected, lookup, session>>

-----------------------------------------------------------------------------
(* The session *)

\* clear(), and the first page again where someone is signed in.
Restart(who, rev) ==
  /\ query' = All
  /\ items' = Empty
  /\ cursors' = NoCursors
  /\ current' = NoParams
  /\ error' = FALSE
  /\ IF who \in Accounts
     THEN /\ Len(loads) < Loads
          /\ loads' = Append(loads, [who |-> who, revision |-> rev, params |-> NoParams, sent |-> TRUE])
          /\ latest' = Len(loads) + 1
          /\ loading' = TRUE
     ELSE latest' = 0 /\ loading' = FALSE /\ UNCHANGED loads

\* setCurrentUser(), clearSession(): another account, or the same one anew; a
\* save that is answered later is of another session and ends as cancelled.
ChangeSession(who) ==
  /\ account # Disposed
  /\ revision < Sessions
  /\ revision' = revision + 1
  /\ account' = who
  /\ tutor' \in IF who = Nobody THEN {NoTutor} ELSE Tutors \cup {NoTutor}
  /\ Restart(who, revision + 1)
  /\ Assigned(who, tutor')
  /\ saving' = FALSE

\* The watchers look at lists made anew, so they also run when the account is only
\* replaced by its newer state: the answer to a save of the tutor,
Saved ==
  /\ saving /\ Enabled
  /\ saving' = FALSE
  /\ \/ /\ tutor' = selected
        /\ Restart(account, revision) /\ Assigned(account, tutor')
     \/ UNCHANGED <<tutor, directory, selected, lookup>>
  /\ UNCHANGED <<account, revision>>

\* or of the profile, begun on the page before.
ProfileSaved ==
  /\ Enabled
  /\ Restart(account, revision) /\ Assigned(account, tutor)
  /\ UNCHANGED <<session, saving>>

\* onScopeDispose
Dispose ==
  /\ account # Disposed
  /\ account' = Disposed /\ tutor' = NoTutor
  /\ Restart(Disposed, revision)
  /\ Assigned(Disposed, NoTutor)
  /\ UNCHANGED <<revision, saving>>

Init ==
  /\ account \in Accounts /\ tutor \in Tutors \cup {NoTutor} /\ revision = 0
  /\ query = All
  /\ loads = <<[who |-> account, revision |-> 0, params |-> NoParams, sent |-> TRUE]>>
  /\ latest = 1 /\ loading = TRUE
  /\ items = Empty /\ cursors = NoCursors /\ current = NoParams /\ error = FALSE
  /\ selected = NoTutor
  /\ lookup = IF tutor = NoTutor THEN "none" ELSE "sent"
  /\ saving = FALSE

Next ==
  \/ \E text \in Queries : Type(text)
  \/ Search \/ NextPage \/ PreviousPage \/ Refresh \/ RefreshAfterAction
  \/ \E i \in 1..Len(loads), outcome \in {"page", "denied", "failed"} : Answer(i, outcome)
  \/ \E t \in Tutors : Choose(t)
  \/ LookupAnswered \/ Save \/ Saved \/ ProfileSaved
  \/ \E who \in Accounts \cup {Nobody} : ChangeSession(who)
  \/ Dispose

Spec == Init /\ [][Next]_vars

\* A call is answered or times out after ten seconds.
Fairness == \A i \in 1..Loads : WF_vars(i <= Len(loads) /\ Answer(i, "failed"))
FairSpec == Spec /\ Fairness

-----------------------------------------------------------------------------
(* Properties *)

\* Types of the variables.
TypeOK ==
  /\ account \in Accounts \cup {Nobody, Disposed}
  /\ tutor \in Tutors \cup {NoTutor} /\ selected \in Tutors \cup {NoTutor}
  /\ revision \in 0..Sessions
  /\ query \in Queries
  /\ latest \in 0..Len(loads)
  /\ cursors \in [next : Queries \cup {Null}, previous : Queries \cup {Null}]
  /\ current \in [q : Queries, cursor : Queries \cup {Null}]
  /\ loading \in BOOLEAN /\ error \in BOOLEAN /\ saving \in BOOLEAN
  /\ lookup \in {"none", "sent", "outdated"}
  /\ loading = (latest # 0 /\ loads[latest].sent)

\* docs/directory-contract.md:46-48: a page is never one of an account or session
\* that is not the present one, nor left when the view is gone; and unless a load
\* failed, what is shown at rest is what was asked for last.
OwnLatestPage ==
  /\ items # Empty => items.who = account /\ items.revision = revision
  /\ Enabled /\ ~loading /\ ~error =>
       items.q = loads[latest].params.q /\ current = loads[latest].params

\* A cursor is used with the search it was made for: a position in the results of
\* another one means nothing.
CursorsFit ==
  \A i \in 1..Len(loads) : loads[i].params.cursor \in {Null, loads[i].params.q}

\* docs/directory-contract.md:62-63: a choice outlives paging, searching and the
\* answer to an older lookup.
ChoiceSurvives ==
  [][selected # NoTutor /\ selected' # selected =>
       \/ \E t \in Tutors : Choose(t)
       \/ Saved \/ ProfileSaved \/ account' # account \/ revision' # revision]_vars

\* Every load comes to an end, a page or an error being shown.
LoadingEnds == []<>~loading
=============================================================================
