-------------------------------- MODULE Browser --------------------------------
(***************************************************************************)
(* What a page keeps: the session and its calls, a directory with a choice *)
(* in it, the two forms of an account, the page of an administrator; and   *)
(* the pages of a directory at the server.  The parts share no state, so a *)
(* behaviour is one of one of them, `part`, and the rest stand still.      *)
(***************************************************************************)
EXTENDS Naturals

CONSTANTS
  Accounts, Nobody,                      \* of the client and of the view
  None,                                  \* no tutor, no value, no name
  PageWrites, OtherTabs, ClientLosses,   \* of ClientSession
  Queries, All, Tutors, ViewLoads, ViewSessions,         \* of DirectoryView
  ProfileNames, Addresses, Spellings, Normal(_), Overtaking,   \* of ProfileDraft
  AdminActions, AdminEdits, AdminElsewhere, AdminLosses,  \* of AdminPage
  ListIds, ListNames, PageSize, ListChanges               \* of DirectoryPaging

VARIABLE part

VARIABLES csSession, csToken, csShown, csCsrfToken, csCsrf, csCalls, csTabs, csLost,
          csExecuted, csSignedOut
clientVars == <<csSession, csToken, csShown, csCsrfToken, csCsrf, csCalls, csTabs, csLost,
               csExecuted, csSignedOut>>
Client == INSTANCE ClientSession WITH Writes <- PageWrites, Losses <- ClientLosses,
    session <- csSession, token <- csToken, shown <- csShown, csrfToken <- csCsrfToken,
    csrf <- csCsrf, calls <- csCalls, tabs <- csTabs, lost <- csLost,
    executed <- csExecuted, signedOut <- csSignedOut

VARIABLES dvAccount, dvTutor, dvRevision, dvQuery, dvLoads, dvLatest, dvItems, dvCursors,
          dvCurrent, dvLoading, dvError, dvSelected, dvLookup, dvSaving
viewVars == <<dvAccount, dvTutor, dvRevision, dvQuery, dvLoads, dvLatest, dvItems,
             dvCursors, dvCurrent, dvLoading, dvError, dvSelected, dvLookup, dvSaving>>
View == INSTANCE DirectoryView WITH NoTutor <- None, Loads <- ViewLoads,
    Sessions <- ViewSessions, account <- dvAccount, tutor <- dvTutor,
    revision <- dvRevision, query <- dvQuery, loads <- dvLoads, latest <- dvLatest,
    items <- dvItems, cursors <- dvCursors, current <- dvCurrent, loading <- dvLoading,
    error <- dvError, selected <- dvSelected, lookup <- dvLookup, saving <- dvSaving

VARIABLES pdServer, pdShown, pdEditing, pdDraft, pdOriginal, pdEmail, pdPassword, pdCalls,
          pdFirst, pdOvertakes, pdTyped, pdUnsure
draftVars == <<pdServer, pdShown, pdEditing, pdDraft, pdOriginal, pdEmail, pdPassword,
              pdCalls, pdFirst, pdOvertakes, pdTyped, pdUnsure>>
Draft == INSTANCE ProfileDraft WITH Names <- ProfileNames, Emails <- Addresses,
    server <- pdServer, shown <- pdShown, editing <- pdEditing, draft <- pdDraft,
    original <- pdOriginal, email <- pdEmail, password <- pdPassword, calls <- pdCalls,
    first <- pdFirst, overtakes <- pdOvertakes, typed <- pdTyped, unsure <- pdUnsure

VARIABLES apManager, apSession, apShown, apDraft, apAction, apProfile, apListed, apLoads,
          apAltered, apCreated, apBegun, apTyped, apOthers, apLost
adminVars == <<apManager, apSession, apShown, apDraft, apAction, apProfile, apListed,
              apLoads, apAltered, apCreated, apBegun, apTyped, apOthers, apLost>>
Page == INSTANCE AdminPage WITH Actions <- AdminActions, Edits <- AdminEdits,
    Elsewhere <- AdminElsewhere, Losses <- AdminLosses,
    manager <- apManager, session <- apSession, shown <- apShown, draft <- apDraft,
    action <- apAction, profile <- apProfile, listed <- apListed, loads <- apLoads,
    altered <- apAltered, created <- apCreated, begun <- apBegun, typed <- apTyped,
    others <- apOthers, lost <- apLost

VARIABLES dpName, dpShown, dpNext, dpPrevious, dpChanges, dpSeen, dpSteady, dpStill,
          dpFrom, dpAsked
pagingVars == <<dpName, dpShown, dpNext, dpPrevious, dpChanges, dpSeen, dpSteady, dpStill,
               dpFrom, dpAsked>>
Paging == INSTANCE DirectoryPaging WITH Ids <- ListIds, Names <- ListNames, Unlisted <- None,
    Size <- PageSize, Changes <- ListChanges, name <- dpName, shown <- dpShown,
    next <- dpNext, previous <- dpPrevious, changes <- dpChanges, seen <- dpSeen,
    steady <- dpSteady, still <- dpStill, from <- dpFrom, asked <- dpAsked

ASSUME BrowserAssumption ==
  /\ Client!ClientAssumption /\ View!ViewAssumption /\ Draft!DraftAssumption
  /\ Page!PageAssumption /\ Paging!PagingAssumption

browserVars == <<part, clientVars, viewVars, draftVars, adminVars, pagingVars>>

Parts == {"client", "view", "draft", "admin", "paging"}

\* A view that is not there: no load of it is due.
ViewAtRest ==
  /\ dvAccount = View!Disposed /\ dvTutor = None /\ dvRevision = 0 /\ dvQuery = All
  /\ dvLoads = <<>> /\ dvLatest = 0 /\ dvLoading = FALSE /\ dvError = FALSE
  /\ dvItems = View!Empty /\ dvCursors = View!NoCursors /\ dvCurrent = View!NoParams
  /\ dvSelected = None /\ dvLookup = "none" /\ dvSaving = FALSE

BrowserInit ==
  /\ part \in Parts
  /\ Client!Init
  /\ IF part = "view" THEN View!Init ELSE ViewAtRest
  /\ Draft!Init
  /\ Page!Init
  /\ Paging!Init

OthersStill ==
  /\ UNCHANGED part
  /\ part # "client" => UNCHANGED clientVars
  /\ part # "view" => UNCHANGED viewVars
  /\ part # "draft" => UNCHANGED draftVars
  /\ part # "admin" => UNCHANGED adminVars
  /\ part # "paging" => UNCHANGED pagingVars

BrowserNext ==
  /\ \/ part = "client" /\ Client!Next
     \/ part = "view" /\ View!Next
     \/ part = "draft" /\ Draft!Next
     \/ part = "admin" /\ Page!Next
     \/ part = "paging" /\ Paging!Next
  /\ OthersStill

\* The parts' own fairness: at rest nothing of it is enabled.
BrowserSpec == BrowserInit /\ [][BrowserNext]_browserVars /\ View!Fairness /\ Page!Fairness

-----------------------------------------------------------------------------
(* Properties: those of the parts, which are stated and explained in their  *)
(* modules, gathered by the question they answer.                           *)

\* Types of the variables of every part.
BrowserTypeOK ==
  Client!TypeOK /\ View!TypeOK /\ Draft!TypeOK /\ Page!TypeOK /\ Paging!TypeOK

\* No write of the page is carried out twice, and none of an old session is sent
\* in a newer one.
WritesRight == []Client!ExecutedOnce /\ Client!StaleNeverSent

\* After a confirmed logout no late answer shows an account again, and when all is
\* quiet the account shown is the one the server has.
AccountIsCurrent == Client!SignedOutStays /\ Client!NoOldAccount

\* A save of the present session that fails ends with its failure displayed.
FailureDisplayed == Client!FailureDisplayed

\* The page shown is one of the present account, session and search, and a cursor
\* is used with the search it was made for.
PageIsCurrent == View!OwnLatestPage /\ View!CursorsFit

\* A choice outlives paging, searching and the answer to an older lookup.
ChoiceSurvives == View!ChoiceSurvives

\* What was typed stays until a save of just that is confirmed, whatever the other
\* form is answered, and at rest the account shown is the one stored.
FormsKeep == []Draft!WorkIsKept /\ []Draft!ConfirmedIsShown /\ Draft!AddressFollows

\* The administrator's page keeps no draft where it cannot be seen and drops none
\* that is still wanted; at rest it shows the privilege and the lists there are.
AdminPageTrue ==
  []Page!NoHiddenDraft /\ []Page!PrivilegeIsShown /\ []Page!DirectoriesFollow /\ Page!DraftIsUsed

\* A walk through a directory shows every row that did not change, none twice; a
\* page has a way on wherever it goes on, and one on and one back is where one was.
PagesLeadThrough == []Paging!WalkIsComplete /\ Paging!PagesAreRuns /\ Paging!BackAgain

\* Every load of a directory and every action of the page comes to an end.
BrowserWorkEnds == View!LoadingEnds /\ Page!ActionsEnd
==============================================================================
