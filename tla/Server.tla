-------------------------------- MODULE Server --------------------------------
(***************************************************************************)
(* The parts of the server and of its delivery that keep no account data.  *)
(* They share no state, so a behaviour is one of one of them, `part`, and  *)
(* the rest stand still.  The authorization slot is WorkflowCapacity       *)
(* itself, under its own names.                                            *)
(***************************************************************************)
EXTENDS WorkflowCapacity

CONSTANTS
  PasswordCalls, PasswordSlots, PasswordQueue,
  LogStreams, LogAdmitted, RecordsPerRequest, OtherRecords, RecordSize, ReadyBelow, QueueUpTo,
  CapacityRequests, CapacityLimit,
  LifeRequests, LifeLimit,
  RateKeys, RateMaxKeys, RateLimit, RateWindow, RateMaxTime,
  ProbeCalls, ProbeQueue,
  QuoteQueries, QuoteBases, QuoteValid(_),
  StreamRows, StreamRoom,
  PromotedReleases, SoundReleases, NoRelease

VARIABLE part

VARIABLES pwActive, pwWaiting, pwStage
passwordVars == <<pwActive, pwWaiting, pwStage>>
Password == INSTANCE PasswordCapacity WITH Calls <- PasswordCalls,
    Concurrency <- PasswordSlots, MaxWaiting <- PasswordQueue, active <- pwActive, waiting <- pwWaiting, stage <- pwStage

VARIABLES lgPending, lgFailed, lgQueued, lgAdmitted, lgOwed, lgOthers, lgBroken
logVars == <<lgPending, lgFailed, lgQueued, lgAdmitted, lgOwed, lgOthers, lgBroken>>
Log == INSTANCE ServiceLog WITH Streams <- LogStreams, Limit <- LogAdmitted,
    PerRequest <- RecordsPerRequest, MaxOthers <- OtherRecords, MaxRecord <- RecordSize,
    Soft <- ReadyBelow, Hard <- QueueUpTo, pending <- lgPending, failed <- lgFailed, queued <- lgQueued, admitted <- lgAdmitted,
    owed <- lgOwed, others <- lgOthers, broken <- lgBroken

VARIABLES rqActive, rqStopping, rqAt, rqPending, rqEnded, rqReleased
requestVars == <<rqActive, rqStopping, rqAt, rqPending, rqEnded, rqReleased>>
Request == INSTANCE RequestCapacity WITH Requests <- CapacityRequests,
    Limit <- CapacityLimit, active <- rqActive, stopping <- rqStopping, at <- rqAt, pending <- rqPending,
    ended <- rqEnded, released <- rqReleased

VARIABLES lfActive, lfStopping, lfAt, lfPending, lfEnded, lfReleased, lfStart, lfCleanup,
          lfFailed, lfStartError, lfUnflushed, lfExit
lifeVars == <<lfActive, lfStopping, lfAt, lfPending, lfEnded, lfReleased, lfStart,
             lfCleanup, lfFailed, lfStartError, lfUnflushed, lfExit>>
Life == INSTANCE ServiceLifecycle WITH Requests <- LifeRequests,
    Limit <- LifeLimit, active <- lfActive, stopping <- lfStopping, at <- lfAt, pending <- lfPending,
    ended <- lfEnded, released <- lfReleased, start <- lfStart, cleanup <- lfCleanup,
    failed <- lfFailed, startError <- lfStartError, unflushed <- lfUnflushed, exit <- lfExit

VARIABLES rtLastTime, rtCounters, rtOverflow, rtGranted
rateVars == <<rtLastTime, rtCounters, rtOverflow, rtGranted>>
Rate == INSTANCE RateLimit WITH Keys <- RateKeys, MaxKeys <- RateMaxKeys,
    Limit <- RateLimit, Window <- RateWindow, MaxTime <- RateMaxTime, lastTime <- rtLastTime, counters <- rtCounters,
    overflow <- rtOverflow, granted <- rtGranted

VARIABLES rdWaiters, rdPending, rdPings, rdProbe, rdUp, rdReady, rdFresh
probeVars == <<rdWaiters, rdPending, rdPings, rdProbe, rdUp, rdReady, rdFresh>>
Probe == INSTANCE Readiness WITH Probes <- ProbeCalls, MaxWaiting <- ProbeQueue,
    waiters <- rdWaiters, pending <- rdPending, pings <- rdPings, probe <- rdProbe, up <- rdUp, ready <- rdReady,
    fresh <- rdFresh

VARIABLES qpQuery, qpBase, qpSocket, qpPage, qpAborted, qpAttempt, qpOver, qpReply,
          qpTried, qpSent, qpResponse
quoteVars == <<qpQuery, qpBase, qpSocket, qpPage, qpAborted, qpAttempt, qpOver, qpReply,
              qpTried, qpSent, qpResponse>>
Quote == INSTANCE QuoteProxy WITH Queries <- QuoteQueries, Bases <- QuoteBases, Valid <- QuoteValid,
    query <- qpQuery, base <- qpBase, socket <- qpSocket, page <- qpPage,
    aborted <- qpAborted, attempt <- qpAttempt, over <- qpOver, reply <- qpReply,
    tried <- qpTried, sent <- qpSent, response <- qpResponse

VARIABLES dsCursor, dsTimer, dsSignal, dsWaits, dsRead, dsWritten, dsReceived, dsResponse,
          dsClient
streamVars == <<dsCursor, dsTimer, dsSignal, dsWaits, dsRead, dsWritten, dsReceived,
               dsResponse, dsClient>>
Stream == INSTANCE DirectoryStream WITH Rows <- StreamRows, Room <- StreamRoom, cursor <- dsCursor,
    timer <- dsTimer, signal <- dsSignal, waits <- dsWaits, read <- dsRead,
    written <- dsWritten, received <- dsReceived, response <- dsResponse, client <- dsClient

VARIABLES pmLink, pmEnv, pmApi, pmEdge, pmPhase, pmTarget, pmPrevious, pmVerified, pmTrouble
promotionVars == <<pmLink, pmEnv, pmApi, pmEdge, pmPhase, pmTarget, pmPrevious, pmVerified,
                  pmTrouble>>
Promoting == INSTANCE Promotion WITH Releases <- PromotedReleases,
    Sound <- SoundReleases, None <- NoRelease, link <- pmLink, env <- pmEnv, api <- pmApi, edge <- pmEdge, phase <- pmPhase,
    target <- pmTarget, previous <- pmPrevious, verified <- pmVerified, trouble <- pmTrouble

VARIABLES ppModules, ppBuilt, ppMarked, ppPreparing, ppCurrent, ppPrevious, ppPromoting,
          ppChecked, ppKept, ppTrouble
preparationVars == <<ppModules, ppBuilt, ppMarked, ppPreparing, ppCurrent, ppPrevious,
                    ppPromoting, ppChecked, ppKept, ppTrouble>>
Preparing == INSTANCE ReleasePreparation WITH Releases <- PromotedReleases,
    modules <- ppModules, built <- ppBuilt, marked <- ppMarked, preparing <- ppPreparing,
    current <- ppCurrent, previous <- ppPrevious, promoting <- ppPromoting,
    checked <- ppChecked, kept <- ppKept, trouble <- ppTrouble

ASSUME ServerAssumption ==
  /\ Password!PasswordAssumption /\ Log!LogAssumption /\ Request!CapacityAssumption
  /\ Life!CapacityAssumption /\ Rate!RateAssumption /\ Probe!ReadinessAssumption
  /\ Quote!QuoteAssumption /\ Stream!StreamAssumption
  /\ Promoting!PromotionAssumption /\ Preparing!PreparationAssumption

serverVars ==
  <<part, capacityVars, passwordVars, logVars, requestVars, lifeVars, rateVars, probeVars,
    quoteVars, streamVars, promotionVars, preparationVars>>

Parts == {"slot", "password", "log", "request", "life", "rate", "probe", "quote", "stream",
          "promotion", "preparation"}

\* What the parts without a choice at the start stand at when they are not chosen.
QuoteAtRest ==
  /\ qpQuery = <<>> /\ qpBase = [path |-> <<>>, filters |-> <<>>] /\ qpSocket = FALSE
  /\ qpPage = "left" /\ qpAborted = TRUE /\ qpAttempt = "none" /\ qpOver = "none"
  /\ qpReply = "none" /\ qpTried = <<>> /\ qpSent = qpBase /\ qpResponse = "dropped"
StreamAtRest ==
  /\ dsCursor = "none" /\ dsTimer = FALSE /\ dsSignal = FALSE /\ dsWaits = "nothing"
  /\ dsRead = 0 /\ dsWritten = 0 /\ dsReceived = 0 /\ dsResponse = "refused" /\ dsClient = "gone"

\* A part that is not chosen stands at one state, in which no step of it is due.
ServerInit ==
  /\ part \in Parts
  /\ CapacityInit /\ Password!Init /\ Log!Init /\ Request!Init /\ Life!LifeInit
  /\ Rate!Init /\ Promoting!Init /\ Preparing!Init
  /\ Probe!Init /\ (part # "probe" => rdUp /\ rdReady)
  /\ IF part = "quote" THEN Quote!Init ELSE QuoteAtRest
  /\ IF part = "stream" THEN Stream!Init ELSE StreamAtRest

OthersStill ==
  /\ UNCHANGED part
  /\ part # "slot" => UNCHANGED capacityVars
  /\ part # "password" => UNCHANGED passwordVars
  /\ part # "log" => UNCHANGED logVars
  /\ part # "request" => UNCHANGED requestVars
  /\ part # "life" => UNCHANGED lifeVars
  /\ part # "rate" => UNCHANGED rateVars
  /\ part # "probe" => UNCHANGED probeVars
  /\ part # "quote" => UNCHANGED quoteVars
  /\ part # "stream" => UNCHANGED streamVars
  /\ part # "promotion" => UNCHANGED promotionVars
  /\ part # "preparation" => UNCHANGED preparationVars

ServerNext ==
  /\ \/ part = "slot" /\ CapacityNext
     \/ part = "password" /\ Password!Next
     \/ part = "log" /\ Log!Next
     \/ part = "request" /\ Request!Next
     \/ part = "life" /\ Life!LifeNext
     \/ part = "rate" /\ Rate!Next
     \/ part = "probe" /\ Probe!Next
     \/ part = "quote" /\ Quote!Next
     \/ part = "stream" /\ Stream!Next
     \/ part = "promotion" /\ Promoting!Next
     \/ part = "preparation" /\ Preparing!Next
  /\ OthersStill

\* Each part's own fairness: at rest nothing of it is enabled.
ServerFairness ==
  /\ CapacityFairness /\ Password!Fairness /\ Log!Fairness /\ Request!Fairness
  /\ Life!LifeFairness /\ Probe!Fairness /\ Quote!Fairness /\ Stream!Fairness

ServerSpec == ServerInit /\ [][ServerNext]_serverVars /\ ServerFairness

-----------------------------------------------------------------------------
(* Properties: those of the parts, which are stated and explained in their  *)
(* modules, gathered by the question they answer.  CapacityAccounted and    *)
(* SlotServes of the slot are checked under their own names.                *)

\* Types of the variables of every part.
ServerTypeOK ==
  /\ CapacityTypeOK /\ Password!TypeOK /\ Log!TypeOK /\ Request!TypeOK
  /\ Life!LifeTypeOK /\ Rate!TypeOK /\ Probe!TypeOK /\ Quote!TypeOK /\ Stream!TypeOK
  /\ Promoting!TypeOK /\ Preparing!TypeOK

\* The password slots implement the bounded execution of BoundedExecution.
PasswordBounded == Password!ImplementsBounded

\* The log counts what its streams have yet to call back, and admission stops
\* early enough for every record of an admitted request.
JournalBounded == Log!PendingAccounted /\ Log!HeadroomSuffices

\* Every hash and every admitted request is counted until its slot is returned,
\* once; a hand-over loses or doubles no waiting hash, and work for clients who
\* have left counts towards the limit.
SlotsCounted ==
  /\ Password!SlotsAccounted
  /\ Password!QueueAccounted
  /\ Request!SlotsAccounted
  /\ Request!WorkWithinLimit

\* Storage is closed only when neither the start nor a request uses it, and a
\* process that reports success cut nothing short and lost no record.
ExitsClean == Life!DisposedIdle /\ Life!SuccessIsClean

\* Whatever others do, a client gets a bounded number of answers within the length of
\* a window, its window is neither shortened nor forgotten for them, and no dead
\* counter takes up room.
RatesKept == []Rate!NoDeadCounter /\ []Rate!RateBounded /\ Rate!WindowsPreserved

\* Probes share one check, few of them wait, and none is told "ok" by a check
\* that was over when it came.
ProbesShareChecks == []Probe!OneCheckFewWaiters /\ Probe!OkIsFresh

\* The quote proxy asks for the collection with each filter once, answers what
\* its attempts have earned, and does nothing for a page that has left.
QuotesServed == []Quote!RightAnswer /\ []Quote!SentRight /\ Quote!LeftAlone

\* A streamed array that closes has every row, one that was cut is broken, and a
\* stalled client stops the cursor without leaving anything open or armed.
StreamsWhole == Stream!WholeOrBroken /\ Stream!Restrained

\* A promoted release serves with its own identity and edge policy; until a
\* script dies the one verified last serves; `current` always names a release.
PromotionsServe ==
  Promoting!PromotedIsWhole /\ Promoting!LastVerifiedServes /\ Promoting!NeverUnlinked

\* Releases that were promoted stay whole, only checked ones are served, and until
\* a promotion dies what serves outside one was promoted.
PreparedServes ==
  Preparing!KeptIsWhole /\ Preparing!ServedIsChecked /\ Preparing!ServedWasPromoted

\* Everything the server begins comes to an end: the wait for a slot, a stalled
\* journal, requests, shutdown, probes, quotes, streams.
WorkEnds ==
  /\ WaitEnds /\ Password!EveryWaiterServed /\ Log!ReadyAgain /\ Request!SlotsReturn
  /\ Life!ShutdownEnds /\ Probe!ProbesAnswered /\ Quote!RequestsEnd /\ Stream!Settles
=============================================================================
