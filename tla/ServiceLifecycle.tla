--------------------------- MODULE ServiceLifecycle ---------------------------
(***************************************************************************)
(* back-end/src/serviceLifecycle.ts and main() of server.ts: a start that  *)
(* may fail or be overtaken by a signal, and the shutdown with its steps   *)
(* and its deadline, over the requests of RequestCapacity.  Of the journal *)
(* only the number of records it has yet to write out is kept.             *)
(***************************************************************************)
EXTENDS RequestCapacity

VARIABLES
  start,       \* how far start() has come
  cleanup,     \* how far shutdown() has come, "none" before it is called
  failed,      \* the variable of that name in cleanup()
  startError,  \* main() has called shutdown("startup-error") itself
  unflushed,   \* records the journal has not called back
  exit         \* of process.exit, 0 being "success"; "none" while it runs

lifeVars == <<start, cleanup, failed, startError, unflushed, exit>>

Starting == {"initializing", "binding"}
StartPhases == Starting \cup {"listening", "failed", "cancelled"}
CleanupPhases == {"none", "awaiting", "closing", "draining", "disposing", "logging"}
Stopping == cleanup # "none"

LifeInit ==
  /\ Init
  /\ start = "initializing"
  /\ cleanup = "none"
  /\ failed = FALSE
  /\ startError = FALSE
  /\ unflushed = 0
  /\ exit = "none"

Over(r) == at[r] \in {"none", "refused"} \/ ended[r]

-----------------------------------------------------------------------------
(* Faulty variants of the operators below, each the code after a plausible   *)
(* slip; no specification uses them, they show what the properties detect.   *)

\* Storage closed when the connections are, without the drain.
DrainedWithConnections ==
  /\ cleanup = "draining"
  /\ cleanup' = "disposing"
  /\ UNCHANGED <<vars, start, failed, startError, unflushed, exit>>
\* main() leaves the exit code of a failed start to the shutdown.
ExitCodeOfShutdown == IF failed THEN "failure" ELSE "success"
\* The promise of the cleanup alone, without the race.
NeverTooLate == FALSE

-----------------------------------------------------------------------------
(* start() *)

\* shutdown() up to its first await.
BeginShutdown ==
  /\ cleanup' = "awaiting"
  /\ stopping' = TRUE
  /\ UNCHANGED <<active, at, pending, ended, released>>

\* initialize() comes back; after a signal it is not followed by listen().
Initialized ==
  /\ start = "initializing"
  /\ start' = IF Stopping THEN "cancelled" ELSE "binding"
  /\ UNCHANGED <<vars, cleanup, failed, startError, unflushed, exit>>

Listening ==
  /\ start = "binding"
  /\ start' = "listening"
  /\ unflushed' = unflushed + 1
  /\ UNCHANGED <<vars, cleanup, failed, startError, exit>>

\* initialize() or listen() fails: main() shuts down, unless that is under way.
StartFails ==
  /\ start \in Starting
  /\ start' = "failed"
  /\ IF Stopping
     THEN UNCHANGED <<vars, cleanup, startError, unflushed>>
     ELSE BeginShutdown /\ startError' = TRUE /\ unflushed' = unflushed + 2
  /\ UNCHANGED <<failed, exit>>

-----------------------------------------------------------------------------
(* shutdown() and its cleanup() *)

\* A first signal; to another, shutdown() answers with the promise it has.
Signal ==
  /\ ~Stopping
  /\ BeginShutdown
  /\ unflushed' = unflushed + 1
  /\ UNCHANGED <<start, failed, startError, exit>>

StartAwaited ==
  /\ cleanup = "awaiting" /\ start \notin Starting
  /\ cleanup' = IF start = "listening" THEN "closing" ELSE "draining"
  /\ UNCHANGED <<vars, start, failed, startError, unflushed, exit>>

\* server.close(): every connection has ended.
Closed ==
  /\ cleanup = "closing" /\ \A r \in Requests : Over(r)
  /\ cleanup' = "draining"
  /\ UNCHANGED <<vars, start, failed, startError, unflushed, exit>>

\* capacity.drain()
Drained ==
  /\ cleanup = "draining" /\ active = 0
  /\ cleanup' = "disposing"
  /\ UNCHANGED <<vars, start, failed, startError, unflushed, exit>>

Dispose(fails) ==
  /\ cleanup = "disposing"
  /\ cleanup' = "logging"
  /\ failed' = fails
  /\ unflushed' = unflushed + 1
  /\ UNCHANGED <<vars, start, startError, exit>>

\* main() awaits the promise before a signal that follows it can, so that its
\* own exit code counts.
ExitCode == IF failed \/ startError THEN "failure" ELSE "success"

\* log.drain()
LogDrained ==
  /\ cleanup = "logging" /\ unflushed = 0
  /\ exit' = ExitCode
  /\ UNCHANGED <<vars, start, cleanup, failed, startError, unflushed>>

\* The timer, armed with the first await.
TooLate == Stopping
Deadline ==
  /\ TooLate
  /\ exit' = "failure"
  /\ UNCHANGED <<vars, start, cleanup, failed, startError, unflushed>>

-----------------------------------------------------------------------------
(* The service and its journal *)

\* Requests come over connections accepted before the server closed; a handler
\* may leave an audit record with its answer.
Serve(r) ==
  /\ RequestNext(r)
  /\ at[r] = "none" => start = "listening" /\ cleanup \in {"none", "awaiting", "closing"}
  /\ \/ unflushed' = unflushed
     \/ at[r] = "handler" /\ at'[r] = "answered" /\ unflushed' = unflushed + 1
  /\ UNCHANGED <<start, cleanup, failed, startError, exit>>

Flush ==
  /\ unflushed > 0
  /\ unflushed' = unflushed - 1
  /\ UNCHANGED <<vars, start, cleanup, failed, startError, exit>>

LifeNext ==
  /\ exit = "none"
  /\ \/ Initialized \/ Listening \/ StartFails
     \/ Signal \/ StartAwaited \/ Closed \/ Drained \/ LogDrained \/ Deadline
     \/ \E fails \in BOOLEAN : Dispose(fails)
     \/ \E r \in Requests : Serve(r)
     \/ Flush

LifeSpec == LifeInit /\ [][LifeNext]_<<vars, lifeVars>>

\* Of all that may stall in a shutdown only the timer is relied upon.
LifeFairness == WF_<<vars, lifeVars>>(exit = "none" /\ Deadline)
FairLifeSpec == LifeSpec /\ LifeFairness

-----------------------------------------------------------------------------
(* Properties *)

\* Types of the variables.
LifeTypeOK ==
  /\ TypeOK
  /\ start \in StartPhases
  /\ cleanup \in CleanupPhases
  /\ failed \in BOOLEAN
  /\ startError \in BOOLEAN
  /\ unflushed \in Nat
  /\ exit \in {"none", "success", "failure"}

\* The database and the session store are closed only when nothing uses them
\* any more: not the start, nor work for clients who have left.
DisposedIdle ==
  cleanup \in {"disposing", "logging"} =>
    start \notin Starting /\ \A r \in Requests : pending[r] = {} /\ Over(r)

\* capacity-audit-2026-09-16.md:27: "failures exit unsuccessfully".  A process
\* that reports success did start, unless it was told to stop first, cut no
\* request short, closed its storage and lost no audit record.
SuccessIsClean ==
  exit = "success" =>
    /\ ~startError /\ ~failed
    /\ active = 0
    /\ unflushed = 0

\* capacity-audit-2026-09-16.md:28: "a 15 s deadline bounds shutdown", wherever
\* it is stuck: in the start, an open connection, a handler, storage or journal.
ShutdownEnds == []<>(Stopping => exit # "none")
=============================================================================
