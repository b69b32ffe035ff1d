---------------------------- MODULE DirectoryStream ----------------------------
(***************************************************************************)
(* The complete array that sendDirectory of services/directory.ts sends to *)
(* a client that asks for no pages: rows from a database cursor, written   *)
(* as fast as the client reads, under a deadline.  The client may stall or *)
(* go away, the database may fail or return late.                          *)
(***************************************************************************)
EXTENDS Naturals

CONSTANTS
  Rows,   \* rows of the directory
  Room    \* writes the connection takes before `write` returns false

StreamAssumption == Rows \in Nat /\ Room \in Nat \ {0}

VARIABLES
  cursor,    \* the database cursor: "none", "open" or "closed"
  timer,     \* the deadline's timer runs
  signal,    \* AbortSignal.any of deadline and disconnection
  waits,     \* the handler waits for: a "row", the "drain" event, or "nothing"
  read,      \* rows got from the cursor
  written,   \* parts written to the response
  received,  \* parts the client has taken
  response,  \* "open", "ended", "destroyed", or "refused" by the error handler
  client     \* "reading", "stalled" or "gone"

vars == <<cursor, timer, signal, waits, read, written, received, response, client>>
handler == <<cursor, timer, waits, read, written, response>>

Init ==
  /\ cursor = "none" /\ timer = TRUE /\ signal = FALSE
  /\ waits = "row"
  /\ read = 0 /\ written = 0 /\ received = 0
  /\ response = "open"
  /\ client \in {"reading", "stalled"}

\* What is written and not taken; the last part of a whole array is its end.
Buffered == written - received
Running == waits # "nothing"

-----------------------------------------------------------------------------
(* Faulty variants of the operators below, each the code after a plausible   *)
(* slip; no specification uses them, they show what the properties detect.   *)

\* A failed transfer ended like a whole one.
CutEnded == "ended"
\* once() without the signal.
WaitsForDrainOnly == waits = "row"
\* The cursor closed after the last row only.
ClosesAtEnd == IF read = Rows THEN "closed" ELSE cursor

-----------------------------------------------------------------------------
(* The handler *)

\* finally: the cursor is closed, the timer cleared.
Closed == IF cursor = "none" THEN "none" ELSE "closed"

Leave(outcome) ==
  /\ waits' = "nothing"
  /\ response' = outcome
  /\ cursor' = Closed
  /\ timer' = FALSE

\* headersSent: the connection is broken; before that the error is reported.
Cut == IF written > 0 THEN "destroyed" ELSE "refused"

AfterWrite == IF Buffered + 1 >= Room THEN "drain" ELSE "row"

\* A row, written after a look at the signal; an abort is an error.
Row ==
  /\ waits = "row" /\ read < Rows
  /\ read' = read + 1
  /\ IF signal
     THEN Leave(Cut) /\ UNCHANGED written
     ELSE /\ written' = written + 1
          /\ waits' = AfterWrite
          /\ cursor' = "open"
          /\ UNCHANGED <<timer, response>>
  /\ UNCHANGED <<signal, received, client>>

\* The rows are over: "]", or "[]", and res.end().
End ==
  /\ waits = "row" /\ read = Rows
  /\ written' = written + 1
  /\ Leave("ended")
  /\ UNCHANGED <<signal, read, received, client>>

\* drain comes when everything is taken.
Drained ==
  /\ waits = "drain" /\ Buffered = 0
  /\ waits' = "row"
  /\ UNCHANGED <<cursor, timer, signal, read, written, received, response, client>>

\* Waits are given up when the signal aborts: the find and once() both have it.
GivesUp == waits \in {"row", "drain"}

Aborted ==
  /\ GivesUp /\ signal
  /\ Leave(Cut)
  /\ UNCHANGED <<signal, read, written, received, client>>

\* The database reports an error or its own time limit.
DatabaseFails ==
  /\ waits = "row"
  /\ Leave(Cut)
  /\ UNCHANGED <<signal, read, written, received, client>>

-----------------------------------------------------------------------------
(* Around it *)

Deadline ==
  /\ timer /\ ~signal
  /\ signal' = TRUE
  /\ UNCHANGED <<handler, received, client>>

Receive ==
  /\ client = "reading" /\ response \in {"open", "ended"} /\ Buffered > 0
  /\ received' = received + 1
  /\ UNCHANGED <<handler, signal, client>>

Stall ==
  /\ client \in {"reading", "stalled"}
  /\ client' = IF client = "reading" THEN "stalled" ELSE "reading"
  /\ UNCHANGED <<handler, signal, received>>

\* The request's own signal (runtimeCapacity.ts) follows the connection.
Disconnect ==
  /\ client # "gone"
  /\ client' = "gone"
  /\ signal' = TRUE
  /\ UNCHANGED <<handler, received>>

Next ==
  \/ Row \/ End \/ Drained \/ Aborted \/ DatabaseFails
  \/ Deadline \/ Receive \/ Stall \/ Disconnect

Spec == Init /\ [][Next]_vars

\* Callbacks run, the timer fires.
Fairness == WF_vars(Row \/ End) /\ WF_vars(Drained) /\ WF_vars(Aborted) /\ WF_vars(Deadline)
FairSpec == Spec /\ Fairness

-----------------------------------------------------------------------------
(* Properties *)

\* Types of the variables.
TypeOK ==
  /\ cursor \in {"none", "open", "closed"}
  /\ timer \in BOOLEAN /\ signal \in BOOLEAN
  /\ waits \in {"row", "drain", "nothing"}
  /\ read \in 0..Rows
  /\ written \in 0..Rows + 1
  /\ received \in 0..written
  /\ response \in {"open", "ended", "destroyed", "refused"}
  /\ client \in {"reading", "stalled", "gone"}

\* docs/directory-contract.md:34-35: an array that closes has every row; one that
\* was cut is a broken connection, and an error page never follows a part of it.
WholeOrBroken ==
  /\ response = "ended" => read = Rows /\ written = Rows + 1
  /\ response = "refused" => written = 0
  /\ ~Running /\ read < Rows => response \in {"destroyed", "refused"}

\* docs/directory-contract.md:31-33: a client that stalls stops the cursor within
\* what the connection buffers, and nothing stays open or armed afterwards.
Restrained ==
  /\ Buffered <= Room + 1
  /\ ~Running => cursor # "open" /\ ~timer

\* The handler settles, and so gives its admission slot back, whatever the client
\* does or the database leaves undone.
Settles == <>[](~Running)
=============================================================================
