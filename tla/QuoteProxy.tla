------------------------------ MODULE QuoteProxy ------------------------------
(***************************************************************************)
(* One quote: the home page (front-end/src/pages/index.vue) asks the proxy *)
(* (controllers/common/quoteProxy.ts), which asks the Quotes API over the  *)
(* socket and, when that does not help, once over HTTP.  The page gives up *)
(* after ten seconds or when it is left, at any moment in between.         *)
(***************************************************************************)
EXTENDS Naturals, Sequences, SequencesExt

CONSTANTS
  Queries,   \* filters a page sends: functions from some filter names to values
  Bases,     \* QUOTES_UPSTREAM_URL: records of a path (its segments) and filters
  Valid(_)   \* a query whose filters are all within their limits

QuoteAssumption == \A b \in Bases : b.path \in Seq(STRING)

VARIABLES
  query,     \* of the request
  base,      \* the configured URL
  socket,    \* QUOTES_UPSTREAM_SOCKET_PATH is configured
  page,      \* "waiting", "left" (timer or navigation) or "shown": what became of
             \*   the page; "kept" when it stays with its built-in quote
  aborted,   \* the proxy's controller.signal
  attempt,   \* "none", "sent", "reading" the body or "over"
  over,      \* the transport of the attempt
  reply,     \* what the attempt has settled with
  tried,     \* ghost: the attempts, with what each settled with
  sent,      \* ghost: the URL asked over HTTP
  response   \* what the proxy answered, or "none", or "dropped"

vars == <<query, base, socket, page, aborted, attempt, over, reply, tried, sent, response>>
upstream == <<attempt, over, reply, tried, sent>>
given == <<query, base, socket>>

\* A 2xx reply whose body has usable quotes, none at all, or nothing usable; or
\* its status; or an error: connection, deadline, abort, more than 1 MiB.
Bodies == {"usable", "empty", "junk"}
Statuses == {"400", "429", "other"}
Replies == Bodies \cup Statuses \cup {"error"}

Init ==
  /\ query \in Queries /\ base \in Bases /\ socket \in BOOLEAN
  /\ page = "waiting" /\ aborted = FALSE
  /\ attempt = "none" /\ over = "none" /\ reply = "none" /\ tried = <<>>
  /\ sent = [path |-> <<>>, filters |-> <<>>]
  /\ response = "none"

-----------------------------------------------------------------------------
(* Faulty variants of the operators below, each the code after a plausible   *)
(* slip; no specification uses them, they show what the properties detect.   *)

\* The deadline cleared with the headers.
DeadlineForHeaders == attempt = "sent"
\* The base appended to without a look at its end.
JoinedAlways(path) == path \o <<"quotes">>
\* throwIfAborted forgotten before the second transport.
GoesOnAlways == TRUE
\* A body of unusable entries passed on as the empty list.
AnsweredLeniently(r) ==
  CASE r \in {"400", "429"} -> r
    [] r = "usable" -> "quotes"
    [] r \in {"empty", "junk"} -> "nothing"
    [] OTHER -> "502"

-----------------------------------------------------------------------------
(* The URL *)

\* joinUpstreamPath
Joined(path) == IF IsSuffix(<<"quotes">>, path) THEN path ELSE path \o <<"quotes">>

\* resolveQuotesUpstreamUrl: the filters of the request replace those of the base.
Resolved ==
  [path |-> Joined(base.path),
   filters |-> [k \in DOMAIN base.filters \cup DOMAIN query |->
                  IF k \in DOMAIN query THEN query[k] ELSE base.filters[k]]]

-----------------------------------------------------------------------------
(* The proxy *)

Try(transport) ==
  /\ attempt' = "sent"
  /\ over' = transport
  /\ reply' = "none"
  /\ sent' = IF transport = "http" THEN Resolved ELSE sent

\* The handler up to its first await; buildQuotesRequestPath throws.
Handle ==
  /\ attempt = "none" /\ response = "none"
  /\ IF Valid(query)
     THEN Try(IF socket THEN "socket" ELSE "http") /\ UNCHANGED response
     ELSE response' = "400" /\ UNCHANGED <<attempt, over, reply, sent>>
  /\ UNCHANGED <<given, page, aborted, tried>>

Settle(r) ==
  /\ attempt' = "over"
  /\ reply' = r
  /\ tried' = Append(tried, <<over, r>>)

\* Status and headers: anything but 2xx settles the attempt at once.
Headers ==
  /\ attempt = "sent"
  /\ \/ attempt' = "reading" /\ UNCHANGED <<reply, tried>>
     \/ \E s \in Statuses : Settle(s)
  /\ UNCHANGED <<given, page, aborted, over, sent, response>>

Body ==
  /\ attempt = "reading"
  /\ \E b \in Bodies : Settle(b)
  /\ UNCHANGED <<given, page, aborted, over, sent, response>>

Fail ==
  /\ attempt \in {"sent", "reading"}
  /\ Settle("error")
  /\ UNCHANGED <<given, page, aborted, over, sent, response>>

\* AbortSignal.timeout, on the whole of the attempt.
UnderDeadline == attempt \in {"sent", "reading"}

TimeOut ==
  /\ UnderDeadline
  /\ Settle("error")
  /\ UNCHANGED <<given, page, aborted, over, sent, response>>

\* upstreamRejection
Final == {"400", "429"}
\* What fetchQuotesUpstream returns from the socket.
Accepted == Final \cup {"usable", "empty"}
\* signal.throwIfAborted
GoesOn == ~aborted

FallBack ==
  /\ attempt = "over" /\ over = "socket" /\ reply \notin Accepted /\ GoesOn
  /\ Try("http")
  /\ UNCHANGED <<given, page, aborted, tried, response>>

Answered(r) ==
  CASE r \in {"400", "429"} -> r
    [] r = "usable" -> "quotes"
    [] r = "empty" -> "nothing"
    [] OTHER -> "502"

\* A failure after the page has gone is dropped; an answer goes nowhere.
Answer ==
  /\ attempt = "over" /\ response = "none"
  /\ over = "socket" /\ reply \notin Accepted => ~GoesOn
  /\ response' = IF aborted THEN "dropped" ELSE Answered(reply)
  /\ UNCHANGED <<given, page, aborted, upstream>>

-----------------------------------------------------------------------------
(* The page *)

\* The ten-second timer or navigation: fetch is aborted.
Leave ==
  /\ page = "waiting"
  /\ page' = "left"
  /\ UNCHANGED <<given, aborted, upstream, response>>

\* The proxy sees the connection close while it has not answered: an attempt
\* that has not settled settles with an AbortError.
Close ==
  /\ page = "left" /\ ~aborted /\ attempt # "none" /\ response = "none"
  /\ aborted' = TRUE
  /\ IF attempt \in {"sent", "reading"}
     THEN Settle("error")
     ELSE UNCHANGED <<attempt, reply, tried>>
  /\ UNCHANGED <<given, page, over, sent, response>>

\* controller.signal.aborted, looked at once the body is there.
StillOpen == page = "waiting"

Show ==
  /\ response \notin {"none", "dropped"} /\ page \in {"waiting", "left"} /\ StillOpen
  /\ page' = IF response = "quotes" THEN "shown" ELSE "kept"
  /\ UNCHANGED <<given, aborted, upstream, response>>

Next ==
  \/ Handle \/ Headers \/ Body \/ Fail \/ TimeOut \/ FallBack \/ Answer
  \/ Leave \/ Close \/ Show

Spec == Init /\ [][Next]_vars

\* Timers fire and callbacks run.
Fairness == WF_vars(Handle) /\ WF_vars(TimeOut) /\ WF_vars(FallBack) /\ WF_vars(Answer)
FairSpec == Spec /\ Fairness

-----------------------------------------------------------------------------
(* Properties *)

\* Types of the variables.
TypeOK ==
  /\ page \in {"waiting", "left", "shown", "kept"}
  /\ aborted \in BOOLEAN
  /\ attempt \in {"none", "sent", "reading", "over"}
  /\ over \in {"none", "socket", "http"}
  /\ reply \in Replies \cup {"none"}
  /\ tried \in Seq({"socket", "http"} \X Replies) /\ Len(tried) <= 2
  /\ response \in {"none", "dropped", "quotes", "nothing", "400", "429", "502"}

\* README.md:51-57: one fallback, over HTTP; none after a validation error or rate
\* limit, which reach the browser; 502 only when every transport has failed; and
\* quotes only from a body that had some.
RightAnswer ==
  LET last == IF tried = <<>> THEN <<"none", "none">> ELSE Last(tried)
  IN  /\ \A i \in 1..Len(tried) - 1 :
           tried[i][1] = "socket" /\ tried[i + 1][1] = "http"
             /\ tried[i][2] \in {"junk", "other", "error"}
      /\ response = "quotes" => last[2] = "usable"
      /\ response = "nothing" => last[2] = "empty"
      /\ response = "429" => last[2] = "429"
      /\ response = "400" => ~Valid(query) \/ last[2] = "400"
      /\ response = "502" =>
           /\ last[1] = "http"
           /\ \A i \in 1..Len(tried) : tried[i][2] \in {"junk", "other", "error"}
           /\ Len(tried) = (IF socket THEN 2 ELSE 1)

\* README.md:45-47: whether the base names the API or its collection, the
\* collection is asked, with each filter once and the request's own value.
SentRight ==
  sent.path # <<>> =>
    /\ IsSuffix(<<"quotes">>, sent.path) /\ ~IsSuffix(<<"quotes", "quotes">>, sent.path)
    /\ IsPrefix(base.path, sent.path)
    /\ \A k \in DOMAIN query : sent.filters[k] = query[k]

\* Nothing is asked upstream for a page whose connection was seen to close, and a
\* page that was left shows no quote.
LeftAlone ==
  [][/\ aborted => Len(tried') = Len(tried) /\ attempt' = attempt
     /\ page = "left" => page' = "left"]_vars

\* A request comes to an end and gives its slot back, however slowly the Quotes
\* API sends what it sends.
RequestsEnd == <>[](response # "none")
=============================================================================
