------------------------------- MODULE RateLimit -------------------------------
(***************************************************************************)
(* back-end/src/middleware/boundedRateStore.ts, under one of the limiters  *)
(* of rateLimit.ts: the counters of the clients, in a Map that keeps the   *)
(* order of insertion, and one counter shared by those it has no room for. *)
(* The clock of the machine may be set back.  decrement(), resetKey() and  *)
(* resetAll() serve options that no limiter of the application sets.       *)
(***************************************************************************)
EXTENDS Integers, Sequences

CONSTANTS
  Keys,       \* the identities of clients
  MaxKeys,    \* maxKeys, 10000 in production
  Limit,      \* requests granted in a window
  Window,     \* windowMs
  MaxTime     \* bound: the last reading of the clock

RateAssumption ==
  /\ {MaxKeys, MaxTime} \subseteq Nat
  /\ {Limit, Window} \subseteq Nat \ {0}

VARIABLES
  lastTime,   \* the field of that name
  counters,   \* the Map of that name, oldest entry first; hits beyond the limit
              \* are all alike
  overflow,   \* the field of that name, None when undefined
  granted     \* ghost: the answers that let each client through in the last length of
              \* a window, oldest first: the time, the counter and what it stood at

vars == <<lastTime, counters, overflow, granted>>

Times == 0 .. MaxTime
Counter == [key : Keys, hits : 0 .. Limit + 1, reset : 0 .. MaxTime + Window]
None == [hits |-> 0, reset |-> 0]
Granted == [at : Times, from : {"own", "shared"}, hits : 1 .. Limit, reset : 0 .. MaxTime + Window]

Init ==
  /\ lastTime = 0
  /\ counters = <<>>
  /\ overflow = None
  /\ granted = [k \in Keys |-> <<>>]

Expired(c, now) == c.reset <= now

-----------------------------------------------------------------------------
(* Faulty variants of the operators below, each the code after a plausible   *)
(* slip; no specification uses them, they show what the properties detect.   *)

\* The clock as it is.
NowUnguarded(clock) == clock
\* A full map gives up its oldest entry.
PrunedForRoom(now) ==
  LET live == SelectSeq(counters, LAMBDA c : ~Expired(c, now))
  IN IF Len(live) = MaxKeys /\ live # <<>> THEN Tail(live) ELSE live
\* A new shared counter for each client that finds no room.
SharedAnew(now) == [hits |-> 0, reset |-> now + Window]

-----------------------------------------------------------------------------
(* increment() *)

Now(clock) == IF clock > lastTime THEN clock ELSE lastTime

\* prune(): up to the first entry that has not expired.
Pruned(now) ==
  LET live == {i \in 1 .. Len(counters) : ~Expired(counters[i], now)}
  IN IF live = {} THEN <<>>
     ELSE SubSeq(counters, CHOOSE i \in live : \A j \in live : i <= j, Len(counters))

HasRoom(kept) == Len(kept) < MaxKeys

Hit(c) == [c EXCEPT !.hits = IF @ > Limit THEN @ ELSE @ + 1]

Added(kept, k, now) == Append(kept, [key |-> k, hits |-> 1, reset |-> now + Window])

Shared(now) ==
  IF overflow = None \/ Expired(overflow, now) THEN [hits |-> 0, reset |-> now + Window] ELSE overflow

Recent(answers, now) ==
  LET last == {i \in 1 .. Len(answers) : answers[i].at + Window > now}
  IN IF last = {} THEN <<>>
     ELSE SubSeq(answers, CHOOSE i \in last : \A j \in last : i <= j, Len(answers))

\* express-rate-limit lets a request through up to the limit.
Grant(k, now, from, c) ==
  LET recent == [j \in Keys |-> Recent(granted[j], now)]
      answer == [at |-> now, from |-> from, hits |-> c.hits, reset |-> c.reset]
  IN granted' = IF c.hits > Limit THEN recent ELSE [recent EXCEPT ![k] = Append(@, answer)]

\* The client has a counter left.
IncrementOwn(k, now) ==
  \E i \in 1 .. Len(Pruned(now)) :
    LET kept == Pruned(now) IN
    /\ kept[i].key = k
    /\ counters' = [kept EXCEPT ![i] = Hit(@)]
    /\ overflow' = IF Expired(overflow, now) THEN None ELSE overflow
    /\ Grant(k, now, "own", Hit(kept[i]))

\* It has none: it gets one, or its share of the common one.
IncrementOther(k, now) ==
  LET kept == Pruned(now) IN
  /\ \A i \in 1 .. Len(kept) : kept[i].key # k
  /\ IF HasRoom(kept)
     THEN /\ counters' = Added(kept, k, now)
          /\ overflow' = IF Expired(overflow, now) THEN None ELSE overflow
          /\ Grant(k, now, "own", [hits |-> 1, reset |-> now + Window])
     ELSE /\ counters' = kept
          /\ overflow' = Hit(Shared(now))
          /\ Grant(k, now, "shared", overflow')

Increment(k, clock) ==
  /\ lastTime' = Now(clock)
  /\ IncrementOwn(k, Now(clock)) \/ IncrementOther(k, Now(clock))

Next == \E k \in Keys, clock \in Times : Increment(k, clock)

Spec == Init /\ [][Next]_vars

-----------------------------------------------------------------------------
(* Properties *)

\* Types of the variables.
TypeOK ==
  /\ lastTime \in Times
  /\ counters \in Seq(Counter) /\ Len(counters) <= MaxKeys
  /\ overflow \in [hits : 0 .. Limit + 1, reset : 0 .. MaxTime + Window]
  /\ granted \in [Keys -> Seq(Granted)]

\* boundedRateStore.ts:24: the loop that stops at the first live entry leaves no
\* expired one behind it, wherever the clock went: nobody is denied by a window
\* that is over, and no dead entry keeps a new client out of the map.
NoDeadCounter ==
  \A i \in 1 .. Len(counters) : ~Expired(counters[i], lastTime)

\* boundedRateStore.ts:3, "Preserve full per-identity windows": a window once
\* begun goes on to its end with what was counted in it, whoever else comes.
WindowsPreserved ==
  [][\A i \in 1 .. Len(counters) :
       ~Expired(counters[i], lastTime') =>
         \E j \in 1 .. Len(counters') :
           /\ counters'[j].key = counters[i].key
           /\ counters'[j].reset = counters[i].reset
           /\ counters'[j].hits >= counters[i].hits]_vars

\* Whatever the others do to the room in the map, a client gets no more within
\* the length of a window than two windows of its own and two of the shared
\* counter give that overlap it: a bound that does not depend on the crowd.
RateBounded ==
  \A k \in Keys : Len(granted[k]) <= 4 * Limit
=============================================================================
