---------------------------- MODULE DirectoryPaging ----------------------------
(***************************************************************************)
(* The pages of services/directory.ts, walked by a client with the cursors *)
(* they carry while accounts come, go and change their names.              *)
(*                                                                         *)
(* A row is listed when it exists and the filter and search of the request *)
(* select it.  Rows are ordered by name, then _id, and a cursor carries    *)
(* both, so it stays a position when its row is gone.                      *)
(***************************************************************************)
EXTENDS Naturals, Sequences, FiniteSets, SequencesExt

CONSTANTS
  Ids,       \* _id of the accounts: numbers
  Names,     \* their names: numbers
  Unlisted,  \* instead of a name: no such account, or not selected
  Size,      \* pageSize
  Changes    \* bound: changes of the rows

PagingAssumption ==
  Ids \subseteq Nat /\ Names \subseteq Nat /\ IsFiniteSet(Ids) /\ Unlisted \notin Nat
    /\ Size \in Nat \ {0} /\ Changes \in Nat

VARIABLES
  name,      \* the rows: the name of each account, or Unlisted
  shown,     \* items, as sent: keys
  next,      \* cursors of the page, or Null
  previous,
  changes,   \* changes so far
  seen,      \* ghost: rows shown since the first page, going forwards only
  steady,    \* ghost: the accounts whose row has not changed since the first page
  still,     \* ghost: no row has changed since the present page was sent
  from,      \* ghost: the page `next` was used on, unless rows changed since, or Null
  asked      \* ghost: the request whose page is shown

vars == <<name, shown, next, previous, changes, seen, steady, still, from, asked>>

\* _id and name as one position; Null stands for null.
Null == <<>>
Before(k, l) == k[1] < l[1] \/ (k[1] = l[1] /\ k[2] < l[2])
Keys == {<<name[i], i>> : i \in {i \in Ids : name[i] # Unlisted}}
\* sort({ name: 1, _id: 1 }): each key stands behind those that are before it.
Sorted(keys) ==
  [j \in 1..Cardinality(keys) |->
     CHOOSE k \in keys : Cardinality({l \in keys : Before(l, k)}) = j - 1]

-----------------------------------------------------------------------------
(* Faulty variants of the operators below, each the code after a plausible   *)
(* slip; no specification uses them, they show what the properties detect.   *)

\* A cursor of the name alone.
BeyondByName(k, token, backwards) ==
  token = Null \/ (IF backwards THEN k[1] < token[1] ELSE k[1] > token[1])
\* The rows of a page that goes backwards left in the order they came in.
SelectedUnreversed(rows, backwards) ==
  SubSeq(rows, 1, IF Len(rows) < Size THEN Len(rows) ELSE Size)

-----------------------------------------------------------------------------
(* sendDirectory *)

\* The condition on name and _id that `after` or `before` adds.
Beyond(k, token, backwards) ==
  token = Null \/ (IF backwards THEN Before(k, token) ELSE Before(token, k))

\* sort and limit(size + 1)
Fetched(keys, backwards) ==
  LET ordered == IF backwards THEN Reverse(Sorted(keys)) ELSE Sorted(keys)
  IN  SubSeq(ordered, 1, IF Len(ordered) <= Size THEN Len(ordered) ELSE Size + 1)

Selected(rows, backwards) ==
  LET page == SubSeq(rows, 1, IF Len(rows) < Size THEN Len(rows) ELSE Size)
  IN  IF backwards THEN Reverse(page) ELSE page

EndOf(rows, selected) == Last(selected)

Page(token, backwards) ==
  LET rows == Fetched({k \in Keys : Beyond(k, token, backwards)}, backwards)
      more == Len(rows) > Size
      selected == Selected(rows, backwards)
  IN  [items |-> selected,
       next |-> IF selected # <<>> /\ (IF backwards THEN token # Null ELSE more)
                THEN EndOf(rows, selected) ELSE Null,
       previous |-> IF selected = <<>> THEN token
                    ELSE IF (IF backwards THEN more ELSE token # Null)
                         THEN Head(selected) ELSE Null]

-----------------------------------------------------------------------------
(* The client *)

Take(token, backwards) ==
  LET page == Page(token, backwards)
  IN  /\ shown' = page.items
      /\ next' = page.next
      /\ previous' = page.previous
      /\ asked' = [token |-> token, backwards |-> backwards]
      /\ still' = TRUE
      /\ UNCHANGED <<name, changes>>

First ==
  /\ Take(Null, FALSE)
  /\ seen' = Page(Null, FALSE).items
  /\ steady' = Ids
  /\ from' = Null

Next_ ==
  /\ next # Null
  /\ Take(next, FALSE)
  /\ seen' = IF asked.backwards THEN <<>> ELSE seen \o Page(next, FALSE).items
  /\ steady' = IF asked.backwards THEN {} ELSE steady
  /\ from' = IF still THEN shown ELSE Null

\* A walk that turns back is not one any more.
Previous ==
  /\ previous # Null
  /\ Take(previous, TRUE)
  /\ seen' = <<>> /\ steady' = {} /\ from' = Null

Change(i) ==
  /\ changes < Changes
  /\ \E n \in (Names \cup {Unlisted}) \ {name[i]} : name' = [name EXCEPT ![i] = n]
  /\ changes' = changes + 1
  /\ steady' = steady \ {i}
  /\ still' = FALSE /\ from' = Null
  /\ UNCHANGED <<shown, next, previous, seen, asked>>

Init ==
  /\ name \in [Ids -> Names \cup {Unlisted}]
  /\ LET page == Page(Null, FALSE)
     IN  shown = page.items /\ next = page.next /\ previous = page.previous /\ seen = page.items
  /\ changes = 0
  /\ steady = Ids
  /\ still = TRUE /\ from = Null
  /\ asked = [token |-> Null, backwards |-> FALSE]

Next == First \/ Next_ \/ Previous \/ \E i \in Ids : Change(i)

Spec == Init /\ [][Next]_vars

-----------------------------------------------------------------------------
(* Properties *)

\* Types of the variables.
TypeOK ==
  /\ name \in [Ids -> Names \cup {Unlisted}]
  /\ shown \in Seq(Names \X Ids) /\ Len(shown) <= Size
  /\ {next, previous} \subseteq (Names \X Ids) \cup {Null}
  /\ changes \in 0..Changes
  /\ steady \subseteq Ids /\ still \in BOOLEAN

\* docs/directory-contract.md:14-15: a walk forwards to the last page shows every
\* row that did not change meanwhile, names shared by several accounts included,
\* and shows no row twice, whatever the others did.
WalkIsComplete ==
  /\ \A j, k \in 1..Len(seen) : j < k => Before(seen[j], seen[k])
  /\ next = Null /\ ~asked.backwards =>
       \A i \in steady : name[i] # Unlisted => \E j \in 1..Len(seen) : seen[j] = <<name[i], i>>

\* A page is a run of the directory: in order, none left out between two of its
\* rows, and with a way on wherever the directory goes on.
PagesAreRuns ==
  [][asked' # asked \/ shown' # shown =>
       LET inside(k) == ~Before(k, shown'[1]) /\ ~Before(shown'[Len(shown')], k)
       IN  shown' # <<>> =>
             /\ {shown'[j] : j \in 1..Len(shown')} = {k \in Keys : inside(k)}
             /\ \A j \in 1..Len(shown') - 1 : Before(shown'[j], shown'[j + 1])
             /\ (\E k \in Keys : Before(shown'[Len(shown')], k)) => next' # Null
             /\ (\E k \in Keys : Before(k, shown'[1])) => previous' # Null]_vars

\* One page on and one back is the page one came from, unless rows have changed or
\* the page on was empty: its cursor then leaves out the row it stands for.
BackAgain == [][Previous /\ from # Null /\ shown # <<>> => shown' = from]_vars
=============================================================================
