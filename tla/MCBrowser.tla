------------------------------ MODULE MCBrowser ------------------------------
(***************************************************************************)
(* A small instance of every part of the page.                             *)
(***************************************************************************)
EXTENDS Browser, TLC

CONSTANTS a, b, nobody, w1, w2, all, q, t1, t2, n1, n2, nil

MCAccounts == {a, b}
MCWrites == {w1, w2}
MCQueries == {all, q}
MCTutors == {t1, t2}
MCNames == {n1, n2}
MCAddresses == {"old@x", "new@x"}
MCSpellings == {"old@x", "new@x", "New@x"}
MCNormal(s) == IF s = "New@x" THEN "new@x" ELSE s
MCIds == 1 .. 4
MCListNames == {1, 2}

\* A part that is not chosen stands at one state.
MCInit ==
  /\ part \in Parts
  /\ part # "client" => csSession = nobody
  /\ part # "draft" => pdServer = [name |-> n1, email |-> "old@x"]
  /\ part # "admin" => apManager = FALSE
  /\ part # "paging" => dpName = [i \in ListIds |-> 1]
  /\ BrowserInit

\* Of the disturbances of others and the lost answers, one in a behaviour; of an
\* administrator's edits and actions, three.
MCNext ==
  /\ BrowserNext
  /\ csTabs' + csLost' <= 1 /\ apOthers' + apLost' <= 1 /\ apTyped' + apBegun' <= 3

MCSpec == MCInit /\ [][MCNext]_browserVars /\ View!Fairness /\ Page!Fairness
==============================================================================
