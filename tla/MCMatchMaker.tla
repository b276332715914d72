---------------------------- MODULE MCMatchMaker ----------------------------
(***************************************************************************)
(* Values of the constants for the runs of the workers. Of the players, p1 *)
(* and p2 fit each other from the start, so do p3 and p4, and the two      *)
(* pairs only once an anchor has waited.                                   *)
(***************************************************************************)
EXTENDS MatchMaker

CONSTANTS p1, p2, p3, p4

MCRating ==
  [p \in Players |-> CASE p = p1 -> 1500 [] p = p2 -> 1520
                       [] p = p3 -> 1700 [] OTHER -> 1690]

MCWindows == {50, 300}

\* Nothing reads the inqueue set, the stream, or what was published.
MCView == <<queueKeys, cancelled, status, entries, forming, history, failures,
            workerVars>>
=============================================================================
