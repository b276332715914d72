--------------------------- MODULE MCStalledWorker ---------------------------
(***************************************************************************)
(* Workers that may stall, with players of one rating.                     *)
(***************************************************************************)
EXTENDS StalledWorker, TLC

MCRating == [p \in Players |-> 1500]
MCWindows == {50}
MCSymmetry ==
  Permutations(Players) \cup Permutations(MatchIds) \cup Permutations(Workers)

\* Nothing reads the inqueue set, the stream, or what was published.
MCView == <<queueKeys, cancelled, status, entries, forming, history, failures,
            workerVars, exposed>>
=============================================================================
