---------------------------- MODULE MCMatchmaking ----------------------------
(***************************************************************************)
(* The whole shard with two players, who may join more than once.          *)
(***************************************************************************)
EXTENDS Matchmaking, TLC

MCRating == [p \in Players |-> 1500]
MCWindows == {50}
MCSymmetry ==
  Permutations(Players) \cup Permutations(MatchIds) \cup Permutations(Workers)

\* The answers to the matches that still take some.
OpenAnswers ==
  [m \in MatchIds |-> IF status[m] = "forming" THEN <<accepted[m], declined[m]>>
                      ELSE <<>>]

\* Nothing reads the inqueue set, the stream, what was published, or the answers
\* to a decided match.
MCView == <<queueKeys, cancelled, status, entries, forming, OpenAnswers,
            history, failures, workerVars, calls,
            {c \in decided : c.by = "reconciler"}, overdue \cap forming>>
=============================================================================
