----------------------------- MODULE Withdrawal -----------------------------
(***************************************************************************)
(* The shard, with the last wish of each player beside it: a player who    *)
(* cancelled and has not joined again has withdrawn. The code keeps no     *)
(* such state; its cancelled set, which the worker clears, stands for it.  *)
(***************************************************************************)
EXTENDS Matchmaking

CONSTANT Rejoin \* whether a player may join more than once

ASSUME WithdrawalAssumption == Rejoin \in BOOLEAN

VARIABLE withdrawn

withdrawalVars == <<vars, withdrawn>>

WithdrawalInit == Init /\ withdrawn = {}

JoinAgain(p) ==
  /\ Rejoin \/ p \notin PlayersOf(joined)
  /\ Join(p)
  /\ withdrawn' = withdrawn \ {p}

Withdraw(p) == Cancel(p) /\ withdrawn' = withdrawn \cup {p}

WithdrawalNext ==
  \/ /\ \E p \in Players : JoinAgain(p) \/ Withdraw(p)
     /\ UNCHANGED <<workerVars, callVars>>
  \/ WorkerNext /\ UNCHANGED <<callVars, withdrawn>>
  \/ ConfirmationNext /\ UNCHANGED <<workerVars, withdrawn>>

WithdrawalSpec == WithdrawalInit /\ [][WithdrawalNext]_withdrawalVars

PutInMatch(m) == status[m] = "none" /\ status'[m] = "forming"

\* No ghost match: a player who has withdrawn is put in no new match, although
\* the worker has the entry in memory, and clears the mark of the cancellation
\* one round trip after it read it.
NoGhostMatch ==
  [][\A m \in MatchIds : PutInMatch(m) =>
       PlayersOf(entries'[m]) \cap withdrawn = {}]_withdrawalVars

\* The only entry of its player.
Sole(e) == \A f \in joined : f.player = e.player => f = e

\* What is true of it: without a failure, a player who has joined once and
\* withdrawn is put in no new match, whatever the other players do and however
\* often the entry was dissolved or repushed.
NoGhostOfOneEntry ==
  [][failures = 0 =>
       \A m \in MatchIds : PutInMatch(m) =>
         \A e \in entries'[m] : e.player \in withdrawn => ~ Sole(e)]_withdrawalVars

\* In the processing set and nowhere else, with no drain to come.
Discarded(e) ==
  /\ e \in processing \ queue
  /\ \A w \in Workers : e \notin Buffered(w) \cup work[w]
  /\ lock # NoWorker /\ pc[lock] \notin {"down", "start"}

\* The inductive invariant behind it, beside IInv: the mark of a cancellation
\* is there as long as the entry is anywhere a worker can get at it.
WithdrawnInv ==
  failures = 0 =>
    \A e \in joined : e.player \in withdrawn \ cancelled /\ Sole(e) => Discarded(e)
=============================================================================
