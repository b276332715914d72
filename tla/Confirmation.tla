---------------------------- MODULE Confirmation ----------------------------
(***************************************************************************)
(* What happens to a match once the worker has formed it: its players      *)
(* accept or decline through the API, whose handlers confirm or dissolve   *)
(* it, and the reconciler dissolves it when the answers do not come.       *)
(*                                                                         *)
(* A handler runs one script per round trip. A call of matchops.Confirm or *)
(* matchops.Dissolve is in "calls" from the moment its caller decides on   *)
(* it until its script has run, and in "decided", if the script made the   *)
(* transition, until the caller has announced it.                          *)
(***************************************************************************)
EXTENDS Shard

CONSTANT NoPlayer

ASSUME ConfirmationAssumption == NoPlayer \notin Players

VARIABLES
  calls,      \* Confirm and Dissolve calls whose script has not run yet
  decided,    \* calls whose script returned 1, not announced yet
  tasks,      \* goroutines started by the calls
  overdue     \* the matches formed longer than confirmationTimeout ago

callVars == <<calls, decided, tasks, overdue>>

Call == [op       : {"confirm", "dissolve"},
         match    : MatchIds,
         decliner : Players \cup {NoPlayer},
         by       : {"api", "reconciler"}]

\* allocateServer, MarkMatchConfirmed and MarkMatchDissolved.
Task == [run : {"allocate", "mark_confirmed", "mark_dissolved"},
         match : MatchIds]

ConfirmationTypeOK ==
  /\ calls \subseteq Call
  /\ decided \subseteq Call
  /\ tasks \subseteq Task
  /\ overdue \subseteq MatchIds

ConfirmationInit ==
  /\ calls = {} /\ decided = {} /\ tasks = {} /\ overdue = {}

ConfirmCall(m) ==
  [op |-> "confirm", match |-> m, decliner |-> NoPlayer, by |-> "api"]

DissolveCall(m, p, caller) ==
  [op |-> "dissolve", match |-> m, decliner |-> p, by |-> caller]

----------------------------------------------------------------------------
(* POST /match/{id}/accept and /match/{id}/decline. Neither the handlers    *)
(* nor their scripts ask whether the player is in the match: whoever names  *)
(* it is counted. A request the script refuses writes nothing.              *)

AcceptScript(p, m) ==
  /\ status[m] = "forming"
  /\ p \notin declined[m]
  /\ p \notin accepted[m]
  /\ accepted' = [accepted EXCEPT ![m] = @ \cup {p}]

DeclineScript(p, m) ==
  /\ status[m] = "forming"
  /\ p \notin declined[m]
  /\ declined' = [declined EXCEPT ![m] = @ \cup {p}]

\* Mutant: a decline counts as an answer too.
EverybodyAnswers(p, m) ==
  Cardinality(accepted[m] \cup declined[m] \cup {p}) = Cardinality(entries[m])

\* The answer of p completes the set of acceptances. The set counts players
\* and the record counts entries.
Completes(p, m) == Cardinality(accepted[m] \cup {p}) = Cardinality(entries[m])

\* The handler of the answer that completes the set confirms the match.
Accept(p, m) ==
  /\ AcceptScript(p, m)
  /\ calls' = IF Completes(p, m) THEN calls \cup {ConfirmCall(m)} ELSE calls
  /\ UNCHANGED <<queueKeys, playerKeys, matchKeys, declined, events, history,
                 failures, decided, tasks, overdue>>

\* Each player's first decline dissolves; an earlier acceptance is no bar. A
\* decliner who is not in the match is left out of nothing: all are requeued.
Decline(p, m) ==
  /\ DeclineScript(p, m)
  /\ calls' = calls \cup {DissolveCall(m, p, "api")}
  /\ UNCHANGED <<queueKeys, playerKeys, matchKeys, accepted, events, history,
                 failures, decided, tasks, overdue>>

----------------------------------------------------------------------------
(* matchops.                                                               *)

\* Mutant: the result of the script is ignored.
AnnounceAnyway(c) ==
  /\ c \in calls
  /\ status[c.match] # "forming"
  /\ calls' = calls \ {c}
  /\ decided' = decided \cup {c}
  /\ UNCHANGED <<shardVars, failures, tasks, overdue>>

\* The script of the call finds the match decided: the call returns.
TooLate(c) ==
  /\ c \in calls
  /\ status[c.match] # "forming"
  /\ calls' = calls \ {c}
  /\ UNCHANGED <<shardVars, failures, decided, tasks, overdue>>

Confirm(c) ==
  /\ c \in calls /\ c.op = "confirm"
  /\ ConfirmScript(c.match)
  /\ calls' = calls \ {c}
  /\ decided' = decided \cup {c}
  /\ UNCHANGED <<queueKeys, cancelled, entries, stream, answerKeys, events,
                 history, failures, tasks, overdue>>

Dissolve(c) ==
  /\ c \in calls /\ c.op = "dissolve"
  /\ DissolveScript(c.match, c.decliner)
  /\ left' = left \cup (entries[c.match] \ Requeued(c.match, c.decliner))
  /\ calls' = calls \ {c}
  /\ decided' = decided \cup {c}
  /\ UNCHANGED <<processing, cancelled, entries, stream, answerKeys, events,
                 clock, joined, failures, tasks, overdue>>

Outcome(c) == IF c.op = "confirm" THEN "confirmed" ELSE "dissolved"

\* Mutant: a server is allocated whatever the outcome.
StartedAlways(c) ==
  [run : {"allocate", IF c.op = "confirm" THEN "mark_confirmed" ELSE "mark_dissolved"},
   match : {c.match}]

\* The goroutines the caller starts; the reconciler has no store.
Started(c) ==
  LET mark == IF c.op = "confirm" THEN "mark_confirmed" ELSE "mark_dissolved"
      runs == (IF c.by = "api" THEN {mark} ELSE {})
              \cup (IF c.op = "confirm" THEN {"allocate"} ELSE {})
  IN  [run : runs, match : {c.match}]

Publish(type, m) ==
  events' \in {events \cup {[type |-> type, match |-> m]}, events}

\* Publishes the outcome (an error is logged) and starts the goroutines.
Announce(c) ==
  /\ c \in decided
  /\ decided' = decided \ {c}
  /\ Publish(Outcome(c), c.match)
  /\ tasks' = tasks \cup Started(c)
  /\ UNCHANGED <<queueKeys, playerKeys, matchKeys, answerKeys, history,
                 failures, calls, overdue>>

AllocateServer(m) ==
  LET t == [run |-> "allocate", match |-> m] IN
  /\ t \in tasks
  /\ tasks' = tasks \ {t}
  /\ Publish("server_ready", m)
  /\ UNCHANGED <<queueKeys, playerKeys, matchKeys, answerKeys, history,
                 failures, calls, decided, overdue>>

\* The API process, the request's context or its connection to Redis ends
\* before the call returns.
CallDies(c) ==
  /\ c.by = "api" /\ c \in calls \cup decided
  /\ calls' = calls \ {c}
  /\ decided' = decided \ {c}
  /\ UNCHANGED <<shardVars, failures, tasks, overdue>>

----------------------------------------------------------------------------
(* The reconciler.                                                         *)

\* confirmationTimeout passes since the match was formed.
GrowOverdue(m) ==
  /\ m \in forming /\ m \notin overdue
  /\ overdue' = overdue \cup {m}
  /\ UNCHANGED <<shardVars, failures, calls, decided, tasks>>

\* The reconciler is a single goroutine: a tick waits for the one before.
ReconcilerIdle == \A c \in calls \cup decided : c.by # "reconciler"

\* Mutant: a match that got an answer is left to the API.
TimedOutUnanswered == {m \in forming \cap overdue : accepted[m] = {}}

\* ZRANGEBYSCORE of the forming set.
TimedOut == forming \cap overdue

\* A tick: a Dissolve for each match found.
ProcessTimedOut ==
  /\ ReconcilerIdle
  /\ TimedOut # {}
  /\ calls' = calls \cup {DissolveCall(m, NoPlayer, "reconciler") :
                            m \in TimedOut}
  /\ UNCHANGED <<shardVars, failures, decided, tasks, overdue>>

\* A call of the reconciler gets an error from Redis, or the reconciler dies
\* with all of them; a later tick starts again from the forming set.
ReconcilerFails ==
  \E lost \in SUBSET {c \in calls \cup decided : c.by = "reconciler"} :
    /\ lost # {}
    /\ OneFailure
    /\ calls' = calls \ lost
    /\ decided' = decided \ lost
    /\ UNCHANGED <<shardVars, tasks, overdue>>

Reconcile ==
  \/ ProcessTimedOut
  \/ \E c \in calls : c.by = "reconciler" /\ (TooLate(c) \/ Dissolve(c))
  \/ \E c \in decided : c.by = "reconciler" /\ Announce(c)

ConfirmationNext ==
  \/ ProcessTimedOut \/ ReconcilerFails
  \/ \E m \in MatchIds :
       \/ AllocateServer(m) \/ GrowOverdue(m)
       \/ \E p \in Players : Accept(p, m) \/ Decline(p, m)
  \/ \E c \in calls : TooLate(c) \/ Confirm(c) \/ Dissolve(c)
  \/ \E c \in decided : Announce(c)
  \/ \E c \in calls \cup decided : CallDies(c)

\* The matches and their players, who may cancel at any time.
confirmationVars == <<shardVars, failures, callVars>>

ConfirmationStep ==
  ConfirmationNext \/ (QueueClient /\ UNCHANGED callVars)

\* Time passes and the reconciler runs; nobody has to answer, and an API call
\* may die at any point.
ConfirmationFairness ==
  /\ WF_confirmationVars(Reconcile)
  /\ \A m \in MatchIds : WF_confirmationVars(GrowOverdue(m))

----------------------------------------------------------------------------
(* Properties.                                                             *)

AcceptedByAll(m) ==
  /\ PlayersOf(entries[m]) \subseteq accepted[m]
  /\ Cardinality(PlayersOf(entries[m])) = Cardinality(entries[m])

Enough(m) == Cardinality(accepted[m]) >= Cardinality(entries[m])

\* A match is confirmed only when it has an acceptance for each of its entries,
\* although the script that confirms runs after, and apart from, the one that
\* counted them. If nobody but its players accepted it, that is all of them,
\* and none of them has two entries in it.
ConfirmedByEnough ==
  \A m \in MatchIds : status[m] = "confirmed" =>
    /\ Enough(m)
    /\ accepted[m] \subseteq PlayersOf(entries[m]) => AcceptedByAll(m)

\* What the players hear agrees with Redis: no match is announced as both
\* confirmed and dissolved, and only a confirmed match gets a server.
AnnouncedTruthfully ==
  \A e \in events :
    /\ e.type = "confirmed" => status[e.match] = "confirmed"
    /\ e.type = "dissolved" => status[e.match] = "dissolved"
    /\ e.type = "server_ready" => status[e.match] = "confirmed"

\* The inductive invariant behind both: nobody has accepted a match before it
\* was formed, a call that confirms knows of enough acceptances and one to
\* announce made its transition, and a server is allocated to a confirmed match.
OutcomeInv ==
  /\ \A m \in MatchIds : /\ status[m] = "none" => accepted[m] = {}
                         /\ status[m] = "confirmed" => Enough(m)
  /\ \A c \in calls : /\ status[c.match] # "none"
                      /\ c.op = "confirm" => Enough(c.match)
  /\ \A c \in decided : status[c.match] = Outcome(c)
  /\ \A t \in tasks : t.run = "allocate" => status[t.match] = "confirmed"
  /\ AnnouncedTruthfully

\* No match stays in limbo: if answers are missing, or the handler that had
\* to act on the last one died, the reconciler ends it.
EveryMatchDecided ==
  \A m \in MatchIds : status[m] = "forming" ~> status[m] # "forming"

\* What Dissolve is documented to do: whoever explicitly declined the match is
\* not put back in the queue.
DeclinersStayOut ==
  [][\A m \in MatchIds : status[m] # status'[m] /\ status'[m] = "dissolved" =>
       PlayersOf(entries[m] \cap queue') \cap declined[m] = {}]_confirmationVars
=============================================================================
