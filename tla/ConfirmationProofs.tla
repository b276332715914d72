-------------------------- MODULE ConfirmationProofs --------------------------
(***************************************************************************)
(* What the shard decides about a match, and announces of it, is true for  *)
(* any number of players, matches, calls and failures. The invariant of    *)
(* the calls rests on that of the shard: the entries of a match do not     *)
(* change once it is formed, and its outcome does not change.              *)
(***************************************************************************)
EXTENDS MatchmakingProofs

----------------------------------------------------------------------------
(* The matches and the answers.                                            *)

\* If only its players have accepted a match, there are as many acceptances as
\* entries only if no two entries are of one player, and each has accepted.
LEMMA EnoughMeansAll ==
  ASSUME TypeOK, NEW m \in MatchIds,
         accepted[m] \subseteq PlayersOf(entries[m]), Enough(m)
  PROVE  AcceptedByAll(m)
<1> DEFINE E == entries[m]
           P == PlayersOf(E)
           A == accepted[m]
           f == [e \in E |-> e.player]
<1>1. E \subseteq Entry
  BY DEF TypeOK, ShardTypeOK
<1>2. IsFiniteSet(E)
  BY <1>1, EntryFinite, FS_Subset
<1>3. f \in Surjection(E, P)
  BY DEF Surjection, PlayersOf
<1>4. IsFiniteSet(P) /\ Cardinality(P) <= Cardinality(E)
  BY <1>2, <1>3, FS_Surjection
<1>5. A \in SUBSET P
  OBVIOUS
<1>6. /\ Cardinality(A) <= Cardinality(P)
      /\ Cardinality(P) = Cardinality(A) => P = A
  BY <1>4, <1>5, FS_Subset
<1>7. IsFiniteSet(A)
  BY <1>4, <1>5, FS_Subset
<1>8. /\ Cardinality(E) \in Nat /\ Cardinality(P) \in Nat
      /\ Cardinality(A) \in Nat
  BY <1>2, <1>4, <1>7, FS_CardinalityType
<1>9. Cardinality(A) >= Cardinality(E)
  BY DEF Enough
<1>10. Cardinality(P) = Cardinality(E) /\ Cardinality(P) = Cardinality(A)
  BY <1>4, <1>6, <1>8, <1>9
<1> QED
  BY <1>6, <1>10 DEF AcceptedByAll

\* Acceptances are never taken back, so what is enough stays enough; and the
\* answer that completes the set is enough, whoever gave the answers.
LEMMA EnoughStays ==
  ASSUME TypeOK, accepted' \in [MatchIds -> SUBSET Players],
         NEW m \in MatchIds, entries'[m] = entries[m],
         accepted[m] \subseteq accepted'[m]
  PROVE  /\ Enough(m) => Enough(m)'
         /\ \A p \in Players :
              Completes(p, m) /\ accepted'[m] = accepted[m] \cup {p} => Enough(m)'
<1>1. entries[m] \subseteq Entry /\ accepted'[m] \subseteq Players
  BY DEF TypeOK, ShardTypeOK
<1>2. IsFiniteSet(entries[m]) /\ IsFiniteSet(accepted'[m])
  BY <1>1, EntryFinite, ShardAssumption, FS_Subset
<1>3. /\ IsFiniteSet(accepted[m])
      /\ Cardinality(accepted[m]) <= Cardinality(accepted'[m])
  BY <1>2, FS_Subset
<1>4. /\ Cardinality(entries[m]) \in Nat
      /\ Cardinality(accepted[m]) \in Nat /\ Cardinality(accepted'[m]) \in Nat
  BY <1>2, <1>3, FS_CardinalityType
<1>5. Enough(m)' <=> Cardinality(accepted'[m]) >= Cardinality(entries[m])
  BY DEF Enough
<1>6. Enough(m) => Enough(m)'
  <2>1. Enough(m) => Cardinality(accepted[m]) >= Cardinality(entries[m])
    BY DEF Enough
  <2> QED BY <1>3, <1>4, <1>5, <2>1
<1>7. ASSUME NEW p \in Players, Completes(p, m),
             accepted'[m] = accepted[m] \cup {p}
      PROVE  Enough(m)'
  <2>1. Cardinality(accepted'[m]) = Cardinality(entries[m])
    BY <1>7 DEF Completes
  <2> QED BY <1>4, <1>5, <2>1
<1> QED BY <1>6, <1>7

\* A match that was formed keeps its entries, and a decided one its outcome:
\* the shard implements the pool, and the pool does not do otherwise.
LEMMA MatchStep ==
  ASSUME IInv, [Next]_vars, NEW m \in MatchIds, status[m] # "none"
  PROVE  /\ status'[m] # "none" /\ entries'[m] = entries[m]
         /\ status[m] \in {"confirmed", "dissolved"} => status'[m] = status[m]
<1>1. [Pool!Next]_(Pool!vars)
  BY NextPool
<1>2. status \in [MatchIds -> Status] /\ entries \in [MatchIds -> SUBSET Entry]
  BY DEF IInv, TypeOK, ShardTypeOK
<1> QED
  BY <1>1, <1>2 DEF Pool!Next, Pool!vars, Pool!Enter, Pool!Form, Pool!Confirm,
                    Pool!Dissolve, Status

----------------------------------------------------------------------------
(* The invariant of the calls.                                             *)

\* What is already accepted, called, decided, started or announced stays
\* right; so a step that leaves the acceptances alone only has to answer for
\* what it adds.
LEMMA OutcomeStep ==
  ASSUME IInv, OutcomeInv, [Next]_vars, accepted' = accepted,
         \A c \in calls' \ calls :
           /\ c.match \in MatchIds /\ status[c.match] # "none"
           /\ c.op = "confirm" => Enough(c.match),
         \A c \in decided' \ decided :
           c.match \in MatchIds /\ status'[c.match] = Outcome(c),
         \A t \in tasks' \ tasks :
           /\ t.match \in MatchIds
           /\ t.run = "allocate" => status[t.match] = "confirmed",
         \A e \in events' \ events :
           /\ e.match \in MatchIds
           /\ e.type = "confirmed" => status[e.match] = "confirmed"
           /\ e.type = "dissolved" => status[e.match] = "dissolved"
           /\ e.type = "server_ready" => status[e.match] = "confirmed",
         \A m \in MatchIds :
           status'[m] = "confirmed" /\ status[m] # "confirmed" =>
             status[m] # "none" /\ Enough(m)
  PROVE  OutcomeInv'
<1>1. /\ \A c \in calls \cup decided : c.match \in MatchIds
      /\ \A c \in decided : Outcome(c) \in {"confirmed", "dissolved"}
      /\ \A t \in tasks : t.match \in MatchIds
      /\ \A e \in events : e.match \in MatchIds
  BY DEF IInv, TypeOK, ShardTypeOK, ConfirmationTypeOK, Call, Task, Event,
         Outcome
<1>2. \A m \in MatchIds : status[m] # "none" =>
        /\ status'[m] # "none" /\ entries'[m] = entries[m]
        /\ status[m] \in {"confirmed", "dissolved"} => status'[m] = status[m]
  BY MatchStep
<1>3. \A m \in MatchIds : status[m] # "none" /\ Enough(m) => Enough(m)'
  BY <1>2 DEF Enough
<1>4. ASSUME NEW m \in MatchIds
      PROVE  /\ status'[m] = "none" => accepted'[m] = {}
             /\ status'[m] = "confirmed" => Enough(m)'
  BY <1>2, <1>3 DEF OutcomeInv
<1>5. ASSUME NEW c \in calls'
      PROVE  /\ status'[c.match] # "none"
             /\ c.op = "confirm" => Enough(c.match)'
  BY <1>1, <1>2, <1>3 DEF OutcomeInv
<1>6. ASSUME NEW c \in decided'
      PROVE  status'[c.match] = Outcome(c)
  BY <1>1, <1>2 DEF OutcomeInv
<1>7. ASSUME NEW t \in tasks', t.run = "allocate"
      PROVE  status'[t.match] = "confirmed"
  BY <1>1, <1>2, <1>7 DEF OutcomeInv
<1>8. AnnouncedTruthfully'
  BY <1>1, <1>2 DEF OutcomeInv, AnnouncedTruthfully
<1>9. \A c : Outcome(c)' = Outcome(c)
  BY DEF Outcome
<1> QED
  BY <1>4, <1>5, <1>6, <1>7, <1>8, <1>9 DEF OutcomeInv

\* The queue clients and the workers take no part in the answers: a worker
\* forms matches nobody has answered, and announces that it did.
LEMMA OthersOutcome ==
  ASSUME IInv, OutcomeInv, [Next]_vars,
         QueueClient \/ WorkerNext, UNCHANGED callVars
  PROVE  OutcomeInv'
<1> USE DEF shardVars, queueKeys, playerKeys, matchKeys, answerKeys
<1>1. status \in [MatchIds -> Status]
  BY DEF IInv, TypeOK, ShardTypeOK
<1>2. /\ accepted' = accepted
      /\ \A e \in events' \ events : e.match \in MatchIds /\ e.type = "forming"
      /\ \A m \in MatchIds :
           status'[m] = "confirmed" => status[m] = "confirmed"
  <2>1. ASSUME NEW p \in Players, Join(p) \/ Cancel(p) PROVE <1>2!:
    BY <2>1 DEF Join, Cancel
  <2>2. CASE LockExpires
    BY <2>2 DEF LockExpires
  <2>3. ASSUME NEW w \in Workers, Run(w) \/ Failure(w) PROVE <1>2!:
    <3>1. CASE \/ AcquireShardLock(w) \/ DrainProcessing(w) \/ Crash(w)
               \/ Stop(w) \/ PopBatch(w) \/ PopReplyLost(w)
      BY <3>1 DEF AcquireShardLock, DrainProcessing, Crash, Stop, Forget,
                  PopBatch, PopReplyLost
    <3>2. CASE \/ CheckCancelled(w) \/ CheckFails(w) \/ Uncancel(w)
               \/ UncancelFails(w)
      BY <3>2 DEF CheckCancelled, CheckFails, Filter, Uncancel, UncancelFails
    <3>3. CASE RepushToQueue(w) \/ RemoveRepushed(w) \/ RepushFails(w)
      BY <3>3 DEF RepushToQueue, RemoveRepushed, RepushFails
    <3>4. CASE AnnounceMatch(w)
      <4>1. unsent[w] \in MatchIds
        BY <3>4 DEF AnnounceMatch, IInv, TypeOK, WorkerTypeOK, HandsMatchStep
      <4> QED BY <3>4, <4>1 DEF AnnounceMatch
    <3>5. ASSUME NEW win \in Windows, NoGroup(w, win) \/ RejectGroup(w, win)
          PROVE  <1>2!:
      BY <3>5 DEF NoGroup, RejectGroup
    <3>6. ASSUME NEW win \in Windows, NEW m \in MatchIds, CommitMatch(w, m, win)
          PROVE  <1>2!:
      BY <1>1, <3>6 DEF CommitMatch, CommitMatchScript
    <3> QED BY <2>3, <3>1, <3>2, <3>3, <3>4, <3>5, <3>6
            DEF Run, PopOnce, FormMatches, Failure
  <2> QED BY <2>1, <2>2, <2>3 DEF QueueClient, WorkerNext
<1> QED BY <1>2, OutcomeStep DEF callVars

\* The answer that completes the set calls Confirm.
LEMMA AcceptOutcome ==
  ASSUME IInv, OutcomeInv, NEW m \in MatchIds, NEW p \in Players, Accept(p, m)
  PROVE  OutcomeInv'
<1> USE DEF Accept, AcceptScript, matchKeys
<1>1. /\ TypeOK
      /\ accepted \in [MatchIds -> SUBSET Players]
      /\ \A c \in calls : c.match \in MatchIds
  BY DEF IInv, TypeOK, ShardTypeOK, ConfirmationTypeOK, Call
<1>2. \A n \in MatchIds : Enough(n) => Enough(n)'
  BY <1>1, EnoughStays
<1>3. ASSUME NEW n \in MatchIds
      PROVE  /\ status'[n] = "none" => accepted'[n] = {}
             /\ status'[n] = "confirmed" => Enough(n)'
  BY <1>1, <1>2 DEF OutcomeInv
<1>4. Completes(p, m) => Enough(m)'
  BY <1>1, EnoughStays
<1>5. ASSUME NEW c \in calls'
      PROVE  /\ status'[c.match] # "none"
             /\ c.op = "confirm" => Enough(c.match)'
  BY <1>1, <1>2, <1>4 DEF OutcomeInv, ConfirmCall
<1>6. AnnouncedTruthfully'
  BY DEF OutcomeInv, AnnouncedTruthfully
<1>7. \A c : Outcome(c)' = Outcome(c)
  BY DEF Outcome
<1> QED
  BY <1>3, <1>5, <1>6, <1>7 DEF OutcomeInv

\* A decline, and a tick of the reconciler, call Dissolve of a match that was
\* formed.
LEMMA DissolveCalls ==
  ASSUME IInv, OutcomeInv, [Next]_vars,
         ProcessTimedOut \/ \E m \in MatchIds, p \in Players : Decline(p, m)
  PROVE  OutcomeInv'
<1> USE DEF shardVars, matchKeys, answerKeys
<1>1. ASSUME NEW m \in MatchIds, NEW p \in Players, Decline(p, m)
      PROVE  OutcomeInv'
  BY <1>1, OutcomeStep DEF Decline, DeclineScript, DissolveCall
<1>2. CASE ProcessTimedOut
  <2>1. \A m \in TimedOut : m \in MatchIds /\ status[m] # "none"
    BY DEF TimedOut, IInv, FormingIndexed
  <2> QED BY <1>2, <2>1, OutcomeStep DEF ProcessTimedOut, DissolveCall
<1> QED BY <1>1, <1>2

\* The script of a call makes its transition, or the call returns.
LEMMA CallOutcome ==
  ASSUME IInv, OutcomeInv, [Next]_vars, NEW c \in calls,
         TooLate(c) \/ Confirm(c) \/ Dissolve(c)
  PROVE  OutcomeInv'
<1>1. /\ status \in [MatchIds -> Status]
      /\ c.match \in MatchIds
  BY DEF IInv, TypeOK, ShardTypeOK, ConfirmationTypeOK, Call
<1>2. CASE TooLate(c)
  BY <1>2, OutcomeStep DEF TooLate, shardVars, matchKeys, answerKeys
<1>3. CASE Confirm(c)
  <2>1. /\ status[c.match] = "forming" /\ Enough(c.match)
        /\ status' = [status EXCEPT ![c.match] = "confirmed"]
        /\ accepted' = accepted /\ events' = events /\ tasks' = tasks
        /\ calls' \subseteq calls /\ decided' = decided \cup {c}
        /\ Outcome(c) = "confirmed"
    BY <1>3 DEF Confirm, ConfirmScript, answerKeys, OutcomeInv, Outcome
  <2> QED BY <1>1, <2>1, OutcomeStep
<1>4. CASE Dissolve(c)
  <2>1. /\ status' = [status EXCEPT ![c.match] = "dissolved"]
        /\ accepted' = accepted /\ events' = events /\ tasks' = tasks
        /\ calls' \subseteq calls /\ decided' = decided \cup {c}
        /\ Outcome(c) = "dissolved"
    BY <1>4 DEF Dissolve, DissolveScript, answerKeys, Outcome
  <2> QED BY <1>1, <2>1, OutcomeStep
<1> QED BY <1>2, <1>3, <1>4

\* A caller announces the outcome it decided, and starts a server only for a
\* match it confirmed.
LEMMA AnnounceOutcome ==
  ASSUME IInv, OutcomeInv, [Next]_vars, NEW c \in decided, Announce(c)
  PROVE  OutcomeInv'
<1>1. /\ c.match \in MatchIds /\ c.op \in {"confirm", "dissolve"}
      /\ status[c.match] = Outcome(c)
  BY DEF IInv, TypeOK, ConfirmationTypeOK, Call, OutcomeInv
<1>2. /\ accepted' = accepted /\ status' = status
      /\ calls' = calls /\ decided' \subseteq decided
      /\ tasks' = tasks \cup Started(c)
      /\ events' \subseteq
           events \cup {[type |-> Outcome(c), match |-> c.match]}
  BY DEF Announce, Publish, matchKeys, answerKeys
<1>3. \A t \in Started(c) : /\ t.match = c.match
                            /\ t.run = "allocate" => c.op = "confirm"
  BY DEF Started
<1>4. \A e \in events' \ events : e.type = Outcome(c) /\ e.match = c.match
  BY <1>2
<1>5. c.op = "confirm" => Outcome(c) = "confirmed"
  BY DEF Outcome
<1>6. \A t \in tasks' \ tasks :
        /\ t.match \in MatchIds
        /\ t.run = "allocate" => status[t.match] = "confirmed"
  BY <1>1, <1>2, <1>3, <1>5
<1>7. \A e \in events' \ events :
        /\ e.match \in MatchIds
        /\ e.type = "confirmed" => status[e.match] = "confirmed"
        /\ e.type = "dissolved" => status[e.match] = "dissolved"
        /\ e.type = "server_ready" => status[e.match] = "confirmed"
  BY <1>1, <1>4 DEF Outcome
<1> QED BY <1>1, <1>2, <1>6, <1>7, OutcomeStep

\* Timers, failures and the goroutine that allocates add nothing untrue.
LEMMA QuietOutcome ==
  ASSUME IInv, OutcomeInv, [Next]_vars,
         \/ ReconcilerFails
         \/ \E m \in MatchIds : AllocateServer(m) \/ GrowOverdue(m)
         \/ \E c \in calls \cup decided : CallDies(c)
  PROVE  OutcomeInv'
<1> USE DEF shardVars, matchKeys, answerKeys
<1>1. CASE ReconcilerFails
  BY <1>1, OutcomeStep DEF ReconcilerFails
<1>2. ASSUME NEW c \in calls \cup decided, CallDies(c) PROVE OutcomeInv'
  BY <1>2, OutcomeStep DEF CallDies
<1>3. ASSUME NEW m \in MatchIds, GrowOverdue(m) PROVE OutcomeInv'
  BY <1>3, OutcomeStep DEF GrowOverdue
<1>4. ASSUME NEW m \in MatchIds, AllocateServer(m) PROVE OutcomeInv'
  <2>1. status[m] = "confirmed"
    BY <1>4 DEF AllocateServer, OutcomeInv
  <2> QED BY <1>4, <2>1, OutcomeStep DEF AllocateServer, Publish
<1> QED BY <1>1, <1>2, <1>3, <1>4

LEMMA InitOutcome == Init => OutcomeInv
BY DEF Init, ShardInit, ConfirmationInit, OutcomeInv, AnnouncedTruthfully

LEMMA NextOutcome == IInv /\ OutcomeInv /\ [Next]_vars => OutcomeInv'
<1> SUFFICES ASSUME IInv, OutcomeInv, [Next]_vars PROVE OutcomeInv'
  OBVIOUS
<1>1. CASE QueueClient /\ UNCHANGED <<workerVars, callVars>>
  BY <1>1, OthersOutcome
<1>2. CASE WorkerNext /\ UNCHANGED callVars
  BY <1>2, OthersOutcome
<1>3. CASE ConfirmationNext
  BY <1>3, AcceptOutcome, DissolveCalls, CallOutcome, AnnounceOutcome,
     QuietOutcome
     DEF ConfirmationNext
<1>4. CASE UNCHANGED vars
  BY <1>4, OutcomeStep DEF vars, shardVars, matchKeys, answerKeys, callVars
<1> QED BY <1>1, <1>2, <1>3, <1>4 DEF Next

----------------------------------------------------------------------------
(* The theorems.                                                           *)

\* A call that confirms knows of enough acceptances, and nobody acts on an
\* outcome that was not decided (accept and decline of the API, matchops).
THEOREM OutcomeInvariance == Spec => []OutcomeInv
BY InitOutcome, NextOutcome, Invariance, PTL DEF Spec

\* A match is confirmed with an acceptance for each of its entries, and by all
\* its players unless somebody else accepted it, although the count and the
\* transition are two scripts of two requests, and the handler of accept does
\* not ask who is in the match.
THEOREM ConfirmedOnCount == Spec => []ConfirmedByEnough
<1>1. IInv /\ OutcomeInv => ConfirmedByEnough
  BY EnoughMeansAll DEF OutcomeInv, ConfirmedByEnough, IInv
<1> QED BY <1>1, OutcomeInvariance, Invariance, PTL

\* The players hear of one outcome, the one in Redis.
THEOREM TruthfulAnnouncements == Spec => []AnnouncedTruthfully
<1>1. OutcomeInv => AnnouncedTruthfully
  BY DEF OutcomeInv
<1> QED BY <1>1, OutcomeInvariance, PTL
=============================================================================
