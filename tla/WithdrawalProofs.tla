-------------------------- MODULE WithdrawalProofs --------------------------
(***************************************************************************)
(* What is proved of cancellations, for every number of players, workers,  *)
(* joins and matches: as long as nothing fails, a player who has joined    *)
(* once and withdrawn is put in no new match.                              *)
(***************************************************************************)
EXTENDS Withdrawal, MatchmakingProofs

\* The wishes of the players are history: the shard behaves as without them.
LEMMA WithdrawalIsShard == WithdrawalSpec => Spec
<1>1. WithdrawalInit => Init
  BY DEF WithdrawalInit
<1>2. [WithdrawalNext]_withdrawalVars => [Next]_vars
  BY DEF WithdrawalNext, JoinAgain, Withdraw, withdrawalVars, Next, QueueClient
<1> QED BY <1>1, <1>2, PTL DEF WithdrawalSpec, Spec

\* So the invariant of the shard is there to be used.
LEMMA WithdrawalIInv == WithdrawalSpec => []IInv
BY WithdrawalIsShard, Invariance, PTL

\* A worker at work is the holder of the lock, and alone.
LEMMA Alone ==
  ASSUME IInv, NEW w \in Workers, pc[w] # "down"
  PROVE  /\ lock = w /\ lock # NoWorker
         /\ \A v \in Workers : v # w =>
              pc[v] = "down" /\ Buffered(v) = {} /\ work[v] = {}
BY MatchMakerAssumption DEF IInv, OneActiveWorker, HandsMatchStep

----------------------------------------------------------------------------
(* A discarded entry stays where it is.                                    *)

\* Nobody drains, pops or repushes it, as long as no process ends.
LEMMA DiscardedInWorker ==
  ASSUME IInv, WorkerNext, failures' = failures, NEW e, Discarded(e)
  PROVE  Discarded(e)'
<1> USE DEF Goto, queueKeys, shardVars
<1>1. failures \in Int /\ failures + 1 # failures
  BY ShardAssumption DEF IInv, TypeOK, ShardTypeOK
<1>2. /\ lock \in Workers
      /\ \A v \in Workers : v # lock => pc[v] = "down"
  BY DEF Discarded, IInv, TypeOK, WorkerTypeOK, OneActiveWorker
<1>3. CASE LockExpires
  BY <1>3 DEF LockExpires, Discarded
<1>4. ASSUME NEW w \in Workers, AcquireShardLock(w) \/ DrainProcessing(w)
      PROVE  FALSE
  BY <1>2, <1>4 DEF AcquireShardLock, DrainProcessing, Discarded
<1>5. ASSUME NEW w \in Workers, Failure(w) PROVE FALSE
  BY <1>1, <1>5
     DEF Failure, Crash, Stop, Forget, PopReplyLost, CheckFails, UncancelFails,
         RepushFails, OneFailure
\* What the other steps do to a worker and to the keys.
<1>6. SUFFICES ASSUME NEW w \in Workers, PopOnce(w),
                      DOMAIN buffer = Workers, DOMAIN work = Workers,
                      DOMAIN pc = Workers
               PROVE  Discarded(e)'
  BY <1>3, <1>4, <1>5 DEF WorkerNext, Run, IInv, TypeOK, WorkerTypeOK
<1> USE DEF Discarded, Buffered
<1>7. CASE PopBatch(w)
  BY <1>7 DEF PopBatch, PopToProcessingScript, OldestQueued
<1>8. CASE CheckCancelled(w)
  <2>1. PICK S \in SUBSET work[w] : Filter(w, S)
    BY <1>8 DEF CheckCancelled
  <2> DEFINE new == AppendBatch(buffer[w], work[w] \ S)
  <2>2. DOMAIN new = Buffered(w) \cup (work[w] \ S)
    BY DEF AppendBatch
  <2>3. /\ buffer' = [buffer EXCEPT ![w] = new] /\ work' = [work EXCEPT ![w] = S]
        /\ pc' = [pc EXCEPT ![w] = IF S = {} THEN "form" ELSE "uncancel"]
        /\ UNCHANGED <<queue, processing, lock>>
    BY <2>1 DEF Filter
  <2> HIDE DEF new
  <2> QED BY <1>6, <2>2, <2>3
<1>9. CASE Uncancel(w) \/ AnnounceMatch(w)
  BY <1>2, <1>6, <1>9 DEF Uncancel, AnnounceMatch
<1>10. ASSUME NEW win \in Windows, NoGroup(w, win) PROVE Discarded(e)'
  BY <1>10 DEF NoGroup
<1>11. ASSUME NEW win \in Windows, RejectGroup(w, win) PROVE Discarded(e)'
  BY <1>11, SelectGroupType DEF RejectGroup, Remaining
<1>12. ASSUME NEW win \in Windows, NEW m \in MatchIds, CommitMatch(w, m, win)
       PROVE  Discarded(e)'
  <2> DEFINE G == SelectGroup(buffer[w], MatchSize, win)
             new == Remaining(buffer[w], G)
  <2>1. G \subseteq Buffered(w) /\ DOMAIN new = Buffered(w) \ G
    BY SelectGroupType DEF Remaining
  <2>2. /\ processing' = processing \ G /\ buffer' = [buffer EXCEPT ![w] = new]
        /\ pc' = [pc EXCEPT ![w] = "announce"]
        /\ UNCHANGED <<queue, lock, work>>
    BY <1>12 DEF CommitMatch, CommitMatchScript
  <2> HIDE DEF G, new
  <2> QED BY <1>6, <2>1, <2>2
<1>13. CASE RepushToQueue(w) \/ RemoveRepushed(w)
  BY <1>2, <1>6, <1>13 DEF RepushToQueue, RemoveRepushed
<1> QED BY <1>6, <1>7, <1>8, <1>9, <1>10, <1>11, <1>12, <1>13
        DEF PopOnce, FormMatches

\* Nor does a dissolve put it back: it is in no match.
LEMMA DiscardedInConfirmation ==
  ASSUME IInv, ConfirmationNext, UNCHANGED workerVars, NEW e, Discarded(e)
  PROVE  Discarded(e)'
<1> USE DEF Discarded, Buffered, workerVars, shardVars, queueKeys
<1>1. CASE UNCHANGED queueKeys
  BY <1>1
<1>2. ASSUME NEW c \in calls, Dissolve(c) PROVE Discarded(e)'
  <2>1. c.match \in Live
    BY <1>2 DEF Dissolve, DissolveScript, Live, IInv, TypeOK, ConfirmationTypeOK, Call
  <2>2. e \notin entries[c.match]
    BY <2>1 DEF IInv, EntryExclusive, Waiting
  <2> QED BY <1>2, <2>2 DEF Dissolve, DissolveScript, Requeued
<1>3. CASE ProcessTimedOut \/ ReconcilerFails
  BY <1>1, <1>3 DEF ProcessTimedOut, ReconcilerFails
<1>4. ASSUME NEW m \in MatchIds, AllocateServer(m) \/ GrowOverdue(m)
      PROVE  Discarded(e)'
  BY <1>1, <1>4 DEF AllocateServer, GrowOverdue
<1>5. ASSUME NEW m \in MatchIds, NEW p \in Players, Accept(p, m) \/ Decline(p, m)
      PROVE  Discarded(e)'
  BY <1>1, <1>5 DEF Accept, Decline
<1>6. ASSUME NEW c \in calls \cup decided,
             TooLate(c) \/ Confirm(c) \/ Announce(c) \/ CallDies(c)
      PROVE  Discarded(e)'
  BY <1>1, <1>6 DEF TooLate, Confirm, Announce, CallDies
<1> QED BY <1>2, <1>3, <1>4, <1>5, <1>6 DEF ConfirmationNext

----------------------------------------------------------------------------
(* The mark of a cancellation, and the entry.                              *)

\* A failure is counted for good.
LEMMA FailuresGrow ==
  ASSUME IInv, [Next]_vars
  PROVE  failures \in Nat /\ (failures' = failures \/ failures' = failures + 1)
<1> USE DEF IInv, TypeOK, ShardTypeOK, OneFailure
<1>1. failures \in Nat
  BY ShardAssumption
<1>2. CASE QueueClient
  BY <1>1, <1>2 DEF QueueClient, Join, Cancel
<1>3. ASSUME NEW w \in Workers, Run(w)
      PROVE  failures' = failures
  BY <1>3
     DEF Run, PopOnce, FormMatches, AcquireShardLock, DrainProcessing, PopBatch,
         CheckCancelled, Uncancel, NoGroup, RejectGroup, CommitMatch,
         AnnounceMatch, RepushToQueue, RemoveRepushed
<1>4. ASSUME NEW w \in Workers, Failure(w)
      PROVE  failures' = failures + 1
  BY <1>4
     DEF Failure, Crash, Stop, Forget, PopReplyLost, CheckFails, UncancelFails,
         RepushFails
<1>5. CASE WorkerNext
  BY <1>1, <1>3, <1>4, <1>5 DEF WorkerNext, LockExpires
<1>6. CASE ConfirmationNext
  BY <1>1, <1>6
     DEF ConfirmationNext, ProcessTimedOut, ReconcilerFails, AllocateServer,
         GrowOverdue, Accept, Decline, TooLate, Confirm, Dissolve, Announce, CallDies
<1> QED BY <1>1, <1>2, <1>5, <1>6 DEF Next, vars

\* The worker clears a mark only with the entry in hand, skipped: if that was
\* the only one of the player, it is discarded.
LEMMA UncancelDiscards ==
  ASSUME IInv, NEW w \in Workers, Uncancel(w), NEW e \in joined, Sole(e),
         e.player \in PlayersOf(work[w])
  PROVE  Discarded(e)'
<1>1. /\ pc[w] = "uncancel" /\ pc' = [pc EXCEPT ![w] = "form"]
      /\ work' = [work EXCEPT ![w] = {}]
      /\ UNCHANGED <<queue, processing, lock, buffer>>
  BY DEF Uncancel, Goto, queueKeys
<1>2. work[w] \subseteq processing /\ processing \subseteq joined
  BY DEF IInv, MemoryBacked, EntriesJoined, Waiting
<1>3. e \in work[w]
  BY <1>2 DEF PlayersOf, Sole
<1>4. e \in processing /\ e \notin queue /\ e \notin Buffered(w)
  BY <1>1, <1>2, <1>3 DEF IInv, BufferExclusive
<1>5. pc'[w] = "form" /\ work'[w] = {} /\ \A v \in Workers : v # w => work'[v] = work[v]
  BY <1>1 DEF IInv, TypeOK, WorkerTypeOK
<1>6. /\ lock = w /\ lock # NoWorker
      /\ \A v \in Workers : v # w => Buffered(v) = {} /\ work[v] = {}
  BY <1>1, Alone
<1> QED BY <1>1, <1>4, <1>5, <1>6 DEF Discarded, Buffered

\* Nothing is joined before anything ran.
LEMMA InitWithdrawn == WithdrawalInit => WithdrawnInv
BY DEF WithdrawalInit, Init, ShardInit, WithdrawnInv

\* The invariant is inductive beside IInv.
LEMMA NextWithdrawn ==
  IInv /\ WithdrawnInv /\ [WithdrawalNext]_withdrawalVars => WithdrawnInv'
<1> SUFFICES ASSUME IInv, WithdrawnInv, [WithdrawalNext]_withdrawalVars,
                    failures' = 0,
                    NEW e \in joined', e.player \in withdrawn' \ cancelled', Sole(e)'
             PROVE  Discarded(e)'
  BY DEF WithdrawnInv
<1>1. failures = 0
  <2>1. [Next]_vars
    BY DEF WithdrawalNext, JoinAgain, Withdraw, withdrawalVars, Next, QueueClient
  <2> QED BY <2>1, FailuresGrow
<1>2. e \in joined /\ e.player \in withdrawn \ cancelled /\ Sole(e) => Discarded(e)
  BY <1>1 DEF WithdrawnInv
<1>3. ASSUME NEW p \in Players, JoinAgain(p), UNCHANGED workerVars
      PROVE  Discarded(e)'
  <2> PICK new : new = [player |-> p, at |-> clock + 1]
    OBVIOUS
  <2>1. /\ queue' = queue \cup {new} /\ joined' = joined \cup {new}
        /\ withdrawn' = withdrawn \ {p} /\ UNCHANGED <<processing, cancelled>>
    BY <1>3 DEF JoinAgain, Join, JoinScript
  <2>2. e # new
    BY <2>1
  <2>3. Discarded(e)
    BY <1>2, <2>1, <2>2 DEF Sole
  <2> QED BY <1>3, <2>1, <2>2, <2>3 DEF Discarded, Buffered, workerVars
<1>4. ASSUME NEW p \in Players, Withdraw(p), UNCHANGED workerVars
      PROVE  Discarded(e)'
  BY <1>2, <1>4
     DEF Withdraw, Cancel, CancelScript, queueKeys, history, Sole, Discarded,
         Buffered, workerVars
<1>5. CASE WorkerNext /\ UNCHANGED withdrawn
  <2>1. /\ joined' = joined
        /\ \/ cancelled' = cancelled
           \/ \E w \in Workers :
                Uncancel(w) /\ cancelled' = cancelled \ PlayersOf(work[w])
    BY <1>5, MarksCleared
  <2>3. Sole(e)
    BY <2>1 DEF Sole
  <2>4. CASE e.player \notin cancelled
    BY <1>1, <1>2, <1>5, <2>1, <2>3, <2>4, DiscardedInWorker
  <2>5. ASSUME NEW w \in Workers, Uncancel(w), e.player \in PlayersOf(work[w])
        PROVE  Discarded(e)'
    BY <2>1, <2>3, <2>5, UncancelDiscards
  <2> QED BY <2>1, <2>4, <2>5
<1>6. CASE ConfirmationNext /\ UNCHANGED <<workerVars, withdrawn>>
  <2>1. UNCHANGED <<joined, cancelled>>
    BY <1>6
       DEF ConfirmationNext, ProcessTimedOut, ReconcilerFails, AllocateServer,
           GrowOverdue, Accept, Decline, TooLate, Confirm, Dissolve, Announce,
           CallDies, shardVars, playerKeys, history
  <2> QED BY <1>2, <1>6, <2>1, DiscardedInConfirmation DEF Sole
<1>7. CASE UNCHANGED withdrawalVars
  BY <1>2, <1>7
     DEF withdrawalVars, vars, shardVars, queueKeys, playerKeys, history, workerVars,
         Sole, Discarded, Buffered
<1> QED BY <1>3, <1>4, <1>5, <1>6, <1>7 DEF WithdrawalNext

\* The mark of a cancellation outlives the last chance of the entry.
THEOREM WithdrawnInvariance == WithdrawalSpec => []WithdrawnInv
BY InitWithdrawn, NextWithdrawn, WithdrawalIInv, PTL DEF WithdrawalSpec

\* A match is formed by a commit, of a group of the buffer nobody of whom has
\* cancelled.
LEMMA FormedByCommit ==
  ASSUME IInv, [Next]_vars, NEW m \in MatchIds, PutInMatch(m), NEW e \in entries'[m]
  PROVE  e.player \notin cancelled /\ \E w \in Workers : e \in Buffered(w)
<1> USE DEF PutInMatch, shardVars, matchKeys
<1>1. CASE UNCHANGED <<status, entries>>
  BY <1>1
<1>2. ASSUME NEW w \in Workers, NEW n \in MatchIds, NEW win \in Windows,
             CommitMatch(w, n, win)
      PROVE  e.player \notin cancelled /\ e \in Buffered(w)
  <2> DEFINE G == SelectGroup(buffer[w], MatchSize, win)
  <2>1. G \subseteq Buffered(w) /\ G \subseteq Entry
    BY SelectGroupType DEF Buffered, IInv, TypeOK, WorkerTypeOK
  <2>2. /\ entries' = [entries EXCEPT ![n] = G]
        /\ status' = [status EXCEPT ![n] = "forming"]
        /\ PlayersOf(G) \cap cancelled = {}
    BY <1>2 DEF CommitMatch, CommitMatchScript, CommitConflict
  <2>3. e \in G
    BY <2>2 DEF IInv, TypeOK, ShardTypeOK
  <2> QED BY <2>1, <2>2, <2>3 DEF PlayersOf
<1>3. ASSUME NEW w \in Workers, Run(w) \/ Failure(w),
             \A n \in MatchIds, win \in Windows : ~ CommitMatch(w, n, win)
      PROVE  UNCHANGED <<status, entries>>
  BY <1>3
     DEF Run, PopOnce, FormMatches, AcquireShardLock, DrainProcessing, PopBatch,
         CheckCancelled, Filter, Uncancel, NoGroup, RejectGroup, AnnounceMatch,
         RepushToQueue, RemoveRepushed, Failure, Crash, Stop, Forget,
         PopReplyLost, CheckFails, UncancelFails, RepushFails
<1>4. CASE WorkerNext
  BY <1>1, <1>2, <1>3, <1>4 DEF WorkerNext, LockExpires
<1>5. CASE QueueClient \/ UNCHANGED vars
  BY <1>1, <1>5 DEF QueueClient, Join, Cancel, vars
<1>6. CASE ConfirmationNext
  <2>1. \A c \in calls : c.match \in MatchIds
    BY DEF IInv, TypeOK, ConfirmationTypeOK, Call
  <2> QED BY <1>6, <2>1
    DEF ConfirmationNext, ProcessTimedOut, ReconcilerFails, AllocateServer,
        GrowOverdue, Accept, Decline, TooLate, Confirm, ConfirmScript, Dissolve,
        DissolveScript, Announce, CallDies, IInv, TypeOK, ShardTypeOK
<1> QED BY <1>4, <1>5, <1>6 DEF Next

\* As long as nothing failed, nobody who joined once and withdrew is put in a
\* match: who is in a buffer still has the mark, which the commit reads.
THEOREM NoGhostWithoutFailure == WithdrawalSpec => NoGhostOfOneEntry
<1>1. ASSUME IInv, WithdrawnInv, [Next]_vars, failures = 0, NEW m \in MatchIds,
             PutInMatch(m), NEW e \in entries'[m], e.player \in withdrawn, Sole(e)
      PROVE  FALSE
  <2>1. PICK w \in Workers : e \in Buffered(w)
    BY <1>1, FormedByCommit
  <2>2. e.player \notin cancelled
    BY <1>1, FormedByCommit
  <2>3. e \in joined
    BY <1>1, <2>1 DEF IInv, MemoryBacked, EntriesJoined, Waiting
  <2>4. Discarded(e)
    BY <1>1, <2>2, <2>3 DEF WithdrawnInv
  <2> QED BY <2>1, <2>4 DEF Discarded
<1>2. IInv /\ WithdrawnInv /\ [Next]_vars =>
        [failures = 0 =>
           \A m \in MatchIds : PutInMatch(m) =>
             \A e \in entries'[m] : e.player \in withdrawn => ~ Sole(e)]_withdrawalVars
  BY <1>1
<1> QED BY <1>2, WithdrawalIInv, WithdrawnInvariance, WithdrawalIsShard, PTL
        DEF Spec, NoGhostOfOneEntry
=============================================================================
