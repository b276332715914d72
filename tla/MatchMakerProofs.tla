-------------------------- MODULE MatchMakerProofs --------------------------
(***************************************************************************)
(* The lemmas about the operators and the types of module MatchMaker that  *)
(* the proofs of every system with these workers need.                     *)
(***************************************************************************)
EXTENDS MatchMaker, FiniteSetTheorems, TLAPS

----------------------------------------------------------------------------
(* The operators of the buffer.                                            *)

\* The entries a run can create are finitely many, so ranks are numbers.
LEMMA EntryFinite == IsFiniteSet(Entry)
<1> DEFINE Pairs == Players \X (1..MaxJoins)
           f == [x \in Pairs |-> [player |-> x[1], at |-> x[2]]]
<1>1. IsFiniteSet(Pairs)
  <2>1. IsFiniteSet(1..MaxJoins)
    BY ShardAssumption, FS_Interval
  <2> QED BY <2>1, ShardAssumption, FS_Product
<1>2. f \in Surjection(Pairs, Entry)
  <2>1. f \in [Pairs -> Entry]
    BY DEF Entry
  <2>2. ASSUME NEW e \in Entry PROVE \E x \in Pairs : f[x] = e
    <3>1. /\ <<e.player, e.at>> \in Pairs
          /\ e = [player |-> e.player, at |-> e.at]
      BY DEF Entry
    <3>2. f[<<e.player, e.at>>] = e
      BY <3>1
    <3> QED BY <3>1, <3>2
  <2> QED BY <2>1, <2>2 DEF Surjection
<1> HIDE DEF f, Pairs
<1> QED BY <1>1, <1>2, FS_Surjection

\* A rank is a number.
LEMMA RankType ==
  ASSUME NEW S \in SUBSET Entry, NEW key, NEW e
  PROVE  Rank(S, key, e) \in Nat
<1>1. {f \in S : key[f] < key[e]} \in SUBSET Entry
  OBVIOUS
<1> QED BY <1>1, EntryFinite, FS_Subset, FS_CardinalityType DEF Rank

\* A buffer stays one when a batch is appended to it.
LEMMA AppendBatchType ==
  ASSUME NEW S \in SUBSET Entry, NEW buf, DOMAIN buf \subseteq Entry,
         buf \in [DOMAIN buf -> Nat]
  PROVE  /\ DOMAIN AppendBatch(buf, S) = DOMAIN buf \cup S
         /\ AppendBatch(buf, S) \in [DOMAIN buf \cup S -> Nat]
<1>1. Cardinality(DOMAIN buf) \in Nat
  BY EntryFinite, FS_Subset, FS_CardinalityType
<1>2. \A e \in S : Rank(S, EnqueueTime, e) \in Nat
  BY RankType
<1>3. \A e \in S : Cardinality(DOMAIN buf) + Rank(S, EnqueueTime, e) \in Nat
  BY <1>1, <1>2
<1>4. \A e \in DOMAIN buf : buf[e] \in Nat
  OBVIOUS
<1> QED BY <1>3, <1>4 DEF AppendBatch

\* A buffer stays one when a group is taken out of it.
LEMMA RemainingType ==
  ASSUME NEW G, NEW buf, DOMAIN buf \subseteq Entry
  PROVE  /\ DOMAIN Remaining(buf, G) = DOMAIN buf \ G
         /\ Remaining(buf, G) \in [DOMAIN buf \ G -> Nat]
<1>1. \A e \in DOMAIN buf \ G : Rank(DOMAIN buf \ G, buf, e) \in Nat
  BY RankType
<1> QED BY <1>1 DEF Remaining

\* A group is made of entries of the buffer.
LEMMA SelectGroupType ==
  ASSUME NEW buf, NEW n, NEW win
  PROVE  SelectGroup(buf, n, win) \subseteq DOMAIN buf
BY DEF SelectGroup

----------------------------------------------------------------------------
(* Types.                                                                  *)

MakerTypeOK == ShardTypeOK /\ WorkerTypeOK

\* The initial values have the types.
LEMMA InitMakerTypes == MakerInit => MakerTypeOK
BY ShardAssumption, MatchMakerAssumption
   DEF MakerInit, MakerTypeOK, ShardInit, ShardTypeOK, WorkerInit,
       WorkerTypeOK, Empty, Steps, Status

\* Join and Cancel keep the types.
LEMMA ClientTypes == ShardTypeOK /\ QueueClient => ShardTypeOK'
<1> SUFFICES ASSUME ShardTypeOK, NEW p \in Players, Join(p) \/ Cancel(p)
             PROVE  ShardTypeOK'
  BY DEF QueueClient
<1>1. CASE Join(p)
  BY <1>1, ShardAssumption
     DEF Join, JoinScript, ShardTypeOK, Entry, matchKeys, answerKeys
<1>2. CASE Cancel(p)
  BY <1>2
     DEF Cancel, CancelScript, ShardTypeOK, queueKeys, matchKeys, answerKeys, history
<1> QED BY <1>1, <1>2

\* The steps of the workers keep the types.
LEMMA WorkerTypes ==
  MakerTypeOK /\ HandsMatchStep /\ WorkerNext => MakerTypeOK'
<1> SUFFICES ASSUME MakerTypeOK, HandsMatchStep, WorkerNext
             PROVE  MakerTypeOK'
  OBVIOUS
<1> USE DEF MakerTypeOK, ShardTypeOK, WorkerTypeOK, shardVars, queueKeys,
            playerKeys, matchKeys, answerKeys, history, Goto, Buffered, Steps
<1>2. CASE LockExpires
  BY <1>2 DEF LockExpires
<1>3. ASSUME NEW w \in Workers, Forget(w), lock' \in Workers \cup {NoWorker}
      PROVE  MakerTypeOK'
  BY <1>3, ShardAssumption DEF Forget, OneFailure, Empty
<1>4. ASSUME NEW w \in Workers, NEW skipped \in SUBSET Entry, Filter(w, skipped),
             failures' \in 0..MaxFailures
      PROVE  MakerTypeOK'
  <2> DEFINE new == AppendBatch(buffer[w], work[w] \ skipped)
  <2>1. /\ DOMAIN new \subseteq Entry
        /\ new \in [DOMAIN new -> Nat]
    <3>1. /\ DOMAIN buffer[w] \subseteq Entry
          /\ buffer[w] \in [DOMAIN buffer[w] -> Nat]
          /\ work[w] \ skipped \in SUBSET Entry
      OBVIOUS
    <3>2. /\ DOMAIN new = DOMAIN buffer[w] \cup (work[w] \ skipped)
          /\ new \in [DOMAIN buffer[w] \cup (work[w] \ skipped) -> Nat]
      BY ONLY <3>1, AppendBatchType
    <3> QED BY <3>1, <3>2, Zenon
  <2>2. buffer' = [buffer EXCEPT ![w] = new]
    BY <1>4 DEF Filter
  <2> HIDE DEF new
  <2> QED BY <1>4, <2>1, <2>2 DEF Filter
<1>5. ASSUME NEW w \in Workers, NEW G,
             buffer' = [buffer EXCEPT ![w] = Remaining(@, G)]
      PROVE  /\ DOMAIN buffer' = Workers
             /\ \A v \in Workers : /\ DOMAIN buffer'[v] \subseteq Entry
                                  /\ buffer'[v] \in [DOMAIN buffer'[v] -> Nat]
  <2> DEFINE new == Remaining(buffer[w], G)
  <2>1. /\ DOMAIN new \subseteq Entry
        /\ new \in [DOMAIN new -> Nat]
    <3>1. /\ DOMAIN buffer[w] \subseteq Entry
          /\ buffer[w] \in [DOMAIN buffer[w] -> Nat]
      OBVIOUS
    <3>2. /\ DOMAIN new = DOMAIN buffer[w] \ G
          /\ new \in [DOMAIN buffer[w] \ G -> Nat]
      BY ONLY <3>1, RemainingType
    <3> QED BY <3>1, <3>2
  <2>2. buffer' = [buffer EXCEPT ![w] = new]
    BY <1>5
  <2> HIDE DEF new
  <2> QED BY <2>1, <2>2
<1>6. ASSUME NEW w \in Workers, Run(w) PROVE MakerTypeOK'
  <2>1. CASE AcquireShardLock(w)
    BY <2>1 DEF AcquireShardLock
  <2>2. CASE DrainProcessing(w)
    BY <2>2 DEF DrainProcessing, DrainProcessingScript
  <2>3. CASE PopBatch(w)
    BY <2>3 DEF PopBatch, PopToProcessingScript, OldestQueued
  <2>4. CASE CheckCancelled(w)
    BY <1>4, <2>4 DEF CheckCancelled
  <2>5. CASE Uncancel(w)
    BY <2>5 DEF Uncancel
  <2>6. ASSUME NEW win \in Windows, NoGroup(w, win) PROVE MakerTypeOK'
    BY <2>6 DEF NoGroup
  <2>7. ASSUME NEW win \in Windows, RejectGroup(w, win) PROVE MakerTypeOK'
    BY <1>5, <2>7, SelectGroupType DEF RejectGroup
  <2>8. ASSUME NEW win \in Windows, NEW m \in MatchIds, CommitMatch(w, m, win)
        PROVE  MakerTypeOK'
    BY <1>5, <2>8, SelectGroupType
       DEF CommitMatch, CommitMatchScript, Status
  <2>9. CASE AnnounceMatch(w)
    <3>1. unsent[w] \in MatchIds
      BY <2>9 DEF AnnounceMatch, HandsMatchStep
    <3> QED BY <2>9, <3>1 DEF AnnounceMatch, Event
  <2>10. CASE RepushToQueue(w)
    BY <2>10 DEF RepushToQueue
  <2>11. CASE RemoveRepushed(w)
    BY <2>11 DEF RemoveRepushed
  <2> QED BY <1>6, <2>1, <2>2, <2>3, <2>4, <2>5, <2>6, <2>7, <2>8, <2>9,
             <2>10, <2>11 DEF Run, PopOnce, FormMatches
<1>7. ASSUME NEW w \in Workers, Failure(w) PROVE MakerTypeOK'
  <2>1. CASE Crash(w)
    BY <1>3, <2>1 DEF Crash
  <2>2. CASE Stop(w)
    BY <1>3, <2>2 DEF Stop, ReleaseShardLock
  <2>3. CASE PopReplyLost(w)
    BY <2>3, ShardAssumption
       DEF PopReplyLost, PopToProcessingScript, OldestQueued, OneFailure
  <2>4. CASE CheckFails(w)
    BY <1>4, <2>4, ShardAssumption DEF CheckFails, OneFailure
  <2>5. CASE UncancelFails(w)
    BY <2>5, ShardAssumption DEF UncancelFails, OneFailure
  <2>6. CASE RepushFails(w)
    BY <2>6, ShardAssumption DEF RepushFails, OneFailure
  <2> QED BY <1>7, <2>1, <2>2, <2>3, <2>4, <2>5, <2>6 DEF Failure
<1> QED BY <1>2, <1>6, <1>7 DEF WorkerNext

----------------------------------------------------------------------------
(* What the workers leave alone.                                           *)

\* The workers enqueue nobody, and clear marks in one step only.
LEMMA MarksCleared ==
  ASSUME WorkerNext
  PROVE  /\ joined' = joined
         /\ \/ cancelled' = cancelled
            \/ \E w \in Workers :
                 Uncancel(w) /\ cancelled' = cancelled \ PlayersOf(work[w])
<1> USE DEF shardVars, playerKeys, history
<1>1. CASE LockExpires
  BY <1>1 DEF LockExpires
<1>2. ASSUME NEW w \in Workers, Run(w), ~ Uncancel(w)
      PROVE  UNCHANGED <<joined, cancelled>>
  BY <1>2
     DEF Run, PopOnce, FormMatches, AcquireShardLock, DrainProcessing, PopBatch,
         CheckCancelled, Filter, NoGroup, RejectGroup, CommitMatch, AnnounceMatch,
         RepushToQueue, RemoveRepushed
<1>3. ASSUME NEW w \in Workers, Failure(w)
      PROVE  UNCHANGED <<joined, cancelled>>
  BY <1>3
     DEF Failure, Crash, Stop, Forget, PopReplyLost, CheckFails, Filter,
         UncancelFails, RepushFails
<1>4. ASSUME NEW w \in Workers, Uncancel(w)
      PROVE  joined' = joined /\ cancelled' = cancelled \ PlayersOf(work[w])
  BY <1>4 DEF Uncancel
<1> QED BY <1>1, <1>2, <1>3, <1>4 DEF WorkerNext
=============================================================================
