------------------------- MODULE StalledWorkerProofs -------------------------
(***************************************************************************)
(* What is proved of workers whose locks run out under them, for every     *)
(* number of players, workers, joins, failures and matches: that a worker  *)
(* which lost the shard harms no entry beyond its reach, and that it takes *)
(* the shard from nobody.                                                  *)
(*                                                                         *)
(* The invariants of module Matchmaking rest on there being one active     *)
(* worker. Here there may be any number, and what is left of that is       *)
(* OneHand: one worker at most has an entry that is not exposed.           *)
(***************************************************************************)
EXTENDS StalledWorker, MatchMakerProofs

\* What the entries of the workers' memory, exposed or not, need.
StallCore ==
  /\ HandsMatchStep
  /\ EntriesJoined
  /\ \A w \in Workers : Buffered(w) \cup work[w] \subseteq joined

\* The variables StallCore and Unharmed speak of.
stallCoreVars == <<queueKeys, status, entries, history, pc, buffer, work, unsent>>

\* What a step of the workers or the clients has to keep.
Kept == StallCore' /\ \A e \in joined' \ exposed : Unharmed(e)'

----------------------------------------------------------------------------
(* Who has an entry in hand.                                               *)

\* An entry that is not exposed is out of reach of every superseded worker.
LEMMA OutOfReach ==
  ASSUME StallInv, NEW e, e \notin exposed, NEW w \in Workers, Superseded(w)
  PROVE  e \notin InReach(w)
BY DEF StallInv, Exposed

\* So nobody has it but the holder of the lock.
LEMMA HolderHas ==
  ASSUME StallInv, NEW e, e \notin exposed, NEW w \in Workers,
         e \in Buffered(w) \cup work[w]
  PROVE  lock = w
<1>1. pc[w] # "down"
  BY DEF StallInv, HandsMatchStep
<1> QED BY <1>1, OutOfReach DEF Superseded, InReach

\* One worker at most has it.
LEMMA OneHand ==
  ASSUME StallInv, NEW e, e \notin exposed, NEW w \in Workers, NEW v \in Workers,
         e \in Buffered(w) \cup work[w], e \in Buffered(v) \cup work[v]
  PROVE  w = v
BY HolderHas

----------------------------------------------------------------------------
(* The steps, one by one.                                                  *)

\* A step that changes none of the variables keeps everything.
LEMMA FrameKept == StallInv /\ UNCHANGED stallCoreVars => Kept
BY DEF StallInv, HarmContained, Kept, StallCore, stallCoreVars, queueKeys, history,
       HandsMatchStep, EntriesJoined, Unharmed, Buffered, Waiting, Live

\* A new entry is in nobody's hands and in no match.
LEMMA JoinKept ==
  ASSUME StallInv, NEW p \in Players, Join(p), UNCHANGED workerVars
  PROVE  Kept
<1> USE DEF Buffered, Live, Waiting
<1> PICK new : new = [player |-> p, at |-> clock + 1]
  OBVIOUS
<1>1. /\ queue' = queue \cup {new} /\ joined' = joined \cup {new}
      /\ clock' = clock + 1 /\ clock \in Nat
      /\ UNCHANGED <<processing, status, entries, left, pc, buffer, work, unsent>>
  BY DEF Join, JoinScript, StallInv, ShardTypeOK, matchKeys, workerVars
<1>2. new \notin joined
  BY <1>1 DEF StallInv, EntriesJoined, ShardTypeOK
<1>3. \A e \in joined : e.at \in Int /\ e.at <= clock
  BY DEF StallInv, EntriesJoined, ShardTypeOK, Entry
<1>4. new.at = clock + 1
  BY <1>1
<1>5. StallCore'
  BY <1>1, <1>3, <1>4 DEF StallInv, StallCore, HandsMatchStep, EntriesJoined
<1>6. \A w \in Workers : new \notin Buffered(w) \cup work[w]
  BY <1>2 DEF StallInv
<1>7. \A m \in MatchIds : new \notin entries[m]
  BY <1>2 DEF StallInv, EntriesJoined
<1>8. Unharmed(new)'
  BY <1>1, <1>6, <1>7 DEF Unharmed
<1>9. ASSUME NEW e \in joined \ exposed PROVE Unharmed(e)'
  BY <1>1, <1>2, <1>9 DEF Unharmed, StallInv, HarmContained
<1> QED BY <1>1, <1>5, <1>8, <1>9 DEF Kept

\* Taking the shard, and losing it.
LEMMA LockKept ==
  ASSUME StallInv,
         LockExpires \/ LockLapses \/ \E w \in Workers : AcquireShardLock(w)
  PROVE  Kept
<1> USE DEF stallCoreVars, shardVars, matchKeys
<1>1. CASE LockExpires \/ LockLapses
  BY <1>1, FrameKept DEF LockExpires, LockLapses
<1>2. ASSUME NEW w \in Workers, AcquireShardLock(w) PROVE Kept
  <2>1. /\ pc[w] = "down" /\ pc' = [pc EXCEPT ![w] = "start"]
        /\ UNCHANGED <<queue, processing, status, entries, clock, joined, left,
                       buffer, work, unsent>>
    BY <1>2 DEF AcquireShardLock, Goto, queueKeys, history
  <2>2. pc'[w] = "start" /\ \A v \in Workers : v # w => pc'[v] = pc[v]
    BY <2>1 DEF StallInv, WorkerTypeOK
  <2>3. StallCore'
    BY <2>1, <2>2
       DEF StallInv, StallCore, HandsMatchStep, EntriesJoined, Waiting, Buffered
  <2>4. ASSUME NEW e \in joined \ exposed PROVE Unharmed(e)'
    BY <2>1, <2>2, <2>4
       DEF StallInv, HarmContained, Unharmed, Waiting, Buffered, Live
  <2> QED BY <2>1, <2>3, <2>4 DEF Kept
<1> QED BY <1>1, <1>2

\* A process that ends leaves the keys as they are.
LEMMA EndKept ==
  ASSUME StallInv, NEW w \in Workers, Forget(w) \/ LockLost(w)
  PROVE  Kept
<1>1. /\ pc' = [pc EXCEPT ![w] = "down"]
      /\ buffer' = [buffer EXCEPT ![w] = Empty]
      /\ work' = [work EXCEPT ![w] = {}]
      /\ unsent' = [unsent EXCEPT ![w] = NoMatch]
      /\ UNCHANGED <<queue, processing, status, entries, clock, joined, left>>
  BY DEF Forget, LockLost, Goto, shardVars, queueKeys, matchKeys, history
<1>2. /\ pc'[w] = "down" /\ DOMAIN buffer'[w] = {} /\ work'[w] = {}
      /\ \A v \in Workers : v # w => /\ pc'[v] = pc[v] /\ unsent'[v] = unsent[v]
                                     /\ buffer'[v] = buffer[v] /\ work'[v] = work[v]
  BY <1>1 DEF StallInv, WorkerTypeOK, Empty
<1>3. StallCore'
  BY <1>1, <1>2
     DEF StallInv, StallCore, HandsMatchStep, EntriesJoined, Waiting, Buffered
<1>4. ASSUME NEW e \in joined \ exposed PROVE Unharmed(e)'
  BY <1>1, <1>2, <1>4
     DEF StallInv, HarmContained, Unharmed, Waiting, Buffered, Live
<1> QED BY <1>1, <1>3, <1>4 DEF Kept

\* Whoever drains, no entry that is not exposed is in anybody's memory: the
\* holder has just started, and all a late drain takes is within its reach.
LEMMA DrainKept ==
  ASSUME StallInv, NEW w \in Workers, DrainProcessing(w)
  PROVE  Kept
<1>1. /\ pc[w] = "start" /\ pc' = [pc EXCEPT ![w] = "pop"]
      /\ queue' = queue \cup processing /\ processing' = {}
      /\ UNCHANGED <<status, entries, clock, joined, left, buffer, work, unsent>>
  BY DEF DrainProcessing, DrainProcessingScript, Goto, matchKeys, history
<1>2. pc'[w] = "pop" /\ \A v \in Workers : v # w => pc'[v] = pc[v]
  BY <1>1 DEF StallInv, WorkerTypeOK
<1>3. Buffered(w) = {} /\ work[w] = {}
  BY <1>1 DEF StallInv, HandsMatchStep
<1>4. StallCore'
  BY <1>1, <1>2, <1>3
     DEF StallInv, StallCore, HandsMatchStep, EntriesJoined, Waiting, Buffered
<1>5. ASSUME NEW e \in joined \ exposed, NEW v \in Workers
      PROVE  e \notin Buffered(v) \cup work[v]
  <2>1. SUFFICES ASSUME e \in Buffered(v) \cup work[v] PROVE FALSE
    OBVIOUS
  <2>2. e \in processing /\ lock = v /\ v # w
    BY <1>3, <2>1, HolderHas DEF StallInv, HarmContained, Unharmed
  <2>3. Superseded(w)
    BY <1>1, <2>2 DEF Superseded
  <2> QED BY <1>1, <2>2, <2>3, OutOfReach DEF InReach
<1>6. ASSUME NEW e \in joined \ exposed PROVE Unharmed(e)'
  BY <1>1, <1>5, <1>6
     DEF StallInv, HarmContained, Unharmed, Waiting, Buffered, Live
<1> QED BY <1>1, <1>4, <1>6 DEF Kept

\* A pop takes an entry that is not exposed only for the holder.
LEMMA PopKept ==
  ASSUME StallInv, NEW w \in Workers, PopBatch(w) \/ PopReplyLost(w)
  PROVE  Kept
<1> DEFINE S == OldestQueued
<1>1. /\ pc[w] = "pop" /\ S \subseteq queue
      /\ queue' = queue \ S /\ processing' = processing \cup S
      /\ UNCHANGED <<status, entries, clock, joined, left, buffer, unsent>>
      /\ \/ /\ pc' = [pc EXCEPT ![w] = "check"]
            /\ work' = [work EXCEPT ![w] = S]
         \/ UNCHANGED <<pc, work>>
  BY DEF PopBatch, PopReplyLost, PopToProcessingScript, Goto, OldestQueued,
         matchKeys, history
<1>2. \A e \in S \ exposed : lock = w
  BY <1>1, OutOfReach DEF Superseded, InReach
<1> HIDE DEF S
<1>3. work[w] = {}
  BY <1>1 DEF StallInv, HandsMatchStep
<1>4. /\ \A v \in Workers : v # w => pc'[v] = pc[v] /\ work'[v] = work[v]
      /\ \/ pc'[w] = "check" /\ work'[w] = S
         \/ pc'[w] = "pop" /\ work'[w] = {}
  BY <1>1, <1>3 DEF StallInv, WorkerTypeOK
<1>5. StallCore'
  BY <1>1, <1>4
     DEF StallInv, StallCore, HandsMatchStep, EntriesJoined, Waiting, Buffered
<1>6. ASSUME NEW e \in joined \ exposed PROVE Unharmed(e)'
  <2>1. Unharmed(e)
    BY <1>6 DEF StallInv, HarmContained
  <2>2. CASE e \notin S
    BY <1>1, <1>4, <2>1, <2>2 DEF Unharmed, Waiting, Buffered, Live
  <2>3. CASE e \in S
    <3>1. \A v \in Workers : v # w => e \notin Buffered(v) \cup work[v]
      BY <1>2, <1>6, <2>3, HolderHas
    <3> QED BY <1>1, <1>4, <2>1, <2>3, <3>1 DEF Unharmed, Waiting, Buffered, Live
  <2> QED BY <2>2, <2>3
<1> QED BY <1>1, <1>5, <1>6 DEF Kept

\* What a worker does with its own memory: the keys stay, what it has in hand
\* afterwards it had before, and what it has twice is exposed.
LEMMA MemoryKept ==
  ASSUME StallInv, NEW w \in Workers, pc[w] # "unprocess",
         UNCHANGED <<queueKeys, status, entries, history>>,
         NEW step \in Steps \ {"down", "start", "check", "unprocess"},
         pc' = [pc EXCEPT ![w] = step],
         \A v \in Workers : v # w => /\ buffer'[v] = buffer[v]
                                    /\ work'[v] = work[v]
                                    /\ unsent'[v] = unsent[v],
         DOMAIN buffer'[w] \cup work'[w] \subseteq Buffered(w) \cup work[w],
         DOMAIN buffer'[w] \cap work'[w] \subseteq exposed,
         \A e \in DOMAIN buffer'[w] \ Buffered(w) : pc[w] = "check",
         step \notin {"uncancel", "repush"} => work'[w] = {},
         step = "announce" => unsent'[w] # NoMatch
  PROVE  Kept
<1>1. /\ UNCHANGED <<queue, processing, status, entries, clock, joined, left>>
      /\ pc'[w] = step
      /\ \A v \in Workers : v # w => pc'[v] = pc[v]
  BY DEF queueKeys, history, StallInv, WorkerTypeOK
<1>2. StallCore'
  BY <1>1
     DEF StallInv, StallCore, HandsMatchStep, EntriesJoined, Waiting, Buffered
<1>3. ASSUME NEW e \in joined \ exposed PROVE Unharmed(e)'
  BY <1>1, <1>3
     DEF StallInv, HarmContained, Unharmed, Waiting, Buffered, Live
<1> QED BY <1>1, <1>2, <1>3 DEF Kept

\* The skipped part of a batch stays in hand, the rest joins the buffer.
LEMMA FilterKept ==
  ASSUME StallInv, NEW w \in Workers, NEW skipped \in SUBSET work[w],
         Filter(w, skipped)
  PROVE  Kept
<1> DEFINE new == AppendBatch(buffer[w], work[w] \ skipped)
<1>1. DOMAIN new = Buffered(w) \cup (work[w] \ skipped)
  BY DEF AppendBatch, Buffered
<1>2. /\ pc[w] = "check"
      /\ buffer' = [buffer EXCEPT ![w] = new]
      /\ work' = [work EXCEPT ![w] = skipped]
      /\ UNCHANGED <<queueKeys, status, entries, history, unsent>>
      /\ pc' = [pc EXCEPT ![w] = IF skipped = {} THEN "form" ELSE "uncancel"]
  BY DEF Filter, Goto, shardVars, matchKeys
<1> HIDE DEF new
<1>3. PICK step \in {"form", "uncancel"} :
        /\ pc' = [pc EXCEPT ![w] = step]
        /\ step = "form" => skipped = {}
  BY <1>2
<1>4. Buffered(w) \cap work[w] \subseteq exposed
  BY DEF StallInv, HarmContained, Unharmed
<1>5. DOMAIN buffer = Workers /\ DOMAIN work = Workers
  BY DEF StallInv, WorkerTypeOK
<1>6. /\ buffer'[w] = new /\ work'[w] = skipped
      /\ \A v \in Workers : v # w => /\ buffer'[v] = buffer[v]
                                     /\ work'[v] = work[v]
                                     /\ unsent'[v] = unsent[v]
  BY <1>2, <1>5
<1>7. /\ DOMAIN new \cup skipped \subseteq Buffered(w) \cup work[w]
      /\ DOMAIN new \cap skipped \subseteq exposed
      /\ step \in Steps \ {"down", "start", "check", "unprocess"}
  BY <1>1, <1>4 DEF Steps
<1> QED BY <1>2, <1>3, <1>6, <1>7, MemoryKept

\* The round trips about the skipped players, and those that find no group,
\* set a conflicting one aside, or announce a match.
LEMMA BufferKept ==
  ASSUME StallInv, NEW w \in Workers,
         \/ Uncancel(w) \/ UncancelFails(w) \/ AnnounceMatch(w)
         \/ \E win \in Windows : NoGroup(w, win) \/ RejectGroup(w, win)
  PROVE  Kept
<1> USE DEF Goto, shardVars, queueKeys, matchKeys, history, Steps
<1>1. /\ DOMAIN buffer = Workers /\ DOMAIN work = Workers
      /\ DOMAIN unsent = Workers
  BY DEF StallInv, WorkerTypeOK
<1>2. pc[w] \in {"form", "announce"} => work[w] = {}
  BY DEF StallInv, HandsMatchStep
<1>3. CASE Uncancel(w) \/ UncancelFails(w)
  <2>1. /\ pc[w] = "uncancel"
        /\ work' = [work EXCEPT ![w] = {}]
        /\ pc' = [pc EXCEPT ![w] = "form"]
        /\ UNCHANGED <<queueKeys, status, entries, history, buffer, unsent>>
    BY <1>3 DEF Uncancel, UncancelFails
  <2> QED BY <1>1, <2>1, MemoryKept DEF Buffered
<1>4. CASE AnnounceMatch(w)
  BY <1>1, <1>2, <1>4, MemoryKept DEF AnnounceMatch, Buffered
<1>5. ASSUME NEW win \in Windows, NoGroup(w, win) PROVE Kept
  BY <1>1, <1>2, <1>5, MemoryKept DEF NoGroup, Buffered
<1>6. ASSUME NEW win \in Windows, RejectGroup(w, win) PROVE Kept
  <2> DEFINE G == SelectGroup(buffer[w], MatchSize, win)
             new == Remaining(buffer[w], G)
  <2>1. G \subseteq Buffered(w) /\ DOMAIN new = Buffered(w) \ G
    BY SelectGroupType DEF Remaining, Buffered
  <2>2. /\ pc[w] = "form"
        /\ buffer' = [buffer EXCEPT ![w] = new]
        /\ work' = [work EXCEPT ![w] = G]
        /\ pc' = [pc EXCEPT ![w] = "repush"]
        /\ UNCHANGED <<queueKeys, status, entries, history, unsent>>
    BY <1>6 DEF RejectGroup
  <2> HIDE DEF G, new
  <2> QED BY <1>1, <1>2, <2>1, <2>2, MemoryKept
<1> QED BY <1>3, <1>4, <1>5, <1>6

\* A commit moves entries of the committer's buffer into a match. Those that
\* are not exposed nobody else has, and they wait no more.
LEMMA CommitKept ==
  ASSUME StallInv, NEW w \in Workers, NEW m \in MatchIds, NEW win \in Windows,
         CommitMatch(w, m, win)
  PROVE  Kept
<1> DEFINE G == SelectGroup(buffer[w], MatchSize, win)
           new == Remaining(buffer[w], G)
<1>1. /\ pc[w] = "form" /\ status[m] = "none"
      /\ entries' = [entries EXCEPT ![m] = G]
      /\ status' = [status EXCEPT ![m] = "forming"]
      /\ processing' = processing \ G
      /\ buffer' = [buffer EXCEPT ![w] = new]
      /\ unsent' = [unsent EXCEPT ![w] = m]
      /\ pc' = [pc EXCEPT ![w] = "announce"]
      /\ UNCHANGED <<queue, clock, joined, left, work>>
  BY DEF CommitMatch, CommitMatchScript, Goto, history
<1>2. G \subseteq Buffered(w) /\ DOMAIN new = Buffered(w) \ G
  BY SelectGroupType DEF Remaining, Buffered
<1> HIDE DEF G, new
<1>3. /\ m \notin Live /\ Live' = Live \cup {m} /\ entries'[m] = G
      /\ \A n \in MatchIds : n # m => entries'[n] = entries[n]
  BY <1>1 DEF Live, StallInv, ShardTypeOK
<1>4. /\ pc'[w] = "announce" /\ unsent'[w] = m /\ Buffered(w)' = DOMAIN new
      /\ \A v \in Workers : v # w => /\ pc'[v] = pc[v] /\ unsent'[v] = unsent[v]
                                     /\ buffer'[v] = buffer[v]
  BY <1>1 DEF StallInv, WorkerTypeOK, Buffered
<1>5. work[w] = {}
  BY <1>1 DEF StallInv, HandsMatchStep
<1>6. StallCore'
  BY <1>1, <1>2, <1>3, <1>4, <1>5, MatchMakerAssumption
     DEF StallInv, StallCore, HandsMatchStep, EntriesJoined, Waiting, Buffered
<1>7. ASSUME NEW e \in joined \ exposed PROVE Unharmed(e)'
  <2>1. Unharmed(e)
    BY <1>7 DEF StallInv, HarmContained
  <2>2. CASE e \notin G
    BY <1>1, <1>2, <1>3, <1>4, <2>1, <2>2 DEF Unharmed, Waiting, Buffered, Live
  <2>3. CASE e \in G
    <3>1. \A v \in Workers : e \in Buffered(v) \cup work[v] => v = w
      BY <1>2, <1>7, <2>3, OneHand
    <3>2. e \in processing /\ e \notin queue /\ \A n \in Live : e \notin entries[n]
      BY <1>2, <2>1, <2>3 DEF Unharmed, Waiting
    <3> QED BY <1>1, <1>2, <1>3, <1>4, <1>5, <2>3, <3>1, <3>2
            DEF Unharmed, Waiting, Buffered
  <2> QED BY <2>2, <2>3
<1> QED BY <1>1, <1>6, <1>7 DEF Kept

\* A repush puts entries of the worker's hand into the queue.
LEMMA RepushKept ==
  ASSUME StallInv, NEW w \in Workers, RepushToQueue(w) \/ RepushFails(w)
  PROVE  Kept
<1>1. PICK S \in SUBSET work[w] :
        /\ pc[w] = "repush" /\ queue' = queue \cup S
        /\ UNCHANGED <<processing, status, entries, clock, joined, left, buffer,
                       unsent>>
        /\ \/ /\ pc' = [pc EXCEPT ![w] = "unprocess"]
              /\ S = work[w] /\ work' = work
           \/ /\ pc' = [pc EXCEPT ![w] = "form"]
              /\ work' = [work EXCEPT ![w] = {}]
  BY DEF RepushToQueue, RepushFails, Goto, matchKeys, history
<1>2. /\ \A v \in Workers : v # w => pc'[v] = pc[v] /\ work'[v] = work[v]
      /\ \/ pc'[w] = "unprocess" /\ work'[w] = work[w] /\ S = work[w]
         \/ pc'[w] = "form" /\ work'[w] = {}
  BY <1>1 DEF StallInv, WorkerTypeOK
<1>3. StallCore'
  BY <1>1, <1>2
     DEF StallInv, StallCore, HandsMatchStep, EntriesJoined, Waiting, Buffered
<1>4. ASSUME NEW e \in joined \ exposed PROVE Unharmed(e)'
  <2>1. Unharmed(e)
    BY <1>4 DEF StallInv, HarmContained
  <2>2. CASE e \notin work[w]
    BY <1>1, <1>2, <2>1, <2>2 DEF Unharmed, Waiting, Buffered, Live
  <2>3. CASE e \in work[w]
    <3>1. \A v \in Workers : e \in Buffered(v) \cup work[v] => v = w
      BY <1>4, <2>3, OneHand
    <3> QED BY <1>1, <1>2, <2>1, <2>3, <3>1 DEF Unharmed, Waiting, Buffered, Live
  <2> QED BY <2>2, <2>3
<1> QED BY <1>1, <1>3, <1>4 DEF Kept

\* What leaves the processing set at the end of a repush is in the queue, or
\* exposed.
LEMMA RemoveRepushedKept ==
  ASSUME StallInv, NEW w \in Workers, RemoveRepushed(w)
  PROVE  Kept
<1>1. /\ pc[w] = "unprocess"
      /\ processing' = processing \ work[w]
      /\ work' = [work EXCEPT ![w] = {}]
      /\ pc' = [pc EXCEPT ![w] = "form"]
      /\ UNCHANGED <<queue, status, entries, clock, joined, left, buffer, unsent>>
  BY DEF RemoveRepushed, Goto, matchKeys, history
<1>2. /\ pc'[w] = "form" /\ work'[w] = {}
      /\ \A v \in Workers : v # w => pc'[v] = pc[v] /\ work'[v] = work[v]
  BY <1>1 DEF StallInv, WorkerTypeOK
<1>3. StallCore'
  BY <1>1, <1>2
     DEF StallInv, StallCore, HandsMatchStep, EntriesJoined, Waiting, Buffered
<1>4. ASSUME NEW e \in joined \ exposed PROVE Unharmed(e)'
  <2>1. Unharmed(e)
    BY <1>4 DEF StallInv, HarmContained
  <2>2. CASE e \notin work[w]
    BY <1>1, <1>2, <2>1, <2>2 DEF Unharmed, Waiting, Buffered, Live
  <2>3. CASE e \in work[w]
    <3>1. \A v \in Workers : e \in Buffered(v) \cup work[v] => v = w
      BY <1>4, <2>3, OneHand
    <3> QED BY <1>1, <1>2, <2>1, <2>3, <3>1 DEF Unharmed, Waiting, Buffered, Live
  <2> QED BY <2>2, <2>3
<1> QED BY <1>1, <1>3, <1>4 DEF Kept

----------------------------------------------------------------------------
(* The inductive invariant.                                                *)

\* No step of a worker, and no failure of one, harms an entry out of reach.
LEMMA WorkerKept == ASSUME StallInv, WorkerNext PROVE Kept
<1>1. CASE LockExpires
  BY <1>1, LockKept
<1>2. ASSUME NEW w \in Workers, Run(w) PROVE Kept
  <2>1. CASE AcquireShardLock(w)
    BY <2>1, LockKept
  <2>2. CASE DrainProcessing(w)
    BY <2>2, DrainKept
  <2>3. CASE PopBatch(w)
    BY <2>3, PopKept
  <2>4. CASE CheckCancelled(w)
    BY <2>4, FilterKept DEF CheckCancelled
  <2>5. CASE Uncancel(w) \/ AnnounceMatch(w)
    BY <2>5, BufferKept
  <2>6. ASSUME NEW win \in Windows, NoGroup(w, win) \/ RejectGroup(w, win)
        PROVE  Kept
    BY <2>6, BufferKept
  <2>7. ASSUME NEW win \in Windows, NEW m \in MatchIds, CommitMatch(w, m, win)
        PROVE  Kept
    BY <2>7, CommitKept
  <2>8. CASE RepushToQueue(w)
    BY <2>8, RepushKept
  <2>9. CASE RemoveRepushed(w)
    BY <2>9, RemoveRepushedKept
  <2> QED BY <1>2, <2>1, <2>2, <2>3, <2>4, <2>5, <2>6, <2>7, <2>8, <2>9
          DEF Run, PopOnce, FormMatches
<1>3. ASSUME NEW w \in Workers, Failure(w) PROVE Kept
  <2>1. CASE Crash(w) \/ Stop(w)
    BY <2>1, EndKept DEF Crash, Stop
  <2>2. CASE PopReplyLost(w)
    BY <2>2, PopKept
  <2>3. CASE CheckFails(w)
    BY <2>3, FilterKept DEF CheckFails
  <2>4. CASE UncancelFails(w)
    BY <2>4, BufferKept
  <2>5. CASE RepushFails(w)
    BY <2>5, RepushKept
  <2> QED BY <1>3, <2>1, <2>2, <2>3, <2>4, <2>5 DEF Failure
<1> QED BY <1>1, <1>2, <1>3 DEF WorkerNext

\* Every step keeps the types, those in which a lock lapses, or its loss is
\* noticed, included.
LEMMA StallTypes ==
  ASSUME StallInv, [StallNext]_stallVars
  PROVE  ShardTypeOK' /\ WorkerTypeOK'
<1> USE DEF ShardTypeOK, WorkerTypeOK, shardVars, queueKeys, playerKeys,
            matchKeys, answerKeys, history, workerVars
<1>1. CASE WorkerNext
  BY <1>1, WorkerTypes DEF StallInv, MakerTypeOK
<1>2. CASE QueueClient /\ UNCHANGED workerVars
  BY <1>2, ClientTypes DEF StallInv
<1>3. CASE LockLapses
  BY <1>3, ShardAssumption DEF StallInv, LockLapses, OneFailure
<1>4. ASSUME NEW w \in Workers, LockLost(w) PROVE ShardTypeOK' /\ WorkerTypeOK'
  BY <1>4 DEF StallInv, LockLost, ReleaseShardLock, Goto, Steps, Empty
<1>5. CASE UNCHANGED stallVars
  BY <1>5 DEF StallInv, stallVars, makerVars
<1> QED BY <1>1, <1>2, <1>3, <1>4, <1>5 DEF StallNext, MakerNext

\* Nothing is exposed, and nothing waits, before anything ran.
LEMMA InitStall == StallInit => StallInv
<1> SUFFICES ASSUME StallInit PROVE StallInv
  OBVIOUS
<1>1. ShardTypeOK /\ WorkerTypeOK
  BY InitMakerTypes DEF StallInit, MakerTypeOK
<1>2. DOMAIN Empty = {}
  BY DEF Empty
<1> QED BY <1>1, <1>2
        DEF StallInit, MakerInit, ShardInit, WorkerInit, StallInv, HandsMatchStep,
            EntriesJoined, HarmContained, Exposed, Superseded, Buffered, Waiting

\* The invariant is inductive: what a step exposes is exposed from then on.
LEMMA NextStall == StallInv /\ [StallNext]_stallVars => StallInv'
<1> SUFFICES ASSUME StallInv, [StallNext]_stallVars PROVE StallInv'
  OBVIOUS
<1>1. ShardTypeOK' /\ WorkerTypeOK'
  BY StallTypes
<1>2. Kept
  <2>1. ASSUME NEW p \in Players, Join(p), UNCHANGED workerVars PROVE Kept
    BY <2>1, JoinKept
  <2>2. ASSUME NEW p \in Players, Cancel(p), UNCHANGED workerVars PROVE Kept
    BY <2>2, FrameKept DEF Cancel, stallCoreVars, matchKeys, workerVars
  <2>3. CASE WorkerNext
    BY <2>3, WorkerKept
  <2>4. CASE LockLapses
    BY <2>4, LockKept
  <2>5. ASSUME NEW w \in Workers, LockLost(w) PROVE Kept
    BY <2>5, EndKept
  <2>6. CASE UNCHANGED stallVars
    BY <2>6, FrameKept
       DEF stallVars, makerVars, shardVars, stallCoreVars, queueKeys, matchKeys,
           workerVars
  <2> QED BY <2>1, <2>2, <2>3, <2>4, <2>5, <2>6
          DEF StallNext, MakerNext, QueueClient
<1>3. Exposed' \subseteq exposed' /\ exposed \subseteq exposed'
  <2>1. CASE StallNext
    BY <2>1 DEF StallNext
  <2>2. CASE UNCHANGED stallVars
    <3>1. Exposed' = Exposed
      BY <2>2 DEF stallVars, makerVars, shardVars, queueKeys, workerVars, Exposed,
                  InReach, Superseded, Buffered, OldestQueued, Rank
    <3> QED BY <2>2, <3>1 DEF StallInv, stallVars
  <2> QED BY <2>1, <2>2
<1>4. HarmContained'
  BY <1>2, <1>3 DEF Kept, HarmContained
<1> QED BY <1>1, <1>2, <1>3, <1>4 DEF Kept, StallCore, StallInv

\* The invariant holds in every reachable state, for every value of the
\* constants: any number of workers may have lost the shard and go on.
THEOREM StallInvariance == StallSpec => []StallInv
BY InitStall, NextStall, PTL DEF StallSpec

\* A worker that goes on after its lock ran out harms no entry but those it
\* had in memory, or took with its next script, while it was superseded.
THEOREM ContainedHarm == StallSpec => []HarmContained
<1>1. StallInv => HarmContained
  BY DEF StallInv
<1> QED BY <1>1, StallInvariance, PTL

----------------------------------------------------------------------------
(* The lock.                                                               *)

\* No step of another worker takes the lock of a live one: acquiring needs it
\* free, and releasing and expiring it look at the owner.
LEMMA LockStep ==
  ASSUME StallInv, [StallNext]_stallVars, NEW w \in Workers,
         lock = w, pc[w] # "down", lock' # w
  PROVE  pc'[w] = "down" \/ LockLapses
<1> USE DEF StallInv, WorkerTypeOK, ReleaseShardLock, Goto
<1>1. CASE LockExpires
  BY <1>1 DEF LockExpires
<1>2. ASSUME NEW v \in Workers, Run(v) PROVE FALSE
  BY <1>2, MatchMakerAssumption
     DEF Run, PopOnce, FormMatches, AcquireShardLock, DrainProcessing, PopBatch,
         CheckCancelled, Filter, Uncancel, NoGroup, RejectGroup, CommitMatch,
         AnnounceMatch, RepushToQueue, RemoveRepushed
<1>3. ASSUME NEW v \in Workers, Failure(v) PROVE pc'[w] = "down"
  BY <1>3 DEF Failure, Crash, Stop, Forget, PopReplyLost, CheckFails, Filter,
              UncancelFails, RepushFails
<1>4. ASSUME NEW v \in Workers, LockLost(v) PROVE FALSE
  BY <1>4 DEF LockLost, Superseded
<1>5. CASE UNCHANGED workerVars \/ UNCHANGED stallVars
  BY <1>5 DEF stallVars, makerVars, workerVars
<1> QED BY <1>1, <1>2, <1>3, <1>4, <1>5 DEF StallNext, MakerNext, WorkerNext

\* Only time takes the shard from a live worker, whatever number of others
\* release the lock they believe to have.
THEOREM RespectedLock == StallSpec => LockRespected
<1>1. StallInv /\ [StallNext]_stallVars =>
        [\A w \in Workers : lock = w /\ pc[w] # "down" /\ lock' # w =>
           pc'[w] = "down" \/ LockLapses]_stallVars
  BY LockStep
<1> QED BY <1>1, StallInvariance, PTL DEF StallSpec, LockRespected
=============================================================================
