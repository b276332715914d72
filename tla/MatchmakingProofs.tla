-------------------------- MODULE MatchmakingProofs --------------------------
(***************************************************************************)
(* What is proved of the shard, for every number of players, workers,      *)
(* joins, failures and matches: the inductive invariant IInv of module     *)
(* Matchmaking, the properties it contains, and that the shard implements  *)
(* the abstract pool of module WaitingPool.                                *)
(***************************************************************************)
EXTENDS Matchmaking, MatchMakerProofs

----------------------------------------------------------------------------
(* The frame of most actions.                                              *)

\* The variables IInv speaks of beyond their types.
coreVars == <<queueKeys, status, entries, forming, history,
              lock, pc, buffer, work, unsent>>

CoreInv ==
  /\ OneActiveWorker /\ HandsMatchStep /\ MemoryBacked /\ BufferExclusive
  /\ EntriesJoined /\ EntryExclusive /\ NoEntryLost /\ FormingIndexed

\* Answers, announcements and timers move no entry.
LEMMA CoreFrame == CoreInv /\ UNCHANGED coreVars => CoreInv'
BY DEF CoreInv, coreVars, queueKeys, history, OneActiveWorker, HandsMatchStep,
       MemoryBacked, BufferExclusive, EntriesJoined, EntryExclusive,
       NoEntryLost, FormingIndexed, Waiting, Live, Buffered

----------------------------------------------------------------------------
(* Types.                                                                  *)

\* The initial values have the types.
LEMMA InitTypeOK == Init => TypeOK
BY InitMakerTypes
   DEF Init, MakerInit, MakerTypeOK, TypeOK, ConfirmationInit, ConfirmationTypeOK

\* The answers, the calls of matchops and the reconciler keep the types.
LEMMA ConfirmationTypes ==
  TypeOK /\ ConfirmationNext /\ UNCHANGED workerVars => TypeOK'
<1> SUFFICES ASSUME TypeOK, UNCHANGED workerVars, ConfirmationNext
             PROVE  TypeOK'
  OBVIOUS
<1> USE DEF TypeOK, ShardTypeOK, ConfirmationTypeOK, shardVars, queueKeys,
            playerKeys, matchKeys, answerKeys, history, callVars
<1>1. WorkerTypeOK'
  BY DEF WorkerTypeOK, workerVars
<1>2. CASE ProcessTimedOut
  BY <1>1, <1>2 DEF ProcessTimedOut, TimedOut, DissolveCall, Call
<1>3. CASE ReconcilerFails
  BY <1>1, <1>3, ShardAssumption DEF ReconcilerFails, OneFailure
<1>4. ASSUME NEW m \in MatchIds, AllocateServer(m) PROVE TypeOK'
  BY <1>1, <1>4 DEF AllocateServer, Publish, Event
<1>5. ASSUME NEW m \in MatchIds, GrowOverdue(m) PROVE TypeOK'
  BY <1>1, <1>5 DEF GrowOverdue
<1>6. ASSUME NEW m \in MatchIds, NEW p \in Players, Accept(p, m) PROVE TypeOK'
  BY <1>1, <1>6 DEF Accept, AcceptScript, ConfirmCall, Call
<1>7. ASSUME NEW m \in MatchIds, NEW p \in Players, Decline(p, m) PROVE TypeOK'
  BY <1>1, <1>7 DEF Decline, DeclineScript, DissolveCall, Call
<1>8. ASSUME NEW c \in calls, TooLate(c) PROVE TypeOK'
  BY <1>1, <1>8 DEF TooLate
<1>9. ASSUME NEW c \in calls, Confirm(c) PROVE TypeOK'
  BY <1>1, <1>9 DEF Confirm, ConfirmScript, Status, Call
<1>10. ASSUME NEW c \in calls, Dissolve(c) PROVE TypeOK'
  BY <1>1, <1>10 DEF Dissolve, DissolveScript, Requeued, Status, Call
<1>11. ASSUME NEW c \in decided, Announce(c) PROVE TypeOK'
  BY <1>1, <1>11 DEF Announce, Publish, Outcome, Started, Event, Call, Task
<1>12. ASSUME NEW c \in calls \cup decided, CallDies(c) PROVE TypeOK'
  BY <1>1, <1>12 DEF CallDies
<1> QED BY <1>2, <1>3, <1>4, <1>5, <1>6, <1>7, <1>8, <1>9, <1>10, <1>11, <1>12
        DEF ConfirmationNext

----------------------------------------------------------------------------
(* The entries.                                                            *)

\* A new entry is nowhere yet, because it is stamped after all the others.
LEMMA JoinCore ==
  ASSUME IInv, NEW p \in Players, Join(p), UNCHANGED workerVars
  PROVE  CoreInv'
<1> DEFINE new == [player |-> p, at |-> clock + 1]
<1> USE DEF workerVars, matchKeys, Buffered, Live, Waiting
<1>1. new \notin joined
  BY DEF IInv, EntriesJoined, TypeOK, ShardTypeOK
<1>2. /\ queue' = queue \cup {new} /\ joined' = joined \cup {new}
      /\ clock' = clock + 1 /\ clock \in Nat
      /\ UNCHANGED <<processing, status, entries, forming, left, lock, pc,
                     buffer, work, unsent>>
  BY DEF Join, JoinScript, IInv, TypeOK, ShardTypeOK
<1>3. \A w \in Workers : new \notin Buffered(w) \cup work[w]
  BY <1>1 DEF IInv, MemoryBacked, EntriesJoined
<1>4. \A m \in MatchIds : new \notin entries[m]
  BY <1>1 DEF IInv, EntriesJoined
<1> HIDE DEF new
<1>5. OneActiveWorker' /\ HandsMatchStep' /\ MemoryBacked' /\ FormingIndexed'
  BY <1>2 DEF IInv, OneActiveWorker, HandsMatchStep, MemoryBacked, FormingIndexed
<1>6. BufferExclusive'
  BY <1>2, <1>3 DEF IInv, BufferExclusive
<1>7. EntriesJoined'
  <2>1. \A e \in joined : e.at \in Int /\ e.at <= clock
    BY DEF IInv, EntriesJoined, TypeOK, ShardTypeOK, Entry
  <2>2. new.at = clock + 1
    BY DEF new
  <2> QED BY <1>2, <2>1, <2>2 DEF IInv, EntriesJoined
<1>8. EntryExclusive'
  BY <1>2, <1>4 DEF IInv, EntryExclusive
<1>9. NoEntryLost'
  BY <1>2 DEF IInv, NoEntryLost
<1> QED BY <1>5, <1>6, <1>7, <1>8, <1>9 DEF CoreInv

\* The only step of the API and of the reconciler that moves entries takes
\* them out of a match nobody decided before.
LEMMA DissolveCore ==
  ASSUME IInv, NEW c \in calls, Dissolve(c), UNCHANGED workerVars
  PROVE  CoreInv'
<1> DEFINE m == c.match
           back == Requeued(m, c.decliner)
<1> USE DEF workerVars, Buffered, Waiting
<1>1. m \in MatchIds
  BY DEF IInv, TypeOK, ConfirmationTypeOK, Call
<1>2. back \subseteq entries[m]
  BY DEF Requeued
<1>3. /\ status[m] = "forming"
      /\ status' = [status EXCEPT ![m] = "dissolved"]
      /\ forming' = forming \ {m}
      /\ queue' = queue \cup back
      /\ left' = left \cup (entries[m] \ back)
      /\ UNCHANGED <<processing, entries, clock, joined, lock, pc, buffer,
                     work, unsent>>
  BY DEF Dissolve, DissolveScript
<1> HIDE DEF m, back
<1>4. m \in Live /\ Live' = Live \ {m}
  BY <1>1, <1>3 DEF Live, IInv, TypeOK, ShardTypeOK
<1>5. entries[m] \cap Waiting = {}
  BY <1>4 DEF IInv, EntryExclusive
<1>6. OneActiveWorker' /\ HandsMatchStep' /\ MemoryBacked'
  BY <1>3 DEF IInv, OneActiveWorker, HandsMatchStep, MemoryBacked
<1>7. BufferExclusive'
  BY <1>2, <1>3, <1>5 DEF IInv, BufferExclusive, MemoryBacked
<1>8. EntriesJoined'
  BY <1>1, <1>2, <1>3 DEF IInv, EntriesJoined
<1>9. EntryExclusive'
  BY <1>1, <1>2, <1>3, <1>4, <1>5 DEF IInv, EntryExclusive
<1>10. NoEntryLost'
  <2>1. ASSUME NEW e \in joined
        PROVE  \/ e \in Waiting' \/ e \in left'
               \/ \E n \in Live' : e \in entries'[n]
    <3>1. \/ e \in Waiting \/ e \in left
          \/ \E n \in Live : e \in entries[n]
      BY DEF IInv, NoEntryLost
    <3>2. ASSUME NEW n \in Live, e \in entries[n], n # m
          PROVE  n \in Live' /\ e \in entries'[n]
      BY <1>3, <1>4, <3>2
    <3>3. CASE e \in Waiting \/ e \in left
      BY <1>3, <3>3
    <3>4. CASE e \in entries[m]
      BY <1>3, <3>4
    <3> QED BY <3>1, <3>2, <3>3, <3>4
  <2> QED BY <1>3, <2>1 DEF NoEntryLost
<1>11. FormingIndexed'
  BY <1>1, <1>3 DEF IInv, FormingIndexed, TypeOK, ShardTypeOK
<1> QED BY <1>6, <1>7, <1>8, <1>9, <1>10, <1>11 DEF CoreInv

\* A confirmation moves no entry: the match stays live.
LEMMA ConfirmCore ==
  ASSUME IInv, NEW c \in calls, Confirm(c), UNCHANGED workerVars
  PROVE  CoreInv'
<1> DEFINE m == c.match
<1>1. m \in MatchIds
  BY DEF IInv, TypeOK, ConfirmationTypeOK, Call
<1>2. /\ status[m] = "forming"
      /\ status' = [status EXCEPT ![m] = "confirmed"]
      /\ forming' = forming \ {m}
      /\ UNCHANGED <<queue, processing, entries, clock, joined, left, lock,
                     pc, buffer, work, unsent>>
  BY DEF Confirm, ConfirmScript, queueKeys, history, workerVars
<1> HIDE DEF m
<1>3. Live' = Live
  BY <1>1, <1>2 DEF Live, IInv, TypeOK, ShardTypeOK
<1>4. FormingIndexed'
  BY <1>1, <1>2 DEF IInv, FormingIndexed, TypeOK, ShardTypeOK
<1> QED BY <1>2, <1>3, <1>4
        DEF IInv, CoreInv, OneActiveWorker, HandsMatchStep, MemoryBacked,
            BufferExclusive, EntriesJoined, EntryExclusive, NoEntryLost,
            Buffered, Waiting

\* The steps of the answers and of the reconciler keep the invariant.
LEMMA ConfirmationCore ==
  ASSUME IInv, ConfirmationNext, UNCHANGED workerVars
  PROVE  CoreInv'
<1>1. CoreInv
  BY DEF IInv, CoreInv
<1>2. ASSUME NEW c \in calls, Confirm(c) PROVE CoreInv'
  BY <1>2, ConfirmCore
<1>3. ASSUME NEW c \in calls, Dissolve(c) PROVE CoreInv'
  BY <1>3, DissolveCore
<1>4. CASE UNCHANGED <<queueKeys, status, entries, forming, history>>
  BY <1>1, <1>4, CoreFrame DEF coreVars, workerVars
<1> USE DEF shardVars, matchKeys
<1>5. CASE ProcessTimedOut \/ ReconcilerFails
  BY <1>4, <1>5 DEF ProcessTimedOut, ReconcilerFails
<1>6. ASSUME NEW m \in MatchIds, AllocateServer(m) \/ GrowOverdue(m)
      PROVE  CoreInv'
  BY <1>4, <1>6 DEF AllocateServer, GrowOverdue
<1>7. ASSUME NEW m \in MatchIds, NEW p \in Players, Accept(p, m) \/ Decline(p, m)
      PROVE  CoreInv'
  BY <1>4, <1>7 DEF Accept, Decline
<1>8. ASSUME NEW c \in calls \cup decided, TooLate(c) \/ Announce(c) \/ CallDies(c)
      PROVE  CoreInv'
  BY <1>4, <1>8 DEF TooLate, Announce, CallDies
<1> QED BY <1>2, <1>3, <1>5, <1>6, <1>7, <1>8 DEF ConfirmationNext

\* A process that ends leaves in Redis what it had in hand.
LEMMA ForgetCore ==
  ASSUME IInv, NEW w \in Workers, Forget(w), lock' \in {lock, NoWorker}
  PROVE  CoreInv'
<1>1. /\ pc' = [pc EXCEPT ![w] = "down"]
      /\ buffer' = [buffer EXCEPT ![w] = Empty]
      /\ work' = [work EXCEPT ![w] = {}]
      /\ unsent' = [unsent EXCEPT ![w] = NoMatch]
      /\ UNCHANGED <<queue, processing, status, entries, forming, clock,
                     joined, left>>
      /\ lock = w
  BY DEF Forget, Goto, shardVars, queueKeys, matchKeys, history, IInv,
         OneActiveWorker
<1>2. /\ TypeOK /\ DOMAIN Empty = {}
      /\ \A v \in Workers : v # w => pc[v] = "down"
  BY <1>1 DEF IInv, OneActiveWorker, Empty
<1>3. \A v \in Workers : pc'[v] = "down"
  BY <1>1, <1>2 DEF TypeOK, WorkerTypeOK
<1>4. \A v \in Workers :
        /\ DOMAIN buffer'[v] = {} /\ work'[v] = {}
  <2>1. \A v \in Workers : v # w => DOMAIN buffer[v] = {} /\ work[v] = {}
    BY <1>2 DEF IInv, HandsMatchStep, Buffered
  <2> QED BY <1>1, <1>2, <2>1 DEF TypeOK, WorkerTypeOK
<1>5. OneActiveWorker' /\ HandsMatchStep' /\ MemoryBacked' /\ BufferExclusive'
  BY <1>3, <1>4
     DEF OneActiveWorker, HandsMatchStep, MemoryBacked, BufferExclusive, Buffered
<1> QED BY <1>1, <1>5
        DEF IInv, CoreInv, EntriesJoined, EntryExclusive, NoEntryLost,
            FormingIndexed, Waiting, Live

\* Taking, losing and starting on the shard.
LEMMA LockCore ==
  ASSUME IInv, LockExpires \/ \E w \in Workers : AcquireShardLock(w)
  PROVE  CoreInv'
<1>1. UNCHANGED <<queue, processing, status, entries, forming, clock, joined,
                  left, buffer, work, unsent>>
  BY DEF LockExpires, AcquireShardLock, shardVars, queueKeys, matchKeys, history
<1>2. EntriesJoined' /\ EntryExclusive' /\ NoEntryLost' /\ FormingIndexed'
  BY <1>1 DEF IInv, EntriesJoined, EntryExclusive, NoEntryLost, FormingIndexed,
              Waiting, Live
<1> USE DEF OneActiveWorker, HandsMatchStep, MemoryBacked, BufferExclusive, Buffered
<1>3. CASE LockExpires
  BY <1>1, <1>2, <1>3, MatchMakerAssumption DEF LockExpires, IInv, CoreInv
<1>4. ASSUME NEW w \in Workers, AcquireShardLock(w)
      PROVE  CoreInv'
  BY <1>1, <1>2, <1>4, MatchMakerAssumption
     DEF AcquireShardLock, Goto, IInv, CoreInv, TypeOK, WorkerTypeOK
<1> QED BY <1>3, <1>4

\* The drain empties the other half of the pool into the queue; nobody has an
\* entry in memory yet.
LEMMA DrainCore ==
  ASSUME IInv, NEW w \in Workers, DrainProcessing(w)
  PROVE  CoreInv'
<1>1. /\ pc[w] = "start" /\ pc' = [pc EXCEPT ![w] = "pop"]
      /\ queue' = queue \cup processing /\ processing' = {}
      /\ UNCHANGED <<status, entries, forming, clock, joined, left, lock,
                     buffer, work, unsent>>
  BY DEF DrainProcessing, DrainProcessingScript, Goto, matchKeys, history
<1>2. \A v \in Workers : Buffered(v) = {} /\ work[v] = {}
  BY <1>1 DEF IInv, HandsMatchStep, OneActiveWorker
<1>3. Waiting' = Waiting
  BY <1>1 DEF Waiting
<1>4. OneActiveWorker' /\ HandsMatchStep' /\ MemoryBacked' /\ BufferExclusive'
  BY <1>1, <1>2
     DEF IInv, TypeOK, WorkerTypeOK, OneActiveWorker, HandsMatchStep,
         MemoryBacked, BufferExclusive, Buffered
<1> QED BY <1>1, <1>3, <1>4
        DEF IInv, CoreInv, EntriesJoined, EntryExclusive, NoEntryLost,
            FormingIndexed, Live

\* Popping moves entries from one half of the pool to the other.
LEMMA PopCore ==
  ASSUME IInv, NEW w \in Workers, PopBatch(w) \/ PopReplyLost(w)
  PROVE  CoreInv'
<1> DEFINE S == OldestQueued
<1>1. /\ pc[w] = "pop" /\ S \subseteq queue
      /\ queue' = queue \ S /\ processing' = processing \cup S
      /\ UNCHANGED <<status, entries, forming, clock, joined, left, lock,
                     buffer, unsent>>
      /\ \/ /\ pc' = [pc EXCEPT ![w] = "check"]
            /\ work' = [work EXCEPT ![w] = S]
         \/ UNCHANGED <<pc, work>>
  BY DEF PopBatch, PopReplyLost, PopToProcessingScript, Goto, OldestQueued,
         matchKeys, history
<1> HIDE DEF S
<1>2. Waiting' = Waiting
  BY <1>1 DEF Waiting
<1>3. \A v \in Workers : v # w => pc[v] = "down" /\ work[v] = {}
  BY <1>1 DEF IInv, OneActiveWorker, HandsMatchStep
<1>4. work[w] = {}
  BY <1>1 DEF IInv, HandsMatchStep
<1>5. OneActiveWorker' /\ HandsMatchStep' /\ MemoryBacked' /\ BufferExclusive'
  BY <1>1, <1>3, <1>4
     DEF IInv, TypeOK, WorkerTypeOK, OneActiveWorker, HandsMatchStep,
         MemoryBacked, BufferExclusive, Buffered
<1> QED BY <1>1, <1>2, <1>5
        DEF IInv, CoreInv, EntriesJoined, EntryExclusive, NoEntryLost,
            FormingIndexed, Live

\* What the worker does with its own memory moves no entry of the pool: the
\* keys stay, and what it has in hand afterwards it had before.
LEMMA MemoryCore ==
  ASSUME IInv, NEW w \in Workers, pc[w] \notin {"down", "start"},
         UNCHANGED <<queueKeys, status, entries, forming, history, lock>>,
         NEW step \in Steps \ {"down", "start", "check", "unprocess"},
         pc' = [pc EXCEPT ![w] = step],
         \A v \in Workers : v # w => /\ buffer'[v] = buffer[v]
                                    /\ work'[v] = work[v]
                                    /\ unsent'[v] = unsent[v],
         DOMAIN buffer'[w] \cup work'[w] \subseteq Buffered(w) \cup work[w],
         DOMAIN buffer'[w] \cap (queue \cup work'[w]) = {},
         step \notin {"uncancel", "repush"} => work'[w] = {},
         step = "uncancel" => work'[w] \cap queue = {},
         step = "announce" => unsent'[w] # NoMatch
  PROVE  CoreInv'
<1>1. /\ UNCHANGED <<queue, processing, clock, joined, left>>
      /\ pc'[w] = step
      /\ \A v \in Workers : v # w => pc'[v] = pc[v]
  BY DEF queueKeys, history, IInv, TypeOK, WorkerTypeOK
<1>2. OneActiveWorker' /\ HandsMatchStep'
  BY <1>1 DEF IInv, OneActiveWorker, HandsMatchStep, Buffered
<1>3. MemoryBacked' /\ BufferExclusive'
  BY <1>1 DEF IInv, MemoryBacked, BufferExclusive, Buffered
<1> QED BY <1>1, <1>2, <1>3
        DEF IInv, CoreInv, EntriesJoined, EntryExclusive, NoEntryLost,
            FormingIndexed, Waiting, Live

\* What is skipped stays in hand until its players are unmarked, the rest of
\* the batch joins the buffer.
LEMMA FilterCore ==
  ASSUME IInv, NEW w \in Workers, NEW skipped \in SUBSET work[w],
         Filter(w, skipped)
  PROVE  CoreInv'
<1> DEFINE new == AppendBatch(buffer[w], work[w] \ skipped)
<1>1. DOMAIN new = Buffered(w) \cup (work[w] \ skipped)
  BY DEF AppendBatch, Buffered
<1>2. /\ pc[w] = "check"
      /\ buffer' = [buffer EXCEPT ![w] = new]
      /\ work' = [work EXCEPT ![w] = skipped]
      /\ UNCHANGED <<queueKeys, status, entries, forming, history, lock, unsent>>
      /\ pc' = [pc EXCEPT ![w] = IF skipped = {} THEN "form" ELSE "uncancel"]
  BY DEF Filter, Goto, shardVars, matchKeys
<1> HIDE DEF new
<1>3. /\ Buffered(w) \cap (queue \cup work[w]) = {}
      /\ work[w] \cap queue = {}
  BY <1>2 DEF IInv, BufferExclusive
<1>4. DOMAIN buffer = Workers /\ DOMAIN work = Workers
  BY DEF IInv, TypeOK, WorkerTypeOK
<1>5. CASE skipped = {}
  <2>1. /\ pc' = [pc EXCEPT ![w] = "form"]
        /\ DOMAIN buffer'[w] = Buffered(w) \cup work[w]
        /\ work'[w] = {}
    BY <1>1, <1>2, <1>4, <1>5
  <2>2. \A v \in Workers : v # w => /\ buffer'[v] = buffer[v]
                                   /\ work'[v] = work[v]
                                   /\ unsent'[v] = unsent[v]
    BY <1>2
  <2>3. UNCHANGED queue
    BY <1>2 DEF queueKeys
  <2> QED BY <1>2, <1>3, <2>1, <2>2, <2>3, MemoryCore DEF Steps
<1>6. CASE skipped # {}
  BY <1>1, <1>2, <1>3, <1>4, <1>6, MemoryCore DEF Steps
<1> QED BY <1>5, <1>6

\* The round trips about the skipped players, and those that find no group,
\* set a conflicting one aside, or announce a match.
LEMMA BufferCore ==
  ASSUME IInv, NEW w \in Workers,
         \/ Uncancel(w) \/ UncancelFails(w) \/ AnnounceMatch(w)
         \/ \E win \in Windows : NoGroup(w, win) \/ RejectGroup(w, win)
  PROVE  CoreInv'
<1> USE DEF Goto, shardVars, queueKeys, matchKeys, history, Steps
<1>1. /\ DOMAIN buffer = Workers /\ DOMAIN work = Workers
      /\ DOMAIN unsent = Workers
  BY DEF IInv, TypeOK, WorkerTypeOK
<1>2. Buffered(w) \cap (queue \cup work[w]) = {}
  BY DEF IInv, BufferExclusive
<1>3. pc[w] \in {"form", "announce"} => work[w] = {}
  BY DEF IInv, HandsMatchStep
<1>4. CASE Uncancel(w) \/ UncancelFails(w)
  <2>1. /\ pc[w] = "uncancel"
        /\ work' = [work EXCEPT ![w] = {}]
        /\ pc' = [pc EXCEPT ![w] = "form"]
        /\ UNCHANGED <<queueKeys, status, entries, forming, history, lock,
                       buffer, unsent>>
    BY <1>4 DEF Uncancel, UncancelFails
  <2> QED BY <1>1, <1>2, <2>1, MemoryCore DEF Buffered
<1>5. CASE AnnounceMatch(w)
  BY <1>1, <1>2, <1>3, <1>5, MemoryCore DEF AnnounceMatch, Buffered
<1>6. ASSUME NEW win \in Windows, NoGroup(w, win) PROVE CoreInv'
  BY <1>1, <1>2, <1>3, <1>6, MemoryCore DEF NoGroup, Buffered
<1>7. ASSUME NEW win \in Windows, RejectGroup(w, win) PROVE CoreInv'
  <2> DEFINE G == SelectGroup(buffer[w], MatchSize, win)
             new == Remaining(buffer[w], G)
  <2>1. G \subseteq Buffered(w)
    BY SelectGroupType DEF Buffered
  <2>2. DOMAIN new = Buffered(w) \ G
    BY DEF Remaining, Buffered
  <2>3. /\ pc[w] = "form"
        /\ buffer' = [buffer EXCEPT ![w] = new]
        /\ work' = [work EXCEPT ![w] = G]
        /\ pc' = [pc EXCEPT ![w] = "repush"]
        /\ UNCHANGED <<queueKeys, status, entries, forming, history, lock,
                       unsent>>
    BY <1>7 DEF RejectGroup
  <2> HIDE DEF G, new
  <2> QED BY <1>1, <1>2, <1>3, <2>1, <2>2, <2>3, MemoryCore
<1> QED BY <1>4, <1>5, <1>6, <1>7

\* A repush puts entries of the pool into the queue.
LEMMA RepushCore ==
  ASSUME IInv, NEW w \in Workers, RepushToQueue(w) \/ RepushFails(w)
  PROVE  CoreInv'
<1>1. PICK S \in SUBSET work[w] :
        /\ pc[w] = "repush" /\ queue' = queue \cup S
        /\ UNCHANGED <<processing, status, entries, forming, clock, joined,
                       left, lock, buffer, unsent>>
        /\ \/ /\ pc' = [pc EXCEPT ![w] = "unprocess"]
              /\ S = work[w] /\ work' = work
           \/ /\ pc' = [pc EXCEPT ![w] = "form"]
              /\ work' = [work EXCEPT ![w] = {}]
  BY DEF RepushToQueue, RepushFails, Goto, matchKeys, history
<1>2. S \subseteq processing
  BY <1>1 DEF IInv, MemoryBacked
<1>3. Waiting' = Waiting
  BY <1>1, <1>2 DEF Waiting
<1>4. \A v \in Workers : v # w =>
        pc[v] = "down" /\ work[v] = {} /\ Buffered(v) = {}
  BY <1>1 DEF IInv, OneActiveWorker, HandsMatchStep
<1>5. OneActiveWorker' /\ HandsMatchStep' /\ MemoryBacked' /\ BufferExclusive'
  BY <1>1, <1>4
     DEF IInv, TypeOK, WorkerTypeOK, OneActiveWorker, HandsMatchStep,
         MemoryBacked, BufferExclusive, Buffered
<1> QED BY <1>1, <1>3, <1>5
        DEF IInv, CoreInv, EntriesJoined, EntryExclusive, NoEntryLost,
            FormingIndexed, Live

\* What leaves the processing set at the end of a repush is in the queue.
LEMMA RemoveRepushedCore ==
  ASSUME IInv, NEW w \in Workers, RemoveRepushed(w)
  PROVE  CoreInv'
<1>1. /\ pc[w] = "unprocess"
      /\ processing' = processing \ work[w]
      /\ work' = [work EXCEPT ![w] = {}]
      /\ pc' = [pc EXCEPT ![w] = "form"]
      /\ UNCHANGED <<queue, status, entries, forming, clock, joined, left,
                     lock, buffer, unsent>>
  BY DEF RemoveRepushed, Goto, matchKeys, history
<1>2. work[w] \subseteq queue
  BY <1>1 DEF IInv, MemoryBacked
<1>3. Waiting' = Waiting
  BY <1>1, <1>2 DEF Waiting
<1>4. \A v \in Workers : v # w =>
        pc[v] = "down" /\ work[v] = {} /\ Buffered(v) = {}
  BY <1>1 DEF IInv, OneActiveWorker, HandsMatchStep
<1>5. OneActiveWorker' /\ HandsMatchStep' /\ MemoryBacked' /\ BufferExclusive'
  BY <1>1, <1>4
     DEF IInv, TypeOK, WorkerTypeOK, OneActiveWorker, HandsMatchStep,
         MemoryBacked, BufferExclusive, Buffered
<1> QED BY <1>1, <1>3, <1>5
        DEF IInv, CoreInv, EntriesJoined, EntryExclusive, NoEntryLost,
            FormingIndexed, Live

\* A commit takes a full group out of the pool, and nothing else.
LEMMA CommitStep ==
  ASSUME IInv, NEW w \in Workers, NEW m \in MatchIds, NEW win \in Windows,
         CommitMatch(w, m, win), NEW G, G = SelectGroup(buffer[w], MatchSize, win)
  PROVE  /\ pc[w] = "form" /\ status[m] = "none"
         /\ Cardinality(G) = MatchSize
         /\ G \subseteq Buffered(w) /\ G \subseteq processing
         /\ G \cap queue = {}
         /\ entries' = [entries EXCEPT ![m] = G]
         /\ status' = [status EXCEPT ![m] = "forming"]
         /\ forming' = forming \cup {m}
         /\ processing' = processing \ G
         /\ buffer' = [buffer EXCEPT ![w] = Remaining(@, G)]
         /\ unsent' = [unsent EXCEPT ![w] = m]
         /\ pc' = [pc EXCEPT ![w] = "announce"]
         /\ UNCHANGED <<queue, clock, joined, left, lock, work>>
<1>1. G \subseteq Buffered(w)
  BY SelectGroupType DEF Buffered
<1>2. G \subseteq processing /\ G \cap queue = {}
  BY <1>1 DEF IInv, MemoryBacked, BufferExclusive
<1> QED BY <1>1, <1>2
        DEF CommitMatch, CommitMatchScript, Goto, Found, history

\* The new match shares no entry with the pool, the buffers and the other
\* matches.
LEMMA CommitCore ==
  ASSUME IInv, NEW w \in Workers, NEW m \in MatchIds, NEW win \in Windows,
         CommitMatch(w, m, win)
  PROVE  CoreInv'
<1> DEFINE G == SelectGroup(buffer[w], MatchSize, win)
           new == Remaining(buffer[w], G)
<1>1. /\ pc[w] = "form" /\ status[m] = "none"
      /\ G \subseteq Buffered(w) /\ G \subseteq processing /\ G \cap queue = {}
      /\ entries' = [entries EXCEPT ![m] = G]
      /\ status' = [status EXCEPT ![m] = "forming"]
      /\ forming' = forming \cup {m}
      /\ processing' = processing \ G
      /\ buffer' = [buffer EXCEPT ![w] = new]
      /\ unsent' = [unsent EXCEPT ![w] = m]
      /\ pc' = [pc EXCEPT ![w] = "announce"]
      /\ UNCHANGED <<queue, clock, joined, left, lock, work>>
  BY CommitStep
<1>2. DOMAIN new = Buffered(w) \ G
  BY DEF Remaining, Buffered
<1> HIDE DEF G, new
<1>3. /\ m \notin Live /\ Live' = Live \cup {m}
      /\ entries'[m] = G
      /\ \A n \in Live : entries'[n] = entries[n]
  BY <1>1 DEF Live, IInv, TypeOK, ShardTypeOK
<1>4. Waiting' = Waiting \ G /\ G \subseteq Waiting
  BY <1>1 DEF Waiting
<1>5. \A n \in Live : entries[n] \cap Waiting = {}
  BY DEF IInv, EntryExclusive
<1>6. \A v \in Workers : v # w =>
        pc[v] = "down" /\ work[v] = {} /\ Buffered(v) = {}
  BY <1>1 DEF IInv, OneActiveWorker, HandsMatchStep
<1>7. work[w] = {}
  BY <1>1 DEF IInv, HandsMatchStep
<1>8. OneActiveWorker' /\ HandsMatchStep' /\ MemoryBacked' /\ BufferExclusive'
  BY <1>1, <1>2, <1>6, <1>7, MatchMakerAssumption
     DEF IInv, TypeOK, WorkerTypeOK, OneActiveWorker, HandsMatchStep,
         MemoryBacked, BufferExclusive, Buffered
<1>9. EntriesJoined'
  BY <1>1, <1>4 DEF IInv, EntriesJoined, TypeOK, ShardTypeOK
<1>10. EntryExclusive'
  BY <1>3, <1>4, <1>5 DEF IInv, EntryExclusive
<1>11. NoEntryLost'
  <2>1. ASSUME NEW e \in joined
        PROVE  \/ e \in Waiting' \/ e \in left'
               \/ \E n \in Live' : e \in entries'[n]
    <3>1. \/ e \in Waiting \/ e \in left
          \/ \E n \in Live : e \in entries[n]
      BY DEF IInv, NoEntryLost
    <3> QED BY <1>1, <1>3, <1>4, <3>1
  <2> QED BY <1>1, <2>1 DEF NoEntryLost
<1>12. FormingIndexed'
  BY <1>1 DEF IInv, FormingIndexed, TypeOK, ShardTypeOK
<1> QED BY <1>8, <1>9, <1>10, <1>11, <1>12 DEF CoreInv

----------------------------------------------------------------------------
(* The inductive invariant.                                                *)

\* The invariant holds before anything ran.
LEMMA InitIInv == Init => IInv
<1> SUFFICES ASSUME Init PROVE IInv
  OBVIOUS
<1>1. TypeOK
  BY InitTypeOK
<1>2. DOMAIN Empty = {}
  BY DEF Empty
<1> QED BY <1>1, <1>2
        DEF Init, ShardInit, WorkerInit, IInv, OneActiveWorker, HandsMatchStep,
            MemoryBacked, BufferExclusive, Buffered, EntriesJoined,
            EntryExclusive, NoEntryLost, FormingIndexed, Waiting, Live

\* No step of a worker, and no failure of one, disturbs the entries.
LEMMA WorkerCore ==
  ASSUME IInv, WorkerNext
  PROVE  CoreInv'
<1>1. CASE LockExpires
  BY <1>1, LockCore
<1>2. ASSUME NEW w \in Workers, Run(w) PROVE CoreInv'
  <2>1. CASE AcquireShardLock(w)
    BY <2>1, LockCore
  <2>2. CASE DrainProcessing(w)
    BY <2>2, DrainCore
  <2>3. CASE PopBatch(w)
    BY <2>3, PopCore
  <2>4. CASE CheckCancelled(w)
    BY <2>4, FilterCore DEF CheckCancelled
  <2>5. CASE Uncancel(w) \/ AnnounceMatch(w)
    BY <2>5, BufferCore
  <2>6. ASSUME NEW win \in Windows, NoGroup(w, win) \/ RejectGroup(w, win)
        PROVE  CoreInv'
    BY <2>6, BufferCore
  <2>7. ASSUME NEW win \in Windows, NEW m \in MatchIds, CommitMatch(w, m, win)
        PROVE  CoreInv'
    BY <2>7, CommitCore
  <2>8. CASE RepushToQueue(w)
    BY <2>8, RepushCore
  <2>9. CASE RemoveRepushed(w)
    BY <2>9, RemoveRepushedCore
  <2> QED BY <1>2, <2>1, <2>2, <2>3, <2>4, <2>5, <2>6, <2>7, <2>8, <2>9
          DEF Run, PopOnce, FormMatches
<1>3. ASSUME NEW w \in Workers, Failure(w) PROVE CoreInv'
  <2>1. CASE Crash(w) \/ Stop(w)
    BY <2>1, ForgetCore DEF Crash, Stop, ReleaseShardLock
  <2>2. CASE PopReplyLost(w)
    BY <2>2, PopCore
  <2>3. CASE CheckFails(w)
    BY <2>3, FilterCore DEF CheckFails
  <2>4. CASE UncancelFails(w)
    BY <2>4, BufferCore
  <2>5. CASE RepushFails(w)
    BY <2>5, RepushCore
  <2> QED BY <1>3, <2>1, <2>2, <2>3, <2>4, <2>5 DEF Failure
<1> QED BY <1>1, <1>2, <1>3 DEF WorkerNext

\* The invariant is inductive.
LEMMA NextIInv == IInv /\ [Next]_vars => IInv'
<1> SUFFICES ASSUME IInv, [Next]_vars PROVE IInv'
  OBVIOUS
<1>1. TypeOK /\ HandsMatchStep /\ CoreInv
  BY DEF IInv, CoreInv
<1>2. TypeOK'
  <2>1. CASE QueueClient /\ UNCHANGED <<workerVars, callVars>>
    BY <1>1, <2>1, ClientTypes
       DEF TypeOK, WorkerTypeOK, ConfirmationTypeOK, workerVars, callVars
  <2>2. CASE WorkerNext /\ UNCHANGED callVars
    BY <1>1, <2>2, WorkerTypes
       DEF TypeOK, MakerTypeOK, ConfirmationTypeOK, callVars
  <2>3. CASE ConfirmationNext /\ UNCHANGED workerVars
    BY <1>1, <2>3, ConfirmationTypes
  <2>4. CASE UNCHANGED vars
    BY <1>1, <2>4
       DEF TypeOK, ShardTypeOK, WorkerTypeOK, ConfirmationTypeOK, vars,
           shardVars, queueKeys, playerKeys, matchKeys, answerKeys, history,
           workerVars, callVars
  <2> QED BY <2>1, <2>2, <2>3, <2>4 DEF Next
<1>3. CoreInv'
  <2>1. ASSUME NEW p \in Players, Join(p), UNCHANGED workerVars PROVE CoreInv'
    BY <2>1, JoinCore
  <2>2. ASSUME NEW p \in Players, Cancel(p), UNCHANGED workerVars PROVE CoreInv'
    BY <1>1, <2>2, CoreFrame
       DEF Cancel, coreVars, matchKeys, workerVars
  <2>3. CASE WorkerNext
    BY <2>3, WorkerCore
  <2>4. CASE ConfirmationNext /\ UNCHANGED workerVars
    BY <2>4, ConfirmationCore
  <2>5. CASE UNCHANGED vars
    BY <1>1, <2>5, CoreFrame
       DEF vars, shardVars, coreVars, queueKeys, matchKeys, workerVars
  <2> QED BY <2>1, <2>2, <2>3, <2>4, <2>5 DEF Next, QueueClient
<1> QED BY <1>2, <1>3 DEF IInv, CoreInv

\* The invariant holds in every reachable state, for every value of the
\* constants.
THEOREM Invariance == Spec => []IInv
BY InitIInv, NextIInv, PTL DEF Spec

\* Every variable keeps its type.
THEOREM TypeCorrect == Spec => []TypeOK
<1>1. IInv => TypeOK
  BY DEF IInv
<1> QED BY <1>1, Invariance, PTL

\* At most one worker process works on the shard.
THEOREM SingleWorker == Spec => []OneActiveWorker
<1>1. IInv => OneActiveWorker
  BY DEF IInv
<1> QED BY <1>1, Invariance, PTL

\* What a worker has in memory, a crash leaves in Redis.
THEOREM Recoverable == Spec => []MemoryBacked
<1>1. IInv => MemoryBacked
  BY DEF IInv
<1> QED BY <1>1, Invariance, PTL

\* No entry waits and plays, or plays twice.
THEOREM Exclusive == Spec => []EntryExclusive
<1>1. IInv => EntryExclusive
  BY DEF IInv
<1> QED BY <1>1, Invariance, PTL

\* No step of the queue, of a worker that has the lock, of an answer, of the
\* reconciler or of a failure loses an entry. (The lock of a worker that lives
\* does not run out here; see StalledWorkerProofs for what is lost when it does.)
THEOREM NothingLost == Spec => []NoEntryLost
<1>1. IInv => NoEntryLost
  BY DEF IInv
<1> QED BY <1>1, Invariance, PTL

\* The reconciler's index is the set of the forming matches.
THEOREM IndexExact == Spec => []FormingIndexed
<1>1. IInv => FormingIndexed
  BY DEF IInv
<1> QED BY <1>1, Invariance, PTL

----------------------------------------------------------------------------
(* The shard implements the pool.                                          *)

\* The empty shard is the empty pool.
LEMMA InitPool == Init => Pool!Init
BY DEF Init, ShardInit, Pool!Init, Waiting

\* The steps that leave the pool as it is.
LEMMA SameWaiting ==
  ASSUME IInv,
         \/ LockExpires
         \/ \E w \in Workers :
              \/ AcquireShardLock(w) \/ DrainProcessing(w) \/ PopBatch(w)
              \/ PopReplyLost(w) \/ RepushToQueue(w) \/ RepushFails(w)
              \/ RemoveRepushed(w)
  PROVE  UNCHANGED <<joined, Waiting, status, entries>>
<1> USE DEF shardVars, queueKeys, matchKeys, history, Waiting
<1>1. CASE LockExpires
  BY <1>1 DEF LockExpires
<1> SUFFICES ASSUME NEW w \in Workers,
                    \/ AcquireShardLock(w) \/ DrainProcessing(w) \/ PopBatch(w)
                    \/ PopReplyLost(w) \/ RepushToQueue(w) \/ RepushFails(w)
                    \/ RemoveRepushed(w)
             PROVE  UNCHANGED <<joined, Waiting, status, entries>>
  BY <1>1
<1>2. work[w] \subseteq processing /\ (pc[w] = "unprocess" => work[w] \subseteq queue)
  BY DEF IInv, MemoryBacked
<1>3. CASE AcquireShardLock(w) \/ DrainProcessing(w)
  BY <1>3 DEF AcquireShardLock, DrainProcessing, DrainProcessingScript
<1>4. CASE PopBatch(w) \/ PopReplyLost(w)
  BY <1>4 DEF PopBatch, PopReplyLost, PopToProcessingScript, OldestQueued
<1>5. CASE RepushToQueue(w) \/ RepushFails(w)
  BY <1>2, <1>5 DEF RepushToQueue, RepushFails
<1>6. CASE RemoveRepushed(w)
  BY <1>2, <1>6 DEF RemoveRepushed
<1> QED BY <1>3, <1>4, <1>5, <1>6

\* A step of a worker forms one match of the pool or does not touch it.
LEMMA WorkerPool ==
  ASSUME IInv, WorkerNext
  PROVE  [Pool!Next]_(Pool!vars)
<1> USE DEF Pool!vars
<1>1. CASE UNCHANGED <<joined, Waiting, status, entries>>
  BY <1>1
<1>2. CASE LockExpires
  BY <1>1, <1>2, SameWaiting
<1>3. ASSUME NEW w \in Workers, Run(w) \/ Failure(w)
      PROVE  [Pool!Next]_(Pool!vars)
  <2>1. CASE \/ AcquireShardLock(w) \/ DrainProcessing(w) \/ PopBatch(w)
             \/ PopReplyLost(w) \/ RepushToQueue(w) \/ RepushFails(w)
             \/ RemoveRepushed(w)
    BY <1>1, <2>1, SameWaiting
  <2> USE DEF shardVars, queueKeys, matchKeys, history, Waiting
  <2>2. CASE Crash(w) \/ Stop(w)
    BY <1>1, <2>2 DEF Crash, Stop, Forget
  <2>3. CASE \/ CheckCancelled(w) \/ CheckFails(w) \/ Uncancel(w)
             \/ UncancelFails(w) \/ AnnounceMatch(w)
    BY <1>1, <2>3
       DEF CheckCancelled, CheckFails, Filter, Uncancel, UncancelFails,
           AnnounceMatch
  <2>4. ASSUME NEW win \in Windows, NoGroup(w, win) \/ RejectGroup(w, win)
        PROVE  [Pool!Next]_(Pool!vars)
    BY <1>1, <2>4 DEF NoGroup, RejectGroup
  <2>5. ASSUME NEW win \in Windows, NEW m \in MatchIds, CommitMatch(w, m, win)
        PROVE  [Pool!Next]_(Pool!vars)
    <3> DEFINE G == SelectGroup(buffer[w], MatchSize, win)
    <3>1. /\ status[m] = "none" /\ Cardinality(G) = MatchSize
          /\ G \subseteq processing /\ G \cap queue = {}
          /\ entries' = [entries EXCEPT ![m] = G]
          /\ status' = [status EXCEPT ![m] = "forming"]
          /\ processing' = processing \ G
          /\ UNCHANGED <<queue, joined>>
      BY <2>5, CommitStep
    <3> HIDE DEF G
    <3>2. G \in {H \in SUBSET Entry : Cardinality(H) = MatchSize}
      BY <3>1 DEF IInv, TypeOK, ShardTypeOK
    <3>3. Pool!Form(m, G)
      BY <3>1 DEF Pool!Form
    <3> QED BY <3>2, <3>3 DEF Pool!Next
  <2> QED BY <1>3, <2>1, <2>2, <2>3, <2>4, <2>5
          DEF Run, PopOnce, FormMatches, Failure
<1> QED BY <1>2, <1>3 DEF WorkerNext

\* Every step of the shard is a step of the pool or leaves it alone.
LEMMA NextPool == IInv /\ [Next]_vars => [Pool!Next]_(Pool!vars)
<1> SUFFICES ASSUME IInv, [Next]_vars PROVE [Pool!Next]_(Pool!vars)
  OBVIOUS
<1> USE DEF Pool!vars
<1>1. CASE UNCHANGED <<joined, Waiting, status, entries>>
  BY <1>1
<1>2. ASSUME NEW p \in Players, Join(p) PROVE [Pool!Next]_(Pool!vars)
  <2> DEFINE e == [player |-> p, at |-> clock + 1]
  <2>1. e \in Entry /\ e \notin joined
    BY <1>2, ShardAssumption
       DEF Join, IInv, EntriesJoined, TypeOK, ShardTypeOK, Entry
  <2>2. /\ joined' = joined \cup {e} /\ Waiting' = Waiting \cup {e}
        /\ UNCHANGED <<status, entries>>
    BY <1>2 DEF Join, JoinScript, Waiting, matchKeys
  <2> HIDE DEF e
  <2> QED BY <2>1, <2>2 DEF Pool!Next, Pool!Enter
<1>3. ASSUME NEW p \in Players, Cancel(p) PROVE [Pool!Next]_(Pool!vars)
  BY <1>1, <1>3 DEF Cancel, queueKeys, matchKeys, history, Waiting
<1>4. CASE WorkerNext
  BY <1>4, WorkerPool
<1>5. ASSUME NEW c \in calls, Confirm(c) PROVE [Pool!Next]_(Pool!vars)
  <2>1. c.match \in MatchIds
    BY DEF IInv, TypeOK, ConfirmationTypeOK, Call
  <2>2. Pool!Confirm(c.match)
    BY <1>5 DEF Confirm, ConfirmScript, queueKeys, history, Waiting,
                Pool!Confirm
  <2> QED BY <2>1, <2>2 DEF Pool!Next
<1>6. ASSUME NEW c \in calls, Dissolve(c) PROVE [Pool!Next]_(Pool!vars)
  <2> DEFINE back == Requeued(c.match, c.decliner)
  <2>1. c.match \in MatchIds
    BY DEF IInv, TypeOK, ConfirmationTypeOK, Call
  <2>2. back \in SUBSET entries[c.match]
    BY DEF Requeued
  <2>3. Pool!Dissolve(c.match, back)
    BY <1>6, <2>2 DEF Dissolve, DissolveScript, Waiting, Pool!Dissolve
  <2> QED BY <2>1, <2>2, <2>3 DEF Pool!Next
<1>7. CASE ConfirmationNext
  <2> USE DEF shardVars, queueKeys, matchKeys, history, Waiting
  <2>1. CASE ProcessTimedOut \/ ReconcilerFails
    BY <1>1, <2>1 DEF ProcessTimedOut, ReconcilerFails
  <2>2. ASSUME NEW m \in MatchIds, AllocateServer(m) \/ GrowOverdue(m)
        PROVE  [Pool!Next]_(Pool!vars)
    BY <1>1, <2>2 DEF AllocateServer, GrowOverdue
  <2>3. ASSUME NEW m \in MatchIds, NEW p \in Players,
               Accept(p, m) \/ Decline(p, m)
        PROVE  [Pool!Next]_(Pool!vars)
    BY <1>1, <2>3 DEF Accept, Decline
  <2>4. ASSUME NEW c \in calls \cup decided,
               TooLate(c) \/ Announce(c) \/ CallDies(c)
        PROVE  [Pool!Next]_(Pool!vars)
    BY <1>1, <2>4 DEF TooLate, Announce, CallDies
  <2> QED BY <1>5, <1>6, <1>7, <2>1, <2>2, <2>3, <2>4 DEF ConfirmationNext
<1>8. CASE UNCHANGED vars
  BY <1>1, <1>8 DEF vars, shardVars, queueKeys, matchKeys, history, Waiting
<1> QED BY <1>2, <1>3, <1>4, <1>7, <1>8 DEF Next, QueueClient

\* The shard implements the pool: each of its steps, those of a failure
\* included, is one step of the pool or leaves the pool alone.
THEOREM Refinement == Spec => ImplementsPool
BY InitPool, NextPool, Invariance, PTL DEF Spec, ImplementsPool, Pool!Spec

\* The outcome of a match is final.
THEOREM FinalOutcome == Spec => OutcomeFinal
<1>1. ASSUME IInv, [Pool!Next]_(Pool!vars)
      PROVE  [\A m \in MatchIds : status[m] \in {"confirmed", "dissolved"} =>
                /\ status'[m] = status[m]
                /\ entries'[m] = entries[m]]_shardVars
  BY <1>1 DEF Pool!Next, Pool!vars, Pool!Enter, Pool!Form, Pool!Confirm,
              Pool!Dissolve, IInv, TypeOK, ShardTypeOK
<1> QED BY <1>1, NextPool, Invariance, PTL DEF Spec, OutcomeFinal
=============================================================================
