----------------------------- MODULE MatchMaker -----------------------------
(***************************************************************************)
(* The worker processes of one shard. One of them holds the shard lock; it *)
(* drains the processing set once and then runs popLoop: pop a batch,      *)
(* filter the cancelled players, form as many matches as the buffer        *)
(* allows. The others wait for the lock.                                   *)
(*                                                                         *)
(* Every round trip to Redis is a step of its own, so that the calls of    *)
(* the other services, and crashes, fall between any two of them.          *)
(***************************************************************************)
EXTENDS Shard

CONSTANTS
  Workers,      \* the worker processes
  PopBatchSize, \* popBatchSize
  Rating,       \* the rating of each player
  Windows,      \* the rating windows the waiting time of an anchor may give
  NoWorker, NoMatch

ASSUME MatchMakerAssumption ==
  /\ PopBatchSize \in Nat \ {0}
  /\ Rating \in [Players -> Int]
  /\ Windows \subseteq Int
  /\ NoWorker \notin Workers
  /\ NoMatch \notin MatchIds

VARIABLES
  lock,       \* lock:{band}: the worker that holds the shard
  pc,         \* where each worker stands in Run and popOnce
  buffer,     \* the buffer slice of popLoop: each entry with its index
  work,       \* the entries of the round trip in progress
  unsent      \* the match committed and not announced yet

workerVars == <<lock, pc, buffer, work, unsent>>

Steps == {"down", "start", "pop", "check", "uncancel", "form", "announce",
          "repush", "unprocess"}

WorkerTypeOK ==
  /\ lock \in Workers \cup {NoWorker}
  /\ pc \in [Workers -> Steps]
  /\ DOMAIN buffer = Workers
  /\ \A w \in Workers : /\ DOMAIN buffer[w] \subseteq Entry
                        /\ buffer[w] \in [DOMAIN buffer[w] -> Nat]
  /\ work \in [Workers -> SUBSET Entry]
  /\ unsent \in [Workers -> MatchIds \cup {NoMatch}]

Empty == [e \in {} |-> 0]

WorkerInit ==
  /\ lock = NoWorker
  /\ pc = [w \in Workers |-> "down"]
  /\ buffer = [w \in Workers |-> Empty]
  /\ work = [w \in Workers |-> {}]
  /\ unsent = [w \in Workers |-> NoMatch]

Goto(w, step) == pc' = [pc EXCEPT ![w] = step]

----------------------------------------------------------------------------
(* The buffer and selectGroup.                                             *)

Buffered(w) == DOMAIN buffer[w]

\* The elements of S at the head of a slice that orders them by key.
Rank(S, key, e) == Cardinality({f \in S : key[f] < key[e]})

EnqueueTime == [e \in Entry |-> e.at]

\* Mutant: append(S, buffer...).
PrependBatch(buf, S) ==
  [e \in DOMAIN buf \cup S |->
     IF e \in DOMAIN buf THEN Cardinality(S) + buf[e] ELSE Rank(S, EnqueueTime, e)]

\* append(buffer, S...): the batch follows what is there, oldest first.
AppendBatch(buf, S) ==
  [e \in DOMAIN buf \cup S |->
     IF e \in DOMAIN buf THEN buf[e]
     ELSE Cardinality(DOMAIN buf) + Rank(S, EnqueueTime, e)]

\* Mutant: the group stays in the slice.
RemainingAll(buf, G) == buf

\* The slice without G, in the same order.
Remaining(buf, G) ==
  [e \in DOMAIN buf \ G |-> Rank(DOMAIN buf \ G, buf, e)]

IsAnchor(buf, e) == \A f \in DOMAIN buf : buf[e] <= buf[f]

WithinWindow(e, f, win) ==
  /\ Rating[e.player] - Rating[f.player] <= win
  /\ Rating[f.player] - Rating[e.player] <= win

\* The entries of the buffer that may play with its first one.
Compatible(buf, win) ==
  {e \in DOMAIN buf : /\ ~ IsAnchor(buf, e)
                      /\ \E a \in DOMAIN buf : /\ IsAnchor(buf, a)
                                               /\ WithinWindow(e, a, win)}

\* The anchor and the first n - 1 compatible entries behind it.
SelectGroup(buf, n, win) ==
  {e \in DOMAIN buf :
     \/ IsAnchor(buf, e)
     \/ /\ e \in Compatible(buf, win)
        /\ Rank(Compatible(buf, win), buf, e) < n - 1}

\* selectGroup finds a group: the candidates are as many as a match needs.
Found(G) == Cardinality(G) = MatchSize

----------------------------------------------------------------------------
(* Starting and stopping.                                                  *)

\* Mutant: SET instead of SETNX.
SeizeShardLock(w) ==
  /\ pc[w] = "down" /\ lock' = w
  /\ Goto(w, "start")
  /\ UNCHANGED <<shardVars, buffer, work, unsent, failures>>

\* Mutant: the new holder goes straight to popLoop.
AcquireWithoutDrain(w) ==
  /\ pc[w] = "down" /\ lock = NoWorker
  /\ lock' = w
  /\ Goto(w, "pop")
  /\ UNCHANGED <<shardVars, buffer, work, unsent, failures>>

AcquireShardLock(w) ==
  /\ pc[w] = "down" /\ lock = NoWorker
  /\ lock' = w
  /\ Goto(w, "start")
  /\ UNCHANGED <<shardVars, buffer, work, unsent, failures>>

DrainProcessing(w) ==
  /\ pc[w] = "start"
  /\ DrainProcessingScript
  /\ Goto(w, "pop")
  /\ UNCHANGED <<playerKeys, matchKeys, answerKeys, events, history,
                 lock, buffer, work, unsent, failures>>

\* What a process that ends takes with it.
Forget(w) ==
  /\ pc[w] # "down"
  /\ Goto(w, "down")
  /\ buffer' = [buffer EXCEPT ![w] = Empty]
  /\ work' = [work EXCEPT ![w] = {}]
  /\ unsent' = [unsent EXCEPT ![w] = NoMatch]
  /\ OneFailure
  /\ UNCHANGED shardVars

\* The process dies; its lock stays until the TTL runs out.
Crash(w) == Forget(w) /\ UNCHANGED lock

\* Mutant: the key is deleted, whoever owns it.
DeleteShardLock(w) == lock' = NoWorker

ReleaseShardLock(w) == lock' = IF lock = w THEN NoWorker ELSE lock

\* An error or a signal ends Run, whose defer releases a lock it still owns.
Stop(w) == Forget(w) /\ ReleaseShardLock(w)

\* A live holder renews its lock in time; that of a dead one expires.
LockExpires ==
  /\ \E w \in Workers : lock = w /\ pc[w] = "down"
  /\ lock' = NoWorker
  /\ UNCHANGED <<shardVars, pc, buffer, work, unsent, failures>>

----------------------------------------------------------------------------
(* popOnce.                                                                *)

\* The first PopBatchSize members of the sorted set.
OldestQueued == {e \in queue : Rank(queue, EnqueueTime, e) < PopBatchSize}

PopBatch(w) ==
  /\ pc[w] = "pop" /\ queue # {}
  /\ PopToProcessingScript(OldestQueued)
  /\ work' = [work EXCEPT ![w] = OldestQueued]
  /\ Goto(w, "check")
  /\ UNCHANGED <<playerKeys, matchKeys, answerKeys, events, history,
                 lock, buffer, unsent, failures>>

\* The script runs but its reply is lost: popBatch takes the error, which
\* comes with no values, for an empty queue.
PopReplyLost(w) ==
  /\ pc[w] = "pop" /\ queue # {}
  /\ PopToProcessingScript(OldestQueued)
  /\ OneFailure
  /\ UNCHANGED <<playerKeys, matchKeys, answerKeys, events, history,
                 lock, pc, buffer, work, unsent>>

\* The candidates that are not skipped join the buffer.
Filter(w, skipped) ==
  /\ pc[w] = "check"
  /\ buffer' = [buffer EXCEPT ![w] = AppendBatch(@, work[w] \ skipped)]
  /\ work' = [work EXCEPT ![w] = skipped]
  /\ Goto(w, IF skipped = {} THEN "form" ELSE "uncancel")
  /\ UNCHANGED <<shardVars, lock, unsent>>

\* Mutant: every candidate joins the buffer.
CheckNobody(w) == Filter(w, {}) /\ UNCHANGED failures

\* SMISMEMBER of the batch: the cancelled players are skipped.
CheckCancelled(w) ==
  /\ Filter(w, {e \in work[w] : e.player \in cancelled})
  /\ UNCHANGED failures

\* On an error nobody counts as cancelled.
CheckFails(w) == Filter(w, {}) /\ OneFailure

\* Mutant: DEL of the whole set.
ClearCancelled(w) ==
  /\ pc[w] = "uncancel"
  /\ cancelled' = {}
  /\ work' = [work EXCEPT ![w] = {}]
  /\ Goto(w, "form")
  /\ UNCHANGED <<queueKeys, inqueue, matchKeys, answerKeys, events, history,
                 lock, buffer, unsent, failures>>

\* SREM of the players skipped. Their entries stay in the processing set.
Uncancel(w) ==
  /\ pc[w] = "uncancel"
  /\ cancelled' = cancelled \ PlayersOf(work[w])
  /\ work' = [work EXCEPT ![w] = {}]
  /\ Goto(w, "form")
  /\ UNCHANGED <<queueKeys, inqueue, matchKeys, answerKeys, events, history,
                 lock, buffer, unsent, failures>>

\* An error of the SREM is logged: the players stay in the set.
UncancelFails(w) ==
  /\ pc[w] = "uncancel"
  /\ work' = [work EXCEPT ![w] = {}]
  /\ Goto(w, "form")
  /\ OneFailure
  /\ UNCHANGED <<shardVars, lock, buffer, unsent>>

\* No group: popOnce returns the buffer and the next pop follows.
NoGroup(w, win) ==
  /\ pc[w] = "form"
  /\ ~ Found(SelectGroup(buffer[w], MatchSize, win))
  /\ Goto(w, "pop")
  /\ UNCHANGED <<shardVars, lock, buffer, work, unsent, failures>>

\* A group is committed under an identifier nobody used before.
CommitMatch(w, m, win) ==
  LET G == SelectGroup(buffer[w], MatchSize, win) IN
  /\ pc[w] = "form" /\ Found(G)
  /\ ~ CommitConflict(G)
  /\ status[m] = "none"
  /\ CommitMatchScript(m, G)
  /\ buffer' = [buffer EXCEPT ![w] = Remaining(@, G)]
  /\ unsent' = [unsent EXCEPT ![w] = m]
  /\ Goto(w, "announce")
  /\ UNCHANGED <<queue, cancelled, answerKeys, events, history,
                 lock, work, failures>>

\* A player of the group cancelled since the check.
RejectGroup(w, win) ==
  LET G == SelectGroup(buffer[w], MatchSize, win) IN
  /\ pc[w] = "form" /\ Found(G)
  /\ CommitConflict(G)
  /\ buffer' = [buffer EXCEPT ![w] = Remaining(@, G)]
  /\ work' = [work EXCEPT ![w] = G]
  /\ Goto(w, "repush")
  /\ UNCHANGED <<shardVars, lock, unsent, failures>>

\* Publishing match.forming; an error is logged and forgotten.
AnnounceMatch(w) ==
  /\ pc[w] = "announce"
  /\ events' \in {events \cup {[type |-> "forming", match |-> unsent[w]]},
                  events}
  /\ unsent' = [unsent EXCEPT ![w] = NoMatch]
  /\ Goto(w, "form")
  /\ UNCHANGED <<queueKeys, playerKeys, matchKeys, answerKeys, history,
                 lock, buffer, work, failures>>

\* Mutant: the ZREM comes first.
RemoveBeforeRepush(w) ==
  /\ pc[w] = "repush"
  /\ processing' = processing \ work[w]
  /\ Goto(w, "unprocess")
  /\ UNCHANGED <<queue, playerKeys, matchKeys, answerKeys, events,
                 history, lock, buffer, work, unsent, failures>>

\* Mutant: only the players who did not cancel are repushed.
RepushRemaining(w) ==
  /\ pc[w] = "repush"
  /\ queue' = queue \cup {e \in work[w] : e.player \notin cancelled}
  /\ Goto(w, "unprocess")
  /\ UNCHANGED <<processing, playerKeys, matchKeys, answerKeys, events,
                 history, lock, buffer, work, unsent, failures>>

\* The ZADDs of the pipeline of repushGroup.
RepushToQueue(w) ==
  /\ pc[w] = "repush"
  /\ queue' = queue \cup work[w]
  /\ Goto(w, "unprocess")
  /\ UNCHANGED <<processing, playerKeys, matchKeys, answerKeys, events,
                 history, lock, buffer, work, unsent, failures>>

\* Its ZREM.
RemoveRepushed(w) ==
  /\ pc[w] = "unprocess"
  /\ processing' = processing \ work[w]
  /\ work' = [work EXCEPT ![w] = {}]
  /\ Goto(w, "form")
  /\ UNCHANGED <<queue, playerKeys, matchKeys, answerKeys, events, history,
                 lock, buffer, unsent, failures>>

\* The pipeline breaks part way: some entries are back in the queue, all are
\* in the processing set, and the worker goes on without the group.
RepushFails(w) ==
  /\ pc[w] = "repush"
  /\ \E S \in SUBSET work[w] : queue' = queue \cup S
  /\ work' = [work EXCEPT ![w] = {}]
  /\ Goto(w, "form")
  /\ OneFailure
  /\ UNCHANGED <<processing, playerKeys, matchKeys, answerKeys, events,
                 history, lock, buffer, unsent>>

FormMatches(w) ==
  \E win \in Windows : \/ NoGroup(w, win)
                       \/ RejectGroup(w, win)
                       \/ \E m \in MatchIds : CommitMatch(w, m, win)

PopOnce(w) ==
  \/ PopBatch(w) \/ CheckCancelled(w) \/ Uncancel(w) \/ FormMatches(w)
  \/ AnnounceMatch(w) \/ RepushToQueue(w) \/ RemoveRepushed(w)

Run(w) == AcquireShardLock(w) \/ DrainProcessing(w) \/ PopOnce(w)

Failure(w) ==
  \/ Crash(w) \/ Stop(w)
  \/ PopReplyLost(w) \/ CheckFails(w) \/ UncancelFails(w) \/ RepushFails(w)

WorkerNext ==
  \/ LockExpires
  \/ \E w \in Workers : Run(w) \/ Failure(w)

\* The workers with the clients that fill the queue.
makerVars == <<shardVars, failures, workerVars>>

MakerInit == ShardInit /\ WorkerInit

MakerNext == WorkerNext \/ (QueueClient /\ UNCHANGED workerVars)

\* Processes that run keep running, a standby keeps trying to take the lock,
\* and Redis expires keys. Nobody has to join or to cancel, and nothing fails
\* because it must.
WorkerFairness ==
  /\ WF_makerVars(LockExpires)
  /\ \A w \in Workers : WF_makerVars(Run(w))

MakerSpec == MakerInit /\ [][MakerNext]_makerVars /\ WorkerFairness

----------------------------------------------------------------------------
(* Properties.                                                             *)

Times(S) == {e.at : e \in S}

\* A worker works on entries only in the round trips about them, and has a
\* match to announce only right after it committed it.
HandsMatchStep ==
  \A w \in Workers :
    /\ pc[w] = "announce" => unsent[w] # NoMatch
    /\ pc[w] \in {"down", "start"} => Buffered(w) = {}
    /\ pc[w] \notin {"check", "uncancel", "repush", "unprocess"} => work[w] = {}

\* Only the holder of the lock works on the shard.
OneActiveWorker == \A w \in Workers : pc[w] # "down" => lock = w

\* What a worker has in hand survives it: every entry in its memory is in the
\* processing set, which the next holder drains. In particular repushGroup
\* takes nothing out of the processing set before it is back in the queue.
MemoryBacked ==
  \A w \in Workers : /\ Buffered(w) \cup work[w] \subseteq processing
                     /\ pc[w] = "unprocess" => work[w] \subseteq queue

\* Ahead of f in the buffer, which may have yet to come.
Ahead(w, e, f) ==
  /\ e \in Buffered(w)
  /\ f \in Buffered(w) => buffer[w][e] < buffer[w][f]

\* Nobody is overtaken in the buffer: it keeps its order, however often groups
\* leave it and batches join it, and an entry leaves before one ahead of it only
\* when its rating fits the anchor's window and the other's does not.
NoOvertaking ==
  [][\A w \in Workers : \A e, f \in joined : Ahead(w, e, f) =>
       /\ {e, f} \subseteq Buffered(w)' => Ahead(w, e, f)'
       /\ f \in Buffered(w) \ Buffered(w)' /\ e \in Buffered(w)' =>
            \E a \in Buffered(w), win \in Windows :
              /\ IsAnchor(buffer[w], a)
              /\ WithinWindow(f, a, win) /\ ~ WithinWindow(e, a, win)]_makerVars

\* An entry in flight when the last worker went down is put back in the queue
\* by the next one. (The time of enqueueing names the entry.)
CrashRecovery ==
  \A t \in 1..MaxJoins :
    (t \in Times(processing) /\ \A w \in Workers : pc[w] = "down")
      ~> t \in Times(queue)

\* The worker gets to every entry in the queue, whatever is cancelled,
\* rejected, repushed or recovered meanwhile.
QueuedIsPopped ==
  \A t \in 1..MaxJoins : t \in Times(queue) ~> t \notin Times(queue)

\* What selectGroup says of itself: its anchor is the entry of the buffer that
\* waits longest, so a match takes that entry.
OldestIsAnchor ==
  [][\A w \in Workers : unsent[w] = NoMatch /\ unsent'[w] # NoMatch =>
       \E e \in entries'[unsent'[w]] : \A f \in Buffered(w) : e.at <= f.at]_makerVars
=============================================================================
