---------------------------- MODULE StalledWorker ----------------------------
(***************************************************************************)
(* The workers of a shard when a lock runs out under its holder. A worker  *)
(* renews its lock in a loop of its own, which starts only after the work  *)
(* of the start-up, and reads the answer only every lockRenewInterval: a   *)
(* worker that stalls for longer than lockTTL, or needs longer to start,   *)
(* goes on beside its successor until its next renewal ends it.            *)
(***************************************************************************)
EXTENDS MatchMaker

VARIABLE exposed \* history: the entries within reach of a superseded worker

stallVars == <<makerVars, exposed>>

\* A worker that has lost the shard and does not know it.
Superseded(w) == pc[w] # "down" /\ lock # w

\* The entries such a worker has in hand, or takes with its next script.
InReach(w) ==
  UNION {Buffered(w), work[w],
         IF pc[w] = "start" THEN processing ELSE {},
         IF pc[w] = "pop" THEN OldestQueued ELSE {}}

Exposed == UNION {InReach(w) : w \in {v \in Workers : Superseded(v)}}

StallInit == MakerInit /\ exposed = {}

\* The lock of a live worker expires.
LockLapses ==
  /\ lock # NoWorker /\ pc[lock] # "down"
  /\ lock' = NoWorker
  /\ OneFailure
  /\ UNCHANGED <<shardVars, pc, buffer, work, unsent>>

\* renewLockLoop finds that the lock is not the worker's, which ends Run; the
\* deferred release finds that, too.
LockLost(w) ==
  /\ Superseded(w)
  /\ Goto(w, "down")
  /\ buffer' = [buffer EXCEPT ![w] = Empty]
  /\ work' = [work EXCEPT ![w] = {}]
  /\ unsent' = [unsent EXCEPT ![w] = NoMatch]
  /\ ReleaseShardLock(w)
  /\ UNCHANGED <<shardVars, failures>>

\* A worker that pops an entry it has already has it twice in its slice; such
\* a behaviour is followed no further.
PoppedOnce ==
  \A w \in Workers : pc'[w] = "check" => work'[w] \cap Buffered(w) = {}

StallNext ==
  /\ \/ MakerNext /\ PoppedOnce
     \/ LockLapses
     \/ \E w \in Workers : LockLost(w)
  /\ exposed' = exposed \cup Exposed'

StallSpec == StallInit /\ [][StallNext]_stallVars

----------------------------------------------------------------------------
(* Properties.                                                             *)

\* An entry is in one place, and in some; a worker that has it in memory has
\* it once, backed by the processing set, and out of the queue unless it is
\* putting it back.
Unharmed(e) ==
  /\ \A w \in Workers :
       /\ e \in Buffered(w) \cup work[w] => e \in processing
       /\ e \in Buffered(w) => e \notin queue \cup work[w]
       /\ pc[w] = "check" /\ e \in work[w] => e \notin queue
       /\ pc[w] = "unprocess" /\ e \in work[w] => e \in queue
  /\ \A m \in Live : e \in entries[m] =>
       e \notin Waiting /\ \A n \in Live : e \in entries[n] => m = n
  /\ e \in Waiting \cup left \cup UNION {entries[m] : m \in Live}

\* Two workers at once harm no entry but those within reach of the one that
\* lost the shard.
HarmContained == \A e \in joined \ exposed : Unharmed(e)

\* The inductive invariant behind it. A worker that lost the shard has nothing
\* in hand but what is exposed, so at most one worker has any other entry.
StallInv ==
  /\ ShardTypeOK /\ WorkerTypeOK
  /\ HandsMatchStep
  /\ EntriesJoined
  /\ \A w \in Workers : Buffered(w) \cup work[w] \subseteq joined
  /\ Exposed \subseteq exposed
  /\ HarmContained

\* Only time takes the shard from a live worker: one that was superseded, and
\* releases the lock when it notices, does not release its successor's.
LockRespected ==
  [][\A w \in Workers : lock = w /\ pc[w] # "down" /\ lock' # w =>
       pc'[w] = "down" \/ LockLapses]_stallVars
=============================================================================
