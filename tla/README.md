# Verification of the matchmaking service

TLA+ models of the Go services under `src/`, the TLC runs that check small
instances of them, and theorems checked by TLAPS. Paths below are relative to
`src/internal/` unless they start with `cmd/`.

## 1. The system

Players join a queue through the API. A worker process per *shard* (region,
mode, rating band) pops them, groups them by rating and forms matches. The
players accept or decline; a reconciler ends what nobody decides. A hub pushes
the outcome over WebSockets, and a stream consumer writes matches to
PostgreSQL. Nearly all shared state is in Redis, and whatever must change
together changes in one Lua script.

| component | state | operations | modelled in |
|---|---|---|---|
| queue client `queue/client.go`, `api/handler.go` join and cancel | - | `Join`, `Cancel` | `Shard` |
| shard keys and scripts `rediskeys`, `model` | queue and processing sorted sets, cancelled and inqueue sets, match record and status, forming set, accepted and declined sets, stream | the Lua scripts of `worker`, `queue`, `matchops`, `api` | `Shard` |
| worker `worker/worker.go` | shard lock, buffer of popped entries | acquire, drain, pop, filter, select, commit, repush, announce, renew, release | `MatchMaker`, `StalledWorker` |
| accept and decline handlers `api/handler.go` | - | `accept`, `decline` | `Confirmation` |
| match operations `matchops/ops.go` | goroutines it starts | `Confirm`, `Dissolve`, `allocateServer` | `Confirmation` |
| reconciler `reconciler/reconciler.go` | ticker | `processTimedOut` | `Confirmation` |
| publisher `publish/publish.go` | Redis pub/sub | `Publish` | `events` in `Shard` |
| stream consumer and store `worker/worker.go`, `store/match.go` | consumer group, `matches` table | claim stale, read, insert, ack, `MarkMatch*` | `MatchStream` |
| hub `hub/` | client map, channels and connections, stored events in Redis | `processEvent`, `fanOutDirect`, `replayPending`, register, unregister, `ServeWS`, the pumps | `Hub` |
| rating cache `cache/cache.go` | Redis strings with a TTL | `GetInt`, `Invalidate` | not modelled (section 5) |
| configuration, `cmd/`, rating stub, seeder, migrations | - | - | no behaviour of interest |

How they meet: the API, the workers and the reconciler never call one another.
They race on the keys of a shard, each with a few round trips per operation,
and between any two round trips every other process may run or the process may
die. That is the hard part:

* an entry travels queue -> processing set -> buffer -> match -> (dissolve)
  queue; a crash, a stop, a lost reply or a broken pipeline may hit any hop;
* a cancellation is a mark in a set, read before the entry is buffered, cleared
  one round trip later, and read again by the commit;
* the last acceptance, any number of declines and the timeout decide on the
  same match, in scripts of separate calls;
* no service repeats a call that died (the Redis client may repeat a single
  command, see section 2); only the reconciler and the next worker's drain
  clean up;
* a lock that expires under a live worker lets a second one in beside it;
* the hub handles each message, each replay and each frame in a goroutine of
  its own, while clients connect, replace each other, stall and leave.

What makes each part correct:

* queue and worker: one active worker per shard; what it has in memory is
  recoverable; no entry lost, none in two places; every queued entry is popped
  at last; a crashed worker's entries come back; who cancelled is not matched;
* confirmation: one outcome per match, confirmed only with an acceptance for
  each of its entries, announced as what it is; every match decided; the index of forming matches
  exact;
* persistence: every committed match reaches the table, the table never says
  what Redis did not decide, an outcome it has stays (that it always gets the
  outcome nobody promises, and the code does not do it);
* hub: a connected player hears of a forming match as long as its stored event
  is left alone; no frame is untrue; no channel is closed twice; no goroutine of a fan-out hangs.

## 2. The modules

    Shard  <- MatchMaker    <- MCMatchMaker
      ^          ^   ^------- StalledWorker <- MCStalledWorker
      |          +---- Matchmaking <- MCMatchmaking <----+
      |          |         |   ^----- Withdrawal <------ MCWithdrawal
    Confirmation-+         +- INSTANCE WaitingPool
      ^
      +- MCConfirmation

    MatchStream <- MCMatchStream       Hub <- MCHub
         ^-------- StreamProofs         ^---- HubProofs

    MatchMakerProofs  <- StalledWorkerProofs
      ^
    MatchmakingProofs <- ConfirmationProofs, BufferProofs, WithdrawalProofs

**`Shard`**: the keys of one shard as variables and each Lua script as an
operator on them, plus the two operations that are a single script, `Join` and
`Cancel`. Sorted sets are sets of entries: the score of an entry is its field
`at`. A record `match:{id}` is reduced to its entries; its status field is
always written with the status key and never read, so `status` stands for both.
`joined` and `left` are history variables. `stream` is the set of matches added
to the stream.

**`MatchMaker`**: the worker processes. `pc[w]` says which round trip `Run` and
`popOnce` make next:

| `pc` | code | actions |
|---|---|---|
| `down` | not running, or waiting in `acquireShardLock` | `AcquireShardLock` |
| `start` | `drainProcessing` | `DrainProcessing` |
| `pop` | `popBatch` | `PopBatch`, `PopReplyLost` |
| `check` | `SMIsMember` and the loop that skips and appends | `CheckCancelled`, `CheckFails` |
| `uncancel` | `SRem` of the skipped players | `Uncancel`, `UncancelFails` |
| `form` | `selectGroup` and the commit script | `NoGroup`, `CommitMatch`, `RejectGroup` |
| `announce` | the publish of `commitMatch` | `AnnounceMatch` |
| `repush`, `unprocess` | the ZADDs and the ZREM of `repushGroup` | `RepushToQueue`, `RemoveRepushed`, `RepushFails` |

The buffer is a function from entries to their index in the slice, so that the
order `selectGroup` sees is the code's: the head is the anchor, the group is
the first compatible entries behind it, and what stays keeps its order. The
rating window depends on how long the anchor has waited; it is any member of
`Windows`. `selectGroup` works on memory only and belongs to the step of the
commit it precedes. `Crash` leaves the lock to expire (`LockExpires`), `Stop`
is an error or a signal and runs the deferred release. An error of the commit
is a `CommitMatch` or nothing, followed by `Stop`. The module states what the
later proofs share: `HandsMatchStep`, what a worker has in hand at which step.

**`Confirmation`**: `calls` holds the calls of `matchops.Confirm` and
`matchops.Dissolve` whose script has not run, `decided` those whose script
made the transition and which have not announced it. `Accept` and `Decline`
are the handlers up to that call. Neither asks whether the player is in the
match, so any player may answer for any match: `accept` counts the answer
(`api/handler.go:208`), `decline` dissolves the match and, if the decliner has
no entry in it, requeues all. The record they read first never changes its
players, so reading it is part of the step of the script. `CallDies` ends an
API call anywhere; `ReconcilerFails` ends calls of the reconciler.

**`Matchmaking`** interleaves all of them and states the inductive invariant
`IInv` and the refinement of **`WaitingPool`**, the abstract promise: entries
wait in one pool, a match takes a full group out of it at once, and is decided
once. The mapping is `waiting <- queue \cup processing`, `state <- status`,
`team <- entries`, `entered <- joined`.

**`Withdrawal`** adds to the shard what the players last asked for, to state
that nobody who cancelled is put in a match. `Sole(e)` is the only entry of its
player. `Discarded(e)` is an entry a worker skipped: it stays in the processing
set, and nobody takes it out before the next drain. `WithdrawnInv` relates the
two: unless it is discarded, the mark of the cancellation is still set.

**`MatchStream`** is the way of the matches into PostgreSQL, on its own: of the
shard it needs the status key and the stream only. `Unread`, `Pending` and
`acked` are the three parts of a stream that a Redis consumer group keeps.
`consumer[w]` is where worker `w` stands: `start` (has the lock, the group
exists), `claim` (processes what `claimStaleStreamEntries` claimed), `serve`
(`popLoop` and `streamConsumerLoop`). `processStreamEntry` is two steps,
`InsertMatch` and `Ack`, each of which may fail; the messages it received and
has not processed are in `batch`. `RenewLate` takes the lock from a worker that
is alive, which goes on until `LockLost`: two consumers may run. `marks` are the
goroutines of `Confirm` and `Dissolve` about to update a row; the reconciler has
no store and starts none.

**`StalledWorker`** is `MatchMaker` with a lock that expires under its holder
(`LockLapses`: `renewLockLoop` was late, or has not started because the start-up
took longer than the TTL) and the renewal that ends the old holder when it
notices (`LockLost`). Between the two, two workers run. `exposed` collects the
entries within reach of the one that lost the shard: what it has in memory, and
what its next script would take. `Unharmed(e)` says of one entry what `IInv`
says of all, and `HarmContained` says it of every entry that is not exposed.

**`Hub`** is the WebSocket hub on its own. Of the other services it needs the
status key and what they publish. `announced` are the messages on their way to,
or in, a `processEvent` goroutine; `fanout` and `register`, `unregister` are the
channels into `Run`, taken in any order; `senders` are the goroutines with a
frame for a client, those of `fanOutDirect` and those of `replayPending`.

| code | actions |
|---|---|
| `processEvent` | `ProcessEvent`: the pipeline, of which any part may fail, then the fan-out |
| `Run` | `Register`, `Unregister`, `FanOutDirect` |
| `replayPending` | `ReadPending`, `CheckStatus` and the send; `ReplayFails` is an error of either read |
| `ServeWS` | `ServeWS`, which hands the client to `Run` |
| `readPump` | `ReadPumpEnds`, after `Disconnect` or a close |
| `writePump` | `Deliver`, `WritePumpEnds` |
| the goroutine of a frame | `Deliver`, `SendPanics` (the channel was closed; it recovers), `SlowClient` (`sendTimeout`) |
| a new process | `Restart` |

`Expire` is the TTL of a stored event; like the decision of the match it may
come at any time. `Form` puts a player in any number of matches: a player may
join twice, and one hub serves all shards, with one key per player.

`closes[c]` counts how often the channel of `c` was closed: twice would be a
panic in `Run`, which nothing recovers. `stored` and `found` are history
variables: who was sent the event of which match, and for whom it was stored and
since then touched by nothing but its own match - it has not run out, no other
match of the player has overwritten or deleted it (`Untouched`), and no replay
has failed.

### What the environment may do

Players join and cancel at any time, also twice, and answer for any match. Two
joins of a shard have different times (the code uses
milliseconds). Match identifiers are never reused. The 10-minute TTL of the
match keys, the 24-hour TTL of the cancelled set and the trimming of the stream
do not happen. Outside `MatchStream` and `StalledWorker` a live worker renews its lock in time; only a
dead one's lock expires. The calls of one reconciler tick may run in any order (the code runs
them one after the other, in the order of formation): a superset of the code's
behaviours. In `Hub` messages are lost, delayed and reordered at will (Redis
orders them per channel, the goroutines do not).

A script runs once per call. In the code the Redis client repeats a command
whose reply it has lost (go-redis, `MaxRetries` 3 by default). For most of them
the models have that as a lost reply: a pop repeated is `PopReplyLost` and then
`PopBatch`, an accept, decline, confirm or dissolve repeated gets the answer of a
second call and is `CallDies` after the script, a read of the stream repeated is
`ReadReplyLost` and then `Read`, a cancellation repeated is a second `Cancel`, and
the drain and the pipelines of the worker change nothing the second time. Two are
not covered: a join repeated enqueues an entry which may have been popped in
between, and a commit repeated makes a match forming again which may have been
decided in between. `EntryExclusive`, `OutcomeFinal` and what rests on them hold
as long as that does not happen.

### Bounds

`MaxJoins` bounds the calls of `Join`, `MatchIds` the matches formed and
`MaxFailures` the crashes, stops and lost or failed replies. API calls may die
without counting. When the matches are used up the worker stays at `form` with
a group it cannot commit; the runs about progress have joins to spare in other
shapes, and every run allows the final idle state (`CHECK_DEADLOCK FALSE`:
when every player has joined and nobody acts, the real system idles too).

## 3. What the runs check

| run | instance | properties |
|---|---|---|
| `workers` | 2 players who fit only after waiting, 3 joins, 2 workers, 1 match, 1 failure | `OneActiveWorker`, `MemoryBacked`, `NoOvertaking`, `QueuedIsPopped`, `CrashRecovery` |
| `stalled_worker` | 2 players, 2 joins, 2 workers, 2 matches, 4 failures, lapsed locks among them | `HarmContained`, `StallInv`, `LockRespected` |
| `confirmation` | 3 players, a match of 2 or 3 entries of any owners, 1 failure | `OutcomeInv`, `ConfirmedByEnough`, `AnnouncedTruthfully`, `EveryMatchDecided` |
| `shard_rounds` | everything, 2 players, 2 joins, 1 worker, 2 matches, 1 failure | `TypeOK`, `EntryExclusive`, `FormingIndexed`, `OutcomeFinal`, `ImplementsPool`, `NoGhostOfOneEntry`, `WithdrawnInv` |
| `shard_failures` | everything, 2 players, 3 joins, 1 match, 2 workers, 2 failures | `IInv`, `NoEntryLost` |
| `match_stream` | 2 matches, 2 workers, batches of 2, 2 failures | `StreamInv`, `NothingDropped`, `RowTruthful`, `OutcomeKept`, `EveryMatchWritten` |
| `hub` | 1 player with 2 connections and 1 match, or 1 connection and 2 matches, any number of restarts, expiries and failed replays | `HubInv`, `ClosedOnce`, `FramesTruthful`, `FoundReachesPlayer`, `FanOutEnds` |

* Two players are enough for a match, for a conflict at commit and for a
  dissolve that puts one entry back; three joins, where a run has them, give a player two entries, and
  a batch (`PopBatchSize = 2`) that does not empty the queue. Two matches let
  entries of a dissolved match play again. Two workers are a holder and a
  standby. One failure already strikes between any two round trips, and the
  second, in `shard_failures`, may strike the recovery from it; the proofs cover any number.
* In `match_stream` two matches are a batch with a rest, or one message written
  while the other is read; the lost lock and the worker's stop are two failures.
* In `confirmation` a third player has no part in a match of two entries, or in
  one where a player has two, and answers all the same. The owners are taken up
  to the names of the players (`MCInit`).
* In `hub` two connections replace each other in both orders, and either may be
  dead, slow or late when the other one registers. Clients of different players
  share no state but the messages. Two matches overwrite and delete each other's
  event. Two connections *and* two matches are too many for TLC with liveness,
  so `MCInit` has either; and of the two matches the second stays forming, since
  `FoundReachesPlayer` asks nothing of a match once it is decided (`MCNext`), and a
  forming match is only ever confirmed, since the hub treats both outcomes alike.
  The safety part, `HubInv`, is proved without such bounds.
* In `stalled_worker` the four failures may be lapses of one lock after the
  other, or lapses with crashes and broken pipelines between them. Two entries
  are enough for two workers to hold one each, or to compete for both; more of
  them are left to the proof of `StallInv`, which bounds nothing. Behaviours in which a worker pops an entry that
  is in its slice already are not followed (`PoppedOnce`): the buffer of the
  model has no duplicates. Such an entry is within reach of a superseded worker.
* Symmetry: players of equal rating, matches and workers are interchangeable in
  the definitions; the runs of liveness use no symmetry.
* Views: `MCView` leaves out the inqueue set, `stream` and `events` and, in the
  whole shard, `tasks`, the announcements of API calls and the answers to
  decided matches. Nothing in the guards reads them, and the properties of those
  runs do not speak of them beyond their type. `OutcomeInv`, `ConfirmedByEnough` and
  `AnnouncedTruthfully`, which do, are checked by a run without a view.

`NoOvertaking` is what `worker.go:471` says of the buffer ("the buffer order is
otherwise preserved"), over all steps: two entries in a buffer never change
places, a batch goes behind what is there, and an entry leaves before one ahead
of it only when the window of the anchor has room for it and not for the other.
It is about entries in one buffer. That the head is the *oldest* entry is
another claim, and a wrong one (`oldest_anchor` below).

`HarmContained` is the honest form of the invariants of `IInv` once two workers
run: they hold for every entry out of the old worker's reach. Within it they do
not. The old worker's late drain puts entries back that its successor has
popped, and they may play twice; its pop moves entries back to the processing
set that the successor is repushing, whose ZREM then removes them, and they are
lost. `LockRespected` is the other half: the release of a worker that lost the
shard compares the owner (`worker.go:43`), so it does not let in a third.

`ConfirmedByEnough` is what a confirmation tells: as many players accepted as the
match has entries, and if they are all of the match, each of them did and none
has two entries in it. That the acceptances are those of its players the code
does not check, so it is a premise of the second part and not a promise.

`FoundReachesPlayer` is about a wake-up that must not be lost: `processEvent`
stores the event before the fan-out, `Run` puts the client in the map before the
replay reads, so one of the two finds the player. It speaks of a player, not of
a connection: one that is replaced while its frame waits loses the frame, and
the replay to its successor makes up for it. It ends where the stored event does:
after `pendingEventTTL` (35 seconds, while the reconciler dissolves after 30, a
tick of 5 and its own delays), when another match of the player writes or deletes
the one key there is, and when a replay gets an error. A player who connects
after that hears nothing of a forming match; `hub_rematch` shows one such case
that a comment excludes. The outcomes are not stored, and a
frame of an outcome to a connection that is replaced or broken is lost.
`FanOutEnds` covers also the client that `Run` puts in the map after it left and
after its unregistration was ignored (`hub.go:83`): it stays there, and each
frame for it ends with the timeout. A replay has no timeout (`hub.go:212`) and
may hang for such a client until the process ends.

`EveryMatchWritten` says how far the retries of `streamConsumerLoop` go. Once
failures end, a message nobody read is written, and so is one left pending
before a start. Not covered, because the code gives no such guarantee: a message
whose insert failed (`worker.go:306`), and one that a worker read after it had
lost the lock (`worker.go:288`), both wait for the next start of a worker.
`RowTruthful` lets a row lag: the update of the outcome can come before the
insert (`store/match.go:20`), die, or never be started (`reconciler.go:58`).

`NoGhostOfOneEntry` is the counterpart of the first two runs of the next table:
without a failure, a player who has joined once is kept out by the two checks of
the cancelled set, whatever the others do.

Runs that TLC must refute, because a comment or a test of the repository
promises what the code does not do:

| run | what is promised | what happens |
|---|---|---|
| `ghost_double_join` | a cancelled player is discarded before buffering (`queue/client.go:89`) | with two entries, discarding the first clears the mark the second needs, and the second is matched |
| `ghost_restart` | a cancelled player is skipped, no ghost match (`worker/worker_test.go:102`) | the skipped entry stays in the processing set; the next worker's drain brings it back without its mark |
| `second_decliner` | a dissolve re-queues all players but the one who declined (`matchops/ops.go:103`) | a second decliner, recorded before the script runs, is re-queued |
| `oldest_anchor` | the anchor is the oldest-waiting player (`worker/worker.go:466`) | it is the head of the buffer, which may be younger than entries re-queued and popped later |
| `hub_rematch` | the event of a match waits for whoever has not received it, and is replayed while the match is forming (`rediskeys/keys.go:66`, `hub/hub.go:195`) | a match is decided, the player's next one forms and its event is stored, then the outcome of the first is handled and deletes that event (`hub.go:133`, or `150`). `FormingEventWaits` allows for the TTL, a failed replay and a newer event in its place |

Two more promises of the source need no run to refute, since `joinScript`
(`queue/client.go:36-40`) reads neither set: that it "checks for double-join and
pending cancellation" (`queue/client.go:27`, `queue/client_test.go:65`), and
that `inqueue` "prevents double-join" (`rediskeys/keys.go:59`). `Join` is
modelled as it is, and the runs let players join twice.

### Fairness

* `WF(Consume(w))`: a worker that went down is started again (by whoever runs
  the processes), and its loops run.
  The goroutines of the API are not fair, and no match has to be decided.
* `WF(Run(w))` for every worker: `popLoop` runs until its process ends, a
  standby retries the lock twice a second. Failures are not fair: nothing has
  to fail. `WF(LockExpires)`: Redis expires keys.
* `WF(Reconcile)`: the reconciler ticks every five seconds and works through
  what it found. `WF(GrowOverdue(m))`: time passes. Nobody has to accept or to
  decline, and API calls may die, so `EveryMatchDecided` rests on the
  reconciler alone.
* In `Hub`: `WF(Run)`, the loop that owns the map, `WF(Replay)`, and for each
  client `WF(Pump(c))`: its pumps run, an open connection takes the frames, and
  a sender whose client is gone or whose channel was closed ends. Nobody has to
  connect, stay or be matched, and no message has to arrive. A frame to an open
  connection is written, or the connection breaks (`Disconnect`, `SlowClient`).

## 4. What is proved

`MatchmakingProofs` proves, for any finite set of players, any set of workers
and match identifiers, any match size, windows and ratings, any number of joins
and failures (the assumptions `ShardAssumption`, `MatchMakerAssumption`,
`ConfirmationAssumption`):

| theorem | statement |
|---|---|
| `Invariance` | `Spec => []IInv` |
| `TypeCorrect`, `SingleWorker`, `Recoverable`, `Exclusive`, `NothingLost`, `IndexExact` | the conjuncts `TypeOK`, `OneActiveWorker`, `MemoryBacked`, `EntryExclusive`, `NoEntryLost`, `FormingIndexed` (all of them with workers whose lock does not run out while they live) |
| `Refinement` | `Spec => ImplementsPool` |
| `FinalOutcome` | `Spec => OutcomeFinal` |

Why `IInv` is more than the properties. That a commit takes its group out of
the pool and puts it nowhere else needs the group to be in the processing set
and *not* in the queue: the first is `MemoryBacked`, the second
`BufferExclusive`. `MemoryBacked` survives the drain only because the worker
that drains has nothing in memory yet and no other worker runs
(`HandsMatchStep`, `OneActiveWorker`). A new entry is in no match because its
time is later than all the others (`EntriesJoined`). A dissolve may put entries
back because the match it takes them from is live, so they are nowhere else
(`EntryExclusive`), and the script checks that it still is.

The proof has one lemma per group of actions. `CoreFrame` covers those that
move no entry, `MemoryCore` those of a worker that only change its own memory,
and `JoinCore`, `PopCore`, `FilterCore`, `CommitCore`, `RepushCore`,
`RemoveRepushedCore`, `DrainCore`, `ForgetCore`, `LockCore`, `DissolveCore` and
`ConfirmCore` the rest. `Refinement` uses the invariant twice: a commit is
`Form` because its group waits, and a step that moves entries between queue and
processing set changes nothing because what a worker holds is backed.
`FinalOutcome` follows from the refinement.

`StreamProofs` proves for any set of workers and matches, any batch size and any
number of failures (`StreamAssumption`): `StreamInvariance`
(`Spec => []StreamInv`), `NothingIsDropped`, `TruthfulRows` and `OutcomesStay`
(`NothingDropped`, `RowTruthful`, `OutcomeKept`). The invariant adds what the
properties need: only a message whose row is written is about to be
acknowledged, what is acknowledged was delivered, and a goroutine carries the
outcome Redis has for its match. One lemma covers the steps that leave the rows
alone (`GroupPart`), three the others (`FormingPart`, `MarkPart`, `TakePart`).

`ConfirmationProofs` proves `OutcomeInvariance` (`Spec => []OutcomeInv`),
`ConfirmedOnCount` (`ConfirmedByEnough`) and `TruthfulAnnouncements`
(`AnnouncedTruthfully`) of the whole shard, so with the workers and clients
running beside the answers, and whoever answers. `OutcomeInv` is inductive
relative to `IInv`: acceptances are never taken back, so a count that was enough
for the call stays enough for its script (`EnoughStays`). `EnoughMeansAll` is the
counting argument of the second part: if the acceptances are within the players
of the match, who are at most as many as its entries, there are enough only if
they are all of them and no player has two entries. `MatchStep` takes from the
refinement that a formed match keeps its entries and a decided one its outcome;
`OutcomeStep` reduces every action but `Accept` to what it adds.

`HubProofs` proves `HubInvariance` (`Spec => []HubInv`) for any number of
players, matches and connections, and from it `ClosedAtMostOnce` and
`TruthfulFrames`. The invariant adds that a client in the map, or on its way to
it, has its channel open, and is on its way no more once it is in; that
whatever is announced, stored or about to be replayed of a match is for its
players and, if it tells an outcome, true; and (`EventKept`) that the event of a
forming match is there for the replay unless something other than its own match
has touched it: its outcome is not handled before it is decided, nor does a
replay find it decided. That is the safety half of `FoundReachesPlayer`.

`MatchMakerProofs` has what every system with these workers needs: that ranks
are numbers, that the operators of the buffer return buffers, the types
(`MakerTypeOK`), and what the workers leave alone.

`BufferProofs` is about `selectGroup` and the slice. Its lemmas say what the
operators of `MatchMaker` compute for a slice of any length: a rank is an index
(`RankBound`), follows the keys (`RankMonotone`) and covers the indices without
a gap (`RanksCover`); `Remaining` and `AppendBatch` return slices in the order of
the old one (`RemainingSlice`, `AppendSlice`); there is one anchor (`OneAnchor`);
and the group has `n` entries if enough fit the anchor (`GroupSize`). The theorem
`GroupFound` is the code's test `len(group) < n`. `BufferSteps` shows that a step
of the shard forgets a buffer, appends to it or takes a group out of it, and
nothing else, from which `NobodyOvertaken` (`Spec => NoOvertaking`) follows. The
lemma `BufferInvariance` it rests on says only that the functions which stand for
slices do so; of the code it says nothing. The batch is not in the buffer
already (`BufferExclusive`), and no two entries carry the same time, else they
would get the same index.

`StalledWorkerProofs` proves `StallInvariance` (`StallSpec => []StallInv`),
`ContainedHarm` and `RespectedLock`, for any number of lapses. `OneActiveWorker`
is false here, and with it most of the argument for `IInv`. What replaces it is
`OneHand`: a superseded worker has nothing in hand, and takes nothing with its
next script, but what is exposed (`Exposed \subseteq exposed`), so an entry that
is not exposed is in the hand of the holder of the lock alone. Each step is
then looked at from one such entry (`PopKept`, `FilterKept`, `CommitKept`,
`RepushKept` and the others). The drain keeps it because whoever drains is the
holder, with nothing in memory yet, or everything he drains is exposed.

`WithdrawalProofs` proves `NoGhostWithoutFailure` (`NoGhostOfOneEntry`) from
`WithdrawnInvariance`. The history variable changes nothing,
by the shape of the definitions (the lemma `WithdrawalIsShard`), so `IInv` holds. `Uncancel` is the only step that clears
a mark, and only of players whose entry it has in hand, skipped: the only entry
of such a player is discarded by that step (`UncancelDiscards`). A discarded
entry stays so until a drain, and a drain needs a worker to go down, which is a
failure (`DiscardedInWorker`, `DiscardedInConfirmation`). A commit takes no
discarded entry, and refuses a marked one (`FormedByCommit`).

No theorem assumes more of the constants than the named assumptions of the
modules.

Only model-checked are the liveness properties `QueuedIsPopped`,
`CrashRecovery`, `EveryMatchDecided`, `EveryMatchWritten`,
`FoundReachesPlayer` and `FanOutEnds`: liveness under fairness is beyond this
prover.

## 5. What is not modelled, and the plan

The runs are kept to a dozen that together take some minutes, so that they are
run at every change; new properties share them. Every safety invariant and
action property of the passing runs is proved. What would come next:

1. The stream as an implementation of an abstract log, in which a match goes
   from committed to written once, as the shard implements the pool.
2. `EntryExclusive` with an entry twice in the slice of a stalled worker: the
   buffer as a sequence, and a larger instance.

Not modelled:

* The growth of the rating window (`worker.go:478`): the window is any member of
  `Windows`, so a pair that fits only later may be passed over any number of
  times, as in the code, where an empty queue ends `popOnce` before the loop
  that forms matches. Nothing promises that a waiting pair is matched.
* The TTLs of the match keys and of the cancelled set.
* The repetition of a join or a commit by the Redis client (section 2).
* The match.server_ready frame of the hub: an outcome that touches no key.
* The rating cache: nothing writes a rating after the seeding, and `Invalidate`
  has no caller, so there is nothing a cached value could disagree with.
* A worker that has one entry twice in its slice (see `PoppedOnce`).

Left out for good: configuration, HTTP decoding, logging, the rating stub, the
seeder, the migrations, and the trimming of the stream (`MAXLEN ~ 1000`,
`worker.go:117`): with PostgreSQL away for that many matches, messages are
dropped before they are written. The migration's table `matches`
(`store/migrations/20260604062746_init.up.sql:4`) lacks the columns and status
values `store/match.go` writes; `MatchStream` has the table the statements name.
