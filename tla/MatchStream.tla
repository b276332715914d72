----------------------------- MODULE MatchStream -----------------------------
(***************************************************************************)
(* How the matches of a shard reach PostgreSQL. The commit script adds     *)
(* each match to a Redis stream. The worker that holds the shard is the    *)
(* consumer of the stream's group: it inserts a row per message and then   *)
(* acknowledges the message. The API records the outcome of a match with   *)
(* an UPDATE of its row, in a goroutine that waits for nobody.             *)
(***************************************************************************)
EXTENDS Integers, FiniteSets

CONSTANTS
  Workers,     \* MatchMaker processes of one shard
  MatchIds,    \* the matches a run may form
  ReadCount,   \* messages per XREADGROUP
  MaxFailures, \* bounds the crashes, lost replies and failed statements
  NoMatch, NoWorker

ASSUME StreamAssumption ==
  /\ ReadCount \in Nat \ {0}
  /\ MaxFailures \in Nat
  /\ NoMatch \notin MatchIds
  /\ NoWorker \notin Workers

VARIABLES
  status,    \* match:{id}:status
  stream,    \* the messages of match-stream:{band}, one per match
  delivered, \* the messages the group has handed to a consumer
  acked,     \* those it has got back an XACK for
  row,       \* the status column of each row of the table matches
  marks,     \* the goroutines about to update a row
  lock,      \* shard:lock:{band}
  consumer,  \* where each worker's consumer stands
  batch,     \* the messages it has received and not processed
  inserted,  \* the message whose row it wrote, but did not acknowledge
  failures

vars == <<status, stream, delivered, acked, row, marks, lock, consumer,
          batch, inserted, failures>>

Outcomes == {"confirmed", "dissolved"}

\* What the group still has to hand out, and what it waits to be told about.
Unread  == stream \ delivered
Pending == delivered \ acked

Written == {m \in MatchIds : row[m] # "absent"}

TypeOK ==
  /\ status \in [MatchIds -> {"none", "forming"} \cup Outcomes]
  /\ stream \subseteq MatchIds
  /\ delivered \subseteq MatchIds
  /\ acked \subseteq MatchIds
  /\ row \in [MatchIds -> {"absent", "forming"} \cup Outcomes]
  /\ marks \subseteq [match : MatchIds, outcome : Outcomes]
  /\ lock \in Workers \cup {NoWorker}
  /\ consumer \in [Workers -> {"down", "start", "claim", "serve"}]
  /\ batch \in [Workers -> SUBSET MatchIds]
  /\ inserted \in [Workers -> MatchIds \cup {NoMatch}]
  /\ failures \in 0..MaxFailures

Init ==
  /\ status = [m \in MatchIds |-> "none"]
  /\ stream = {} /\ delivered = {} /\ acked = {}
  /\ row = [m \in MatchIds |-> "absent"]
  /\ marks = {}
  /\ lock = NoWorker
  /\ consumer = [w \in Workers |-> "down"]
  /\ batch = [w \in Workers |-> {}]
  /\ inserted = [w \in Workers |-> NoMatch]
  /\ failures = 0

OneFailure == failures < MaxFailures /\ failures' = failures + 1

\* The parts of the state that go together.
api   == <<status, marks>>
group == <<delivered, acked>>
local == <<consumer, batch, inserted>>

----------------------------------------------------------------------------
(* The worker that forms the matches, and the API that decides them.       *)

\* popLoop runs beside the consumer: the commit script sets the status and
\* adds the message.
CommitMatch(w, m) ==
  /\ consumer[w] = "serve"
  /\ status[m] = "none"
  /\ status' = [status EXCEPT ![m] = "forming"]
  /\ stream' = stream \cup {m}
  /\ UNCHANGED <<group, row, marks, lock, local, failures>>

\* Mutant: the script does not look at the status.
DecideAgain(m, outcome) ==
  /\ status[m] # "none"
  /\ status' = [status EXCEPT ![m] = outcome]
  /\ marks' \in {marks, marks \cup {[match |-> m, outcome |-> outcome]}}
  /\ UNCHANGED <<stream, group, row, lock, local, failures>>

\* Confirm or Dissolve. The goroutine is not started by the reconciler, nor
\* by a process that dies after its script.
Decide(m, outcome) ==
  /\ status[m] = "forming"
  /\ status' = [status EXCEPT ![m] = outcome]
  /\ marks' \in {marks, marks \cup {[match |-> m, outcome |-> outcome]}}
  /\ UNCHANGED <<stream, group, row, lock, local, failures>>

\* The UPDATE changes the row if there is one.
RunMark(t) ==
  /\ t \in marks
  /\ marks' = marks \ {t}
  /\ row' = [row EXCEPT ![t.match] = IF @ = "absent" THEN @ ELSE t.outcome]
  /\ UNCHANGED <<status, stream, group, lock, local, failures>>

\* The UPDATE fails, which is logged, or its process dies.
LoseMark(t) ==
  /\ t \in marks
  /\ marks' = marks \ {t}
  /\ UNCHANGED <<status, stream, group, row, lock, local, failures>>

----------------------------------------------------------------------------
(* The consumers.                                                          *)

\* A worker gets the shard lock and makes sure that the group exists.
Start(w) ==
  /\ consumer[w] = "down" /\ lock = NoWorker
  /\ lock' = w
  /\ consumer' = [consumer EXCEPT ![w] = "start"]
  /\ UNCHANGED <<api, stream, group, row, batch, inserted, failures>>

\* Mutant: only messages of its own are claimed, and a new process has none.
ClaimOwn(w) ==
  /\ consumer[w] = "start"
  /\ consumer' = [consumer EXCEPT ![w] = "claim"]
  /\ UNCHANGED <<api, stream, group, row, lock, batch, inserted, failures>>

\* XAUTOCLAIM from the start, whatever the time a message has been idle:
\* every message a predecessor left, or is still busy with.
ClaimStale(w) ==
  /\ consumer[w] = "start"
  /\ consumer' = [consumer EXCEPT ![w] = "claim"]
  /\ batch' = [batch EXCEPT ![w] = Pending]
  /\ UNCHANGED <<api, stream, group, row, lock, inserted, failures>>

Processed(w) == batch[w] = {} /\ inserted[w] = NoMatch

\* The claimed messages have been tried; the loops of the worker start.
Serve(w) ==
  /\ consumer[w] = "claim" /\ Processed(w)
  /\ consumer' = [consumer EXCEPT ![w] = "serve"]
  /\ UNCHANGED <<api, stream, group, row, lock, batch, inserted, failures>>

\* XREADGROUP hands out up to ReadCount new messages.
Read(w, S) ==
  /\ consumer[w] = "serve" /\ Processed(w)
  /\ S \subseteq Unread /\ S # {} /\ Cardinality(S) <= ReadCount
  /\ delivered' = delivered \cup S
  /\ UNCHANGED <<api, stream, acked, row>>

ReadGroup(w, S) ==
  /\ Read(w, S)
  /\ batch' = [batch EXCEPT ![w] = S]
  /\ UNCHANGED <<lock, consumer, inserted, failures>>

\* ON CONFLICT DO NOTHING.
WithRow(m) == [row EXCEPT ![m] = IF @ = "absent" THEN "forming" ELSE @]

\* processStreamEntry takes the next message of the batch.
Take(w, m) ==
  /\ m \in batch[w] /\ inserted[w] = NoMatch
  /\ batch' = [batch EXCEPT ![w] = @ \ {m}]
  /\ UNCHANGED <<api, stream, delivered, lock, consumer>>

\* Mutant: ON CONFLICT DO UPDATE.
UpsertMatch(w, m) ==
  /\ Take(w, m)
  /\ row' = [row EXCEPT ![m] = "forming"]
  /\ inserted' = [inserted EXCEPT ![w] = m]
  /\ UNCHANGED <<acked, failures>>

InsertMatch(w, m) ==
  /\ Take(w, m)
  /\ row' = WithRow(m)
  /\ inserted' = [inserted EXCEPT ![w] = m]
  /\ UNCHANGED <<acked, failures>>

\* Mutant: a message that could not be written is acknowledged as well.
InsertFailsAcked(w, m) ==
  /\ Take(w, m)
  /\ row' \in {row, WithRow(m)}
  /\ acked' = acked \cup {m}
  /\ OneFailure
  /\ UNCHANGED inserted

\* The statement, or its reply, fails: the message stays pending.
InsertFails(w, m) ==
  /\ Take(w, m)
  /\ row' \in {row, WithRow(m)}
  /\ OneFailure
  /\ UNCHANGED <<acked, inserted>>

Ack(w) ==
  /\ inserted[w] # NoMatch
  /\ acked' = acked \cup {inserted[w]}
  /\ inserted' = [inserted EXCEPT ![w] = NoMatch]
  /\ UNCHANGED <<api, stream, delivered, row, lock, consumer, batch, failures>>

AckFails(w) ==
  /\ inserted[w] # NoMatch
  /\ inserted' = [inserted EXCEPT ![w] = NoMatch]
  /\ OneFailure
  /\ UNCHANGED <<api, stream, group, row, lock, consumer, batch>>

----------------------------------------------------------------------------
(* How a worker loses the shard.                                           *)

\* Run ends: the messages it holds stay pending. The lock is released if it
\* is the worker's own, unless the process died or the release failed.
GoDown(w) ==
  /\ consumer' = [consumer EXCEPT ![w] = "down"]
  /\ lock' \in {lock, IF lock = w THEN NoWorker ELSE lock}
  /\ batch' = [batch EXCEPT ![w] = {}]
  /\ inserted' = [inserted EXCEPT ![w] = NoMatch]

\* The worker crashes, or any of its loops returns an error.
Stop(w) ==
  /\ consumer[w] # "down"
  /\ GoDown(w)
  /\ OneFailure
  /\ UNCHANGED <<api, stream, group, row>>

\* XREADGROUP's reply is lost, which ends Run.
ReadReplyLost(w, S) ==
  /\ Read(w, S)
  /\ GoDown(w)
  /\ OneFailure

\* The lock was not renewed in time: the worker goes on, for now.
RenewLate ==
  /\ lock # NoWorker /\ consumer[lock] # "down"
  /\ lock' = NoWorker
  /\ OneFailure
  /\ UNCHANGED <<api, stream, group, row, local>>

\* The lock of a worker that is gone expires.
LockExpires ==
  /\ lock # NoWorker /\ consumer[lock] = "down"
  /\ lock' = NoWorker
  /\ UNCHANGED <<api, stream, group, row, local, failures>>

\* renewLockLoop finds that the lock is not the worker's, which ends Run.
LockLost(w) ==
  /\ consumer[w] # "down" /\ lock # w
  /\ GoDown(w)
  /\ UNCHANGED <<api, stream, group, row, failures>>

----------------------------------------------------------------------------

\* What a worker does when nothing fails.
Consume(w) ==
  \/ Start(w) \/ ClaimStale(w) \/ Serve(w) \/ Ack(w) \/ LockLost(w)
  \/ \E S \in SUBSET Unread : ReadGroup(w, S)
  \/ \E m \in batch[w] : InsertMatch(w, m)

Fail(w) ==
  \/ Stop(w) \/ AckFails(w)
  \/ \E S \in SUBSET Unread : ReadReplyLost(w, S)
  \/ \E m \in batch[w] : InsertFails(w, m)

Next ==
  \/ \E w \in Workers :
       Consume(w) \/ Fail(w) \/ \E m \in MatchIds : CommitMatch(w, m)
  \/ \E m \in MatchIds, outcome \in Outcomes : Decide(m, outcome)
  \/ \E t \in marks : RunMark(t) \/ LoseMark(t)
  \/ RenewLate \/ LockExpires

\* A worker that went down is started again, its loops run, and Redis expires
\* the lock nobody renews. No match has to be decided, and no goroutine of the
\* API has to finish.
Spec ==
  /\ Init /\ [][Next]_vars
  /\ \A w \in Workers : WF_vars(Consume(w))
  /\ WF_vars(LockExpires)

----------------------------------------------------------------------------
(* Properties.                                                             *)

\* A committed match is on its way or in the table: no crash, lost reply or
\* failed statement lets the group forget a message whose row is missing
\* (processStreamEntry acknowledges only after InsertMatch).
NothingDropped == stream \subseteq Unread \cup Pending \cup Written

\* The table never gets ahead of Redis: a row exists only for a match that was
\* formed, and has no outcome but the one Redis decided, however late the
\* goroutine of MarkMatchConfirmed or MarkMatchDissolved runs.
RowTruthful ==
  \A m \in Written : m \in stream /\ row[m] \in {"forming", status[m]}

\* A row that has its outcome keeps it, although two workers can process its
\* message, and InsertMatch run again after the outcome was recorded.
OutcomeKept ==
  [][\A m \in MatchIds : row[m] \in Outcomes => row'[m] = row[m]]_vars

\* A worker that lost the lock and has not noticed yet.
Superseded(w) == consumer[w] # "down" /\ lock # w

\* The next worker to run claimStaleStreamEntries will see what is pending.
BeforeClaim ==
  lock = NoWorker \/ consumer[lock] \in {"down", "start"}

\* Once nothing fails any more, a message nobody read is written, and so is
\* every message left unacknowledged before a worker's start. The two others
\* wait for that start: one whose insert failed, and one read by a worker that
\* had lost the lock already.
EveryMatchWritten ==
  \A m \in MatchIds :
    (/\ failures = MaxFailures
     /\ \/ m \in Unread /\ \A w \in Workers : ~Superseded(w)
        \/ m \in Pending /\ BeforeClaim)
    ~> (m \in Written)

\* The inductive invariant behind the first three: the stream holds exactly
\* the matches formed, the group's sets are nested, only a written message is
\* about to be acknowledged, and a goroutine carries the outcome Redis decided.
StreamInv ==
  /\ TypeOK
  /\ stream = {m \in MatchIds : status[m] # "none"}
  /\ acked \subseteq delivered /\ delivered \subseteq stream
  /\ \A w \in Workers :
       /\ batch[w] \subseteq delivered
       /\ inserted[w] # NoMatch => inserted[w] \in delivered \cap Written
  /\ \A t \in marks : status[t.match] = t.outcome
  /\ NothingDropped
  /\ RowTruthful
=============================================================================
