------------------------------- MODULE Shard -------------------------------
(***************************************************************************)
(* The Redis keys of one shard (region, mode, rating band), and the Lua    *)
(* scripts that are the only way to change several of them atomically.     *)
(* Every service of the system works on this state: the API joins,         *)
(* cancels, accepts and declines, the worker pops and commits, the         *)
(* reconciler dissolves.                                                   *)
(*                                                                         *)
(* A script is an action that gives the next value of the keys it writes.  *)
(* The handler that runs it says what happens to every other variable.     *)
(***************************************************************************)
EXTENDS Integers, FiniteSets

CONSTANTS
  Players,    \* the players of the shard
  MatchIds,   \* the match identifiers a run may use (bounds the matches formed)
  MatchSize,  \* players per match
  MaxJoins,   \* bounds the accepted calls of Join
  MaxFailures \* bounds the crashes, stops and lost replies

ASSUME ShardAssumption ==
  /\ IsFiniteSet(Players)
  /\ MatchSize \in Nat \ {0}
  /\ MaxJoins \in Nat
  /\ MaxFailures \in Nat

(***************************************************************************)
(* A QueueEntry: who waits, and since when. "at" is EnqueuedAt, the score  *)
(* of the entry in the sorted sets; two entries never share one here.      *)
(***************************************************************************)
Entry == [player : Players, at : 1..MaxJoins]

Status == {"none", "forming", "confirmed", "dissolved"}

Event == [type  : {"forming", "confirmed", "dissolved", "server_ready"},
          match : MatchIds]

VARIABLES
  queue,       \* q:{band}: the entries that wait to be popped
  processing,  \* processing:{band}: the entries popped and not committed
  cancelled,   \* cancelled: the players with a recorded cancellation
  inqueue,     \* inqueue: the players marked as waiting (nothing reads it)
  status,      \* match:{id}:status
  entries,     \* the Entries of the record match:{id}
  forming,     \* forming:{band}: the matches that await confirmation
  accepted,    \* match:{id}:accepted
  declined,    \* match:{id}:declined
  stream,      \* match-stream:{band}: the matches added for PostgreSQL
  events,      \* the pub/sub messages published so far
  clock,       \* the time of the last Join
  joined,      \* history: every entry Join has enqueued
  left,        \* history: the entries a dissolve did not put back
  failures     \* the failures that happened so far

queueKeys  == <<queue, processing>>
playerKeys == <<cancelled, inqueue>>
matchKeys  == <<status, entries, forming, stream>>
answerKeys == <<accepted, declined>>
history    == <<clock, joined, left>>
\* All of them but the counter of failures.
shardVars  == <<queueKeys, playerKeys, matchKeys, answerKeys, events, history>>

ShardTypeOK ==
  /\ queue \subseteq Entry
  /\ processing \subseteq Entry
  /\ cancelled \subseteq Players
  /\ inqueue \subseteq Players
  /\ status \in [MatchIds -> Status]
  /\ entries \in [MatchIds -> SUBSET Entry]
  /\ forming \subseteq MatchIds
  /\ accepted \in [MatchIds -> SUBSET Players]
  /\ declined \in [MatchIds -> SUBSET Players]
  /\ stream \subseteq MatchIds
  /\ events \subseteq Event
  /\ clock \in 0..MaxJoins
  /\ joined \subseteq Entry
  /\ left \subseteq Entry
  /\ failures \in 0..MaxFailures

ShardInit ==
  /\ queue = {} /\ processing = {}
  /\ cancelled = {} /\ inqueue = {}
  /\ status = [m \in MatchIds |-> "none"]
  /\ entries = [m \in MatchIds |-> {}]
  /\ forming = {} /\ stream = {}
  /\ accepted = [m \in MatchIds |-> {}]
  /\ declined = [m \in MatchIds |-> {}]
  /\ events = {}
  /\ clock = 0 /\ joined = {} /\ left = {} /\ failures = 0

\* A process, a connection or a reply is lost.
OneFailure == failures < MaxFailures /\ failures' = failures + 1

PlayersOf(S) == {e.player : e \in S}

\* The matches whose players are taken: not dissolved.
Live == {m \in MatchIds : status[m] \in {"forming", "confirmed"}}

\* The entries the scripts may still hand to a worker.
Waiting == queue \cup processing

----------------------------------------------------------------------------
(* The scripts.                                                            *)

JoinScript(e) ==
  /\ inqueue' = inqueue \cup {e.player}
  /\ queue' = queue \cup {e}

CancelScript(p) ==
  /\ cancelled' = cancelled \cup {p}
  /\ inqueue' = inqueue \ {p}

PopToProcessingScript(S) ==
  /\ queue' = queue \ S
  /\ processing' = processing \cup S

\* Mutant: the processing set is renamed to the queue.
DrainByRename ==
  /\ queue' = IF processing = {} THEN queue ELSE processing
  /\ processing' = {}

DrainProcessingScript ==
  /\ queue' = queue \cup processing
  /\ processing' = {}

\* Mutant: the script gives up only when all the players have cancelled.
ConflictOfAll(G) == PlayersOf(G) \subseteq cancelled

\* The script returns 0 and writes nothing when CommitConflict holds.
CommitConflict(G) == PlayersOf(G) \cap cancelled # {}

CommitMatchScript(m, G) ==
  /\ entries' = [entries EXCEPT ![m] = G]
  /\ status' = [status EXCEPT ![m] = "forming"]
  /\ forming' = forming \cup {m}
  /\ processing' = processing \ G
  /\ inqueue' = inqueue \ PlayersOf(G)
  /\ stream' = stream \cup {m}

\* The entries of m that its dissolution puts back in the queue.
Requeued(m, decliner) ==
  {e \in entries[m] : e.player # decliner /\ e.player \notin cancelled}

\* Mutant: the status is not checked.
DissolveAgain(m, decliner) ==
  /\ status' = [status EXCEPT ![m] = "dissolved"]
  /\ forming' = forming \ {m}
  /\ queue' = queue \cup Requeued(m, decliner)
  /\ inqueue' = inqueue \ {decliner}

\* Mutant: the decliner is marked, even when there is none.
DissolveMarksDecliner(m, decliner) ==
  /\ status[m] = "forming"
  /\ status' = [status EXCEPT ![m] = "dissolved"]
  /\ forming' = forming \ {m}
  /\ queue' = queue \cup Requeued(m, decliner)
  /\ inqueue' = inqueue \cup {decliner}

\* Both outcomes return 0 and write nothing unless the match is forming.
DissolveScript(m, decliner) ==
  /\ status[m] = "forming"
  /\ status' = [status EXCEPT ![m] = "dissolved"]
  /\ forming' = forming \ {m}
  /\ queue' = queue \cup Requeued(m, decliner)
  /\ inqueue' = inqueue \ {decliner}

\* Mutant: the status is not checked.
ConfirmAgain(m) ==
  /\ status' = [status EXCEPT ![m] = "confirmed"]
  /\ forming' = forming \ {m}
  /\ inqueue' = inqueue \ PlayersOf(entries[m])

\* Mutant: the match stays in the forming set.
ConfirmKeepsIndex(m) ==
  /\ status[m] = "forming"
  /\ status' = [status EXCEPT ![m] = "confirmed"]
  /\ inqueue' = inqueue \ PlayersOf(entries[m])
  /\ UNCHANGED forming

ConfirmScript(m) ==
  /\ status[m] = "forming"
  /\ status' = [status EXCEPT ![m] = "confirmed"]
  /\ forming' = forming \ {m}
  /\ inqueue' = inqueue \ PlayersOf(entries[m])

----------------------------------------------------------------------------
(* The queue client: POST /queue/join and POST /queue/cancel.              *)

\* Enqueues a new entry, stamped with the time of the call. The script
\* checks neither a pending cancellation nor an earlier entry.
Join(p) ==
  /\ clock < MaxJoins
  /\ clock' = clock + 1
  /\ LET e == [player |-> p, at |-> clock + 1]
     IN  /\ JoinScript(e)
         /\ joined' = joined \cup {e}
  /\ UNCHANGED <<processing, cancelled, matchKeys, answerKeys, events, left,
                 failures>>

\* Records the cancellation; the entry stays in the queue until it is popped.
Cancel(p) ==
  /\ CancelScript(p)
  /\ UNCHANGED <<queueKeys, matchKeys, answerKeys, events, history, failures>>

QueueClient == \E p \in Players : Join(p) \/ Cancel(p)

----------------------------------------------------------------------------
(* Properties of the shared state.                                         *)

\* An entry is in one place: the players of a match that is not dissolved
\* are neither in the queue, nor in the processing set, nor in another such
\* match. (Commit moves them out of the processing set atomically, and a
\* dissolve is the only way back.)
EntryExclusive ==
  /\ \A m \in Live : entries[m] \cap Waiting = {}
  /\ \A m, n \in Live : m # n => entries[m] \cap entries[n] = {}

\* No crash, stop, broken pipeline or race loses an entry, as long as a worker
\* that lives keeps its lock: what Join enqueued is in the queue, in the processing set, in a match that is not dissolved,
\* or was kept out by a dissolve because its player declined or cancelled.
NoEntryLost ==
  joined \subseteq Waiting \cup left \cup UNION {entries[m] : m \in Live}

\* Join stamps later than anything the shard knows.
EntriesJoined ==
  /\ Waiting \subseteq joined
  /\ \A m \in MatchIds : entries[m] \subseteq joined
  /\ \A e \in joined : e.at <= clock

\* The reconciler can find every forming match, and nothing else: the sorted
\* set and the status keys agree although several services write them.
FormingIndexed == forming = {m \in MatchIds : status[m] = "forming"}

\* The outcome of a match is final: accepts, declines and the reconciler's
\* timeout race, and whoever comes second changes nothing.
OutcomeFinal ==
  [][\A m \in MatchIds : status[m] \in {"confirmed", "dissolved"} =>
       /\ status'[m] = status[m]
       /\ entries'[m] = entries[m]]_shardVars
=============================================================================
