----------------------------- MODULE Matchmaking -----------------------------
(***************************************************************************)
(* The matchmaking of one shard: the queue clients, the workers, the API   *)
(* handlers that collect the answers and the reconciler, each process      *)
(* taking its steps between the steps of all the others.                   *)
(***************************************************************************)
EXTENDS MatchMaker, Confirmation

vars == <<shardVars, failures, workerVars, callVars>>

Init == ShardInit /\ WorkerInit /\ ConfirmationInit

Next ==
  \/ QueueClient /\ UNCHANGED <<workerVars, callVars>>
  \/ WorkerNext /\ UNCHANGED callVars
  \/ ConfirmationNext /\ UNCHANGED workerVars

Spec == Init /\ [][Next]_vars

TypeOK == ShardTypeOK /\ WorkerTypeOK /\ ConfirmationTypeOK

----------------------------------------------------------------------------
(* The inductive invariant of the entries' way through the shard.          *)

\* What is in the buffer is in no other hand: not in the queue, and not in the
\* round trip in progress. A batch just popped, or skipped, is out of the queue.
BufferExclusive ==
  \A w \in Workers :
    /\ Buffered(w) \cap (queue \cup work[w]) = {}
    /\ pc[w] \in {"check", "uncancel"} => work[w] \cap queue = {}

IInv ==
  /\ TypeOK
  /\ OneActiveWorker
  /\ HandsMatchStep
  /\ MemoryBacked
  /\ BufferExclusive
  /\ EntriesJoined
  /\ EntryExclusive
  /\ NoEntryLost
  /\ FormingIndexed

----------------------------------------------------------------------------
(* What it implements.                                                     *)

Pool == INSTANCE WaitingPool WITH
          Entries <- Entry,
          Groups <- {G \in SUBSET Entry : Cardinality(G) = MatchSize},
          entered <- joined, waiting <- Waiting,
          state <- status, team <- entries

\* Whatever the interleaving, every step of the system is one step of the
\* abstract pool or none: pops, repushes, drains and crashes move entries
\* between keys and processes but never out of the pool, a commit takes its
\* whole group, a match is decided once.
ImplementsPool == Pool!Spec
=============================================================================
