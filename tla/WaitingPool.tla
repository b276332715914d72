----------------------------- MODULE WaitingPool -----------------------------
(***************************************************************************)
(* What the matchmaking of a shard promises, without the queue, the        *)
(* processing set, the buffers, the calls and the crashes that stand       *)
(* between a request and its effect: entries wait in one pool, a match     *)
(* takes a full group out of it at once, and is decided once.              *)
(***************************************************************************)
CONSTANTS
  Entries,  \* what may wait
  Groups,   \* the sets of entries that fill a match
  MatchIds

VARIABLES
  entered, \* the entries that ever came in
  waiting, \* the pool
  state,   \* the life of each match
  team     \* its entries

vars == <<entered, waiting, state, team>>

Init ==
  /\ entered = {} /\ waiting = {}
  /\ state = [m \in MatchIds |-> "none"]
  /\ team = [m \in MatchIds |-> {}]

Enter(e) ==
  /\ e \notin entered
  /\ entered' = entered \cup {e}
  /\ waiting' = waiting \cup {e}
  /\ UNCHANGED <<state, team>>

Form(m, G) ==
  /\ state[m] = "none"
  /\ G \subseteq waiting
  /\ waiting' = waiting \ G
  /\ state' = [state EXCEPT ![m] = "forming"]
  /\ team' = [team EXCEPT ![m] = G]
  /\ UNCHANGED entered

Confirm(m) ==
  /\ state[m] = "forming"
  /\ state' = [state EXCEPT ![m] = "confirmed"]
  /\ UNCHANGED <<entered, waiting, team>>

\* Some of the players go back to wait.
Dissolve(m, back) ==
  /\ state[m] = "forming"
  /\ back \subseteq team[m]
  /\ state' = [state EXCEPT ![m] = "dissolved"]
  /\ waiting' = waiting \cup back
  /\ UNCHANGED <<entered, team>>

Next ==
  \/ \E e \in Entries : Enter(e)
  \/ \E m \in MatchIds :
       \/ Confirm(m)
       \/ \E G \in Groups : Form(m, G)
       \/ \E back \in SUBSET team[m] : Dissolve(m, back)

Spec == Init /\ [][Next]_vars
=============================================================================
