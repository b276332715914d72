-------------------------------- MODULE MCHub --------------------------------
(***************************************************************************)
(* A player who connects twice and has one match, or connects once and has *)
(* two: what a state of one kind lacks is over before the behaviour starts.*)
(* The second of the two matches is not decided: it is the one whose event *)
(* the first, decided or not, early or late, may disturb. The hub treats   *)
(* the two outcomes alike, so a forming match gets only one of them.       *)
(***************************************************************************)
EXTENDS Hub

MCTeam == [m \in MatchIds |-> Players]
MCOwner == [c \in Conns |-> CHOOSE p \in Players : TRUE]

First == CHOOSE m \in MatchIds : TRUE
Second == CHOOSE m \in MatchIds : m # First
SecondConn == CHOOSE c \in Conns : c # CHOOSE d \in Conns : TRUE

MCInit ==
  /\ announced = {} /\ fanout = {}
  /\ pending = [p \in Players |-> NoMatch] /\ stored = {}
  /\ clients = [p \in Players |-> NoConn]
  /\ register = {} /\ unregister = {}
  /\ closes = [c \in Conns |-> 0]
  /\ replays = {} /\ checks = {} /\ senders = {}
  /\ found = {}
  /\ \E one \in {"match", "connection"} :
       /\ status = [m \in MatchIds |->
            IF one = "match" /\ m = Second THEN "dissolved" ELSE "none"]
       /\ link = [c \in Conns |->
            IF one = "connection" /\ c = SecondConn THEN "gone" ELSE "none"]

MCNext ==
  /\ Next
  /\ status'[Second] \in {status[Second], "forming"}
  /\ status[First] = "forming" => status'[First] # "dissolved"

MCSpec == MCInit /\ [][MCNext]_vars /\ Fairness
=============================================================================
