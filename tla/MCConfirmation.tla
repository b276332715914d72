--------------------------- MODULE MCConfirmation ---------------------------
(***************************************************************************)
(* The confirmation of matches the worker has just formed: the entries are *)
(* those of two or more calls of Join, up to MatchSize, in their order, by *)
(* any players, up to their names. The other players may answer, too.      *)
(***************************************************************************)
EXTENDS Confirmation

MCName == CHOOSE f \in [1..Cardinality(Players) -> Players] :
            \A i, j \in DOMAIN f : i # j => f[i] # f[j]

MCInit ==
  /\ ConfirmationInit
  /\ \E size \in 2..MatchSize : \E i \in [1..size -> 1..size] :
       /\ \A t \in 1..size : i[t] <= IF t = 1 THEN 1 ELSE i[t - 1] + 1
       /\ joined = {[player |-> MCName[i[t]], at |-> t] : t \in 1..size}
  /\ entries = [m \in MatchIds |-> joined]
  /\ status = [m \in MatchIds |-> "forming"]
  /\ forming = MatchIds /\ stream = MatchIds
  /\ events = {[type |-> "forming", match |-> m] : m \in MatchIds}
  /\ accepted = [m \in MatchIds |-> {}] /\ declined = accepted
  /\ queue = {} /\ processing = {} /\ cancelled = {} /\ inqueue = {}
  /\ clock = MatchSize /\ left = {} /\ failures = 0

MCSpec ==
  MCInit /\ [][ConfirmationStep]_confirmationVars /\ ConfirmationFairness
=============================================================================
