---------------------------- MODULE StreamProofs ----------------------------
(***************************************************************************)
(* The invariants of the match stream hold for any number of workers,      *)
(* matches and failures.                                                   *)
(***************************************************************************)
EXTENDS MatchStream, TLAPS

\* The parts of the invariant besides the types, named for the proofs.
Nested ==
  /\ stream = {m \in MatchIds : status[m] # "none"}
  /\ acked \subseteq delivered /\ delivered \subseteq stream
  /\ \A w \in Workers :
       /\ batch[w] \subseteq delivered
       /\ inserted[w] # NoMatch => inserted[w] \in delivered \cap Written

MarksDecided == \A t \in marks : status[t.match] = t.outcome

\* Nothing exists yet.
LEMMA InitInv == Init => StreamInv
BY StreamAssumption
   DEF Init, StreamInv, TypeOK, NothingDropped, RowTruthful, Written, Unread,
       Pending, Outcomes

\* popLoop and the API: a match gets a message with its status, and a mark
\* with its outcome.
LEMMA FormingPart ==
  ASSUME StreamInv,
         \/ \E w \in Workers, m \in MatchIds : CommitMatch(w, m)
         \/ \E m \in MatchIds, outcome \in Outcomes : Decide(m, outcome)
  PROVE  StreamInv'
<1>1. CASE \E w \in Workers, m \in MatchIds : CommitMatch(w, m)
  <2>1. PICK w \in Workers, m \in MatchIds : CommitMatch(w, m)
    BY <1>1
  <2>2. TypeOK'
    BY <2>1 DEF CommitMatch, StreamInv, TypeOK, group, local, Outcomes
  <2>3. Written' = Written
    BY <2>1 DEF CommitMatch, Written
  <2>4. Nested'
    BY <2>1, <2>3 DEF CommitMatch, StreamInv, TypeOK, Nested, group, local
  <2>5. MarksDecided'
    BY <2>1 DEF CommitMatch, StreamInv, TypeOK, MarksDecided, Outcomes
  <2>6. NothingDropped'
    BY <2>1, <2>3 DEF CommitMatch, StreamInv, NothingDropped, Unread, Pending,
                      group
  <2>7. RowTruthful'
    BY <2>1, <2>3 DEF CommitMatch, StreamInv, TypeOK, RowTruthful, Written
  <2> QED
    BY <2>2, <2>4, <2>5, <2>6, <2>7 DEF StreamInv, Nested, MarksDecided
<1>2. CASE \E m \in MatchIds, outcome \in Outcomes : Decide(m, outcome)
  <2>1. PICK m \in MatchIds, outcome \in Outcomes : Decide(m, outcome)
    BY <1>2
  <2>2. TypeOK'
    BY <2>1 DEF Decide, StreamInv, TypeOK, group, local, Outcomes
  <2>3. Written' = Written
    BY <2>1 DEF Decide, Written
  <2>4. Nested'
    BY <2>1, <2>3 DEF Decide, StreamInv, TypeOK, Nested, group, local, Outcomes
  <2>5. MarksDecided'
    BY <2>1 DEF Decide, StreamInv, TypeOK, MarksDecided, Outcomes
  <2>6. NothingDropped'
    BY <2>1, <2>3 DEF Decide, StreamInv, NothingDropped, Unread, Pending, group
  <2>7. RowTruthful'
    BY <2>1, <2>3 DEF Decide, StreamInv, TypeOK, RowTruthful, Written, Outcomes
  <2> QED
    BY <2>2, <2>4, <2>5, <2>6, <2>7 DEF StreamInv, Nested, MarksDecided
<1> QED
  BY <1>1, <1>2

\* The goroutines: a row gets the outcome of its match, if it exists.
LEMMA MarkPart ==
  ASSUME StreamInv, NEW t \in marks, RunMark(t) \/ LoseMark(t)
  PROVE  StreamInv' /\ \A m \in MatchIds : row[m] \in Outcomes => row'[m] = row[m]
<1>1. /\ t.match \in MatchIds /\ t.outcome \in Outcomes
      /\ status[t.match] = t.outcome
  BY DEF StreamInv, TypeOK
<1>2. TypeOK'
  BY <1>1 DEF RunMark, LoseMark, StreamInv, TypeOK, group, local
<1>3. Written' = Written
  BY <1>1 DEF RunMark, LoseMark, StreamInv, TypeOK, Written, Outcomes
<1>4. Nested' /\ MarksDecided'
  BY <1>3 DEF RunMark, LoseMark, StreamInv, Nested, MarksDecided, group, local
<1>5. NothingDropped'
  BY <1>3 DEF RunMark, LoseMark, StreamInv, NothingDropped, Unread, Pending,
              group
<1>6. RowTruthful'
  BY <1>1, <1>3 DEF RunMark, LoseMark, StreamInv, TypeOK, RowTruthful, Written
<1>7. ASSUME NEW m \in MatchIds, row[m] \in Outcomes
      PROVE  row'[m] = row[m]
  <2>1. m \in Written
    BY <1>7 DEF Written, Outcomes
  <2>2. row[m] = status[m]
    BY <1>7, <2>1 DEF StreamInv, RowTruthful, Outcomes
  <2> QED
    BY <1>1, <1>7, <2>2 DEF RunMark, LoseMark, StreamInv, TypeOK, Outcomes
<1> QED
  BY <1>2, <1>4, <1>5, <1>6, <1>7 DEF StreamInv, Nested, MarksDecided

\* Processing a message: the row is inserted, or the message stays pending.
LEMMA TakePart ==
  ASSUME StreamInv, NEW w \in Workers, NEW m \in batch[w],
         InsertMatch(w, m) \/ InsertFails(w, m)
  PROVE  StreamInv' /\ \A n \in MatchIds : row[n] \in Outcomes => row'[n] = row[n]
<1>1. m \in delivered /\ m \in stream /\ m \in MatchIds /\ status[m] # "none"
  BY DEF StreamInv, TypeOK
<1>2. Take(w, m) /\ row' \in {row, WithRow(m)}
  BY DEF InsertMatch, InsertFails
<1>3. TypeOK'
  BY <1>1, <1>2, StreamAssumption
     DEF InsertMatch, InsertFails, Take, WithRow, OneFailure, StreamInv, TypeOK,
         api
<1>4. \A n \in MatchIds :
        \/ row'[n] = row[n]
        \/ n = m /\ row[n] = "absent" /\ row'[n] = "forming"
  BY <1>1, <1>2 DEF WithRow, StreamInv, TypeOK
<1>5. Written \subseteq Written' /\ Written' \subseteq Written \cup {m}
  BY <1>4 DEF Written
<1>6. InsertMatch(w, m) => m \in Written'
  BY <1>1 DEF InsertMatch, WithRow, StreamInv, TypeOK, Written
<1>7. Nested'
  <2>1. \A v \in Workers : batch'[v] \subseteq batch[v]
    BY <1>2 DEF Take, StreamInv, TypeOK
  <2>2. \A v \in Workers :
          \/ inserted'[v] = inserted[v]
          \/ InsertMatch(w, m) /\ inserted'[v] = m
    BY DEF InsertMatch, InsertFails, StreamInv, TypeOK
  <2>3. acked' = acked
    BY DEF InsertMatch, InsertFails
  <2> QED
    BY <1>1, <1>2, <1>5, <1>6, <2>1, <2>2, <2>3
       DEF Take, StreamInv, Nested, api
<1>8. MarksDecided'
  BY <1>2 DEF Take, StreamInv, MarksDecided, api
<1>9. NothingDropped'
  BY <1>5 DEF InsertMatch, InsertFails, Take, StreamInv, NothingDropped, Unread,
              Pending, api
<1>10. RowTruthful'
  BY <1>1, <1>2, <1>4, <1>5 DEF Take, StreamInv, RowTruthful, Written, api
<1> QED
  BY <1>3, <1>4, <1>7, <1>8, <1>9, <1>10
     DEF StreamInv, Nested, MarksDecided, Outcomes

\* The steps that leave the rows and the API alone. Only a message whose row
\* is written is acknowledged.
LEMMA GroupPart ==
  ASSUME StreamInv, TypeOK', UNCHANGED <<api, stream, row>>,
         delivered \subseteq delivered', delivered' \subseteq stream,
         acked' \subseteq delivered', acked' \subseteq acked \cup Written,
         \A w \in Workers : /\ batch'[w] \subseteq delivered'
                            /\ inserted'[w] \in {NoMatch, inserted[w]}
  PROVE  StreamInv'
<1>1. Written' = Written
  BY DEF Written
<1>2. Nested'
  BY <1>1 DEF StreamInv, Nested, api
<1>3. MarksDecided'
  BY DEF StreamInv, MarksDecided, api
<1>4. NothingDropped'
  BY <1>1 DEF StreamInv, NothingDropped, Unread, Pending
<1>5. RowTruthful'
  BY <1>1 DEF StreamInv, RowTruthful, api
<1> QED
  BY <1>2, <1>3, <1>4, <1>5 DEF StreamInv, Nested, MarksDecided

\* Every step keeps the invariant, and the outcome of a row.
LEMMA StreamStep ==
  ASSUME StreamInv, [Next]_vars
  PROVE  StreamInv' /\ \A m \in MatchIds : row[m] \in Outcomes => row'[m] = row[m]
<1>1. CASE \/ \E w \in Workers, m \in MatchIds : CommitMatch(w, m)
           \/ \E m \in MatchIds, outcome \in Outcomes : Decide(m, outcome)
  BY <1>1, FormingPart DEF CommitMatch, Decide
<1>2. CASE \E t \in marks : RunMark(t) \/ LoseMark(t)
  BY <1>2, MarkPart
<1>3. CASE \E w \in Workers, m \in MatchIds :
             m \in batch[w] /\ (InsertMatch(w, m) \/ InsertFails(w, m))
  BY <1>3, TakePart
<1>4. ASSUME NEW w \in Workers,
             Start(w) \/ ClaimStale(w) \/ Serve(w) \/ Ack(w) \/ AckFails(w)
      PROVE  StreamInv' /\ row' = row
  <2>1. UNCHANGED <<api, stream, delivered, row>>
    BY <1>4 DEF Start, ClaimStale, Serve, Ack, AckFails, api, group
  <2>2. TypeOK'
    BY <1>4, StreamAssumption
       DEF Start, ClaimStale, Serve, Ack, AckFails, OneFailure, StreamInv,
           TypeOK, Pending, api, group
  <2>3. acked' \subseteq delivered' /\ acked' \subseteq acked \cup Written
    BY <1>4, <2>1 DEF Start, ClaimStale, Serve, Ack, AckFails, StreamInv, group
  <2>4. ASSUME NEW v \in Workers
        PROVE  /\ batch'[v] \subseteq delivered'
               /\ inserted'[v] \in {NoMatch, inserted[v]}
    BY <1>4, <2>1 DEF Start, ClaimStale, Serve, Ack, AckFails, StreamInv,
                      TypeOK, Pending
  <2> QED
    BY <2>1, <2>2, <2>3, <2>4, GroupPart DEF StreamInv
<1>5. ASSUME NEW w \in Workers, NEW S \in SUBSET Unread,
             ReadGroup(w, S) \/ ReadReplyLost(w, S)
      PROVE  StreamInv' /\ row' = row
  <2>1. /\ UNCHANGED <<api, stream, acked, row>>
        /\ delivered' = delivered \cup S
    BY <1>5 DEF ReadGroup, ReadReplyLost, Read
  <2>2. S \subseteq stream /\ S \subseteq MatchIds
    BY DEF Unread, StreamInv, TypeOK
  <2>3. TypeOK'
    BY <1>5, <2>1, <2>2, StreamAssumption
       DEF ReadGroup, ReadReplyLost, GoDown, OneFailure, StreamInv, TypeOK, api
  <2>4. ASSUME NEW v \in Workers
        PROVE  /\ batch'[v] \subseteq delivered'
               /\ inserted'[v] \in {NoMatch, inserted[v]}
    BY <1>5, <2>1 DEF ReadGroup, ReadReplyLost, GoDown, StreamInv, TypeOK
  <2>5. delivered' \subseteq stream
    BY <2>1, <2>2 DEF StreamInv
  <2>6. acked' \subseteq delivered'
    BY <2>1 DEF StreamInv
  <2> QED
    BY <2>1, <2>3, <2>4, <2>5, <2>6, GroupPart
<1>6. ASSUME NEW w \in Workers, Stop(w) \/ LockLost(w)
      PROVE  StreamInv' /\ row' = row
  <2>1. GoDown(w) /\ UNCHANGED <<api, stream, group, row>>
    BY <1>6 DEF Stop, LockLost
  <2>2. TypeOK'
    BY <1>6, <2>1, StreamAssumption
       DEF Stop, LockLost, GoDown, OneFailure, StreamInv, TypeOK, api, group
  <2>3. ASSUME NEW v \in Workers
        PROVE  /\ batch'[v] \subseteq delivered'
               /\ inserted'[v] \in {NoMatch, inserted[v]}
    BY <2>1 DEF GoDown, StreamInv, TypeOK, group
  <2> QED
    BY <2>1, <2>2, <2>3, GroupPart DEF StreamInv, group
<1>7. CASE RenewLate \/ LockExpires \/ UNCHANGED vars
  <2>1. UNCHANGED <<api, stream, group, row, local>>
    BY <1>7 DEF RenewLate, LockExpires, vars, api, group, local
  <2>2. TypeOK'
    BY <1>7, <2>1, StreamAssumption
       DEF RenewLate, LockExpires, vars, OneFailure, StreamInv, TypeOK, api,
           group, local
  <2>3. \A v \in Workers : /\ batch'[v] \subseteq delivered'
                           /\ inserted'[v] \in {NoMatch, inserted[v]}
    BY <2>1 DEF StreamInv, group, local
  <2> QED
    BY <2>1, <2>2, <2>3, GroupPart DEF StreamInv, group
<1> QED
  BY <1>1, <1>2, <1>3, <1>4, <1>5, <1>6, <1>7 DEF Next, Consume, Fail, StreamInv, TypeOK

\* The inductive invariant of the stream, for any instance.
THEOREM StreamInvariance == Spec => []StreamInv
<1>1. StreamInv /\ [Next]_vars => StreamInv'
  BY StreamStep
<1> QED
  BY InitInv, <1>1, PTL DEF Spec

\* No committed match is forgotten by stream, group and table together.
THEOREM NothingIsDropped == Spec => []NothingDropped
<1>1. StreamInv => NothingDropped
  BY DEF StreamInv
<1> QED
  BY <1>1, StreamInvariance, PTL

\* The table only says what Redis decided.
THEOREM TruthfulRows == Spec => []RowTruthful
<1>1. StreamInv => RowTruthful
  BY DEF StreamInv
<1> QED
  BY <1>1, StreamInvariance, PTL

\* No repeated insert and no late goroutine changes an outcome in the table.
THEOREM OutcomesStay == Spec => OutcomeKept
<1>1. StreamInv /\ [Next]_vars
      => [\A m \in MatchIds : row[m] \in Outcomes => row'[m] = row[m]]_vars
  BY StreamStep
<1> QED
  BY <1>1, StreamInvariance, PTL DEF Spec, OutcomeKept
=============================================================================
