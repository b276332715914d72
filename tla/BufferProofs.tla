----------------------------- MODULE BufferProofs -----------------------------
(***************************************************************************)
(* What is proved of the buffer of a worker and of selectGroup: the buffer *)
(* is a slice that keeps its order, and nobody is overtaken in it.         *)
(***************************************************************************)
EXTENDS MatchmakingProofs

----------------------------------------------------------------------------
(* Ranks.                                                                  *)

\* The rank of a member of a set is an index into it.
LEMMA RankBound ==
  ASSUME NEW S \in SUBSET Entry, NEW key, NEW e \in S, key[e] \in Int
  PROVE  Rank(S, key, e) < Cardinality(S)
<1> DEFINE T == {f \in S : key[f] < key[e]}
<1>1. IsFiniteSet(S)
  BY EntryFinite, FS_Subset
<1>2. T \in SUBSET S /\ S # T
  OBVIOUS
<1>3. Cardinality(T) \in Nat /\ Cardinality(S) \in Nat
  BY <1>1, <1>2, FS_Subset, FS_CardinalityType
<1>4. Cardinality(T) <= Cardinality(S) /\ Cardinality(S) # Cardinality(T)
  BY <1>1, <1>2, FS_Subset
<1> HIDE DEF T
<1>5. Cardinality(T) < Cardinality(S)
  BY <1>3, <1>4
<1> QED BY <1>5 DEF Rank, T

\* Ranks follow the keys.
LEMMA RankMonotone ==
  ASSUME NEW S \in SUBSET Entry, NEW key, \A x \in S : key[x] \in Int,
         NEW e \in S, NEW f \in S, key[e] < key[f]
  PROVE  Rank(S, key, e) < Rank(S, key, f)
<1> DEFINE T == {x \in S : key[x] < key[e]}
           U == {x \in S : key[x] < key[f]}
<1>1. IsFiniteSet(U)
  BY EntryFinite, FS_Subset
<1>2. T \in SUBSET U /\ U # T
  <2>1. \A x \in T : key[x] < key[f]
    OBVIOUS
  <2>2. e \in U /\ e \notin T
    OBVIOUS
  <2> QED BY <2>1, <2>2
<1>3. Cardinality(T) \in Nat /\ Cardinality(U) \in Nat
  BY <1>1, <1>2, FS_Subset, FS_CardinalityType
<1>4. Cardinality(T) <= Cardinality(U) /\ Cardinality(U) # Cardinality(T)
  BY <1>1, <1>2, FS_Subset
<1> HIDE DEF T, U
<1>5. Cardinality(T) < Cardinality(U)
  BY <1>3, <1>4
<1> QED BY <1>5 DEF Rank, T, U

\* Entries with different keys have different ranks.
LEMMA RankInjective ==
  ASSUME NEW S \in SUBSET Entry, NEW key, \A x \in S : key[x] \in Int,
         NEW e \in S, NEW f \in S, key[e] # key[f]
  PROVE  Rank(S, key, e) # Rank(S, key, f)
<1>1. Rank(S, key, e) \in Nat /\ Rank(S, key, f) \in Nat
  BY RankType
<1>2. CASE key[e] < key[f]
  BY <1>1, <1>2, RankMonotone
<1>3. CASE key[f] < key[e]
  BY <1>1, <1>3, RankMonotone
<1> QED BY <1>2, <1>3

\* Of a set ordered by a key without ties, k members have a rank below k.
LEMMA RanksCover ==
  ASSUME NEW S \in SUBSET Entry, NEW key, \A x \in S : key[x] \in Int,
         \A x, y \in S : key[x] = key[y] => x = y,
         NEW k \in Nat, k <= Cardinality(S)
  PROVE  Cardinality({e \in S : Rank(S, key, e) < k}) = k
<1> DEFINE n == Cardinality(S)
           r == [e \in S |-> Rank(S, key, e)]
           T == {e \in S : r[e] < k}
           t == [e \in T |-> r[e]]
<1>1. IsFiniteSet(S) /\ n \in Nat
  BY EntryFinite, FS_Subset, FS_CardinalityType
<1>2. /\ DOMAIN r = S
      /\ \A e \in S : r[e] \in Nat /\ r[e] < n
  BY RankType, RankBound
<1>3. \A e, f \in S : r[e] = r[f] => e = f
  BY RankInjective
<1>4. r = [e \in S |-> r[e]]
  OBVIOUS
<1>5. T = {e \in S : Rank(S, key, e) < k}
  OBVIOUS
<1> HIDE DEF r, n
<1>6. r \in Surjection(S, 0..(n - 1))
  <2>1. r \in Injection(S, 0..(n - 1))
    <3>1. \A e \in S : r[e] \in 0..(n - 1)
      BY <1>1, <1>2
    <3>2. r \in [S -> 0..(n - 1)]
      BY <1>4, <3>1
    <3> QED BY <1>3, <3>2 DEF Injection, IsInjective
  <2>2. IsFiniteSet(0..(n - 1)) /\ Cardinality(0..(n - 1)) = n
    BY <1>1, FS_Interval
  <2> QED BY <2>1, <2>2, FS_Injection DEF n
<1>7. t \in Bijection(T, 0..(k - 1))
  <2>1. t \in [T -> 0..(k - 1)]
    BY <1>2
  <2>2. \A e, f \in T : t[e] = t[f] => e = f
    BY <1>3
  <2>3. ASSUME NEW i \in 0..(k - 1) PROVE \E e \in T : t[e] = i
    <3>1. i \in 0..(n - 1) /\ i < k
      BY <1>1 DEF n
    <3>2. PICK e \in S : r[e] = i
      BY <1>6, <3>1 DEF Surjection
    <3> QED BY <3>1, <3>2
  <2> HIDE DEF t, T
  <2> QED BY <2>1, <2>2, <2>3 DEF Bijection, Injection, IsInjective, Surjection
<1>8. IsFiniteSet(T)
  BY <1>1, FS_Subset
<1>9. IsFiniteSet(0..(k - 1)) /\ Cardinality(0..(k - 1)) = k
  BY FS_Interval
<1> HIDE DEF t, T
<1>10. ExistsBijection(T, 0..(k - 1))
  BY <1>7 DEF ExistsBijection
<1>11. Cardinality(T) = k
  BY <1>8, <1>10, <1>9, FS_Bijection
<1> QED BY <1>5, <1>11

----------------------------------------------------------------------------
(* The slice.                                                              *)

\* The indices of a slice of entries: one entry at each.
Slice(buf) ==
  /\ DOMAIN buf \subseteq Entry /\ buf \in [DOMAIN buf -> Nat]
  /\ \A e, f \in DOMAIN buf : /\ buf[e] < Cardinality(DOMAIN buf)
                              /\ buf[e] = buf[f] => e = f

\* A slice without a group is a slice, in the same order.
LEMMA RemainingSlice ==
  ASSUME NEW buf, Slice(buf), NEW G
  PROVE  /\ Slice(Remaining(buf, G))
         /\ DOMAIN Remaining(buf, G) = DOMAIN buf \ G
         /\ \A e, f \in DOMAIN buf \ G :
              buf[e] < buf[f] => Remaining(buf, G)[e] < Remaining(buf, G)[f]
<1> DEFINE R == DOMAIN buf \ G
<1>1. R \in SUBSET Entry /\ \A e \in R : buf[e] \in Int
  BY DEF Slice
<1>2. /\ DOMAIN Remaining(buf, G) = R
      /\ Remaining(buf, G) \in [R -> Nat]
  BY RemainingType DEF Slice
<1>3. \A e \in R : Remaining(buf, G)[e] = Rank(R, buf, e)
  BY DEF Remaining
<1>4. \A e \in R : Remaining(buf, G)[e] < Cardinality(R)
  BY <1>1, <1>3, RankBound
<1>5. ASSUME NEW e \in R, NEW f \in R, Remaining(buf, G)[e] = Remaining(buf, G)[f]
      PROVE  e = f
  <2>1. buf[e] = buf[f]
    BY <1>1, <1>3, <1>5, RankInjective
  <2> QED BY <2>1 DEF Slice
<1>6. \A e, f \in R : buf[e] < buf[f] => Remaining(buf, G)[e] < Remaining(buf, G)[f]
  BY <1>1, <1>3, RankMonotone
<1> HIDE DEF R
<1>7. Slice(Remaining(buf, G))
  BY <1>1, <1>2, <1>4, <1>5 DEF Slice
<1> QED BY <1>2, <1>6, <1>7 DEF R

\* A batch goes behind a slice.
LEMMA AppendSlice ==
  ASSUME NEW buf, Slice(buf), NEW S \in SUBSET Entry, S \cap DOMAIN buf = {},
         \A e, f \in S : e.at = f.at => e = f
  PROVE  /\ Slice(AppendBatch(buf, S))
         /\ DOMAIN AppendBatch(buf, S) = DOMAIN buf \cup S
         /\ \A e \in DOMAIN buf : AppendBatch(buf, S)[e] = buf[e]
         /\ \A e \in DOMAIN buf, f \in S : buf[e] < AppendBatch(buf, S)[f]
<1> DEFINE D == DOMAIN buf
           n == Cardinality(D)
           new == AppendBatch(buf, S)
<1>1. /\ D \in SUBSET Entry
      /\ \A e, f \in D : buf[e] \in Nat /\ buf[e] < n /\ (buf[e] = buf[f] => e = f)
  BY DEF Slice
<1>2. /\ DOMAIN new = D \cup S
      /\ new \in [D \cup S -> Nat]
  BY AppendBatchType DEF Slice
<1>3. /\ \A e \in D : new[e] = buf[e]
      /\ \A e \in S : new[e] = n + Rank(S, EnqueueTime, e)
  BY DEF AppendBatch
<1>4. IsFiniteSet(D) /\ IsFiniteSet(S)
  BY <1>1, EntryFinite, FS_Subset
<1>5. n \in Nat /\ Cardinality(S) \in Nat
  BY <1>4, FS_CardinalityType
<1>6. Cardinality(D \cup S) = n + Cardinality(S)
  <2>1. D \cap S = {}
    OBVIOUS
  <2>2. Cardinality(D \cup S) = n + Cardinality(S) - Cardinality(D \cap S)
    BY <1>4, FS_Union
  <2>3. Cardinality(D \cap S) = 0
    BY <2>1, FS_EmptySet
  <2> HIDE DEF D, n
  <2> QED BY <1>5, <2>2, <2>3
<1>7. \A e \in S : EnqueueTime[e] = e.at /\ EnqueueTime[e] \in Int
  BY DEF EnqueueTime, Entry
<1>8. \A e \in S : /\ Rank(S, EnqueueTime, e) \in Nat
                  /\ Rank(S, EnqueueTime, e) < Cardinality(S)
  BY <1>7, RankType, RankBound
<1>9. ASSUME NEW e \in S, NEW f \in S, new[e] = new[f]
      PROVE  e = f
  <2>1. Rank(S, EnqueueTime, e) = Rank(S, EnqueueTime, f)
    <3> HIDE DEF new, n
    <3> QED BY <1>3, <1>5, <1>8, <1>9
  <2>2. EnqueueTime[e] = EnqueueTime[f]
    BY <1>7, <2>1, RankInjective
  <2> QED BY <1>7, <2>2
<1>10. S \cap D = {}
  OBVIOUS
<1> HIDE DEF D, n, new
<1>11. \A e \in D, f \in S : buf[e] < new[f]
  BY <1>1, <1>3, <1>5, <1>8
<1>12. \A e \in D \cup S : new[e] < Cardinality(D \cup S)
  BY <1>1, <1>3, <1>5, <1>6, <1>8
<1>13. ASSUME NEW e \in D \cup S, NEW f \in D \cup S, new[e] = new[f]
       PROVE  e = f
  <2>1. CASE e \in D /\ f \in D
    BY <1>1, <1>3, <1>13, <2>1
  <2>2. CASE e \in S /\ f \in S
    BY <1>9, <1>13, <2>2
  <2>3. CASE e \in D /\ f \in S
    <3>1. buf[e] < new[f] /\ buf[e] = new[f] /\ buf[e] \in Nat
      BY <1>1, <1>3, <1>11, <1>13, <2>3
    <3> QED BY <3>1
  <2>4. CASE e \in S /\ f \in D
    <3>1. buf[f] < new[e] /\ buf[f] = new[e] /\ buf[f] \in Nat
      BY <1>1, <1>3, <1>11, <1>13, <2>4
    <3> QED BY <3>1
  <2> QED BY <2>1, <2>2, <2>3, <2>4
<1>14. D \cup S \subseteq Entry
  BY <1>1
<1>15. Slice(new)
  BY <1>2, <1>12, <1>13, <1>14 DEF Slice
<1> QED BY <1>2, <1>3, <1>11, <1>15 DEF D, new

----------------------------------------------------------------------------
(* selectGroup.                                                            *)

\* An entry that is passed over, while one behind it is taken, is outside the
\* window of the anchor.
LEMMA TakenInOrder ==
  ASSUME NEW buf, Slice(buf), NEW n \in Int, NEW win,
         NEW e \in DOMAIN buf, NEW f \in DOMAIN buf, buf[e] < buf[f],
         f \in SelectGroup(buf, n, win), e \notin SelectGroup(buf, n, win)
  PROVE  \E a \in DOMAIN buf : /\ IsAnchor(buf, a)
                               /\ WithinWindow(f, a, win)
                               /\ ~ WithinWindow(e, a, win)
<1> DEFINE C == Compatible(buf, win)
<1>1. \A x \in DOMAIN buf : buf[x] \in Nat
  BY DEF Slice
<1>2. ~ IsAnchor(buf, f) /\ ~ IsAnchor(buf, e)
  BY <1>1 DEF IsAnchor, SelectGroup
<1>3. f \in C /\ Rank(C, buf, f) < n - 1
  BY <1>2 DEF SelectGroup
<1>4. C \in SUBSET Entry /\ C \subseteq DOMAIN buf
  BY DEF Compatible, Slice
<1>5. e \notin C
  <2> SUFFICES ASSUME e \in C PROVE FALSE
    OBVIOUS
  <2>1. Rank(C, buf, e) < Rank(C, buf, f)
    <3>1. \A x \in C : buf[x] \in Int
      BY <1>1, <1>4
    <3> HIDE DEF C
    <3> QED BY <1>3, <1>4, <3>1, RankMonotone
  <2>2. Rank(C, buf, e) \in Nat /\ Rank(C, buf, f) \in Nat
    BY <1>4, RankType
  <2>3. Rank(C, buf, e) < n - 1
    <3> HIDE DEF C
    <3> QED BY <1>3, <2>1, <2>2
  <2> QED BY <2>3 DEF SelectGroup
<1>6. PICK a \in DOMAIN buf : IsAnchor(buf, a) /\ WithinWindow(f, a, win)
  BY <1>3 DEF Compatible
<1>7. ~ WithinWindow(e, a, win)
  BY <1>2, <1>5, <1>6 DEF Compatible
<1> QED BY <1>6, <1>7

\* A slice that is not empty has one head.
LEMMA OneAnchor ==
  ASSUME NEW buf, Slice(buf), DOMAIN buf # {}
  PROVE  \E a \in DOMAIN buf : \A e \in DOMAIN buf : IsAnchor(buf, e) <=> e = a
<1> DEFINE D == DOMAIN buf
<1>1. /\ D \in SUBSET Entry
      /\ \A e \in D : buf[e] \in Nat
      /\ \A e, f \in D : buf[e] = buf[f] => e = f
  BY DEF Slice
<1>2. IsFiniteSet(D) /\ Cardinality(D) \in Nat /\ Cardinality(D) # 0
  BY <1>1, EntryFinite, FS_Subset, FS_CardinalityType, FS_EmptySet
<1>3. Cardinality({e \in D : Rank(D, buf, e) < 1}) = 1
  <2>1. 1 \in Nat /\ 1 <= Cardinality(D)
    BY <1>2
  <2>2. \A e \in D : buf[e] \in Int
    BY <1>1
  <2> HIDE DEF D
  <2> QED BY <1>1, <2>1, <2>2, RanksCover
<1>4. PICK a \in D : Rank(D, buf, a) < 1
  <2>1. {e \in D : Rank(D, buf, e) < 1} # {}
    BY <1>3, FS_EmptySet
  <2> QED BY <2>1
<1>5. {f \in D : buf[f] < buf[a]} = {}
  <2>1. Rank(D, buf, a) \in Nat
    BY <1>1, RankType
  <2>2. Rank(D, buf, a) = 0
    BY <1>4, <2>1
  <2>3. IsFiniteSet({f \in D : buf[f] < buf[a]})
    BY <1>2, FS_Subset
  <2> QED BY <2>2, <2>3, FS_EmptySet DEF Rank
<1>6. \A f \in D : buf[a] <= buf[f]
  BY <1>1, <1>5
<1>7. ASSUME NEW e \in D, \A f \in D : buf[e] <= buf[f] PROVE e = a
  <2>1. buf[e] = buf[a]
    BY <1>1, <1>6, <1>7
  <2> QED BY <1>1, <2>1
<1> QED BY <1>6, <1>7 DEF IsAnchor

\* selectGroup takes n entries if there are n - 1 within the window of the
\* anchor, and these and the anchor otherwise.
LEMMA GroupSize ==
  ASSUME NEW buf, Slice(buf), DOMAIN buf # {}, NEW n \in Nat \ {0}, NEW win
  PROVE  LET c == Cardinality(Compatible(buf, win))
         IN  /\ c \in Nat
             /\ Cardinality(SelectGroup(buf, n, win)) = IF n - 1 <= c THEN n ELSE c + 1
<1> DEFINE C == Compatible(buf, win)
           T == {e \in C : Rank(C, buf, e) < n - 1}
<1>1. C \in SUBSET Entry /\ C \subseteq DOMAIN buf
  BY DEF Compatible, Slice
<1>2. IsFiniteSet(C) /\ Cardinality(C) \in Nat
  BY <1>1, EntryFinite, FS_Subset, FS_CardinalityType
<1>3. /\ \A e \in C : buf[e] \in Int
      /\ \A e, f \in C : buf[e] = buf[f] => e = f
  BY <1>1 DEF Slice
<1>4. PICK a \in DOMAIN buf : \A e \in DOMAIN buf : IsAnchor(buf, e) <=> e = a
  BY OneAnchor
<1>5. a \notin C
  BY <1>4 DEF Compatible
<1>6. SelectGroup(buf, n, win) = T \cup {a}
  BY <1>1, <1>4 DEF SelectGroup
<1>7. Cardinality(T) = IF n - 1 <= Cardinality(C) THEN n - 1 ELSE Cardinality(C)
  <2> HIDE DEF C
  <2>1. CASE n - 1 <= Cardinality(C)
    BY <1>1, <1>3, <2>1, RanksCover
  <2>2. CASE ~ n - 1 <= Cardinality(C)
    <3>1. \A e \in C : Rank(C, buf, e) \in Nat /\ Rank(C, buf, e) < Cardinality(C)
      BY <1>1, <1>3, RankType, RankBound
    <3>2. \A e \in C : Rank(C, buf, e) < n - 1
      BY <1>2, <2>2, <3>1
    <3> QED BY <2>2, <3>2
  <2> QED BY <2>1, <2>2
<1>8. IsFiniteSet(T) /\ a \notin T
  BY <1>2, <1>5, FS_Subset
<1> HIDE DEF T, C
<1>9. Cardinality(T \cup {a}) = Cardinality(T) + 1
  BY <1>8, FS_AddElement
<1>10. Cardinality(SelectGroup(buf, n, win))
         = IF n - 1 <= Cardinality(C) THEN n ELSE Cardinality(C) + 1
  BY <1>2, <1>6, <1>7, <1>9
<1> QED BY <1>2, <1>10 DEF C

\* selectGroup returns a group, of the size of a match, exactly when enough
\* entries fit the anchor.
THEOREM GroupFound ==
  ASSUME NEW buf, Slice(buf), DOMAIN buf # {}, NEW win
  PROVE  Found(SelectGroup(buf, MatchSize, win)) <=>
           Cardinality(Compatible(buf, win)) >= MatchSize - 1
<1>1. MatchSize \in Nat \ {0}
  BY ShardAssumption
<1> DEFINE c == Cardinality(Compatible(buf, win))
<1>2. /\ c \in Nat
      /\ Cardinality(SelectGroup(buf, MatchSize, win))
           = IF MatchSize - 1 <= c THEN MatchSize ELSE c + 1
  BY <1>1, GroupSize
<1> HIDE DEF c
<1>3. Cardinality(SelectGroup(buf, MatchSize, win)) = MatchSize <=> c >= MatchSize - 1
  BY <1>1, <1>2
<1> QED BY <1>3 DEF Found, c

----------------------------------------------------------------------------
(* The steps.                                                              *)

\* What a step may do to the buffer of a worker.
Untouched(w) == buffer'[w] = buffer[w]

Forgotten(w) == buffer'[w] = Empty

Appended(w) ==
  \E S \in SUBSET joined : /\ S \cap Buffered(w) = {}
                          /\ buffer'[w] = AppendBatch(buffer[w], S)

TakenFrom(w) ==
  \E win \in Windows :
    buffer'[w] = Remaining(buffer[w], SelectGroup(buffer[w], MatchSize, win))

\* The batch of the filter joins the buffer of its worker.
LEMMA FilterAppends ==
  ASSUME IInv, NEW v \in Workers, NEW skipped, Filter(v, skipped), NEW w \in Workers
  PROVE  Untouched(w) \/ Appended(w)
<1>1. DOMAIN buffer = Workers
  BY DEF IInv, TypeOK, WorkerTypeOK
<1>2. buffer' = [buffer EXCEPT ![v] = AppendBatch(buffer[v], work[v] \ skipped)]
  BY DEF Filter
<1>3. work[v] \subseteq joined /\ work[v] \cap Buffered(v) = {}
  BY DEF IInv, MemoryBacked, EntriesJoined, Waiting, BufferExclusive
<1>4. CASE w = v
  <2>1. buffer'[v] = AppendBatch(buffer[v], work[v] \ skipped)
    BY <1>1, <1>2
  <2>2. work[v] \ skipped \in SUBSET joined /\ (work[v] \ skipped) \cap Buffered(v) = {}
    BY <1>3
  <2> QED BY <1>4, <2>1, <2>2 DEF Appended
<1>5. CASE w # v
  BY <1>1, <1>2, <1>5 DEF Untouched
<1> QED BY <1>4, <1>5

\* A commit and a conflict take the group out of the buffer of their worker.
LEMMA GroupTaken ==
  ASSUME IInv, NEW v \in Workers, NEW win \in Windows, NEW w \in Workers,
         RejectGroup(v, win) \/ \E m \in MatchIds : CommitMatch(v, m, win)
  PROVE  Untouched(w) \/ TakenFrom(w)
<1> DEFINE G == SelectGroup(buffer[v], MatchSize, win)
<1>1. DOMAIN buffer = Workers
  BY DEF IInv, TypeOK, WorkerTypeOK
<1>2. buffer' = [buffer EXCEPT ![v] = Remaining(buffer[v], G)]
  BY DEF RejectGroup, CommitMatch
<1> HIDE DEF G
<1>3. CASE w = v
  <2>1. buffer'[w] = Remaining(buffer[w], G)
    BY <1>1, <1>2, <1>3
  <2> QED BY <1>3, <2>1 DEF TakenFrom, G
<1>4. CASE w # v
  BY <1>1, <1>2, <1>4 DEF Untouched
<1> QED BY <1>3, <1>4

\* A step forgets a buffer, appends a batch to it, or takes a group out of it.
LEMMA BufferSteps ==
  ASSUME IInv, [Next]_vars, NEW w \in Workers
  PROVE  Untouched(w) \/ Forgotten(w) \/ Appended(w) \/ TakenFrom(w)
<1>1. DOMAIN buffer = Workers
  BY DEF IInv, TypeOK, WorkerTypeOK
<1>2. CASE UNCHANGED buffer
  BY <1>2 DEF Untouched
<1>3. ASSUME NEW v \in Workers, Forget(v)
      PROVE  Untouched(w) \/ Forgotten(w)
  BY <1>1, <1>3 DEF Forget, Untouched, Forgotten
<1>4. ASSUME NEW v \in Workers, FormMatches(v)
      PROVE  Untouched(w) \/ TakenFrom(w)
  <2>1. ASSUME NEW win \in Windows, NoGroup(v, win)
        PROVE  UNCHANGED buffer
    BY <2>1 DEF NoGroup
  <2> QED BY <1>2, <1>4, <2>1, GroupTaken DEF FormMatches, Untouched
<1>5. ASSUME NEW v \in Workers, Run(v)
      PROVE  Untouched(w) \/ Appended(w) \/ TakenFrom(w)
  <2>1. CASE AcquireShardLock(v) \/ DrainProcessing(v) \/ PopBatch(v) \/ Uncancel(v)
    BY <2>1 DEF AcquireShardLock, DrainProcessing, PopBatch, Uncancel, Untouched
  <2>2. CASE AnnounceMatch(v) \/ RepushToQueue(v) \/ RemoveRepushed(v)
    BY <2>2 DEF AnnounceMatch, RepushToQueue, RemoveRepushed, Untouched
  <2>3. CASE CheckCancelled(v)
    BY <2>3, FilterAppends DEF CheckCancelled
  <2>4. CASE FormMatches(v)
    BY <1>4, <2>4
  <2> QED BY <1>5, <2>1, <2>2, <2>3, <2>4 DEF Run, PopOnce
<1>6. ASSUME NEW v \in Workers, Failure(v)
      PROVE  Untouched(w) \/ Forgotten(w) \/ Appended(w)
  <2>1. CASE Crash(v) \/ Stop(v)
    BY <1>3, <2>1 DEF Crash, Stop
  <2>2. CASE PopReplyLost(v) \/ UncancelFails(v) \/ RepushFails(v)
    BY <2>2 DEF PopReplyLost, UncancelFails, RepushFails, Untouched
  <2>3. CASE CheckFails(v)
    BY <2>3, FilterAppends DEF CheckFails
  <2> QED BY <1>6, <2>1, <2>2, <2>3 DEF Failure
<1>7. CASE UNCHANGED workerVars
  BY <1>2, <1>7 DEF workerVars
<1>8. CASE LockExpires
  BY <1>2, <1>8 DEF LockExpires
<1> QED BY <1>5, <1>6, <1>7, <1>8 DEF Next, WorkerNext, vars

----------------------------------------------------------------------------
(* The inductive invariant.                                                *)

\* No two entries carry the same time.
UniqueTimes == \A e, f \in joined : e.at = f.at => e = f

\* The functions that stand for the slices of the code do so: one entry at each
\* index, so that there is one anchor; and no two entries carry the same time.
\* This says nothing of the code. NobodyOvertaken rests on it.
BufferInv ==
  /\ \A w \in Workers : \A e, f \in Buffered(w) :
       /\ buffer[w][e] < Cardinality(Buffered(w))
       /\ buffer[w][e] = buffer[w][f] => e = f
  /\ \A e, f \in joined : e.at = f.at => e = f

\* The buffers of BufferInv are slices.
LEMMA BufferSlices ==
  IInv => (BufferInv <=> UniqueTimes /\ \A w \in Workers : Slice(buffer[w]))
BY DEF IInv, TypeOK, WorkerTypeOK, BufferInv, UniqueTimes, Slice, Buffered

\* The first slices are empty.
LEMMA InitBuffer == Init => BufferInv
BY DEF Init, ShardInit, WorkerInit, BufferInv, Buffered, Empty

\* A join is stamped after all the others.
LEMMA TimesUnique ==
  ASSUME IInv, UniqueTimes, [Next]_vars
  PROVE  UniqueTimes'
<1>1. CASE UNCHANGED joined
  BY <1>1 DEF UniqueTimes
<1>2. ASSUME NEW p \in Players, Join(p) PROVE UniqueTimes'
  <2>1. /\ joined' = joined \cup {[player |-> p, at |-> clock + 1]}
        /\ clock \in Nat
    BY <1>2 DEF Join, JoinScript, IInv, TypeOK, ShardTypeOK
  <2>2. \A e \in joined : e.at \in Int /\ e.at <= clock
    BY DEF IInv, EntriesJoined, TypeOK, ShardTypeOK, Entry
  <2> QED BY <2>1, <2>2 DEF UniqueTimes
<1>3. CASE WorkerNext
  BY <1>1, <1>3, MarksCleared
<1>4. CASE ConfirmationNext
  BY <1>1, <1>4
     DEF ConfirmationNext, ProcessTimedOut, ReconcilerFails, AllocateServer,
         GrowOverdue, Accept, Decline, TooLate, Confirm, ConfirmScript, Dissolve,
         DissolveScript, Announce, CallDies, shardVars, history
<1>5. CASE QueueClient
  BY <1>1, <1>2, <1>5 DEF QueueClient, Cancel, CancelScript, history
<1>6. CASE UNCHANGED vars
  BY <1>1, <1>6 DEF vars, shardVars, history
<1> QED BY <1>3, <1>4, <1>5, <1>6 DEF Next

\* Every step keeps the slices.
LEMMA NextBuffer ==
  ASSUME IInv, BufferInv, [Next]_vars
  PROVE  BufferInv'
<1>1. IInv'
  BY NextIInv
<1>2. UniqueTimes /\ UniqueTimes'
  BY BufferSlices, TimesUnique
<1>3. ASSUME NEW w \in Workers PROVE Slice(buffer'[w])
  <2>1. Slice(buffer[w])
    BY BufferSlices
  <2>2. CASE Untouched(w)
    BY <2>1, <2>2 DEF Untouched
  <2>3. CASE Forgotten(w)
    BY <2>3 DEF Forgotten, Slice, Empty
  <2>4. CASE Appended(w)
    <3>1. PICK S \in SUBSET joined : /\ S \cap Buffered(w) = {}
                                   /\ buffer'[w] = AppendBatch(buffer[w], S)
      BY <2>4 DEF Appended
    <3>2. S \in SUBSET Entry /\ \A e, f \in S : e.at = f.at => e = f
      BY <1>2, <3>1 DEF UniqueTimes, IInv, TypeOK, ShardTypeOK
    <3>3. S \cap DOMAIN buffer[w] = {}
      BY <3>1 DEF Buffered
    <3>4. \A x, y \in S : x.at = y.at => x = y
      BY <3>2
    <3>5. Slice(AppendBatch(buffer[w], S))
      BY ONLY <2>1, <3>2, <3>3, <3>4, AppendSlice
    <3> QED BY <3>1, <3>5
  <2>5. CASE TakenFrom(w)
    <3>1. PICK win \in Windows :
            buffer'[w] = Remaining(buffer[w], SelectGroup(buffer[w], MatchSize, win))
      BY <2>5 DEF TakenFrom
    <3>2. Slice(Remaining(buffer[w], SelectGroup(buffer[w], MatchSize, win)))
      BY ONLY <2>1, RemainingSlice
    <3> QED BY <3>1, <3>2
  <2> QED BY <2>2, <2>3, <2>4, <2>5, BufferSteps
<1>4. \A w \in Workers : Slice(buffer'[w])
  BY <1>3
<1> QED BY <1>1, <1>2, <1>4
        DEF IInv, TypeOK, WorkerTypeOK, BufferInv, UniqueTimes, Slice, Buffered

\* The buffers are slices, and no two entries carry the same time.
LEMMA BufferInvariance == Spec => []BufferInv
BY InitBuffer, NextBuffer, Invariance, PTL DEF Spec

----------------------------------------------------------------------------
(* Nobody is overtaken.                                                    *)

\* No step breaks the order of a buffer, nor takes an entry past one ahead of
\* it that fits the anchor's window as well.
LEMMA InOrder ==
  ASSUME IInv, BufferInv, [Next]_vars,
         NEW w \in Workers, NEW e \in joined, NEW f \in joined, Ahead(w, e, f)
  PROVE  /\ {e, f} \subseteq Buffered(w)' => Ahead(w, e, f)'
         /\ f \in Buffered(w) \ Buffered(w)' /\ e \in Buffered(w)' =>
              \E a \in Buffered(w), win \in Windows :
                /\ IsAnchor(buffer[w], a)
                /\ WithinWindow(f, a, win) /\ ~ WithinWindow(e, a, win)
<1> USE DEF Ahead, Buffered
<1>1. Slice(buffer[w])
  BY BufferSlices
<1>2. CASE Untouched(w)
  BY <1>2 DEF Untouched
<1>3. CASE Forgotten(w)
  BY <1>3 DEF Forgotten, Empty
<1>4. CASE Appended(w)
  <2>1. PICK S \in SUBSET joined : /\ S \cap Buffered(w) = {}
                                 /\ buffer'[w] = AppendBatch(buffer[w], S)
    BY <1>4 DEF Appended
  <2>2. S \in SUBSET Entry /\ \A x, y \in S : x.at = y.at => x = y
    BY <2>1, BufferSlices DEF UniqueTimes, IInv, TypeOK, ShardTypeOK
  <2>3. S \cap DOMAIN buffer[w] = {}
    BY <2>1
  <2> DEFINE new == AppendBatch(buffer[w], S)
  <2>4. /\ DOMAIN new = DOMAIN buffer[w] \cup S
        /\ \A x \in DOMAIN buffer[w] : new[x] = buffer[w][x]
        /\ \A x \in DOMAIN buffer[w], y \in S : buffer[w][x] < new[y]
    BY ONLY <1>1, <2>2, <2>3, AppendSlice
  <2> HIDE DEF new
  <2>5. buffer'[w] = new
    BY <2>1 DEF new
  <2> QED BY <2>4, <2>5
<1>5. CASE TakenFrom(w)
  <2>1. PICK win \in Windows :
          buffer'[w] = Remaining(buffer[w], SelectGroup(buffer[w], MatchSize, win))
    BY <1>5 DEF TakenFrom
  <2> DEFINE G == SelectGroup(buffer[w], MatchSize, win)
  <2>2. /\ DOMAIN buffer'[w] = DOMAIN buffer[w] \ G
        /\ \A x, y \in DOMAIN buffer[w] \ G :
             buffer[w][x] < buffer[w][y] => buffer'[w][x] < buffer'[w][y]
    BY <1>1, <2>1, RemainingSlice
  <2>3. MatchSize \in Int
    BY ShardAssumption
  <2>4. ASSUME f \in Buffered(w) \ Buffered(w)', e \in Buffered(w)'
        PROVE  \E a \in Buffered(w) : /\ IsAnchor(buffer[w], a)
                                     /\ WithinWindow(f, a, win)
                                     /\ ~ WithinWindow(e, a, win)
    <3>1. /\ e \in DOMAIN buffer[w] /\ f \in DOMAIN buffer[w]
          /\ buffer[w][e] < buffer[w][f] /\ f \in G /\ e \notin G
      BY <2>2, <2>4
    <3> QED BY <1>1, <2>3, <3>1, TakenInOrder
  <2> HIDE DEF G
  <2> QED BY <2>1, <2>2, <2>4
<1> QED BY <1>2, <1>3, <1>4, <1>5, BufferSteps

\* Nobody is overtaken in the buffer of a worker but by who fits the anchor
\* better, whatever joins, cancels, fails or is put back meanwhile.
THEOREM NobodyOvertaken == Spec => NoOvertaking
<1>1. ASSUME IInv, BufferInv, [Next]_vars
      PROVE  [\A w \in Workers : \A e, f \in joined : Ahead(w, e, f) =>
                /\ {e, f} \subseteq Buffered(w)' => Ahead(w, e, f)'
                /\ f \in Buffered(w) \ Buffered(w)' /\ e \in Buffered(w)' =>
                     \E a \in Buffered(w), win \in Windows :
                       /\ IsAnchor(buffer[w], a)
                       /\ WithinWindow(f, a, win) /\ ~ WithinWindow(e, a, win)]_makerVars
  BY <1>1, InOrder
<1> QED BY <1>1, Invariance, BufferInvariance, PTL DEF Spec, NoOvertaking
=============================================================================
