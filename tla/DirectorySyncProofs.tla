------------------------- MODULE DirectorySyncProofs -------------------------
(***************************************************************************)
(* Proofs about DirectorySync, for every set of ids, values and readers    *)
(* and every bound.                                                        *)
(*                                                                         *)
(* The argument: every operation of the collection either leaves an id     *)
(* alone or stamps it with a sequence above the old head (Advance), and a  *)
(* trimmed tombstone raises expiredThroughSeq at least to its sequence.    *)
(* So what a replica reflects up to a cursor it keeps reflecting           *)
(* (ReflectsKept), and a read of changes that is not refused as expired,   *)
(* applied to the replica, gives exactly the directory (ReadIsFull).       *)
(***************************************************************************)
EXTENDS DirectorySync, FiniteSetTheorems, WellFoundedInduction, TLAPS

-----------------------------------------------------------------------------
(* Trimming.                                                                *)

\* A non-empty bounded set of naturals has a largest element, so the Math.max
\* of trimTombstones is defined.
LEMMA LargestExists ==
  ASSUME NEW S \in SUBSET Nat, S # {}, NEW n \in Nat, \A x \in S : x <= n
  PROVE  Largest(S) \in S /\ \A x \in S : x <= Largest(S)
<1> DEFINE T == {n - x : x \in S}
           R == OpToRel(<, Nat)
<1>1. T \subseteq Nat
  OBVIOUS
<1>2. T # {}
  <2>1. PICK x \in S : TRUE
    OBVIOUS
  <2> QED
    BY <2>1
<1>3. IsWellFoundedOn(R, Nat)
  BY NatLessThanWellFounded
<1>4. \E t \in T : \A u \in T : ~(<<u, t>> \in R)
  <2> HIDE DEF R, T
  <2> QED
    BY <1>1, <1>2, <1>3, WFMin
<1>5. PICK t \in T : \A u \in T : ~(u < t)
  BY <1>1, <1>4 DEF OpToRel
<1>6. PICK m \in S : t = n - m
  OBVIOUS
<1>7. \A x \in S : x <= m
  BY <1>5, <1>6
<1> QED
  BY <1>7 DEF Largest

\* The new expiredThroughSeq is a sequence already given out, covers the old
\* one and every trimmed tombstone.
LEMMA ExpiredBounds ==
  ASSUME expiredThroughSeq \in Nat, NEW ts \in [Ids -> Nat], NEW n \in Nat,
         expiredThroughSeq <= n, \A i \in Ids : ts[i] <= n
  PROVE  /\ ExpiredAfter(ts) \in Nat
         /\ ExpiredAfter(ts) <= n
         /\ expiredThroughSeq <= ExpiredAfter(ts)
         /\ \A i \in Trimmed(ts) : ts[i] <= ExpiredAfter(ts)
         /\ \/ ExpiredAfter(ts) = expiredThroughSeq
            \/ \E i \in Trimmed(ts) : ExpiredAfter(ts) = ts[i]
<1> DEFINE S == {expiredThroughSeq} \cup {ts[i] : i \in Trimmed(ts)}
<1>1. Trimmed(ts) \subseteq Ids
  BY DEF Trimmed
<1>2. S \in SUBSET Nat /\ S # {} /\ \A x \in S : x <= n
  BY <1>1
<1>3. Largest(S) \in S /\ \A x \in S : x <= Largest(S)
  <2> HIDE DEF S
  <2> QED
    BY <1>2, LargestExists
<1>4. ExpiredAfter(ts) = Largest(S)
  BY DEF ExpiredAfter
<1> QED
  BY <1>1, <1>2, <1>3, <1>4

\* Trimming takes the oldest: a tombstone that is kept is younger than
\* everything expired.
LEMMA KeptAreYounger ==
  ASSUME expiredThroughSeq \in Nat, NEW ts \in [Ids -> Nat], NEW n \in Nat,
         expiredThroughSeq <= n, \A i \in Ids : ts[i] <= n,
         \A i \in Ids : ts[i] # 0 => ts[i] > expiredThroughSeq,
         \A i, j \in Ids : i # j /\ ts[i] # 0 => ts[i] # ts[j],
         NEW k \in Ids, Trim(ts)[k] # 0
  PROVE  Trim(ts)[k] > ExpiredAfter(ts)
<1> DEFINE Above(i) == {j \in Ids : ts[j] > ts[i]}
<1>1. k \notin Trimmed(ts) /\ Trim(ts)[k] = ts[k] /\ ts[k] # 0
  BY DEF Trim
<1>2. ASSUME NEW i \in Trimmed(ts)
      PROVE  ts[i] < ts[k]
  <2>1. i \in Ids /\ ts[i] # 0 /\ Cardinality(Above(i)) >= MaxTombstones
    BY DEF Trimmed
  <2>2. SUFFICES ASSUME ts[k] < ts[i] PROVE FALSE
    BY <1>1, <2>1
  <2>3. Above(i) \in SUBSET Above(k)
    BY <2>1, <2>2
  <2>4. IsFiniteSet(Above(k))
    BY IdsAssumption, FS_Subset
  <2>5. /\ Cardinality(Above(i)) <= Cardinality(Above(k))
        /\ Cardinality(Above(i)) \in Nat
        /\ Cardinality(Above(k)) \in Nat
    <3> HIDE DEF Above
    <3> QED
      BY <2>3, <2>4, FS_Subset, FS_CardinalityType
  <2>6. Cardinality(Above(k)) >= MaxTombstones
    BY <2>1, <2>5, BoundsAssumption
  <2> QED
    BY <1>1, <2>6 DEF Trimmed
<1> QED
  BY <1>1, <1>2, ExpiredBounds

\* Of the tombstones that are kept the oldest has fewer than MaxTombstones
\* younger ones, so with it there are at most MaxTombstones.
LEMMA TrimBounds ==
  ASSUME NEW ts \in [Ids -> Nat], \A j, k \in Ids : j # k /\ ts[j] # 0 => ts[j] # ts[k]
  PROVE  Cardinality({i \in Ids : Trim(ts)[i] # 0}) <= MaxTombstones
<1> DEFINE K == {i \in Ids : Trim(ts)[i] # 0}
           S == {ts[i] : i \in K}
           R == OpToRel(<, Nat)
<1>1. K = {i \in Ids : ts[i] # 0 /\ i \notin Trimmed(ts)}
  BY DEF Trim, Trimmed
<1>2. CASE K = {}
  BY <1>2, FS_EmptySet, BoundsAssumption
<1>3. CASE K # {}
  <2>1. S \subseteq Nat /\ S # {}
    BY <1>3
  <2>2. \E s \in S : \A u \in S : ~(<<u, s>> \in R)
    <3>1. IsWellFoundedOn(R, Nat)
      BY NatLessThanWellFounded
    <3> HIDE DEF R, S
    <3> QED
      BY <2>1, <3>1, WFMin
  <2>3. PICK s \in S : \A u \in S : ~(u < s)
    BY <2>1, <2>2 DEF OpToRel
  <2>4. PICK o \in K : s = ts[o]
    OBVIOUS
  <2> DEFINE Younger == {j \in Ids : ts[j] > ts[o]}
  <2>5. o \in Ids /\ ts[o] # 0 /\ o \notin Trimmed(ts)
    BY <1>1, <2>4
  <2>6. IsFiniteSet(Younger) /\ Cardinality(Younger) \in Nat
    BY IdsAssumption, FS_Subset, FS_CardinalityType
  <2>7. Cardinality(Younger) < MaxTombstones
    BY <2>5, <2>6, BoundsAssumption DEF Trimmed
  <2>8. K \subseteq Younger \cup {o}
    <3> SUFFICES ASSUME NEW k \in K, k # o PROVE ts[k] > ts[o]
      OBVIOUS
    <3>1. k \in Ids /\ ts[k] \in Nat /\ ts[o] \in Nat
      BY <2>5
    <3>2. ~(ts[k] < ts[o])
      BY <2>3, <2>4
    <3>3. ts[k] # ts[o]
      BY <2>5, <3>1
    <3> QED
      BY <3>1, <3>2, <3>3
  <2>9. /\ IsFiniteSet(Younger \cup {o})
        /\ Cardinality(Younger \cup {o}) = Cardinality(Younger) + 1
    <3>1. o \notin Younger
      BY <2>5
    <3> HIDE DEF Younger
    <3> QED
      BY <2>6, <3>1, FS_AddElement
  <2>10. IsFiniteSet(K) /\ Cardinality(K) <= Cardinality(Younger \cup {o})
    <3> HIDE DEF K, Younger
    <3> QED
      BY <2>8, <2>9, FS_Subset
  <2>11. Cardinality(K) \in Nat
    BY <2>10, FS_CardinalityType
  <2> QED
    BY <2>6, <2>7, <2>9, <2>10, <2>11, BoundsAssumption
<1> QED
  BY <1>2, <1>3

-----------------------------------------------------------------------------
(* What every operation of the collection does to an id.                    *)

\* The id keeps its entry; at most its tombstone was trimmed, and then it is
\* covered by expiredThroughSeq.
Untouched(i) ==
  /\ value'[i] = value[i]
  /\ valueSeq'[i] = valueSeq[i]
  /\ \/ tombstone'[i] = tombstone[i]
     \/ tombstone'[i] = 0 /\ tombstone[i] <= expiredThroughSeq'

\* The id's change is stamped above the old head (or already trimmed).
Stamped(i) ==
  \/ value'[i] # None /\ valueSeq'[i] > nextSeq
  \/ value'[i] = None /\ (tombstone'[i] > nextSeq \/ expiredThroughSeq' > nextSeq)

Advance ==
  /\ nextSeq <= nextSeq'
  /\ expiredThroughSeq <= expiredThroughSeq'
  /\ \A i \in Ids : Untouched(i) \/ Stamped(i)

\* Reflects in the next state, of contents of this state.
ReflectsNext(v, s) ==
  /\ s <= nextSeq'
  /\ \A i \in Ids : value'[i] # None /\ valueSeq'[i] <= s => v[i] = value'[i]
  /\ \A i \in Ids :
        value'[i] = None /\ tombstone'[i] <= s /\ expiredThroughSeq' <= s => v[i] = None

\* A replica keeps reflecting what it reflected, whatever the collection does.
LEMMA ReflectsKept ==
  ASSUME TypeOK, TypeOK', Advance
  PROVE  \A v : \A s \in Nat : Reflects(v, s) => ReflectsNext(v, s)
<1> SUFFICES ASSUME NEW v, NEW s \in Nat, Reflects(v, s)
             PROVE  ReflectsNext(v, s)
  OBVIOUS
<1>1. s <= nextSeq'
  BY DEF Reflects, Advance, TypeOK
<1>2. ASSUME NEW i \in Ids, value'[i] # None, valueSeq'[i] <= s
      PROVE  v[i] = value'[i]
  <2>1. ~Stamped(i)
    BY <1>2 DEF Stamped, Reflects, TypeOK
  <2>2. Untouched(i)
    BY <2>1 DEF Advance
  <2> QED
    BY <1>2, <2>2 DEF Untouched, Reflects
<1>3. ASSUME NEW i \in Ids, value'[i] = None, tombstone'[i] <= s, expiredThroughSeq' <= s
      PROVE  v[i] = None
  <2>1. ~Stamped(i)
    BY <1>3 DEF Stamped, Reflects, TypeOK
  <2>2. Untouched(i)
    BY <2>1 DEF Advance
  <2>3. tombstone[i] <= s /\ expiredThroughSeq <= s
    BY <1>3, <2>2 DEF Untouched, Advance, TypeOK
  <2> QED
    BY <1>3, <2>2, <2>3 DEF Untouched, Reflects
<1> QED
  BY <1>1, <1>2, <1>3 DEF ReflectsNext

-----------------------------------------------------------------------------
(* The three operations advance the collection and keep its bookkeeping.    *)

CollectionType ==
  /\ value \in Content
  /\ valueSeq \in [Ids -> Nat]
  /\ tombstone \in [Ids -> Nat]
  /\ expiredThroughSeq \in Nat
  /\ nextSeq \in Nat

\* replace()
LEMMA ReplaceAdvances ==
  ASSUME CollectionType, CollectionOK, NEW i \in Ids, NEW v \in Values, Replace(i, v)
  PROVE  Advance /\ CollectionType' /\ CollectionOK'
<1>1. CollectionType'
  BY DEF CollectionType, Replace, Content, Slot
<1>2. Advance
  BY NoneAssumption DEF CollectionType, Replace, Content, Advance, Untouched, Stamped
<1>3. CollectionOK'
  BY NoneAssumption DEF CollectionType, Replace, Content, CollectionOK
<1> QED
  BY <1>1, <1>2, <1>3

\* What trimming leaves of tombstones that are in order stays in order.
LEMMA TrimKeepsOrder ==
  ASSUME expiredThroughSeq \in Nat, NEW ts \in [Ids -> Nat], NEW n \in Nat,
         expiredThroughSeq <= n, \A i \in Ids : ts[i] <= n,
         \A i \in Ids : ts[i] # 0 => ts[i] > expiredThroughSeq,
         \A i, j \in Ids : i # j /\ ts[i] # 0 => ts[i] # ts[j]
  PROVE  /\ Trim(ts) \in [Ids -> Nat]
         /\ \A i \in Ids : \/ Trim(ts)[i] = ts[i]
                           \/ Trim(ts)[i] = 0 /\ ts[i] <= ExpiredAfter(ts)
         /\ \A i \in Ids : Trim(ts)[i] # 0 => Trim(ts)[i] > ExpiredAfter(ts)
         /\ ExpiredAfter(ts) \in Nat
         /\ expiredThroughSeq <= ExpiredAfter(ts)
         /\ ExpiredAfter(ts) <= n
<1>1. Trim(ts) \in [Ids -> Nat]
  BY DEF Trim
<1>2. \A i \in Ids : Trim(ts)[i] # 0 => Trim(ts)[i] > ExpiredAfter(ts)
  BY KeptAreYounger
<1>3. \A i \in Ids : \/ Trim(ts)[i] = ts[i]
                     \/ Trim(ts)[i] = 0 /\ ts[i] <= ExpiredAfter(ts)
  BY ExpiredBounds DEF Trim
<1> QED
  BY <1>1, <1>2, <1>3, ExpiredBounds

\* remove()
LEMMA RemoveAdvances ==
  ASSUME CollectionType, CollectionOK, NEW i \in Ids, Remove(i)
  PROVE  Advance /\ CollectionType' /\ CollectionOK'
<1> DEFINE ts == [tombstone EXCEPT ![i] = nextSeq + 1]
           n == nextSeq + 1
<1>1. /\ tombstone' = Trim(ts)
      /\ expiredThroughSeq' = ExpiredAfter(ts)
      /\ nextSeq' = n
      /\ value' = [value EXCEPT ![i] = None]
      /\ valueSeq' = [valueSeq EXCEPT ![i] = 0]
  BY DEF Remove
<1>2. /\ ts \in [Ids -> Nat] /\ n \in Nat /\ expiredThroughSeq \in Nat
      /\ expiredThroughSeq <= n
      /\ \A j \in Ids : ts[j] <= n
      /\ \A j \in Ids : ts[j] # 0 => ts[j] > expiredThroughSeq
      /\ \A j, k \in Ids : j # k /\ ts[j] # 0 => ts[j] # ts[k]
  BY DEF CollectionType, CollectionOK
<1>3. \A j \in Ids : j # i => ts[j] = tombstone[j]
  BY DEF CollectionType
<1>4. ts[i] = n
  BY DEF CollectionType
<1>5. /\ Trim(ts) \in [Ids -> Nat]
      /\ \A j \in Ids : \/ Trim(ts)[j] = ts[j]
                        \/ Trim(ts)[j] = 0 /\ ts[j] <= ExpiredAfter(ts)
      /\ \A j \in Ids : Trim(ts)[j] # 0 => Trim(ts)[j] > ExpiredAfter(ts)
      /\ ExpiredAfter(ts) \in Nat
      /\ expiredThroughSeq <= ExpiredAfter(ts)
      /\ ExpiredAfter(ts) <= n
  <2> HIDE DEF ts, n
  <2> QED
    BY <1>2, TrimKeepsOrder
<1> HIDE DEF ts
<1>6. CollectionType'
  <2>1. value' \in Content /\ valueSeq' \in [Ids -> Nat]
    BY <1>1 DEF CollectionType, Content, Slot
  <2> QED
    BY <1>1, <1>2, <1>5, <2>1 DEF CollectionType
<1>7. Advance
  <2>1. \A j \in Ids : j # i => Untouched(j)
    BY <1>1, <1>3, <1>5 DEF CollectionType, Content, Untouched
  <2>2. Stamped(i)
    BY <1>1, <1>4, <1>5 DEF CollectionType, Content, Stamped
  <2> QED
    BY <1>1, <1>5, <2>1, <2>2 DEF Advance, CollectionType
<1>8. CollectionOK'
  <2>1. \A j \in Ids : value'[j] # None <=> valueSeq'[j] # 0
    BY <1>1 DEF CollectionType, CollectionOK, Content
  <2>2. \A j \in Ids : value'[j] # None => tombstone'[j] = 0
    BY <1>1, <1>3, <1>5 DEF CollectionType, CollectionOK, Content
  <2>3. \A j \in Ids : valueSeq'[j] <= nextSeq' /\ tombstone'[j] <= nextSeq'
    BY <1>1, <1>2, <1>5 DEF CollectionType, CollectionOK
  <2>4. \A j, k \in Ids : j # k /\ valueSeq'[j] # 0 =>
          valueSeq'[j] # valueSeq'[k] /\ valueSeq'[j] # tombstone'[k]
    BY <1>1, <1>2, <1>3, <1>4, <1>5 DEF CollectionType, CollectionOK
  <2>5. \A j, k \in Ids : j # k /\ tombstone'[j] # 0 => tombstone'[j] # tombstone'[k]
    BY <1>1, <1>2, <1>5
  <2> QED
    BY <1>1, <1>5, <2>1, <2>2, <2>3, <2>4, <2>5 DEF CollectionOK
<1> QED
  BY <1>6, <1>7, <1>8

\* replaceAll()
LEMMA ReplaceAllAdvances ==
  ASSUME CollectionType, CollectionOK,
         NEW list \in Content, NEW order \in Orders(list), ReplaceAll(list, order)
  PROVE  Advance /\ CollectionType' /\ CollectionOK'
<1> DEFINE ts == [i \in Ids |-> IF i \in Gone(list) THEN order[i]
                               ELSE IF i \in Changed(list) THEN 0 ELSE tombstone[i]]
           n == nextSeq + Cardinality(Touched(list))
<1>1. /\ tombstone' = Trim(ts)
      /\ expiredThroughSeq' = ExpiredAfter(ts)
      /\ nextSeq' = n
      /\ value' = list
      /\ valueSeq' = [i \in Ids |-> IF i \in Changed(list) THEN order[i]
                                    ELSE IF i \in Gone(list) THEN 0 ELSE valueSeq[i]]
  BY DEF ReplaceAll
<1>2. n \in Nat /\ nextSeq <= n
  <2>1. Touched(list) \in SUBSET Ids
    BY DEF Touched, Changed, Gone
  <2>2. Cardinality(Touched(list)) \in Nat
    BY <2>1, IdsAssumption, FS_Subset, FS_CardinalityType
  <2> QED
    BY <2>2 DEF CollectionType
<1>3. /\ \A i \in Touched(list) : order[i] \in Nat /\ order[i] > nextSeq /\ order[i] <= n
      /\ \A i, j \in Touched(list) : order[i] = order[j] => i = j
  BY <1>2 DEF Orders, CollectionType
<1>4. \A i \in Ids :
        \/ /\ i \in Gone(list) /\ i \notin Changed(list) /\ i \in Touched(list)
           /\ list[i] = None /\ value[i] # None
        \/ /\ i \in Changed(list) /\ i \notin Gone(list) /\ i \in Touched(list)
           /\ list[i] # None
        \/ /\ i \notin Gone(list) /\ i \notin Changed(list)
           /\ list[i] = value[i]
  BY DEF Touched, Changed, Gone
<1> HIDE DEF n
<1>5. /\ ts \in [Ids -> Nat] /\ expiredThroughSeq \in Nat
      /\ expiredThroughSeq <= n
      /\ \A j \in Ids : ts[j] <= n
      /\ \A j \in Ids : ts[j] # 0 => ts[j] > expiredThroughSeq
      /\ \A j, k \in Ids : j # k /\ ts[j] # 0 => ts[j] # ts[k]
  BY <1>2, <1>3, <1>4 DEF CollectionType, CollectionOK
<1>6. \A j \in Ids : /\ j \in Gone(list) => ts[j] = order[j]
                     /\ j \in Changed(list) => ts[j] = 0
                     /\ j \notin Gone(list) /\ j \notin Changed(list) => ts[j] = tombstone[j]
  BY <1>4
<1> HIDE DEF ts
<1>7. /\ Trim(ts) \in [Ids -> Nat]
      /\ \A j \in Ids : \/ Trim(ts)[j] = ts[j]
                        \/ Trim(ts)[j] = 0 /\ ts[j] <= ExpiredAfter(ts)
      /\ \A j \in Ids : Trim(ts)[j] # 0 => Trim(ts)[j] > ExpiredAfter(ts)
      /\ ExpiredAfter(ts) \in Nat
      /\ expiredThroughSeq <= ExpiredAfter(ts)
      /\ ExpiredAfter(ts) <= n
  BY <1>2, <1>5, TrimKeepsOrder
<1>8. valueSeq' \in [Ids -> Nat]
  BY <1>1, <1>3, <1>4 DEF CollectionType
<1>9. CollectionType'
  BY <1>1, <1>2, <1>7, <1>8 DEF CollectionType
<1>10. \A j \in Ids :
         /\ j \in Changed(list) => valueSeq'[j] = order[j]
         /\ j \in Gone(list) => valueSeq'[j] = 0
         /\ j \notin Gone(list) /\ j \notin Changed(list) => valueSeq'[j] = valueSeq[j]
  BY <1>1, <1>4
<1>11. Advance
  <2>1. ASSUME NEW j \in Ids
        PROVE  Untouched(j) \/ Stamped(j)
    <3>1. CASE j \in Gone(list)
      BY <1>1, <1>3, <1>4, <1>6, <1>7, <3>1 DEF Stamped, CollectionType
    <3>2. CASE j \in Changed(list)
      BY <1>1, <1>3, <1>4, <1>10, <3>2 DEF Stamped
    <3>3. CASE j \notin Gone(list) /\ j \notin Changed(list)
      BY <1>1, <1>4, <1>6, <1>7, <1>10, <3>3 DEF Untouched
    <3> QED
      BY <3>1, <3>2, <3>3
  <2> QED
    BY <1>1, <1>2, <1>7, <2>1 DEF Advance
<1>12. CollectionOK'
  <2>1. \A j \in Ids : value'[j] # None <=> valueSeq'[j] # 0
    BY <1>1, <1>3, <1>4, <1>10 DEF CollectionType, CollectionOK
  <2>2. \A j \in Ids : value'[j] # None => tombstone'[j] = 0
    BY <1>1, <1>4, <1>6, <1>7 DEF CollectionOK
  <2>3. \A j \in Ids : valueSeq'[j] <= nextSeq'
    BY <1>1, <1>2, <1>3, <1>4, <1>10 DEF CollectionType, CollectionOK
  <2>4. \A j \in Ids : tombstone'[j] <= nextSeq'
    BY <1>1, <1>2, <1>5, <1>7
  <2>5. ASSUME NEW j \in Ids, NEW k \in Ids, j # k, valueSeq'[j] # 0
        PROVE  valueSeq'[j] # valueSeq'[k] /\ valueSeq'[j] # tombstone'[k]
    <3>1. valueSeq'[j] # valueSeq'[k]
      BY <1>3, <1>4, <1>10, <2>5 DEF CollectionType, CollectionOK
    <3>2. valueSeq'[j] # ts[k]
      BY <1>3, <1>4, <1>6, <1>10, <2>5 DEF CollectionType, CollectionOK
    <3> QED
      BY <1>1, <1>7, <2>5, <3>1, <3>2
  <2>6. \A j, k \in Ids : j # k /\ tombstone'[j] # 0 => tombstone'[j] # tombstone'[k]
    BY <1>1, <1>5, <1>7
  <2> QED
    BY <1>1, <1>7, <2>1, <2>2, <2>3, <2>4, <2>5, <2>6 DEF CollectionOK
<1> QED
  BY <1>9, <1>11, <1>12

-----------------------------------------------------------------------------
(* Reads.                                                                   *)

\* The answer to a read of this step, as Synchronize computes it.
Answer(r) == Read(cursor[r], value', valueSeq', tombstone', expiredThroughSeq', nextSeq')

\* Committing the answer would give the reader exactly the directory.
LEMMA ReadIsFull ==
  ASSUME TypeOK, TypeOK', Advance, CollectionOK', generation' = generation,
         ReplicaReflectsCursor, NEW r \in Readers
  PROVE  /\ Apply(view[r], Answer(r)) = value'
         /\ Answer(r).mode # "none"
         /\ Answer(r).generation = generation
         /\ Answer(r).headSeq = nextSeq'
         /\ cursor[r].generation = generation => cursor[r].afterSeq <= nextSeq'
<1> DEFINE c == cursor[r].afterSeq
           snap == ReadSnapshot(value', nextSeq')
           chg == ReadChanges(c, value', valueSeq', tombstone', nextSeq')
<1>1. c \in Nat /\ view[r] \in Content /\ value' \in Content
  BY DEF TypeOK
<1>2. ASSUME cursor[r].generation = generation
      PROVE  ReflectsNext(view[r], c)
  <2>1. Reflects(view[r], c)
    BY <1>2 DEF ReplicaReflectsCursor
  <2> QED
    BY <1>1, <2>1, ReflectsKept
<1>3. cursor[r].generation = generation => c <= nextSeq'
  BY <1>2 DEF ReflectsNext
<1>4. \/ Answer(r) = snap
      \/ /\ Answer(r) = chg
         /\ cursor[r].generation = generation
         /\ ~(c < expiredThroughSeq')
  BY DEF Answer, Read, ReadAfter
<1>5. CASE Answer(r) = snap
  <2>1. /\ snap.removals = {} /\ snap.values = value' /\ snap.mode = "snapshot"
        /\ snap.generation = generation /\ snap.headSeq = nextSeq'
    BY DEF ReadSnapshot
  <2>2. Apply(view[r], snap) = [i \in Ids |-> value'[i]]
    BY <2>1 DEF Apply, CommitSnapshot, CommitChanges
  <2>3. [i \in Ids |-> value'[i]] = value'
    BY <1>1 DEF Content
  <2> QED
    BY <1>3, <1>5, <2>1, <2>2, <2>3
<1>6. CASE /\ Answer(r) = chg
           /\ cursor[r].generation = generation
           /\ ~(c < expiredThroughSeq')
  <2>1. /\ chg.removals = {i \in Ids : tombstone'[i] > c}
        /\ chg.values = [i \in Ids |-> IF value'[i] # None /\ valueSeq'[i] > c
                                       THEN value'[i] ELSE None]
        /\ chg.mode = "changes"
        /\ chg.generation = generation /\ chg.headSeq = nextSeq'
    BY DEF ReadChanges
  <2>2. ASSUME NEW i \in Ids
        PROVE  Apply(view[r], chg)[i] = value'[i]
    <3>1. Apply(view[r], chg)[i] =
            IF tombstone'[i] > c THEN None
            ELSE IF value'[i] # None /\ valueSeq'[i] > c THEN value'[i] ELSE view[r][i]
      <4> HIDE DEF chg
      <4> QED
        BY <2>1 DEF Apply, CommitSnapshot, CommitChanges
    <3>2. expiredThroughSeq' <= c
      BY <1>1, <1>6 DEF TypeOK
    <3>3. valueSeq'[i] \in Nat /\ tombstone'[i] \in Nat
      BY DEF TypeOK
    <3>4. CASE value'[i] # None
      <4>1. tombstone'[i] = 0
        BY <3>4 DEF CollectionOK
      <4>2. valueSeq'[i] <= c => view[r][i] = value'[i]
        BY <1>2, <1>6, <3>4 DEF ReflectsNext
      <4> HIDE DEF chg
      <4> QED
        BY <1>1, <3>1, <3>3, <3>4, <4>1, <4>2
    <3>5. CASE value'[i] = None
      <4>1. tombstone'[i] <= c => view[r][i] = None
        BY <1>2, <1>6, <3>2, <3>5 DEF ReflectsNext
      <4> HIDE DEF chg
      <4> QED
        BY <1>1, <3>1, <3>3, <3>5, <4>1
    <3> QED
      BY <3>4, <3>5
  <2>3. Apply(view[r], chg) = value'
    <3>1. Apply(view[r], chg) = [i \in Ids |-> Apply(view[r], chg)[i]]
      BY DEF Apply, CommitSnapshot, CommitChanges
    <3> HIDE DEF chg
    <3> QED
      BY <1>1, <2>2, <3>1 DEF Content
  <2> QED
    BY <1>3, <1>6, <2>1, <2>3
<1> QED
  BY <1>4, <1>5, <1>6

-----------------------------------------------------------------------------
(* The inductive invariant.                                                 *)

IInv == TypeOK /\ CollectionOK /\ ReplicaReflectsCursor

\* The first daemon start satisfies the inductive invariant.
LEMMA InitEstablishes == Init => IInv
<1> SUFFICES ASSUME Init PROVE IInv
  OBVIOUS
<1>1. TypeOK
  BY DEF Init, TypeOK, Content, Slot, Empty, NoCursor, NoResponse, Modes
<1>2. CollectionOK
  BY DEF Init, CollectionOK, Empty
<1>3. ReplicaReflectsCursor
  BY DEF Init, ReplicaReflectsCursor, NoCursor
<1> QED
  BY <1>1, <1>2, <1>3 DEF IInv

\* A step of the collection that delivers no answer keeps the replicas right.
LEMMA AdvanceKeepsReplicas ==
  ASSUME IInv, TypeOK', Advance, generation' = generation,
         NEW r \in Readers,
         view'[r] = view[r], cursor'[r] = cursor[r], response'[r] = response[r]
  PROVE  /\ cursor[r].generation <= generation'
         /\ cursor[r].generation = generation' => ReflectsNext(view[r], cursor[r].afterSeq)
         /\ response[r] # NoResponse =>
              /\ response[r].generation = generation'
              /\ ReflectsNext(Apply(view[r], response[r]), response[r].headSeq)
              /\ cursor[r].generation = generation' =>
                   cursor[r].afterSeq <= response[r].headSeq
<1>1. cursor[r].afterSeq \in Nat /\ response[r].headSeq \in Nat
  BY DEF IInv, TypeOK
<1>2. \A v : \A s \in Nat : Reflects(v, s) => ReflectsNext(v, s)
  BY ReflectsKept DEF IInv
<1> QED
  BY <1>1, <1>2 DEF IInv, ReplicaReflectsCursor

\* Every operation of collection and readers preserves it.
LEMMA NextPreserves == IInv /\ [Next]_vars => IInv'
<1> SUFFICES ASSUME IInv, [Next]_vars PROVE IInv'
  OBVIOUS
<1> USE DEF IInv
<1>t. CollectionType /\ CollectionOK /\ TypeOK
  BY DEF TypeOK, CollectionType
<1>1. ASSUME NEW i \in Ids, NEW v \in Values, Replace(i, v)
      PROVE  IInv'
  <2>1. Advance /\ CollectionType' /\ CollectionOK'
    BY <1>t, <1>1, ReplaceAdvances
  <2>2. UNCHANGED <<generation, view, cursor, response>>
    BY <1>1 DEF Replace
  <2>3. TypeOK'
    BY <2>1, <2>2 DEF TypeOK, CollectionType
  <2>4. ReplicaReflectsCursor'
    BY <2>1, <2>2, <2>3, AdvanceKeepsReplicas
       DEF ReplicaReflectsCursor, Reflects, ReflectsNext
  <2> QED
    BY <2>1, <2>3, <2>4
<1>2. ASSUME NEW i \in Ids, Remove(i)
      PROVE  IInv'
  <2>1. Advance /\ CollectionType' /\ CollectionOK'
    BY <1>t, <1>2, RemoveAdvances
  <2>2. UNCHANGED <<generation, view, cursor, response>>
    BY <1>2 DEF Remove
  <2>3. TypeOK'
    BY <2>1, <2>2 DEF TypeOK, CollectionType
  <2>4. ReplicaReflectsCursor'
    BY <2>1, <2>2, <2>3, AdvanceKeepsReplicas
       DEF ReplicaReflectsCursor, Reflects, ReflectsNext
  <2> QED
    BY <2>1, <2>3, <2>4
<1>3. ASSUME NEW r \in Readers, NEW list \in Content, NEW order \in Orders(list),
             Synchronize(r, list, order)
      PROVE  IInv'
  <2>1. Advance /\ CollectionType' /\ CollectionOK'
    BY <1>t, <1>3, ReplaceAllAdvances DEF Synchronize
  <2>2. /\ UNCHANGED <<generation, view, cursor>>
        /\ response' = [response EXCEPT ![r] = Answer(r)]
    BY <1>3 DEF Synchronize, Answer
  <2>3. Answer(r) \in [mode : Modes, generation : Nat, headSeq : Nat,
                       values : Content, removals : SUBSET Ids]
    <3>1. value' \in Content /\ nextSeq' \in Nat /\ generation \in Nat
      BY <2>1 DEF CollectionType, TypeOK
    <3>2. \A after : [i \in Ids |-> IF value'[i] # None /\ valueSeq'[i] > after
                                     THEN value'[i] ELSE None] \in Content
      BY <3>1 DEF Content, Slot
    <3> QED
      BY <3>1, <3>2 DEF Answer, Read, ReadAfter, ReadSnapshot, ReadChanges, Modes
  <2>4. TypeOK'
    BY <2>1, <2>2, <2>3 DEF TypeOK, CollectionType
  <2>5. /\ Apply(view[r], Answer(r)) = value'
        /\ Answer(r).mode # "none"
        /\ Answer(r).generation = generation
        /\ Answer(r).headSeq = nextSeq'
        /\ cursor[r].generation = generation => cursor[r].afterSeq <= nextSeq'
    BY <2>1, <2>2, <2>4, ReadIsFull
  <2>6. ASSUME NEW q \in Readers
        PROVE  /\ cursor'[q].generation <= generation'
               /\ cursor'[q].generation = generation' =>
                    Reflects(view[q], cursor[q].afterSeq)'
               /\ response'[q] # NoResponse =>
                    /\ response'[q].generation = generation'
                    /\ Reflects(Apply(view[q], response[q]), response[q].headSeq)'
                    /\ cursor'[q].generation = generation' =>
                         cursor'[q].afterSeq <= response'[q].headSeq
    <3>1. CASE q # r
      <4>1. response'[q] = response[q]
        BY <2>2, <3>1 DEF TypeOK
      <4> QED
        BY <2>1, <2>2, <2>4, <4>1, AdvanceKeepsReplicas DEF Reflects, ReflectsNext
    <3>2. CASE q = r
      <4>1. response'[r] = Answer(r)
        BY <2>2 DEF TypeOK
      <4>2. Reflects(Apply(view[r], response[r]), response[r].headSeq)'
        <5>1. Apply(view[r], response[r])' = value'
          BY <2>2, <2>5, <4>1 DEF Apply, CommitSnapshot, CommitChanges
        <5> QED
          BY <2>4, <2>5, <4>1, <5>1 DEF Reflects, TypeOK
      <4>3. cursor[r].generation = generation => ReflectsNext(view[r], cursor[r].afterSeq)
        <5>1. cursor[r].afterSeq \in Nat
          BY DEF TypeOK
        <5>2. cursor[r].generation = generation => Reflects(view[r], cursor[r].afterSeq)
          BY DEF ReplicaReflectsCursor
        <5> QED
          BY <1>t, <2>1, <2>4, <5>1, <5>2, ReflectsKept
      <4>4. cursor[r].generation <= generation
        BY DEF ReplicaReflectsCursor
      <4> QED
        BY <2>2, <2>5, <3>2, <4>1, <4>2, <4>3, <4>4 DEF Reflects, ReflectsNext
    <3> QED
      BY <3>1, <3>2
  <2>7. ReplicaReflectsCursor'
    BY <2>6 DEF ReplicaReflectsCursor
  <2> QED
    BY <2>1, <2>4, <2>7
<1>4. ASSUME NEW r \in Readers, Commit(r)
      PROVE  IInv'
  <2> DEFINE new == Apply(view[r], response[r])
             cur == [generation |-> response[r].generation, afterSeq |-> response[r].headSeq]
  <2>1. /\ UNCHANGED <<value, valueSeq, tombstone, expiredThroughSeq, nextSeq, generation>>
        /\ view' = [view EXCEPT ![r] = new]
        /\ cursor' = [cursor EXCEPT ![r] = WriteCursor(cursor[r], cur)]
        /\ response' = [response EXCEPT ![r] = NoResponse]
        /\ response[r] # NoResponse
    BY <1>4 DEF Commit, collection
  <2>2. new \in Content
    BY DEF TypeOK, Apply, CommitSnapshot, CommitChanges, Content, Slot
  <2>3. cur \in [generation : Nat, afterSeq : Nat]
    BY DEF TypeOK
  <2>4. NoResponse \in [mode : Modes, generation : Nat, headSeq : Nat,
                        values : Content, removals : SUBSET Ids]
    BY DEF NoResponse, Modes, Content, Slot, Empty
  <2>5. TypeOK'
    <3> HIDE DEF new, cur
    <3> QED
      BY <2>1, <2>2, <2>3, <2>4 DEF TypeOK, WriteCursor
  <2>6. CollectionOK'
    BY <2>1 DEF CollectionOK
  <2>7. /\ response[r].generation = generation
        /\ Reflects(new, response[r].headSeq)
        /\ cursor[r].generation = generation => cursor[r].afterSeq <= response[r].headSeq
    BY <2>1 DEF ReplicaReflectsCursor
  <2>8. /\ WriteCursor(cursor[r], cur).generation = generation
        /\ WriteCursor(cursor[r], cur).afterSeq = response[r].headSeq
    <3>1. cursor[r].afterSeq \in Nat /\ response[r].headSeq \in Nat
      BY DEF TypeOK
    <3>2. cur.generation = generation /\ cur.afterSeq = response[r].headSeq
      BY <2>7
    <3> HIDE DEF cur, IInv
    <3> QED
      BY <2>7, <3>1, <3>2 DEF WriteCursor
  <2>9. ReplicaReflectsCursor'
    <3> HIDE DEF new, cur
    <3>1. ASSUME NEW q \in Readers
          PROVE  /\ cursor'[q].generation <= generation'
                 /\ cursor'[q].generation = generation' =>
                      Reflects(view[q], cursor[q].afterSeq)'
                 /\ response'[q] # NoResponse =>
                      /\ response'[q].generation = generation'
                      /\ Reflects(Apply(view[q], response[q]), response[q].headSeq)'
                      /\ cursor'[q].generation = generation' =>
                           cursor'[q].afterSeq <= response'[q].headSeq
      <4>1. CASE q # r
        <5>1. view'[q] = view[q] /\ cursor'[q] = cursor[q] /\ response'[q] = response[q]
          BY <2>1, <4>1 DEF TypeOK
        <5> QED
          BY <2>1, <5>1 DEF ReplicaReflectsCursor, Reflects, Apply, CommitSnapshot, CommitChanges
      <4>2. CASE q = r
        <5>1. /\ view'[r] = new /\ response'[r] = NoResponse
              /\ cursor'[r] = WriteCursor(cursor[r], cur)
          BY <2>1 DEF TypeOK
        <5> QED
          BY <2>1, <2>7, <2>8, <4>2, <5>1 DEF Reflects, TypeOK
      <4> QED
        BY <4>1, <4>2
    <3> QED
      BY <3>1 DEF ReplicaReflectsCursor
  <2> QED
    BY <2>5, <2>6, <2>9
<1>5. ASSUME NEW r \in Readers, Lose(r)
      PROVE  IInv'
  <2>1. /\ UNCHANGED <<value, valueSeq, tombstone, expiredThroughSeq, nextSeq, generation,
                       view, cursor>>
        /\ response' = [response EXCEPT ![r] = NoResponse]
    BY <1>5 DEF Lose
  <2>2. NoResponse \in [mode : Modes, generation : Nat, headSeq : Nat,
                        values : Content, removals : SUBSET Ids]
    BY DEF NoResponse, Modes, Content, Slot, Empty
  <2>3. TypeOK' /\ CollectionOK'
    BY <2>1, <2>2 DEF TypeOK, CollectionOK
  <2>4. \A q \in Readers : response'[q] = response[q] \/ response'[q] = NoResponse
    BY <2>1 DEF TypeOK
  <2>5. ReplicaReflectsCursor'
    BY <2>1, <2>4 DEF ReplicaReflectsCursor, Reflects, Apply, CommitSnapshot, CommitChanges
  <2> QED
    BY <2>3, <2>5
<1>6. ASSUME Restart
      PROVE  IInv'
  <2>1. TypeOK'
    BY <1>6 DEF TypeOK, Restart, Content, Slot, Empty, NoResponse, Modes
  <2>2. CollectionOK'
    BY <1>6 DEF CollectionOK, Restart, Empty
  <2>3. \A q \in Readers : cursor'[q].generation < generation'
    BY <1>6 DEF Restart, ReplicaReflectsCursor, TypeOK
  <2>4. ReplicaReflectsCursor'
    <3>1. \A q \in Readers : response'[q] = NoResponse
      BY <1>6 DEF Restart
    <3>2. \A q \in Readers : cursor'[q].generation \in Nat /\ generation' \in Nat
      BY <2>1 DEF TypeOK
    <3> QED
      BY <2>3, <3>1, <3>2 DEF ReplicaReflectsCursor
  <2> QED
    BY <2>1, <2>2, <2>4
<1>7. CASE UNCHANGED vars
  BY <1>7 DEF vars, TypeOK, CollectionOK, ReplicaReflectsCursor, Reflects, Apply, CommitSnapshot, CommitChanges
<1> QED
  BY <1>1, <1>2, <1>3, <1>4, <1>5, <1>6, <1>7 DEF Next, SequenceUpdate

-----------------------------------------------------------------------------
(* The theorems.                                                            *)

\* The inductive invariant holds in every behaviour.
LEMMA Invariance == Spec => []IInv
  BY InitEstablishes, NextPreserves, PTL DEF Spec

\* Type correctness of the collection, the cursors and the answers in flight.
THEOREM TypeCorrect == Spec => []TypeOK
  BY Invariance, PTL DEF IInv

\* The bookkeeping of VersionedCollection: replace, remove, replaceAll and
\* trimTombstones never leave an id both visible and tombstoned, never give
\* two changes one sequence, and expire tombstones oldest first.
THEOREM CollectionCorrect == Spec => []CollectionOK
  BY Invariance, PTL DEF IInv

\* No change falls between two reads: a replica reflects everything up to its
\* cursor, however reads, trims, lost answers and restarts interleave.
THEOREM ReplicaCorrect == Spec => []ReplicaReflectsCursor
  BY Invariance, PTL DEF IInv

\* Every step leaves at most MaxTombstones tombstones.
LEMMA NextBounds == IInv /\ TombstonesBounded /\ [Next]_vars => TombstonesBounded'
<1> SUFFICES ASSUME IInv, TombstonesBounded, [Next]_vars
             PROVE  TombstonesBounded'
  OBVIOUS
<1>0. /\ value \in Content /\ tombstone \in [Ids -> Nat] /\ nextSeq \in Nat /\ CollectionOK
      /\ \A j \in Ids : tombstone[j] \in Nat /\ tombstone[j] <= nextSeq
      /\ \A j, k \in Ids : j # k /\ tombstone[j] # 0 => tombstone[j] # tombstone[k]
  BY DEF IInv, TypeOK, CollectionOK
<1>1. ASSUME NEW i \in Ids, NEW v \in Values, Replace(i, v)
      PROVE  TombstonesBounded'
  <2> DEFINE K == {j \in Ids : tombstone[j] # 0}
             L == {j \in Ids : tombstone'[j] # 0}
  <2>1. L \subseteq K
    BY <1>0, <1>1 DEF Replace
  <2>2. IsFiniteSet(K)
    BY IdsAssumption, FS_Subset
  <2>3. Cardinality(L) <= Cardinality(K) /\ Cardinality(L) \in Nat /\ Cardinality(K) \in Nat
    <3> HIDE DEF K, L
    <3> QED
      BY <2>1, <2>2, FS_Subset, FS_CardinalityType
  <2> QED
    BY <2>3, BoundsAssumption DEF TombstonesBounded
<1>2. ASSUME NEW i \in Ids, Remove(i)
      PROVE  TombstonesBounded'
  <2> DEFINE ts == [tombstone EXCEPT ![i] = nextSeq + 1]
  <2>1. ts \in [Ids -> Nat] /\ \A j, k \in Ids : j # k /\ ts[j] # 0 => ts[j] # ts[k]
    BY <1>0
  <2>2. tombstone' = Trim(ts)
    BY <1>2 DEF Remove
  <2> HIDE DEF ts
  <2> QED
    BY <2>1, <2>2, TrimBounds DEF TombstonesBounded
<1>3. ASSUME NEW r \in Readers, NEW list \in Content, NEW order \in Orders(list),
             Synchronize(r, list, order)
      PROVE  TombstonesBounded'
  <2> DEFINE ts == [i \in Ids |-> IF i \in Gone(list) THEN order[i]
                                 ELSE IF i \in Changed(list) THEN 0 ELSE tombstone[i]]
  <2>1. Gone(list) \subseteq Touched(list)
    BY DEF Touched
  <2>2. /\ \A i \in Gone(list) : order[i] \in Nat /\ order[i] > nextSeq
        /\ \A i, j \in Gone(list) : order[i] = order[j] => i = j
    BY <1>0, <2>1 DEF Orders
  <2>3. ts \in [Ids -> Nat] /\ \A j, k \in Ids : j # k /\ ts[j] # 0 => ts[j] # ts[k]
    BY <1>0, <2>2
  <2>4. tombstone' = Trim(ts)
    BY <1>3 DEF Synchronize, ReplaceAll
  <2> HIDE DEF ts
  <2> QED
    BY <2>3, <2>4, TrimBounds DEF TombstonesBounded
<1>4. ASSUME Restart
      PROVE  TombstonesBounded'
  <2>1. {i \in Ids : tombstone'[i] # 0} = {}
    BY <1>4 DEF Restart
  <2> QED
    BY <2>1, FS_EmptySet, BoundsAssumption DEF TombstonesBounded
<1>5. ASSUME UNCHANGED tombstone
      PROVE  TombstonesBounded'
  BY <1>5 DEF TombstonesBounded
<1>6. ASSUME NEW r \in Readers, Commit(r) \/ Lose(r)
      PROVE  TombstonesBounded'
  BY <1>5, <1>6 DEF Commit, Lose, collection
<1>7. ASSUME UNCHANGED vars
      PROVE  TombstonesBounded'
  BY <1>5, <1>7 DEF vars
<1> QED
  BY <1>1, <1>2, <1>3, <1>4, <1>6, <1>7 DEF Next, SequenceUpdate

\* trimTombstones keeps its limit, however many entries one listing removes.
THEOREM TombstonesStayBounded == Spec => []TombstonesBounded
<1>1. Init => TombstonesBounded
  <2> SUFFICES ASSUME Init PROVE TombstonesBounded
    OBVIOUS
  <2>1. {i \in Ids : tombstone[i] # 0} = {}
    BY DEF Init
  <2> QED
    BY <2>1, FS_EmptySet, BoundsAssumption DEF TombstonesBounded
<1> QED
  BY <1>1, Invariance, NextBounds, PTL DEF Spec

\* Every step of the sequenced directory is a step of the full-copy directory.
LEMMA StepImplements == IInv /\ IInv' /\ [Next]_vars => [Mirror!Next]_(Mirror!vars)
<1> SUFFICES ASSUME IInv, IInv', [Next]_vars
             PROVE  [Mirror!Next]_(Mirror!vars)
  OBVIOUS
<1> USE DEF IInv
<1> DEFINE answerNow == [r \in Readers |-> Pending(r)]
<1>1. ASSUME NEW i \in Ids, NEW v \in Values, Replace(i, v)
      PROVE  Mirror!Change
  BY <1>1 DEF Replace, Mirror!Change, Pending, Apply, CommitSnapshot, CommitChanges, TypeOK
<1>2. ASSUME NEW i \in Ids, Remove(i)
      PROVE  Mirror!Change
  BY <1>2 DEF Remove, Mirror!Change, Pending, Apply, CommitSnapshot, CommitChanges, TypeOK
<1>3. ASSUME NEW r \in Readers, NEW list \in Content, NEW order \in Orders(list),
             Synchronize(r, list, order)
      PROVE  Mirror!Read(r)
  <2>1. Advance
    BY <1>3, ReplaceAllAdvances DEF Synchronize, TypeOK, CollectionType
  <2>2. /\ UNCHANGED <<generation, view, cursor>>
        /\ response' = [response EXCEPT ![r] = Answer(r)]
    BY <1>3 DEF Synchronize, Answer
  <2>3. Apply(view[r], Answer(r)) = value' /\ Answer(r).mode # "none"
    BY <2>1, <2>2, ReadIsFull
  <2>4. Answer(r) # NoResponse
    BY <2>3 DEF NoResponse
  <2>5. response'[r] = Answer(r) /\ \A q \in Readers : q # r => response'[q] = response[q]
    BY <2>2 DEF TypeOK
  <2>6. Pending(r)' = {value'}
    BY <2>2, <2>3, <2>4, <2>5 DEF Pending, Apply, CommitSnapshot, CommitChanges
  <2>7. \A q \in Readers : q # r => Pending(q)' = Pending(q)
    BY <2>2, <2>5 DEF Pending, Apply, CommitSnapshot, CommitChanges
  <2>8. answerNow' = [answerNow EXCEPT ![r] = {value'}]
    BY <2>6, <2>7
  <2> QED
    BY <2>2, <2>8 DEF Mirror!Read, TypeOK
<1>4. ASSUME NEW r \in Readers, Commit(r)
      PROVE  Mirror!Commit(r)
  <2>1. /\ UNCHANGED <<value, valueSeq, tombstone, expiredThroughSeq, nextSeq, generation>>
        /\ view' = [view EXCEPT ![r] = Apply(view[r], response[r])]
        /\ response' = [response EXCEPT ![r] = NoResponse]
        /\ response[r] # NoResponse
    BY <1>4 DEF Commit, collection
  <2>2. Pending(r) = {Apply(view[r], response[r])}
    BY <2>1 DEF Pending
  <2>3. Pending(r)' = {}
    BY <2>1 DEF Pending, TypeOK
  <2>4. \A q \in Readers : q # r => Pending(q)' = Pending(q)
    BY <2>1 DEF Pending, Apply, CommitSnapshot, CommitChanges, TypeOK
  <2>5. answerNow' = [answerNow EXCEPT ![r] = {}]
    BY <2>3, <2>4
  <2>6. \E copy \in answerNow[r] : view' = [view EXCEPT ![r] = copy]
    BY <2>1, <2>2
  <2> QED
    BY <2>1, <2>5, <2>6 DEF Mirror!Commit
<1>5. ASSUME NEW r \in Readers, Lose(r)
      PROVE  Mirror!Lose(r)
  <2>1. /\ UNCHANGED <<value, view>>
        /\ response' = [response EXCEPT ![r] = NoResponse]
    BY <1>5 DEF Lose
  <2>2. Pending(r)' = {} /\ \A q \in Readers : q # r => Pending(q)' = Pending(q)
    BY <2>1 DEF Pending, Apply, CommitSnapshot, CommitChanges, TypeOK
  <2>3. answerNow' = [answerNow EXCEPT ![r] = {}]
    BY <2>2
  <2> QED
    BY <2>1, <2>3 DEF Mirror!Lose
<1>6. ASSUME Restart
      PROVE  Mirror!Restart
  <2>1. \A q \in Readers : Pending(q)' = {}
    BY <1>6 DEF Restart, Pending
  <2> QED
    BY <1>6, <2>1 DEF Restart, Mirror!Restart
<1>7. CASE UNCHANGED vars
  BY <1>7 DEF vars, Mirror!vars, Pending, Apply, CommitSnapshot, CommitChanges
<1> QED
  BY <1>1, <1>2, <1>3, <1>4, <1>5, <1>6, <1>7 DEF Next, Mirror!Next, SequenceUpdate

\* The sequenced directory implements the full-copy directory: a client that
\* reads changes after its cursor cannot be told from one that is sent
\* everything.
THEOREM MirrorImplemented == Spec => ImplementsMirror
<1>1. Init => Mirror!Init
  BY DEF Init, Mirror!Init, Pending
<1> QED
  BY <1>1, Invariance, StepImplements, PTL DEF Spec, ImplementsMirror, Mirror!Spec
=============================================================================
