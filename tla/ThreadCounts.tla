---------------------------- MODULE ThreadCounts ----------------------------
(***************************************************************************)
(* Counting the threads that a program counter places at some points, and  *)
(* the places of a queue that hold a value, for the proofs about the two   *)
(* queues and the pool (RingQueueProofs, BlockQueueProofs, ServerProofs).  *)
(***************************************************************************)
EXTENDS Integers, Sequences, FiniteSets, FiniteSetTheorems, TLAPS

\* How many threads of T a program counter f places at some points.
Count(f, T, points) == Cardinality({u \in T : f[u] \in points})

\* Two program counters that differ only for the thread t: the number of
\* threads at some points differs by what t contributes.
LEMMA CountsDiffer ==
    ASSUME NEW f, NEW g, NEW T, IsFiniteSet(T), NEW t,
           \A u \in T \ {t} : g[u] = f[u], NEW points
    PROVE  Count(g, T, points) =
             Count(f, T, points) + (IF t \in T /\ g[t] \in points THEN 1 ELSE 0)
                                 - (IF t \in T /\ f[t] \in points THEN 1 ELSE 0)
<1> DEFINE A == {u \in T : f[u] \in points}
           B == {u \in T : g[u] \in points}
<1>1. A \in SUBSET T /\ B \in SUBSET T
  OBVIOUS
<1>2. IsFiniteSet(A) /\ IsFiniteSet(B) /\ Cardinality(A) \in Nat /\ Cardinality(B) \in Nat
  BY <1>1, FS_Subset, FS_CardinalityType
<1>4. CASE t \in T /\ g[t] \in points
  <2>1. B = A \cup {t}
    BY <1>4
  <2>2. t \in A <=> f[t] \in points
    BY <1>4
  <2> HIDE DEF A, B
  <2>3. Cardinality(B) = IF t \in A THEN Cardinality(A) ELSE Cardinality(A) + 1
    BY <2>1, <1>2, FS_AddElement
  <2>4. Cardinality(B) = Cardinality(A) + 1 - (IF f[t] \in points THEN 1 ELSE 0)
    BY <2>2, <2>3, <1>2
  <2> QED  BY <2>4, <1>2, <1>4 DEF A, B, Count
<1>5. CASE t \in T /\ g[t] \notin points
  <2>1. B = A \ {t}
    BY <1>5
  <2>2. t \in A <=> f[t] \in points
    BY <1>5
  <2> HIDE DEF A, B
  <2>3. Cardinality(B) = IF t \in A THEN Cardinality(A) - 1 ELSE Cardinality(A)
    BY <2>1, <1>2, FS_RemoveElement
  <2>4. Cardinality(B) = Cardinality(A) + 0 - (IF f[t] \in points THEN 1 ELSE 0)
    BY <2>2, <2>3, <1>2
  <2> QED  BY <2>4, <1>2, <1>5 DEF A, B, Count
<1>6. CASE t \notin T
  <2>1. A = B
    BY <1>6
  <2>2. Count(f, T, points) = Cardinality(A) /\ Count(g, T, points) = Cardinality(B)
    BY DEF Count
  <2> HIDE DEF A, B
  <2> QED  BY <2>1, <2>2, <1>2, <1>6
<1> QED  BY <1>4, <1>5, <1>6

\* Moving one thread to another point.
LEMMA MoveCounts ==
    ASSUME NEW f, NEW T, IsFiniteSet(T), T \subseteq DOMAIN f,
           NEW t \in DOMAIN f, NEW v, NEW points
    PROVE  Count([f EXCEPT ![t] = v], T, points) =
             Count(f, T, points) + (IF t \in T /\ v \in points THEN 1 ELSE 0)
                                 - (IF t \in T /\ f[t] \in points THEN 1 ELSE 0)
<1> DEFINE g == [f EXCEPT ![t] = v]
<1>1. g[t] = v /\ \A u \in T \ {t} : g[u] = f[u]
  OBVIOUS
<1> HIDE DEF g
<1>2. Count(g, T, points) =
             Count(f, T, points) + (IF t \in T /\ g[t] \in points THEN 1 ELSE 0)
                                 - (IF t \in T /\ f[t] \in points THEN 1 ELSE 0)
  BY <1>1, CountsDiffer
<1> QED  BY <1>1, <1>2 DEF g

\* The number of threads at some points is a natural number, and positive
\* when one is there.
LEMMA CountType ==
    ASSUME NEW f, NEW T, IsFiniteSet(T), NEW points
    PROVE  /\ Count(f, T, points) \in Nat
           /\ \A t \in T : f[t] \in points => Count(f, T, points) > 0
<1> DEFINE A == {u \in T : f[u] \in points}
<1>1. IsFiniteSet(A) /\ Cardinality(A) \in Nat
  BY FS_Subset, FS_CardinalityType
<1>2. ASSUME NEW t \in T, f[t] \in points  PROVE Cardinality(A) > 0
  <2>1. A # {}
    BY <1>2
  <2> HIDE DEF A
  <2> QED  BY <1>1, <2>1, FS_EmptySet
<1> QED  BY <1>1, <1>2 DEF Count
-----------------------------------------------------------------------------
(* Counting the places of a sequence that hold a value.                    *)

\* How often i is in the queue q.
Occurs(q, i) == Cardinality({k \in DOMAIN q : q[k] = i})

\* A count of places is a natural number.
LEMMA OccursType ==
    ASSUME NEW S, NEW q \in Seq(S), NEW i
    PROVE  Occurs(q, i) \in Nat /\ IsFiniteSet({k \in DOMAIN q : q[k] = i})
<1>1. DOMAIN q = 1 .. Len(q) /\ Len(q) \in Nat
  OBVIOUS
<1>2. IsFiniteSet(DOMAIN q)
  BY <1>1, FS_Interval
<1>3. {k \in DOMAIN q : q[k] = i} \subseteq DOMAIN q
  OBVIOUS
<1> QED  BY <1>2, <1>3, FS_Subset, FS_CardinalityType DEF Occurs

\* Append adds one place, to what it appends.
LEMMA OccursAppend ==
    ASSUME NEW S, NEW q \in Seq(S), NEW x \in S, NEW i
    PROVE  Occurs(Append(q, x), i) = Occurs(q, i) + (IF x = i THEN 1 ELSE 0)
<1> DEFINE A == {k \in DOMAIN q : q[k] = i}
           B == {k \in DOMAIN Append(q, x) : Append(q, x)[k] = i}
<1>1. /\ Len(q) \in Nat /\ DOMAIN q = 1 .. Len(q)
      /\ DOMAIN Append(q, x) = 1 .. (Len(q) + 1)
      /\ Append(q, x)[Len(q) + 1] = x
      /\ \A k \in 1 .. Len(q) : Append(q, x)[k] = q[k]
  OBVIOUS
<1>2. B = IF x = i THEN A \cup {Len(q) + 1} ELSE A
  BY <1>1
<1>3. Len(q) + 1 \notin A
  BY <1>1
<1>4. IsFiniteSet(A) /\ Cardinality(A) \in Nat
  BY OccursType DEF Occurs
<1>5. Occurs(q, i) = Cardinality(A) /\ Occurs(Append(q, x), i) = Cardinality(B)
  BY DEF Occurs
<1> HIDE DEF A, B
<1>6. Cardinality(A \cup {Len(q) + 1}) = Cardinality(A) + 1
  BY <1>3, <1>4, FS_AddElement
<1>7. CASE x = i
  BY <1>2, <1>5, <1>6, <1>7
<1>8. CASE x # i
  BY <1>2, <1>4, <1>5, <1>8
<1> QED  BY <1>7, <1>8

\* Tail takes one place away, from the head.
LEMMA OccursTail ==
    ASSUME NEW S, NEW q \in Seq(S), q # <<>>, NEW i
    PROVE  Occurs(Tail(q), i) = Occurs(q, i) - (IF Head(q) = i THEN 1 ELSE 0)
<1> DEFINE A == {k \in DOMAIN q : q[k] = i}
           B == {k \in DOMAIN Tail(q) : Tail(q)[k] = i}
           C == A \ {1}
           f == [k \in B |-> k + 1]
<1>1. /\ Len(q) \in Nat /\ Len(q) > 0 /\ DOMAIN q = 1 .. Len(q)
      /\ DOMAIN Tail(q) = 1 .. (Len(q) - 1) /\ Head(q) = q[1]
      /\ \A k \in 1 .. (Len(q) - 1) : Tail(q)[k] = q[k + 1]
  OBVIOUS
<1>2. f \in Bijection(B, C)
  <2>1. \A k \in B : k + 1 \in C
    BY <1>1
  <2>2. \A j \in C : j - 1 \in B /\ f[j - 1] = j
    BY <1>1
  <2>3. \A j, k \in B : f[j] = f[k] => j = k
    BY <1>1
  <2>4. f \in [B -> C]
    BY <2>1
  <2> HIDE DEF f
  <2> QED  BY <2>2, <2>3, <2>4 DEF Bijection, Injection, Surjection, IsInjective
<1>3. IsFiniteSet(A) /\ Cardinality(A) \in Nat /\ 1 \in DOMAIN q
  <2>1. IsFiniteSet(A)
    BY OccursType
  <2>2. Cardinality(A) \in Nat
    BY <2>1, FS_CardinalityType
  <2> QED  BY <1>1, <2>1, <2>2
<1>4. 1 \in A <=> Head(q) = i
  BY <1>1, <1>3
<1>5. IsFiniteSet(B)
  <2>1. Tail(q) \in Seq(S)
    OBVIOUS
  <2>2. IsFiniteSet({k \in DOMAIN Tail(q) : Tail(q)[k] = i})
    BY <2>1, OccursType
  <2> QED  BY <2>2
<1>6. Occurs(q, i) = Cardinality(A) /\ Occurs(Tail(q), i) = Cardinality(B)
  BY DEF Occurs
<1> HIDE DEF A, B, f
<1>7. Cardinality(C) = Cardinality(B)
  BY <1>2, <1>5, FS_Bijection DEF ExistsBijection
<1>8. Cardinality(A \ {1}) = IF 1 \in A THEN Cardinality(A) - 1 ELSE Cardinality(A)
  BY <1>3, FS_RemoveElement
<1>9. CASE Head(q) = i
  BY <1>3, <1>4, <1>6, <1>7, <1>8, <1>9
<1>10. CASE Head(q) # i
  BY <1>3, <1>4, <1>6, <1>7, <1>8, <1>10
<1> QED  BY <1>9, <1>10
=============================================================================
