--------------------------- MODULE RingQueueProofs ---------------------------
(***************************************************************************)
(* Proofs about RingQueue, for any number of producers and consumers and   *)
(* any capacity.  The inductive invariant counts slots: every slot is in   *)
(* _spacesem, in _datasem, or claimed by a thread between a P and a V, and *)
(* the two steps are Occupied slots apart.                                 *)
(***************************************************************************)
EXTENDS RingQueue, Sequences, ThreadCounts

\* The index arithmetic of the ring: the argument of % never reaches twice the
\* capacity.
LEMMA Wrap ==
    ASSUME NEW n \in Nat \ {0}, NEW s \in 0..(2 * n - 1)
    PROVE  s % n = IF s < n THEN s ELSE s - n
BY Z3

\* One step round the ring.
LEMMA Advance ==
    ASSUME NEW n \in Nat \ {0}, NEW s \in 0..(n - 1)
    PROVE  (s + 1) % n = IF s + 1 = n THEN 0 ELSE s + 1
BY Z3

-----------------------------------------------------------------------------
Claiming == Cardinality(At(Producers, {"lock", "access"}))
Posting  == Cardinality(At(Producers, {"unlock", "post"}))
Taking   == Cardinality(At(Consumers, {"lock", "access"}))
Freeing  == Cardinality(At(Consumers, {"unlock", "post"}))

MutexInv ==
    /\ \A p \in Producers : pc[p] \in {"access", "unlock"} => pmutex = p
    /\ \A c \in Consumers : pc[c] \in {"access", "unlock"} => cmutex = c

\* The producers are Occupied slots ahead of the consumers on the ring.
StepInv == produceStep = IF consumeStep + Occupied < Capacity
                         THEN consumeStep + Occupied
                         ELSE consumeStep + Occupied - Capacity

InInv == \A p \in Producers : pc[p] # "wait" => in[p] \in Items

IInv == TypeOK /\ SlotsAccounted /\ MutexInv /\ StepInv /\ InInv

USE RingQueueAssumption

Places == {"wait", "lock", "access", "unlock", "post"}

\* How the four counts change when one thread moves.
LEMMA CountsMove ==
    ASSUME TypeOK, NEW t \in Threads, NEW from, NEW to \in Places, Goto(t, from, to)
    PROVE  /\ Claiming' = Claiming
                + (IF t \in Producers /\ to \in {"lock", "access"} THEN 1 ELSE 0)
                - (IF t \in Producers /\ from \in {"lock", "access"} THEN 1 ELSE 0)
           /\ Posting' = Posting
                + (IF t \in Producers /\ to \in {"unlock", "post"} THEN 1 ELSE 0)
                - (IF t \in Producers /\ from \in {"unlock", "post"} THEN 1 ELSE 0)
           /\ Taking' = Taking
                + (IF t \in Consumers /\ to \in {"lock", "access"} THEN 1 ELSE 0)
                - (IF t \in Consumers /\ from \in {"lock", "access"} THEN 1 ELSE 0)
           /\ Freeing' = Freeing
                + (IF t \in Consumers /\ to \in {"unlock", "post"} THEN 1 ELSE 0)
                - (IF t \in Consumers /\ from \in {"unlock", "post"} THEN 1 ELSE 0)
<1>1. pc \in [Threads -> Places]
  BY DEF TypeOK, Places
<1>2. pc[t] = from /\ pc' = [pc EXCEPT ![t] = to]
  BY DEF Goto
<1>3. \A T \in {Producers, Consumers} : \A points :
        Cardinality(At(T, points)') = Cardinality(At(T, points))
            + (IF t \in T /\ to \in points THEN 1 ELSE 0)
            - (IF t \in T /\ from \in points THEN 1 ELSE 0)
  <2> TAKE T \in {Producers, Consumers}
  <2> TAKE points
  <2>1. IsFiniteSet(T) /\ T \subseteq DOMAIN pc /\ t \in DOMAIN pc
    BY <1>1 DEF Threads
  <2>2. Cardinality(At(T, points)) = Count(pc, T, points)
    BY DEF At, Count
  <2>3. Cardinality(At(T, points)') = Count([pc EXCEPT ![t] = to], T, points)
    BY <1>2 DEF At, Count
  <2>4. Count([pc EXCEPT ![t] = to], T, points) =
          Count(pc, T, points) + (IF t \in T /\ to \in points THEN 1 ELSE 0)
                               - (IF t \in T /\ pc[t] \in points THEN 1 ELSE 0)
    BY <2>1, MoveCounts
  <2> QED  BY <1>2, <2>2, <2>3, <2>4
<1> QED  BY <1>3 DEF Claiming, Posting, Taking, Freeing

\* The four counts are natural numbers, and one is positive when a thread is
\* at one of its points.
LEMMA CountsType ==
    ASSUME TypeOK
    PROVE  /\ Claiming \in Nat /\ Posting \in Nat /\ Taking \in Nat /\ Freeing \in Nat
           /\ \A p \in Producers : pc[p] \in {"lock", "access"} => Claiming > 0
           /\ \A p \in Producers : pc[p] \in {"unlock", "post"} => Posting > 0
           /\ \A c \in Consumers : pc[c] \in {"lock", "access"} => Taking > 0
           /\ \A c \in Consumers : pc[c] \in {"unlock", "post"} => Freeing > 0
<1>1. \A T \in {Producers, Consumers} : \A points :
        /\ Cardinality(At(T, points)) \in Nat
        /\ \A t \in T : pc[t] \in points => Cardinality(At(T, points)) > 0
  <2> TAKE T \in {Producers, Consumers}
  <2> TAKE points
  <2>1. At(T, points) \in SUBSET T /\ IsFiniteSet(T)
    BY DEF At
  <2>2. IsFiniteSet(At(T, points)) /\ Cardinality(At(T, points)) \in Nat
    BY <2>1, FS_Subset, FS_CardinalityType
  <2>3. ASSUME NEW t \in T, pc[t] \in points  PROVE Cardinality(At(T, points)) > 0
    <3>1. At(T, points) # {}
      BY <2>3 DEF At
    <3> QED  BY <3>1, <2>2, FS_EmptySet
  <2> QED  BY <2>2, <2>3
<1> QED  BY <1>1 DEF Claiming, Posting, Taking, Freeing

-----------------------------------------------------------------------------
\* The invariant holds after the constructor.
LEMMA InitIInv == Init => IInv
<1> SUFFICES ASSUME Init PROVE IInv
  OBVIOUS
<1>1. TypeOK
  BY DEF Init, TypeOK, Slots
<1>2. /\ At(Producers, {"lock", "access"}) = {} /\ At(Producers, {"unlock", "post"}) = {}
      /\ At(Consumers, {"lock", "access"}) = {} /\ At(Consumers, {"unlock", "post"}) = {}
  BY DEF Init, At, Threads
<1>3. Claiming = 0 /\ Posting = 0 /\ Taking = 0 /\ Freeing = 0
  BY <1>2, FS_EmptySet DEF Claiming, Posting, Taking, Freeing
<1>4. Occupied = 0
  BY <1>3 DEF Init, Occupied, Posting, Taking
<1>5. SlotsAccounted
  BY <1>3, <1>4 DEF Init, SlotsAccounted, Claiming, Freeing
<1>6. MutexInv /\ InInv
  BY DEF Init, MutexInv, InInv, Threads
<1>7. StepInv
  BY <1>4 DEF Init, StepInv
<1> QED  BY <1>1, <1>5, <1>6, <1>7 DEF IInv

\* The sum of the counts, written with the names the proofs use.
LEMMA Sums ==
    /\ Occupied = datasem + Posting + Taking
    /\ SlotsAccounted <=> spacesem + Claiming + Occupied + Freeing = Capacity
BY DEF Occupied, SlotsAccounted, Claiming, Posting, Taking, Freeing

-----------------------------------------------------------------------------
\* A P, a V, a lock or an unlock, by a thread of either kind, leaves the steps
\* and the ring alone; only Write and Read move them.
LEMMA TypeStep == TypeOK /\ InInv /\ [Next]_vars => TypeOK' /\ InInv'
<1> SUFFICES ASSUME TypeOK, InInv, [Next]_vars PROVE TypeOK' /\ InInv'
  OBVIOUS
<1> USE DEF TypeOK, InInv, Goto, Threads
<1>1. \A s \in Slots : (s + 1) % Capacity \in Slots
  BY Wrap DEF Slots
<1>2. ASSUME NEW p \in Producers, PSpace(p)  PROVE TypeOK' /\ InInv'
  BY <1>2 DEF PSpace
<1>3. ASSUME NEW p \in Producers, PLock(p)  PROVE TypeOK' /\ InInv'
  BY <1>3 DEF PLock
<1>4. ASSUME NEW p \in Producers, Write(p)  PROVE TypeOK' /\ InInv'
  <2>1. in[p] \in Items
    BY <1>4 DEF Write
  <2> QED  BY <1>1, <1>4, <2>1 DEF Write
<1>5. ASSUME NEW p \in Producers, PUnlock(p)  PROVE TypeOK' /\ InInv'
  BY <1>5 DEF PUnlock
<1>6. ASSUME NEW p \in Producers, VData(p)  PROVE TypeOK' /\ InInv'
  BY <1>6 DEF VData
<1>7. ASSUME NEW c \in Consumers, PData(c)  PROVE TypeOK' /\ InInv'
  BY <1>7 DEF PData
<1>8. ASSUME NEW c \in Consumers, CLock(c)  PROVE TypeOK' /\ InInv'
  BY <1>8 DEF CLock
<1>9. ASSUME NEW c \in Consumers, Read(c)  PROVE TypeOK' /\ InInv'
  BY <1>1, <1>9 DEF Read
<1>10. ASSUME NEW c \in Consumers, CUnlock(c)  PROVE TypeOK' /\ InInv'
  BY <1>10 DEF CUnlock
<1>11. ASSUME NEW c \in Consumers, VSpace(c)  PROVE TypeOK' /\ InInv'
  BY <1>11 DEF VSpace
<1>12. CASE UNCHANGED vars
  BY <1>12 DEF vars
<1> QED
  BY <1>2, <1>3, <1>4, <1>5, <1>6, <1>7, <1>8, <1>9, <1>10, <1>11, <1>12
  DEF Next, Push, Pop

\* A mutex is taken when it is free and released by its holder.
LEMMA MutexStep == TypeOK /\ MutexInv /\ [Next]_vars => MutexInv'
<1> SUFFICES ASSUME TypeOK, MutexInv, [Next]_vars PROVE MutexInv'
  OBVIOUS
<1> USE DEF TypeOK, MutexInv, Goto, Threads
<1>1. ASSUME NEW p \in Producers, Push(p)  PROVE MutexInv'
  BY <1>1 DEF Push, PSpace, PLock, Write, PUnlock, VData
<1>2. ASSUME NEW c \in Consumers, Pop(c)  PROVE MutexInv'
  BY <1>2 DEF Pop, PData, CLock, Read, CUnlock, VSpace
<1>3. CASE UNCHANGED vars
  BY <1>3 DEF vars
<1> QED  BY <1>1, <1>2, <1>3 DEF Next

\* Each operation on a semaphore moves one slot to or from a count and Write
\* and Read move one between two counts, so that the sum stays Capacity; only
\* Write and Read change Occupied.
LEMMA CountStep ==
    ASSUME TypeOK, SlotsAccounted, [Next]_vars
    PROVE  /\ SlotsAccounted'
           /\ \/ \E p \in Producers : Write(p) /\ Occupied' = Occupied + 1
              \/ \E c \in Consumers : Read(c) /\ Occupied' = Occupied - 1
              \/ /\ Occupied' = Occupied
                 /\ UNCHANGED <<queue, produceStep, consumeStep, out>>
<1>1. /\ Occupied = datasem + Posting + Taking
      /\ Occupied' = datasem' + Posting' + Taking'
      /\ spacesem + Claiming + Occupied + Freeing = Capacity
      /\ SlotsAccounted' <=> spacesem' + Claiming' + Occupied' + Freeing' = Capacity
  BY DEF Occupied, SlotsAccounted, Claiming, Posting, Taking, Freeing
<1>2. /\ Claiming \in Nat /\ Posting \in Nat /\ Taking \in Nat /\ Freeing \in Nat
      /\ spacesem \in Nat /\ datasem \in Nat
  BY CountsType DEF TypeOK
<1>3. \A p \in Producers : p \in Threads /\ p \notin Consumers
  BY DEF Threads
<1>4. \A c \in Consumers : c \in Threads /\ c \notin Producers
  BY DEF Threads
<1> DEFINE Goal == /\ SlotsAccounted'
                   /\ \/ \E p \in Producers : Write(p) /\ Occupied' = Occupied + 1
                      \/ \E c \in Consumers : Read(c) /\ Occupied' = Occupied - 1
                      \/ /\ Occupied' = Occupied
                         /\ UNCHANGED <<queue, produceStep, consumeStep, out>>
<1>5. ASSUME NEW p \in Producers, Push(p)  PROVE Goal
  <2>1. CASE PSpace(p)
    <3>1. Goto(p, "wait", "lock") /\ "lock" \in Places
      BY <2>1 DEF PSpace, Places
    <3>2. Claiming' = Claiming + 1 /\ UNCHANGED <<Posting, Taking, Freeing>>
      BY <3>1, <1>2, <1>3, CountsMove
    <3> QED  BY <1>1, <1>2, <2>1, <3>2 DEF PSpace
  <2>2. CASE PLock(p)
    <3>1. Goto(p, "lock", "access") /\ "access" \in Places
      BY <2>2 DEF PLock, Places
    <3>2. UNCHANGED <<Claiming, Posting, Taking, Freeing>>
      BY <3>1, <1>2, <1>3, CountsMove
    <3> QED  BY <1>1, <1>2, <2>2, <3>2 DEF PLock
  <2>3. CASE Write(p)
    <3>1. Goto(p, "access", "unlock") /\ "unlock" \in Places
      BY <2>3 DEF Write, Places
    <3>2. Claiming' = Claiming - 1 /\ Posting' = Posting + 1 /\ UNCHANGED <<Taking, Freeing>>
      BY <3>1, <1>2, <1>3, CountsMove
    <3>3. Occupied' = Occupied + 1 /\ SlotsAccounted'
      BY <1>1, <1>2, <2>3, <3>2 DEF Write
    <3> QED  BY <2>3, <3>3
  <2>4. CASE PUnlock(p)
    <3>1. Goto(p, "unlock", "post") /\ "post" \in Places
      BY <2>4 DEF PUnlock, Places
    <3>2. UNCHANGED <<Claiming, Posting, Taking, Freeing>>
      BY <3>1, <1>2, <1>3, CountsMove
    <3> QED  BY <1>1, <1>2, <2>4, <3>2 DEF PUnlock
  <2>5. CASE VData(p)
    <3>1. Goto(p, "post", "wait") /\ "wait" \in Places
      BY <2>5 DEF VData, Places
    <3>2. Posting' = Posting - 1 /\ UNCHANGED <<Claiming, Taking, Freeing>>
      BY <3>1, <1>2, <1>3, CountsMove
    <3> QED  BY <1>1, <1>2, <2>5, <3>2 DEF VData
  <2> QED  BY <1>5, <2>1, <2>2, <2>3, <2>4, <2>5 DEF Push
<1>6. ASSUME NEW c \in Consumers, Pop(c)  PROVE Goal
  <2>1. CASE PData(c)
    <3>1. Goto(c, "wait", "lock") /\ "lock" \in Places
      BY <2>1 DEF PData, Places
    <3>2. Taking' = Taking + 1 /\ UNCHANGED <<Claiming, Posting, Freeing>>
      BY <3>1, <1>2, <1>4, CountsMove
    <3> QED  BY <1>1, <1>2, <2>1, <3>2 DEF PData
  <2>2. CASE CLock(c)
    <3>1. Goto(c, "lock", "access") /\ "access" \in Places
      BY <2>2 DEF CLock, Places
    <3>2. UNCHANGED <<Claiming, Posting, Taking, Freeing>>
      BY <3>1, <1>2, <1>4, CountsMove
    <3> QED  BY <1>1, <1>2, <2>2, <3>2 DEF CLock
  <2>3. CASE Read(c)
    <3>1. Goto(c, "access", "unlock") /\ "unlock" \in Places
      BY <2>3 DEF Read, Places
    <3>2. Taking' = Taking - 1 /\ Freeing' = Freeing + 1 /\ UNCHANGED <<Claiming, Posting>>
      BY <3>1, <1>2, <1>4, CountsMove
    <3>3. Occupied' = Occupied - 1 /\ SlotsAccounted'
      BY <1>1, <1>2, <2>3, <3>2 DEF Read
    <3> QED  BY <2>3, <3>3
  <2>4. CASE CUnlock(c)
    <3>1. Goto(c, "unlock", "post") /\ "post" \in Places
      BY <2>4 DEF CUnlock, Places
    <3>2. UNCHANGED <<Claiming, Posting, Taking, Freeing>>
      BY <3>1, <1>2, <1>4, CountsMove
    <3> QED  BY <1>1, <1>2, <2>4, <3>2 DEF CUnlock
  <2>5. CASE VSpace(c)
    <3>1. Goto(c, "post", "wait") /\ "wait" \in Places
      BY <2>5 DEF VSpace, Places
    <3>2. Freeing' = Freeing - 1 /\ UNCHANGED <<Claiming, Posting, Taking>>
      BY <3>1, <1>2, <1>4, CountsMove
    <3> QED  BY <1>1, <1>2, <2>5, <3>2 DEF VSpace
  <2> QED  BY <1>6, <2>1, <2>2, <2>3, <2>4, <2>5 DEF Pop
<1>7. CASE UNCHANGED vars
  BY <1>7 DEF vars, SlotsAccounted, Occupied, At
<1> QED  BY <1>5, <1>6, <1>7 DEF Next

\* At most Capacity slots are occupied, one fewer while a producer is about to
\* write, and at least one while a consumer is about to read.
LEMMA OccupiedBounds ==
    ASSUME TypeOK, SlotsAccounted
    PROVE  /\ Occupied \in 0..Capacity
           /\ \A p \in Producers : pc[p] = "access" => Occupied < Capacity
           /\ \A c \in Consumers : pc[c] = "access" => Occupied > 0
<1>1. /\ Occupied = datasem + Posting + Taking
      /\ spacesem + Claiming + Occupied + Freeing = Capacity
  BY DEF Occupied, SlotsAccounted, Claiming, Posting, Taking, Freeing
<1> QED  BY <1>1, CountsType DEF TypeOK

\* The producers' step stays Occupied slots ahead of the consumers' step.
LEMMA StepInvStep == IInv /\ [Next]_vars => StepInv'
<1> SUFFICES ASSUME IInv, [Next]_vars PROVE StepInv'
  OBVIOUS
<1> USE DEF IInv
<1>1. /\ produceStep \in 0..(Capacity - 1) /\ consumeStep \in 0..(Capacity - 1)
      /\ Occupied \in 0..Capacity
  BY OccupiedBounds DEF TypeOK, Slots
<1>2. ASSUME NEW p \in Producers, Write(p), Occupied' = Occupied + 1  PROVE StepInv'
  <2>1. Occupied < Capacity
    BY <1>2, OccupiedBounds DEF Write, Goto
  <2>2. produceStep' = (IF produceStep + 1 = Capacity THEN 0 ELSE produceStep + 1)
        /\ consumeStep' = consumeStep
    BY <1>1, <1>2, Advance DEF Write
  <2> QED  BY <1>1, <1>2, <2>1, <2>2 DEF StepInv
<1>3. ASSUME NEW c \in Consumers, Read(c), Occupied' = Occupied - 1  PROVE StepInv'
  <2>1. Occupied > 0
    BY <1>3, OccupiedBounds DEF Read, Goto
  <2>2. consumeStep' = (IF consumeStep + 1 = Capacity THEN 0 ELSE consumeStep + 1)
        /\ produceStep' = produceStep
    BY <1>1, <1>3, Advance DEF Read
  <2> QED  BY <1>1, <1>3, <2>1, <2>2 DEF StepInv
<1>4. CASE Occupied' = Occupied /\ UNCHANGED <<queue, produceStep, consumeStep, out>>
  BY <1>4 DEF StepInv
<1> QED  BY <1>2, <1>3, <1>4, CountStep

\* The invariant is inductive, and holds in every reachable state.
THEOREM Invariance == Spec => []IInv
<1>1. IInv /\ [Next]_vars => IInv'
  BY TypeStep, MutexStep, CountStep, StepInvStep DEF IInv
<1> QED  BY InitIInv, <1>1, PTL DEF Spec

\* Type correctness of the ring queue.
THEOREM TypeCorrect == Spec => []TypeOK
<1>1. IInv => TypeOK
  BY DEF IInv
<1> QED  BY <1>1, Invariance, PTL

\* The semaphores account for every slot of the ring.
THEOREM SlotsAccountedFor == Spec => []SlotsAccounted
<1>1. IInv => SlotsAccounted
  BY DEF IInv
<1> QED  BY <1>1, Invariance, PTL

\* No slot is accessed by two threads at once: a producer about to write and a
\* consumer about to read are at least one slot apart in both directions.
THEOREM RaceFree == Spec => []NoDataRace
<1>1. IInv => NoDataRace
  <2> SUFFICES ASSUME IInv PROVE NoDataRace
    OBVIOUS
  <2>1. ASSUME NEW p \in Producers, NEW c \in Consumers, pc[p] = "access", pc[c] = "access"
        PROVE produceStep # consumeStep
    <3>1. Occupied \in 1..(Capacity - 1)
      BY <2>1, OccupiedBounds DEF IInv
    <3> QED  BY <3>1 DEF IInv, TypeOK, Slots, StepInv
  <2>2. \A S \in {Producers, Consumers} : \A t, u \in S :
           pc[t] = "access" /\ pc[u] = "access" => t = u
    BY DEF IInv, MutexInv
  <2> QED  BY <2>1, <2>2 DEF NoDataRace
<1> QED  BY <1>1, Invariance, PTL

-----------------------------------------------------------------------------
(* The ring implements the bounded first-in first-out queue.               *)

\* The slot of the i-th oldest item.
Slot(i) == IF consumeStep + i - 1 < Capacity THEN consumeStep + i - 1
           ELSE consumeStep + i - 1 - Capacity

\* Contents is a sequence of items: the occupied slots in ring order.
ContentsInv ==
    /\ Contents \in Seq(Items \cup {NoItem})
    /\ Len(Contents) = Occupied
    /\ \A i \in 1..Occupied : Slot(i) \in Slots /\ Contents[i] = queue[Slot(i)]

\* Contents lists Occupied items, each from a slot inside the vector.
LEMMA ContentsType == IInv => ContentsInv
<1> SUFFICES ASSUME IInv PROVE ContentsInv
  OBVIOUS
<1>1. Occupied \in 0..Capacity /\ consumeStep \in 0..(Capacity - 1)
  BY OccupiedBounds DEF IInv, TypeOK, Slots
<1>2. ASSUME NEW i \in 1..Occupied
      PROVE  /\ (consumeStep + i - 1) % Capacity = Slot(i)
             /\ Slot(i) \in Slots
  <2>1. consumeStep + i - 1 \in 0..(2 * Capacity - 1)
    BY <1>1
  <2> DEFINE s == consumeStep + i - 1
  <2>2. s % Capacity = IF s < Capacity THEN s ELSE s - Capacity
    <3> HIDE DEF s
    <3>1. s \in 0..(2 * Capacity - 1)
      BY <2>1 DEF s
    <3> QED  BY <3>1, Wrap
  <2> QED  BY <1>1, <2>1, <2>2 DEF Slot, Slots
<1>3. \A i \in 1..Occupied : queue[Slot(i)] \in Items \cup {NoItem}
  BY <1>2 DEF IInv, TypeOK
<1>4. Contents = [i \in 1..Occupied |-> queue[Slot(i)]]
  BY <1>2 DEF Contents
<1>5. Contents \in Seq(Items \cup {NoItem}) /\ Len(Contents) = Occupied
  BY <1>1, <1>3, <1>4
<1> QED  BY <1>2, <1>4, <1>5 DEF ContentsInv

\* Write appends the pushed item to Contents.
LEMMA WritePuts ==
    ASSUME IInv, IInv', NEW p \in Producers, Write(p), Occupied' = Occupied + 1
    PROVE  Fifo!Put
<1>1. /\ Occupied \in 0..(Capacity - 1) /\ Occupied' \in 0..Capacity
      /\ consumeStep \in 0..(Capacity - 1) /\ produceStep \in 0..(Capacity - 1)
  BY OccupiedBounds DEF Write, Goto, IInv, TypeOK, Slots
<1>2. in[p] \in Items
  BY DEF Write, Goto, IInv, InInv
<1>3. consumeStep' = consumeStep /\ queue' = [queue EXCEPT ![produceStep] = in[p]] /\ out' = out
  BY DEF Write
<1>4. ContentsInv /\ ContentsInv'
  BY ContentsType, PTL
<1>5. /\ Contents \in Seq(Items \cup {NoItem}) /\ Len(Contents) = Occupied
      /\ Contents' \in Seq(Items \cup {NoItem}) /\ Len(Contents') = Occupied + 1
  BY <1>4 DEF ContentsInv
<1>6. \A i \in 1..Occupied : Contents[i] = queue[Slot(i)] /\ Slot(i) \in Slots
  BY <1>4 DEF ContentsInv
<1>7. \A i \in 1..(Occupied + 1) : Contents'[i] = queue'[Slot(i)] /\ Slot(i) \in Slots
  BY <1>3, <1>4 DEF ContentsInv, Slot
<1>8. Slot(Occupied + 1) = produceStep /\ \A i \in 1..Occupied : Slot(i) # produceStep
  BY <1>1 DEF IInv, StepInv, Slot
<1>9. queue \in [Slots -> Items \cup {NoItem}]
  BY DEF IInv, TypeOK
<1>10. \A i \in 1..Occupied : Contents'[i] = Contents[i]
  BY <1>1, <1>3, <1>6, <1>7, <1>8, <1>9
<1>11. Contents'[Occupied + 1] = in[p]
  BY <1>1, <1>3, <1>7, <1>8, <1>9
<1>12. Contents' = Append(Contents, in[p])
  BY <1>1, <1>2, <1>5, <1>10, <1>11
<1> QED  BY <1>1, <1>2, <1>3, <1>5, <1>12 DEF Fifo!Put

\* Read takes the head of Contents.
LEMMA ReadGets ==
    ASSUME IInv, IInv', NEW c \in Consumers, Read(c), Occupied' = Occupied - 1
    PROVE  Fifo!Get
<1>1. Occupied \in 1..Capacity /\ consumeStep \in 0..(Capacity - 1)
  BY OccupiedBounds DEF Read, Goto, IInv, TypeOK, Slots
<1>2. /\ consumeStep' = IF consumeStep + 1 = Capacity THEN 0 ELSE consumeStep + 1
      /\ queue' = queue /\ out' = [out EXCEPT ![c] = queue[consumeStep]]
  BY <1>1, Advance DEF Read
<1>3. ContentsInv /\ ContentsInv'
  BY ContentsType, PTL
<1>4. /\ Contents \in Seq(Items \cup {NoItem}) /\ Len(Contents) = Occupied
      /\ Contents' \in Seq(Items \cup {NoItem}) /\ Len(Contents') = Occupied - 1
  BY <1>3 DEF ContentsInv
<1>5. Slot(1) = consumeStep
  BY <1>1 DEF Slot
<1>6. Contents # <<>> /\ Head(Contents) = queue[consumeStep]
  BY <1>1, <1>3, <1>4, <1>5 DEF ContentsInv
<1>7. ASSUME NEW i \in 1..(Occupied - 1)  PROVE Contents'[i] = Contents[i + 1]
  <2>1. Slot(i)' = Slot(i + 1)
    BY <1>1, <1>2 DEF Slot
  <2>2. Contents'[i] = queue'[Slot(i)'] /\ Contents[i + 1] = queue[Slot(i + 1)]
    BY <1>1, <1>3 DEF ContentsInv
  <2> QED  BY <1>2, <2>1, <2>2
<1>8. Contents' = Tail(Contents)
  BY <1>1, <1>4, <1>7
<1> QED  BY <1>2, <1>6, <1>8 DEF Fifo!Get

\* The ring queue implements the bounded first-in first-out queue: Write is its
\* Put, Read its Get, and every other step leaves it unchanged.
THEOREM RingIsFifo == Spec => ImplementsFifo
<1>1. Init => Fifo!Init
  <2> SUFFICES ASSUME Init PROVE Fifo!Init
    OBVIOUS
  <2>1. IInv
    BY InitIInv
  <2>2. Occupied = 0
    <3>1. spacesem + Claiming + Occupied + Freeing = Capacity
      BY <2>1 DEF IInv, SlotsAccounted, Claiming, Freeing
    <3>2. Claiming \in Nat /\ Freeing \in Nat /\ Occupied \in Nat
      BY <2>1, CountsType, OccupiedBounds DEF IInv
    <3> QED  BY <3>1, <3>2 DEF Init
  <2>3. Contents = <<>>
    BY <2>1, <2>2, ContentsType DEF ContentsInv
  <2> QED  BY <2>3 DEF Init, Fifo!Init
<1>2. IInv /\ IInv' /\ [Next]_vars => [Fifo!Next]_Fifo!vars
  <2> SUFFICES ASSUME IInv, IInv', [Next]_vars PROVE [Fifo!Next]_Fifo!vars
    OBVIOUS
  <2>1. ASSUME NEW p \in Producers, Write(p), Occupied' = Occupied + 1
        PROVE  Fifo!Next
    BY <2>1, WritePuts DEF Fifo!Next
  <2>2. ASSUME NEW c \in Consumers, Read(c), Occupied' = Occupied - 1
        PROVE  Fifo!Next
    BY <2>2, ReadGets DEF Fifo!Next
  <2>3. CASE Occupied' = Occupied /\ UNCHANGED <<queue, produceStep, consumeStep, out>>
    BY <2>3 DEF Fifo!vars, Contents
  <2> QED  BY <2>1, <2>2, <2>3, CountStep DEF IInv
<1> QED  BY <1>1, <1>2, Invariance, PTL DEF Spec, Fifo!Spec, ImplementsFifo
=============================================================================
