-------------------------- MODULE BlockQueueProofs --------------------------
(***************************************************************************)
(* Proofs about BlockQueue, for any number of producers and consumers and  *)
(* any capacity.  The inductive invariant says which threads are inside    *)
(* the mutex, what a producer carries, and how many threads are awake for  *)
(* each free place and each item.                                          *)
(***************************************************************************)
EXTENDS BlockQueue, ThreadCounts

USE BlockQueueAssumption

\* A producer that has called push carries an item.
InInv == \A p \in Producers : pc[p] # "idle" => in[p] \in Items

\* The queue stays within _maxcap.
CapInv == Len(q) <= maxcap

IInv == TypeOK /\ MutualExclusion /\ InInv /\ CapInv /\ NoLostWakeup

-----------------------------------------------------------------------------
\* What a signal does to the program counters: the caller goes on to unlock,
\* and at most one thread that waits is woken.
LEMMA SignalMoves ==
    ASSUME TypeOK, NEW t \in Threads, NEW T \in {Producers, Consumers},
           t \notin T, pc[t] = "test", Signal(t, T)
    PROVE  /\ pc' \in [Threads -> Points]
           /\ \/ /\ At(T, {"wait"}) = {}
                 /\ pc' = [pc EXCEPT ![t] = "unlock"]
              \/ \E u \in T : /\ pc[u] = "wait" /\ u # t
                              /\ pc' = [[pc EXCEPT ![t] = "unlock"]
                                           EXCEPT ![u] = "woken"]
<1>1. CASE At(T, {"wait"}) = {} /\ pc' = [pc EXCEPT ![t] = "unlock"]
  BY <1>1 DEF TypeOK, Points
<1>2. ASSUME NEW u \in At(T, {"wait"}), pc' = [pc EXCEPT ![t] = "unlock", ![u] = "woken"]
      PROVE  /\ pc' \in [Threads -> Points]
             /\ u \in T /\ pc[u] = "wait" /\ u # t
             /\ pc' = [[pc EXCEPT ![t] = "unlock"] EXCEPT ![u] = "woken"]
  BY <1>2 DEF TypeOK, Points, At, Threads
<1> QED  BY <1>1, <1>2 DEF Signal

\* The invariant holds after the constructor.
LEMMA InitIInv == Init => IInv
<1> SUFFICES ASSUME Init PROVE IInv
  OBVIOUS
<1>1. TypeOK /\ InInv /\ CapInv
  BY DEF Init, TypeOK, Points, Threads, InInv, CapInv
<1>2. MutualExclusion
  BY DEF Init, MutualExclusion
<1>3. At(Producers, {"wait"}) = {} /\ At(Consumers, {"wait"}) = {}
  BY DEF Init, At, Threads
<1> QED  BY <1>1, <1>2, <1>3 DEF IInv, NoLostWakeup

-----------------------------------------------------------------------------
\* Types, the item that is carried, and the bound on the queue.
LEMMA TypeStep ==
    TypeOK /\ InInv /\ CapInv /\ [Next]_vars => TypeOK' /\ InInv' /\ CapInv'
<1> SUFFICES ASSUME TypeOK, InInv, CapInv, [Next]_vars
             PROVE  TypeOK' /\ InInv' /\ CapInv'
  OBVIOUS
<1> DEFINE Goal == TypeOK' /\ InInv' /\ CapInv'
<1>1. ASSUME NEW p \in Producers, CallPush(p)  PROVE Goal
  BY <1>1 DEF CallPush, TypeOK, InInv, CapInv, Points, Threads
<1>2. ASSUME NEW c \in Consumers, CallPop(c)  PROVE Goal
  BY <1>2 DEF CallPop, TypeOK, InInv, CapInv, Points, Threads
<1>3. ASSUME NEW t \in Threads, Lock(t)  PROVE Goal
  BY <1>3 DEF Lock, TypeOK, InInv, CapInv, Points, Threads
<1>4. ASSUME NEW t \in Threads, Wait(t)  PROVE Goal
  BY <1>4 DEF Wait, TypeOK, InInv, CapInv, Points, Threads
<1>5. ASSUME NEW t \in Threads, Unlock(t)  PROVE Goal
  BY <1>5 DEF Unlock, TypeOK, InInv, CapInv, Points, Threads
<1>6. ASSUME NEW t \in Threads, SpuriousWakeup(t)  PROVE Goal
  BY <1>6 DEF SpuriousWakeup, TypeOK, InInv, CapInv, Points, Threads
<1>7. ASSUME NEW p \in Producers, Put(p)  PROVE Goal
  <2>1. /\ pc' \in [Threads -> Points]
        /\ \A r \in Producers : pc'[r] # "idle" => pc[r] # "idle"
    BY <1>7, SignalMoves DEF Put, TypeOK, Threads
  <2>2. in[p] \in Items /\ in' = in
    BY <1>7 DEF Put, InInv
  <2>3. q' \in Seq(Items) /\ Len(q') <= maxcap
    BY <1>7, <2>2 DEF Put, is_full, TypeOK, CapInv
  <2> QED  BY <1>7, <2>1, <2>2, <2>3 DEF Put, TypeOK, InInv, CapInv
<1>8. ASSUME NEW c \in Consumers, Get(c)  PROVE Goal
  <2>1. /\ pc' \in [Threads -> Points]
        /\ \A r \in Producers : pc'[r] # "idle" => pc[r] # "idle"
    BY <1>8, SignalMoves DEF Get, TypeOK, Threads
  <2>2. q' \in Seq(Items) /\ Len(q') <= maxcap /\ Head(q) \in Items
    BY <1>8 DEF Get, is_empty, TypeOK, CapInv
  <2> QED  BY <1>8, <2>1, <2>2 DEF Get, TypeOK, InInv, CapInv
<1>9. CASE UNCHANGED vars
  BY <1>9 DEF vars, TypeOK, InInv, CapInv
<1> QED
  BY <1>1, <1>2, <1>3, <1>4, <1>5, <1>6, <1>7, <1>8, <1>9
  DEF Next, push, pop, Step, Threads

\* The mutex is taken when it is free, and given back by its holder, at the
\* unlock or where it starts to wait.
LEMMA MutexStep ==
    TypeOK /\ MutualExclusion /\ [Next]_vars => MutualExclusion'
<1> SUFFICES ASSUME TypeOK, MutualExclusion, [Next]_vars
             PROVE  MutualExclusion'
  OBVIOUS
<1> USE DEF MutualExclusion
<1>1. ASSUME NEW p \in Producers, CallPush(p)  PROVE MutualExclusion'
  BY <1>1 DEF CallPush, TypeOK, Threads
<1>2. ASSUME NEW c \in Consumers, CallPop(c)  PROVE MutualExclusion'
  BY <1>2 DEF CallPop, TypeOK, Threads
<1>3. ASSUME NEW t \in Threads, Lock(t)  PROVE MutualExclusion'
  BY <1>3 DEF Lock, TypeOK
<1>4. ASSUME NEW t \in Threads, Wait(t)  PROVE MutualExclusion'
  BY <1>4 DEF Wait, TypeOK
<1>5. ASSUME NEW t \in Threads, Unlock(t)  PROVE MutualExclusion'
  BY <1>5 DEF Unlock, TypeOK
<1>6. ASSUME NEW t \in Threads, SpuriousWakeup(t)  PROVE MutualExclusion'
  BY <1>6 DEF SpuriousWakeup, TypeOK
<1>7. ASSUME NEW p \in Producers, Put(p)  PROVE MutualExclusion'
  <2>1. p \in Threads /\ p \notin Consumers /\ pc[p] = "test" /\ mutex' = mutex
        /\ Signal(p, Consumers)
    BY <1>7 DEF Put, Threads
  <2> QED  BY <2>1, SignalMoves DEF TypeOK
<1>8. ASSUME NEW c \in Consumers, Get(c)  PROVE MutualExclusion'
  <2>1. c \in Threads /\ c \notin Producers /\ pc[c] = "test" /\ mutex' = mutex
        /\ Signal(c, Producers)
    BY <1>8 DEF Get, Threads
  <2> QED  BY <2>1, SignalMoves DEF TypeOK
<1>9. CASE UNCHANGED vars
  BY <1>9 DEF vars
<1> QED
  BY <1>1, <1>2, <1>3, <1>4, <1>5, <1>6, <1>7, <1>8, <1>9
  DEF Next, push, pop, Step, Threads

-----------------------------------------------------------------------------
\* The threads of T that are awake, on their way to the test or at it, and
\* whether any of T waits, by a program counter f.
Awake(f, T) == Count(f, T, {"woken", "test"})
Waits(f, T) == \E u \in T : f[u] = "wait"

\* How the threads that are awake and those that wait change when one thread
\* moves.
LEMMA OneMoves ==
    ASSUME NEW f, NEW g, NEW t \in Threads,
           \A u \in Threads \ {t} : g[u] = f[u],
           NEW T \in {Producers, Consumers}
    PROVE  /\ Awake(f, T) \in Nat /\ Awake(g, T) \in Nat
           /\ Awake(g, T) = Awake(f, T)
                + (IF t \in T /\ g[t] \in {"woken", "test"} THEN 1 ELSE 0)
                - (IF t \in T /\ f[t] \in {"woken", "test"} THEN 1 ELSE 0)
           /\ Waits(g, T) => Waits(f, T) \/ (t \in T /\ g[t] = "wait")
<1>1. IsFiniteSet(T) /\ \A u \in T \ {t} : g[u] = f[u]
  BY DEF Threads
<1>2. Awake(f, T) \in Nat /\ Awake(g, T) \in Nat
  BY <1>1, CountType DEF Awake
<1>3. \A points :
          Count(g, T, points) = Count(f, T, points)
                + (IF t \in T /\ g[t] \in points THEN 1 ELSE 0)
                - (IF t \in T /\ f[t] \in points THEN 1 ELSE 0)
  BY <1>1, CountsDiffer
<1>4. Waits(g, T) => Waits(f, T) \/ (t \in T /\ g[t] = "wait")
  BY <1>1 DEF Waits
<1> QED  BY <1>2, <1>3, <1>4 DEF Awake

\* A signal: the caller leaves the test, and if others wait one more of them is
\* awake.
LEMMA SignalCounts ==
    ASSUME TypeOK, NEW S \in {Producers, Consumers}, NEW T \in {Producers, Consumers},
           S # T, NEW t \in S, pc[t] = "test", Signal(t, T)
    PROVE  /\ Awake(pc, S) \in Nat /\ Awake(pc', S) = Awake(pc, S) - 1
           /\ Awake(pc, T) \in Nat /\ Awake(pc', T) \in Nat
           /\ Waits(pc', S) => Waits(pc, S)
           /\ Waits(pc', T) => Waits(pc, T) /\ Awake(pc', T) = Awake(pc, T) + 1
<1> DEFINE f == [pc EXCEPT ![t] = "unlock"]
<1>1. t \in Threads /\ t \notin T /\ S \cap T = {}
  BY DEF Threads
<1>2. f \in [Threads -> Points] /\ f[t] = "unlock" /\ \A u \in Threads \ {t} : f[u] = pc[u]
  BY <1>1 DEF TypeOK, Points
<1> HIDE DEF f
<1>3. /\ Awake(pc, S) \in Nat /\ Awake(f, S) = Awake(pc, S) - 1
      /\ Waits(f, S) => Waits(pc, S)
      /\ Awake(pc, T) \in Nat /\ Awake(f, T) = Awake(pc, T)
      /\ Waits(f, T) => Waits(pc, T)
  BY <1>1, <1>2, OneMoves
<1>4. CASE At(T, {"wait"}) = {} /\ pc' = f
  <2>1. ~Waits(pc, T)
    BY <1>4 DEF At, Waits
  <2> QED  BY <1>3, <1>4, <2>1
<1>5. ASSUME NEW u \in T, pc[u] = "wait", u # t, pc' = [f EXCEPT ![u] = "woken"]
      PROVE  /\ Awake(pc', S) = Awake(f, S) /\ (Waits(pc', S) => Waits(f, S))
             /\ Awake(pc', T) = Awake(f, T) + 1 /\ Waits(pc, T)
  <2>1. /\ u \in Threads /\ u \notin S /\ f[u] = "wait" /\ pc'[u] = "woken"
        /\ \A r \in Threads \ {u} : pc'[r] = f[r]
    BY <1>1, <1>2, <1>5 DEF Threads
  <2>2. Waits(pc, T)
    BY <1>5 DEF Waits
  <2>3. \A K \in {S, T} :
           /\ Awake(f, K) \in Nat
           /\ Awake(pc', K) = Awake(f, K) + (IF u \in K THEN 1 ELSE 0)
           /\ Waits(pc', K) => Waits(f, K)
    BY <2>1, OneMoves
  <2> QED  BY <2>1, <2>2, <2>3
<1>6. \/ At(T, {"wait"}) = {} /\ pc' = f
      \/ \E u \in T : pc[u] = "wait" /\ u # t /\ pc' = [f EXCEPT ![u] = "woken"]
  BY <1>1, SignalMoves DEF f
<1> QED  BY <1>3, <1>4, <1>5, <1>6

\* Put takes a place and its producer, and wakes a consumer for the item; Get
\* the other way round.  A thread starts to wait only where there is nothing
\* for it to do.
LEMMA WakeupStep ==
    TypeOK /\ CapInv /\ NoLostWakeup /\ [Next]_vars => NoLostWakeup'
<1> SUFFICES ASSUME TypeOK, CapInv, NoLostWakeup, [Next]_vars
             PROVE  NoLostWakeup'
  OBVIOUS
<1>1. /\ NoLostWakeup <=>
            /\ Waits(pc, Producers) => Len(q) + Awake(pc, Producers) >= maxcap
            /\ Waits(pc, Consumers) => Awake(pc, Consumers) >= Len(q)
      /\ NoLostWakeup' <=>
            /\ Waits(pc', Producers) => Len(q') + Awake(pc', Producers) >= maxcap
            /\ Waits(pc', Consumers) => Awake(pc', Consumers) >= Len(q')
  <2>1. \A T \in {Producers, Consumers} :
           /\ At(T, {"wait"}) # {} <=> Waits(pc, T)
           /\ At(T, {"wait"})' # {} <=> Waits(pc', T)
           /\ Cardinality(At(T, {"woken", "test"})) = Awake(pc, T)
           /\ Cardinality(At(T, {"woken", "test"})') = Awake(pc', T)
    BY DEF At, Waits, Awake, Count
  <2> QED  BY <2>1 DEF NoLostWakeup
<1>2. Len(q) \in Nat
  BY DEF TypeOK
<1>3. ASSUME NEW t \in Threads, NEW v, pc' = [pc EXCEPT ![t] = v], q' = q,
             v \in {"woken", "test"} \/ pc[t] \notin {"woken", "test"},
             v # "wait"
      PROVE  NoLostWakeup'
  <2>1. pc'[t] = v /\ \A u \in Threads \ {t} : pc'[u] = pc[u]
    BY <1>3 DEF TypeOK
  <2>2. \A T \in {Producers, Consumers} :
           /\ Awake(pc, T) \in Nat /\ Awake(pc', T) \in Nat /\ Awake(pc', T) >= Awake(pc, T)
           /\ Waits(pc', T) => Waits(pc, T)
    <3> TAKE T \in {Producers, Consumers}
    <3>1. /\ Awake(pc, T) \in Nat /\ Awake(pc', T) \in Nat
          /\ Awake(pc', T) = Awake(pc, T)
               + (IF t \in T /\ pc'[t] \in {"woken", "test"} THEN 1 ELSE 0)
               - (IF t \in T /\ pc[t] \in {"woken", "test"} THEN 1 ELSE 0)
          /\ Waits(pc', T) => Waits(pc, T) \/ (t \in T /\ pc'[t] = "wait")
      BY <2>1, OneMoves
    <3> QED  BY <1>3, <2>1, <3>1
  <2> QED  BY <1>1, <1>2, <1>3, <2>2
<1>4. ASSUME NEW p \in Producers, CallPush(p)  PROVE NoLostWakeup'
  BY <1>3, <1>4 DEF CallPush, Threads
<1>5. ASSUME NEW c \in Consumers, CallPop(c)  PROVE NoLostWakeup'
  BY <1>3, <1>5 DEF CallPop, Threads
<1>6. ASSUME NEW t \in Threads, Lock(t)  PROVE NoLostWakeup'
  BY <1>3, <1>6 DEF Lock
<1>7. ASSUME NEW t \in Threads, Unlock(t)  PROVE NoLostWakeup'
  BY <1>3, <1>7 DEF Unlock
<1>8. ASSUME NEW t \in Threads, SpuriousWakeup(t)  PROVE NoLostWakeup'
  BY <1>3, <1>8 DEF SpuriousWakeup
<1>9. ASSUME NEW t \in Threads, Wait(t)  PROVE NoLostWakeup'
  <2>1. pc' = [pc EXCEPT ![t] = "wait"] /\ q' = q /\ pc[t] = "test"
    BY <1>9 DEF Wait
  <2>2. \A T \in {Producers, Consumers} :
           /\ Awake(pc, T) \in Nat /\ Awake(pc', T) = Awake(pc, T) - (IF t \in T THEN 1 ELSE 0)
           /\ t \notin T => (Waits(pc', T) => Waits(pc, T))
    <3>1. pc'[t] = "wait" /\ \A u \in Threads \ {t} : pc'[u] = pc[u]
      BY <2>1 DEF TypeOK
    <3> TAKE T \in {Producers, Consumers}
    <3>2. /\ Awake(pc, T) \in Nat /\ Awake(pc', T) \in Nat
          /\ Awake(pc', T) = Awake(pc, T)
               + (IF t \in T /\ pc'[t] \in {"woken", "test"} THEN 1 ELSE 0)
               - (IF t \in T /\ pc[t] \in {"woken", "test"} THEN 1 ELSE 0)
          /\ Waits(pc', T) => Waits(pc, T) \/ (t \in T /\ pc'[t] = "wait")
      BY <3>1, OneMoves
    <3> QED  BY <2>1, <3>1, <3>2
  <2>3. \A T \in {Producers, Consumers} : t \in T => Awake(pc, T) > 0
    BY <2>1, CountType DEF Awake
  <2>4. CASE t \in Producers
    <3>1. Len(q) = maxcap
      BY <1>9, <2>4 DEF Wait, is_full
    <3> QED  BY <1>1, <1>2, <2>1, <2>2, <2>3, <2>4, <3>1
  <2>5. CASE t \in Consumers
    <3>1. Len(q) = 0
      BY <1>9, <2>5 DEF Wait, is_empty
    <3> QED  BY <1>1, <1>2, <2>1, <2>2, <2>3, <2>5, <3>1
  <2> QED  BY <2>4, <2>5 DEF Threads
<1>10. ASSUME NEW p \in Producers, Put(p)  PROVE NoLostWakeup'
  <2>1. Len(q') = Len(q) + 1
    BY <1>10 DEF Put, TypeOK
  <2>2. Producers # Consumers /\ pc[p] = "test" /\ Signal(p, Consumers)
    BY <1>10 DEF Put
  <2> QED  BY <1>1, <1>2, <2>1, <2>2, SignalCounts
<1>11. ASSUME NEW c \in Consumers, Get(c)  PROVE NoLostWakeup'
  <2>1. Len(q') = Len(q) - 1 /\ Len(q) > 0
    BY <1>11 DEF Get, is_empty, TypeOK
  <2>2. Producers # Consumers /\ pc[c] = "test" /\ Signal(c, Producers)
    BY <1>11 DEF Get
  <2> QED  BY <1>1, <1>2, <2>1, <2>2, SignalCounts
<1>12. CASE UNCHANGED vars
  BY <1>12 DEF vars, NoLostWakeup, At
<1> QED
  BY <1>4, <1>5, <1>6, <1>7, <1>8, <1>9, <1>10, <1>11, <1>12
  DEF Next, push, pop, Step, Threads

-----------------------------------------------------------------------------
\* The invariant is inductive, and holds in every reachable state.
THEOREM Invariance == Spec => []IInv
<1>1. IInv /\ [Next]_vars => IInv'
  BY TypeStep, MutexStep, WakeupStep DEF IInv
<1> QED  BY InitIInv, <1>1, PTL DEF Spec

\* Type correctness of the blocking queue.
THEOREM TypeCorrect == Spec => []TypeOK
<1>1. IInv => TypeOK
  BY DEF IInv
<1> QED  BY <1>1, Invariance, PTL

\* The mutex is held by the thread between lock and unlock, and by nobody
\* while that thread waits.
THEOREM MutexHeld == Spec => []MutualExclusion
<1>1. IInv => MutualExclusion
  BY DEF IInv
<1> QED  BY <1>1, Invariance, PTL

\* One signal for each item and each place is enough: while a thread waits,
\* the work it waits for is spoken for by threads that are awake.
THEOREM NoWakeupLost == Spec => []NoLostWakeup
<1>1. IInv => NoLostWakeup
  BY DEF IInv
<1> QED  BY <1>1, Invariance, PTL

\* The blocking queue implements the bounded first-in first-out queue.
THEOREM QueueIsFifo == Spec => ImplementsFifo
<1>1. Init => Fifo!Init
  BY DEF Init, Fifo!Init
<1>2. IInv /\ [Next]_vars => [Fifo!Next]_Fifo!vars
  <2> SUFFICES ASSUME IInv, [Next]_vars PROVE [Fifo!Next]_Fifo!vars
    OBVIOUS
  <2>1. ASSUME NEW p \in Producers, Put(p)  PROVE Fifo!Put
    <3>1. in[p] \in Items /\ q' = Append(q, in[p]) /\ out' = out
      BY <2>1 DEF Put, IInv, InInv
    <3>2. Len(q) < maxcap
      BY <2>1 DEF Put, is_full, IInv, TypeOK, CapInv
    <3> QED  BY <3>1, <3>2 DEF Fifo!Put
  <2>2. ASSUME NEW c \in Consumers, Get(c)  PROVE Fifo!Get
    BY <2>2 DEF Get, is_empty, Fifo!Get
  <2>3. CASE UNCHANGED <<q, out>>
    BY <2>3 DEF Fifo!vars
  <2> QED
    BY <2>1, <2>2, <2>3
    DEF Next, push, pop, Step, CallPush, CallPop, Lock, Wait, Unlock,
        SpuriousWakeup, vars, Fifo!Next
<1> QED  BY <1>1, <1>2, Invariance, PTL DEF Spec, Fifo!Spec, ImplementsFifo
=============================================================================
