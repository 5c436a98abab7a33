----------------------------- MODULE BlockQueue -----------------------------
(***************************************************************************)
(* The blocking queue of src/lesson29/2_blockqueue/BlockQueue.hpp, also    *)
(* used by lesson30: a std::queue, one mutex and two condition variables,  *)
(* producers waiting on _pcond and consumers on _ccond.  Threads push and  *)
(* pop for ever, as the routines of MainCp.cc do.                          *)
(***************************************************************************)
EXTENDS Naturals, Sequences, FiniteSets

CONSTANTS Producers, Consumers,
          maxcap,     \* _maxcap
          Items,
          NoItem,     \* what out[c] is before the first pop
          NoThread    \* "nobody holds the mutex"

Threads == Producers \cup Consumers

ASSUME BlockQueueAssumption ==
    /\ IsFiniteSet(Producers) /\ IsFiniteSet(Consumers)
    /\ Producers \cap Consumers = {}
    /\ NoThread \notin Threads
    /\ maxcap \in Nat \ {0}

VARIABLES
    q,        \* _q
    mutex,    \* the holder of _mutex
    pc,       \* pc[t]: see Points
    in,       \* in[p]: the argument of the push p is in
    out       \* out[c]: what the last pop of c stored

vars == <<q, mutex, pc, in, out>>

\* "idle": outside the queue; "lock": at pthread_mutex_lock; "test": holding
\* the mutex, at the while; "wait": in pthread_cond_wait; "woken": signalled,
\* at the lock inside pthread_cond_wait; "unlock": at pthread_mutex_unlock.
Points == {"idle", "lock", "test", "wait", "woken", "unlock"}

At(T, points) == {t \in T : pc[t] \in points}

Init ==
    /\ q = <<>>
    /\ mutex = NoThread
    /\ pc = [t \in Threads |-> "idle"]
    /\ in = [p \in Producers |-> NoItem]
    /\ out = [c \in Consumers |-> NoItem]

\* Mutant: one item too many.
is_overfull == Len(q) > maxcap

is_full  == Len(q) = maxcap
is_empty == q = <<>>

\* Mutants: nobody is signalled; _pcond and _ccond are swapped.
NoSignal(t, T) == pc' = [pc EXCEPT ![t] = "unlock"]

SignalSwapped(t, T) ==
    LET U == At(Threads \ T, {"wait"}) IN
      IF U = {} THEN pc' = [pc EXCEPT ![t] = "unlock"]
      ELSE \E u \in U : pc' = [pc EXCEPT ![t] = "unlock", ![u] = "woken"]

\* pthread_cond_signal wakes one of the threads of T that wait, if any does.
Signal(t, T) ==
    \/ /\ At(T, {"wait"}) = {}
       /\ pc' = [pc EXCEPT ![t] = "unlock"]
    \/ \E u \in At(T, {"wait"}) :
          pc' = [pc EXCEPT ![t] = "unlock", ![u] = "woken"]

-----------------------------------------------------------------------------

\* Mutant: push is called before there is an item.
CallPushNothing(p) ==
    /\ pc[p] = "idle"
    /\ pc' = [pc EXCEPT ![p] = "lock"]
    /\ UNCHANGED <<q, mutex, in, out>>

CallPush(p) ==
    /\ pc[p] = "idle"
    /\ pc' = [pc EXCEPT ![p] = "lock"]
    /\ \E x \in Items : in' = [in EXCEPT ![p] = x]
    /\ UNCHANGED <<q, mutex, out>>

CallPop(c) ==
    /\ pc[c] = "idle"
    /\ pc' = [pc EXCEPT ![c] = "lock"]
    /\ UNCHANGED <<q, mutex, in, out>>

\* pthread_mutex_lock, on entry or on the way out of pthread_cond_wait.
Lock(t) ==
    /\ pc[t] \in {"lock", "woken"} /\ mutex = NoThread
    /\ mutex' = t
    /\ pc' = [pc EXCEPT ![t] = "test"]
    /\ UNCHANGED <<q, in, out>>

\* pthread_cond_wait releases the mutex and starts to wait in one step.
Wait(t) ==
    /\ pc[t] = "test"
    /\ IF t \in Producers THEN is_full ELSE is_empty
    /\ mutex' = NoThread
    /\ pc' = [pc EXCEPT ![t] = "wait"]
    /\ UNCHANGED <<q, in, out>>

\* POSIX lets a wait end without a signal.
SpuriousWakeup(t) ==
    /\ pc[t] = "wait"
    /\ pc' = [pc EXCEPT ![t] = "woken"]
    /\ UNCHANGED <<q, mutex, in, out>>

Put(p) ==
    /\ pc[p] = "test" /\ ~is_full
    /\ q' = Append(q, in[p])
    /\ Signal(p, Consumers)
    /\ UNCHANGED <<mutex, in, out>>

Get(c) ==
    /\ pc[c] = "test" /\ ~is_empty
    /\ out' = [out EXCEPT ![c] = Head(q)]
    /\ q' = Tail(q)
    /\ Signal(c, Producers)
    /\ UNCHANGED <<mutex, in>>

\* Mutant: a return without pthread_mutex_unlock.
UnlockForgotten(t) ==
    /\ pc[t] = "unlock"
    /\ pc' = [pc EXCEPT ![t] = "idle"]
    /\ UNCHANGED <<q, mutex, in, out>>

Unlock(t) ==
    /\ pc[t] = "unlock"
    /\ mutex' = NoThread
    /\ pc' = [pc EXCEPT ![t] = "idle"]
    /\ UNCHANGED <<q, in, out>>

-----------------------------------------------------------------------------
Step(t) == Lock(t) \/ Wait(t) \/ Unlock(t)
push(p) == CallPush(p) \/ Step(p) \/ Put(p)
pop(c)  == CallPop(c) \/ Step(c) \/ Get(c)

Next ==
    \/ \E p \in Producers : push(p)
    \/ \E c \in Consumers : pop(c)
    \/ \E t \in Threads : SpuriousWakeup(t)

Spec == Init /\ [][Next]_vars

\* Every thread is scheduled again and again, and the spurious wakeups do not go
\* on for ever (two threads woken for nothing could pass the mutex between them).
FairSpec == /\ Spec
            /\ <>[][\A t \in Threads : ~SpuriousWakeup(t)]_vars
            /\ \A p \in Producers : WF_vars(push(p))
            /\ \A c \in Consumers : WF_vars(pop(c))

-----------------------------------------------------------------------------
(* Properties.                                                             *)

\* Every variable keeps its type.
TypeOK ==
    /\ q \in Seq(Items)
    /\ mutex \in Threads \cup {NoThread}
    /\ pc \in [Threads -> Points]
    /\ in \in [Producers -> Items \cup {NoItem}]
    /\ out \in [Consumers -> Items \cup {NoItem}]

\* The mutex is held by the one thread that is between lock and unlock, and
\* by nobody while that thread waits on a condition (BlockQueue.hpp:24-32).
MutualExclusion ==
    \A t \in Threads : pc[t] \in {"test", "unlock"} <=> mutex = t

\* No wakeup is lost although push and pop signal one thread each and a third
\* thread may take the mutex before the one that was signalled: while a
\* producer waits, the room in the queue is spoken for by producers already
\* woken, and while a consumer waits, so are the items (BlockQueue.hpp:26-31,
\* 38-44).
NoLostWakeup ==
    /\ At(Producers, {"wait"}) # {} =>
          Len(q) + Cardinality(At(Producers, {"woken", "test"})) >= maxcap
    /\ At(Consumers, {"wait"}) # {} =>
          Cardinality(At(Consumers, {"woken", "test"})) >= Len(q)

Fifo == INSTANCE BoundedFifo WITH Capacity <- maxcap

\* The queue never holds more than _maxcap items and returns them in order,
\* each to one consumer.
ImplementsFifo == Fifo!Spec

\* Items keep moving: the threads never all wait for each other.
ItemsKeepMoving ==
    /\ []<><<\E p \in Producers : Put(p)>>_vars
    /\ []<><<\E c \in Consumers : Get(c)>>_vars
=============================================================================
