----------------------------- MODULE RingQueue -----------------------------
(***************************************************************************)
(* The ring buffer of src/lesson31/RingQueue/RingQueue.hpp: two counting   *)
(* semaphores guard the slots, one mutex serialises the producers and      *)
(* another the consumers, so that a producer and a consumer may be inside  *)
(* the vector at the same time.  The threads are those of Main.cc, which   *)
(* push and pop for ever.                                                  *)
(***************************************************************************)
EXTENDS Integers, FiniteSets

CONSTANTS Producers, Consumers, Capacity, Items,
          NoItem,    \* the content of a slot before the first push
          NoThread   \* "nobody holds the mutex"

Threads == Producers \cup Consumers
Slots   == 0..(Capacity - 1)

ASSUME RingQueueAssumption ==
    /\ IsFiniteSet(Producers) /\ IsFiniteSet(Consumers)
    /\ Producers \cap Consumers = {}
    /\ NoThread \notin Threads
    /\ Capacity \in Nat \ {0}

VARIABLES
    queue,        \* _queue
    spacesem,     \* _spacesem
    datasem,      \* _datasem
    produceStep,  \* _produceStep
    consumeStep,  \* _consumeStep
    pmutex,       \* the holder of _pmutex
    cmutex,       \* the holder of _cmutex
    pc,           \* pc[t]: the next operation of thread t
    in,           \* in[p]: the argument of the push p is in
    out           \* out[c]: what the last pop of c stored

vars == <<queue, spacesem, datasem, produceStep, consumeStep, pmutex, cmutex, pc, in, out>>

\* Mutant: _spacesem starts one too high.
InitOneMore ==
    /\ queue = [s \in Slots |-> NoItem]
    /\ spacesem = Capacity + 1
    /\ datasem = 0
    /\ produceStep = 0 /\ consumeStep = 0
    /\ pmutex = NoThread /\ cmutex = NoThread
    /\ pc = [t \in Threads |-> "wait"]
    /\ in = [p \in Producers |-> NoItem]
    /\ out = [c \in Consumers |-> NoItem]

Init ==
    /\ queue = [s \in Slots |-> NoItem]
    /\ spacesem = Capacity
    /\ datasem = 0
    /\ produceStep = 0 /\ consumeStep = 0
    /\ pmutex = NoThread /\ cmutex = NoThread
    /\ pc = [t \in Threads |-> "wait"]
    /\ in = [p \in Producers |-> NoItem]
    /\ out = [c \in Consumers |-> NoItem]

Goto(t, from, to) == pc[t] = from /\ pc' = [pc EXCEPT ![t] = to]

-----------------------------------------------------------------------------
(* push(in), called by produce_routine with a fresh task.                  *)

PSpace(p) ==
    /\ Goto(p, "wait", "lock")
    /\ spacesem > 0
    /\ spacesem' = spacesem - 1
    /\ \E x \in Items : in' = [in EXCEPT ![p] = x]
    /\ UNCHANGED <<queue, datasem, produceStep, consumeStep, pmutex, cmutex, out>>

\* Mutant: push takes no mutex.
PLockNone(p) ==
    /\ Goto(p, "lock", "access")
    /\ UNCHANGED <<queue, spacesem, datasem, produceStep, consumeStep, pmutex, cmutex, in, out>>

PLock(p) ==
    /\ Goto(p, "lock", "access")
    /\ pmutex = NoThread
    /\ pmutex' = p
    /\ UNCHANGED <<queue, spacesem, datasem, produceStep, consumeStep, cmutex, in, out>>

\* Mutant: the step does not wrap around.
WriteNoWrap(p) ==
    /\ Goto(p, "access", "unlock")
    /\ queue' = [queue EXCEPT ![produceStep] = in[p]]
    /\ produceStep' = produceStep + 1
    /\ UNCHANGED <<spacesem, datasem, consumeStep, pmutex, cmutex, in, out>>

Write(p) ==
    /\ Goto(p, "access", "unlock")
    /\ queue' = [queue EXCEPT ![produceStep] = in[p]]
    /\ produceStep' = (produceStep + 1) % Capacity
    /\ UNCHANGED <<spacesem, datasem, consumeStep, pmutex, cmutex, in, out>>

PUnlock(p) ==
    /\ Goto(p, "unlock", "post")
    /\ pmutex' = NoThread
    /\ UNCHANGED <<queue, spacesem, datasem, produceStep, consumeStep, cmutex, in, out>>

\* Mutant: push does not post _datasem.
VDataLost(p) ==
    /\ Goto(p, "post", "wait")
    /\ UNCHANGED <<queue, spacesem, datasem, produceStep, consumeStep, pmutex, cmutex, in, out>>

VData(p) ==
    /\ Goto(p, "post", "wait")
    /\ datasem' = datasem + 1
    /\ UNCHANGED <<queue, spacesem, produceStep, consumeStep, pmutex, cmutex, in, out>>

-----------------------------------------------------------------------------
(* pop(out), called by consume_routine.                                    *)

PData(c) ==
    /\ Goto(c, "wait", "lock")
    /\ datasem > 0
    /\ datasem' = datasem - 1
    /\ UNCHANGED <<queue, spacesem, produceStep, consumeStep, pmutex, cmutex, in, out>>

CLock(c) ==
    /\ Goto(c, "lock", "access")
    /\ cmutex = NoThread
    /\ cmutex' = c
    /\ UNCHANGED <<queue, spacesem, datasem, produceStep, consumeStep, pmutex, in, out>>

Read(c) ==
    /\ Goto(c, "access", "unlock")
    /\ out' = [out EXCEPT ![c] = queue[consumeStep]]
    /\ consumeStep' = (consumeStep + 1) % Capacity
    /\ UNCHANGED <<queue, spacesem, datasem, produceStep, pmutex, cmutex, in>>

CUnlock(c) ==
    /\ Goto(c, "unlock", "post")
    /\ cmutex' = NoThread
    /\ UNCHANGED <<queue, spacesem, datasem, produceStep, consumeStep, pmutex, in, out>>

\* Mutant: pop posts the semaphore it waited for.
VSpaceWrong(c) ==
    /\ Goto(c, "post", "wait")
    /\ datasem' = datasem + 1
    /\ UNCHANGED <<queue, spacesem, produceStep, consumeStep, pmutex, cmutex, in, out>>

VSpace(c) ==
    /\ Goto(c, "post", "wait")
    /\ spacesem' = spacesem + 1
    /\ UNCHANGED <<queue, datasem, produceStep, consumeStep, pmutex, cmutex, in, out>>

-----------------------------------------------------------------------------
Push(p) == PSpace(p) \/ PLock(p) \/ Write(p) \/ PUnlock(p) \/ VData(p)
Pop(c)  == PData(c) \/ CLock(c) \/ Read(c) \/ CUnlock(c) \/ VSpace(c)

Next == (\E p \in Producers : Push(p)) \/ (\E c \in Consumers : Pop(c))

Spec == Init /\ [][Next]_vars

\* The threads are kernel threads: each is scheduled again and again.
FairSpec == /\ Spec
            /\ \A p \in Producers : WF_vars(Push(p))
            /\ \A c \in Consumers : WF_vars(Pop(c))

-----------------------------------------------------------------------------
(* Properties.                                                             *)

\* Every variable keeps its type; the steps stay inside the vector.
TypeOK ==
    /\ queue \in [Slots -> Items \cup {NoItem}]
    /\ spacesem \in Nat /\ datasem \in Nat
    /\ produceStep \in Slots /\ consumeStep \in Slots
    /\ pmutex \in Producers \cup {NoThread}
    /\ cmutex \in Consumers \cup {NoThread}
    /\ pc \in [Threads -> {"wait", "lock", "access", "unlock", "post"}]
    /\ in \in [Producers -> Items \cup {NoItem}]
    /\ out \in [Consumers -> Items \cup {NoItem}]

At(T, points) == {t \in T : pc[t] \in points}

\* Slots written and not yet read: announced by _datasem, about to be
\* announced, or already claimed by a consumer.
Occupied == datasem + Cardinality(At(Producers, {"unlock", "post"}))
                    + Cardinality(At(Consumers, {"lock", "access"}))

\* The semaphores and the threads between a P and a V account for every slot,
\* so that neither semaphore exceeds the capacity and no slot is claimed twice
\* (RingQueue.hpp:40-45, 49-55).
SlotsAccounted ==
    spacesem + Cardinality(At(Producers, {"lock", "access"})) + Occupied
             + Cardinality(At(Consumers, {"unlock", "post"})) = Capacity

\* A producer and a consumer hold different mutexes, and may be inside
\* _queue together; they are never at the same slot, nor are two producers or
\* two consumers at any (RingQueue.hpp:41-44, 50-53).
NoDataRace ==
    /\ \A p \in Producers, c \in Consumers :
           pc[p] = "access" /\ pc[c] = "access" => produceStep # consumeStep
    /\ \A S \in {Producers, Consumers} : \A t, u \in S :
           pc[t] = "access" /\ pc[u] = "access" => t = u

\* The contents of the ring, oldest first.
Contents == [i \in 1..Occupied |-> queue[(consumeStep + i - 1) % Capacity]]

Fifo == INSTANCE BoundedFifo WITH q <- Contents

\* The ring is a bounded first-in first-out queue: a slot is never read before
\* it is written, overwritten before it is read, or read twice, although the
\* semaphores are posted after the mutexes are released.
ImplementsFifo == Fifo!Spec

\* Nobody waits for ever on a semaphore that nobody posts: items keep moving.
ItemsKeepMoving ==
    /\ []<><<\E p \in Producers : Write(p)>>_vars
    /\ []<><<\E c \in Consumers : Read(c)>>_vars
=============================================================================
