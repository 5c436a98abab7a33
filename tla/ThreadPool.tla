----------------------------- MODULE ThreadPool -----------------------------
(***************************************************************************)
(* The thread pool of lesson36, which is the one of lesson32: a lazily     *)
(* created singleton, an unbounded task queue under a mutex, and workers   *)
(* that wait on one condition variable.  A step runs from one              *)
(* synchronisation point of a thread to the next.  What a task does, and   *)
(* who pushes it, is the business of PoolPrograms.                         *)
(***************************************************************************)
EXTENDS Naturals, Sequences, FiniteSets

CONSTANTS
    Workers,     \* the _num threads of the pool
    Callers,     \* the threads that call GetInstance()->push
    Main,        \* the one that calls run as well
    NoThread, NoTask

VARIABLES
    at,          \* where each thread is
    task,        \* the task t of a worker, and the argument of a push
    tp,          \* is _tp set?
    created,     \* how many pools have been constructed
    singlock,    \* the holder of _singlock
    mutex,       \* the holder of _mutex
    task_queue

pool == <<at, task, tp, created, singlock, mutex, task_queue>>

Threads == Workers \cup Callers

InitPool ==
    /\ at = [t \in Threads |-> IF t \in Workers THEN "new" ELSE "idle"]
    /\ task = [t \in Threads |-> NoTask]
    /\ tp = FALSE /\ created = 0
    /\ singlock = NoThread /\ mutex = NoThread
    /\ task_queue = <<>>

Goto(t, p) == at' = [at EXCEPT ![t] = p]

-----------------------------------------------------------------------------
(* GetInstance: a test without the lock, and once more with it.            *)

\* main wants the instance for run, or to push the task it has; so has any
\* other caller.
Returned(c) == Goto(c, IF task[c] = NoTask THEN "run" ELSE "lock")

TestInstance(c) ==
    /\ at[c] = "GetInstance"
    /\ IF tp THEN Returned(c) ELSE Goto(c, "singlock")
    /\ UNCHANGED <<task, tp, created, singlock, mutex, task_queue>>

LockSingle(c) ==
    /\ at[c] = "singlock" /\ singlock = NoThread
    /\ singlock' = c
    /\ Goto(c, "create")
    /\ UNCHANGED <<task, tp, created, mutex, task_queue>>

\* Mutant: no second test under the lock.
CreateAgain(c) ==
    /\ at[c] = "create"
    /\ created' = created + 1 /\ tp' = TRUE
    /\ Goto(c, "singunlock")
    /\ UNCHANGED <<task, singlock, mutex, task_queue>>

\* volatile _tp is written after the constructor has returned.
Create(c) ==
    /\ at[c] = "create"
    /\ created' = IF tp THEN created ELSE created + 1
    /\ tp' = TRUE
    /\ Goto(c, "singunlock")
    /\ UNCHANGED <<task, singlock, mutex, task_queue>>

UnlockSingle(c) ==
    /\ at[c] = "singunlock"
    /\ singlock' = NoThread
    /\ Returned(c)
    /\ UNCHANGED <<task, tp, created, mutex, task_queue>>

\* run starts one more worker; after the last main goes on.
StartWorker(c) ==
    /\ at[c] = "run"
    /\ \E w \in Workers :
         /\ at[w] = "new"
         /\ at' = [at EXCEPT ![w] = "lock",
                             ![c] = IF \A v \in Workers \ {w} : at[v] # "new"
                                    THEN "idle" ELSE "run"]
    /\ UNCHANGED <<task, tp, created, singlock, mutex, task_queue>>

-----------------------------------------------------------------------------
(* LockGuard, push and the loop of handlerTask.                            *)

\* A thread at LockGuard, or one that pthread_cond_wait has to let return.
Lock(t) ==
    /\ at[t] \in {"lock", "woken"} /\ mutex = NoThread
    /\ mutex' = t
    /\ Goto(t, IF t \in Workers THEN "test" ELSE "push")
    /\ UNCHANGED <<task, tp, created, singlock, task_queue>>

Waiting == {w \in Workers : at[w] = "wait"}

\* Mutant: a signal only for the first task in the queue.
PushSignalsOnce(c) ==
    /\ at[c] = "push"
    /\ task_queue' = Append(task_queue, task[c])
    /\ IF Waiting = {} \/ task_queue # <<>> THEN Goto(c, "idle")
       ELSE \E w \in Waiting :
              at' = [at EXCEPT ![c] = "idle", ![w] = "woken"]
    /\ task' = [task EXCEPT ![c] = NoTask]
    /\ mutex' = NoThread
    /\ UNCHANGED <<tp, created, singlock>>

\* pthread_cond_signal wakes one of those that wait, if there is one; then
\* the LockGuard goes.
Push(c) ==
    /\ at[c] = "push"
    /\ task_queue' = Append(task_queue, task[c])
    /\ IF Waiting = {} THEN Goto(c, "idle")
       ELSE \E w \in Waiting :
              at' = [at EXCEPT ![c] = "idle", ![w] = "woken"]
    /\ task' = [task EXCEPT ![c] = NoTask]
    /\ mutex' = NoThread
    /\ UNCHANGED <<tp, created, singlock>>

\* while (_task_queue.empty()) pthread_cond_wait.
Wait(w) ==
    /\ at[w] = "test" /\ task_queue = <<>>
    /\ mutex' = NoThread
    /\ Goto(w, "wait")
    /\ UNCHANGED <<task, tp, created, singlock, task_queue>>

SpuriousWakeup(w) ==
    /\ at[w] = "wait"
    /\ Goto(w, "woken")
    /\ UNCHANGED <<task, tp, created, singlock, mutex, task_queue>>

\* Mutant: front without pop.
PopKeeps(w) ==
    /\ at[w] = "test" /\ task_queue # <<>>
    /\ task' = [task EXCEPT ![w] = Head(task_queue)]
    /\ mutex' = NoThread
    /\ Goto(w, "call")
    /\ UNCHANGED <<tp, created, singlock, task_queue>>

\* front, pop, and the end of the LockGuard.
Pop(w) ==
    /\ at[w] = "test" /\ task_queue # <<>>
    /\ task' = [task EXCEPT ![w] = Head(task_queue)]
    /\ task_queue' = Tail(task_queue)
    /\ mutex' = NoThread
    /\ Goto(w, "call")
    /\ UNCHANGED <<tp, created, singlock>>

GetInstance(c) ==
    TestInstance(c) \/ LockSingle(c) \/ Create(c) \/ UnlockSingle(c)

push(c) == Lock(c) \/ Push(c)
handlerTask(w) == Lock(w) \/ Wait(w) \/ Pop(w)

-----------------------------------------------------------------------------
(* Properties of the class.                                                *)

\* However many threads ask at once, one pool is built, and nobody goes on
\* before it is there (GetInstance, double-checked).
OneInstance ==
    /\ created <= 1
    /\ tp <=> created = 1
    /\ \A t \in Threads : at[t] \in {"run", "lock", "push"} => tp

\* One signal per push is enough: as long as a worker sleeps there are at
\* least as many others about to look at the queue as there are tasks in it,
\* even if every other task goes on for ever.
TasksHaveWorkers ==
    Waiting # {} =>
        Len(task_queue) <=
            Cardinality({w \in Workers : at[w] \in {"lock", "woken", "test"}})
=============================================================================
