--------------------------- MODULE ThreadPrograms ---------------------------
(***************************************************************************)
(* Threads around one mutex, and the producer and consumer of lesson30.    *)
(*   "lesson27", "lesson28"  sell tickets until there are none;            *)
(*   "testCond"  lesson29/1_test_cond: threads that wait for a broadcast   *)
(*               and take a ticket without looking whether there is one;   *)
(*   "lesson30"  MainCp.cc.  Its queue is taken at its word: what          *)
(*               BoundedFifo promises and BlockQueue.tla is checked to do. *)
(***************************************************************************)
EXTENDS OneProgram, Integers, FiniteSets

CONSTANTS
    Threads,
    Tickets,     \* the initial number of tickets
    MaxRounds,   \* bound: the broadcasts of testCond
    Tasks,       \* some tasks [x, op, y] that rand can make
    gmax,        \* the capacity of c_bq
    MaxMade,     \* bound: the tasks that are produced
    NoThread     \* the owner of a free mutex

ASSUME SellersAssumption ==
    /\ Threads # {} /\ NoThread \notin Threads
    /\ Tickets \in Nat
    /\ MaxRounds \in Nat /\ \A t \in Tasks : t.x \in Nat /\ t.y \in Nat

VARIABLES
    at,          \* where each thread is
    mutex,       \* the thread that owns the mutex
    tickets,
    loaded,      \* the value of tickets that a thread is about to decrement
    cnt,         \* get_tickets: cnt
    sold,        \* history: what was printed, the seller and the ticket
    rounds,      \* broadcasts so far
    joined,      \* main has joined its threads
    c_bq,        \* the queue of tasks
    made, done   \* history: the tasks made, the results printed

threads == <<at, mutex, tickets, loaded, cnt, sold, rounds, joined>>
queues == <<c_bq, made, done>>
threadVars == <<prog, threads, queues>>

ThreadedPrograms == {"lesson27", "lesson28", "testCond", "lesson30"}

InitThreads ==
    /\ at = [t \in Threads |-> "lock"] /\ mutex = NoThread
    /\ tickets = Tickets /\ loaded = [t \in Threads |-> 0]
    /\ cnt = [t \in Threads |-> 0] /\ sold = <<>>
    /\ rounds = 0 /\ joined = FALSE
    /\ c_bq = <<>> /\ made = <<>> /\ done = <<>>

ThreadInit == prog \in ThreadedPrograms /\ InitThreads

Goto(t, label) == at' = [at EXCEPT ![t] = label]

-----------------------------------------------------------------------------
(* The sellers.  A thread that main has not made yet is one that does not  *)
(* take its first step.                                                    *)

\* Mutant: LockGuard without a mutex: Lock and unLock return at once.
LockNothing(t) ==
    /\ at[t] = "lock"
    /\ Goto(t, IF prog = "testCond" THEN "cond_wait" ELSE "test")
    /\ UNCHANGED <<mutex, tickets, loaded, cnt, sold, rounds, joined>>

Lock(t) ==
    /\ at[t] = "lock" /\ mutex = NoThread /\ mutex' = t
    /\ Goto(t, IF prog = "testCond" THEN "cond_wait" ELSE "test")
    /\ UNCHANGED <<tickets, loaded, cnt, sold, rounds, joined>>

\* Sold out: the mutex is given back, and the thread leaves its loop.
Test(t) ==
    /\ at[t] = "test"
    /\ IF tickets > 0 THEN Goto(t, "print") /\ UNCHANGED mutex
       ELSE Goto(t, "left") /\ mutex' = NoThread
    /\ UNCHANGED <<tickets, loaded, cnt, sold, rounds, joined>>

PrintTicket(t) ==
    /\ at[t] = "print" /\ Goto(t, "load")
    /\ sold' = Append(sold, [by |-> t, ticket |-> tickets])
    /\ UNCHANGED <<mutex, tickets, loaded, cnt, rounds, joined>>

\* tickets-- is a load and a store.
Decrement(t) ==
    /\ \/ /\ at[t] = "load" /\ Goto(t, "store")
          /\ loaded' = [loaded EXCEPT ![t] = tickets]
          /\ UNCHANGED <<tickets, cnt>>
       \/ /\ at[t] = "store" /\ Goto(t, "unlock")
          /\ tickets' = loaded[t] - 1
          /\ cnt' = [cnt EXCEPT ![t] = @ + 1]
          /\ UNCHANGED loaded
    /\ UNCHANGED <<mutex, sold, rounds, joined>>

unLock(t) ==
    /\ at[t] = "unlock" /\ Goto(t, "lock") /\ mutex' = NoThread
    /\ UNCHANGED <<tickets, loaded, cnt, sold, rounds, joined>>

get_tickets(t) ==
    /\ prog \in {"lesson27", "lesson28"}
    /\ Lock(t) \/ Test(t) \/ PrintTicket(t) \/ Decrement(t) \/ unLock(t)

\* main joins the threads in turn.
join ==
    /\ prog \in {"lesson27", "lesson28"}
    /\ \A t \in Threads : at[t] = "left"
    /\ ~joined /\ joined' = TRUE
    /\ UNCHANGED <<at, mutex, tickets, loaded, cnt, sold, rounds>>

-----------------------------------------------------------------------------
(* testCond.  A broadcast is lost on a thread that does not wait.          *)

cond_wait(t) ==
    /\ \/ at[t] = "cond_wait" /\ Goto(t, "waiting") /\ mutex' = NoThread
       \/ at[t] = "woken" /\ mutex = NoThread /\ mutex' = t /\ Goto(t, "print")
    /\ UNCHANGED <<tickets, loaded, cnt, sold, rounds, joined>>

start_routine(t) ==
    /\ prog = "testCond"
    /\ Lock(t) \/ cond_wait(t) \/ PrintTicket(t) \/ Decrement(t) \/ unLock(t)

\* main wakes all that wait; one may wake by itself, which counts as a round.
broadcast ==
    /\ prog = "testCond" /\ rounds < MaxRounds /\ rounds' = rounds + 1
    /\ \E ts \in {Threads} \cup {{t} : t \in Threads} :
          at' = [t \in Threads |-> IF t \in ts /\ at[t] = "waiting" THEN "woken"
                                   ELSE at[t]]
    /\ UNCHANGED <<mutex, tickets, loaded, cnt, sold, joined>>

-----------------------------------------------------------------------------
(* lesson30.  The saver is not created and nothing is pushed to s_bq; main *)
(* waits in pthread_join for a producer that does not end.                 *)

produce ==
    /\ prog = "lesson30" /\ Len(c_bq) < gmax /\ Len(made) < MaxMade
    /\ \E t \in Tasks : c_bq' = Append(c_bq, t) /\ made' = Append(made, t)
    /\ UNCHANGED done

\* x and y are not negative; -1 stands for a division by zero.
mymath(t) ==
    CASE t.op = "+" -> t.x + t.y
      [] t.op = "-" -> t.x - t.y
      [] t.op = "*" -> t.x * t.y
      [] t.op = "/" -> IF t.y = 0 THEN -1 ELSE t.x \div t.y
      [] t.op = "%" -> IF t.y = 0 THEN -1 ELSE t.x % t.y
      [] OTHER      -> 0

consume ==
    /\ prog = "lesson30" /\ c_bq # <<>>
    /\ c_bq' = Tail(c_bq) /\ done' = Append(done, mymath(Head(c_bq)))
    /\ UNCHANGED made

-----------------------------------------------------------------------------
Steps(t) == get_tickets(t) \/ start_routine(t)

ThreadNext ==
    /\ prog \in ThreadedPrograms /\ UNCHANGED prog
    /\ \/ (\E t \in Threads : Steps(t)) /\ UNCHANGED queues
       \/ (join \/ broadcast) /\ UNCHANGED queues
       \/ (produce \/ consume) /\ UNCHANGED threads

\* The threads of a program are scheduled, its consumer and main as well.
ThreadFairness ==
    /\ \A t \in Threads :
          WF_threadVars(prog \in ThreadedPrograms /\ UNCHANGED <<prog, queues>> /\ Steps(t))
    /\ WF_threadVars(prog \in ThreadedPrograms /\ UNCHANGED <<prog, queues>> /\ join)
    /\ WF_threadVars(prog \in ThreadedPrograms /\ UNCHANGED <<prog, threads>> /\ consume)

ThreadSpec == ThreadInit /\ [][ThreadNext]_threadVars
ThreadFairSpec == ThreadSpec /\ ThreadFairness

-----------------------------------------------------------------------------
(* Properties.                                                             *)

ThreadTypeOK ==
    /\ at \in [Threads -> {"lock", "test", "print", "load", "store", "unlock",
                           "left", "cond_wait", "waiting", "woken"}]
    /\ mutex \in Threads \cup {NoThread}
    /\ tickets \in Int /\ loaded \in [Threads -> Int] /\ cnt \in [Threads -> Nat]
    /\ rounds \in 0 .. MaxRounds /\ joined \in BOOLEAN
    /\ c_bq \in Seq(Tasks) /\ done \in Seq(Int)

\* No ticket is sold twice and none is left out, whoever sells it: the
\* numbers that are printed go down one by one, to 1 where get_tickets looks
\* before it takes (testCond goes on below zero).
NoTicketTwice ==
    /\ \A i \in 1 .. Len(sold) : sold[i].ticket = Tickets - i + 1
    /\ prog # "testCond" => Len(sold) <= Tickets
    /\ joined => tickets = 0 /\ Len(sold) = Tickets

\* And when main has joined the sellers, each has counted its own.
TicketsSoldOnce ==
    /\ NoTicketTwice
    /\ joined => \A t \in Threads :
          cnt[t] = Cardinality({i \in 1 .. Len(sold) : sold[i].by = t})

\* Everybody finds out that the tickets are sold, and main joins them all;
\* each task of lesson30 is done in its turn.
SellersEnd ==
    /\ prog \in {"lesson27", "lesson28"} => joined
    /\ prog = "lesson30" =>
          /\ Len(done) = Len(made)
          /\ \A i \in 1 .. Len(made) : done[i] = mymath(made[i])
=============================================================================
