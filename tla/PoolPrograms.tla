---------------------------- MODULE PoolPrograms ----------------------------
(***************************************************************************)
(* Programs around serviceIO and the thread pool:                          *)
(*   "lesson32"  the calculator whose main pushes what is typed;           *)
(*   "lesson36"  the echo server whose workers each serve a connection;    *)
(*   "lesson35"  the echo server that serves in the accepting thread.      *)
(* lesson36 runs as a daemon, which ignores SIGPIPE; lesson35 does not.    *)
(***************************************************************************)
EXTENDS ThreadPool, TcpNet, Integers

CONSTANTS
    Typed,       \* lesson32: the sequence of calculations [x, op, y] typed
    Leaving      \* clients that will leave in the end; the others stay

ASSUME PoolAssumption ==
    /\ IsFiniteSet(Workers) /\ IsFiniteSet(Callers)
    /\ Workers \cap Callers = {} /\ Main \in Callers
    /\ NoThread \notin Threads
    /\ NoTask \notin Clients /\ NoTask \notin Nat
    /\ Typed \in Seq([x : Int, op : STRING, y : Int])

VARIABLES
    answer,      \* lesson32: what each calculation gave, in any order
    typing,      \* lesson32: how many calculations have been typed
    chunk,       \* serviceIO: the chunk a thread has read and not answered
    asked,       \* clients that wait for a reply in read
    killed       \* SIGPIPE has ended the server

mine == <<pool, answer, typing, chunk, asked, killed>>
vars == <<prog, net, mine>>

Programs == {"lesson32", "lesson35", "lesson36"}
Tasks == 1 .. Len(Typed)
Jobs == IF prog = "lesson32" THEN Tasks ELSE Clients

InitPrograms ==
    /\ InitPool
    /\ answer = [i \in Tasks |-> <<>>] /\ typing = 0
    /\ chunk = [t \in Threads |-> 0]
    /\ asked = {} /\ killed = FALSE

Init == prog \in Programs /\ InitPrograms /\ InitNet

-----------------------------------------------------------------------------
(* lesson32: main.  Another thread may call GetInstance()->push too: the   *)
(* class has a lock for that, though main is the only caller there is.     *)

\* The first call of main is GetInstance()->run().
StartPool ==
    /\ prog \in {"lesson32", "lesson36"} /\ at[Main] = "idle" /\ ~tp
    /\ Goto(Main, "GetInstance")
    /\ UNCHANGED <<prog, net, task, tp, created, singlock, mutex, task_queue,
                   answer, typing, chunk, asked, killed>>

Started == \A w \in Workers : at[w] # "new"

Submit(c) ==
    /\ prog = "lesson32" /\ at[c] = "idle" /\ typing < Len(Typed)
    /\ c = Main => Started
    /\ typing' = typing + 1
    /\ task' = [task EXCEPT ![c] = typing']
    /\ Goto(c, "GetInstance")
    /\ UNCHANGED <<prog, net, tp, created, singlock, mutex, task_queue,
                   answer, chunk, asked, killed>>

Magnitude(n) == IF n < 0 THEN -n ELSE n

\* C++ divides towards zero.
Quotient(x, y) ==
    LET q == Magnitude(x) \div Magnitude(y) IN IF (x < 0) = (y < 0) THEN q ELSE -q

\* Mutant: the case of '/' has no break.
mymathFallsThrough(t) ==
    CASE t.op = "+" -> t.x + t.y
      [] t.op = "-" -> t.x - t.y
      [] t.op = "*" -> t.x * t.y
      [] t.op \in {"/", "%"} -> IF t.y = 0 THEN -1
                               ELSE t.x - t.y * Quotient(t.x, t.y)
      [] OTHER      -> 0

\* -1 stands for a division by zero.
mymath(t) ==
    CASE t.op = "+" -> t.x + t.y
      [] t.op = "-" -> t.x - t.y
      [] t.op = "*" -> t.x * t.y
      [] t.op = "/" -> IF t.y = 0 THEN -1 ELSE Quotient(t.x, t.y)
      [] t.op = "%" -> IF t.y = 0 THEN -1
                       ELSE t.x - t.y * Quotient(t.x, t.y)
      [] OTHER      -> 0

\* t() and the printf behind it, with the mutex released.
Calculate(w) ==
    /\ prog = "lesson32" /\ at[w] = "call"
    /\ answer' = [answer EXCEPT ![task[w]] = Append(@, mymath(Typed[task[w]]))]
    /\ task' = [task EXCEPT ![w] = NoTask]
    /\ Goto(w, "lock")
    /\ UNCHANGED <<prog, net, tp, created, singlock, mutex, task_queue,
                   typing, chunk, asked, killed>>

-----------------------------------------------------------------------------
(* lesson36 and lesson35: accept.                                          *)

\* push(Task(serviceIO, sock)), or serviceIO(sock) in the same thread.
Accept ==
    /\ at[Main] = "idle" /\ backlog # <<>>
    /\ \/ prog = "lesson35"
       \/ prog = "lesson36" /\ tp /\ Started
    /\ task' = [task EXCEPT ![Main] = Head(backlog)]
    /\ sock' = [sock EXCEPT ![Head(backlog)] = AfterAccept(@)]
    /\ backlog' = Tail(backlog)
    /\ Goto(Main, IF prog = "lesson35" THEN "call" ELSE "GetInstance")
    /\ UNCHANGED <<prog, sent, got, tp, created, singlock, mutex, task_queue,
                   answer, typing, chunk, asked, killed>>

-----------------------------------------------------------------------------
(* serviceIO.                                                              *)

InService(t) == prog \in {"lesson35", "lesson36"} /\ at[t] = "call"
                  /\ Readable(sock[task[t]])

\* Mutant: the buffer is never filled.
ReadNothing(t) ==
    /\ InService(t) /\ RecvResult(sock[task[t]]) = "data"
    /\ sock' = [sock EXCEPT ![task[t]] = AfterRecv(@)]
    /\ Goto(t, "write")
    /\ UNCHANGED <<prog, backlog, sent, got, task, tp, created, singlock,
                   mutex, task_queue, answer, typing, chunk, asked, killed>>

ReadMessage(t) ==
    /\ InService(t) /\ RecvResult(sock[task[t]]) = "data"
    /\ chunk' = [chunk EXCEPT ![t] = Head(sock[task[t]].in)]
    /\ sock' = [sock EXCEPT ![task[t]] = AfterRecv(@)]
    /\ Goto(t, "write")
    /\ UNCHANGED <<prog, backlog, sent, got, task, tp, created, singlock,
                   mutex, task_queue, answer, typing, asked, killed>>

\* n < 0 has no branch: the loop goes round.
ReadFails(t) ==
    /\ InService(t) /\ RecvResult(sock[task[t]]) = "error"
    /\ sock' = [sock EXCEPT ![task[t]] = AfterRecv(@)]
    /\ UNCHANGED <<prog, backlog, sent, got, mine>>

\* Mutant: the thread serves one connection and ends.
ClientQuitEnds(t) ==
    /\ InService(t) /\ RecvResult(sock[task[t]]) = "eof"
    /\ sock' = [sock EXCEPT ![task[t]] = AfterClose(@)]
    /\ Goto(t, "dead")
    /\ UNCHANGED <<prog, backlog, sent, got, task, tp, created, singlock,
                   mutex, task_queue, answer, typing, chunk, asked, killed>>

\* "client quit, me too", and close.
ClientQuit(t) ==
    /\ InService(t) /\ RecvResult(sock[task[t]]) = "eof"
    /\ sock' = [sock EXCEPT ![task[t]] = AfterClose(@)]
    /\ task' = [task EXCEPT ![t] = NoTask]
    /\ Goto(t, IF prog = "lesson35" THEN "idle" ELSE "lock")
    /\ UNCHANGED <<prog, backlog, sent, got, tp, created, singlock, mutex,
                   task_queue, answer, typing, chunk, asked, killed>>

\* What daemon does for its server: SIGPIPE is ignored.
IgnoresSigpipe == prog = "lesson36"

\* What write returns is not looked at.
Echo(t) ==
    /\ at[t] = "write" /\ Writable(sock[task[t]])
    /\ IF ~IgnoresSigpipe /\ RaisesSigpipe(sock[task[t]])
       THEN /\ killed' = TRUE
            /\ sock' = AfterKill(sock)
            /\ Goto(t, "dead")
       ELSE /\ sock' = [sock EXCEPT ![task[t]] = AfterWrite(@, chunk[t])]
            /\ Goto(t, "call")
            /\ UNCHANGED killed
    /\ chunk' = [chunk EXCEPT ![t] = 0]
    /\ UNCHANGED <<prog, backlog, sent, got, task, tp, created, singlock,
                   mutex, task_queue, answer, typing, asked>>

serviceIO(t) == ReadMessage(t) \/ ReadFails(t) \/ ClientQuit(t) \/ Echo(t)

-----------------------------------------------------------------------------
(* tcpclient: a line, and one read of the reply.  A line of more than 1023 *)
(* bytes is two chunks for the server; the second reply is read after the  *)
(* next line.  An empty line writes nothing, and read waits all the same.  *)

Enter(c) ==
    /\ c \notin asked /\ asked' = asked \cup {c}
    /\ \/ ClientSend(c)
       \/ sock[c].peer = "open" /\ UNCHANGED net
    /\ UNCHANGED <<prog, pool, answer, typing, chunk, killed>>

\* The rest of a long line.
EnterMore(c) ==
    /\ c \in asked /\ sent[c] > 0 /\ ClientSend(c)
    /\ UNCHANGED <<prog, mine>>

ReadReply(c) ==
    /\ c \in asked /\ asked' = asked \ {c}
    /\ ClientRecv(c)
    /\ UNCHANGED <<prog, pool, answer, typing, chunk, killed>>

\* connect, and the end: by ^C, by a reset, or "server quit. me too".
Come(c) == /\ ~killed /\ Connect(c) /\ UNCHANGED <<prog, mine>>
Leave(c) == /\ \/ c \in Leaving
               \/ sock[c].srv = "closed" /\ sock[c].out = <<>>
            /\ ClientClose(c) \/ ClientReset(c)
            /\ asked' = asked \ {c}
            /\ UNCHANGED <<prog, pool, answer, typing, chunk, killed>>

tcpclient(c) == Come(c) \/ Enter(c) \/ EnterMore(c) \/ ReadReply(c) \/ Leave(c)

-----------------------------------------------------------------------------
PoolStep(t) ==
    /\ prog \in {"lesson32", "lesson36"} /\ ~killed
    /\ IF t \in Workers THEN handlerTask(t)
       ELSE GetInstance(t) \/ StartWorker(t) \/ push(t)
    /\ UNCHANGED <<prog, net, answer, typing, chunk, asked, killed>>

Step(t) ==
    \/ PoolStep(t)
    \/ t \in Workers /\ (Calculate(t) \/ serviceIO(t))
    \/ t = Main /\ (StartPool \/ Accept \/ serviceIO(t))

\* Bound: the same pool has spurious wakeups in one of its programs only.
Spurious(w) ==
    /\ prog = "lesson32" /\ SpuriousWakeup(w)
    /\ UNCHANGED <<prog, net, answer, typing, chunk, asked, killed>>

Next ==
    \/ \E t \in Threads : Step(t)
    \/ \E c \in Callers : Submit(c)
    \/ \E w \in Workers : Spurious(w)
    \/ prog \in {"lesson35", "lesson36"} /\ \E c \in Clients : tcpclient(c)

\* Every thread is scheduled, and the clients in Leaving do not stay for ever.
Fairness ==
    /\ \A t \in Threads : WF_vars(Step(t))
    /\ \A c \in Leaving : WF_vars(prog \in Programs /\ Leave(c))

Spec == Init /\ [][Next]_vars
FairSpec == Spec /\ Fairness

-----------------------------------------------------------------------------
(* Properties.                                                             *)

TypeOK ==
    /\ at \in [Threads -> {"new", "idle", "GetInstance", "singlock", "create",
                           "singunlock", "run", "lock", "test", "wait",
                           "woken", "push", "call", "write", "dead"}]
    /\ \A t \in Threads : task[t] \in Jobs \cup {NoTask}
    /\ {singlock, mutex} \subseteq Threads \cup {NoThread}
    /\ \A k \in DOMAIN task_queue : task_queue[k] \in Jobs
    /\ typing \in 0 .. Len(Typed)
    /\ asked \subseteq Clients
    /\ NetTypeOK

InOnePlace ==
    prog = "lesson32" => \A i \in Tasks :
        Cardinality({t \in Threads : task[t] = i})
          + Cardinality({k \in DOMAIN task_queue : task_queue[k] = i})
          + Len(answer[i]) = IF i <= typing THEN 1 ELSE 0

\* A division as C++ defines it: what is left over is less than the divisor and
\* has the sign of the dividend.
Divided(x, y, quotient, rest) ==
    /\ x = y * quotient + rest
    /\ Magnitude(rest) < Magnitude(y)
    /\ rest = 0 \/ (rest < 0 <=> x < 0)

\* What the calculation t may be answered with.
IsAnswer(t, a) ==
    CASE t.op = "+" -> a - t.y = t.x
      [] t.op = "-" -> a + t.y = t.x
      [] t.op = "*" -> a = t.y * t.x
      [] t.op \in {"/", "%"} /\ t.y = 0 -> a = -1
      [] t.op = "/" /\ t.y # 0 -> Divided(t.x, t.y, a, t.x - t.y * a)
      [] t.op = "%" /\ t.y # 0 ->
            \E q \in -Magnitude(t.x) .. Magnitude(t.x) : Divided(t.x, t.y, q, a)
      [] OTHER -> a = 0

RightAnswers ==
    prog = "lesson32" => \A i \in Tasks : \A k \in DOMAIN answer[i] :
                             IsAnswer(Typed[i], answer[i][k])

\* Every calculation that was typed is queued, in somebody's hands or done, and
\* done once; and what it gave is the answer to it, and to no other that runs
\* beside it: C++'s quotient or rest, and -1 for a division by zero (push,
\* handlerTask, mymath).
TasksRunOnce == InOnePlace /\ RightAnswers

\* With the clients in Leaving gone in the end, anyone else is answered: a
\* worker that serves a connection is given back, even after a reset.
Answered(c) == Len(got[c]) + Len(sock[c].out) = sent[c] \/ killed

EveryClientAnswered == []<>(\A c \in Clients \ Leaving : Answered(c))
=============================================================================
