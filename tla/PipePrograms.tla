---------------------------- MODULE PipePrograms ----------------------------
(***************************************************************************)
(* Programs around pipes: a father, its children, a pipe to each child.    *)
(*   "procpool"  lesson19: the father sends tasks to children that run     *)
(*               them;                                                     *)
(*   "mypipe"    lesson19: the child writes messages, the father reads;    *)
(*   "testcode"  lesson42: a program that polls its standard input, here a *)
(*               pipe from a process of the same kind as mypipe's child.   *)
(* A pipe ends for its reader when no process holds its write end, and a   *)
(* child holds every end that its father held at the fork.  The father is  *)
(* process 0, and child k has pipe k.                                      *)
(***************************************************************************)
EXTENDS OneProgram

CONSTANTS
    PROCESS_NUM, \* processPool.cc: the number of children
    taskCnt,     \* the argument of loadBalanceControl
    NumMessages, \* mypipe.cc: the number of messages
    MessageSize, \* the bytes of a message
    BufferSize   \* the bytes that one read of mypipe.cc and testcode takes

ASSUME PipeAssumption ==
    /\ PROCESS_NUM \in Nat \ {0} /\ taskCnt \in Nat /\ NumMessages \in Nat
    /\ MessageSize \in Nat \ {0} /\ BufferSize \in Nat \ {0}

VARIABLES
    father,      \* where the father is: its call and the child it is about
    kid,         \* where each child is
    data,        \* what is in each pipe
    writers,     \* the processes that hold the write end of each pipe
    left,        \* what loadBalanceControl has left of taskCnt
    put, taken   \* history: what went into and came out of each pipe

pipes == <<father, kid, data, writers, left, put, taken>>
pipeVars == <<prog, pipes>>

PipingPrograms == {"procpool", "mypipe", "testcode"}
Kids == IF prog = "procpool" THEN 1 .. PROCESS_NUM ELSE {1}

\* The pipe that testcode reads was there before it.
InitPipes ==
    LET fed(k) == prog = "testcode" /\ k = 1
    IN  /\ father = [call |-> IF prog = "testcode" THEN "fcntl" ELSE "fork", k |-> 1]
        /\ kid = [k \in 1 .. PROCESS_NUM |-> IF fed(k) THEN "new" ELSE "none"]
        /\ writers = [k \in 1 .. PROCESS_NUM |-> IF fed(k) THEN {k} ELSE {}]
    /\ data = [k \in 1 .. PROCESS_NUM |-> <<>>]
    /\ left = taskCnt
    /\ put = data /\ taken = data

PipeInit == prog \in PipingPrograms /\ InitPipes

Write(k, s) ==
    /\ data' = [data EXCEPT ![k] = @ \o s]
    /\ put' = [put EXCEPT ![k] = @ \o s]

Read(k, n) ==
    /\ data' = [data EXCEPT ![k] = SubSeq(@, n + 1, Len(@))]
    /\ taken' = [taken EXCEPT ![k] = @ \o SubSeq(data[k], 1, n)]

\* What there is, up to the size of the buffer.
ReadBuffer(k) == Read(k, IF Len(data[k]) < BufferSize THEN Len(data[k]) ELSE BufferSize)

\* read returns 0.
AtEnd(k) == data[k] = <<>> /\ writers[k] = {}

\* p closes what it holds of the pipes ks.
Closed(p, ks) ==
    [j \in DOMAIN writers |->
        IF j \in ks THEN writers[j] \ {p} ELSE writers[j]]

\* The end of process k closes whatever it still holds.
Exit(k) ==
    /\ kid' = [kid EXCEPT ![k] = "zombie"]
    /\ writers' = Closed(k, DOMAIN writers)

Father(call, k) == father' = [call |-> call, k |-> k]

\* pipe, and a fork that gives the child the father's descriptors.
Fork(k) ==
    /\ kid' = [kid EXCEPT ![k] = "new"]
    /\ writers' = [j \in DOMAIN writers |->
                     IF j = k THEN {0, k}
                     ELSE IF 0 \in writers[j] THEN writers[j] \cup {k}
                     ELSE writers[j]]

\* waitpid returns when the child has ended.
Reap(k) ==
    /\ kid[k] = "zombie"
    /\ kid' = [kid EXCEPT ![k] = "reaped"]

-----------------------------------------------------------------------------
(* processPool.cc                                                          *)

createprocess ==
    /\ prog = "procpool" /\ father.call = "fork"
    /\ Fork(father.k)
    /\ IF father.k = PROCESS_NUM THEN Father("send", 0)
       ELSE Father("fork", father.k + 1)
    /\ UNCHANGED <<data, left, put, taken>>

\* Mutant: the child closes the write end of its own pipe, not those of the
\* pipes that were there before it.
CloseOwnEnd(k) ==
    /\ prog = "procpool" /\ kid[k] = "new"
    /\ kid' = [kid EXCEPT ![k] = "loop"]
    /\ writers' = Closed(k, {k})
    /\ UNCHANGED <<father, data, left, put, taken>>

\* The child closes the ends in deletefd, and that of its own pipe.
closeEnds(k) ==
    /\ prog = "procpool" /\ kid[k] = "new"
    /\ kid' = [kid EXCEPT ![k] = "loop"]
    /\ writers' = Closed(k, 1 .. k)
    /\ UNCHANGED <<father, data, left, put, taken>>

\* Mutant: a child that finds its pipe empty takes that for the end.
QuitWhenEmpty(k) ==
    /\ prog = "procpool" /\ kid[k] = "loop"
    /\ \/ data[k] # <<>> /\ Read(k, 1) /\ UNCHANGED <<kid, writers, put>>
       \/ data[k] = <<>> /\ Exit(k) /\ UNCHANGED <<data, put, taken>>
    /\ UNCHANGED <<father, left>>

\* A code, or -1 at the end of the pipe, with which the child exits.
recevTask(k) ==
    /\ prog = "procpool" /\ kid[k] = "loop"
    /\ \/ data[k] # <<>> /\ Read(k, 1) /\ UNCHANGED <<kid, writers, put>>
       \/ AtEnd(k) /\ Exit(k) /\ UNCHANGED <<data, put, taken>>
    /\ UNCHANGED <<father, left>>

\* Which entry of taskMap rand chooses makes no difference: a task stands
\* for its number, from 0.
Task == taskCnt - left

\* Mutant: the count is tested once too late.
OneTooMany ==
    /\ prog = "procpool" /\ father.call = "send"
    /\ \E k \in Kids : Write(k, <<Task>>)
    /\ IF taskCnt = 0 THEN UNCHANGED <<father, left>>
       ELSE /\ left' = left - 1
            /\ IF left < 0 THEN Father("close", 1) ELSE UNCHANGED father
    /\ UNCHANGED <<kid, writers, taken>>

\* rand chooses the child.  `taskCnt-- == 0` is tested behind
\* the task that was sent; a taskCnt of 0 means for ever.
loadBalanceControl ==
    /\ prog = "procpool" /\ father.call = "send"
    /\ \E k \in Kids : Write(k, <<Task>>)
    /\ IF taskCnt = 0 THEN UNCHANGED <<father, left>>
       ELSE IF left = 0 THEN Father("close", 1) /\ UNCHANGED left
       ELSE left' = left - 1 /\ UNCHANGED father
    /\ UNCHANGED <<kid, writers, taken>>

\* close and waitpid, child after child.
waitProcess ==
    /\ prog = "procpool"
    /\ \/ /\ father.call = "close"
          /\ writers' = Closed(0, {father.k})
          /\ Father("waitpid", father.k)
          /\ UNCHANGED kid
       \/ /\ father.call = "waitpid" /\ Reap(father.k)
          /\ IF father.k = PROCESS_NUM THEN Father("exit", 0)
             ELSE Father("close", father.k + 1)
          /\ UNCHANGED writers
    /\ UNCHANGED <<data, left, put, taken>>

-----------------------------------------------------------------------------
(* mypipe.cc                                                               *)

\* fork, and the close of the write end by the father.
forkChild ==
    /\ prog = "mypipe" /\ UNCHANGED <<data, left, put, taken>>
    /\ \/ father.call = "fork" /\ Fork(1) /\ Father("close", 1)
       \/ /\ father.call = "close" /\ writers' = Closed(0, {1})
          /\ Father("read", 1) /\ UNCHANGED kid

Message(n) == [i \in 1 .. MessageSize |-> <<n, i>>]

\* The child writes a message, and leaves behind the last one.
sendMessages ==
    /\ prog \in {"mypipe", "testcode"} /\ kid[1] = "new"
    /\ LET n == IF put[1] = <<>> THEN 0 ELSE put[1][Len(put[1])][1] + 1
       IN  \/ n < NumMessages /\ Write(1, Message(n)) /\ UNCHANGED <<kid, writers>>
           \/ n = NumMessages /\ Exit(1) /\ UNCHANGED <<data, put>>
    /\ UNCHANGED <<father, left, taken>>

\* The father reads to the end of the pipe.
receiveMessages ==
    /\ prog = "mypipe"
    /\ \/ /\ father.call = "read" /\ data[1] # <<>>
          /\ ReadBuffer(1)
          /\ UNCHANGED <<father, kid>>
       \/ /\ father.call = "read" /\ AtEnd(1)
          /\ Father("waitpid", 1) /\ UNCHANGED <<kid, data, taken>>
       \/ /\ father.call = "waitpid" /\ Reap(1)
          /\ Father("exit", 0) /\ UNCHANGED <<data, taken>>
    /\ UNCHANGED <<writers, left, put>>

-----------------------------------------------------------------------------
(* lesson42/1.testcode                                                     *)

setNonBlock ==
    /\ prog = "testcode" /\ father.call = "fcntl" /\ Father("poll", 1)
    /\ UNCHANGED <<kid, data, writers, left, put, taken>>

\* Mutant: a read that finds nothing is taken for the end.
PollUntilEmpty ==
    /\ prog = "testcode"
    /\ \/ /\ father.call = "poll" /\ data[1] # <<>>
          /\ ReadBuffer(1)
          /\ Father("sleep", 1)
       \/ /\ father.call = "poll" /\ data[1] = <<>>
          /\ Father("exit", 0) /\ UNCHANGED <<data, taken>>
       \/ /\ father.call = "sleep" /\ Father("poll", 1) /\ UNCHANGED <<data, taken>>
    /\ UNCHANGED <<kid, writers, left, put>>

\* What there is is echoed; on EAGAIN the other callbacks run, and only a
\* read of 0 ends the loop.  A read that a signal interrupts is repeated.
PollStdin ==
    /\ prog = "testcode"
    /\ \/ /\ father.call = "poll" /\ data[1] # <<>>
          /\ ReadBuffer(1)
          /\ Father("sleep", 1)
       \/ /\ father.call = "poll" /\ data[1] = <<>>
          /\ IF AtEnd(1) THEN Father("exit", 0) ELSE Father("sleep", 1)
          /\ UNCHANGED <<data, taken>>
       \/ /\ father.call = "sleep" /\ Father("poll", 1) /\ UNCHANGED <<data, taken>>
    /\ UNCHANGED <<kid, writers, left, put>>

-----------------------------------------------------------------------------
FatherSteps == \/ createprocess \/ loadBalanceControl \/ waitProcess
               \/ forkChild \/ receiveMessages \/ setNonBlock \/ PollStdin

KidSteps(k) == closeEnds(k) \/ recevTask(k) \/ (k = 1 /\ sendMessages)

PipeNext ==
    /\ prog \in PipingPrograms /\ UNCHANGED prog
    /\ FatherSteps \/ \E k \in Kids : KidSteps(k)

\* Every process is scheduled.
PipeFairness ==
    /\ WF_pipeVars(prog \in PipingPrograms /\ UNCHANGED prog /\ FatherSteps)
    /\ \A k \in 1 .. PROCESS_NUM :
          WF_pipeVars(prog \in PipingPrograms /\ UNCHANGED prog /\ KidSteps(k))

PipeSpec == PipeInit /\ [][PipeNext]_pipeVars
PipeFairSpec == PipeSpec /\ PipeFairness

-----------------------------------------------------------------------------
(* Properties.                                                             *)

PipeTypeOK ==
    /\ father.call \in {"fork", "fcntl", "send", "close", "read", "poll",
                       "sleep", "waitpid", "exit"}
    /\ father.k \in 0 .. PROCESS_NUM
    /\ kid \in [1 .. PROCESS_NUM -> {"none", "new", "loop", "zombie", "reaped"}]
    /\ \A k \in 1 .. PROCESS_NUM : writers[k] \subseteq 0 .. PROCESS_NUM
    /\ left \in 0 .. taskCnt

Out(k) == {taken[k][i] : i \in DOMAIN taken[k]}

\* What a program sends in all.
Everything ==
    IF prog = "procpool" THEN 0 .. taskCnt
    ELSE (0 .. NumMessages - 1) \X (1 .. MessageSize)

\* What goes into a pipe comes out of it in order, and nobody leaves a pipe
\* behind with something in it: when the father is done, the children have
\* run all the tasks that it sent (recevTask), and it has read every byte of
\* every message (mypipe.cc, and main of testcode, for which a pipe that is
\* empty is not at its end).  No task is run twice (unless for ever).
PipesDeliver ==
    /\ \A k \in Kids : taken[k] \o data[k] = put[k]
    /\ taskCnt # 0 => \A j, k \in Kids : \A a \in DOMAIN taken[j], b \in DOMAIN taken[k] :
                        taken[j][a] = taken[k][b] => j = k /\ a = b
    /\ father.call = "exit" =>
          /\ \A k \in Kids : data[k] = <<>>
          /\ \A k \in Kids : kid[k] = "reaped" \/ prog = "testcode"
          /\ UNION {Out(k) : k \in Kids} = Everything

\* The programs come to their end (a taskCnt of 0 aside): every child sees
\* the end of its pipe, for nobody keeps a write end that is not his.
PipesEnd == father.call = "exit"
=============================================================================
