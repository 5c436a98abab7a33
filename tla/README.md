# A TLA+ model of the StudyLinux programs

StudyLinux is a course in Linux programming: 45 lessons, each with one or more
small programs. The early lessons are single system calls; the later ones are
systems of some size: queues between threads, a thread pool, TCP and UDP servers,
servers on `select`, `poll` and `epoll`, and in lesson45 an edge-triggered Reactor
that serves the calculator protocol of lesson37. This directory holds TLA+
modules that model the parts with concurrent behaviour, the TLC configurations
that check them on small instances, and proofs that TLAPS checks for every
instance.

Contents: [inventory](#inventory), [plan](#plan), [modules](#modules),
[runs](#runs), [fairness](#fairness), [proofs](#proofs),
[where the code differs from its comments](#where-the-code-differs-from-its-comments),
[limits](#limits-of-the-models), [not modelled](#not-modelled).

## Inventory

| component | state | operations | what is hard | what must hold |
|---|---|---|---|---|
| Reactor server, `lesson45/Reactor` | the epoll instance, `connections_`, per `Connection` the descriptor and two buffers, `revs_`, `errno` | `Loop`, `Accepter`, `Recver`, `Service`, `Sender`, `EnablieReadWrite`, `Excepter` | clients and kernel act between any two calls; edges are announced once; descriptor numbers are reused; short sends; a handler may delete the object its caller uses | the tables agree; no byte, reply or edge is lost or repeated; every request is answered |
| protocol, `lesson37/protocol.hpp`, `lesson45/Reactor/Protocol.hpp` | the bytes of an inbuffer | `enLength`, `deLength`, `recvPackage`, `ParseOneText`, serialize, deserialize | the stream is cut anywhere, several packages may come at once | the answer printed is the answer to what was typed |
| calculator client and process-per-connection server, `lesson37` | one inbuffer each | `start`, `ParaseLine`, `handlerEntry`, `cal` | each blocks in `recv` on the other | they do not wait for each other |
| ring queue, `lesson31` | the vector, two semaphores, two steps, two mutexes | `push`, `pop` | a producer and a consumer are in the vector together | no slot is raced for; bounded FIFO |
| blocking queue, `lesson29`, `lesson30` | a queue, a mutex, two condition variables | `push`, `pop` | `signal` wakes one thread and a third may overtake it; spurious wakeups | bounded FIFO; no lost wakeup |
| queue program, `lesson30/BlockQueue/MainCp.cc` | the queue of tasks; a second one that nothing uses (the saver is in a comment) | `produce`, `consume` | producer and consumer share one queue | every task is calculated once, in order |
| thread pool, `lesson32`, `lesson36` | a singleton, an unbounded queue, a mutex, a condition variable | `GetInstance`, `run`, `push`, `handlerTask` | double-checked creation; workers that never end | one instance; every task runs once |
| echo server, `lesson36` | one task per connection | `start`, `serviceIO` | a worker per connection; a `read` that fails has no branch | echoes are exact; a worker comes back, and the next client is served |
| `select`, `poll`, `epoll` servers, `lesson42`-`lesson44` | `fdarray`, `_pollfds`, the epoll set | `Accepter`, `Recver`, `HandleEvent`, `start` | a pass over a table that the pass changes | a handler that blocks has something to read |
| process pool, `lesson19/procpool` | a pipe per child, `deletefd` | `createprocess`, `sendTask`, `recevTask`, `waitProcess` | inherited write ends | the pool ends; each task runs once |
| pipe, FIFO, shared memory, `lesson19`, `lesson20`; non-blocking input, `lesson42/1.testcode` | the pipe, the name, the object behind it | `createFifo`, `removeFifo`, `createShm`, `getShm`; read, `EAGAIN` | processes are killed at any point; a name outlives its server; "empty" is not "ended" | one server per name; every byte arrives |
| UDP servers, `lesson33`-`lesson35` | the table of online users | `AddUser`, `DelUser`, `Broadcast`, `execCmd`, `handlerMessage` | datagrams are lost, repeated and reordered; one callback can end the server | a message goes once to each user online when it arrived |
| fork servers, `lesson37`-`lesson40` | descriptors shared by father, child and grandchild | `start`, `handlerEntry`, `HandlerHttp` | who holds the connection last; `waitpid`; a failing `fork` | a handler that takes for ever delays nobody |
| shell, `lesson13`, `lesson15` | the redirection globals, `lastcode`, `lastsig` | built-ins, redirection, fork | state left over from the line before | the right file gets the output |
| stdio, `lesson16` | a buffer, a flush mode | `fopen_`, `fwrite_`, `fflush_`, `fclose_` | what is in the buffer between two writes | the file has what was written |
| signals, `lesson13/mychild.c`, `lesson23` | the mask, the pending set; the status word | `sigprocmask`, `sigpending`; `waitpid` with `WNOHANG` | signals that arrive while blocked merge | none is lost altogether; the status is decoded right |
| tickets, `lesson27`, `lesson28`; `testCond`, `lesson29` | a counter, a mutex, a condition variable | `get_tickets`, `start_routine` | `tickets--` is a load and a store; a broadcast that finds nobody waiting | no ticket sold twice, all sold |
| other thread, signal and C demos; logging | none that outlives a call | | | |

The Reactor calls `Service` through `service_`, `Service` calls back into
`Sender` through `conn->sender_`, and `Recver` and `Sender` call `Excepter`: one
thread, nested calls on one `Connection`. The protocol of lesson37 is used again
by lesson45 and, through the servers that fork, by lesson37 itself. The servers of
lesson35 to lesson44 share the kernel's TCP and their kind of client, and nothing
else; the two users of the thread pool share the class. The other programs
stand alone.

## Plan

All of the plan that began with the Reactor is carried out:

1. `Reactor` with its promise `CalcService`; the ring queue and the blocking queue
   with their promise `BoundedFifo`; `CalProtocol`, byte by byte.
2. `ThreadPool` (the class) and `PoolPrograms` (lesson32's calculator, lesson36's
   and lesson35's echo servers), over `TcpNet`, the TCP that all servers share.
3. `PollingServers` (select, poll, level-triggered epoll) and `ForkServers`
   (lesson37 and the HTTP servers), over the same `TcpNet`.
4. `PipePrograms`, `NamedObjects`, `ThreadPrograms`, `UdpServers`, `Shell`,
   `MyStdio`, `Signals`.
5. `OneProgram` and `Programs`, which put the modules of point 4 side by side.
6. `Servers`, which puts the modules of points 2 and 3 side by side.
7. Proofs: the Reactor's tables, edges, streams and its promise; both queues; the
   servers (polling, pool, fork), alone and side by side; every program of point 4; the
   protocol.

Left for later: the loop of the jsoncpp build.

## Modules

### `Reactor`, `CalcService`, `MCReactor`, `ReactorProofs`, `ReactorStreamProofs`

One step runs from one system call of the server to the next; clients and kernel
act in between. `pc` says which call is next, `conn` is the argument of the
running handler, and `ret` is where `Sender` and `Excepter` return, since they are
called from `Loop`, from `Service` or from each other.

| variable | code |
|---|---|
| `fd[c]` | `Connection::sock_`; `NoFd` when the object does not exist |
| `connections` | `TcpServer::connections_` |
| `inbuf`, `outbuf` | `inbuffer_`, `outbuffer_` |
| `revs` | what is left of `revs_` in this `Loop`; `owner` is history, the connection an event was reported for |
| `errno` | `errno` |
| `interest`, `rdlist` | the kernel's epoll registrations and ready list |
| `rcvbuf`, `sndbuf`, `backlog`, `peer` | the kernel's sockets and the clients' side of them |
| `sent`, `got` | what a client has sent and read |
| `parsed`, `intr` | history: packages parsed; a bound on interrupted calls |

| action | code |
|---|---|
| `EpollWait`, `WaitInterrupted`, `LoopDone`, `CallRecver`, `CallSender` | `Loop`, `Dispatch` |
| `AcceptOne`, `AcceptFails`, `AddConnection` | `Accepter`, `AddConnection` |
| `RecvData`, `RecvNothing`, `RecvEnds`, `RecvFreed` | the outcomes of `recv` in `Recver` |
| `ServePackage`, `ServiceSends` | a pass of the loop of `Service`; its call of `sender_` |
| `SendSome`, `SendFull`, `SendNothing`, `SendFails`, `EnablieReadWrite` | the outcomes of `send` in `Sender`; the end of `Sender` |
| `Excepter` | `Excepter` with `DelEvent`, `Close`, `erase` and `delete` |
| `CallInterrupted` | a call that fails with `EINTR` and is repeated |
| `Connect`, `ClientSend`, `ClientRecv`, `ClientClose`, `ClientReset` | the clients (external) |

The data: a request is a number sent as one or more fragments of which the last
is marked (`ScriptAssumption`); a package is complete when the marked fragment is
there. A reply is the number of its request; `Answers(s, n)` are the replies to the
first `n` packages of `s`. `Malformed` are requests that `deserialize` refuses,
which only the `MYSELF` build does: with the jsoncpp build of the Makefile take
`Malformed = {}`.

The kernel's part (external) follows what Linux documents: `EPOLL_CTL_ADD` of a
registered descriptor fails with `EEXIST`; an event on a descriptor whose
mask includes it queues the descriptor once; `epoll_wait` polls what it takes off
the list and reports at most `num`; a descriptor is queued for any event of its
mask that its socket polls, `EPOLLERR` and `EPOLLHUP` always included; `accept`
returns the lowest free number; `close` with unread input resets the connection.

`CalcService` is the promise to the clients: each request is answered at most
once, after it was sent completely, and the answers come in the order of the
requests. `Reactor` implements it under the mapping `asked` = requests sent
completely, `replied` = `got`.

### `RingQueue`, `RingQueueProofs`

`spacesem`, `datasem`, `produceStep`, `consumeStep`, `pmutex`, `cmutex` and
`queue` are the members; `pc[t]` is the next operation of a thread. One action
per operation: P, lock, access, unlock, V. The assignment and the step of lines
42-43 are one action, which `NoDataRace` justifies: it says that no other
thread is at that slot or at that step, so that no interleaving inside the action
could be seen. `Contents` is the refinement mapping to `BoundedFifo`: the
`Occupied` slots from `consumeStep` on.

### `BlockQueue`, `BlockQueueProofs`

`pc[t]` tells a thread at the mutex (`lock`), at the test of the `while` holding
it (`test`), waiting (`wait`), signalled and at the mutex again (`woken`), and
leaving (`unlock`). `Put` and `Get` include the signal, which is given with the
mutex held. `BoundedFifo` is the promise, with `q` mapped to itself.

### `CalProtocol`, `MCCalProtocol`, `CalProtocolProofs`

Bytes are ASCII codes. The client types `x op y`, `ParaseLine`, `serialize` and
`enLength` turn it into a package, TCP delivers any number of bytes at a time, the
server extracts a package (`recvPackage` of lesson37 or `ParseOneText` of lesson45,
which differ in when they read), deserialises, calculates, and answers the same way.
`ServerRecv`, `ServerHandle` and `ServerWaits` are a `recv`, a package handled and
a search that finds none; the `Client` actions likewise. The serialisation is
the one of `#ifdef MYSELF`. The client of lesson37 waits for each answer
(`Pipelining` empty for that server); a client of the Reactor need not. A session is a
sequence of `Requests`: operands, and a result, that an `int` can hold, and any ASCII
character but NUL, a digit and the end of the line for the operator. What a `recv` brings is
appended as a C string (`CString`), which would lose what follows a NUL.

### `TcpNet`

External: the connections of `lesson35` to `lesson44` as the server's calls see
them. A connection is a record of the chunks that wait in either direction and of
how each side has ended: `AfterRecv`, `AfterWrite`, `AfterClose` are what a call
does to it. A reset is reported once and then reads as the end of file; a write to
a closed peer succeeds once and then raises `SIGPIPE`; `close` with unread input
throws away what the client has not read. A chunk is what one `recv` returns.
`EchoesInOrder` is the promise of all six echo servers.

### `PollingServers`

One module for the four one-thread servers, chosen by `prog`, because they differ
in three operators: what is reported (`Select`, `Poll`, `EpollWait`), which
descriptor's turn it is (`Turn`) and what is forgotten after it (`Visited`).
`fdarray` is the table of both lessons, `ready` is `rfds`, `revents` or `_revs`,
`pos` the index of `HandleEvent`, `held` what `Recver` has read and not yet
answered, `fdtab` the kernel's descriptors with their numbers.
`Accepter` is `AddConnection`, `TooHigh` (no free slot) and `AcceptFails`
(`EMFILE`); `Recver` is `RecvData` followed by `Write`, or `RecvEnds`. `EpollWait` reports at
most `num` events (`_num`), any of those that wait: which come first is the kernel's affair.

### `ThreadPool`, `PoolPrograms`

`at[t]` is where a thread is, `task[t]` the `Task` it carries; `tp`, `singlock`,
`mutex` and `task_queue` are the members. `TestInstance`, `LockSingle`, `Create`,
`UnlockSingle` are the two tests of `GetInstance`; `StartWorker` is a turn of the
loop in `run`; `Lock`, `Push`, `Wait`, `Pop` are the class's synchronisation. In
`PoolPrograms`, `Submit` and `Calculate` are lesson32's `main` and its tasks (`mymath`, with
`Quotient` for C++'s division, which `IsAnswer` describes by its remainder);
`Accept` and `serviceIO` (`ReadMessage`, `ReadFails`, `ClientQuit`, `Echo`) are the
echo servers; `tcpclient` is a client that types lines, long ones and empty ones
included. `PoolAssumption`, `TcpAssumption`, `PollingAssumption` and `ForkAssumption` say
what is assumed of the constants of their modules; TLC evaluates them.

### `ForkServers`

`father`, `child[c]` and `grand[c]` are the next calls of the three processes a
connection has; `holders[c]` is who has its descriptor. `fork` copies descriptors,
`exit` closes them, and the connection ends with its last holder. `reply[c]` is
which file an HTTP handler sends and with which type.

### `Servers`, `ServerProofs`, `ThreadCounts`

`Servers` extends the three server modules, which share `TcpNet`: a step of `ServersNext`
is a step of one of them and leaves the variables of the others alone. `ServerProofs`
holds the theorems about all of them. `ThreadCounts` has the lemmas about numbers of threads
at given points, and of places of a queue that hold a value, that the proofs of the
queues and of the pool share.

### `OneProgram`, `Programs`, `ProgramProofs`

The modules below are about small programs, and all of them extend `OneProgram`, which
declares `prog`, the program of a behaviour. Each has its variables, its first states
(`PipeInit`), its next-state relation (`PipeNext`), its specification (`PipeSpec`) and
its properties, named after it. `Programs` extends them all: a step of `Next` is a step
of one of them, and leaves the variables of the others alone. `ProgramProofs` has a
section for each and a last one for `Programs`.

### `PipePrograms`, `NamedObjects`

In `PipePrograms` a pipe is its bytes (`data`) and the set of processes that hold
its write end (`writers`), so that "end of file" is a fact about other processes.
`createprocess`, `closeEnds`, `recevTask`, `loadBalanceControl` and `waitProcess`
are the pool; `sendMessages` and `receiveMessages` are `mypipe.cc`; `PollStdin` is
`lesson42/1.testcode`. The tasks of the pool are numbered as they are sent, so that
doing one twice or not at all shows. In `NamedObjects` an object has a number and a name points
to at most one; `Kill` may end any process anywhere. A FIFO has a reader until the server's
`close` (`HasOpen`): a client that opens it behind the server's loop gets through.

### `ThreadPrograms`

The two ticket sellers and `testCond`, from one access to the next: `tickets--` is
a load and a store (`Decrement`). lesson30's program is modelled over the queue's
promise, not over its mutex: `BlockQueue` shows that promise kept.

### `UdpServers`, `Shell`, `MyStdio`, `Signals`

`UdpServers`: datagrams are a set `flying` from which the network loses, copies
and delivers in any order; `start(d)` is a turn of the loop with the whole
callback. `Shell`: a line is a record; the child's `open`, `dup2` and `execvp` are
steps apart from the father's, and the globals are those of the source.
`MyStdio`: `fwrite_` and `fflush_` over a byte sequence with newlines anywhere in it, and a
`write` that may be short. `Signals`: one variable for the mask and one for the pending bit of
`SIGINT`; the status word of `waitpid` is computed and decoded as a number.

### `MCServers`, `MCPrograms`

`MCServers` and `MCPrograms` give `Servers` and `Programs` their constants. `prog` is
chosen at first and never changes, so that a behaviour is one program's; the others keep
still. Both check the properties of the modules as they stand, so that the theorems are
about the same definitions; only `ServersTypeOK` of `Servers`, `NobodyForgotten`, and
`TypeOK`, `NothingLost`, `Exclusive` and `ProgramsEnd` of `Programs` are conjunctions over
the programs.

## Runs

| run | result | what it shows |
|---|---|---|
| `ReactorSafety` | passes, 1.6 million states | `TypeOK`, `TablesAgree`, `InputStream`, `OutputStream`, `NoLostEdge`, `PendingConnectionsWake`, `BatchIsCurrent`, `ImplementsCalcService` |
| `ReactorLive` | passes, 22 000 states | `OnlyErrorsClose`, `EveryRequestAnswered`, `ConnectionsReclaimed` |
| `RingQueue` | passes, 111 000 states | `TypeOK`, `SlotsAccounted`, `NoDataRace`, `ImplementsFifo`, `ItemsKeepMoving` |
| `BlockQueue` | passes, 1.0 million states | `TypeOK`, `MutualExclusion`, `NoLostWakeup`, `ImplementsFifo`, `ItemsKeepMoving` |
| `CalProtocol` | passes, 46 000 states | `TypeOK`, `AnswersAreExact`, `NothingHeldBack`, `NotBothWaiting` |
| `Servers` | passes, 568 000 states | `ServersTypeOK`, `TablesAgree`, `ReadyWhenVisited`, `OneInstance`, `TasksHaveWorkers`, `TasksRunOnce`, `EchoesInOrder`, `OneHolder`, `NobodyForgotten` |
| `Programs` | passes, 320 000 states | `TypeOK`, `ToldExactly`, `NothingLost`, `Exclusive`, `LinesKeepApart`, `ProgramsEnd` |
| `ReactorStuck`, `ReactorStaleErrno`, `ReactorFreed`, `ReactorNoDescriptor`, `CalPipelined` | violated | see [below](#where-the-code-differs-from-its-comments) |

Bounds, and why they suffice:

- `ReactorSafety`: two clients on two descriptors, so that one connection is
  closed while another's event is in the batch and a number is free for reuse;
  three requests in four fragments, the first split and the second refused, with
  at most two fragments per `recv`, so that a read ends inside a package, brings
  two, and `Service` returns early; a send queue of one reply, so that sends are
  short; one interrupted call; client `a` may close at any time, `b` may reset.
- `ReactorLive`: one event per `epoll_wait`, so that a descriptor waits for its
  turn; a send queue that holds every reply and requests that are not split,
  because the violated runs show that a full queue and a split request defeat
  liveness; no resets, because they end in the freed connection of `ReactorFreed`.
- `RingQueue`, `BlockQueue`: three producers and two consumers on two places and
  two items, so that both ends are contended, the queue fills and empties, the
  steps wrap around, and in `BlockQueue` a third thread can overtake the one that
  was signalled.
- `CalProtocol`: requests with zero, negative and positive operands, every
  operator and an unknown one, alone and followed by another, and packages whose
  length has one and two digits; the stream is cut at every place.

- `Servers`: three clients on two slots (or two descriptors for epoll), so that a
  client is turned away and a slot and a number are used again; one of them may
  reset; one chunk fits between server and client, so that a write waits; two events per
  `epoll_wait`, so that a ready descriptor may be left out. The pool has two workers and two
  callers, three tasks (a division with a remainder, one by zero, a remainder, with signs of
  both kinds), spurious wakeups in lesson32, and
  three clients of lesson36 of which two leave in the end, so that the third needs
  a worker that was given back. Two of the clients are `Visitors` of a fork server, one whose
  handler may never end, and one `fork` that fails.
- `Programs`: two chat clients of which one goes online, talks and goes offline,
  and one datagram that is copied; three children, so that a child inherits from
  two elder ones, and four tasks; four messages of two bytes read three at a time;
  two servers and two clients at a name, each of which may be killed; three
  threads and three tickets, three broadcasts; three shell lines out of nine kinds,
  with a file that is there, one that can be created and one that cannot; a buffer
  of four bytes and five bytes written; two rounds under the mask and three signals.

The Reactor runs do not check for deadlock: a server with nothing to do
waits in `epoll_wait(-1)`. Nor do the protocol runs: when the session is over the
client waits for its user. Nor do `Servers` and `Programs`, whose servers wait for
clients and whose other programs end; that they end when they should is
`ProgramsEnd`. The queues' threads work for ever, and there deadlock
is checked.

## Fairness

`ReactorLive` assumes that the server thread is scheduled (`WF(Server)`) and that a
client that has begun goes on sending, reading and closing. A client need not
connect. Nothing is assumed of any single server action: which
branch is taken follows from the state.

`RingQueue` and `BlockQueue` assume weak fairness of each thread, which the kernel
gives. No fairness of mutexes or semaphores is assumed, so a single thread may be
overtaken for ever; what is shown is that items keep moving. `BlockQueue` also
assumes that spurious wakeups do not go on for ever.

`Servers` (`ServersFairSpec`) assumes that each server thread and process is scheduled; that the
clients of the polling servers read what they are sent (a write that blocks stops
a one-thread server: the code has no defence against a client that does not
read); and that the pool's clients in `Leaving` leave in the end, without
which a worker is never given back. A handler in `Stuck` is not assumed to go on.
`Programs` assumes that processes and threads are scheduled, that a pending signal
that is not blocked is delivered, and that what feeds the non-blocking reader ends.

## Proofs

Checked by TLAPS for every value of the constants that the modules' assumptions
admit.

`ReactorProofs`: `TypeCorrect` and `TablesStayConsistent`. `TablesAgree` alone is
not inductive, and `IInv` adds what it leans on. `HandlerLive`: a handler past its
first system call works on an open connection (otherwise `EnablieReadWrite` could
register a descriptor that nobody owns). `BacklogInv`: a client waits for `accept`
once and has no descriptor meanwhile (otherwise `accept` could give it a second
one). `RevsInv`: while a handler runs, its event is the head of the batch
(otherwise `CallSender` would look up an event that is not there). The step that
matters is `TablesStep`: `AddConnection` finds the descriptor unregistered, because
it is free and the tables agree, so that its assert holds and `insert` inserts;
`EnablieReadWrite` finds it registered, so that its `EPOLL_CTL_ADD` changes nothing.
Type correctness is proved in four lemmas, one per group of variables.

`EdgesAreKept` (`NoLostEdge`) and `BatchStaysCurrent` (`BatchIsCurrent`) need what the
kernel and `Loop` know of a descriptor to be in one place. `EdgeInv` says: every
registration asks for input and the listening one is never dropped
(`ListensForInput`); the ready list has no descriptor twice and only registered ones
(`ReadyOnce`); nor has the batch (`BatchOnce`), whose events belong to the connection
that now has the number (`BatchOwned`); and the connection of the running handler is
not in the rest of the batch (`HandlerApart`), so that a handler that deletes its
connection and an `accept` that takes the number leave no stale event behind.

`AcceptIsAnnounced` (`PendingConnectionsWake`) has the hypothesis
`EnoughDescriptors`, a descriptor for every client: `accept` then ends with an empty
backlog, never with `EMFILE`, because `connections_` maps the numbers in use one to
one to the other clients. `ReactorNoDescriptor` shows that it is false without.

`ReactorStreamProofs`: `InputIsExact` (`InputStream`) and `OutputIsExact`
(`OutputStream`). `InputInv` gives the position in the script that the packages
parsed so far end at: `inbuffer_` and the socket together are the fragments from there
to the last one sent, so that `recv` moves the boundary between the two and a
package parsed moves the position to the next end of a request. `Answers(s, n)` is
kept by appending the next reply, by moving replies between buffers, and by cutting
at the end (`AnswersPrefix`), which is what a reset does. `ReactorIsCalcService`
(`ImplementsCalcService`) follows: `ClientSend` of a last fragment is an `Ask`,
`ClientRecv` is a `Reply`, every other step is invisible.

`ErrorsOnlyClose` (`OnlyErrorsClose`): the server closes only what the peer has closed
or reset, provided that requests arrive in one piece and none is refused
(`WholeRequests`, the constants of `ReactorLive`). The invariant follows the ways
into `Excepter`: `Sender` is never called with nothing to send (`ServiceReplies`,
`SenderHasOutput`), and an event other than input tells of a reset (`TroubleTold`).
`ReactorStaleErrno` shows that it is false with a request in two pieces.

`RingQueueProofs`: `TypeCorrect`, `SlotsAccountedFor`, `RaceFree` and `RingIsFifo`.
`IInv` adds to the types who holds which mutex, the account of the slots
(`spacesem` + claimed + `Occupied` + being freed = `Capacity`), the item each
producer carries, and the distance of the two steps: `produceStep` is `Occupied`
slots ahead of `consumeStep`, modulo `Capacity`. The account bounds
`Occupied`: less than `Capacity` while a producer is about to write and more than
zero while a consumer is about to read. With the distance, that keeps the
two off the same slot (`RaceFree`), and makes a write append to `Contents` and a
read take its head (`RingIsFifo`). The lemma `MoveCounts` says how moving one
thread changes the number of threads at given points.

`BlockQueueProofs`: `TypeCorrect`, `MutexHeld`, `NoWakeupLost` and `QueueIsFifo`.
`IInv` has the types, who holds the mutex, the item a producer carries and the
capacity, and `NoLostWakeup` itself: while a producer sleeps, as many
producers are awake as there are free places, and likewise for
consumers and items. With types and capacity it is inductive: a consumer that
frees a place wakes a producer if one sleeps, and a producer falls asleep only
beside a full queue.

`ServerProofs` begins with the TCP that the servers share: `NetTypes`; `Arrivals` (a
connection waits for `accept` once, and only before it is accepted); and `Flow`, the
account of a connection's chunks: what came back, what the client has still to
read, what the server has in hand and what it has not read are in this order the
chunks 1, 2, 3, ..., and nothing else is (until somebody closes: then what came
back is a prefix). The server's calls and the clients keep all three.

Polling: `TablesStayTrue` (`TablesAgree`), `NobodyWaitsInHandler`
(`ReadyWhenVisited`) and `PollingEchoes` (`EchoesInOrder`). A handler may close a
descriptor and `accept` may give out the same number within one pass, and the pass
goes on with what was reported before. `PollInv` adds to the two properties that
each open descriptor has a connection of its own (`Owners`), and what a pass has
still to visit (`Visits`): the listening socket has slot 0, so that `select` accepts
before it reads and a number that is closed in the pass is not given out again in
it; what `epoll` has still to visit is registered, and what `poll` has marked is
in the table. For `PollingEchoes` the chunk in hand is `held`.

Pool: `OnePool` (`OneInstance`) and `NoTaskForgotten` (`TasksHaveWorkers`). The control
invariant `CtrlInv` has the types; that `_singlock` is held between the two tests and
that `created` is 1 exactly when `_tp` is set (`SingleInv`); who carries a task at
which point (`CarryInv`); and that callers do not wait for tasks, workers do not
push, and lesson35 has none of them (`RoleInv`). Under it `TasksHaveWorkers` is
inductive: a push that finds a sleeper wakes it, so that one more worker looks; a
pop takes one task and one looking worker; nobody falls asleep beside a task.
`EachTaskOnce` (`TasksRunOnce`) keeps an account of each calculation: the threads
that carry it, its places in the queue and its answers are together 1 once it is
typed and 0 before. `Submit` opens the account; `Push`, `Pop` and `Calculate` each
move one unit (`InOnePlace`). An answer is stored under the task it was calculated for, and is
what C++ gives: `QuotientDivides` shows that `mymath`'s quotient leaves a remainder smaller
than the divisor and of the dividend's sign, whatever the signs (`RightAnswers`). `PoolEchoes` (`EchoesInOrder`): an accepted connection is in one
place, the queue or the hands of one thread (`PlacesInv`), so that two workers
never read one stream; what its thread has read is the chunk in hand. Only lesson35
can be killed by `SIGPIPE`, and then everything stands still.

Fork: `HandlerHoldsAlone` (`OneHolder`). `HoldersInv` says exactly which process holds
which descriptor, from where father, child and grandchild are; that a connection
is open as long as somebody does; and that only the connection the father is busy with
has a child. That includes every failing `fork`: without a grandchild the child
handles the connection and the father waits for it.

Types: `ServersTyped` (`ServersTypeOK`). It says of the connections that each holds chunks
of its own client only, numbered up to what that client may send: `ChunksSent`, which
the client keeps because it numbers what it sends (`ClientChunks`), and the server's calls
because all but a write bring nothing new (`CallChunks`). A write sends what a `recv` of
the same connection has brought: the chunk in hand is the client's (`HandChunk` of the
polling servers, `HandChunks` of the threads), and a fork server answers only who has
sent something. That takes the invariants above, for the chunk and the connection in
hand have to belong together.

Side by side: a behaviour of `ServersSpec` is one of `PollingSpec`, `Spec` or `ForkSpec`, and
the variables of the other modules never leave their first state (`OneRuns`). The one step
whose guard does not name its programs is `Echo`; while no thread has started there is
none (`OthersRest`). So `ServersPromise`: every other invariant of the run holds as well.

`ProgramProofs` proves each module's property of its own specification first.

Names: `OneServerAtATime` (`OneServer`). A serving server made the object behind the
name, and the name is somebody's, wherever processes are killed. `NamedInv` needs that
a server past creation has the name (so nobody else can create) and that objects are
numbered in the order of their making (so an old one cannot return).

Tickets: `SellersSellOnce` (`TicketsSoldOnce`). `SellersInv` says who holds the mutex
and that `Len(sold)` and `tickets` add up to the initial number, except that a ticket
between its print and the store is out of the account. `CountInv` keeps that account
for each seller: its `cnt` is the number of its entries in `sold` but for the one in
hand, by the cardinality of a set that grows by an element (`SalesGrow`).

Datagrams: `UdpTellsExactly` (`ToldExactly`). The set that `ToldExactly` speaks of
depends on `handled` only up to a datagram (`NextDatagram`), so that one taken more adds
its number behind the others for those who hear it and changes nothing earlier
(`InOrderMore`). In the chat that is sound because the table is the set of those whose
last word is not "offline" (`TableInv`): the table of the callback is the fact about the
past that `Hears` asks for.

Pipes: `PipesDeliverAll` (`PipesDeliver`). That `taken` and `data` are together what was
put in (`PipeFlow`) is kept by every step; that a child or father that has seen the end
has read everything takes more. `PoolEnds`: the father keeps a write end of each pipe
until it has sent the last task, and a child that has ended was at the end of its pipe,
so that nothing is put in behind it. `PoolNumbers` and `PutOnce`: each task sent so far is
in one place of one pipe. `WriterHolds` and `MessagesInv`: the child of `mypipe.cc` holds
its end until it has written all, and what it has written is whole messages in order.

Shell: `LinesDoNotMix` (`LinesKeepApart`). `ThisLine` ties the globals and the child's
standard output to the line that runs: nothing of an earlier line is left in
`redirType` and `redirFile`. `EndsInv`: `lastcode` and `lastsig` are the end of the last
line that had a child (`LastEnd`), which does not change for the lines already
answered. `FilesInv`: a file lists, in order, the lines that wrote there since it was
last emptied (`Standing`), and lines write only to files that are there, so that a file
that `open` creates is empty rightly.

Stdio: `StdioLosesNothing` (`StdioDelivers`), which is inductive with the types and the
fact that the buffer is empty before the first byte; the proof is about regrouping
concatenations. Signals: `SignalsAreKept` (`SignalsKept`). A signal that came before the
mask is there is counted as `early`, at most one is pending, and the word that the father
decodes was made from `kidEnd`: the lemma `StatusWord` shows that the macros take apart
what was put together, for the child's exit code and for every signal, with a core dump
or without.

`Programs`: a step of `Next` is a step of one module or nothing for it
(`OneModuleMoves`), so that a behaviour of `Spec` is one of the module's specification
or never leaves its first state there (`UdpAlone` and its like). With that,
`TypesAreKept` (`TypeOK`), `ToldAsTheyHear` (`ToldExactly`), `NothingIsLost`
(`NothingLost`), `OneAtATime` (`Exclusive`) and `EachLineItsOwn` (`LinesKeepApart`) are
the run's invariants as they stand.

`CalProtocolProofs`: `TypeCorrect`, `AnswersExact` (`AnswersAreExact`),
`HoldsNothingBack` (`NothingHeldBack`) and `NeverBothWaiting` (`NotBothWaiting`), for
every session and every way of cutting the streams. The lemmas come in four layers.

- Induction. The library states it with an operator as a parameter, which the provers
  cannot instantiate. `Induction` says the same of a set, and follows from the
  well-foundedness of `\subset` on finite sets: the least of the intervals `0 .. k` with
  `k` outside the set. With it, `OneWay` and `StepsExist` show that a function given
  step by step is there and is the only one, and so that `Decimal` and `Value` are what
  their definitions say (`DecimalDefined`, `ValueDefined`).
- Text. `NumberText`: `stoi(to_string(n)) = n` for every integer, and what is written is
  digits behind at most one minus sign, so that no separator is in it. `Framed`: a
  buffer that begins with a package has it, it is the one that was sent, and the rest
  is what follows. `CutShort`: a buffer that ends inside a package has none.
  `RequestExact`, `LineExact`, `ResponseExact`: what is written is read back and is not
  refused, whatever the operator; the separator itself is one, and is found because
  `deserialize` looks for the first and the last.
- Streams. `Wire` is what the first k packages are on the wire. If between the places
  i and j lies a buffer and what is on its way, then a package found in the buffer is
  number i + 1 (`PackageFound`), and if none is found and nothing is on its way then
  i = j (`AllTaken`).
- The protocol. `IInv` says that the server has answered some h requests, that its
  buffer and what is on its way are the wire from h to `nsent`, and the client's buffer
  and what is on its way to it are the wire of answers from `Len(answers)` to h. `recv`
  moves the boundary between the two, a package handled moves h. `Waits` says that who
  waits has no package in its buffer; lesson37's server, which reads before it looks,
  keeps that only because a client that waits has at most one request open. That is the
  hypothesis `"calServer" \notin Pipelining` of the last two theorems, which `start` of
  the client keeps and without which `CalPipelined` shows the property false.

The assumptions on the constants are the ASSUMEs of the modules that declare them, and
TLC evaluates them in the runs. `Reactor`: the script is a sequence of whole requests,
sizes are numbers. Servers and queues: sets are finite; workers are not callers;
`NoThread`, `NoTask` and `NoClient` are none of them; there is a slot for the listening
socket; the page `404.html` is there, as it is in the repository. Programs: bounds are numbers, and those of reads, messages and children are not
zero; servers are not clients of their name; the operands of a task are not negative
(the code draws them with `rand() % n`); a signal is below 127, as the status word needs. `CalProtocol`: what is typed and its results are
within `int`.

With TLC only: liveness, which TLAPS cannot prove under fairness.

## Where the code differs from its comments

- **`ReactorStuck`.** `Sender` ends by asking for `EPOLLOUT` when output is left
  (`TcpServer.hpp:147-151`), but `EnablieReadWrite` calls `AddEvent`, which is
  `EPOLL_CTL_ADD` and fails on a registered descriptor. The rest of a reply that
  did not fit is sent only when the client sends something more.
- **`ReactorStaleErrno`.** `Recver` calls `Service` for every read, and `Service`
  calls `Sender` even when no package was complete. `send` of zero bytes returns 0
  and does not set `errno`; the branch marked "really an error" (`:137`) then
  tests whatever the last failed call left. After the `EEXIST` of the point
  above, the healthy connection is closed.
- **`ReactorFreed`.** `:117` says that a failed send is dealt with in the daemon,
  which ignores `SIGPIPE`. The failed send calls `Excepter`, which deletes the
  connection, and returns through `Service` into the loop of `Recver`, which uses
  it. In the model the server is then down: the allocator has put its own data
  where `sock_` was, `recv` fails, and `excepter_` is called after its destruction.
- **`ReactorNoDescriptor`.** `Accepter` loops "because it is notified only once"
  (`:171`) but leaves the loop on `EMFILE`; the connections in the backlog are not
  announced again until another one arrives, even when descriptors are free again.
- **`CalPipelined`.** `handlerEntry` is to read "neither too much nor too little"
  (`calServer.hpp:43-44`); `recvPackage` reads before it looks at what it has, and
  a second request that came with the first waits for further bytes. lesson37's
  client never sends two at once, and `ParseOneText` of lesson45 does not have
  the problem.

## Limits of the models

- Logging is left out, and assumed to leave `errno` alone (a successful write does
  not set it).
- Start-up failures exit the program and are left out; destructors of the server
  and of the queues are never reached by their programs.
- Arithmetic: signed overflow in the calculators is undefined. `Requests` are those that
  stay within `int`; in lesson32 the integers are unbounded, and speak of the code as far as
  operands and results fit (not of `INT_MIN / -1`). `stoi` throws on a text without digits; the client's lines
  are well-formed and packages come from the client.
- `buffer[n] = 0; inbuffer_ += buffer` cuts at a NUL. `CalProtocol` has it (`CString`), and
  excludes NUL as an operator: with it the rest of the chunk is lost, and neither the answers
  nor the absence of mutual waiting is claimed.
- The jsoncpp build is represented in `Reactor` (a package is refused or not) and
  not in `CalProtocol`.
- lesson44's epoll server calls `HandleEvent` in a comment only
  (`epollServer.hpp:138`); the model takes it out of the comment, for without it
  the server prints that something is ready, for ever.
- A client that is gone when the server writes ends the servers of lesson35 and
  lesson42 to lesson44 by `SIGPIPE`. That is in the model (`killed`), and the
  liveness properties excuse it; lesson36 and lesson45 ignore the signal.
- HTTP requests are what one `recv` brings: the first line may be cut, and the
  model follows the code in answering what it has.
- The FIFO client at the end of its input sends what `fgets` left in its buffer
  again and again; the model has the first repetitions (`lastRead`) up to its bound.
- A line that a client writes between the end of the server's loop (`server.cc:30`) and
  `close(rfd)` (`:45`) is in the FIFO and never shown; `OneServer` counts it as `inFifo`.
- `fwrite_` does not look at the capacity: the model's caller writes no more than
  fits. A `write` that takes less than it was given loses the rest, and
  `StdioDelivers` excuses a run in which that has happened. Under `SYNC_LINE` only the last
  byte is tested (`myStdio.c:49`): a line whose newline is inside a piece stays in the buffer
  with what follows it, and `StdioDelivers` claims no more than that the buffer does not *end*
  in a newline.
- `execCmd` ends the chat server on an empty output (`resize(-1)` throws) and on a
  failed `popen`: in the model `up` becomes false and nobody is told any more.
- `select`: `FD_SET` and `FD_ISSET` on a number of `FD_SETSIZE` or more write and read outside
  the `fd_set` (`selectServer.hpp:126`, `:100`), and `fdarray` has slots for such numbers,
  because 0 to 2 never get one. `PollingAssumption` keeps the numbers below, as a limit of
  1024 open files does; `TablesAgree` and `ReadyWhenVisited`, and their theorems, speak of
  `select` under it. In the code `fdarray` has `FD_SETSIZE` slots, so that below that limit it
  never fills; the run gives it three, as it does `poll`, whose table has 2048.
- `accept` of the Reactor fails for lack of a descriptor only. `Accepter` leaves its loop on
  other errors too, `ECONNABORTED` among them; Linux does not report that one for a connection
  that is reset in the backlog (the first `recv` does), and the model follows it.
- `mychild.c` does not test whether `fork` failed: the father then goes round a `waitpid` that
  fails for ever (`childless`), which `SignalsEnd` excuses.

## Not modelled

- The first version of the Reactor in lesson44: it includes a header that does
  not exist and its `Dispatch` is empty.
- `lesson43/3.epollServer`: a constructor that opens a socket. `lesson41`'s HTTP
  server: its `start` never calls `accept`.
- The contents of the shared segment of lesson20: two processes write and read it
  without synchronisation and what is read is printed.
- lesson21, lesson22 and lesson24, whose handlers print and which exit or wait for
  ever; lesson25 and lesson26, whose threads share nothing they write.
- The loading of lesson34's dictionary and its reloading by a signal, which `main`
  does not reach; the thread of the chat client that prints what it receives.
- Logging, and the introductory programs of lesson1 to lesson18 that show a tool or
  a single system call.
