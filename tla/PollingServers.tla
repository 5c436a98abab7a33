--------------------------- MODULE PollingServers ---------------------------
(***************************************************************************)
(* The servers of lesson42 to lesson44 that wait for several descriptors   *)
(* in one thread:                                                          *)
(*   "select42"  lesson42/2.selectServer, which only accepts;              *)
(*   "select"    lesson43/1.selectServer;                                  *)
(*   "poll"      lesson43/2.pollServer;                                    *)
(*   "epoll"     lesson44/epollServer, level-triggered, with the call of   *)
(*               HandleEvent in its start that the source has in a comment.*)
(* A step runs from one system call of the server to the next; the clients *)
(* act in between.  None of them ignores SIGPIPE.                          *)
(***************************************************************************)
EXTENDS TcpNet, Integers, FiniteSetsExt

CONSTANTS
    fd_num,      \* slots of fdarray and of _pollfds
    nofile,      \* for each program, how many connections it may have open
    FD_SETSIZE,  \* the numbers that an fd_set has room for
    num,         \* how many events one epoll_wait may report
    NoClient

VARIABLES
    pc,          \* the next system call of the server
    fdarray,     \* fdarray, or the fd members of _pollfds
    interest,    \* the epoll set
    ready,       \* rfds, the slots whose revents is set, or the rest of _revs
    pos,         \* i of HandleEvent
    held,        \* in a handler: the descriptor and the chunk that was read
    fdtab        \* kernel: whose connection a descriptor is

server == <<pc, fdarray, interest, ready, pos, held, fdtab>>
pollingVars == <<prog, net, server>>

PollingPrograms == {"select42", "select", "poll", "epoll"}
default_fd == -1
listensock == 0
Fds == 1 .. nofile[prog]
Slots == 0 .. fd_num - 1
None == [fd |-> default_fd, chunk |-> 0]

\* One slot at least, for the listening socket.  The numbers 0 to 2 are the
\* standard ones and 3 is the listening socket's (0 in this model), so that
\* connection f has number f + 3: select is asked about numbers below
\* FD_SETSIZE only, which the code leaves to the limit on open files.
ASSUME PollingAssumption ==
    /\ fd_num \in Nat \ {0} /\ num \in Nat \ {0} /\ FD_SETSIZE \in Nat
    /\ \A p \in PollingPrograms : nofile[p] \in Nat
    /\ \A p \in {"select42", "select"} : nofile[p] + 3 < FD_SETSIZE
    /\ NoClient \notin Clients

OpenFds == {f \in Fds : fdtab[f] # NoClient}
TableFds == {fdarray[i] : i \in Slots} \ {default_fd}

\* The two system calls that wait look at the sockets only.
CanRead(f) ==
    IF f = listensock THEN backlog # <<>> ELSE Readable(sock[fdtab[f]])

\* The listening socket is in the first slot, or in the epoll set.
FirstSlots == [i \in Slots |-> IF i = 0 /\ prog # "epoll" THEN listensock
                              ELSE default_fd]
FirstInterest == IF prog = "epoll" THEN {listensock} ELSE {}

InitServer ==
    /\ pc = "wait"
    /\ fdarray = FirstSlots /\ interest = FirstInterest
    /\ ready = {} /\ pos = 0 /\ held = None
    /\ fdtab = [f \in Fds |-> NoClient]

PollingInit == prog \in PollingPrograms /\ InitServer /\ InitNet

-----------------------------------------------------------------------------
(* start: the call that waits, with no timeout.                            *)

\* Mutant: HandleEvent does not look at what select reports.
SelectAll ==
    /\ pc = "wait" /\ prog \in {"select42", "select"}
    /\ \E f \in TableFds : CanRead(f)
    /\ ready' = TableFds /\ pc' = "scan" /\ pos' = 0
    /\ UNCHANGED <<prog, net, fdarray, interest, held, fdtab>>

\* rfds is rebuilt from fdarray for each select.  A number in it that is not
\* open makes select fail with EBADF, and the server exits.  FD_SET and FD_ISSET
\* compare nothing with FD_SETSIZE: PollingAssumption keeps the numbers below.
Select ==
    /\ pc = "wait" /\ prog \in {"select42", "select"}
    /\ LET stale == ~(TableFds \subseteq OpenFds \cup {listensock})
       IN  /\ ready' = IF stale THEN {} ELSE {f \in TableFds : CanRead(f)}
           /\ stale \/ ready' # {}
           /\ pc' = IF stale THEN "exited" ELSE "scan"
    /\ pos' = 0
    /\ UNCHANGED <<prog, net, fdarray, interest, held, fdtab>>

\* revents is a member of the slot.
Poll ==
    /\ pc = "wait" /\ prog = "poll"
    /\ ready' = {i \in Slots : /\ fdarray[i] \in OpenFds \cup {listensock}
                               /\ CanRead(fdarray[i])}
    /\ ready' # {}
    /\ pc' = "scan" /\ pos' = 0
    /\ UNCHANGED <<prog, net, fdarray, interest, held, fdtab>>

\* epoll_wait reports as many as _revs takes; which of them, the kernel decides.
EpollWait ==
    /\ pc = "wait" /\ prog = "epoll"
    /\ LET waiting == {f \in interest : CanRead(f)}
       IN  /\ waiting # {}
           /\ ready' \in kSubset(Min({num, Cardinality(waiting)}), waiting)
    /\ pc' = "scan"
    /\ UNCHANGED <<prog, net, fdarray, interest, pos, held, fdtab>>

-----------------------------------------------------------------------------
(* HandleEvent: what it has still to visit.  select asks for the number in *)
(* rfds, poll for the revents of the slot, and lesson42 for listensock     *)
(* alone; epoll reports each descriptor once, in an order of its own.      *)

IsSet(i) == CASE prog = "select42" -> i = 0 /\ listensock \in ready
              [] prog = "select"   -> fdarray[i] \in ready
              [] prog = "poll"     -> i \in ready

Pending == {i \in Slots : i >= pos /\ fdarray[i] # default_fd /\ IsSet(i)}

\* The descriptors whose turn may be next.
Turn == CASE prog = "epoll" -> ready
          [] prog # "epoll" /\ Pending = {} -> {}
          [] OTHER -> {fdarray[Min(Pending)]}

\* The pass goes on behind the slot; poll and epoll forget the event.
Visited(f) ==
    CASE prog = "epoll" -> /\ ready' = ready \ {f}
                           /\ UNCHANGED pos
      [] prog = "poll"  -> /\ ready' = ready \ {Min(Pending)}
                           /\ pos' = Min(Pending) + 1
      [] OTHER          -> /\ pos' = Min(Pending) + 1
                           /\ UNCHANGED ready

PassEnds ==
    /\ pc = "scan" /\ Turn = {}
    /\ pc' = "wait"
    /\ ready' = {}
    /\ UNCHANGED <<prog, net, fdarray, interest, pos, held, fdtab>>

-----------------------------------------------------------------------------
(* Accepter.                                                               *)

FreeFds == Fds \ OpenFds
FreeSlots == {i \in Slots : fdarray[i] = default_fd}

\* accept takes the lowest free number; the first free slot takes it.  epoll
\* needs no slot.
AddConnection ==
    /\ pc = "scan" /\ listensock \in Turn
    /\ backlog # <<>> /\ FreeFds # {}
    /\ prog # "epoll" => FreeSlots # {}
    /\ LET f == Min(FreeFds) c == Head(backlog)
       IN  /\ sock' = [sock EXCEPT ![c] = AfterAccept(@)]
           /\ fdtab' = [fdtab EXCEPT ![f] = c]
           /\ IF prog = "epoll"
              THEN interest' = interest \cup {f} /\ UNCHANGED fdarray
              ELSE /\ fdarray' = [fdarray EXCEPT ![Min(FreeSlots)] = f]
                   /\ UNCHANGED interest
    /\ backlog' = Tail(backlog)
    /\ Visited(listensock)
    /\ UNCHANGED <<prog, sent, got, pc, held>>

\* "server load is too high": no slot is left, and the connection is closed.
TooHigh ==
    /\ pc = "scan" /\ listensock \in Turn /\ prog # "epoll"
    /\ backlog # <<>> /\ FreeFds # {} /\ FreeSlots = {}
    /\ sock' = [sock EXCEPT ![Head(backlog)] = AfterClose(AfterAccept(@))]
    /\ backlog' = Tail(backlog)
    /\ Visited(listensock)
    /\ UNCHANGED <<prog, sent, got, pc, fdarray, interest, held, fdtab>>

\* EMFILE: the connection stays where it is, and is announced again.
AcceptFails ==
    /\ pc = "scan" /\ listensock \in Turn
    /\ backlog # <<>> /\ FreeFds = {}
    /\ Visited(listensock)
    /\ UNCHANGED <<prog, net, pc, fdarray, interest, held, fdtab>>

-----------------------------------------------------------------------------
(* Recver: recv, and then func and write, or close.                        *)

\* Mutant: recv with MSG_PEEK.
RecvDataPeeks ==
    /\ pc = "scan"
    /\ \E f \in Turn \ {listensock} :
         LET c == fdtab[f]
         IN  /\ CanRead(f) /\ RecvResult(sock[c]) = "data"
             /\ held' = [fd |-> f, chunk |-> Head(sock[c].in)]
             /\ Visited(f)
    /\ pc' = "write"
    /\ UNCHANGED <<prog, net, fdarray, interest, fdtab>>

RecvData ==
    /\ pc = "scan"
    /\ \E f \in Turn \ {listensock} :
         LET c == fdtab[f]
         IN  /\ CanRead(f) /\ RecvResult(sock[c]) = "data"
             /\ held' = [fd |-> f, chunk |-> Head(sock[c].in)]
             /\ sock' = [sock EXCEPT ![c] = AfterRecv(@)]
             /\ Visited(f)
    /\ pc' = "write"
    /\ UNCHANGED <<prog, backlog, sent, got, fdarray, interest, fdtab>>

\* Mutant: close without _fdarray[pos] = default_fd.
RecvEndsKeepsSlot ==
    /\ pc = "scan"
    /\ \E f \in Turn \ {listensock} :
         LET c == fdtab[f]
         IN  /\ CanRead(f) /\ RecvResult(sock[c]) # "data"
             /\ sock' = [sock EXCEPT ![c] = AfterClose(@)]
             /\ fdtab' = [fdtab EXCEPT ![f] = NoClient]
             /\ interest' = interest \ {f}
             /\ Visited(f)
    /\ UNCHANGED <<prog, backlog, sent, got, pc, held, fdarray>>

\* The end of the stream, or an error: the slot, or the registration, goes.
RecvEnds ==
    /\ pc = "scan"
    /\ \E f \in Turn \ {listensock} :
         LET c == fdtab[f]
         IN  /\ CanRead(f) /\ RecvResult(sock[c]) # "data"
             /\ sock' = [sock EXCEPT ![c] = AfterClose(@)]
             /\ fdtab' = [fdtab EXCEPT ![f] = NoClient]
             /\ interest' = interest \ {f}
             /\ fdarray' = [i \in Slots |-> IF fdarray[i] = f THEN default_fd
                                            ELSE fdarray[i]]
             /\ Visited(f)
    /\ UNCHANGED <<prog, backlog, sent, got, pc, held>>

\* write waits for room.  A client that is gone kills the server by SIGPIPE:
\* the kernel closes what was open.
Write ==
    /\ pc = "write"
    /\ LET c == fdtab[held.fd]
       IN  /\ Writable(sock[c])
           /\ IF RaisesSigpipe(sock[c])
              THEN pc' = "killed" /\ sock' = AfterKill(sock)
              ELSE /\ pc' = "scan"
                   /\ sock' = [sock EXCEPT ![c] = AfterWrite(@, held.chunk)]
    /\ held' = None
    /\ UNCHANGED <<prog, backlog, sent, got, fdarray, interest, ready, pos,
                   fdtab>>

Accepter == AddConnection \/ TooHigh \/ AcceptFails
Recver == RecvData \/ RecvEnds \/ Write
HandleEvent == PassEnds \/ Accepter \/ Recver

Server == Select \/ Poll \/ EpollWait \/ HandleEvent

-----------------------------------------------------------------------------
PollingNext == \/ prog \in PollingPrograms /\ Server
        \/ /\ prog \in PollingPrograms
           /\ \E c \in Clients :
                /\ pc \in {"exited", "killed"} => sock[c].peer # "none"
                /\ Client(c)
           /\ UNCHANGED <<prog, server>>

\* The server is scheduled, and clients read what they are sent.
PollingFairness ==
    /\ WF_pollingVars(prog \in PollingPrograms /\ Server)
    /\ \A c \in Clients :
         WF_pollingVars(prog \in PollingPrograms /\ ClientRecv(c) /\ UNCHANGED <<prog, server>>)

PollingSpec == PollingInit /\ [][PollingNext]_pollingVars
PollingFairSpec == PollingSpec /\ PollingFairness

-----------------------------------------------------------------------------
(* Properties.                                                             *)

PollingTypeOK ==
    /\ pc \in {"wait", "scan", "write", "exited", "killed"}
    /\ fdarray \in [Slots -> Fds \cup {default_fd, listensock}]
    /\ interest \subseteq Fds \cup {listensock}
    /\ ready \subseteq Fds \cup Slots
    /\ pos \in 0 .. fd_num
    /\ held.fd \in Fds \cup {default_fd}
    /\ fdtab \in [Fds -> Clients \cup {NoClient}]
    /\ NetTypeOK

\* The descriptors that are open are the ones in the table, each once: none
\* leaks, and none that is closed makes select fail (selectServer.hpp:136).
TablesAgree ==
    /\ prog = "epoll" => interest = OpenFds \cup {listensock}
    /\ prog # "epoll" =>
         /\ TableFds = OpenFds \cup {listensock}
         /\ \A i, j \in Slots :
              fdarray[i] = fdarray[j] /\ i # j => fdarray[i] = default_fd
    /\ \A f \in OpenFds : pc # "killed" => sock[fdtab[f]].srv = "open"
    /\ pc # "exited"

\* "Here the fd is certainly ready" (selectServer.hpp:102): no descriptor
\* that the pass has still to visit would make accept or recv wait, although
\* the pass opens and closes descriptors.
ReadyWhenVisited ==
    pc \in {"scan", "write"} =>
        IF prog = "epoll" THEN \A f \in ready : CanRead(f)
        ELSE \A i \in Pending : CanRead(fdarray[i])

\* Somebody who stays, and for whom there is a descriptor and a slot, is not
\* left without an answer, whatever the other clients do short of killing the
\* server.  Clients send finitely often, so nobody waits in the end.
NotWaiting(c) ==
    \/ Len(got[c]) = sent[c]
    \/ sock[c].peer = "gone" \/ sock[c].srv = "closed"
    \/ sock[c].srv = "none" /\ FreeFds = {}
    \/ pc = "killed" \/ prog = "select42"

NobodyWaits == []<>(\A c \in Clients : NotWaiting(c))
=============================================================================
