------------------------------- MODULE Reactor -------------------------------
(***************************************************************************)
(* The edge-triggered epoll server of src/lesson45/Reactor: TcpServer.hpp  *)
(* (Loop, Accepter, Recver, Sender, Excepter), Epoller.hpp and the Service *)
(* callback of Main.cc.  The server is one thread; the steps of this       *)
(* module run from one system call to the next, and between any two of     *)
(* them the clients and the kernel may act on the sockets.                 *)
(*                                                                         *)
(* The data is abstracted to what the control depends on.  A request is a  *)
(* number; it travels as one or more fragments, the last one marked, and   *)
(* ParseOneText succeeds exactly when the buffer holds a marked fragment   *)
(* (CalProtocol.tla models the bytes).  A reply is the number of the     *)
(* request it answers.  A Connection object is named by the client it      *)
(* serves.                                                                 *)
(***************************************************************************)
EXTENDS Integers, Sequences, FiniteSets, SequencesExt

CONSTANTS
    Clients,     \* the peers; each connects at most once
    NoConn,      \* "no Connection object"
    Fds,         \* descriptor numbers accept can return
    Script,      \* the fragments every client sends, in order
    Malformed,   \* requests deserialize refuses (the MYSELF build)
    RecvMax,     \* fragments one recv returns at most (its 1023-byte buffer)
    SndCap,      \* replies a socket's send buffer holds
    num,         \* TcpServer::num, the events one epoll_wait returns at most
    MaxIntr,     \* bound: system calls that fail with EINTR
    Hasty,       \* clients that may close before they have every reply
    Resetting    \* clients that may reset the connection

NoFd   == -1     \* default_fd
Listen == 0      \* Socker::_listensock

Fragment == [req : Nat \ {0}, last : BOOLEAN]
Events   == {"IN", "OUT", "ET", "ERR", "HUP"}
Errnos   == {"0", "EAGAIN", "EEXIST", "EINTR", "EMFILE", "ECONNRESET", "EPIPE"}
Points   == {"Wait", "Loop", "LoopOut", "Accept", "Recv", "Service", "Send",
             "Enable", "Except", "Crashed", "Aborted"}

ASSUME ReactorAssumption ==
    /\ NoConn \notin Clients
    /\ Fds \subseteq Nat \ {0}
    /\ Script \in Seq(Fragment)
    /\ Malformed \subseteq Nat
    /\ RecvMax \in Nat \ {0} /\ SndCap \in Nat \ {0} /\ num \in Nat \ {0}
    /\ MaxIntr \in Nat
    /\ Hasty \subseteq Clients /\ Resetting \subseteq Clients

\* How many requests the first n fragments of Script complete.
Completed(n) == Cardinality({i \in 1..n : Script[i].last})

\* req numbers the requests in the order they are sent.
ASSUME ScriptAssumption ==
    \A i \in DOMAIN Script : Script[i].req = Completed(i - 1) + 1

VARIABLES
    (* the peers and the kernel *)
    peer,        \* peer[c]: "idle", "up", "fin", "rst", or "closed" by the server
    sent,        \* sent[c]: fragments of Script sent so far
    got,         \* got[c]: the replies the client has read
    rcvbuf,      \* rcvbuf[c]: fragments in the socket's receive queue
    sndbuf,      \* sndbuf[c]: replies in the socket's send queue
    backlog,     \* connections waiting for accept
    interest,    \* interest[f]: the events f is registered for, {} if it is not
    rdlist,      \* the epoll instance's ready list
    (* the server *)
    fd,          \* fd[c]: Connection::sock_, an open descriptor, or NoFd
    connections, \* connections[f]: TcpServer::connections_
    inbuf,       \* Connection::inbuffer_
    outbuf,      \* Connection::outbuffer_
    revs,        \* the events of this Loop not handled yet (revs_[i..n-1])
    errno,
    pc,          \* where the thread is
    conn,        \* the Connection * argument of the running handler
    ret,         \* where Sender or Excepter returns to
    (* history *)
    parsed,      \* parsed[c]: requests ParseOneText has taken out of inbuf[c]
    intr         \* how many calls EINTR has interrupted

netVars  == <<peer, sent, got, rcvbuf, sndbuf, backlog>>
epVars   == <<interest, rdlist>>
connVars == <<fd, connections, inbuf, outbuf, parsed>>
cpuVars  == <<revs, errno, pc, conn, ret>>
vars     == <<netVars, epVars, connVars, cpuVars, intr>>

-----------------------------------------------------------------------------
(* What epoll sees of a socket, and what it does with it.                  *)

Least(a, b) == IF a <= b THEN a ELSE b

Poll(c) ==
    (IF rcvbuf[c] # <<>> \/ peer[c] \in {"fin", "rst"} THEN {"IN"} ELSE {})
      \cup (IF Len(sndbuf[c]) < SndCap \/ peer[c] = "rst" THEN {"OUT"} ELSE {})
      \cup (IF peer[c] = "rst" THEN {"ERR", "HUP"} ELSE {})

PollFd(f) ==
    IF f = Listen THEN (IF backlog # <<>> THEN {"IN"} ELSE {})
    ELSE UNION {Poll(c) : c \in {d \in Clients : fd[d] = f}}

Reported(f, events) == events \cap (interest[f] \cup {"ERR", "HUP"})

\* The ready list after the events occur on f: an edge queues f once.
Woken(f, events) ==
    IF f # NoFd /\ interest[f] # {} /\ Reported(f, events) # {}
                /\ ~Contains(rdlist, f)
    THEN Append(rdlist, f) ELSE rdlist

\* Epoller::AddEvent on f, whose socket polls as mask: EPOLL_CTL_ADD fails on
\* a descriptor that is registered, and queues one that is ready.
EpollAdd(f, events, mask) ==
    IF interest[f] # {}
    THEN errno' = "EEXIST" /\ UNCHANGED epVars
    ELSE /\ interest' = [interest EXCEPT ![f] = events]
         /\ rdlist' = IF mask \cap (events \cup {"ERR", "HUP"}) # {}
                      THEN Append(rdlist, f) ELSE rdlist
         /\ UNCHANGED errno

-----------------------------------------------------------------------------
Init ==
    /\ peer = [c \in Clients |-> "idle"]
    /\ sent = [c \in Clients |-> 0]
    /\ got = [c \in Clients |-> <<>>]
    /\ rcvbuf = [c \in Clients |-> <<>>]
    /\ sndbuf = [c \in Clients |-> <<>>]
    /\ backlog = <<>>
    /\ interest = [f \in Fds \cup {Listen} |-> IF f = Listen THEN {"IN", "ET"} ELSE {}]
    /\ rdlist = <<>>
    /\ fd = [c \in Clients |-> NoFd]
    /\ connections = [f \in Fds |-> NoConn]
    /\ inbuf = [c \in Clients |-> <<>>]
    /\ outbuf = [c \in Clients |-> <<>>]
    /\ revs = <<>>
    /\ errno = "0"
    /\ pc = "Wait"
    /\ conn = NoConn
    /\ ret = "Loop"
    /\ parsed = [c \in Clients |-> 0]
    /\ intr = 0

-----------------------------------------------------------------------------
(* The peers (external: TCP clients of the calculator).                    *)

Connect(c) ==
    /\ peer[c] = "idle"
    /\ peer' = [peer EXCEPT ![c] = "up"]
    /\ backlog' = Append(backlog, c)
    /\ rdlist' = Woken(Listen, {"IN"})
    /\ UNCHANGED <<sent, got, rcvbuf, sndbuf, interest, connVars, cpuVars, intr>>

ClientSend(c) ==
    /\ peer[c] = "up" /\ sent[c] < Len(Script)
    /\ sent' = [sent EXCEPT ![c] = @ + 1]
    /\ rcvbuf' = [rcvbuf EXCEPT ![c] = Append(@, Script[sent[c] + 1])]
    /\ rdlist' = Woken(fd[c], {"IN"})
    /\ UNCHANGED <<peer, got, sndbuf, backlog, interest, connVars, cpuVars, intr>>

\* Room in a send queue that was full is an EPOLLOUT edge.
ClientRecv(c) ==
    /\ sndbuf[c] # <<>>
    /\ got' = [got EXCEPT ![c] = Append(@, Head(sndbuf[c]))]
    /\ sndbuf' = [sndbuf EXCEPT ![c] = Tail(@)]
    /\ rdlist' = IF Len(sndbuf[c]) = SndCap THEN Woken(fd[c], {"OUT"}) ELSE rdlist
    /\ UNCHANGED <<peer, sent, rcvbuf, backlog, interest, connVars, cpuVars, intr>>

\* s is the replies to the first n requests: to each that is not refused one,
\* in the order of the requests.
Answers(s, n) ==
    /\ Range(s) = (1..n) \ Malformed
    /\ \A i, j \in DOMAIN s : i < j => s[i] < s[j]

ClientClose(c) ==
    /\ peer[c] = "up"
    /\ \/ c \in Hasty
       \/ sent[c] = Len(Script) /\ Answers(got[c], Completed(sent[c]))
    /\ peer' = [peer EXCEPT ![c] = "fin"]
    /\ rdlist' = Woken(fd[c], {"IN"})
    /\ UNCHANGED <<sent, got, rcvbuf, sndbuf, backlog, interest, connVars, cpuVars, intr>>

\* A reset discards what the server has queued for the client.
ClientReset(c) ==
    /\ c \in Resetting /\ peer[c] \in {"up", "fin"}
    /\ peer' = [peer EXCEPT ![c] = "rst"]
    /\ sndbuf' = [sndbuf EXCEPT ![c] = <<>>]
    /\ rdlist' = Woken(fd[c], {"IN", "ERR", "HUP"})
    /\ UNCHANGED <<sent, got, rcvbuf, backlog, interest, connVars, cpuVars, intr>>

-----------------------------------------------------------------------------
(* TcpServer::Loop.                                                        *)

\* epoll_wait takes entries off the ready list, drops those that have no event
\* any more, and reports at most num; an edge-triggered entry does not go back.
EpollWait ==
    /\ pc = "Wait" /\ rdlist # <<>>
    /\ LET hits == {i \in DOMAIN rdlist : Reported(rdlist[i], PollFd(rdlist[i])) # {}}
           n == Cardinality(hits)
           Entry(f) == [fd |-> f, events |-> Reported(f, PollFd(f)),
                        owner |-> IF f = Listen THEN NoConn ELSE connections[f]]
       IN  \E at \in [1..n -> hits] :
             /\ \A i, j \in 1..n : i < j => at[i] < at[j]
             /\ revs' = [i \in 1..Least(num, n) |-> Entry(rdlist[at[i]])]
             /\ rdlist' = [i \in 1..(n - Least(num, n)) |-> rdlist[at[i + num]]]
             /\ pc' = IF n = 0 THEN "Wait" ELSE "Loop"
    /\ UNCHANGED <<netVars, interest, connVars, errno, conn, ret, intr>>

WaitInterrupted ==
    /\ pc = "Wait" /\ intr < MaxIntr
    /\ errno' = "EINTR"
    /\ intr' = intr + 1
    /\ UNCHANGED <<netVars, epVars, connVars, revs, pc, conn, ret>>

\* EPOLLERR and EPOLLHUP count as both EPOLLIN and EPOLLOUT.
Readable(e)  == e.events \cap {"IN", "ERR", "HUP"} # {}
Writeable(e) == e.events \cap {"OUT", "ERR", "HUP"} # {}

\* Mutant: Loop looks a descriptor up without asking whether it is still there.
AlwaysConnected(f) == TRUE

IsConnections(f) == f = Listen \/ connections[f] # NoConn

LoopDone ==
    /\ pc = "Loop" /\ revs = <<>>
    /\ pc' = "Wait"
    /\ UNCHANGED <<netVars, epVars, connVars, revs, errno, conn, ret, intr>>

CallRecver ==
    /\ pc = "Loop" /\ revs # <<>>
    /\ LET e == Head(revs) IN
         IF Readable(e) /\ IsConnections(e.fd)
         THEN IF e.fd = Listen
              THEN pc' = "Accept" /\ conn' = conn
              ELSE pc' = "Recv" /\ conn' = connections[e.fd]
         ELSE pc' = "LoopOut" /\ conn' = conn
    /\ UNCHANGED <<netVars, epVars, connVars, revs, errno, ret, intr>>

\* Mutant: Loop does not step past an event whose connection is gone.
CallSenderStays ==
    /\ pc = "LoopOut"
    /\ pc' = "Loop"
    /\ revs' = IF IsConnections(Head(revs).fd) THEN Tail(revs) ELSE revs
    /\ ret' = "Loop"
    /\ UNCHANGED <<netVars, epVars, connVars, errno, conn, intr>>

\* The listening Connection has no sender_.
CallSender ==
    /\ pc = "LoopOut"
    /\ LET e == Head(revs) IN
         IF Writeable(e) /\ e.fd # Listen /\ IsConnections(e.fd)
         THEN pc' = "Send" /\ conn' = connections[e.fd]
         ELSE pc' = "Loop" /\ conn' = conn
    /\ revs' = Tail(revs)
    /\ ret' = "Loop"
    /\ UNCHANGED <<netVars, epVars, connVars, errno, intr>>

-----------------------------------------------------------------------------
(* TcpServer::Accepter and AddConnection.                                  *)

FreeFds == {f \in Fds : \A c \in Clients : fd[c] # f}

\* Mutant: Accepter takes one connection per notification.
AddOneConnection(c, f) ==
    /\ fd' = [fd EXCEPT ![c] = f]
    /\ EpollAdd(f, {"IN", "ET"}, Poll(c))
    /\ pc' = "LoopOut"
    /\ connections' = [connections EXCEPT ![f] = c]
    /\ inbuf' = [inbuf EXCEPT ![c] = <<>>]
    /\ outbuf' = [outbuf EXCEPT ![c] = <<>>]

\* std::map::insert keeps the value of a key that is already there.
AddConnection(c, f) ==
    /\ fd' = [fd EXCEPT ![c] = f]
    /\ EpollAdd(f, {"IN", "ET"}, Poll(c))
    /\ pc' = IF interest[f] = {} THEN "Accept" ELSE "Aborted"     \* assert(r)
    /\ connections' = [connections EXCEPT ![f] = IF @ = NoConn THEN c ELSE @]
    /\ inbuf' = [inbuf EXCEPT ![c] = <<>>]
    /\ outbuf' = [outbuf EXCEPT ![c] = <<>>]

\* accept returns the lowest free descriptor.
AcceptOne ==
    /\ pc = "Accept" /\ backlog # <<>> /\ FreeFds # {}
    /\ \E f \in FreeFds :
         /\ \A g \in FreeFds : f <= g
         /\ AddConnection(Head(backlog), f)
    /\ backlog' = Tail(backlog)
    /\ UNCHANGED <<peer, sent, got, rcvbuf, sndbuf, revs, conn, ret, parsed, intr>>

AcceptFails ==
    /\ pc = "Accept"
    /\ \/ backlog = <<>> /\ errno' = "EAGAIN"
       \/ backlog # <<>> /\ FreeFds = {} /\ errno' = "EMFILE"
    /\ pc' = "LoopOut"
    /\ UNCHANGED <<netVars, epVars, connVars, revs, conn, ret, intr>>

\* Accepter, Recver and Sender repeat a call that a signal interrupted.
CallInterrupted ==
    /\ pc \in {"Accept", "Recv", "Send"} /\ intr < MaxIntr
    /\ pc \in {"Recv", "Send"} => fd[conn] # NoFd
    /\ errno' = "EINTR"
    /\ intr' = intr + 1
    /\ UNCHANGED <<netVars, epVars, connVars, revs, pc, conn, ret>>

-----------------------------------------------------------------------------
(* TcpServer::Recver.                                                      *)

Live == fd[conn] # NoFd

RecvData ==
    /\ pc = "Recv" /\ Live /\ rcvbuf[conn] # <<>>
    /\ LET n == Least(RecvMax, Len(rcvbuf[conn])) IN
         /\ inbuf' = [inbuf EXCEPT ![conn] = @ \o SubSeq(rcvbuf[conn], 1, n)]
         /\ rcvbuf' = [rcvbuf EXCEPT ![conn] = SubSeq(@, n + 1, Len(@))]
    /\ pc' = "Service"
    /\ UNCHANGED <<peer, sent, got, sndbuf, backlog, epVars, fd, connections,
                   outbuf, parsed, revs, errno, conn, ret, intr>>

\* Mutant: EAGAIN is taken for an error.
RecvNothingCloses ==
    /\ pc = "Recv" /\ Live /\ rcvbuf[conn] = <<>> /\ peer[conn] = "up"
    /\ errno' = "EAGAIN"
    /\ pc' = "Except"
    /\ ret' = "LoopOut"
    /\ UNCHANGED <<netVars, epVars, connVars, revs, conn, intr>>

RecvNothing ==
    /\ pc = "Recv" /\ Live /\ rcvbuf[conn] = <<>> /\ peer[conn] = "up"
    /\ errno' = "EAGAIN"
    /\ pc' = "LoopOut"
    /\ UNCHANGED <<netVars, epVars, connVars, revs, conn, ret, intr>>

\* Mutant: an end of file only ends the loop of Recver.
RecvEndsKeeps ==
    /\ pc = "Recv" /\ Live /\ rcvbuf[conn] = <<>> /\ peer[conn] \in {"fin", "rst"}
    /\ pc' = "LoopOut"
    /\ UNCHANGED <<netVars, epVars, connVars, revs, errno, conn, ret, intr>>

\* recv returned 0, or -1 with an errno that is neither EAGAIN nor EINTR.
RecvEnds ==
    /\ pc = "Recv" /\ Live /\ rcvbuf[conn] = <<>> /\ peer[conn] \in {"fin", "rst"}
    /\ errno' = IF peer[conn] = "rst" THEN "ECONNRESET" ELSE errno
    /\ pc' = "Except"
    /\ ret' = "LoopOut"
    /\ UNCHANGED <<netVars, epVars, connVars, revs, conn, intr>>

\* recv(conn->sock_, ...) after Excepter has deleted conn.  Undefined: the
\* allocator has overwritten sock_, recv fails, and the call through the
\* destroyed excepter_ kills the process.
RecvFreed ==
    /\ pc = "Recv" /\ ~Live
    /\ pc' = "Crashed"
    /\ UNCHANGED <<netVars, epVars, connVars, revs, errno, conn, ret, intr>>

-----------------------------------------------------------------------------
(* Service of Main.cc: one pass of its loop per step, then the sender.     *)

\* Where the first complete package of buf ends, if it has one.
PackageEnds(buf) == {n \in DOMAIN buf : buf[n].last /\ \A i \in 1..(n - 1) : ~buf[i].last}

\* Mutant: ParseOneText clears the buffer instead of erasing one package.
ServePackageClears ==
    /\ pc = "Service"
    /\ \E n \in PackageEnds(inbuf[conn]) :
          outbuf' = [outbuf EXCEPT ![conn] = Append(@, inbuf[conn][n].req)]
    /\ inbuf' = [inbuf EXCEPT ![conn] = <<>>]
    /\ parsed' = [parsed EXCEPT ![conn] = @ + 1]
    /\ UNCHANGED <<netVars, epVars, fd, connections, cpuVars, intr>>

\* A package deserialize refuses makes Service return without calling Sender.
ServePackage ==
    /\ pc = "Service"
    /\ \E n \in PackageEnds(inbuf[conn]) :
         LET k == inbuf[conn][n].req IN
           /\ inbuf' = [inbuf EXCEPT ![conn] = SubSeq(@, n + 1, Len(@))]
           /\ outbuf' = [outbuf EXCEPT ![conn] =
                            IF k \in Malformed THEN @ ELSE Append(@, k)]
           /\ pc' = IF k \in Malformed THEN "Recv" ELSE "Service"
    /\ parsed' = [parsed EXCEPT ![conn] = @ + 1]
    /\ UNCHANGED <<netVars, epVars, fd, connections, revs, errno, conn, ret, intr>>

\* Mutant: Recver does not read on until EAGAIN.
ServiceSendsAndLeaves ==
    /\ pc = "Service" /\ PackageEnds(inbuf[conn]) = {}
    /\ pc' = "Send"
    /\ ret' = "LoopOut"
    /\ UNCHANGED <<netVars, epVars, connVars, revs, errno, conn, intr>>

ServiceSends ==
    /\ pc = "Service" /\ PackageEnds(inbuf[conn]) = {}
    /\ pc' = "Send"
    /\ ret' = "Recv"
    /\ UNCHANGED <<netVars, epVars, connVars, revs, errno, conn, intr>>

-----------------------------------------------------------------------------
(* TcpServer::Sender and EnablieReadWrite.                                 *)

\* Mutants: a short send counts as a whole one; what was sent is not erased.
SendSomeForgets ==
    /\ pc = "Send" /\ peer[conn] # "rst"
    /\ outbuf[conn] # <<>> /\ Len(sndbuf[conn]) < SndCap
    /\ sndbuf' = [sndbuf EXCEPT ![conn] = Append(@, Head(outbuf[conn]))]
    /\ outbuf' = [outbuf EXCEPT ![conn] = <<>>]
    /\ pc' = "Enable"
    /\ UNCHANGED <<peer, sent, got, rcvbuf, backlog, epVars, fd, connections,
                   inbuf, parsed, revs, errno, conn, ret, intr>>

SendSomeRepeats ==
    /\ pc = "Send" /\ peer[conn] # "rst"
    /\ outbuf[conn] # <<>> /\ Len(sndbuf[conn]) < SndCap
    /\ sndbuf' = [sndbuf EXCEPT ![conn] = Append(@, Head(outbuf[conn]))]
    /\ pc' = "Enable"
    /\ UNCHANGED <<peer, sent, got, rcvbuf, backlog, epVars, connVars,
                   revs, errno, conn, ret, intr>>

SendSome ==
    /\ pc = "Send" /\ peer[conn] # "rst"
    /\ outbuf[conn] # <<>> /\ Len(sndbuf[conn]) < SndCap
    /\ LET n == Least(SndCap - Len(sndbuf[conn]), Len(outbuf[conn])) IN
         /\ sndbuf' = [sndbuf EXCEPT ![conn] = @ \o SubSeq(outbuf[conn], 1, n)]
         /\ outbuf' = [outbuf EXCEPT ![conn] = SubSeq(@, n + 1, Len(@))]
    /\ pc' = IF outbuf'[conn] = <<>> THEN "Enable" ELSE "Send"
    /\ UNCHANGED <<peer, sent, got, rcvbuf, backlog, epVars, fd, connections,
                   inbuf, parsed, revs, errno, conn, ret, intr>>

SendFull ==
    /\ pc = "Send" /\ peer[conn] # "rst"
    /\ outbuf[conn] # <<>> /\ Len(sndbuf[conn]) = SndCap
    /\ errno' = "EAGAIN"
    /\ pc' = "Enable"
    /\ UNCHANGED <<netVars, epVars, connVars, revs, conn, ret, intr>>

\* send of zero bytes returns 0 and leaves errno as some earlier call left it;
\* the else branch then tests that errno.
SendNothing ==
    /\ pc = "Send" /\ peer[conn] # "rst" /\ outbuf[conn] = <<>>
    /\ pc' = CASE errno = "EAGAIN" -> "Enable"
               [] errno = "EINTR"  -> "Send"
               [] OTHER            -> "Except"
    /\ UNCHANGED <<netVars, epVars, connVars, revs, errno, conn, ret, intr>>

SendFails ==
    /\ pc = "Send" /\ peer[conn] = "rst"
    /\ errno' = "EPIPE"
    /\ pc' = "Except"
    /\ UNCHANGED <<netVars, epVars, connVars, revs, conn, ret, intr>>

\* The event mask follows outbuffer_, but AddEvent cannot change a registration.
EnablieReadWrite ==
    /\ pc = "Enable"
    /\ EpollAdd(fd[conn],
                {"IN", "ET"} \cup (IF outbuf[conn] # <<>> THEN {"OUT"} ELSE {}),
                Poll(conn))
    /\ pc' = ret
    /\ UNCHANGED <<netVars, connVars, revs, conn, ret, intr>>

-----------------------------------------------------------------------------

\* Mutant: the Connection is deleted and stays in connections_.
ExcepterKeepsEntry ==
    /\ pc = "Except"
    /\ interest' = [interest EXCEPT ![fd[conn]] = {}]
    /\ rdlist' = SelectSeq(rdlist, LAMBDA f : f # fd[conn])
    /\ fd' = [fd EXCEPT ![conn] = NoFd]
    /\ peer' = [peer EXCEPT ![conn] = "closed"]
    /\ rcvbuf' = [rcvbuf EXCEPT ![conn] = <<>>]
    /\ pc' = ret
    /\ UNCHANGED <<sent, got, sndbuf, backlog, connections, inbuf, outbuf, parsed,
                   revs, errno, conn, ret, intr>>

\* TcpServer::Excepter.  close drops the registration and the ready entry of
\* the descriptor, and resets the connection if there was unread input.
Excepter ==
    /\ pc = "Except"
    /\ LET f == fd[conn] IN
         /\ interest' = [interest EXCEPT ![f] = {}]
         /\ \/ ~Contains(rdlist, f) /\ UNCHANGED rdlist
            \/ \E i \in DOMAIN rdlist : rdlist[i] = f /\ rdlist' = RemoveAt(rdlist, i)
         /\ connections' = [connections EXCEPT ![f] = NoConn]
    /\ fd' = [fd EXCEPT ![conn] = NoFd]
    /\ peer' = [peer EXCEPT ![conn] = "closed"]
    /\ sndbuf' = [sndbuf EXCEPT ![conn] = IF rcvbuf[conn] = <<>> THEN @ ELSE <<>>]
    /\ rcvbuf' = [rcvbuf EXCEPT ![conn] = <<>>]
    /\ inbuf' = [inbuf EXCEPT ![conn] = <<>>]
    /\ outbuf' = [outbuf EXCEPT ![conn] = <<>>]
    /\ pc' = ret
    /\ UNCHANGED <<sent, got, backlog, parsed, revs, errno, conn, ret, intr>>

-----------------------------------------------------------------------------
Dispatch ==
    \/ EpollWait \/ WaitInterrupted \/ LoopDone \/ CallRecver \/ CallSender
Accepter == AcceptOne \/ AcceptFails
Recver   == RecvData \/ RecvNothing \/ RecvEnds \/ RecvFreed
Service  == ServePackage \/ ServiceSends
Sender   == SendSome \/ SendFull \/ SendNothing \/ SendFails \/ EnablieReadWrite

Server == Dispatch \/ Accepter \/ CallInterrupted \/ Recver \/ Service \/ Sender \/ Excepter

Client(c) == Connect(c) \/ ClientSend(c) \/ ClientRecv(c) \/ ClientClose(c) \/ ClientReset(c)

Next == Server \/ \E c \in Clients : Client(c)

Spec == Init /\ [][Next]_vars

-----------------------------------------------------------------------------
(* Properties.                                                             *)

\* Every variable keeps its type; in particular conn names a connection
\* whenever a handler of TcpServer.hpp that takes one is running.
Event == [fd : Fds \cup {Listen}, events : SUBSET Events, owner : Clients \cup {NoConn}]

TypeOK ==
    /\ peer \in [Clients -> {"idle", "up", "fin", "rst", "closed"}]
    /\ sent \in [Clients -> 0..Len(Script)]
    /\ got \in [Clients -> Seq(Nat)]
    /\ rcvbuf \in [Clients -> Seq(Fragment)]
    /\ sndbuf \in [Clients -> Seq(Nat)]
    /\ backlog \in Seq(Clients)
    /\ interest \in [Fds \cup {Listen} -> SUBSET Events]
    /\ rdlist \in Seq(Fds \cup {Listen})
    /\ fd \in [Clients -> Fds \cup {NoFd}]
    /\ connections \in [Fds -> Clients \cup {NoConn}]
    /\ inbuf \in [Clients -> Seq(Fragment)]
    /\ outbuf \in [Clients -> Seq(Nat)]
    /\ revs \in Seq(Event)
    /\ errno \in Errnos
    /\ pc \in Points
    /\ conn \in Clients \cup {NoConn}
    /\ ret \in {"Loop", "LoopOut", "Recv"}
    /\ parsed \in [Clients -> Nat]
    /\ intr \in 0..MaxIntr
    /\ pc \in {"Recv", "Service", "Send", "Enable", "Except"} => conn \in Clients

\* The three tables that name a connection agree between any two system calls:
\* the kernel's descriptor (sock_), connections_ and the epoll registration.
\* Accepter and Excepter update them one after the other (TcpServer.hpp:153-168,
\* 199-218), a descriptor number is reused at once, insert never overwrites,
\* and the registration is what assert(r) at :213 relies on.
TablesAgree ==
    /\ \A c \in Clients, f \in Fds : fd[c] = f <=> connections[f] = c
    /\ \A f \in Fds : interest[f] # {} <=> connections[f] # NoConn
    /\ pc # "Aborted"

\* The bytes of a live connection are consumed in order, none twice and none
\* lost: what is in inbuffer_ and in the socket is exactly what was sent after
\* the last package ParseOneText took (TcpServer.hpp:72-78, Main.cc:55-61).
FragmentsTaken(n) == Cardinality({i \in DOMAIN Script : Script[i].req <= n})

InputStream ==
    \A c \in Clients : peer[c] \in {"up", "fin", "rst"} =>
        inbuf[c] \o rcvbuf[c] = SubSeq(Script, FragmentsTaken(parsed[c]) + 1, sent[c])

\* One reply per well-formed request, in request order, over short sends,
\* early returns of Service and calls of Sender nested in Recver: what the
\* client read, the socket holds and outbuffer_ holds are together exactly the
\* replies to the packages parsed so far (Main.cc:81, TcpServer.hpp:119-124);
\* after a reset or a close the client still has a prefix of them.
OutputStream ==
    \A c \in Clients :
        IF peer[c] \in {"up", "fin"}
        THEN Answers(got[c] \o sndbuf[c] \o outbuf[c], parsed[c])
        ELSE \E n \in 0..parsed[c] : Answers(got[c] \o sndbuf[c], n)

\* The events of the batch that Loop has still to handle: the head of revs is
\* handled from the moment its recver_ was called until LoopOut drops it.
HeadTaken ==
    \/ pc \in {"Accept", "Recv", "Service", "LoopOut", "Crashed", "Aborted"}
    \/ pc \in {"Send", "Enable", "Except"} /\ ret # "Loop"

Unhandled == IF HeadTaken THEN Tail(revs) ELSE revs

Pending(f) == \E i \in DOMAIN Unhandled :
                 Unhandled[i].fd = f /\ Readable(Unhandled[i])

\* Recver is on the stack for c, or c is being closed.
Reading(c) ==
    /\ conn = c
    /\ \/ pc \in {"Recv", "Service", "Except"}
       \/ pc \in {"Send", "Enable"} /\ ret = "Recv"

\* Edge triggering loses no input: input or an end of file that nobody is
\* reading is still announced, by the ready list or by the batch in revs_.
\* Recver must read until EAGAIN for this (TcpServer.hpp:70-94).
NoLostEdge ==
    \A c \in Clients :
        fd[c] # NoFd /\ (rcvbuf[c] # <<>> \/ peer[c] \in {"fin", "rst"})
        => Contains(rdlist, fd[c]) \/ Pending(fd[c]) \/ Reading(c)

\* The accept queue is never left unannounced: "loop, because it is notified
\* only once" (TcpServer.hpp:171).
PendingConnectionsWake ==
    backlog # <<>> =>
        Contains(rdlist, Listen) \/ Pending(Listen) \/ pc = "Accept"

\* While Loop walks a batch, connections are closed and accepted and numbers
\* are reused; an event still to be handled names the connection it was
\* reported for (TcpServer.hpp:239-254 looks the number up again).
BatchIsCurrent ==
    \A i \in DOMAIN Unhandled :
        Unhandled[i].fd # Listen =>
            connections[Unhandled[i].fd] = Unhandled[i].owner

-----------------------------------------------------------------------------
(* Liveness.  The kernel keeps scheduling the server thread; a client that *)
(* has begun goes on sending, reading and closing.                         *)

FairSpec ==
    /\ Spec
    /\ WF_vars(Server)
    /\ \A c \in Clients : WF_vars(ClientSend(c) \/ ClientRecv(c) \/ ClientClose(c))

\* A request whose last fragment was sent is answered, whatever else the
\* single thread has to serve (TcpServer.hpp:223-256).
EveryRequestAnswered ==
    \A c \in Clients, k \in 1..Completed(Len(Script)) :
        Completed(sent[c]) >= k ~> Contains(got[c], k)

\* The server notices a close, whatever it is doing when it arrives, and
\* gives the descriptor back (TcpServer.hpp:80-88, 153-168).
ConnectionsReclaimed ==
    \A c \in Clients : peer[c] = "fin" ~> peer[c] = "closed"

-----------------------------------------------------------------------------
(* What the clients see is the abstract service of CalcService.tla.        *)

Service1 == INSTANCE CalcService WITH
               N       <- Completed(Len(Script)),
               Refused <- Malformed,
               asked   <- [c \in Clients |-> Completed(sent[c])],
               replied <- got

\* Each client reads the replies to its own complete requests, in request
\* order, none twice and none before the request is complete, however the
\* server interleaves the connections.
ImplementsCalcService == Service1!Spec

-----------------------------------------------------------------------------
\* The next three state what comments of the code say; TLC refutes each.

\* "Is read interest to be added: not empty / all sent" (TcpServer.hpp:147-151):
\* when the server goes back to epoll_wait, a connection with unsent output is
\* registered for EPOLLOUT.
LeftoverIsWatched ==
    pc = "Wait" => \A c \in Clients :
        fd[c] # NoFd /\ outbuf[c] # <<>> => "OUT" \in interest[fd[c]]

\* "Really an error" (TcpServer.hpp:137): Sender and Recver give a connection
\* to Excepter only when its peer has closed or reset it.
OnlyErrorsClose == pc = "Except" => peer[conn] \in {"fin", "rst"}

\* "A SIGPIPE may occur, it is handled in the daemon" (TcpServer.hpp:117): a
\* send to a connection the peer has reset does not bring the server down.
SurvivesReset == pc # "Crashed"
=============================================================================
