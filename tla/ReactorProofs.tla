---------------------------- MODULE ReactorProofs ----------------------------
(***************************************************************************)
(* Proofs about Reactor, for any clients, descriptors, scripts and bounds. *)
(***************************************************************************)
EXTENDS Reactor, FiniteSetTheorems, TLAPS

\* A handler past its first system call works on a connection that is open.
HandlerLive == pc \in {"Service", "Send", "Enable", "Except"} => fd[conn] # NoFd

\* A connection waits for accept once, and has no descriptor meanwhile.
BacklogInv ==
    /\ \A c \in Clients : peer[c] = "idle" => fd[c] = NoFd
    /\ \A i \in DOMAIN backlog : peer[backlog[i]] # "idle" /\ fd[backlog[i]] = NoFd
    /\ \A i, j \in DOMAIN backlog : backlog[i] = backlog[j] => i = j

\* While a handler runs, the event it handles is the head of the batch.
RevsInv == HeadTaken => revs # <<>>

IInv == TypeOK /\ TablesAgree /\ HandlerLive /\ BacklogInv /\ RevsInv

USE ReactorAssumption

\* Parts of a sequence are sequences over the same set.
LEMMA Parts ==
    ASSUME NEW S, NEW s \in Seq(S), NEW n \in 0..Len(s)
    PROVE  /\ SubSeq(s, 1, n) \in Seq(S)
           /\ SubSeq(s, n + 1, Len(s)) \in Seq(S)
           /\ n > 0 => RemoveAt(s, n) \in Seq(S)
<1>1. SubSeq(s, 1, n) \in Seq(S) /\ SubSeq(s, n + 1, Len(s)) \in Seq(S)
  OBVIOUS
<1>2. n > 0 => SubSeq(s, 1, n - 1) \in Seq(S)
  OBVIOUS
<1> QED  BY <1>1, <1>2 DEF RemoveAt

\* default_fd and the listening descriptor differ from what accept returns.
LEMMA NoFdFacts == NoFd \notin Fds /\ Listen \notin Fds /\ NoFd # Listen
BY DEF NoFd, Listen

\* The invariant holds after TcpServer::Init, before any client connects.
LEMMA InitIInv == Init => IInv
<1> SUFFICES ASSUME Init PROVE IInv
  OBVIOUS
<1> USE DEF Init
<1>1. TypeOK
  BY NoFdFacts DEF TypeOK, Events, Errnos, Points
<1>2. TablesAgree
  BY NoFdFacts DEF TablesAgree
<1>3. HandlerLive /\ BacklogInv /\ RevsInv
  BY DEF HandlerLive, BacklogInv, RevsInv, HeadTaken
<1> QED  BY <1>1, <1>2, <1>3 DEF IInv


-----------------------------------------------------------------------------
(* TypeOK is proved in four parts, one per group of variables.             *)

NetOK ==
    /\ peer \in [Clients -> {"idle", "up", "fin", "rst", "closed"}]
    /\ sent \in [Clients -> 0..Len(Script)]
    /\ got \in [Clients -> Seq(Nat)]
    /\ rcvbuf \in [Clients -> Seq(Fragment)]
    /\ sndbuf \in [Clients -> Seq(Nat)]
    /\ backlog \in Seq(Clients)

EpollOK ==
    /\ interest \in [Fds \cup {Listen} -> SUBSET Events]
    /\ rdlist \in Seq(Fds \cup {Listen})

ConnOK ==
    /\ fd \in [Clients -> Fds \cup {NoFd}]
    /\ connections \in [Fds -> Clients \cup {NoConn}]
    /\ inbuf \in [Clients -> Seq(Fragment)]
    /\ outbuf \in [Clients -> Seq(Nat)]
    /\ parsed \in [Clients -> Nat]

CpuOK ==
    /\ revs \in Seq(Event)
    /\ errno \in Errnos
    /\ pc \in Points
    /\ conn \in Clients \cup {NoConn}
    /\ ret \in {"Loop", "LoopOut", "Recv"}
    /\ intr \in 0..MaxIntr
    /\ pc \in {"Recv", "Service", "Send", "Enable", "Except"} => conn \in Clients

\* The four parts are the type invariant.
LEMMA TypeParts == TypeOK <=> NetOK /\ EpollOK /\ ConnOK /\ CpuOK
BY DEF TypeOK, NetOK, EpollOK, ConnOK, CpuOK

\* An edge adds at most the descriptor it happens on to the ready list.
LEMMA WokenType ==
    ASSUME EpollOK, NEW f \in Fds \cup {Listen, NoFd}, NEW events
    PROVE  Woken(f, events) \in Seq(Fds \cup {Listen})
BY NoFdFacts DEF Woken, EpollOK

\* Every step of the server and of the clients leaves the sockets well-typed.
LEMMA NetStep == NetOK /\ ConnOK /\ CpuOK /\ [Next]_vars => NetOK'
<1> SUFFICES ASSUME NetOK /\ ConnOK /\ CpuOK, [Next]_vars PROVE NetOK'
  OBVIOUS
<1> USE DEF NetOK
<1>0. pc \in {"Recv", "Service", "Send", "Enable", "Except"} => conn \in Clients
  BY DEF CpuOK
<1>1. ASSUME NEW c \in Clients, Connect(c)  PROVE NetOK'
  BY <1>1 DEF Connect
<1>2. ASSUME NEW c \in Clients, ClientSend(c)  PROVE NetOK'
  BY <1>2 DEF ClientSend
<1>3. ASSUME NEW c \in Clients, ClientRecv(c)  PROVE NetOK'
  BY <1>3 DEF ClientRecv
<1>4. ASSUME NEW c \in Clients, ClientClose(c)  PROVE NetOK'
  BY <1>4 DEF ClientClose
<1>5. ASSUME NEW c \in Clients, ClientReset(c)  PROVE NetOK'
  BY <1>5 DEF ClientReset
<1>6. CASE AcceptOne
  BY <1>6 DEF AcceptOne
<1>7. CASE RecvData
  <2> DEFINE n == Least(RecvMax, Len(rcvbuf[conn]))
  <2>1. conn \in Clients /\ rcvbuf[conn] \in Seq(Fragment)
    BY <1>7, <1>0 DEF RecvData
  <2>2. n \in 0..Len(rcvbuf[conn])
    BY <2>1 DEF Least
  <2> HIDE DEF n
  <2>3. SubSeq(rcvbuf[conn], n + 1, Len(rcvbuf[conn])) \in Seq(Fragment)
    BY <2>1, <2>2, Parts
  <2>4. rcvbuf' \in [Clients -> Seq(Fragment)]
    BY <1>7, <2>1, <2>3 DEF RecvData, n
  <2> QED  BY <1>7, <2>4 DEF RecvData
<1>8. CASE SendSome
  <2> DEFINE n == Least(SndCap - Len(sndbuf[conn]), Len(outbuf[conn]))
  <2>1. conn \in Clients /\ outbuf[conn] \in Seq(Nat) /\ sndbuf[conn] \in Seq(Nat)
    BY <1>8, <1>0 DEF SendSome, ConnOK
  <2>2. n \in 0..Len(outbuf[conn])
    BY <1>8, <2>1 DEF SendSome, Least
  <2> HIDE DEF n
  <2>3. SubSeq(outbuf[conn], 1, n) \in Seq(Nat)
    BY <2>1, <2>2, Parts
  <2>4. sndbuf[conn] \o SubSeq(outbuf[conn], 1, n) \in Seq(Nat)
    BY <2>1, <2>3
  <2>5. sndbuf' \in [Clients -> Seq(Nat)]
    BY <1>8, <2>1, <2>4 DEF SendSome, n
  <2> QED  BY <1>8, <2>5 DEF SendSome
<1>9. CASE Excepter
  BY <1>9, <1>0 DEF Excepter
<1>10. CASE EpollWait \/ WaitInterrupted \/ LoopDone \/ CallRecver \/ CallSender \/
       AcceptFails \/ CallInterrupted \/ RecvNothing \/ RecvEnds \/ RecvFreed \/
       ServePackage \/ ServiceSends \/ SendFull \/ SendNothing \/ SendFails \/
       EnablieReadWrite \/ UNCHANGED vars
  BY <1>10
  DEF EpollWait, WaitInterrupted, LoopDone, CallRecver, CallSender, AcceptFails,
       CallInterrupted, RecvNothing, RecvEnds, RecvFreed, ServePackage,
       ServiceSends, SendFull, SendNothing, SendFails, EnablieReadWrite, vars,
       netVars
<1> QED
  BY <1>1, <1>2, <1>3, <1>4, <1>5, <1>6, <1>7, <1>8, <1>9, <1>10
  DEF Next, Server, Client, Dispatch, Accepter, Recver, Service, Sender

\* EpollAdd and close are given a descriptor that is open, so that interest
\* and the ready list name descriptors only.
LEMMA EpollStep == EpollOK /\ ConnOK /\ CpuOK /\ HandlerLive /\ [Next]_vars => EpollOK'
<1> SUFFICES ASSUME EpollOK /\ ConnOK /\ CpuOK /\ HandlerLive, [Next]_vars PROVE EpollOK'
  OBVIOUS
<1> USE DEF EpollOK
<1>0. pc \in {"Recv", "Service", "Send", "Enable", "Except"} => conn \in Clients
  BY DEF CpuOK
<1>a. Listen \in Fds \cup {Listen, NoFd} /\ \A c \in Clients : fd[c] \in Fds \cup {Listen, NoFd}
  BY DEF ConnOK
<1>1. ASSUME NEW c \in Clients, Connect(c)  PROVE EpollOK'
  BY <1>1, WokenType, <1>a DEF Connect
<1>2. ASSUME NEW c \in Clients, ClientSend(c)  PROVE EpollOK'
  BY <1>2, WokenType, <1>a DEF ClientSend
<1>3. ASSUME NEW c \in Clients, ClientRecv(c)  PROVE EpollOK'
  BY <1>3, WokenType, <1>a DEF ClientRecv
<1>4. ASSUME NEW c \in Clients, ClientClose(c)  PROVE EpollOK'
  BY <1>4, WokenType, <1>a DEF ClientClose
<1>5. ASSUME NEW c \in Clients, ClientReset(c)  PROVE EpollOK'
  BY <1>5, WokenType, <1>a DEF ClientReset
<1>6. CASE EpollWait
  <2> DEFINE hits == {i \in DOMAIN rdlist : Reported(rdlist[i], PollFd(rdlist[i])) # {}}
             n == Cardinality(hits)
  <2>1. PICK at \in [1..n -> hits] :
             rdlist' = [i \in 1..(n - Least(num, n)) |-> rdlist[at[i + num]]]
    BY <1>6 DEF EpollWait
  <2>2. hits \subseteq 1..Len(rdlist) /\ IsFiniteSet(1..Len(rdlist))
    BY FS_Interval
  <2>3. n \in Nat
    BY <2>2, FS_Subset, FS_CardinalityType
  <2> HIDE DEF n
  <2>4. n - Least(num, n) \in Nat /\ \A i \in 1..(n - Least(num, n)) : i + num \in 1..n
    BY <2>3 DEF Least
  <2>5. \A i \in 1..(n - Least(num, n)) : rdlist[at[i + num]] \in Fds \cup {Listen}
    BY <2>2, <2>4
  <2> DEFINE m == n - Least(num, n)
  <2>6. m \in Nat /\ rdlist' \in [1..m -> Fds \cup {Listen}]
    BY <2>1, <2>4, <2>5
  <2> HIDE DEF m
  <2>7. rdlist' \in Seq(Fds \cup {Listen})
    BY <2>6
  <2> QED  BY <1>6, <2>7 DEF EpollWait
<1>7. CASE AcceptOne
  <2>1. PICK f \in Fds : EpollAdd(f, {"IN", "ET"}, Poll(Head(backlog)))
    BY <1>7 DEF AcceptOne, AddConnection, FreeFds
  <2>2. Append(rdlist, f) \in Seq(Fds \cup {Listen}) /\ {"IN", "ET"} \subseteq Events
    BY DEF Events
  <2>3. interest' = interest \/ interest' = [interest EXCEPT ![f] = {"IN", "ET"}]
    BY <2>1 DEF EpollAdd, epVars
  <2>4. rdlist' = rdlist \/ rdlist' = Append(rdlist, f)
    BY <2>1 DEF EpollAdd, epVars
  <2> QED  BY <2>2, <2>3, <2>4
<1>8. CASE EnablieReadWrite
  <2>1. fd[conn] \in Fds
    BY <1>8, <1>0 DEF EnablieReadWrite, HandlerLive, ConnOK
  <2> DEFINE events == {"IN", "ET"} \cup (IF outbuf[conn] # <<>> THEN {"OUT"} ELSE {})
  <2>2. EpollAdd(fd[conn], events, Poll(conn)) /\ events \subseteq Events
    BY <1>8 DEF EnablieReadWrite, Events
  <2>3. Append(rdlist, fd[conn]) \in Seq(Fds \cup {Listen})
    BY <2>1
  <2> HIDE DEF events
  <2>4. interest' = interest \/ interest' = [interest EXCEPT ![fd[conn]] = events]
    BY <2>2 DEF EpollAdd, epVars
  <2>5. rdlist' = rdlist \/ rdlist' = Append(rdlist, fd[conn])
    BY <2>2 DEF EpollAdd, epVars
  <2> QED  BY <2>2, <2>3, <2>4, <2>5
<1>9. CASE Excepter
  <2>1. rdlist' = rdlist \/ \E i \in DOMAIN rdlist : rdlist' = RemoveAt(rdlist, i)
    BY <1>9 DEF Excepter
  <2>2. rdlist' \in Seq(Fds \cup {Listen})
    BY <2>1, Parts
  <2>3. interest' = [interest EXCEPT ![fd[conn]] = {}]
    BY <1>9 DEF Excepter
  <2> QED  BY <2>2, <2>3
<1>10. CASE WaitInterrupted \/ LoopDone \/ CallRecver \/ CallSender \/ AcceptFails \/
       CallInterrupted \/ RecvData \/ RecvNothing \/ RecvEnds \/ RecvFreed \/
       ServePackage \/ ServiceSends \/ SendSome \/ SendFull \/ SendNothing \/
       SendFails \/ UNCHANGED vars
  BY <1>10
  DEF WaitInterrupted, LoopDone, CallRecver, CallSender, AcceptFails,
       CallInterrupted, RecvData, RecvNothing, RecvEnds, RecvFreed, ServePackage,
       ServiceSends, SendSome, SendFull, SendNothing, SendFails, vars, epVars
<1> QED
  BY <1>1, <1>2, <1>3, <1>4, <1>5, <1>6, <1>7, <1>8, <1>9, <1>10
  DEF Next, Server, Client, Dispatch, Accepter, Recver, Service, Sender

\* AddConnection, Recver, Service, Sender and Excepter leave the Connection
\* objects well-typed.
LEMMA ConnStep == ConnOK /\ NetOK /\ CpuOK /\ [Next]_vars => ConnOK'
<1> SUFFICES ASSUME ConnOK /\ NetOK /\ CpuOK, [Next]_vars PROVE ConnOK'
  OBVIOUS
<1> USE DEF ConnOK
<1>0. pc \in {"Recv", "Service", "Send", "Enable", "Except"} => conn \in Clients
  BY DEF CpuOK
<1>1. CASE AcceptOne
  <2>1. PICK f \in Fds : AddConnection(Head(backlog), f)
    BY <1>1 DEF AcceptOne, FreeFds
  <2>2. Head(backlog) \in Clients
    BY <1>1 DEF AcceptOne, NetOK
  <2>3. fd' \in [Clients -> Fds \cup {NoFd}] /\ connections' \in [Fds -> Clients \cup {NoConn}]
    BY <2>1, <2>2 DEF AddConnection
  <2>4. inbuf' \in [Clients -> Seq(Fragment)] /\ outbuf' \in [Clients -> Seq(Nat)]
    BY <2>1, <2>2 DEF AddConnection
  <2> QED  BY <1>1, <2>3, <2>4 DEF AcceptOne
<1>2. CASE RecvData
  <2> DEFINE n == Least(RecvMax, Len(rcvbuf[conn]))
  <2>1. conn \in Clients /\ rcvbuf[conn] \in Seq(Fragment) /\ inbuf[conn] \in Seq(Fragment)
    BY <1>2, <1>0 DEF RecvData, NetOK
  <2>2. n \in 0..Len(rcvbuf[conn])
    BY <2>1 DEF Least
  <2> HIDE DEF n
  <2>3. SubSeq(rcvbuf[conn], 1, n) \in Seq(Fragment)
    BY <2>1, <2>2, Parts
  <2>4. inbuf[conn] \o SubSeq(rcvbuf[conn], 1, n) \in Seq(Fragment)
    BY <2>1, <2>3
  <2>5. inbuf' \in [Clients -> Seq(Fragment)]
    BY <1>2, <2>1, <2>4 DEF RecvData, n
  <2> QED  BY <1>2, <2>5 DEF RecvData
<1>3. CASE ServePackage
  <2>1. PICK n \in PackageEnds(inbuf[conn]) :
           /\ inbuf' = [inbuf EXCEPT ![conn] = SubSeq(@, n + 1, Len(@))]
           /\ outbuf' = [outbuf EXCEPT ![conn] =
                 IF inbuf[conn][n].req \in Malformed THEN @ ELSE Append(@, inbuf[conn][n].req)]
    BY <1>3 DEF ServePackage
  <2>2. conn \in Clients /\ inbuf[conn] \in Seq(Fragment) /\ outbuf[conn] \in Seq(Nat)
    BY <1>3, <1>0 DEF ServePackage
  <2>3. n \in 1..Len(inbuf[conn])
    BY <2>2 DEF PackageEnds
  <2>4. inbuf[conn][n] \in Fragment
    BY <2>2, <2>3
  <2>5. Append(outbuf[conn], inbuf[conn][n].req) \in Seq(Nat)
    BY <2>2, <2>4 DEF Fragment
  <2>6. SubSeq(inbuf[conn], n + 1, Len(inbuf[conn])) \in Seq(Fragment)
    BY <2>2, <2>3, Parts
  <2>7. inbuf' \in [Clients -> Seq(Fragment)] /\ outbuf' \in [Clients -> Seq(Nat)]
    BY <2>1, <2>2, <2>5, <2>6
  <2> QED  BY <1>3, <2>7 DEF ServePackage
<1>4. CASE SendSome
  <2> DEFINE n == Least(SndCap - Len(sndbuf[conn]), Len(outbuf[conn]))
  <2>1. conn \in Clients /\ outbuf[conn] \in Seq(Nat) /\ sndbuf[conn] \in Seq(Nat)
    BY <1>4, <1>0 DEF SendSome, NetOK
  <2>2. n \in 0..Len(outbuf[conn])
    BY <1>4, <2>1 DEF SendSome, Least
  <2> HIDE DEF n
  <2>3. SubSeq(outbuf[conn], n + 1, Len(outbuf[conn])) \in Seq(Nat)
    BY <2>1, <2>2, Parts
  <2>4. outbuf' \in [Clients -> Seq(Nat)]
    BY <1>4, <2>1, <2>3 DEF SendSome, n
  <2> QED  BY <1>4, <2>4 DEF SendSome
<1>5. CASE Excepter
  <2>1. conn \in Clients
    BY <1>5, <1>0 DEF Excepter
  <2>2. fd' \in [Clients -> Fds \cup {NoFd}] /\ connections' \in [Fds -> Clients \cup {NoConn}]
    BY <1>5, <2>1 DEF Excepter
  <2>3. inbuf' \in [Clients -> Seq(Fragment)] /\ outbuf' \in [Clients -> Seq(Nat)]
    BY <1>5, <2>1 DEF Excepter
  <2> QED  BY <1>5, <2>2, <2>3 DEF Excepter
<1>6. ASSUME NEW c \in Clients, Connect(c) \/ ClientSend(c) \/ ClientRecv(c) \/ ClientClose(c) \/ ClientReset(c)
      PROVE ConnOK'
  BY <1>6 DEF Connect, ClientSend, ClientRecv, ClientClose, ClientReset, connVars
<1>7. CASE EpollWait \/ WaitInterrupted \/ LoopDone \/ CallRecver \/ CallSender \/
       AcceptFails \/ CallInterrupted \/ RecvNothing \/ RecvEnds \/ RecvFreed \/
       ServiceSends \/ SendFull \/ SendNothing \/ SendFails \/ EnablieReadWrite \/
       UNCHANGED vars
  BY <1>7
  DEF EpollWait, WaitInterrupted, LoopDone, CallRecver, CallSender, AcceptFails,
       CallInterrupted, RecvNothing, RecvEnds, RecvFreed, ServiceSends, SendFull,
       SendNothing, SendFails, EnablieReadWrite, vars, connVars
<1> QED
  BY <1>1, <1>2, <1>3, <1>4, <1>5, <1>6, <1>7
  DEF Next, Server, Client, Dispatch, Accepter, Recver, Service, Sender

\* epoll reports only events of epoll.h.
LEMMA ReportedType == \A f : Reported(f, PollFd(f)) \subseteq Events
BY DEF Reported, PollFd, Poll, Events

\* Loop and the handlers keep the program point, the batch and conn well-typed;
\* Loop calls a handler of a client only on an entry of connections_.
LEMMA CpuStep == CpuOK /\ ConnOK /\ EpollOK /\ RevsInv /\ [Next]_vars => CpuOK'
<1> SUFFICES ASSUME CpuOK /\ ConnOK /\ EpollOK /\ RevsInv, [Next]_vars PROVE CpuOK'
  OBVIOUS
<1> USE DEF CpuOK
<1>0. pc \in {"Recv", "Service", "Send", "Enable", "Except"} => conn \in Clients
  BY DEF CpuOK
<1>a. Points = {"Wait", "Loop", "LoopOut", "Accept", "Recv", "Service", "Send",
                "Enable", "Except", "Crashed", "Aborted"}
      /\ {"EAGAIN", "EMFILE", "EINTR", "EPIPE", "ECONNRESET"} \subseteq Errnos
  BY DEF Points, Errnos
<1>1. CASE EpollWait
  <2> DEFINE hits == {i \in DOMAIN rdlist : Reported(rdlist[i], PollFd(rdlist[i])) # {}}
             n == Cardinality(hits)
             Entry(f) == [fd |-> f, events |-> Reported(f, PollFd(f)),
                          owner |-> IF f = Listen THEN NoConn ELSE connections[f]]
             m == Least(num, n)
  <2>1. PICK at \in [1..n -> hits] : revs' = [i \in 1..m |-> Entry(rdlist[at[i]])]
    BY <1>1 DEF EpollWait
  <2>2. hits \subseteq 1..Len(rdlist) /\ IsFiniteSet(1..Len(rdlist))
    BY FS_Interval DEF EpollOK
  <2>3. n \in Nat
    BY <2>2, FS_Subset, FS_CardinalityType
  <2>4. m \in 0..n
    <3> HIDE DEF n
    <3> QED  BY <2>3 DEF Least
  <2>5. \A f \in Fds \cup {Listen} : Entry(f) \in Event
    BY ReportedType DEF Event, ConnOK
  <2> HIDE DEF Entry, n, m
  <2>6. \A i \in 1..m : rdlist[at[i]] \in Fds \cup {Listen}
    BY <2>2, <2>3, <2>4 DEF EpollOK
  <2>7. m \in Nat /\ \A i \in 1..m : Entry(rdlist[at[i]]) \in Event
    <3>1. m \in Nat
      BY <2>3, <2>4
    <3>2. ASSUME NEW i \in 1..m  PROVE Entry(rdlist[at[i]]) \in Event
      <4>1. rdlist[at[i]] \in Fds \cup {Listen}
        BY <2>6
      <4> QED  BY <4>1, <2>5
    <3> QED  BY <3>1, <3>2
  <2>8. revs' \in Seq(Event)
    BY <2>1, <2>7
  <2> QED  BY <1>1, <2>8 DEF EpollWait, Points
<1>2. CASE WaitInterrupted
  BY <1>2, <1>0, <1>a DEF WaitInterrupted
<1>3. CASE LoopDone
  BY <1>3, <1>0, <1>a DEF LoopDone
<1>4. CASE CallRecver
  <2>1. revs \in Seq(Event) /\ revs # <<>> /\ Head(revs) \in Event
    BY <1>4 DEF CallRecver
  <2>2. pc' = "Recv" => conn' = connections[Head(revs).fd] /\ Head(revs).fd # Listen
                        /\ IsConnections(Head(revs).fd)
    BY <1>4 DEF CallRecver
  <2>3. pc' = "Recv" => conn' \in Clients
    BY <2>1, <2>2 DEF IsConnections, Event, ConnOK
  <2>4. pc' \in {"Accept", "Recv", "LoopOut"} /\ (pc' # "Recv" => conn' = conn)
    BY <1>4 DEF CallRecver
  <2>5. UNCHANGED <<revs, errno, ret, intr>>
    BY <1>4 DEF CallRecver
  <2> QED  BY <2>3, <2>4, <2>5 DEF Points
<1>5. CASE CallSender
  <2>1. revs \in Seq(Event) /\ revs # <<>> /\ Head(revs) \in Event /\ Tail(revs) \in Seq(Event)
    BY <1>5 DEF CallSender, RevsInv, HeadTaken
  <2>2. pc' = "Send" => conn' = connections[Head(revs).fd] /\ Head(revs).fd # Listen
                        /\ IsConnections(Head(revs).fd)
    BY <1>5 DEF CallSender
  <2>3. pc' = "Send" => conn' \in Clients
    BY <2>1, <2>2 DEF IsConnections, Event, ConnOK
  <2>4. pc' \in {"Send", "Loop"} /\ (pc' # "Send" => conn' = conn)
    BY <1>5 DEF CallSender
  <2>5. revs' = Tail(revs) /\ ret' = "Loop" /\ UNCHANGED <<errno, intr>>
    BY <1>5 DEF CallSender
  <2> QED  BY <2>1, <2>3, <2>4, <2>5 DEF Points
<1>6. CASE AcceptOne
  <2>1. PICK f \in Fds : AddConnection(Head(backlog), f)
    BY <1>6 DEF AcceptOne, FreeFds
  <2>2. errno' \in Errnos /\ pc' \in {"Accept", "Aborted"}
    BY <2>1 DEF AddConnection, EpollAdd, Errnos
  <2>3. UNCHANGED <<revs, conn, ret, intr>>
    BY <1>6 DEF AcceptOne
  <2> QED  BY <2>2, <2>3 DEF Points
<1>7. CASE AcceptFails
  BY <1>7, <1>0, <1>a DEF AcceptFails
<1>8. CASE CallInterrupted
  BY <1>8, <1>0, <1>a DEF CallInterrupted
<1>9. CASE RecvData
  BY <1>9, <1>0, <1>a DEF RecvData
<1>10. CASE RecvNothing
  BY <1>10, <1>0, <1>a DEF RecvNothing
<1>11. CASE RecvEnds
  BY <1>11, <1>0, <1>a DEF RecvEnds
<1>12. CASE RecvFreed
  BY <1>12, <1>0, <1>a DEF RecvFreed
<1>13. CASE ServePackage
  BY <1>13, <1>0, <1>a DEF ServePackage
<1>14. CASE ServiceSends
  BY <1>14, <1>0, <1>a DEF ServiceSends
<1>15. CASE SendSome
  BY <1>15, <1>0, <1>a DEF SendSome
<1>16. CASE SendFull
  BY <1>16, <1>0, <1>a DEF SendFull
<1>17. CASE SendNothing
  BY <1>17, <1>0, <1>a DEF SendNothing
<1>18. CASE SendFails
  BY <1>18, <1>0, <1>a DEF SendFails
<1>19. CASE EnablieReadWrite
  <2>1. errno' \in Errnos
    BY <1>19 DEF EnablieReadWrite, EpollAdd, Errnos
  <2> QED  BY <1>19, <1>0, <2>1 DEF EnablieReadWrite, Points
<1>20. CASE Excepter
  BY <1>20, <1>0, <1>a DEF Excepter
<1>21. ASSUME NEW c \in Clients, Connect(c) \/ ClientSend(c) \/ ClientRecv(c) \/ ClientClose(c) \/ ClientReset(c)
      PROVE CpuOK'
  BY <1>21 DEF Connect, ClientSend, ClientRecv, ClientClose, ClientReset, cpuVars, connVars, netVars, epVars
<1>22. CASE UNCHANGED vars
  BY <1>22
  DEF vars, cpuVars, connVars, netVars, epVars
<1> QED
  BY <1>1, <1>2, <1>3, <1>4, <1>5, <1>6, <1>7, <1>8, <1>9, <1>10, <1>11, <1>12,
       <1>13, <1>14, <1>15, <1>16, <1>17, <1>18, <1>19, <1>20, <1>21, <1>22
  DEF Next, Server, Client, Dispatch, Accepter, Recver, Service, Sender

-----------------------------------------------------------------------------
\* The head of the batch stays until CallSender drops it.
LEMMA RevsStep == RevsInv /\ [Next]_vars => RevsInv'
<1> SUFFICES ASSUME RevsInv, [Next]_vars PROVE RevsInv'
  OBVIOUS
<1> USE DEF RevsInv, HeadTaken
<1>1. ASSUME NEW c \in Clients, Client(c)  PROVE RevsInv'
  BY <1>1 DEF Client, Connect, ClientSend, ClientRecv, ClientClose, ClientReset, cpuVars
<1>2. CASE Dispatch
  BY <1>2 DEF Dispatch, EpollWait, WaitInterrupted, LoopDone, CallRecver, CallSender
<1>3. CASE AcceptOne
  BY <1>3 DEF AcceptOne, AddConnection
<1>4. CASE AcceptFails \/ CallInterrupted
  BY <1>4 DEF AcceptFails, CallInterrupted
<1>5. CASE Recver
  BY <1>5 DEF Recver, RecvData, RecvNothing, RecvEnds, RecvFreed
<1>6. CASE Service
  BY <1>6 DEF Service, ServePackage, ServiceSends
<1>7. CASE SendSome \/ SendFull \/ SendFails
  BY <1>7 DEF SendSome, SendFull, SendFails
<1>8. CASE SendNothing
  BY <1>8 DEF SendNothing
<1>9. CASE EnablieReadWrite
  BY <1>9 DEF EnablieReadWrite
<1>10. CASE Excepter
  BY <1>10 DEF Excepter
<1>11. CASE UNCHANGED vars
  BY <1>11 DEF vars, cpuVars
<1> QED
  BY <1>1, <1>2, <1>3, <1>4, <1>5, <1>6, <1>7, <1>8, <1>9, <1>10, <1>11
  DEF Next, Server, Accepter, Sender

\* A handler is called on an open connection and goes on only while it is open:
\* TablesAgree says so of the one CallSender looks up, and Recver of its own.
LEMMA HandlerStep ==
    NetOK /\ ConnOK /\ CpuOK /\ TablesAgree /\ RevsInv /\ HandlerLive /\ [Next]_vars
      => HandlerLive'
<1> SUFFICES ASSUME NetOK, ConnOK, CpuOK, TablesAgree, RevsInv, HandlerLive, [Next]_vars
             PROVE  HandlerLive'
  OBVIOUS
<1> USE DEF HandlerLive
<1>0. ret \in {"Loop", "LoopOut", "Recv"}
  BY DEF CpuOK
<1>1. ASSUME NEW c \in Clients, Client(c)  PROVE HandlerLive'
  BY <1>1 DEF Client, Connect, ClientSend, ClientRecv, ClientClose, ClientReset,
              cpuVars, connVars
<1>2. CASE EpollWait \/ WaitInterrupted \/ LoopDone \/ CallRecver
  BY <1>2 DEF EpollWait, WaitInterrupted, LoopDone, CallRecver, connVars
<1>3. CASE CallSender
  <2>1. revs # <<>> /\ Head(revs) \in Event
    BY <1>3 DEF CallSender, RevsInv, HeadTaken, CpuOK
  <2>2. pc' \in {"Loop", "Send"} /\ fd' = fd
    BY <1>3 DEF CallSender, connVars
  <2>3. ASSUME pc' = "Send"  PROVE fd[conn'] # NoFd
    <3>1. Head(revs).fd \in Fds /\ connections[Head(revs).fd] \in Clients
          /\ conn' = connections[Head(revs).fd]
      <4>1. /\ conn' = connections[Head(revs).fd] /\ Head(revs).fd # Listen
            /\ IsConnections(Head(revs).fd)
        BY <1>3, <2>3 DEF CallSender
      <4> QED  BY <4>1, <2>1 DEF IsConnections, Event, ConnOK
    <3>2. PICK f \in Fds : conn' = connections[f] /\ connections[f] \in Clients
      BY <3>1
    <3>3. fd[connections[f]] = f
      BY <3>2 DEF TablesAgree
    <3> QED  BY <3>2, <3>3, NoFdFacts
  <2> QED  BY <2>2, <2>3
<1>4. CASE AcceptOne
  BY <1>4 DEF AcceptOne, AddConnection
<1>5. CASE AcceptFails \/ CallInterrupted
  BY <1>5 DEF AcceptFails, CallInterrupted, connVars
<1>6. CASE Recver
  BY <1>6 DEF Recver, RecvData, RecvNothing, RecvEnds, RecvFreed, Live, connVars
<1>7. CASE Service
  BY <1>7 DEF Service, ServePackage, ServiceSends, connVars
<1>8. CASE SendSome \/ SendFull \/ SendNothing \/ SendFails
  BY <1>8 DEF SendSome, SendFull, SendNothing, SendFails, connVars
<1>9. CASE EnablieReadWrite \/ Excepter
  BY <1>9, <1>0 DEF EnablieReadWrite, Excepter
<1>10. CASE UNCHANGED vars
  BY <1>10 DEF vars, cpuVars, connVars
<1> QED
  BY <1>1, <1>2, <1>3, <1>4, <1>5, <1>6, <1>7, <1>8, <1>9, <1>10
  DEF Next, Server, Dispatch, Accepter, Sender

\* connect enters the backlog once, and accept is what leaves it.
LEMMA BacklogStep ==
    NetOK /\ ConnOK /\ CpuOK /\ BacklogInv /\ [Next]_vars => BacklogInv'
<1> SUFFICES ASSUME NetOK, ConnOK, CpuOK, BacklogInv, [Next]_vars
             PROVE  BacklogInv'
  OBVIOUS
<1> USE DEF BacklogInv
<1>0. backlog \in Seq(Clients) /\ peer \in [Clients -> {"idle", "up", "fin", "rst", "closed"}]
      /\ fd \in [Clients -> Fds \cup {NoFd}]
  BY DEF NetOK, ConnOK
<1>1. ASSUME NEW c \in Clients, Connect(c)  PROVE BacklogInv'
  BY <1>1, <1>0 DEF Connect, connVars
<1>2. ASSUME NEW c \in Clients, ClientClose(c) \/ ClientReset(c)  PROVE BacklogInv'
  BY <1>2, <1>0 DEF ClientClose, ClientReset, connVars
<1>3. ASSUME NEW c \in Clients, ClientSend(c) \/ ClientRecv(c)  PROVE BacklogInv'
  BY <1>3 DEF ClientSend, ClientRecv, connVars
<1>4. CASE AcceptOne
  <2>1. PICK f \in Fds : fd' = [fd EXCEPT ![Head(backlog)] = f]
    BY <1>4 DEF AcceptOne, AddConnection, FreeFds
  <2>2. backlog # <<>> /\ backlog' = Tail(backlog) /\ peer' = peer
    BY <1>4 DEF AcceptOne
  <2>3. Head(backlog) = backlog[1] /\ 1 \in DOMAIN backlog /\ Head(backlog) \in Clients
    BY <1>0, <2>2
  <2>4. \A i \in DOMAIN backlog' : /\ i + 1 \in DOMAIN backlog /\ i + 1 # 1
                                   /\ backlog'[i] = backlog[i + 1]
                                   /\ backlog[i + 1] \in Clients
    BY <1>0, <2>2
  <2>5. \A i \in DOMAIN backlog' : peer'[backlog'[i]] # "idle" /\ fd'[backlog'[i]] = NoFd
    BY <1>0, <2>1, <2>2, <2>3, <2>4
  <2>6. \A i, j \in DOMAIN backlog' : backlog'[i] = backlog'[j] => i = j
    <3>1. ASSUME NEW i \in DOMAIN backlog', NEW j \in DOMAIN backlog',
                 backlog'[i] = backlog'[j]
          PROVE  i = j
      <4>1. i + 1 = j + 1
        BY <3>1, <2>4
      <4>2. i \in Nat /\ j \in Nat
        BY <1>0, <2>2
      <4> QED  BY <4>1, <4>2
    <3> QED  BY <3>1
  <2>7. \A c \in Clients : peer'[c] = "idle" => fd'[c] = NoFd
    BY <1>0, <2>1, <2>2, <2>3
  <2> QED  BY <2>5, <2>6, <2>7
<1>5. CASE Excepter
  <2>1. conn \in Clients /\ backlog' = backlog
        /\ fd' = [fd EXCEPT ![conn] = NoFd] /\ peer' = [peer EXCEPT ![conn] = "closed"]
    BY <1>5 DEF Excepter, CpuOK
  <2> QED  BY <1>0, <2>1
<1>6. CASE Dispatch
  BY <1>6 DEF Dispatch, EpollWait, WaitInterrupted, LoopDone, CallRecver, CallSender,
              netVars, connVars
<1>7. CASE AcceptFails \/ CallInterrupted \/ Recver \/ Service
  BY <1>7 DEF AcceptFails, CallInterrupted, Recver, RecvData, RecvNothing, RecvEnds,
              RecvFreed, Service, ServePackage, ServiceSends, netVars, connVars
<1>8. CASE Sender
  BY <1>8 DEF Sender, SendSome, SendFull, SendNothing, SendFails, EnablieReadWrite,
              netVars, connVars
<1>9. CASE UNCHANGED vars
  BY <1>9 DEF vars, netVars, connVars
<1> QED
  BY <1>1, <1>2, <1>3, <1>4, <1>5, <1>6, <1>7, <1>8, <1>9
  DEF Next, Server, Client, Accepter

\* Only Accepter and Excepter change a table, and each changes all three; the
\* EPOLL_CTL_ADD of EnablieReadWrite finds its descriptor registered and fails.
LEMMA TablesStep == IInv /\ [Next]_vars => TablesAgree'
<1> SUFFICES ASSUME IInv, [Next]_vars  PROVE TablesAgree'
  OBVIOUS
<1> USE DEF TablesAgree
<1>0. TypeOK /\ TablesAgree /\ HandlerLive /\ BacklogInv
  BY DEF IInv
<1>t. NetOK /\ EpollOK /\ ConnOK /\ CpuOK
  BY <1>0, TypeParts
<1>e. fd \in [Clients -> Fds \cup {NoFd}] /\ connections \in [Fds -> Clients \cup {NoConn}]
      /\ interest \in [Fds \cup {Listen} -> SUBSET Events]
  BY <1>t DEF ConnOK, EpollOK
<1>h. pc \in {"Send", "Enable", "Except"} =>
        conn \in Clients /\ fd[conn] \in Fds /\ connections[fd[conn]] = conn
  BY <1>0, <1>t, <1>e DEF CpuOK, HandlerLive
<1>r. ret \in {"Loop", "LoopOut", "Recv"}
  BY <1>t DEF CpuOK
<1>1. CASE AcceptOne
  <2> DEFINE c == Head(backlog)
  <2>1. PICK f \in FreeFds : AddConnection(c, f)
    BY <1>1 DEF AcceptOne
  <2>2. c \in Clients /\ fd[c] = NoFd
    BY <1>1, <1>0, <1>t DEF AcceptOne, BacklogInv, NetOK
  <2>3. f \in Fds /\ \A d \in Clients : fd[d] # f
    BY <2>1 DEF FreeFds
  <2>4. connections[f] = NoConn /\ interest[f] = {}
    BY <1>0, <1>e, <2>3
  <2> HIDE DEF c
  <2>5. /\ fd' = [fd EXCEPT ![c] = f]
        /\ connections' = [connections EXCEPT ![f] = c]
        /\ interest' = [interest EXCEPT ![f] = {"IN", "ET"}]
        /\ pc' = "Accept"
    BY <2>1, <2>4 DEF AddConnection, EpollAdd
  <2>6. \A d \in Clients, g \in Fds : fd'[d] = g <=> connections'[g] = d
    BY <1>0, <1>e, <2>2, <2>3, <2>5, NoFdFacts
  <2>7. \A g \in Fds : interest'[g] # {} <=> connections'[g] # NoConn
    BY <1>0, <1>e, <2>2, <2>3, <2>5
  <2> QED  BY <2>5, <2>6, <2>7
<1>2. CASE Excepter
  <2> DEFINE f == fd[conn]
  <2>1. conn \in Clients /\ f \in Fds /\ connections[f] = conn
    BY <1>2, <1>h DEF Excepter
  <2>2. /\ fd' = [fd EXCEPT ![conn] = NoFd]
        /\ connections' = [connections EXCEPT ![f] = NoConn]
        /\ interest' = [interest EXCEPT ![f] = {}]
        /\ pc' = ret
    BY <1>2 DEF Excepter
  <2> HIDE DEF f
  <2>3. \A d \in Clients, g \in Fds : fd'[d] = g <=> connections'[g] = d
    BY <1>0, <1>e, <2>1, <2>2, NoFdFacts DEF f
  <2>4. \A g \in Fds : interest'[g] # {} <=> connections'[g] # NoConn
    BY <1>0, <1>e, <2>1, <2>2
  <2> QED  BY <2>2, <2>3, <2>4, <1>r
<1>3. CASE EnablieReadWrite
  <2>1. interest[fd[conn]] # {}
    BY <1>3, <1>0, <1>h DEF EnablieReadWrite
  <2>2. interest' = interest
    BY <1>3, <2>1 DEF EnablieReadWrite, EpollAdd, epVars
  <2>3. fd' = fd /\ connections' = connections /\ pc' = ret
    BY <1>3 DEF EnablieReadWrite, connVars
  <2> QED  BY <1>0, <2>2, <2>3, <1>r
<1>4. ASSUME NEW d \in Clients, Client(d)  PROVE TablesAgree'
  BY <1>4, <1>0 DEF Client, Connect, ClientSend, ClientRecv, ClientClose, ClientReset,
                    cpuVars, connVars
<1>5. CASE Dispatch
  BY <1>5, <1>0 DEF Dispatch, EpollWait, WaitInterrupted, LoopDone, CallRecver,
                    CallSender, connVars, epVars
<1>6. CASE AcceptFails \/ CallInterrupted \/ Recver
  BY <1>6, <1>0 DEF AcceptFails, CallInterrupted, Recver, RecvData, RecvNothing,
                    RecvEnds, RecvFreed, connVars, epVars
<1>7. CASE Service
  BY <1>7, <1>0 DEF Service, ServePackage, ServiceSends, connVars, epVars
<1>8. CASE SendSome \/ SendFull \/ SendNothing \/ SendFails
  BY <1>8, <1>0 DEF SendSome, SendFull, SendNothing, SendFails, connVars, epVars
<1>9. CASE UNCHANGED vars
  BY <1>9, <1>0 DEF vars, cpuVars, connVars, epVars
<1> QED
  BY <1>1, <1>2, <1>3, <1>4, <1>5, <1>6, <1>7, <1>8, <1>9
  DEF Next, Server, Accepter, Sender

-----------------------------------------------------------------------------
\* The conjunction of the type invariant, the agreement of the tables and the
\* three facts they lean on is inductive: it holds in every reachable state.
THEOREM Invariance == Spec => []IInv
<1>1. IInv /\ [Next]_vars => IInv'
  <2> SUFFICES ASSUME IInv, [Next]_vars  PROVE IInv'
    OBVIOUS
  <2>1. /\ TypeOK /\ TablesAgree /\ HandlerLive /\ BacklogInv /\ RevsInv
        /\ NetOK /\ EpollOK /\ ConnOK /\ CpuOK
    BY TypeParts DEF IInv
  <2>2. NetOK' /\ EpollOK' /\ ConnOK' /\ CpuOK'
    BY <2>1, NetStep, EpollStep, ConnStep, CpuStep
  <2>3. TypeOK'
    BY <2>2, TypeParts, PTL
  <2>4. HandlerLive' /\ BacklogInv' /\ RevsInv'
    BY <2>1, HandlerStep, BacklogStep, RevsStep
  <2>5. TablesAgree'
    BY TablesStep
  <2> QED  BY <2>3, <2>4, <2>5 DEF IInv
<1> QED  BY InitIInv, <1>1, PTL DEF Spec

\* Every variable keeps its type, for any clients, descriptors, script and
\* bounds: no handler runs without the connection it takes (TcpServer.hpp:239-254).
THEOREM TypeCorrect == Spec => []TypeOK
BY Invariance, PTL DEF IInv

\* sock_, connections_ and the epoll registration agree between any two system
\* calls, and the assert of AddConnection (TcpServer.hpp:213) never fails.
THEOREM TablesStayConsistent == Spec => []TablesAgree
BY Invariance, PTL DEF IInv

-----------------------------------------------------------------------------
(* The ready list, the batch in revs_ and the edges.                       *)

HIDE ReactorAssumption

\* Every registration asks for input, and the listening one is never dropped.
ListensForInput ==
    /\ interest[Listen] # {}
    /\ \A f \in Fds \cup {Listen} : interest[f] # {} => "IN" \in interest[f]

\* A descriptor is queued once, and only while it is registered.
ReadyOnce ==
    /\ \A i, j \in DOMAIN rdlist : rdlist[i] = rdlist[j] => i = j
    /\ \A i \in DOMAIN rdlist : interest[rdlist[i]] # {}

\* A batch names a descriptor once, and is used up before the next one.
BatchOnce ==
    /\ pc = "Wait" => revs = <<>>
    /\ \A i, j \in DOMAIN revs : revs[i].fd = revs[j].fd => i = j

\* BatchIsCurrent, and that the owner it speaks of is a connection.
BatchOwned ==
    \A i \in DOMAIN Unhandled :
        Unhandled[i].fd # Listen =>
            /\ Unhandled[i].owner # NoConn
            /\ connections[Unhandled[i].fd] = Unhandled[i].owner

Handlers == {"Recv", "Service", "Send", "Enable", "Except"}

\* What a handler closes is not what the rest of the batch speaks of.
HandlerApart ==
    pc \in Handlers => \A i \in DOMAIN Unhandled : Unhandled[i].fd # fd[conn]

EdgeInv ==
    ListensForInput /\ ReadyOnce /\ BatchOnce /\ BatchOwned /\ HandlerApart /\ NoLostEdge

\* What epoll_wait reports of f.
ReportOf(f) == [fd |-> f, events |-> Reported(f, PollFd(f)),
                owner |-> IF f = Listen THEN NoConn ELSE connections[f]]

\* RemoveAt closes the gap.
LEMMA Removed ==
    ASSUME NEW S, NEW s \in Seq(S), NEW n \in DOMAIN s
    PROVE  /\ DOMAIN RemoveAt(s, n) = 1..(Len(s) - 1)
           /\ \A j \in 1..(Len(s) - 1) :
                RemoveAt(s, n)[j] = IF j < n THEN s[j] ELSE s[j + 1]
<1> DEFINE u == SubSeq(s, 1, n - 1)
           v == SubSeq(s, n + 1, Len(s))
<1>1. /\ u \in Seq(S) /\ Len(u) = n - 1 /\ \A j \in 1..(n - 1) : u[j] = s[j]
      /\ v \in Seq(S) /\ Len(v) = Len(s) - n
      /\ \A j \in 1..(Len(s) - n) : v[j] = s[n + j]
  OBVIOUS
<1>2. RemoveAt(s, n) = u \o v
  BY DEF RemoveAt
<1> HIDE DEF u, v
<1>3. /\ Len(u \o v) = Len(s) - 1 /\ DOMAIN (u \o v) = 1..(Len(s) - 1)
      /\ \A j \in 1..(Len(s) - 1) :
            (u \o v)[j] = IF j < n THEN u[j] ELSE v[j - (n - 1)]
  BY <1>1
<1>4. ASSUME NEW j \in 1..(Len(s) - 1)
      PROVE  (u \o v)[j] = IF j < n THEN s[j] ELSE s[j + 1]
  <2>1. CASE j < n
    BY <2>1, <1>1, <1>3
  <2>2. CASE ~(j < n)
    <3>1. j - (n - 1) \in 1..(Len(s) - n) /\ n + (j - (n - 1)) = j + 1
      BY <2>2
    <3> QED  BY <2>2, <3>1, <1>1, <1>3
  <2> QED  BY <2>1, <2>2
<1> QED  BY <1>2, <1>3, <1>4

\* An edge queues a registered descriptor that is not queued yet, or nothing.
LEMMA WokenFacts ==
    ASSUME EpollOK, NEW f \in Fds \cup {Listen, NoFd}, NEW events
    PROVE  \/ Woken(f, events) = rdlist
           \/ /\ f \in Fds \cup {Listen} /\ interest[f] # {}
              /\ \A i \in DOMAIN rdlist : rdlist[i] # f
              /\ Woken(f, events) = Append(rdlist, f)
BY NoFdFacts DEF Woken, Contains, EpollOK

\* An edge on a registered descriptor leaves it queued.
LEMMA WokenQueues ==
    ASSUME EpollOK, NEW f \in Fds \cup {Listen}, interest[f] # {},
           NEW events, Reported(f, events) # {}
    PROVE  Contains(Woken(f, events), f)
<1>1. CASE Contains(rdlist, f)
  BY <1>1 DEF Woken
<1>2. CASE ~Contains(rdlist, f)
  <2>1. Woken(f, events) = Append(rdlist, f)
    BY <1>2, NoFdFacts DEF Woken
  <2>2. Len(Append(rdlist, f)) = Len(rdlist) + 1 /\ Append(rdlist, f)[Len(rdlist) + 1] = f
        /\ Len(rdlist) \in Nat
    BY DEF EpollOK
  <2> QED  BY <2>1, <2>2 DEF Contains
<1> QED  BY <1>1, <1>2

\* A list keeps what is queued when another descriptor is.
LEMMA WokenKeeps ==
    ASSUME EpollOK, NEW f \in Fds \cup {Listen, NoFd}, NEW events,
           NEW g, Contains(rdlist, g)
    PROVE  Contains(Woken(f, events), g)
<1>1. CASE Woken(f, events) = rdlist
  BY <1>1
<1>2. CASE f \in Fds \cup {Listen} /\ Woken(f, events) = Append(rdlist, f)
  BY <1>2 DEF Contains, EpollOK
<1> QED  BY <1>1, <1>2, WokenFacts

-----------------------------------------------------------------------------
(* What a step can do to the tables, and to the batch.                     *)

\* Accepter gives c the free descriptor f.
Opens(c, f) ==
    /\ AcceptOne
    /\ backlog # <<>> /\ c = Head(backlog)
    /\ c \in Clients /\ f \in Fds
    /\ fd[c] = NoFd /\ connections[f] = NoConn /\ interest[f] = {}
    /\ fd' = [fd EXCEPT ![c] = f]
    /\ connections' = [connections EXCEPT ![f] = c]
    /\ interest' = [interest EXCEPT ![f] = {"IN", "ET"}]
    /\ rdlist' = IF Poll(c) \cap {"IN", "ET", "ERR", "HUP"} # {}
                 THEN Append(rdlist, f) ELSE rdlist
    /\ pc' = "Accept"

\* Excepter closes conn.
Closes ==
    /\ Excepter
    /\ conn \in Clients /\ fd[conn] \in Fds
    /\ connections[fd[conn]] = conn
    /\ fd' = [fd EXCEPT ![conn] = NoFd]
    /\ connections' = [connections EXCEPT ![fd[conn]] = NoConn]
    /\ interest' = [interest EXCEPT ![fd[conn]] = {}]

\* Sender and Excepter have a connection with a descriptor, and its entry.
LEMMA HandlerEntry ==
    ASSUME IInv
    PROVE  pc \in {"Service", "Send", "Enable", "Except"} =>
             /\ conn \in Clients /\ fd[conn] \in Fds
             /\ connections[fd[conn]] = conn /\ interest[fd[conn]] # {}
<1>1. NoConn \notin Clients
  BY ReactorAssumption DEF ReactorAssumption
<1>2. pc \in {"Service", "Send", "Enable", "Except"} => conn \in Clients /\ fd[conn] \in Fds
  BY NoFdFacts DEF IInv, TypeOK, HandlerLive
<1> QED  BY <1>1, <1>2 DEF IInv, TablesAgree

\* accept returns a descriptor that is in no table.
LEMMA AcceptOpens ==
    ASSUME IInv, AcceptOne
    PROVE  \E c \in Clients, f \in Fds : Opens(c, f)
<1> DEFINE c == Head(backlog)
<1>1. PICK f \in FreeFds : AddConnection(c, f)
  BY DEF AcceptOne
<1>2. c \in Clients /\ fd[c] = NoFd /\ backlog # <<>>
  BY DEF AcceptOne, IInv, TypeOK, BacklogInv
<1>3. f \in Fds /\ \A d \in Clients : fd[d] # f
  BY <1>1 DEF FreeFds
<1>4. connections[f] = NoConn /\ interest[f] = {}
  BY <1>3 DEF IInv, TypeOK, TablesAgree
<1> HIDE DEF c
<1>5. Opens(c, f)
  BY <1>1, <1>2, <1>3, <1>4 DEF Opens, AddConnection, EpollAdd, c
<1> QED  BY <1>2, <1>3, <1>5

\* Only Accepter and Excepter touch the tables (EnablieReadWrite adds a
\* descriptor that is registered already).
LEMMA TableSteps ==
    ASSUME IInv, [Next]_vars
    PROVE  \/ \E c \in Clients, f \in Fds : Opens(c, f)
           \/ Closes
           \/ UNCHANGED <<fd, connections, interest>>
<1> DEFINE P == \/ \E c \in Clients, f \in Fds : Opens(c, f)
                \/ Closes
                \/ UNCHANGED <<fd, connections, interest>>
<1>1. CASE AcceptOne
  BY <1>1, AcceptOpens
<1>2. CASE Excepter
  BY <1>2, HandlerEntry DEF Closes, Excepter
<1>3. CASE EnablieReadWrite
  BY <1>3, HandlerEntry DEF EnablieReadWrite, EpollAdd, epVars, connVars
<1>4. ASSUME NEW d \in Clients, Client(d)  PROVE P
  BY <1>4 DEF Client, Connect, ClientSend, ClientRecv, ClientClose, ClientReset, connVars
<1>5. CASE Dispatch
  BY <1>5 DEF Dispatch, EpollWait, WaitInterrupted, LoopDone, CallRecver,
              CallSender, connVars, epVars
<1>6. CASE AcceptFails \/ CallInterrupted \/ Recver
  BY <1>6 DEF AcceptFails, CallInterrupted, Recver, RecvData, RecvNothing,
              RecvEnds, RecvFreed, connVars, epVars
<1>7. CASE Service
  BY <1>7 DEF Service, ServePackage, ServiceSends, connVars, epVars
<1>8. CASE SendSome \/ SendFull \/ SendNothing \/ SendFails
  BY <1>8 DEF SendSome, SendFull, SendNothing, SendFails, connVars, epVars
<1>9. CASE UNCHANGED vars
  BY <1>9 DEF vars, connVars, epVars
<1> QED
  BY <1>1, <1>2, <1>3, <1>4, <1>5, <1>6, <1>7, <1>8, <1>9
  DEF Next, Server, Accepter, Sender

\* Only epoll_wait fills revs_, and the events left only become fewer when
\* CallRecver takes the next one.
LEMMA BatchSteps ==
    ASSUME IInv, [Next]_vars
    PROVE  \/ EpollWait
           \/ /\ CallRecver /\ revs' = revs
              /\ Unhandled = revs /\ Unhandled' = Tail(revs)
           \/ /\ ~EpollWait /\ ~CallRecver
              /\ Unhandled' = Unhandled /\ revs' \in {revs, Tail(revs)}
              /\ pc' = "Wait" => revs' = revs /\ (pc = "Wait" \/ revs = <<>>)
<1> DEFINE P == \/ EpollWait \/ CallRecver
                \/ /\ Unhandled' = Unhandled /\ revs' \in {revs, Tail(revs)}
                   /\ pc' = "Wait" => revs' = revs /\ (pc = "Wait" \/ revs = <<>>)
<1>0. ret \in {"Loop", "LoopOut", "Recv"}
  BY DEF IInv, TypeOK
<1>a. CallRecver => /\ revs' = revs
                    /\ Unhandled = revs /\ Unhandled' = Tail(revs)
  BY DEF CallRecver, Unhandled, HeadTaken
<1>b. P
  <2> USE DEF Unhandled, HeadTaken
  <2>2. CASE CallSender
    BY <2>2 DEF CallSender
  <2>3. CASE WaitInterrupted \/ LoopDone
    BY <2>3 DEF WaitInterrupted, LoopDone
  <2>4. CASE AcceptOne
    BY <2>4 DEF AcceptOne, AddConnection
  <2>5. CASE AcceptFails \/ CallInterrupted
    BY <2>5 DEF AcceptFails, CallInterrupted
  <2>6. CASE Recver
    BY <2>6 DEF Recver, RecvData, RecvNothing, RecvEnds, RecvFreed
  <2>7. CASE Service
    BY <2>7 DEF Service, ServePackage, ServiceSends
  <2>8. CASE SendSome \/ SendFull \/ SendFails
    BY <2>8 DEF SendSome, SendFull, SendFails
  <2>9. CASE SendNothing
    BY <2>9 DEF SendNothing
  <2>10. CASE EnablieReadWrite \/ Excepter
    BY <2>10, <1>0 DEF EnablieReadWrite, Excepter
  <2>11. ASSUME NEW c \in Clients, Client(c)  PROVE P
    BY <2>11 DEF Client, Connect, ClientSend, ClientRecv, ClientClose, ClientReset, cpuVars
  <2>12. CASE UNCHANGED vars
    BY <2>12 DEF vars, cpuVars
  <2> QED
    BY <2>2, <2>3, <2>4, <2>5, <2>6, <2>7, <2>8, <2>9, <2>10, <2>11, <2>12
    DEF Next, Server, Dispatch, Accepter, Sender
<1> QED  BY <1>a, <1>b

\* epoll_wait takes what it reports off the list, each entry once; what has an
\* event and is not reported stays.
LEMMA WaitFacts ==
    ASSUME IInv, EpollWait
    PROVE  /\ \E m \in Nat : \E g \in [1..m -> DOMAIN rdlist] :
                /\ rdlist' = [i \in 1..m |-> rdlist[g[i]]]
                /\ \A i, j \in 1..m : g[i] = g[j] => i = j
           /\ \E m \in Nat : \E g \in [1..m -> DOMAIN rdlist] :
                /\ revs' = [i \in 1..m |-> ReportOf(rdlist[g[i]])]
                /\ \A i, j \in 1..m : g[i] = g[j] => i = j
           /\ \A k \in DOMAIN rdlist :
                Reported(rdlist[k], PollFd(rdlist[k])) # {} =>
                  \/ Contains(rdlist', rdlist[k])
                  \/ \E i \in DOMAIN revs' : revs'[i] = ReportOf(rdlist[k])
           /\ pc' \in {"Wait", "Loop"} /\ (pc' = "Wait" => revs' = <<>>)
           /\ UNCHANGED <<netVars, interest, connVars, conn, ret>>
<1> DEFINE hits == {i \in DOMAIN rdlist : Reported(rdlist[i], PollFd(rdlist[i])) # {}}
           n == Cardinality(hits)
           l == Least(num, n)
<1>1. PICK at \in [1..n -> hits] :
         /\ \A i, j \in 1..n : i < j => at[i] < at[j]
         /\ revs' = [i \in 1..l |-> ReportOf(rdlist[at[i]])]
         /\ rdlist' = [i \in 1..(n - l) |-> rdlist[at[i + num]]]
         /\ pc' = IF n = 0 THEN "Wait" ELSE "Loop"
  BY DEF EpollWait, ReportOf
<1>2. rdlist \in Seq(Fds \cup {Listen}) /\ DOMAIN rdlist = 1..Len(rdlist) /\ Len(rdlist) \in Nat
  BY DEF IInv, TypeOK
<1>3. IsFiniteSet(1..Len(rdlist)) /\ hits \subseteq 1..Len(rdlist)
  BY <1>2, FS_Interval
<1>4. IsFiniteSet(hits) /\ n \in Nat
  BY <1>3, FS_Subset, FS_CardinalityType
<1>n. num \in Nat \ {0}
  BY ReactorAssumption DEF ReactorAssumption
<1> HIDE DEF n
<1>5. /\ l \in 0..n /\ l <= num
      /\ n - l \in Nat
      /\ \A i \in 1..l : i \in 1..n
      /\ \A i \in 1..(n - l) : i + num \in 1..n
      /\ \A j \in 1..n : j \in 1..l \/ j - num \in 1..(n - l)
  BY <1>4, <1>n DEF Least
<1>6. \A i, j \in 1..n : at[i] = at[j] => i = j
  <2>1. ASSUME NEW i \in 1..n, NEW j \in 1..n, at[i] = at[j], i # j  PROVE FALSE
    <3>1. i < j \/ j < i
      BY <2>1, <1>4
    <3>2. at[i] \in Nat /\ at[j] \in Nat
      BY <1>3
    <3> QED  BY <2>1, <3>1, <3>2, <1>1
  <2> QED  BY <2>1
<1>7. ASSUME NEW k \in hits  PROVE \E i \in 1..n : at[i] = k
  <2>1. at \in Injection(1..n, hits)
    BY <1>6 DEF Injection, IsInjective
  <2>2. Cardinality(1..n) = n
    BY <1>4, FS_Interval
  <2>3. at \in Surjection(1..n, hits)
    BY <1>4, <2>1, <2>2, FS_Injection DEF n
  <2> QED  BY <2>3 DEF Surjection
<1> HIDE DEF l
<1>8. \E m \in Nat : \E g \in [1..m -> DOMAIN rdlist] :
         /\ rdlist' = [i \in 1..m |-> rdlist[g[i]]]
         /\ \A i, j \in 1..m : g[i] = g[j] => i = j
  <2> DEFINE m == n - l
             g == [i \in 1..m |-> at[i + num]]
  <2>1. m \in Nat /\ g \in [1..m -> DOMAIN rdlist]
    BY <1>2, <1>3, <1>5
  <2>2. rdlist' = [i \in 1..m |-> rdlist[g[i]]]
    BY <1>1
  <2>3. ASSUME NEW i \in 1..m, NEW j \in 1..m, g[i] = g[j]  PROVE i = j
    <3>1. i + num = j + num
      BY <2>3, <1>5, <1>6
    <3> QED  BY <3>1, <1>n
  <2> QED  BY <2>1, <2>2, <2>3
<1>9. \E m \in Nat : \E g \in [1..m -> DOMAIN rdlist] :
         /\ revs' = [i \in 1..m |-> ReportOf(rdlist[g[i]])]
         /\ \A i, j \in 1..m : g[i] = g[j] => i = j
  <2> DEFINE g == [i \in 1..l |-> at[i]]
  <2>1. l \in Nat /\ g \in [1..l -> DOMAIN rdlist]
    BY <1>2, <1>3, <1>4, <1>5
  <2>2. revs' = [i \in 1..l |-> ReportOf(rdlist[g[i]])]
    BY <1>1
  <2>3. \A i, j \in 1..l : g[i] = g[j] => i = j
    BY <1>5, <1>6
  <2> QED  BY <2>1, <2>2, <2>3
<1>10. ASSUME NEW k \in DOMAIN rdlist, Reported(rdlist[k], PollFd(rdlist[k])) # {}
       PROVE  \/ Contains(rdlist', rdlist[k])
              \/ \E i \in DOMAIN revs' : revs'[i] = ReportOf(rdlist[k])
  <2>1. PICK j \in 1..n : at[j] = k
    BY <1>7, <1>10
  <2>2. CASE j \in 1..l
    BY <2>1, <2>2, <1>1
  <2>3. CASE j - num \in 1..(n - l)
    <3>1. rdlist'[j - num] = rdlist[k]
      <4>1. (j - num) + num = j
        BY <1>n, <1>4
      <4> QED  BY <2>1, <2>3, <1>1, <4>1
    <3>2. Len(rdlist') = n - l
      BY <1>1, <1>5
    <3> QED  BY <2>3, <3>1, <3>2 DEF Contains
  <2> QED  BY <2>2, <2>3, <1>5
<1>11. pc' \in {"Wait", "Loop"} /\ (pc' = "Wait" => revs' = <<>>)
  <2>1. n = 0 => l = 0
    BY <1>5
  <2> QED  BY <1>1, <2>1
<1> QED  BY <1>8, <1>9, <1>10, <1>11 DEF EpollWait

\* What a client's step does to the ready list.
LEMMA ClientSteps ==
    ASSUME IInv, NEW c \in Clients, Client(c)
    PROVE  /\ \E f \in Fds \cup {Listen, NoFd}, events \in SUBSET Events :
                rdlist' = Woken(f, events)
              \/ rdlist' = rdlist
           /\ UNCHANGED <<interest, connVars, cpuVars>>
<1>1. fd[c] \in Fds \cup {Listen, NoFd}
  BY DEF IInv, TypeOK
<1>2. {"IN"} \subseteq Events /\ {"OUT"} \subseteq Events /\ {"IN", "ERR", "HUP"} \subseteq Events
  BY DEF Events
<1>3. CASE Connect(c)
  BY <1>2, <1>3 DEF Connect
<1>4. CASE ClientSend(c)
  BY <1>1, <1>2, <1>4 DEF ClientSend
<1>5. CASE ClientRecv(c)
  BY <1>1, <1>2, <1>5 DEF ClientRecv
<1>6. CASE ClientClose(c)
  BY <1>1, <1>2, <1>6 DEF ClientClose
<1>7. CASE ClientReset(c)
  BY <1>1, <1>2, <1>7 DEF ClientReset
<1> QED  BY <1>3, <1>4, <1>5, <1>6, <1>7 DEF Client

\* Every other step leaves the ready list alone.
LEMMA ReadySteps ==
    ASSUME IInv, [Next]_vars
    PROVE  \/ EpollWait
           \/ \E c \in Clients : Client(c)
           \/ \E c \in Clients, f \in Fds : Opens(c, f)
           \/ Closes
           \/ rdlist' = rdlist
<1>1. CASE AcceptOne
  BY <1>1, AcceptOpens
<1>2. CASE Excepter
  BY <1>2, HandlerEntry DEF Closes, Excepter
<1>3. CASE EnablieReadWrite
  BY <1>3, HandlerEntry DEF EnablieReadWrite, EpollAdd, epVars
<1>4. CASE Dispatch
  BY <1>4 DEF Dispatch, WaitInterrupted, LoopDone, CallRecver, CallSender, epVars
<1>5. CASE AcceptFails \/ CallInterrupted \/ Recver \/ Service
  BY <1>5 DEF AcceptFails, CallInterrupted, Recver, RecvData, RecvNothing,
              RecvEnds, RecvFreed, Service, ServePackage, ServiceSends, epVars
<1>6. CASE SendSome \/ SendFull \/ SendNothing \/ SendFails
  BY <1>6 DEF SendSome, SendFull, SendNothing, SendFails, epVars
<1>7. CASE UNCHANGED vars
  BY <1>7 DEF vars, epVars
<1> QED
  BY <1>1, <1>2, <1>3, <1>4, <1>5, <1>6, <1>7 DEF Next, Server, Accepter, Sender

-----------------------------------------------------------------------------
\* No step drops the registration of the listening socket, and EnablieReadWrite
\* changes none.
LEMMA ListensStep == IInv /\ ListensForInput /\ [Next]_vars => ListensForInput'
<1> SUFFICES ASSUME IInv, ListensForInput, [Next]_vars  PROVE ListensForInput'
  OBVIOUS
<1> USE DEF ListensForInput
<1>0. interest \in [Fds \cup {Listen} -> SUBSET Events]
  BY DEF IInv, TypeOK
<1>1. ASSUME NEW c \in Clients, NEW f \in Fds, Opens(c, f)  PROVE ListensForInput'
  BY <1>0, <1>1, NoFdFacts DEF Opens
<1>2. CASE Closes
  BY <1>0, <1>2, NoFdFacts DEF Closes
<1>3. CASE UNCHANGED interest
  BY <1>3
<1> QED  BY <1>1, <1>2, <1>3, TableSteps

\* epoll_wait and close take entries away, an edge and EPOLL_CTL_ADD queue a
\* descriptor that is not queued.
LEMMA ReadyStep == IInv /\ ReadyOnce /\ [Next]_vars => ReadyOnce'
<1> SUFFICES ASSUME IInv, ReadyOnce, [Next]_vars  PROVE ReadyOnce'
  OBVIOUS
<1> USE DEF ReadyOnce
<1>0. /\ interest \in [Fds \cup {Listen} -> SUBSET Events]
      /\ rdlist \in Seq(Fds \cup {Listen})
  BY DEF IInv, TypeOK
<1>1. CASE EpollWait
  <2>1. PICK m \in Nat : \E g \in [1..m -> DOMAIN rdlist] :
               /\ rdlist' = [i \in 1..m |-> rdlist[g[i]]]
               /\ \A i, j \in 1..m : g[i] = g[j] => i = j
    BY <1>1, WaitFacts
  <2>2. PICK g \in [1..m -> DOMAIN rdlist] :
               /\ rdlist' = [i \in 1..m |-> rdlist[g[i]]]
               /\ \A i, j \in 1..m : g[i] = g[j] => i = j
    BY <2>1
  <2>3. interest' = interest /\ DOMAIN rdlist' = 1..m
    BY <1>1, <2>2, WaitFacts
  <2> QED  BY <2>2, <2>3
<1>2. ASSUME NEW c \in Clients, Client(c)  PROVE ReadyOnce'
  <2>1. CASE rdlist' = rdlist /\ interest' = interest
    BY <2>1
  <2>2. ASSUME NEW f \in Fds \cup {Listen}, interest[f] # {},
               \A i \in DOMAIN rdlist : rdlist[i] # f,
               rdlist' = Append(rdlist, f), interest' = interest
        PROVE  ReadyOnce'
    BY <2>2, <1>0
  <2>3. EpollOK
    BY <1>0 DEF EpollOK
  <2> QED  BY <1>2, <2>1, <2>2, <2>3, ClientSteps, WokenFacts
<1>3. ASSUME NEW c \in Clients, NEW f \in Fds, Opens(c, f)  PROVE ReadyOnce'
  <2>1. /\ interest' = [interest EXCEPT ![f] = {"IN", "ET"}] /\ interest[f] = {}
        /\ rdlist' = Append(rdlist, f) \/ rdlist' = rdlist
    BY <1>3 DEF Opens
  <2>2. \A i \in DOMAIN rdlist : rdlist[i] # f /\ interest'[rdlist[i]] = interest[rdlist[i]]
    BY <1>0, <2>1
  <2>3. CASE rdlist' = rdlist
    BY <2>2, <2>3
  <2>4. CASE rdlist' = Append(rdlist, f)
    <3>1. /\ DOMAIN rdlist' = 1..(Len(rdlist) + 1) /\ Len(rdlist) \in Nat
          /\ rdlist'[Len(rdlist) + 1] = f
          /\ DOMAIN rdlist = 1..Len(rdlist)
          /\ \A i \in DOMAIN rdlist : rdlist'[i] = rdlist[i]
      BY <1>0, <2>4
    <3>2. interest'[f] # {}
      BY <1>0, <2>1
    <3>3. \A i \in DOMAIN rdlist' : i = Len(rdlist) + 1 \/ i \in DOMAIN rdlist
      BY <3>1
    <3> QED  BY <2>2, <3>1, <3>2, <3>3
  <2> QED  BY <2>1, <2>3, <2>4
<1>4. CASE Closes
  <2> DEFINE f == fd[conn]
  <2>1. /\ interest' = [interest EXCEPT ![f] = {}]
        /\ \/ ~Contains(rdlist, f) /\ rdlist' = rdlist
           \/ \E i \in DOMAIN rdlist : rdlist[i] = f /\ rdlist' = RemoveAt(rdlist, i)
    BY <1>4 DEF Closes, Excepter
  <2> HIDE DEF f
  <2>2. \A g \in Fds \cup {Listen} : g # f => interest'[g] = interest[g]
    BY <1>0, <2>1
  <2>3. CASE ~Contains(rdlist, f) /\ rdlist' = rdlist
    <3>1. \A i \in DOMAIN rdlist : rdlist[i] # f /\ rdlist[i] \in Fds \cup {Listen}
      BY <1>0, <2>3 DEF Contains
    <3> QED  BY <2>2, <2>3, <3>1
  <2>4. ASSUME NEW k \in DOMAIN rdlist, rdlist[k] = f, rdlist' = RemoveAt(rdlist, k)
        PROVE  ReadyOnce'
    <3>1. /\ DOMAIN rdlist' = 1..(Len(rdlist) - 1)
          /\ \A j \in 1..(Len(rdlist) - 1) :
               rdlist'[j] = IF j < k THEN rdlist[j] ELSE rdlist[j + 1]
      BY <1>0, <2>4, Removed
    <3>2. DOMAIN rdlist = 1..Len(rdlist) /\ Len(rdlist) \in Nat
      BY <1>0
    <3> DEFINE old(j) == IF j < k THEN j ELSE j + 1
    <3>3. \A j \in DOMAIN rdlist' : /\ old(j) \in DOMAIN rdlist /\ old(j) # k
                                    /\ rdlist'[j] = rdlist[old(j)]
      BY <3>1, <3>2
    <3>4. \A i, j \in DOMAIN rdlist' : old(i) = old(j) => i = j
      BY <3>1, <3>2
    <3> HIDE DEF old
    <3>5. \A j \in DOMAIN rdlist' : rdlist'[j] # f /\ rdlist'[j] \in Fds \cup {Listen}
      BY <1>0, <2>4, <3>3
    <3>6. \A j \in DOMAIN rdlist' : interest'[rdlist'[j]] # {}
      BY <2>2, <3>3, <3>5
    <3> QED  BY <3>3, <3>4, <3>6
  <2> QED  BY <2>1, <2>3, <2>4
<1>5. CASE UNCHANGED <<rdlist, interest>>
  BY <1>5
<1>6. CASE rdlist' = rdlist /\ ~(UNCHANGED interest)
  BY <1>3, <1>4, <1>6, TableSteps
<1> QED  BY <1>1, <1>2, <1>3, <1>4, <1>5, <1>6, ReadySteps

\* A batch has an event of each descriptor, as the ready list has.
LEMMA BatchOnceStep == IInv /\ ReadyOnce /\ BatchOnce /\ [Next]_vars => BatchOnce'
<1> SUFFICES ASSUME IInv, ReadyOnce, BatchOnce, [Next]_vars  PROVE BatchOnce'
  OBVIOUS
<1> USE DEF BatchOnce
<1>0. revs \in Seq(Event)
  BY DEF IInv, TypeOK
<1>1. CASE EpollWait
  <2>1. PICK m \in Nat : \E g \in [1..m -> DOMAIN rdlist] :
               /\ revs' = [i \in 1..m |-> ReportOf(rdlist[g[i]])]
               /\ \A i, j \in 1..m : g[i] = g[j] => i = j
    BY <1>1, WaitFacts
  <2>2. PICK g \in [1..m -> DOMAIN rdlist] :
               /\ revs' = [i \in 1..m |-> ReportOf(rdlist[g[i]])]
               /\ \A i, j \in 1..m : g[i] = g[j] => i = j
    BY <2>1
  <2>3. \A i \in 1..m : revs'[i].fd = rdlist[g[i]]
    BY <2>2 DEF ReportOf
  <2>4. \A i, j \in 1..m : revs'[i].fd = revs'[j].fd => i = j
    BY <2>2, <2>3 DEF ReadyOnce
  <2>5. DOMAIN revs' = 1..m
    BY <2>2
  <2> QED  BY <1>1, <2>4, <2>5, WaitFacts
<1>2. CASE revs' = revs
  <2>1. pc' = "Wait" => revs = <<>>
    BY <1>2, BatchSteps, WaitFacts DEF CallRecver
  <2> QED  BY <1>2, <2>1
<1>3. CASE revs' = Tail(revs) /\ pc' # "Wait"
  <2>1. CASE revs = <<>>
    BY <1>3, <2>1
  <2>2. CASE revs # <<>>
    <3>1. /\ \A i \in DOMAIN Tail(revs) : i + 1 \in DOMAIN revs /\ Tail(revs)[i] = revs[i + 1]
          /\ DOMAIN Tail(revs) \subseteq Nat
      BY <1>0, <2>2
    <3>2. \A i, j \in DOMAIN revs' : revs'[i].fd = revs'[j].fd => i + 1 = j + 1
      BY <1>3, <3>1
    <3>3. DOMAIN revs' \subseteq Nat
      BY <1>3, <3>1
    <3> QED  BY <1>3, <3>2, <3>3
  <2> QED  BY <2>1, <2>2
<1> QED  BY <1>1, <1>2, <1>3, BatchSteps

\* The entries of Tail are those after the head.
LEMMA TailEntries ==
    ASSUME NEW S, NEW s \in Seq(S), s # <<>>
    PROVE  /\ 1 \in DOMAIN s /\ s[1] = Head(s) /\ Head(s) \in S
           /\ \A i \in DOMAIN Tail(s) :
                i + 1 \in DOMAIN s /\ i + 1 # 1 /\ Tail(s)[i] = s[i + 1]
           /\ \A i \in DOMAIN s :
                i # 1 => i - 1 \in DOMAIN Tail(s) /\ Tail(s)[i - 1] = s[i]
OBVIOUS

\* What the batch holds after a step it held before, or epoll_wait reported it.
LEMMA BatchComesFrom ==
    ASSUME IInv, [Next]_vars, NEW i \in DOMAIN Unhandled'
    PROVE  \/ EpollWait /\ \E k \in DOMAIN rdlist : Unhandled'[i] = ReportOf(rdlist[k])
           \/ ~EpollWait /\ \E k \in DOMAIN Unhandled : Unhandled'[i] = Unhandled[k]
<1>0. revs \in Seq(Event)
  BY DEF IInv, TypeOK
<1>1. CASE EpollWait
  <2>1. Unhandled' = revs'
    BY <1>1, WaitFacts DEF Unhandled, HeadTaken
  <2> QED  BY <1>1, <2>1, WaitFacts
<1>2. CASE CallRecver
  <2>1. Unhandled = revs /\ Unhandled' = Tail(revs) /\ revs # <<>> /\ ~EpollWait
    BY <1>2, BatchSteps DEF CallRecver, EpollWait
  <2> QED  BY <1>0, <2>1, TailEntries
<1>3. CASE ~EpollWait /\ ~CallRecver
  BY <1>3, BatchSteps
<1> QED  BY <1>1, <1>2, <1>3

\* A number is reused for a new connection only when no event of the batch
\* speaks of it, and what a handler closes is not in the rest of the batch.
LEMMA BatchOwnedStep ==
    IInv /\ ReadyOnce /\ BatchOwned /\ HandlerApart /\ [Next]_vars => BatchOwned'
<1> SUFFICES ASSUME IInv, ReadyOnce, BatchOwned, HandlerApart, [Next]_vars,
                    NEW i \in DOMAIN Unhandled', Unhandled'[i].fd # Listen
             PROVE  /\ Unhandled'[i].owner # NoConn
                    /\ connections'[Unhandled'[i].fd] = Unhandled'[i].owner
  BY DEF BatchOwned
<1>0. /\ connections \in [Fds -> Clients \cup {NoConn}]
      /\ rdlist \in Seq(Fds \cup {Listen})
      /\ \A k \in DOMAIN rdlist : rdlist[k] \in Fds \cup {Listen}
  BY DEF IInv, TypeOK
<1>1. CASE EpollWait
  <2>1. PICK k \in DOMAIN rdlist : Unhandled'[i] = ReportOf(rdlist[k])
    BY <1>1, BatchComesFrom
  <2>2. rdlist[k] \in Fds /\ interest[rdlist[k]] # {}
    BY <1>0, <2>1 DEF ReadyOnce, ReportOf
  <2>3. connections[rdlist[k]] # NoConn
    BY <2>2 DEF IInv, TablesAgree
  <2>4. connections' = connections
    BY <1>1, WaitFacts DEF connVars
  <2>5. Unhandled'[i].fd = rdlist[k] /\ Unhandled'[i].owner = connections[rdlist[k]]
    BY <2>1, <2>2, NoFdFacts DEF ReportOf
  <2> QED  BY <2>3, <2>4, <2>5
<1>2. CASE ~EpollWait
  <2>1. PICK k \in DOMAIN Unhandled : Unhandled'[i] = Unhandled[k]
    BY <1>2, BatchComesFrom
  <2> DEFINE e == Unhandled'[i]
  <2>2. e.owner # NoConn /\ connections[e.fd] = e.owner
    BY <2>1 DEF BatchOwned
  <2>3. ASSUME NEW c \in Clients, NEW f \in Fds, Opens(c, f)
        PROVE  connections'[e.fd] = e.owner
    BY <1>0, <2>2, <2>3 DEF Opens
  <2>4. CASE Closes
    <3>1. fd[conn] # e.fd
      BY <2>1, <2>4 DEF Closes, Excepter, HandlerApart, Handlers
    <3> QED  BY <1>0, <2>2, <2>4, <3>1 DEF Closes
  <2>5. CASE connections' = connections
    BY <2>2, <2>5
  <2> QED  BY <2>2, <2>3, <2>4, <2>5, TableSteps
<1> QED  BY <1>1, <1>2

\* The connection a handler is called for is that of the head of the batch.
LEMMA HandlerApartStep ==
    IInv /\ BatchOnce /\ HandlerApart /\ [Next]_vars => HandlerApart'
<1> SUFFICES ASSUME IInv, BatchOnce, HandlerApart, [Next]_vars,
                    pc' \in Handlers, NEW i \in DOMAIN Unhandled'
             PROVE  Unhandled'[i].fd # fd'[conn']
  BY DEF HandlerApart
<1>0. /\ revs \in Seq(Event) /\ connections \in [Fds -> Clients \cup {NoConn}]
      /\ fd \in [Clients -> Fds \cup {NoFd}]
      /\ pc \in {"Recv", "Service", "Send", "Enable", "Except"} => conn \in Clients
      /\ RevsInv /\ ret \in {"Loop", "LoopOut", "Recv"}
  BY DEF IInv, TypeOK
<1>1. CASE EpollWait
  BY <1>1, WaitFacts DEF Handlers
<1>2. CASE CallRecver \/ CallSender
  <2>1. /\ revs # <<>> /\ Unhandled' = Tail(revs) /\ fd' = fd
        /\ conn' = connections[Head(revs).fd] /\ Head(revs).fd # Listen
        /\ IsConnections(Head(revs).fd)
    BY <1>2, <1>0 DEF CallRecver, CallSender, RevsInv, HeadTaken, Unhandled, Handlers, connVars
  <2>2. Head(revs) \in Event
    BY <1>0, <2>1
  <2>3. Head(revs).fd \in Fds /\ connections[Head(revs).fd] \in Clients
    BY <1>0, <2>1, <2>2 DEF Event, IsConnections
  <2>4. fd'[conn'] = Head(revs).fd
    BY <2>1, <2>3 DEF IInv, TablesAgree
  <2>5. /\ i + 1 \in DOMAIN revs /\ i + 1 # 1 /\ Unhandled'[i] = revs[i + 1]
        /\ 1 \in DOMAIN revs /\ revs[1] = Head(revs)
    BY <1>0, <2>1, TailEntries
  <2> QED  BY <2>4, <2>5 DEF BatchOnce
<1>3. CASE ~EpollWait /\ ~CallRecver /\ ~CallSender
  <2>1. PICK k \in DOMAIN Unhandled : Unhandled'[i] = Unhandled[k]
    BY <1>3, BatchComesFrom
  <2>2. Unhandled[k] \in Event
    BY <1>0 DEF Unhandled
  <2>3. pc \in Handlers /\ conn' = conn
    <3>1. CASE AcceptOne \/ AcceptFails
      BY <3>1 DEF AcceptOne, AcceptFails, AddConnection, Handlers
    <3>2. CASE LoopDone \/ WaitInterrupted \/ CallInterrupted
      BY <3>2 DEF LoopDone, WaitInterrupted, CallInterrupted, Handlers
    <3>3. ASSUME NEW c \in Clients, Client(c)
          PROVE  pc \in Handlers /\ conn' = conn
      BY <3>3, ClientSteps DEF cpuVars
    <3>4. CASE Recver \/ Service
      BY <3>4 DEF Recver, RecvData, RecvNothing, RecvEnds, RecvFreed,
                  Service, ServePackage, ServiceSends, Handlers
    <3>5. CASE Sender \/ Excepter
      BY <3>5 DEF Sender, SendSome, SendFull, SendNothing, SendFails,
                  EnablieReadWrite, Excepter, Handlers
    <3>6. CASE UNCHANGED vars
      BY <3>6 DEF vars, cpuVars
    <3> QED  BY <1>3, <3>1, <3>2, <3>3, <3>4, <3>5, <3>6
             DEF Next, Server, Dispatch, Accepter
  <2>4. Unhandled[k].fd # fd[conn]
    BY <2>3 DEF HandlerApart
  <2>5. conn \in Clients
    BY <1>0, <2>3 DEF Handlers
  <2>6. fd'[conn] \in {fd[conn], NoFd}
    <3>1. ASSUME NEW c \in Clients, NEW f \in Fds, Opens(c, f)  PROVE FALSE
      BY <3>1 DEF Opens, Handlers
    <3>2. CASE Closes
      BY <1>0, <2>5, <3>2 DEF Closes
    <3> QED  BY <3>1, <3>2, TableSteps
  <2>7. Unhandled[k].fd # NoFd
    BY <2>2, NoFdFacts DEF Event
  <2> QED  BY <2>1, <2>3, <2>4, <2>6, <2>7
<1> QED  BY <1>1, <1>2, <1>3

-----------------------------------------------------------------------------
(* Edges.                                                                  *)

\* close takes only its own descriptor off the ready list.
LEMMA CloseKeeps ==
    ASSUME IInv, Closes, NEW g, g # fd[conn], Contains(rdlist, g)
    PROVE  Contains(rdlist', g)
<1>0. rdlist \in Seq(Fds \cup {Listen})
  BY DEF IInv, TypeOK
<1>1. PICK i \in DOMAIN rdlist : rdlist[i] = g
  BY <1>0 DEF Contains
<1>2. CASE rdlist' = rdlist
  BY <1>2
<1>3. ASSUME NEW k \in DOMAIN rdlist, rdlist[k] = fd[conn], rdlist' = RemoveAt(rdlist, k)
      PROVE  Contains(rdlist', g)
  <2>1. /\ DOMAIN rdlist' = 1..(Len(rdlist) - 1)
        /\ \A j \in 1..(Len(rdlist) - 1) :
             rdlist'[j] = IF j < k THEN rdlist[j] ELSE rdlist[j + 1]
        /\ rdlist' \in Seq(Fds \cup {Listen})
    BY <1>0, <1>3, Removed, Parts
  <2>2. i # k /\ DOMAIN rdlist = 1..Len(rdlist) /\ Len(rdlist) \in Nat
    BY <1>0, <1>1, <1>3
  <2>3. \E j \in DOMAIN rdlist' : rdlist'[j] = g
    <3>1. CASE i < k
      BY <3>1, <2>1, <2>2, <1>1
    <3>2. CASE i > k
      <4>1. i - 1 \in 1..(Len(rdlist) - 1) /\ ~(i - 1 < k) /\ (i - 1) + 1 = i
        BY <3>2, <2>2
      <4> QED  BY <4>1, <2>1, <1>1
    <3> QED  BY <2>2, <3>1, <3>2
  <2> QED  BY <2>1, <2>3 DEF Contains
<1> QED  BY <1>2, <1>3 DEF Closes, Excepter

\* Input or an end of file that recv has not returned yet.
Input(c) == rcvbuf[c] # <<>> \/ peer[c] \in {"fin", "rst"}

Announced(c) == Contains(rdlist, fd[c]) \/ Pending(fd[c]) \/ Reading(c)

\* Recver goes on reading c until there is nothing to read, or closes it.
LEMMA ReadingGoesOn ==
    ASSUME IInv, [Next]_vars, NEW c \in Clients, Reading(c), fd[c] # NoFd,
           ~Closes, Input(c)'
    PROVE  Reading(c)'
<1> USE DEF Reading
<1>1. CASE Dispatch \/ Accepter
  BY <1>1 DEF Dispatch, EpollWait, WaitInterrupted, LoopDone, CallRecver, CallSender,
              Accepter, AcceptOne, AcceptFails
<1>2. CASE CallInterrupted
  BY <1>2 DEF CallInterrupted
<1>3. CASE Recver
  BY <1>3 DEF Recver, RecvData, RecvNothing, RecvEnds, RecvFreed, Live, Input, netVars
<1>4. CASE Service
  BY <1>4 DEF Service, ServePackage, ServiceSends
<1>5. CASE SendSome \/ SendFull \/ SendFails
  BY <1>5 DEF SendSome, SendFull, SendFails
<1>6. CASE SendNothing
  BY <1>6 DEF SendNothing
<1>7. CASE EnablieReadWrite
  BY <1>7 DEF EnablieReadWrite
<1>8. CASE Excepter
  BY <1>8, HandlerEntry DEF Closes, Excepter
<1>9. ASSUME NEW d \in Clients, Client(d)  PROVE Reading(c)'
  BY <1>9, ClientSteps DEF cpuVars
<1>10. CASE UNCHANGED vars
  BY <1>10 DEF vars, cpuVars
<1> QED
  BY <1>1, <1>2, <1>3, <1>4, <1>5, <1>6, <1>7, <1>8, <1>9, <1>10
  DEF Next, Server, Sender

\* Only the client gives c input.
LEMMA InputComesFrom ==
    ASSUME IInv, [Next]_vars, NEW c \in Clients, Input(c)', fd[c] # NoFd
    PROVE  \/ Input(c)
           \/ ClientSend(c) \/ ClientClose(c) \/ ClientReset(c)
<1> USE DEF Input
<1>0. /\ rcvbuf \in [Clients -> Seq(Fragment)]
      /\ peer \in [Clients -> {"idle", "up", "fin", "rst", "closed"}]
      /\ pc \in {"Recv", "Service", "Send", "Enable", "Except"} => conn \in Clients
  BY DEF IInv, TypeOK
<1>1. ASSUME NEW d \in Clients, Client(d)
      PROVE  \/ Input(c)
             \/ ClientSend(c) \/ ClientClose(c) \/ ClientReset(c)
  BY <1>0, <1>1 DEF Client, Connect, ClientSend, ClientRecv, ClientClose, ClientReset
<1>2. CASE RecvData \/ Excepter
  BY <1>0, <1>2 DEF RecvData, Excepter
<1>3. CASE Dispatch \/ Accepter \/ CallInterrupted
  BY <1>3 DEF Dispatch, EpollWait, WaitInterrupted, LoopDone, CallRecver, CallSender,
              Accepter, AcceptOne, AcceptFails, CallInterrupted, netVars
<1>4. CASE RecvNothing \/ RecvEnds \/ RecvFreed \/ Service
  BY <1>4 DEF RecvNothing, RecvEnds, RecvFreed, Service, ServePackage, ServiceSends, netVars
<1>5. CASE Sender
  BY <1>5 DEF Sender, SendSome, SendFull, SendNothing, SendFails, EnablieReadWrite, netVars
<1>6. CASE UNCHANGED vars
  BY <1>6 DEF vars, netVars
<1> QED
  BY <1>1, <1>2, <1>3, <1>4, <1>5, <1>6 DEF Next, Server, Recver

\* Input is announced until Recver has it: an event brings the descriptor to the
\* ready list, epoll_wait from there to the batch, CallRecver from there to Recver.
LEMMA NoLostEdgeStep == IInv /\ EdgeInv /\ [Next]_vars => NoLostEdge'
<1> SUFFICES ASSUME IInv, EdgeInv, [Next]_vars,
                    NEW c \in Clients, fd'[c] # NoFd, Input(c)'
             PROVE  Announced(c)'
  BY DEF NoLostEdge, Announced, Input
<1>0. /\ revs \in Seq(Event) /\ rdlist \in Seq(Fds \cup {Listen})
      /\ fd \in [Clients -> Fds \cup {NoFd}]
      /\ interest \in [Fds \cup {Listen} -> SUBSET Events]
      /\ EpollOK
  BY DEF IInv, TypeOK, EpollOK
<1>a. fd[c] # NoFd /\ Input(c) => Announced(c)
  BY DEF EdgeInv, NoLostEdge, Announced, Input
<1>r. fd[c] # NoFd => fd[c] \in Fds /\ connections[fd[c]] = c /\ interest[fd[c]] # {}
                      /\ "IN" \in interest[fd[c]]
  <2>1. fd[c] # NoFd => fd[c] \in Fds
    BY <1>0
  <2>2. fd[c] \in Fds => connections[fd[c]] = c
    BY DEF IInv, TablesAgree
  <2>3. c # NoConn
    BY ReactorAssumption DEF ReactorAssumption
  <2>4. fd[c] \in Fds => interest[fd[c]] # {}
    BY <2>2, <2>3 DEF IInv, TablesAgree
  <2> QED  BY <2>1, <2>2, <2>4 DEF EdgeInv, ListensForInput
<1>1. CASE EpollWait
  <2>1. fd' = fd /\ Input(c) /\ pc = "Wait" /\ fd[c] # NoFd
    BY <1>1, WaitFacts DEF connVars, netVars, Input, EpollWait
  <2>2. Contains(rdlist, fd[c])
    BY <1>a, <2>1 DEF Announced, Reading, Pending, Unhandled, HeadTaken, EdgeInv, BatchOnce
  <2>3. PICK k \in DOMAIN rdlist : rdlist[k] = fd[c]
    BY <1>0, <2>2 DEF Contains
  <2>4. "IN" \in Reported(fd[c], PollFd(fd[c]))
    <3>1. "IN" \in Poll(c)
      BY <2>1 DEF Input, Poll
    <3>2. "IN" \in PollFd(fd[c])
      BY <1>r, <2>1, <3>1, NoFdFacts DEF PollFd
    <3> QED  BY <1>r, <2>1, <3>2 DEF Reported
  <2>5. CASE Contains(rdlist', fd[c])
    BY <2>1, <2>5 DEF Announced
  <2>6. ASSUME NEW i \in DOMAIN revs', revs'[i] = ReportOf(fd[c])
        PROVE  Pending(fd[c])'
    <3>1. Unhandled' = revs'
      BY <1>1, WaitFacts DEF Unhandled, HeadTaken
    <3>2. revs'[i].fd = fd[c] /\ Readable(revs'[i])
      BY <2>4, <2>6 DEF ReportOf, Readable
    <3> QED  BY <2>1, <3>1, <3>2 DEF Pending, Readable
  <2> QED  BY <1>1, <2>1, <2>3, <2>4, <2>5, <2>6, WaitFacts DEF Announced
<1>2. CASE CallRecver
  <2>1. /\ fd' = fd /\ rdlist' = rdlist /\ connections' = connections
        /\ Input(c) /\ fd[c] # NoFd /\ pc = "Loop" /\ revs # <<>>
        /\ Unhandled = revs /\ Unhandled' = Tail(revs)
    BY <1>2, BatchSteps DEF CallRecver, connVars, netVars, epVars, Input, EpollWait
  <2>2. CASE Contains(rdlist, fd[c])
    BY <2>1, <2>2 DEF Announced
  <2>3. ASSUME NEW i \in DOMAIN revs, revs[i].fd = fd[c], Readable(revs[i])
        PROVE  Announced(c)'
    <3>1. CASE i = 1
      <4>1. Head(revs) = revs[i]
        BY <1>0, <2>1, <3>1, TailEntries
      <4>2. IsConnections(fd[c]) /\ fd[c] # Listen /\ connections[fd[c]] = c
        BY <1>r, <2>1, NoFdFacts, ReactorAssumption DEF IsConnections, ReactorAssumption
      <4>3. pc' = "Recv" /\ conn' = c
        BY <1>2, <2>3, <4>1, <4>2 DEF CallRecver
      <4> QED  BY <4>3 DEF Announced, Reading
    <3>2. CASE i # 1
      <4>1. i - 1 \in DOMAIN Tail(revs) /\ Tail(revs)[i - 1] = revs[i]
        BY <1>0, <2>1, <3>2, TailEntries
      <4> QED  BY <2>1, <2>3, <4>1 DEF Announced, Pending, Readable
    <3> QED  BY <3>1, <3>2
  <2> QED  BY <1>a, <2>1, <2>2, <2>3 DEF Announced, Pending, Reading
<1>3. ASSUME NEW d \in Clients, NEW f \in Fds, Opens(d, f)  PROVE Announced(c)'
  <2>1. /\ Input(c) /\ ~EpollWait /\ ~CallRecver
        /\ fd' = [fd EXCEPT ![d] = f] /\ pc = "Accept"
        /\ \/ rdlist' = Append(rdlist, f)
           \/ rdlist' = rdlist /\ Poll(d) \cap {"IN", "ET", "ERR", "HUP"} = {}
    BY <1>3 DEF Opens, AcceptOne, Input, EpollWait, CallRecver
  <2>2. CASE c = d
    <3>1. "IN" \in Poll(c)
      BY <2>1 DEF Input, Poll
    <3>2. rdlist' = Append(rdlist, f) /\ fd'[c] = f
      BY <1>0, <2>1, <2>2, <3>1
    <3>3. Len(rdlist') = Len(rdlist) + 1 /\ rdlist'[Len(rdlist) + 1] = f /\ Len(rdlist) \in Nat
      BY <1>0, <3>2
    <3>4. Contains(rdlist', fd'[c])
      BY <3>2, <3>3 DEF Contains
    <3> QED  BY <3>4 DEF Announced
  <2>3. CASE c # d
    <3>1. fd'[c] = fd[c] /\ Unhandled' = Unhandled
      BY <1>0, <2>1, <2>3, BatchSteps
    <3>2. CASE Contains(rdlist, fd[c])
      BY <1>0, <2>1, <3>1, <3>2 DEF Announced, Contains
    <3>3. CASE Pending(fd[c])
      BY <3>1, <3>3 DEF Announced, Pending, Readable
    <3>4. ~Reading(c)
      BY <2>1 DEF Reading
    <3> QED  BY <1>a, <2>1, <3>1, <3>2, <3>3, <3>4 DEF Announced
  <2> QED  BY <2>2, <2>3
<1>4. CASE Closes
  <2>1. /\ c # conn /\ fd'[c] = fd[c] /\ fd[conn] # fd[c] /\ fd[c] # NoFd
    BY <1>0, <1>4, <1>r DEF Closes
  <2>2. Input(c)
    BY <1>4, <2>1, InputComesFrom DEF Closes, Excepter, ClientSend, ClientClose, ClientReset,
       cpuVars, Input, IInv, TypeOK
  <2>3. Unhandled' = Unhandled
    BY <1>4, BatchSteps DEF Closes, Excepter, EpollWait, CallRecver
  <2>4. CASE Contains(rdlist, fd[c])
    <3>1. Contains(rdlist', fd[c])
      BY <1>4, <2>1, <2>4, CloseKeeps
    <3> QED  BY <2>1, <3>1 DEF Announced
  <2>5. CASE Pending(fd[c])
    BY <2>1, <2>3, <2>5 DEF Announced, Pending, Readable
  <2>6. ~Reading(c)
    BY <2>1 DEF Reading
  <2> QED  BY <1>a, <2>1, <2>2, <2>4, <2>5, <2>6 DEF Announced
<1>5. CASE /\ ~EpollWait /\ ~CallRecver /\ ~Closes /\ UNCHANGED <<fd, interest>>
  <2>1. fd'[c] = fd[c] /\ fd[c] # NoFd /\ Unhandled' = Unhandled /\ fd[c] \in Fds
    BY <1>5, <1>r, BatchSteps
  <2>2. CASE Input(c)
    <3>1. CASE Contains(rdlist, fd[c])
      <4>1. ASSUME NEW d \in Clients, Client(d)  PROVE Contains(rdlist', fd[c])
        BY <1>0, <3>1, <4>1, ClientSteps, WokenKeeps
      <4>2. ASSUME rdlist' = rdlist  PROVE Contains(rdlist', fd[c])
        BY <3>1, <4>2
      <4>3. ASSUME NEW d \in Clients, NEW f \in Fds, Opens(d, f)  PROVE FALSE
        BY <1>0, <1>5, <4>3, NoFdFacts DEF Opens
      <4>4. Contains(rdlist', fd[c])
        BY <1>5, <4>1, <4>2, <4>3, ReadySteps
      <4> QED  BY <2>1, <4>4 DEF Announced
    <3>2. CASE Pending(fd[c])
      BY <2>1, <3>2 DEF Announced, Pending, Readable
    <3>3. CASE Reading(c)
      BY <1>5, <2>1, <3>3, ReadingGoesOn DEF Announced
    <3> QED  BY <1>a, <2>1, <2>2, <3>1, <3>2, <3>3 DEF Announced
  <2>3. CASE ~Input(c)
    <3>1. \E events : "IN" \in events /\ rdlist' = Woken(fd[c], events)
      <4>1. ClientSend(c) \/ ClientClose(c) \/ ClientReset(c)
        BY <2>1, <2>3, InputComesFrom
      <4> QED  BY <4>1 DEF ClientSend, ClientClose, ClientReset
    <3>2. PICK events : "IN" \in events /\ rdlist' = Woken(fd[c], events)
      BY <3>1
    <3>3. Reported(fd[c], events) # {}
      BY <1>r, <2>1, <3>2 DEF Reported
    <3>4. Contains(rdlist', fd[c])
      BY <1>0, <1>r, <2>1, <3>2, <3>3, WokenQueues
    <3> QED  BY <2>1, <3>4 DEF Announced
  <2> QED  BY <2>2, <2>3
<1> QED
  BY <1>1, <1>2, <1>3, <1>4, <1>5, TableSteps

-----------------------------------------------------------------------------
\* The invariant of the edges holds at the start.
LEMMA InitEdges == Init => EdgeInv
<1> SUFFICES ASSUME Init  PROVE EdgeInv
  OBVIOUS
<1> USE DEF Init
<1>1. ListensForInput
  BY DEF ListensForInput
<1>3. ReadyOnce /\ BatchOnce
  BY DEF ReadyOnce, BatchOnce
<1>2. BatchOwned /\ HandlerApart /\ NoLostEdge
  BY DEF BatchOwned, HandlerApart, Handlers, NoLostEdge, Unhandled, HeadTaken
<1> QED  BY <1>1, <1>2, <1>3 DEF EdgeInv

\* The ready list and the batch, with the tables, are inductive.
THEOREM EdgesInvariance == Spec => []EdgeInv
<1>1. IInv /\ EdgeInv /\ [Next]_vars => EdgeInv'
  BY ListensStep, ReadyStep, BatchOnceStep, BatchOwnedStep, HandlerApartStep,
     NoLostEdgeStep DEF EdgeInv
<1> QED  BY InitEdges, Invariance, <1>1, PTL DEF Spec

\* Edge triggering loses no input, for any number of clients, any batch size and
\* any fragments: what recv has not returned is in the ready list, in the rest of
\* the batch or in the hands of Recver (TcpServer.hpp:70-94).
THEOREM EdgesAreKept == Spec => []NoLostEdge
BY EdgesInvariance, PTL DEF EdgeInv

\* An event of the batch names the connection it was reported for until it is
\* handled, whatever is closed and accepted before (TcpServer.hpp:239-254).
THEOREM BatchStaysCurrent == Spec => []BatchIsCurrent
<1>1. EdgeInv => BatchIsCurrent
  BY DEF EdgeInv, BatchOwned, BatchIsCurrent
<1> QED  BY EdgesInvariance, <1>1, PTL

-----------------------------------------------------------------------------
(* The accept queue.                                                       *)

\* accept never runs out of descriptors.
EnoughDescriptors ==
    /\ IsFiniteSet(Clients) /\ IsFiniteSet(Fds)
    /\ Cardinality(Clients) <= Cardinality(Fds)

\* Then one is free for a connection that has none: connections_ maps the
\* descriptors in use to the other clients, one to one.
LEMMA OneIsFree ==
    ASSUME IInv, EnoughDescriptors, NEW c \in Clients, fd[c] = NoFd
    PROVE  FreeFds # {}
<1> SUFFICES ASSUME FreeFds = {}  PROVE FALSE
  OBVIOUS
<1> DEFINE T == Clients \ {c}
<1>1. \A f \in Fds : \E d \in Clients : fd[d] = f
  BY DEF FreeFds
<1>2. \A f \in Fds : connections[f] \in Clients /\ fd[connections[f]] = f
  BY <1>1 DEF IInv, TablesAgree
<1>3. connections \in [Fds -> T]
  <2>1. \A f \in Fds : connections[f] # c
    BY <1>2, NoFdFacts
  <2> QED  BY <1>2, <2>1 DEF IInv, TypeOK
<1>4. connections \in Injection(Fds, T)
  BY <1>2, <1>3 DEF Injection, IsInjective
<1>5. IsFiniteSet(T) /\ Cardinality(T) = Cardinality(Clients) - 1
  BY FS_RemoveElement DEF EnoughDescriptors
<1>6. Cardinality(Fds) <= Cardinality(T)
  BY <1>4, <1>5, FS_Injection
<1>7. Cardinality(Clients) \in Nat /\ Cardinality(Fds) \in Nat
  BY FS_CardinalityType DEF EnoughDescriptors
<1> QED  BY <1>5, <1>6, <1>7 DEF EnoughDescriptors

\* The listening descriptor is announced until Accepter is called, which goes on
\* until the queue is empty.
LEMMA PendingStep ==
    ASSUME EnoughDescriptors, IInv, EdgeInv, PendingConnectionsWake, [Next]_vars
    PROVE  PendingConnectionsWake'
<1> SUFFICES ASSUME backlog' # <<>>
             PROVE  \/ Contains(rdlist', Listen) \/ Pending(Listen)' \/ pc' = "Accept"
  BY DEF PendingConnectionsWake
<1> DEFINE Wakes == Contains(rdlist', Listen) \/ Pending(Listen)' \/ pc' = "Accept"
<1>0. /\ revs \in Seq(Event) /\ rdlist \in Seq(Fds \cup {Listen}) /\ EpollOK
      /\ backlog \in Seq(Clients)
  BY DEF IInv, TypeOK, EpollOK
<1>a. backlog # <<>> => Contains(rdlist, Listen) \/ Pending(Listen) \/ pc = "Accept"
  BY DEF PendingConnectionsWake
<1>l. Listen \in Fds \cup {Listen} /\ interest[Listen] # {} /\ "IN" \in interest[Listen]
  BY DEF EdgeInv, ListensForInput
<1>1. CASE EpollWait
  <2>1. backlog' = backlog /\ pc = "Wait"
    BY <1>1, WaitFacts DEF netVars, EpollWait
  <2>2. Contains(rdlist, Listen)
    BY <1>a, <2>1 DEF Pending, Unhandled, HeadTaken, EdgeInv, BatchOnce
  <2>3. PICK k \in DOMAIN rdlist : rdlist[k] = Listen
    BY <1>0, <2>2 DEF Contains
  <2>4. "IN" \in Reported(Listen, PollFd(Listen))
    BY <1>l, <2>1 DEF Reported, PollFd
  <2>5. ASSUME NEW i \in DOMAIN revs', revs'[i] = ReportOf(Listen)
        PROVE  Pending(Listen)'
    <3>1. Unhandled' = revs'
      BY <1>1, WaitFacts DEF Unhandled, HeadTaken
    <3>2. revs'[i].fd = Listen /\ Readable(revs'[i])
      BY <2>4, <2>5 DEF ReportOf, Readable
    <3> QED  BY <3>1, <3>2 DEF Pending, Readable
  <2> QED  BY <1>1, <2>3, <2>4, <2>5, WaitFacts
<1>2. CASE CallRecver
  <2>1. /\ rdlist' = rdlist /\ backlog' = backlog /\ pc = "Loop" /\ revs # <<>>
        /\ Unhandled = revs /\ Unhandled' = Tail(revs)
    BY <1>2, BatchSteps DEF CallRecver, netVars, epVars, EpollWait
  <2>2. ASSUME NEW i \in DOMAIN revs, revs[i].fd = Listen, Readable(revs[i])
        PROVE  Wakes
    <3>1. CASE i = 1
      <4>1. Head(revs) = revs[i]
        BY <1>0, <2>1, <3>1, TailEntries
      <4> QED  BY <1>2, <2>2, <4>1 DEF CallRecver, IsConnections
    <3>2. CASE i # 1
      <4>1. i - 1 \in DOMAIN Tail(revs) /\ Tail(revs)[i - 1] = revs[i]
        BY <1>0, <2>1, <3>2, TailEntries
      <4> QED  BY <2>1, <2>2, <4>1 DEF Pending, Readable
    <3> QED  BY <3>1, <3>2
  <2> QED  BY <1>a, <2>1, <2>2 DEF Pending
<1>3. ASSUME NEW c \in Clients, NEW f \in Fds, Opens(c, f)  PROVE Wakes
  BY <1>3 DEF Opens
<1>4. CASE AcceptFails
  <2>1. backlog # <<>> /\ FreeFds = {}
    BY <1>4 DEF AcceptFails, netVars
  <2>2. Head(backlog) \in Clients /\ fd[Head(backlog)] = NoFd
    BY <1>0, <2>1 DEF IInv, BacklogInv
  <2> QED  BY <2>1, <2>2, OneIsFree
<1>5. CASE Closes
  <2>1. backlog' = backlog /\ pc = "Except" /\ fd[conn] # Listen
    BY <1>5, NoFdFacts DEF Closes, Excepter
  <2>2. Unhandled' = Unhandled
    BY <1>5, BatchSteps DEF Closes, Excepter, EpollWait, CallRecver
  <2>3. Contains(rdlist, Listen) => Contains(rdlist', Listen)
    BY <1>5, <2>1, CloseKeeps
  <2> QED  BY <1>a, <2>1, <2>2, <2>3 DEF Pending, Readable
<1>6. ASSUME NEW c \in Clients, Client(c)  PROVE Wakes
  <2>1. CASE Connect(c)
    <3>1. rdlist' = Woken(Listen, {"IN"}) /\ Reported(Listen, {"IN"}) # {}
      BY <1>l, <2>1 DEF Connect, Reported
    <3> QED  BY <1>0, <1>l, <3>1, WokenQueues
  <2>2. CASE ~Connect(c)
    <3>1. backlog' = backlog /\ pc' = pc
      BY <1>6, <2>2 DEF Client, ClientSend, ClientRecv, ClientClose, ClientReset, cpuVars
    <3>2. Unhandled' = Unhandled
      BY <1>6, ClientSteps DEF Unhandled, HeadTaken, cpuVars
    <3>3. Contains(rdlist, Listen) => Contains(rdlist', Listen)
      BY <1>0, <1>6, ClientSteps, WokenKeeps
    <3> QED  BY <1>a, <3>1, <3>2, <3>3 DEF Pending, Readable
  <2> QED  BY <2>1, <2>2
<1>7. CASE /\ ~EpollWait /\ ~CallRecver /\ ~AcceptFails /\ ~Closes
           /\ ~\E c \in Clients : Client(c)
           /\ ~\E c \in Clients, f \in Fds : Opens(c, f)
  <2>1. rdlist' = rdlist /\ Unhandled' = Unhandled
    BY <1>7, ReadySteps, BatchSteps
  <2>2. backlog' = backlog /\ (pc = "Accept" => pc' = "Accept")
    <3>1. ~AcceptOne /\ ~Excepter
      BY <1>7, AcceptOpens, HandlerEntry DEF Closes, Excepter
    <3>2. CASE Dispatch \/ CallInterrupted
      BY <1>7, <3>2 DEF Dispatch, WaitInterrupted, LoopDone, CallSender, CallInterrupted, netVars
    <3>3. CASE Recver \/ Service
      BY <3>3 DEF Recver, RecvData, RecvNothing, RecvEnds, RecvFreed,
                  Service, ServePackage, ServiceSends, netVars
    <3>4. CASE Sender
      BY <3>4 DEF Sender, SendSome, SendFull, SendNothing, SendFails,
                  EnablieReadWrite, netVars
    <3>5. CASE UNCHANGED vars
      BY <3>5 DEF vars, netVars, cpuVars
    <3> QED  BY <1>7, <3>1, <3>2, <3>3, <3>4, <3>5 DEF Next, Server, Accepter
  <2> QED  BY <1>a, <2>1, <2>2 DEF Pending, Readable
<1> QED  BY <1>1, <1>2, <1>3, <1>4, <1>5, <1>6, <1>7

\* With a descriptor for every client, a connection that waits for accept is
\* always announced, for any number of clients and any batch size
\* (TcpServer.hpp:171); without, TLC finds the one that is forgotten.
THEOREM AcceptIsAnnounced ==
    ASSUME EnoughDescriptors  PROVE Spec => []PendingConnectionsWake
<1>1. Init => PendingConnectionsWake
  BY DEF Init, PendingConnectionsWake
<1>2. IInv /\ EdgeInv /\ PendingConnectionsWake /\ [Next]_vars => PendingConnectionsWake'
  BY PendingStep
<1> QED  BY <1>1, <1>2, Invariance, EdgesInvariance, PTL DEF Spec
=============================================================================
