------------------------ MODULE ReactorStreamProofs ------------------------
(***************************************************************************)
(* Proofs about what the connections of Reactor carry: requests in,        *)
(* replies out, and the service the clients see.                           *)
(***************************************************************************)
EXTENDS ReactorProofs, SequenceTheorems

-----------------------------------------------------------------------------
(* The script: which fragments complete which requests.                    *)

\* The script is a sequence of fragments.
LEMMA ScriptFacts ==
    /\ Script \in Seq(Fragment) /\ Len(Script) \in Nat
    /\ DOMAIN Script = 1..Len(Script)
    /\ \A i \in 1..Len(Script) : Script[i].req \in Nat \ {0} /\ Script[i].last \in BOOLEAN
<1>1. Script \in Seq(Fragment)
  BY ReactorAssumption DEF ReactorAssumption
<1>2. \A i \in 1..Len(Script) : Script[i] \in Fragment
  BY <1>1
<1> QED  BY <1>1, <1>2 DEF Fragment

\* The fragments that end a request, among the first n.
Ends(n) == {i \in 1..n : Script[i].last}

\* There are finitely many of them.
LEMMA EndsFinite ==
    ASSUME NEW n \in Nat
    PROVE  IsFiniteSet(Ends(n)) /\ Completed(n) = Cardinality(Ends(n)) /\ Completed(n) \in Nat
<1>1. IsFiniteSet(1..n) /\ Ends(n) \subseteq 1..n
  BY FS_Interval DEF Ends
<1>2. IsFiniteSet(Ends(n))
  BY <1>1, FS_Subset
<1> QED  BY <1>2, FS_CardinalityType DEF Completed, Ends

\* The next fragment completes one request more, or none.
LEMMA CompletedNext ==
    ASSUME NEW n \in Nat
    PROVE  /\ Completed(0) = 0
           /\ Script[n + 1].last => Completed(n + 1) = Completed(n) + 1
           /\ ~Script[n + 1].last => Completed(n + 1) = Completed(n)
<1>1. IsFiniteSet(Ends(n)) /\ n + 1 \in Nat
  BY EndsFinite
<1>2. Completed(0) = 0
  <2>1. Ends(0) = {}
    BY DEF Ends
  <2> QED  BY <2>1, EndsFinite, FS_EmptySet
<1>3. ASSUME Script[n + 1].last  PROVE Completed(n + 1) = Completed(n) + 1
  <2>1. Ends(n + 1) = Ends(n) \cup {n + 1} /\ n + 1 \notin Ends(n)
    BY <1>3 DEF Ends
  <2> QED  BY <1>1, <2>1, EndsFinite, FS_AddElement
<1>4. ASSUME ~Script[n + 1].last  PROVE Completed(n + 1) = Completed(n)
  <2>1. Ends(n + 1) = Ends(n)
    BY <1>4 DEF Ends
  <2> QED  BY <1>1, <2>1, EndsFinite
<1> QED  BY <1>2, <1>3, <1>4

\* More fragments complete no fewer requests; as many, if none ends one; and
\* more, if the last ends one.
LEMMA CompletedGrows ==
    ASSUME NEW m \in Nat, NEW n \in Nat, m <= n
    PROVE  /\ Completed(m) <= Completed(n)
           /\ (\A i \in (m + 1)..n : ~Script[i].last) => Completed(m) = Completed(n)
           /\ m < n /\ Script[n].last => Completed(m) < Completed(n)
<1>1. \A k \in Nat : m <= k => Completed(m) <= Completed(k)
  <2> TAKE k \in Nat
  <2> HAVE m <= k
  <2>1. Ends(m) \subseteq Ends(k)
    BY DEF Ends
  <2> QED  BY <2>1, EndsFinite, FS_Subset
<1>2. ASSUME \A i \in (m + 1)..n : ~Script[i].last  PROVE Completed(m) = Completed(n)
  <2>1. Ends(m) = Ends(n)
    BY <1>2 DEF Ends
  <2> QED  BY <2>1, EndsFinite
<1>3. ASSUME m < n, Script[n].last  PROVE Completed(m) < Completed(n)
  <2>1. n - 1 \in Nat /\ m <= n - 1 /\ (n - 1) + 1 = n
    BY <1>3
  <2>2. Completed(n) = Completed(n - 1) + 1
    BY <1>3, <2>1, CompletedNext
  <2> QED  BY <1>1, <2>1, <2>2, EndsFinite
<1> QED  BY <1>1, <1>2, <1>3

\* When t fragments end with the last of request p, they are the ones of the
\* first p requests.
LEMMA FragmentsOfRequests ==
    ASSUME NEW t \in 0..Len(Script), t > 0 => Script[t].last
    PROVE  FragmentsTaken(Completed(t)) = t
<1>1. ASSUME NEW i \in 1..Len(Script)  PROVE Script[i].req <= Completed(t) <=> i <= t
  <2>1. i - 1 \in Nat /\ Script[i].req = Completed(i - 1) + 1
    BY ScriptFacts, ScriptAssumption DEF ScriptAssumption
  <2>2. Completed(i - 1) \in Nat /\ Completed(t) \in Nat
    BY <2>1, ScriptFacts, EndsFinite
  <2>3. CASE i <= t
    <3>1. Completed(i - 1) < Completed(t)
      BY <2>1, <2>3, ScriptFacts, CompletedGrows
    <3> QED  BY <2>1, <2>2, <2>3, <3>1
  <2>4. CASE ~(i <= t)
    <3>1. Completed(t) <= Completed(i - 1)
      BY <2>1, <2>4, ScriptFacts, CompletedGrows
    <3> QED  BY <2>1, <2>2, <2>4, <3>1
  <2> QED  BY <2>3, <2>4
<1>2. {i \in DOMAIN Script : Script[i].req <= Completed(t)} = 1..t
  BY <1>1, ScriptFacts
<1>3. Cardinality(1..t) = t
  BY FS_Interval, ScriptFacts
<1> QED  BY <1>2, <1>3 DEF FragmentsTaken

-----------------------------------------------------------------------------
(* Replies.                                                                *)

\* No reply is the answer to no request.
LEMMA NoAnswers == Answers(<<>>, 0)
BY DEF Answers, Range

\* One more request adds its number at the end, unless it is refused.
LEMMA AnswersGrow ==
    ASSUME NEW s \in Seq(Nat), NEW n \in Nat, Answers(s, n)
    PROVE  Answers(IF n + 1 \in Malformed THEN s ELSE Append(s, n + 1), n + 1)
<1>0. DOMAIN s = 1..Len(s) /\ Len(s) \in Nat /\ \A i \in 1..Len(s) : s[i] \in 1..n
  BY DEF Answers, Range
<1>1. CASE n + 1 \in Malformed
  BY <1>1 DEF Answers
<1>2. CASE n + 1 \notin Malformed
  <2> DEFINE u == Append(s, n + 1)
  <2>1. /\ DOMAIN u = 1..(Len(s) + 1) /\ u[Len(s) + 1] = n + 1
        /\ \A i \in 1..Len(s) : u[i] = s[i]
    BY <1>0
  <2> HIDE DEF u
  <2>2. Range(u) = Range(s) \cup {n + 1}
    <3>1. \A x \in Range(u) : x \in Range(s) \cup {n + 1}
      BY <1>0, <2>1 DEF Range
    <3>2. \A x \in Range(s) : x \in Range(u)
      BY <1>0, <2>1 DEF Range
    <3>3. n + 1 \in Range(u)
      BY <1>0, <2>1 DEF Range
    <3> QED  BY <3>1, <3>2, <3>3
  <2>3. Range(u) = (1..(n + 1)) \ Malformed
    BY <1>2, <2>2 DEF Answers
  <2>4. \A i, j \in DOMAIN u : i < j => u[i] < u[j]
    <3> SUFFICES ASSUME NEW i \in 1..(Len(s) + 1), NEW j \in 1..(Len(s) + 1), i < j
                 PROVE  u[i] < u[j]
      BY <2>1
    <3>1. i \in 1..Len(s) /\ u[i] = s[i] /\ s[i] \in 1..n
      BY <1>0, <2>1
    <3>2. CASE j \in 1..Len(s)
      BY <1>0, <2>1, <3>1, <3>2 DEF Answers
    <3>3. CASE j = Len(s) + 1
      BY <2>1, <3>1, <3>3
    <3> QED  BY <3>2, <3>3
  <2> QED  BY <1>2, <2>3, <2>4 DEF Answers, u
<1> QED  BY <1>1, <1>2

\* The first of the answers to n requests are the answers to fewer.
LEMMA AnswersPrefix ==
    ASSUME NEW u \in Seq(Nat), NEW v \in Seq(Nat), NEW n \in Nat, Answers(u \o v, n)
    PROVE  \E m \in 0..n : Answers(u, m)
<1> DEFINE s == u \o v
<1>1. /\ s \in Seq(Nat) /\ Len(s) = Len(u) + Len(v) /\ DOMAIN s = 1..Len(s)
      /\ \A i \in 1..Len(u) : s[i] = u[i]
      /\ Len(u) \in Nat /\ Len(v) \in Nat /\ DOMAIN u = 1..Len(u)
  BY ConcatProperties, LenProperties
<1>a. Range(s) = (1..n) \ Malformed /\ \A i, j \in DOMAIN s : i < j => s[i] < s[j]
  BY DEF Answers
<1> HIDE DEF s
<1>2. CASE u = <<>>
  BY <1>2, NoAnswers
<1>3. CASE u # <<>>
  <2> DEFINE l == Len(u)
             m == u[l]
  <2>0. Len(u) > 0
    BY <1>3, EmptySeq
  <2>1. l \in Nat /\ l \in 1..Len(u) /\ l \in DOMAIN s /\ s[l] = m
    BY <1>1, <2>0
  <2>2. m \in 1..n /\ m \notin Malformed
    BY <1>a, <2>1 DEF Range
  <2> HIDE DEF m
  <2>3. ASSUME NEW i \in 1..l  PROVE u[i] \in (1..m) \ Malformed
    <3>1. i \in DOMAIN s /\ s[i] = u[i]
      BY <1>1
    <3>2. u[i] \in (1..n) \ Malformed
      BY <1>a, <3>1 DEF Range
    <3>3. u[i] <= m
      <4>1. CASE i = l
        BY <4>1, <2>2 DEF m
      <4>2. CASE i < l
        BY <1>a, <2>1, <2>2, <3>1, <3>2, <4>2
      <4> QED  BY <2>1, <4>1, <4>2
    <3> QED  BY <2>2, <3>2, <3>3
  <2>4. ASSUME NEW x \in (1..m) \ Malformed  PROVE \E i \in 1..l : u[i] = x
    <3>1. x \in (1..n) \ Malformed
      BY <2>2
    <3>2. PICK i \in DOMAIN s : s[i] = x
      BY <1>a, <3>1 DEF Range
    <3>3. ~(l < i)
      BY <1>a, <2>1, <2>2, <3>2
    <3>4. i \in 1..l
      BY <1>1, <2>1, <3>3
    <3> QED  BY <1>1, <3>2, <3>4
  <2>5. Range(u) = (1..m) \ Malformed
    BY <1>1, <2>3, <2>4 DEF Range
  <2>6. \A i, j \in DOMAIN u : i < j => u[i] < u[j]
    BY <1>1, <1>a
  <2> QED  BY <2>2, <2>5, <2>6 DEF Answers
<1> QED  BY <1>2, <1>3

-----------------------------------------------------------------------------
(* What a step does to the bytes of one connection.                        *)

Stream(c) == <<peer[c], sent[c], got[c], rcvbuf[c], sndbuf[c], fd[c],
               inbuf[c], outbuf[c], parsed[c]>>

\* Only the client, accept and the handler that works for c touch them.
LEMMA StreamSteps ==
    ASSUME IInv, [Next]_vars, NEW c \in Clients
    PROVE  \/ Client(c)
           \/ \E f \in Fds : Opens(c, f)
           \/ conn = c /\ (RecvData \/ ServePackage \/ SendSome \/ Closes)
           \/ UNCHANGED Stream(c)
<1> DEFINE P == \/ Client(c)
                \/ \E f \in Fds : Opens(c, f)
                \/ conn = c /\ (RecvData \/ ServePackage \/ SendSome \/ Closes)
                \/ UNCHANGED Stream(c)
<1> USE DEF Stream
<1>0. /\ peer \in [Clients -> {"idle", "up", "fin", "rst", "closed"}]
      /\ sent \in [Clients -> 0..Len(Script)] /\ got \in [Clients -> Seq(Nat)]
      /\ rcvbuf \in [Clients -> Seq(Fragment)] /\ sndbuf \in [Clients -> Seq(Nat)]
      /\ fd \in [Clients -> Fds \cup {NoFd}] /\ inbuf \in [Clients -> Seq(Fragment)]
      /\ outbuf \in [Clients -> Seq(Nat)] /\ parsed \in [Clients -> Nat]
      /\ pc \in {"Recv", "Service", "Send", "Enable", "Except"} => conn \in Clients
  BY DEF IInv, TypeOK
<1>1. ASSUME NEW d \in Clients, Client(d), d # c  PROVE P
  BY <1>0, <1>1 DEF Client, Connect, ClientSend, ClientRecv, ClientClose, ClientReset, connVars
<1>2. CASE AcceptOne
  <2>1. PICK d \in Clients, f \in Fds : Opens(d, f)
    BY <1>2, AcceptOpens
  <2>2. CASE d # c
    BY <1>0, <2>1, <2>2 DEF Opens, AcceptOne, AddConnection
  <2> QED  BY <2>1, <2>2
<1>3. CASE RecvData
  BY <1>0, <1>3 DEF RecvData
<1>4. CASE ServePackage
  BY <1>0, <1>4 DEF ServePackage, netVars
<1>5. CASE SendSome
  BY <1>0, <1>5 DEF SendSome
<1>6. CASE Excepter
  <2>1. Closes
    BY <1>6, HandlerEntry DEF Closes, Excepter
  <2>2. CASE conn # c
    BY <1>0, <1>6, <2>2 DEF Excepter
  <2> QED  BY <2>1, <2>2
<1>7. CASE Dispatch \/ AcceptFails \/ CallInterrupted
  BY <1>7 DEF Dispatch, EpollWait, WaitInterrupted, LoopDone, CallRecver, CallSender,
              AcceptFails, CallInterrupted, netVars, connVars
<1>8. CASE RecvNothing \/ RecvEnds \/ RecvFreed \/ ServiceSends
  BY <1>8 DEF RecvNothing, RecvEnds, RecvFreed, ServiceSends, netVars, connVars
<1>9. CASE SendFull \/ SendNothing \/ SendFails \/ EnablieReadWrite
  BY <1>9 DEF SendFull, SendNothing, SendFails, EnablieReadWrite, netVars, connVars
<1>10. CASE UNCHANGED vars
  BY <1>10 DEF vars, netVars, connVars
<1> QED
  BY <1>1, <1>2, <1>3, <1>4, <1>5, <1>6, <1>7, <1>8, <1>9, <1>10
  DEF Next, Server, Accepter, Recver, Service, Sender

-----------------------------------------------------------------------------
(* Requests in.                                                            *)

\* The packages parsed are the requests of the first t fragments, and the
\* buffers hold the fragments after those.
Consumed(c) ==
    \E t \in 0..sent[c] :
        /\ inbuf[c] \o rcvbuf[c] = SubSeq(Script, t + 1, sent[c])
        /\ parsed[c] = Completed(t)
        /\ t > 0 => Script[t].last

\* A connection nobody has accepted has sent at most what the socket holds; one
\* that is closed has no descriptor, and its buffers are gone.
Begins(c) ==
    /\ peer[c] = "idle" => sent[c] = 0
    /\ peer[c] = "closed" => fd[c] = NoFd
    /\ fd[c] = NoFd => inbuf[c] = <<>> /\ outbuf[c] = <<>>
    /\ fd[c] = NoFd /\ peer[c] # "closed" =>
         parsed[c] = 0 /\ sndbuf[c] = <<>> /\ got[c] = <<>>

WaitingAreOpen == \A i \in DOMAIN backlog : peer[backlog[i]] # "closed"

InputInv ==
    /\ WaitingAreOpen
    /\ \A c \in Clients :
         /\ Begins(c)
         /\ parsed[c] <= Completed(sent[c])
         /\ peer[c] # "closed" => Consumed(c)

\* What closes is open, so it does not wait for accept.
LEMMA WaitingStep == IInv /\ WaitingAreOpen /\ [Next]_vars => WaitingAreOpen'
<1> SUFFICES ASSUME IInv, WaitingAreOpen, [Next]_vars  PROVE WaitingAreOpen'
  OBVIOUS
<1> USE DEF WaitingAreOpen
<1>0. /\ backlog \in Seq(Clients)
      /\ peer \in [Clients -> {"idle", "up", "fin", "rst", "closed"}]
      /\ \A i \in DOMAIN backlog : backlog[i] \in Clients /\ fd[backlog[i]] = NoFd
  BY DEF IInv, TypeOK, BacklogInv
<1>1. ASSUME NEW c \in Clients, Client(c)  PROVE WaitingAreOpen'
  BY <1>0, <1>1 DEF Client, Connect, ClientSend, ClientRecv, ClientClose, ClientReset
<1>2. CASE AcceptOne
  <2>1. backlog # <<>> /\ backlog' = Tail(backlog) /\ peer' = peer
    BY <1>2 DEF AcceptOne
  <2> QED  BY <1>0, <2>1, TailEntries
<1>3. CASE Excepter
  <2>1. conn \in Clients /\ fd[conn] \in Fds /\ backlog' = backlog
        /\ peer' = [peer EXCEPT ![conn] = "closed"]
    BY <1>3, HandlerEntry DEF Excepter
  <2>2. \A i \in DOMAIN backlog : backlog[i] # conn
    BY <1>0, <2>1, NoFdFacts
  <2> QED  BY <1>0, <2>1, <2>2
<1>4. CASE Dispatch \/ AcceptFails \/ CallInterrupted
  BY <1>4 DEF Dispatch, EpollWait, WaitInterrupted, LoopDone, CallRecver, CallSender,
              AcceptFails, CallInterrupted, netVars
<1>5. CASE Recver \/ Service
  BY <1>5 DEF Recver, RecvData, RecvNothing, RecvEnds, RecvFreed, Service,
              ServePackage, ServiceSends, netVars
<1>6. CASE Sender
  BY <1>6 DEF Sender, SendSome, SendFull, SendNothing, SendFails, EnablieReadWrite, netVars
<1>7. CASE UNCHANGED vars
  BY <1>7 DEF vars, netVars
<1> QED
  BY <1>1, <1>2, <1>3, <1>4, <1>5, <1>6, <1>7 DEF Next, Server, Accepter

\* A connection begins with empty buffers and ends with none.
LEMMA BeginsStep ==
    ASSUME IInv, WaitingAreOpen, [Next]_vars, NEW c \in Clients, Begins(c)
    PROVE  Begins(c)'
<1> USE DEF Begins
<1>0. /\ peer \in [Clients -> {"idle", "up", "fin", "rst", "closed"}]
      /\ sent \in [Clients -> 0..Len(Script)] /\ got \in [Clients -> Seq(Nat)]
      /\ rcvbuf \in [Clients -> Seq(Fragment)] /\ sndbuf \in [Clients -> Seq(Nat)]
      /\ fd \in [Clients -> Fds \cup {NoFd}] /\ inbuf \in [Clients -> Seq(Fragment)]
      /\ outbuf \in [Clients -> Seq(Nat)] /\ parsed \in [Clients -> Nat]
      /\ peer[c] = "idle" => fd[c] = NoFd
  BY DEF IInv, TypeOK, BacklogInv
<1>1. CASE Client(c)
  BY <1>0, <1>1 DEF Client, Connect, ClientSend, ClientRecv, ClientClose, ClientReset, connVars
<1>2. ASSUME NEW f \in Fds, Opens(c, f)  PROVE Begins(c)'
  <2>1. peer[c] # "closed" /\ peer[c] # "idle"
    <3>1. backlog \in Seq(Clients) /\ backlog # <<>> /\ c = Head(backlog)
      BY <1>2 DEF Opens, IInv, TypeOK
    <3> QED  BY <3>1, TailEntries DEF WaitingAreOpen, IInv, BacklogInv
  <2>2. fd'[c] = f
    BY <1>0, <1>2 DEF Opens
  <2>3. peer' = peer
    BY <1>2 DEF Opens, AcceptOne
  <2> QED  BY <2>1, <2>2, <2>3, NoFdFacts
<1>3. CASE conn = c /\ (RecvData \/ ServePackage \/ SendSome)
  <2>1. fd[c] # NoFd /\ fd' = fd
    BY <1>3, HandlerEntry, NoFdFacts DEF RecvData, Live, ServePackage, SendSome
  <2>2. peer'[c] = peer[c] /\ sent'[c] = sent[c]
    BY <1>3 DEF RecvData, ServePackage, SendSome, netVars
  <2> QED  BY <2>1, <2>2
<1>4. CASE conn = c /\ Closes
  <2>1. peer'[c] = "closed" /\ fd'[c] = NoFd /\ inbuf'[c] = <<>> /\ outbuf'[c] = <<>>
    BY <1>0, <1>4 DEF Closes, Excepter
  <2> QED  BY <2>1
<1>5. CASE UNCHANGED Stream(c)
  BY <1>5 DEF Stream
<1> QED  BY <1>1, <1>2, <1>3, <1>4, <1>5, StreamSteps

\* Two parts of a sequence, joined again.
LEMMA Rejoined ==
    ASSUME NEW S, NEW s \in Seq(S), NEW n \in 0..Len(s)
    PROVE  SubSeq(s, 1, n) \o SubSeq(s, n + 1, Len(s)) = s
<1>1. Len(s) \in Nat
  BY LenProperties
<1>2. 1 \in 1..(Len(s) + 1) /\ n \in (1 - 1)..Len(s) /\ Len(s) \in n..Len(s)
  BY <1>1
<1>3. SubSeq(s, 1, n) \o SubSeq(s, n + 1, Len(s)) = SubSeq(s, 1, Len(s))
  BY <1>2, ConcatAdjacentSubSeq
<1> QED  BY <1>3, SubSeqFull

\* What is left of two buffers when the first n entries are taken.
LEMMA TakeFragments ==
    \A u, v \in Seq(Fragment) : \A m \in 0..Len(Script) :
      \A t \in 0..m, n \in 0..Len(u) :
        u \o v = SubSeq(Script, t + 1, m) =>
          /\ t + n <= m
          /\ \A i \in 1..n : u[i] = Script[t + i]
          /\ SubSeq(u, n + 1, Len(u)) \o v = SubSeq(Script, t + n + 1, m)
<1> TAKE u, v \in Seq(Fragment)
<1> TAKE m \in 0..Len(Script)
<1> TAKE t \in 0..m, n \in 0..Len(u)
<1> HAVE u \o v = SubSeq(Script, t + 1, m)
<1>1. /\ Len(u) \in Nat /\ Len(v) \in Nat /\ Len(Script) \in Nat
      /\ Len(u \o v) = Len(u) + Len(v) /\ u \o v \in Seq(Fragment)
      /\ \A i \in 1..(Len(u) + Len(v)) :
            (u \o v)[i] = IF i <= Len(u) THEN u[i] ELSE v[i - Len(u)]
  BY ScriptFacts, ConcatProperties, LenProperties
<1>2. /\ Len(SubSeq(Script, t + 1, m)) = m - t
      /\ \A i \in 1..(m - t) : SubSeq(Script, t + 1, m)[i] = Script[t + i]
  <2>1. t + 1 \in Int /\ m \in Int /\ \A i \in (t + 1)..m : Script[i] \in Fragment
    BY <1>1, ElementOfSeq
  <2>2. /\ Len(SubSeq(Script, t + 1, m)) = IF t + 1 <= m THEN m - (t + 1) + 1 ELSE 0
        /\ \A i \in 1..(m - (t + 1) + 1) : SubSeq(Script, t + 1, m)[i] = Script[(t + 1) + i - 1]
    BY <2>1, SubSeqProperties
  <2> QED  BY <1>1, <2>2
<1>3. Len(u) + Len(v) = m - t
  BY <1>1, <1>2
<1>4. t + n <= m /\ n <= Len(u)
  BY <1>1, <1>3
<1>5. \A i \in 1..n : u[i] = Script[t + i]
  BY <1>1, <1>2, <1>3, <1>4
<1> DEFINE x == SubSeq(u, n + 1, Len(u))
           y == SubSeq(Script, t + n + 1, m)
<1>6. /\ x \in Seq(Fragment) /\ Len(x) = Len(u) - n
      /\ \A i \in 1..(Len(u) - n) : x[i] = u[n + i]
  BY <1>1, <1>4
<1>7. /\ y \in Seq(Fragment) /\ Len(y) = m - (t + n)
      /\ \A i \in 1..(m - (t + n)) : y[i] = Script[t + n + i]
  BY <1>1, <1>4
<1> HIDE DEF x, y
<1>8. /\ Len(x \o v) = Len(x) + Len(v) /\ x \o v \in Seq(Fragment)
      /\ \A i \in 1..(Len(x) + Len(v)) :
            (x \o v)[i] = IF i <= Len(x) THEN x[i] ELSE v[i - Len(x)]
  BY <1>6, ConcatProperties
<1>9. Len(x \o v) = Len(y)
  BY <1>1, <1>3, <1>6, <1>7, <1>8
<1>10. ASSUME NEW i \in 1..Len(x \o v)  PROVE (x \o v)[i] = y[i]
  <2>1. i \in 1..(m - (t + n)) /\ n + i \in 1..(m - t)
    BY <1>7, <1>9, <1>1, <1>4
  <2>2. y[i] = (u \o v)[n + i]
    <3>1. t + (n + i) = t + n + i
      BY <1>1, <2>1
    <3> QED  BY <1>2, <1>7, <2>1, <3>1
  <2>3. CASE i <= Len(u) - n
    <3>1. (x \o v)[i] = u[n + i]
      BY <1>1, <1>6, <1>8, <1>10, <2>1, <2>3
    <3>2. (u \o v)[n + i] = u[n + i]
      BY <1>1, <1>3, <1>4, <2>1, <2>3
    <3> QED  BY <2>2, <3>1, <3>2
  <2>4. CASE ~(i <= Len(u) - n)
    <3>1. (x \o v)[i] = v[i - (Len(u) - n)]
      BY <1>1, <1>6, <1>8, <1>10, <2>1, <2>4
    <3>2. (u \o v)[n + i] = v[(n + i) - Len(u)]
      <4>1. ~(n + i <= Len(u)) /\ n + i \in 1..(Len(u) + Len(v))
        BY <1>1, <1>3, <2>1, <2>4
      <4> QED  BY <1>1, <4>1
    <3>3. i - (Len(u) - n) = (n + i) - Len(u)
      BY <1>1, <2>1
    <3> QED  BY <2>2, <3>1, <3>2, <3>3
  <2> QED  BY <2>3, <2>4
<1>11. x \o v = y
  BY <1>7, <1>8, <1>9, <1>10, SeqEqual
<1> QED  BY <1>4, <1>5, <1>11 DEF x, y

\* Appending to the second of two buffers appends to both.
LEMMA JoinFragments ==
    \A x, y, z \in Seq(Fragment) : (x \o y) \o z = x \o (y \o z)
BY ConcatAssociative

\* The first complete package in inbuffer_ is the next request, and taking it
\* leaves the fragments after it.
LEMMA NextPackage ==
    ASSUME IInv, NEW c \in Clients, Consumed(c), NEW n \in PackageEnds(inbuf[c])
    PROVE  /\ inbuf[c][n].req = parsed[c] + 1
           /\ \E t \in 0..sent[c] :
                /\ SubSeq(inbuf[c], n + 1, Len(inbuf[c])) \o rcvbuf[c]
                     = SubSeq(Script, t + 1, sent[c])
                /\ parsed[c] + 1 = Completed(t)
                /\ t > 0 => Script[t].last
<1>0. /\ inbuf[c] \in Seq(Fragment) /\ rcvbuf[c] \in Seq(Fragment)
      /\ sent[c] \in 0..Len(Script)
  BY DEF IInv, TypeOK
<1>1. PICK t \in 0..sent[c] :
        /\ inbuf[c] \o rcvbuf[c] = SubSeq(Script, t + 1, sent[c])
        /\ parsed[c] = Completed(t)
        /\ t > 0 => Script[t].last
  BY DEF Consumed
<1>2. /\ n \in 1..Len(inbuf[c]) /\ n \in 0..Len(inbuf[c])
      /\ inbuf[c][n].last /\ \A i \in 1..(n - 1) : ~inbuf[c][i].last
  BY <1>0 DEF PackageEnds
<1>3. /\ t + n <= sent[c]
      /\ \A i \in 1..n : inbuf[c][i] = Script[t + i]
      /\ SubSeq(inbuf[c], n + 1, Len(inbuf[c])) \o rcvbuf[c]
           = SubSeq(Script, t + n + 1, sent[c])
  <2> DEFINE u == inbuf[c]
             v == rcvbuf[c]
             m == sent[c]
  <2>1. /\ Script \in Seq(Fragment) /\ u \in Seq(Fragment) /\ v \in Seq(Fragment)
        /\ m \in 0..Len(Script) /\ t \in 0..m /\ n \in 0..Len(u)
        /\ u \o v = SubSeq(Script, t + 1, m)
    BY <1>0, <1>1, <1>2, ScriptFacts
  <2> HIDE DEF u, v, m
  <2>2. /\ t + n <= m
        /\ \A i \in 1..n : u[i] = Script[t + i]
        /\ SubSeq(u, n + 1, Len(u)) \o v = SubSeq(Script, t + n + 1, m)
    BY <2>1, TakeFragments
  <2> QED  BY <2>2 DEF u, v, m
<1>4. /\ t \in Nat /\ n \in Nat \ {0} /\ sent[c] \in Nat
      /\ t + n \in 0..sent[c] /\ t + n \in 1..Len(Script)
      /\ t + n - 1 \in Nat /\ (t + n - 1) + 1 = t + n
  BY <1>0, <1>2, <1>3, ScriptFacts
<1>5. Script[t + n].last /\ inbuf[c][n] = Script[t + n]
  <2>1. n \in 1..n
    BY <1>4
  <2> QED  BY <1>2, <1>3, <2>1
<1>6. \A i \in (t + 1)..(t + n - 1) : ~Script[i].last
  <2> SUFFICES ASSUME NEW i \in (t + 1)..(t + n - 1)  PROVE ~Script[i].last
    OBVIOUS
  <2>1. i - t \in 1..n /\ i - t \in 1..(n - 1) /\ t + (i - t) = i
    BY <1>4
  <2> QED  BY <1>2, <1>3, <2>1
<1>7. Completed(t + n - 1) = Completed(t)
  BY <1>4, <1>6, CompletedGrows
<1>8. Completed(t + n) = parsed[c] + 1
  BY <1>1, <1>4, <1>5, <1>7, CompletedNext
<1>9. inbuf[c][n].req = parsed[c] + 1
  BY <1>1, <1>4, <1>5, <1>7, ScriptFacts, ScriptAssumption DEF ScriptAssumption
<1> QED  BY <1>3, <1>4, <1>5, <1>8, <1>9

\* The counters of c are numbers the script bounds.
LEMMA StreamTypes ==
    ASSUME IInv, NEW c \in Clients
    PROVE  /\ inbuf[c] \in Seq(Fragment) /\ rcvbuf[c] \in Seq(Fragment)
           /\ sent[c] \in 0..Len(Script) /\ sent[c] \in Nat /\ Len(Script) \in Nat
           /\ parsed[c] \in Nat /\ Completed(sent[c]) \in Nat
           /\ got[c] \in Seq(Nat) /\ sndbuf[c] \in Seq(Nat) /\ outbuf[c] \in Seq(Nat)
           /\ fd[c] \in Fds \cup {NoFd}
<1>1. sent[c] \in 0..Len(Script) /\ sent[c] \in Nat
  BY ScriptFacts DEF IInv, TypeOK
<1> QED  BY <1>1, ScriptFacts, EndsFinite DEF IInv, TypeOK

\* A client sends the next fragment of the script.
LEMMA SendConsumed ==
    ASSUME IInv, NEW c \in Clients, Consumed(c), ClientSend(c)
    PROVE  Consumed(c)' /\ Completed(sent[c]) <= Completed(sent'[c])
<1> DEFINE n == sent[c]
<1>0. /\ sent' = [sent EXCEPT ![c] = n + 1] /\ n < Len(Script)
      /\ rcvbuf' = [rcvbuf EXCEPT ![c] = Append(rcvbuf[c], Script[n + 1])]
      /\ inbuf' = inbuf /\ parsed' = parsed
  BY DEF ClientSend, connVars
<1>1. sent'[c] = n + 1 /\ rcvbuf'[c] = Append(rcvbuf[c], Script[n + 1])
  BY <1>0 DEF IInv, TypeOK
<1>2. PICK t \in 0..n :
        /\ inbuf[c] \o rcvbuf[c] = SubSeq(Script, t + 1, n)
        /\ parsed[c] = Completed(t)
        /\ t > 0 => Script[t].last
  BY DEF Consumed
<1>t. /\ n \in Nat /\ n + 1 \in 1..Len(Script) /\ Script[n + 1] \in Fragment
      /\ inbuf[c] \in Seq(Fragment) /\ rcvbuf[c] \in Seq(Fragment)
  BY <1>0, StreamTypes, ScriptFacts, ElementOfSeq
<1>3. inbuf[c] \o Append(rcvbuf[c], Script[n + 1]) = Append(inbuf[c] \o rcvbuf[c], Script[n + 1])
  <2>1. /\ Append(rcvbuf[c], Script[n + 1]) = rcvbuf[c] \o <<Script[n + 1]>>
        /\ <<Script[n + 1]>> \in Seq(Fragment) /\ inbuf[c] \o rcvbuf[c] \in Seq(Fragment)
    BY <1>t, AppendIsConcat, ConcatProperties
  <2>2. Append(inbuf[c] \o rcvbuf[c], Script[n + 1]) = (inbuf[c] \o rcvbuf[c]) \o <<Script[n + 1]>>
    BY <1>t, <2>1, AppendIsConcat
  <2>3. (inbuf[c] \o rcvbuf[c]) \o <<Script[n + 1]>> = inbuf[c] \o (rcvbuf[c] \o <<Script[n + 1]>>)
    BY <1>t, <2>1, JoinFragments
  <2> QED  BY <2>1, <2>2, <2>3
<1>4. Append(SubSeq(Script, t + 1, n), Script[n + 1]) = SubSeq(Script, t + 1, n + 1)
  <2>1. t + 1 \in 1..Len(Script) /\ n + 1 \in (t + 1)..Len(Script) /\ (n + 1) - 1 = n
    BY <1>t
  <2>2. SubSeq(Script, t + 1, n + 1) = SubSeq(Script, t + 1, n) \o <<Script[n + 1]>>
    BY <2>1, ScriptFacts, SubSeqRecursiveSecond
  <2>3. SubSeq(Script, t + 1, n) \in Seq(Fragment)
    BY <1>2, <1>t, ConcatProperties
  <2> QED  BY <1>t, <2>2, <2>3, AppendIsConcat
<1>5. Completed(n) <= Completed(n + 1)
  BY <1>t, CompletedGrows
<1>6. t \in 0..sent'[c]
  BY <1>1, <1>t
<1> HIDE DEF n
<1>7. Consumed(c)'
  <2>1. inbuf'[c] \o rcvbuf'[c] = SubSeq(Script, t + 1, sent'[c])
    BY <1>0, <1>1, <1>2, <1>3, <1>4
  <2>2. parsed'[c] = Completed(t) /\ (t > 0 => Script[t].last)
    BY <1>0, <1>2
  <2> QED  BY <1>6, <2>1, <2>2 DEF Consumed
<1> QED  BY <1>1, <1>5, <1>7 DEF n

\* recv moves bytes from the socket to inbuffer_.
LEMMA RecvConsumed ==
    ASSUME IInv, NEW c \in Clients, Consumed(c), conn = c, RecvData
    PROVE  Consumed(c)'
<1> DEFINE n == Least(RecvMax, Len(rcvbuf[c]))
<1>1. rcvbuf[c] \in Seq(Fragment) /\ inbuf[c] \in Seq(Fragment) /\ Len(rcvbuf[c]) \in Nat
  BY StreamTypes, LenProperties
<1>2. n \in 0..Len(rcvbuf[c])
  BY <1>1, ReactorAssumption DEF Least, ReactorAssumption
<1> HIDE DEF n
<1>3. /\ inbuf'[c] = inbuf[c] \o SubSeq(rcvbuf[c], 1, n)
      /\ rcvbuf'[c] = SubSeq(rcvbuf[c], n + 1, Len(rcvbuf[c]))
      /\ sent' = sent /\ parsed' = parsed
  BY DEF RecvData, n, IInv, TypeOK
<1>4. inbuf'[c] \o rcvbuf'[c] = inbuf[c] \o rcvbuf[c]
  <2> DEFINE x == SubSeq(rcvbuf[c], 1, n)
             y == SubSeq(rcvbuf[c], n + 1, Len(rcvbuf[c]))
  <2>1. x \in Seq(Fragment) /\ y \in Seq(Fragment)
    BY <1>1, <1>2, Parts
  <2>2. x \o y = rcvbuf[c]
    BY <1>1, <1>2, Rejoined
  <2> HIDE DEF x, y
  <2>3. (inbuf[c] \o x) \o y = inbuf[c] \o (x \o y)
    BY <1>1, <2>1, JoinFragments
  <2> QED  BY <1>3, <2>2, <2>3 DEF x, y
<1> QED  BY <1>3, <1>4 DEF Consumed

\* Every step keeps the account of the fragments.
LEMMA InputStep == IInv /\ InputInv /\ [Next]_vars => InputInv'
<1> SUFFICES ASSUME IInv, InputInv, [Next]_vars, NEW c \in Clients
             PROVE  (parsed[c] <= Completed(sent[c]) /\ (peer[c] # "closed" => Consumed(c)))'
  BY WaitingStep, BeginsStep DEF InputInv
<1>0. /\ parsed[c] <= Completed(sent[c]) /\ (peer[c] # "closed" => Consumed(c)) /\ Begins(c)
      /\ fd[c] # NoFd => peer[c] # "closed"
  BY DEF InputInv, Begins
<1>t. /\ peer \in [Clients -> {"idle", "up", "fin", "rst", "closed"}]
      /\ inbuf \in [Clients -> Seq(Fragment)] /\ parsed \in [Clients -> Nat]
  BY DEF IInv, TypeOK
<1>1. CASE ClientSend(c)
  <2>1. peer[c] = "up" /\ peer' = peer /\ parsed' = parsed
    BY <1>1 DEF ClientSend, connVars
  <2>2. sent'[c] \in Nat /\ Completed(sent'[c]) \in Nat
    <3>1. sent'[c] = sent[c] + 1
      BY <1>1 DEF ClientSend, IInv, TypeOK
    <3>2. sent'[c] \in Nat
      BY <3>1, StreamTypes
    <3> QED  BY <3>2, EndsFinite
  <2> QED  BY <1>0, <1>1, <2>1, <2>2, SendConsumed, StreamTypes
<1>2. CASE Connect(c) \/ ClientRecv(c) \/ ClientClose(c) \/ ClientReset(c)
  <2>1. UNCHANGED <<sent, rcvbuf, inbuf, parsed>> /\ (peer[c] = "closed" => peer'[c] = "closed")
    BY <1>2, <1>t DEF Connect, ClientRecv, ClientClose, ClientReset, connVars
  <2> QED  BY <1>0, <2>1 DEF Consumed
<1>3. ASSUME NEW f \in Fds, Opens(c, f)
      PROVE  (parsed[c] <= Completed(sent[c]) /\ (peer[c] # "closed" => Consumed(c)))'
  <2>1. UNCHANGED <<peer, sent, rcvbuf, parsed>>
    BY <1>3 DEF Opens, AcceptOne
  <2>2. inbuf'[c] = <<>> /\ inbuf[c] = <<>>
    BY <1>0, <1>3, <1>t DEF Begins, Opens, AcceptOne, AddConnection
  <2> QED  BY <1>0, <2>1, <2>2 DEF Consumed
<1>4. CASE conn = c /\ RecvData
  <2>1. peer' = peer /\ parsed' = parsed /\ sent' = sent /\ fd[c] # NoFd
    BY <1>4 DEF RecvData, Live
  <2> QED  BY <1>0, <1>4, <2>1, RecvConsumed
<1>5. CASE conn = c /\ ServePackage
  <2>1. /\ peer' = peer /\ sent' = sent /\ rcvbuf' = rcvbuf
        /\ parsed'[c] = parsed[c] + 1 /\ fd[c] # NoFd
    BY <1>5, <1>t, HandlerEntry, NoFdFacts DEF ServePackage, netVars
  <2>2. PICK n \in PackageEnds(inbuf[c]) :
           inbuf'[c] = SubSeq(inbuf[c], n + 1, Len(inbuf[c]))
    BY <1>5, <1>t DEF ServePackage
  <2>3. PICK t \in 0..sent[c] :
           /\ SubSeq(inbuf[c], n + 1, Len(inbuf[c])) \o rcvbuf[c]
                = SubSeq(Script, t + 1, sent[c])
           /\ parsed[c] + 1 = Completed(t)
           /\ t > 0 => Script[t].last
    BY <1>0, <2>1, NextPackage
  <2>4. Consumed(c)'
    BY <2>1, <2>2, <2>3 DEF Consumed
  <2>5. Completed(t) <= Completed(sent[c])
    BY StreamTypes, CompletedGrows
  <2> QED  BY <2>1, <2>3, <2>4, <2>5
<1>6. CASE conn = c /\ SendSome
  BY <1>0, <1>6 DEF SendSome, Consumed
<1>7. CASE conn = c /\ Closes
  <2>1. peer'[c] = "closed" /\ sent' = sent /\ parsed' = parsed
    BY <1>7, <1>t DEF Closes, Excepter
  <2> QED  BY <1>0, <2>1
<1>8. CASE UNCHANGED Stream(c)
  BY <1>0, <1>8 DEF Stream, Consumed
<1> QED  BY <1>1, <1>2, <1>3, <1>4, <1>5, <1>6, <1>7, <1>8, StreamSteps DEF Client

\* Nothing is sent or parsed at the start.
LEMMA InitInput == Init => InputInv
<1> SUFFICES ASSUME Init, NEW c \in Clients  PROVE InputInv
  BY DEF InputInv, WaitingAreOpen, Init
<1> USE DEF Init
<1>1. WaitingAreOpen /\ \A d \in Clients : Begins(d) /\ parsed[d] <= Completed(sent[d])
  BY ScriptFacts, CompletedNext, EndsFinite DEF WaitingAreOpen, Begins
<1>2. ASSUME NEW d \in Clients  PROVE Consumed(d)
  <2>1. SubSeq(Script, 0 + 1, 0) = <<>>
    BY SubSeqEmpty
  <2>2. <<>> \o <<>> = <<>>
    BY ConcatEmptySeq, EmptySeq
  <2>3. Completed(0) = 0
    BY CompletedNext
  <2> QED  BY <2>1, <2>2, <2>3 DEF Consumed
<1> QED  BY <1>1, <1>2 DEF InputInv

\* The account of the fragments holds in every reachable state.
THEOREM InputInvariance == Spec => []InputInv
BY InitInput, Invariance, InputStep, PTL DEF Spec

\* No byte a client sends is lost, repeated or reordered, for any fragmentation,
\* receive size and interleaving: inbuffer_ and the socket hold exactly what was
\* sent after the last package parsed (TcpServer.hpp:72-78, Main.cc:55-61).
THEOREM InputIsExact == Spec => []InputStream
<1>1. IInv /\ InputInv => InputStream
  <2> SUFFICES ASSUME IInv, InputInv, NEW c \in Clients, peer[c] \in {"up", "fin", "rst"}
               PROVE  inbuf[c] \o rcvbuf[c]
                        = SubSeq(Script, FragmentsTaken(parsed[c]) + 1, sent[c])
    BY DEF InputStream
  <2>1. PICK t \in 0..sent[c] :
           /\ inbuf[c] \o rcvbuf[c] = SubSeq(Script, t + 1, sent[c])
           /\ parsed[c] = Completed(t)
           /\ t > 0 => Script[t].last
    BY DEF InputInv, Consumed
  <2>2. t \in 0..Len(Script)
    BY StreamTypes
  <2> QED  BY <2>1, <2>2, FragmentsOfRequests
<1> QED  BY <1>1, Invariance, InputInvariance, PTL

-----------------------------------------------------------------------------
(* Replies out.                                                            *)

\* Three queues joined do not depend on where they are cut.
LEMMA JoinReplies ==
    \A x, y, z \in Seq(Nat) : (x \o y) \o z = x \o (y \o z)
BY ConcatAssociative

\* Appending to the last of two queues appends to both.
LEMMA AppendReply ==
    \A x, y \in Seq(Nat), k \in Nat : x \o Append(y, k) = Append(x \o y, k)
<1> TAKE x, y \in Seq(Nat), k \in Nat
<1>1. <<k>> \in Seq(Nat) /\ x \o y \in Seq(Nat)
  BY ConcatProperties
<1>2. Append(y, k) = y \o <<k>> /\ Append(x \o y, k) = (x \o y) \o <<k>>
  BY <1>1, AppendIsConcat
<1> QED  BY <1>1, <1>2, JoinReplies

\* What the client has of the answers when the rest is dropped.
LEMMA AnswersKept ==
    ASSUME NEW u \in Seq(Nat), NEW v \in Seq(Nat), NEW w \in Seq(Nat), NEW n \in Nat,
           Answers(u \o v \o w, n)
    PROVE  /\ \E m \in 0..n : Answers(u \o v, m)
           /\ \E m \in 0..n : Answers(u \o <<>>, m)
<1>1. u \o v \in Seq(Nat)
  BY ConcatProperties
<1>2. PICK m \in 0..n : Answers(u \o v, m)
  BY <1>1, AnswersPrefix
<1>3. PICK k \in 0..m : Answers(u, k)
  BY <1>2, AnswersPrefix
<1>4. k \in 0..n /\ u \o <<>> = u
  BY <1>3, ConcatEmptySeq
<1> QED  BY <1>2, <1>3, <1>4

\* The promise of OutputStream to one client.
Answered(c) ==
    IF peer[c] \in {"up", "fin"}
    THEN Answers(got[c] \o sndbuf[c] \o outbuf[c], parsed[c])
    ELSE \E n \in 0..parsed[c] : Answers(got[c] \o sndbuf[c], n)

\* Service appends the reply to the package it parses, or none.
LEMMA ServeAnswered ==
    ASSUME IInv, InputInv, NEW c \in Clients, Answered(c), conn = c, ServePackage
    PROVE  Answered(c)'
<1>1. /\ UNCHANGED <<peer, got, sndbuf>>
      /\ parsed'[c] = parsed[c] + 1 /\ parsed[c] \in Nat
  BY DEF ServePackage, netVars, IInv, TypeOK
<1>2. CASE peer[c] \in {"up", "fin"}
  <2>1. Consumed(c)
    BY <1>2 DEF InputInv
  <2>2. PICK n \in PackageEnds(inbuf[c]) :
           outbuf'[c] = IF inbuf[c][n].req \in Malformed THEN outbuf[c]
                        ELSE Append(outbuf[c], inbuf[c][n].req)
    BY DEF ServePackage, IInv, TypeOK
  <2>3. inbuf[c][n].req = parsed[c] + 1
    BY <2>1, NextPackage
  <2> DEFINE k == parsed[c] + 1
             s == got[c] \o sndbuf[c]
  <2>4. s \in Seq(Nat) /\ outbuf[c] \in Seq(Nat) /\ s \o outbuf[c] \in Seq(Nat) /\ k \in Nat
    BY <1>1, StreamTypes, ConcatProperties
  <2>5. Answers(s \o outbuf[c], parsed[c])
    BY <1>2 DEF Answered
  <2> HIDE DEF s, k
  <2>6. s \o Append(outbuf[c], k) = Append(s \o outbuf[c], k)
    BY <2>4, AppendReply
  <2>7. Answers(IF k \in Malformed THEN s \o outbuf[c] ELSE Append(s \o outbuf[c], k), k)
    BY <1>1, <2>4, <2>5, AnswersGrow DEF k
  <2>8. Answers(s \o outbuf'[c], k)
    BY <2>2, <2>3, <2>6, <2>7 DEF k
  <2> QED  BY <1>1, <1>2, <2>8 DEF Answered, s, k
<1>3. CASE peer[c] \notin {"up", "fin"}
  BY <1>1, <1>3 DEF Answered
<1> QED  BY <1>2, <1>3

\* send moves replies from outbuffer_ to the socket, in order.
LEMMA SendAnswered ==
    ASSUME IInv, InputInv, NEW c \in Clients, Answered(c), conn = c, SendSome
    PROVE  Answered(c)'
<1> DEFINE n == Least(SndCap - Len(sndbuf[c]), Len(outbuf[c]))
           x == SubSeq(outbuf[c], 1, n)
           y == SubSeq(outbuf[c], n + 1, Len(outbuf[c]))
<1>1. /\ got[c] \in Seq(Nat) /\ sndbuf[c] \in Seq(Nat) /\ outbuf[c] \in Seq(Nat)
      /\ Len(outbuf[c]) \in Nat /\ Len(sndbuf[c]) \in Nat
  BY StreamTypes, LenProperties
<1>2. n \in 0..Len(outbuf[c])
  <2>1. SndCap \in Nat /\ Len(sndbuf[c]) < SndCap
    BY ReactorAssumption DEF ReactorAssumption, SendSome
  <2>2. SndCap - Len(sndbuf[c]) \in Nat
    BY <1>1, <2>1
  <2> QED  BY <1>1, <2>2 DEF Least
<1> HIDE DEF n
<1>3. x \in Seq(Nat) /\ y \in Seq(Nat) /\ x \o y = outbuf[c]
  BY <1>1, <1>2, Parts, Rejoined
<1>4. /\ sndbuf'[c] = sndbuf[c] \o x /\ outbuf'[c] = y
      /\ UNCHANGED <<peer, got, parsed>>
  BY DEF SendSome, n, IInv, TypeOK
<1> HIDE DEF x, y
<1>5. got[c] \o (sndbuf[c] \o x) \o y = got[c] \o sndbuf[c] \o (x \o y)
  <2>1. sndbuf[c] \o x \in Seq(Nat) /\ got[c] \o sndbuf[c] \in Seq(Nat)
    BY <1>1, <1>3, ConcatProperties
  <2>2. got[c] \o (sndbuf[c] \o x) = (got[c] \o sndbuf[c]) \o x
    BY <1>1, <1>3, JoinReplies
  <2>3. ((got[c] \o sndbuf[c]) \o x) \o y = (got[c] \o sndbuf[c]) \o (x \o y)
    BY <1>3, <2>1, JoinReplies
  <2> QED  BY <2>2, <2>3
<1>6. peer[c] \in {"up", "fin"}
  <2>1. pc = "Send" /\ peer[c] # "rst" /\ fd[c] \in Fds
    BY HandlerEntry DEF SendSome
  <2>2. peer[c] # "idle" /\ peer[c] # "closed"
    BY <2>1, NoFdFacts DEF IInv, BacklogInv, InputInv, Begins
  <2> QED  BY <2>1, <2>2 DEF IInv, TypeOK
<1> QED  BY <1>3, <1>4, <1>5, <1>6 DEF Answered

\* Reading the head of a queue moves it behind what was read before.
LEMMA ReadNext ==
    \A x, y \in Seq(Nat) : y # <<>> => Append(x, Head(y)) \o Tail(y) = x \o y
<1> TAKE x, y \in Seq(Nat)
<1> HAVE y # <<>>
<1>1. /\ Head(y) \in Nat /\ Tail(y) \in Seq(Nat) /\ <<Head(y)>> \in Seq(Nat)
      /\ Head(y) = y[1] /\ Len(y) \in Nat /\ Len(y) > 0
  BY EmptySeq, LenProperties
<1>2. y = <<Head(y)>> \o Tail(y)
  <2>1. 1 \in 1..Len(y) /\ Len(y) \in 1..Len(y)
    BY <1>1
  <2>2. SubSeq(y, 1, Len(y)) = <<y[1]>> \o SubSeq(y, 1 + 1, Len(y))
    BY <2>1, SubSeqRecursiveFirst
  <2>3. SubSeq(y, 1, Len(y)) = y /\ Tail(y) = SubSeq(y, 2, Len(y))
    BY SubSeqFull, TailIsSubSeq
  <2> QED  BY <1>1, <2>2, <2>3
<1>3. Append(x, Head(y)) = x \o <<Head(y)>>
  BY <1>1, AppendIsConcat
<1>4. (x \o <<Head(y)>>) \o Tail(y) = x \o (<<Head(y)>> \o Tail(y))
  BY <1>1, JoinReplies
<1> QED  BY <1>2, <1>3, <1>4

\* A client's own steps: what it reads stays in order, and a reset keeps the
\* replies it has read.
LEMMA ClientAnswered ==
    ASSUME IInv, InputInv, NEW c \in Clients, Answered(c), Client(c)
    PROVE  Answered(c)'
<1>t. /\ got[c] \in Seq(Nat) /\ sndbuf[c] \in Seq(Nat) /\ outbuf[c] \in Seq(Nat)
      /\ parsed[c] \in Nat
  BY StreamTypes
<1>f. /\ peer \in [Clients -> {"idle", "up", "fin", "rst", "closed"}]
      /\ got \in [Clients -> Seq(Nat)] /\ sndbuf \in [Clients -> Seq(Nat)]
  BY DEF IInv, TypeOK
<1>1. CASE Connect(c)
  <2>1. fd[c] = NoFd /\ peer[c] # "closed" /\ peer'[c] = "up"
    BY <1>1, <1>f DEF Connect, IInv, BacklogInv
  <2>2. parsed[c] = 0 /\ sndbuf[c] = <<>> /\ got[c] = <<>> /\ outbuf[c] = <<>>
    BY <2>1 DEF InputInv, Begins
  <2>3. UNCHANGED <<got, sndbuf, outbuf, parsed>>
    BY <1>1 DEF Connect, connVars
  <2>4. <<>> \o <<>> \o <<>> = <<>>
    BY ConcatEmptySeq, EmptySeq
  <2> QED  BY <2>1, <2>2, <2>3, <2>4, NoAnswers DEF Answered
<1>2. CASE ClientSend(c)
  BY <1>2 DEF ClientSend, connVars, Answered
<1>3. CASE ClientRecv(c)
  <2>1. /\ got'[c] = Append(got[c], Head(sndbuf[c])) /\ sndbuf'[c] = Tail(sndbuf[c])
        /\ sndbuf[c] # <<>> /\ UNCHANGED <<peer, outbuf, parsed>>
    BY <1>3, <1>f DEF ClientRecv, connVars
  <2>2. got'[c] \o sndbuf'[c] = got[c] \o sndbuf[c]
    BY <1>t, <2>1, ReadNext
  <2> QED  BY <2>1, <2>2 DEF Answered
<1>4. CASE ClientClose(c)
  <2>1. /\ peer[c] = "up" /\ peer'[c] = "fin"
        /\ UNCHANGED <<got, sndbuf, outbuf, parsed>>
    BY <1>4, <1>f DEF ClientClose, connVars
  <2> QED  BY <2>1 DEF Answered
<1>5. CASE ClientReset(c)
  <2>1. /\ peer[c] \in {"up", "fin"} /\ peer'[c] = "rst" /\ sndbuf'[c] = <<>>
        /\ UNCHANGED <<got, outbuf, parsed>>
    BY <1>5, <1>f DEF ClientReset, connVars
  <2>2. \E m \in 0..parsed[c] : Answers(got[c] \o <<>>, m)
    BY <1>t, <2>1, AnswersKept DEF Answered
  <2> QED  BY <2>1, <2>2 DEF Answered
<1> QED  BY <1>1, <1>2, <1>3, <1>4, <1>5 DEF Client

\* close leaves the client what the socket holds, or drops that too.
LEMMA CloseAnswered ==
    ASSUME IInv, NEW c \in Clients, Answered(c), conn = c, Closes
    PROVE  Answered(c)'
<1>t. /\ got[c] \in Seq(Nat) /\ sndbuf[c] \in Seq(Nat) /\ outbuf[c] \in Seq(Nat)
      /\ parsed[c] \in Nat
  BY StreamTypes
<1>1. /\ peer'[c] = "closed" /\ sndbuf'[c] \in {sndbuf[c], <<>>}
      /\ UNCHANGED <<got, parsed>>
  BY DEF Closes, Excepter, IInv, TypeOK
<1>2. /\ \E m \in 0..parsed[c] : Answers(got[c] \o sndbuf[c], m)
      /\ \E m \in 0..parsed[c] : Answers(got[c] \o <<>>, m)
  <2>1. CASE peer[c] \in {"up", "fin"}
    BY <1>t, <2>1, AnswersKept DEF Answered
  <2>2. CASE peer[c] \notin {"up", "fin"}
    <3>1. PICK m \in 0..parsed[c] : Answers(got[c] \o sndbuf[c], m)
      BY <2>2 DEF Answered
    <3>2. PICK k \in 0..m : Answers(got[c], k)
      BY <1>t, <3>1, AnswersPrefix
    <3>3. k \in 0..parsed[c] /\ got[c] \o <<>> = got[c]
      BY <1>t, <3>2, ConcatEmptySeq
    <3> QED  BY <3>1, <3>2, <3>3
  <2> QED  BY <2>1, <2>2
<1> QED  BY <1>1, <1>2 DEF Answered

\* Every step keeps the account of the replies.
LEMMA OutputStep == IInv /\ InputInv /\ OutputStream /\ [Next]_vars => OutputStream'
<1> SUFFICES ASSUME IInv, InputInv, OutputStream, [Next]_vars, NEW c \in Clients
             PROVE  Answered(c)'
  BY DEF OutputStream, Answered
<1>0. Answered(c)
  BY DEF OutputStream, Answered
<1>1. ASSUME NEW f \in Fds, Opens(c, f)  PROVE Answered(c)'
  <2>1. UNCHANGED <<peer, got, sndbuf, parsed>>
    BY <1>1 DEF Opens, AcceptOne
  <2>2. outbuf'[c] = outbuf[c]
    BY <1>1 DEF Opens, AcceptOne, AddConnection, InputInv, Begins, IInv, TypeOK
  <2> QED  BY <1>0, <2>1, <2>2 DEF Answered
<1>2. CASE conn = c /\ RecvData
  BY <1>0, <1>2 DEF RecvData, Answered
<1>3. CASE UNCHANGED Stream(c)
  BY <1>0, <1>3 DEF Stream, Answered
<1> QED
  BY <1>0, <1>1, <1>2, <1>3, StreamSteps, ClientAnswered, ServeAnswered, SendAnswered,
     CloseAnswered

\* Every well-formed request parsed is answered once and in order, for any
\* script, send buffer and interleaving: what the client has read, the socket
\* holds and outbuffer_ holds are together exactly the replies, and after a reset
\* or a close the client has the first of them (Main.cc:81, TcpServer.hpp:119-124).
THEOREM OutputIsExact == Spec => []OutputStream
<1>1. Init => OutputStream
  <2> SUFFICES ASSUME Init, NEW c \in Clients  PROVE \E n \in 0..0 : Answers(<<>> \o <<>>, n)
    BY DEF OutputStream, Init
  <2>1. <<>> \o <<>> = <<>>
    BY ConcatEmptySeq, EmptySeq
  <2> QED  BY <2>1, NoAnswers
<1> QED  BY <1>1, Invariance, InputInvariance, OutputStep, PTL DEF Spec

-----------------------------------------------------------------------------
(* The service the clients see.                                            *)

\* The last of the answers is to the first request after the one answered
\* before that is not refused.
LEMMA LastAnswer ==
    ASSUME NEW u \in Seq(Nat), NEW k \in Nat, NEW m \in Nat, Answers(Append(u, k), m),
           NEW l, l = IF u = <<>> THEN 0 ELSE u[Len(u)]
    PROVE  /\ l \in Nat /\ k \in (l + 1)..m /\ k \notin Malformed
           /\ \A j \in (l + 1)..(k - 1) : j \in Malformed
<1> DEFINE w == Append(u, k)
           n == Len(u)
<1>1. /\ n \in Nat /\ DOMAIN w = 1..(n + 1) /\ w[n + 1] = k
      /\ \A i \in 1..n : w[i] = u[i] /\ u[i] \in Nat
  BY AppendProperties, LenProperties, ElementOfSeq
<1>2. Range(w) = (1..m) \ Malformed /\ \A i, j \in DOMAIN w : i < j => w[i] < w[j]
  BY DEF Answers
<1>3. u # <<>> => n \in 1..n
  BY <1>1, EmptySeq
<1>5. u = <<>> => n = 0
  BY EmptySeq
<1> HIDE DEF w, n
<1>4. k \in (1..m) \ Malformed
  <2>1. n + 1 \in DOMAIN w
    BY <1>1
  <2> QED  BY <1>1, <1>2, <2>1 DEF Range
<1>6. l \in Nat /\ k \in (l + 1)..m
  <2>1. CASE u = <<>>
    BY <1>4, <2>1
  <2>2. CASE u # <<>>
    <3>1. l = w[n] /\ l \in Nat /\ n \in 1..(n + 1) /\ n < n + 1
      BY <1>1, <1>3, <2>2 DEF n
    <3>2. l < k
      BY <1>1, <1>2, <3>1
    <3> QED  BY <1>4, <3>1, <3>2
  <2> QED  BY <2>1, <2>2
<1>7. ASSUME NEW j \in (l + 1)..(k - 1), j \notin Malformed  PROVE FALSE
  <2>1. j \in (1..m) \ Malformed /\ l < j /\ j < k
    BY <1>4, <1>6, <1>7
  <2>2. PICK x \in 1..(n + 1) : w[x] = j
    BY <1>1, <1>2, <2>1 DEF Range
  <2>3. x \in 1..n
    BY <1>1, <2>1, <2>2
  <2>4. u # <<>>
    BY <1>5, <2>3
  <2>5. l = w[n] /\ n \in 1..(n + 1)
    BY <1>1, <1>3, <2>4 DEF n
  <2>6. CASE x = n
    BY <1>6, <2>1, <2>2, <2>5, <2>6
  <2>7. CASE x < n
    <3>1. w[x] < w[n]
      BY <1>1, <1>2, <2>2, <2>5, <2>7
    <3> QED  BY <1>6, <2>1, <2>2, <2>5, <3>1
  <2> QED  BY <1>1, <2>3, <2>6, <2>7
<1> QED  BY <1>4, <1>6, <1>7

\* The requests a client has completed, as CalcService counts them.
Asked == [c \in Clients |-> Completed(sent[c])]

\* A fragment that ends a request is an Ask, any other is nothing.
LEMMA SendAsks ==
    ASSUME IInv, NEW c \in Clients, ClientSend(c)
    PROVE  Service1!Ask(c) \/ UNCHANGED <<Asked, got>>
<1> DEFINE n == sent[c]
<1>1. /\ sent' = [sent EXCEPT ![c] = n + 1] /\ got' = got /\ n < Len(Script)
      /\ sent \in [Clients -> 0..Len(Script)]
  BY DEF ClientSend, IInv, TypeOK
<1>2. n \in Nat /\ n + 1 \in Nat /\ n + 1 <= Len(Script) /\ Len(Script) \in Nat
  BY <1>1, StreamTypes
<1> HIDE DEF n
<1>3. CASE Script[n + 1].last
  <2>1. Completed(n + 1) = Completed(n) + 1
    BY <1>2, <1>3, CompletedNext
  <2>2. Completed(n + 1) <= Completed(Len(Script))
    BY <1>2, CompletedGrows
  <2>3. Completed(n) < Completed(Len(Script))
    BY <1>2, <2>1, <2>2, EndsFinite
  <2>4. Asked[c] = Completed(n) /\ Asked' = [Asked EXCEPT ![c] = @ + 1]
    BY <1>1, <2>1 DEF Asked, n
  <2> QED  BY <1>1, <2>3, <2>4 DEF Service1!Ask, Asked
<1>4. CASE ~Script[n + 1].last
  <2>1. Completed(n + 1) = Completed(n)
    BY <1>2, <1>4, CompletedNext
  <2>2. Asked' = Asked
    BY <1>1, <2>1 DEF Asked, n
  <2> QED  BY <1>1, <2>2
<1> QED  BY <1>3, <1>4

\* A reply the client reads is a Reply: OutputStream says which one it is.
LEMMA RecvReplies ==
    ASSUME IInv, InputInv, OutputStream, NEW c \in Clients, ClientRecv(c)
    PROVE  Service1!Reply(c)
<1> DEFINE k == Head(sndbuf[c])
<1>1. /\ got' = [got EXCEPT ![c] = Append(@, k)] /\ sndbuf[c] # <<>> /\ sent' = sent
      /\ got \in [Clients -> Seq(Nat)]
  BY DEF ClientRecv, IInv, TypeOK
<1>2. /\ got[c] \in Seq(Nat) /\ sndbuf[c] \in Seq(Nat) /\ outbuf[c] \in Seq(Nat)
      /\ parsed[c] \in Nat /\ Completed(sent[c]) \in Nat
  BY StreamTypes
<1>3. k \in Nat /\ Tail(sndbuf[c]) \in Seq(Nat)
  BY <1>1, <1>2, HeadTailProperties
<1>4. Append(got[c], k) \in Seq(Nat) /\ Append(got[c], k) \o Tail(sndbuf[c]) = got[c] \o sndbuf[c]
  BY <1>1, <1>2, <1>3, ReadNext, AppendProperties
<1> HIDE DEF k
<1>5. PICK m \in 0..parsed[c] : Answers(got[c] \o sndbuf[c], m)
  BY <1>2, AnswersKept DEF OutputStream
<1>6. PICK p \in 0..m : Answers(Append(got[c], k), p)
  <2> DEFINE u == Append(got[c], k)
             v == Tail(sndbuf[c])
  <2>1. m \in Nat
    BY <1>2
  <2>2. u \in Seq(Nat) /\ v \in Seq(Nat) /\ u \o v = got[c] \o sndbuf[c]
    BY <1>3, <1>4
  <2> HIDE DEF u, v
  <2>3. Answers(u \o v, m)
    BY <1>5, <2>2
  <2>4. \E p \in 0..m : Answers(u, p)
    BY <2>1, <2>2, <2>3, AnswersPrefix
  <2> QED  BY <2>4 DEF u
<1>7. p \in Nat /\ p <= Completed(sent[c])
  BY <1>2 DEF InputInv
<1> DEFINE l == IF got[c] = <<>> THEN 0 ELSE got[c][Len(got[c])]
<1>8. /\ l \in Nat /\ k \in (l + 1)..p /\ k \notin Malformed
      /\ \A j \in (l + 1)..(k - 1) : j \in Malformed
  <2> DEFINE u == got[c]
  <2>1. u \in Seq(Nat) /\ l = IF u = <<>> THEN 0 ELSE u[Len(u)]
    BY <1>2
  <2> HIDE DEF u, l
  <2> QED  BY <1>3, <1>6, <1>7, <2>1, LastAnswer DEF u
<1>9. Service1!LastReplied(c) = l /\ Asked[c] = Completed(sent[c]) /\ Asked' = Asked
  BY <1>1 DEF Service1!LastReplied, Asked
<1>10. k \in (l + 1)..Asked[c]
  BY <1>2, <1>7, <1>8, <1>9
<1> HIDE DEF l
<1> QED  BY <1>1, <1>8, <1>9, <1>10 DEF Service1!Reply, Asked

\* The single-threaded server is the service of CalcService.tla, for any number
\* of clients, any script and any bounds: every step is an Ask, a Reply or
\* invisible to the clients.
THEOREM ReactorIsCalcService == Spec => ImplementsCalcService
<1>1. Init => Service1!Init
  <2> SUFFICES ASSUME Init  PROVE Service1!Init
    OBVIOUS
  <2>1. Completed(0) = 0
    BY CompletedNext
  <2> QED  BY <2>1 DEF Init, Service1!Init
<1>2. IInv /\ InputInv /\ OutputStream /\ [Next]_vars => [Service1!Next]_(Service1!vars)
  <2> SUFFICES ASSUME IInv, InputInv, OutputStream, [Next]_vars
               PROVE  Service1!Next \/ UNCHANGED <<Asked, got>>
    BY DEF Service1!vars, Asked
  <2>1. ASSUME NEW c \in Clients, Client(c)
        PROVE  Service1!Next \/ UNCHANGED <<Asked, got>>
    <3>1. CASE ClientSend(c)
      BY <3>1, SendAsks DEF Service1!Next
    <3>2. CASE ClientRecv(c)
      BY <3>2, RecvReplies DEF Service1!Next
    <3>3. CASE Connect(c) \/ ClientClose(c) \/ ClientReset(c)
      BY <3>3 DEF Connect, ClientClose, ClientReset, Asked
    <3> QED  BY <2>1, <3>1, <3>2, <3>3 DEF Client
  <2>2. CASE Dispatch \/ Accepter \/ CallInterrupted \/ Recver
    BY <2>2 DEF Dispatch, EpollWait, WaitInterrupted, LoopDone, CallRecver, CallSender,
                Accepter, AcceptOne, AcceptFails, CallInterrupted, Recver, RecvData,
                RecvNothing, RecvEnds, RecvFreed, netVars, Asked
  <2>3. CASE Service \/ Sender \/ Excepter
    BY <2>3 DEF Service, ServePackage, ServiceSends, Sender, SendSome, SendFull,
                SendNothing, SendFails, EnablieReadWrite, Excepter, netVars, Asked
  <2>4. CASE UNCHANGED vars
    BY <2>4 DEF vars, netVars, Asked
  <2> QED  BY <2>1, <2>2, <2>3, <2>4 DEF Next, Server
<1> QED
  BY <1>1, <1>2, Invariance, InputInvariance, OutputIsExact, PTL
  DEF Spec, ImplementsCalcService, Service1!Spec

-----------------------------------------------------------------------------
(* Who is closed.                                                          *)

\* Every request arrives in one piece and is well-formed.
WholeRequests ==
    /\ Malformed = {}
    /\ \A i \in DOMAIN Script : Script[i].last

\* EPOLLOUT is never registered, since AddEvent cannot change a registration.
AsksForInput == \A f \in Fds \cup {Listen} : interest[f] \subseteq {"IN", "ET"}

\* So an event that calls Sender was reported of a connection that was reset.
TroubleTold ==
    \A i \in DOMAIN revs :
        revs[i].owner \in Clients /\ Writeable(revs[i]) =>
            peer[revs[i].owner] \in {"rst", "closed"}

\* The number in the event that is handled still means the connection it was
\* reported for, or none.
HeadCurrent ==
    HeadTaken =>
      IF pc = "Accept" THEN Head(revs).fd = Listen
      ELSE Head(revs).fd = Listen \/ connections[Head(revs).fd] \in {NoConn, Head(revs).owner}

\* Service runs with a package to parse or a reply to send.
ServiceReplies == pc = "Service" => inbuf[conn] # <<>> \/ outbuf[conn] # <<>>

\* Sender has something to send, or a connection that send refuses.
SenderHasOutput == pc = "Send" => outbuf[conn] # <<>> \/ peer[conn] = "rst"

CloseInv ==
    AsksForInput /\ TroubleTold /\ HeadCurrent /\ ServiceReplies /\ SenderHasOutput
    /\ OnlyErrorsClose

\* Only Accepter and Excepter change a registration.
LEMMA AsksStep == IInv /\ AsksForInput /\ [Next]_vars => AsksForInput'
<1> SUFFICES ASSUME IInv, AsksForInput, [Next]_vars  PROVE AsksForInput'
  OBVIOUS
<1> USE DEF AsksForInput
<1>0. interest \in [Fds \cup {Listen} -> SUBSET Events]
  BY DEF IInv, TypeOK
<1>1. ASSUME NEW c \in Clients, NEW f \in Fds, Opens(c, f)  PROVE AsksForInput'
  BY <1>0, <1>1 DEF Opens
<1>2. CASE Closes
  BY <1>0, <1>2 DEF Closes
<1>3. CASE UNCHANGED interest
  BY <1>3
<1> QED  BY <1>1, <1>2, <1>3, TableSteps

\* A connection that was reset or closed stays so.
LEMMA GoneStays ==
    ASSUME IInv, InputInv, [Next]_vars, NEW c \in Clients, peer[c] \in {"rst", "closed"}
    PROVE  peer'[c] \in {"rst", "closed"}
<1>0. peer \in [Clients -> {"idle", "up", "fin", "rst", "closed"}]
  BY DEF IInv, TypeOK
<1>1. CASE Client(c)
  BY <1>0, <1>1 DEF Client, Connect, ClientSend, ClientRecv, ClientClose, ClientReset
<1>2. ASSUME NEW f \in Fds, Opens(c, f)  PROVE peer' = peer
  BY <1>2 DEF Opens, AcceptOne
<1>3. CASE conn = c /\ (RecvData \/ ServePackage \/ SendSome)
  BY <1>3 DEF RecvData, ServePackage, SendSome, netVars
<1>4. CASE conn = c /\ Closes
  BY <1>0, <1>4 DEF Closes, Excepter
<1>5. CASE UNCHANGED Stream(c)
  BY <1>5 DEF Stream
<1> QED  BY <1>1, <1>2, <1>3, <1>4, <1>5, StreamSteps

\* epoll_wait reports trouble of a connection that was reset; the other steps
\* only drop events.
LEMMA TroubleStep ==
    IInv /\ EdgeInv /\ InputInv /\ AsksForInput /\ TroubleTold /\ [Next]_vars => TroubleTold'
<1> SUFFICES ASSUME IInv, EdgeInv, InputInv, AsksForInput, TroubleTold, [Next]_vars,
                    NEW i \in DOMAIN revs', revs'[i].owner \in Clients, Writeable(revs'[i])
             PROVE  peer'[revs'[i].owner] \in {"rst", "closed"}
  BY DEF TroubleTold, Writeable
<1>0. /\ revs \in Seq(Event) /\ rdlist \in Seq(Fds \cup {Listen})
      /\ connections \in [Fds -> Clients \cup {NoConn}]
      /\ peer \in [Clients -> {"idle", "up", "fin", "rst", "closed"}]
  BY DEF IInv, TypeOK
<1>1. CASE EpollWait
  <2>1. PICK m \in Nat : \E g \in [1..m -> DOMAIN rdlist] :
               revs' = [j \in 1..m |-> ReportOf(rdlist[g[j]])]
    BY <1>1, WaitFacts
  <2>2. PICK f \in Fds \cup {Listen} : revs'[i] = ReportOf(f)
    BY <1>0, <2>1
  <2>3. f # Listen /\ f \in Fds
    BY <2>2, ReactorAssumption DEF ReportOf, ReactorAssumption
  <2>4. Reported(f, PollFd(f)) \cap {"OUT", "ERR", "HUP"} # {}
    BY <2>2 DEF ReportOf, Writeable
  <2>5. PollFd(f) \cap {"ERR", "HUP"} # {}
    BY <2>3, <2>4 DEF Reported, AsksForInput
  <2>6. PICK c \in Clients : fd[c] = f /\ peer[c] = "rst"
    BY <2>3, <2>5 DEF PollFd, Poll
  <2>7. connections[f] = c
    BY <2>3, <2>6 DEF IInv, TablesAgree
  <2>8. revs'[i].owner = c /\ peer' = peer
    BY <1>1, <2>2, <2>3, <2>7, WaitFacts DEF ReportOf, netVars
  <2> QED  BY <2>6, <2>8
<1>2. CASE revs' \in {revs, Tail(revs)}
  <2>1. \E k \in DOMAIN revs : revs'[i] = revs[k]
    <3>1. CASE revs' = revs
      BY <3>1
    <3>2. CASE revs' = Tail(revs) /\ revs # <<>>
      BY <1>0, <3>2, TailEntries
    <3>3. CASE revs' = Tail(revs) /\ revs = <<>>
      BY <3>3
    <3> QED  BY <1>2, <3>1, <3>2, <3>3
  <2>2. PICK k \in DOMAIN revs : revs'[i] = revs[k]
    BY <2>1
  <2>3. peer[revs[k].owner] \in {"rst", "closed"}
    BY <2>2 DEF TroubleTold, Writeable
  <2> QED  BY <2>2, <2>3, GoneStays
<1> QED  BY <1>1, <1>2, BatchSteps

\* The head of the batch stays the one CallRecver took.
LEMMA HeadSteps ==
    ASSUME IInv, [Next]_vars, HeadTaken'
    PROVE  \/ CallRecver
           \/ HeadTaken /\ revs' = revs /\ (pc' = "Accept" => pc = "Accept")
<1> USE DEF HeadTaken
<1>1. CASE Dispatch \/ Accepter
  BY <1>1 DEF Dispatch, EpollWait, WaitInterrupted, LoopDone, CallSender,
              Accepter, AcceptOne, AcceptFails
<1>2. CASE CallInterrupted \/ Recver
  BY <1>2 DEF CallInterrupted, Recver, RecvData, RecvNothing, RecvEnds, RecvFreed
<1>3. CASE Service
  BY <1>3 DEF Service, ServePackage, ServiceSends
<1>4. CASE SendSome \/ SendFull \/ SendFails
  BY <1>4 DEF SendSome, SendFull, SendFails
<1>5. CASE SendNothing
  BY <1>5 DEF SendNothing
<1>6. CASE EnablieReadWrite \/ Excepter
  <2>1. ret \in {"Loop", "LoopOut", "Recv"}
    BY DEF IInv, TypeOK
  <2> QED  BY <1>6, <2>1 DEF EnablieReadWrite, Excepter
<1>7. ASSUME NEW c \in Clients, Client(c)
      PROVE  HeadTaken /\ revs' = revs /\ (pc' = "Accept" => pc = "Accept")
  BY <1>7, ClientSteps DEF cpuVars
<1>8. CASE UNCHANGED vars
  BY <1>8 DEF vars, cpuVars
<1> QED  BY <1>1, <1>2, <1>3, <1>4, <1>5, <1>6, <1>7, <1>8 DEF Next, Server, Sender

\* A number is given to a new connection only while the listening descriptor is
\* the one handled.
LEMMA HeadStep == IInv /\ EdgeInv /\ HeadCurrent /\ [Next]_vars => HeadCurrent'
<1> SUFFICES ASSUME IInv, EdgeInv, HeadCurrent, [Next]_vars, HeadTaken'
             PROVE  IF pc' = "Accept" THEN Head(revs').fd = Listen
                    ELSE \/ Head(revs').fd = Listen
                         \/ connections'[Head(revs').fd] \in {NoConn, Head(revs').owner}
  BY DEF HeadCurrent
<1>0. revs \in Seq(Event) /\ connections \in [Fds -> Clients \cup {NoConn}]
  BY DEF IInv, TypeOK
<1>1. CASE CallRecver
  <2>1. /\ revs # <<>> /\ revs' = revs /\ connections' = connections /\ Unhandled = revs
        /\ pc' = "Accept" => Head(revs).fd = Listen
    BY <1>1, BatchSteps DEF CallRecver, connVars, EpollWait
  <2>2. 1 \in DOMAIN revs /\ revs[1] = Head(revs)
    BY <1>0, <2>1, TailEntries
  <2> QED  BY <2>1, <2>2 DEF EdgeInv, BatchOwned
<1>2. CASE HeadTaken /\ revs' = revs /\ (pc' = "Accept" => pc = "Accept")
  <2>1. CASE pc = "Accept"
    BY <1>2, <2>1 DEF HeadCurrent
  <2>2. CASE pc # "Accept"
    <3>1. Head(revs).fd = Listen \/ connections[Head(revs).fd] \in {NoConn, Head(revs).owner}
      BY <1>2, <2>2 DEF HeadCurrent
    <3>2. ASSUME NEW c \in Clients, NEW f \in Fds, Opens(c, f)  PROVE FALSE
      BY <2>2, <3>2 DEF Opens, AcceptOne
    <3>3. CASE Closes
      <4>1. revs # <<>> /\ Head(revs) \in Event
        BY <1>0, <1>2 DEF IInv, RevsInv
      <4>2. Head(revs).fd # Listen => Head(revs).fd \in Fds
        BY <4>1 DEF Event
      <4> QED  BY <1>0, <1>2, <2>2, <3>1, <3>3, <4>2 DEF Closes
    <3>4. CASE connections' = connections
      BY <1>2, <2>2, <3>1, <3>4
    <3> QED  BY <3>2, <3>3, <3>4, TableSteps
  <2> QED  BY <2>1, <2>2
<1> QED  BY <1>1, <1>2, HeadSteps

\* recv and parsing leave Service something to reply to.
LEMMA ServiceStep ==
    ASSUME WholeRequests, IInv, ServiceReplies, [Next]_vars
    PROVE  ServiceReplies'
<1> USE DEF ServiceReplies
<1>0. /\ inbuf \in [Clients -> Seq(Fragment)] /\ outbuf \in [Clients -> Seq(Nat)]
      /\ pc \in {"Recv", "Service", "Send", "Enable", "Except"} => conn \in Clients
      /\ ret \in {"Loop", "LoopOut", "Recv"}
  BY DEF IInv, TypeOK
<1>1. CASE RecvData
  <2> DEFINE n == Least(RecvMax, Len(rcvbuf[conn]))
             x == SubSeq(rcvbuf[conn], 1, n)
  <2>1. conn \in Clients /\ rcvbuf[conn] # <<>> /\ rcvbuf[conn] \in Seq(Fragment)
    BY <1>0, <1>1 DEF RecvData, IInv, TypeOK
  <2>2. Len(rcvbuf[conn]) \in Nat \ {0} /\ RecvMax \in Nat \ {0}
    BY <2>1, EmptySeq, ReactorAssumption DEF ReactorAssumption
  <2>3. n \in 1..Len(rcvbuf[conn])
    BY <2>2 DEF Least
  <2> HIDE DEF n
  <2>4. x \in Seq(Fragment) /\ Len(x) = n
    BY <2>1, <2>2, <2>3
  <2>5. x # <<>>
    BY <2>3, <2>4, EmptySeq
  <2> HIDE DEF x
  <2>6. inbuf[conn] \o x # <<>>
    BY <1>0, <2>1, <2>4, <2>5, ConcatEqualIffEmpty
  <2>7. inbuf'[conn] = inbuf[conn] \o x /\ conn' = conn
    BY <1>0, <1>1, <2>1 DEF RecvData, n, x
  <2> QED  BY <2>6, <2>7
<1>2. CASE ServePackage
  <2>1. /\ conn' = conn /\ conn \in Clients
        /\ \E k \in Nat : outbuf'[conn] = Append(outbuf[conn], k)
    <3>1. PICK n \in PackageEnds(inbuf[conn]) :
             outbuf' = [outbuf EXCEPT ![conn] =
                IF inbuf[conn][n].req \in Malformed THEN @ ELSE Append(@, inbuf[conn][n].req)]
      BY <1>2 DEF ServePackage
    <3>2. conn \in Clients /\ conn' = conn
      BY <1>0, <1>2 DEF ServePackage
    <3>3. inbuf[conn][n] \in Fragment
      BY <1>0, <3>1, <3>2 DEF PackageEnds
    <3> QED  BY <1>0, <3>1, <3>2, <3>3 DEF WholeRequests, Fragment
  <2>2. outbuf'[conn] # <<>>
    <3>1. PICK k \in Nat : outbuf'[conn] = Append(outbuf[conn], k)
      BY <2>1
    <3>2. outbuf[conn] \in Seq(Nat)
      BY <1>0, <2>1
    <3>3. Append(outbuf[conn], k) # <<>>
      BY <3>2, AppendProperties
    <3> QED  BY <3>1, <3>3
  <2> QED  BY <2>1, <2>2
<1>3. CASE Dispatch \/ Accepter \/ CallInterrupted \/ RecvNothing \/ RecvEnds \/ RecvFreed
  BY <1>3 DEF Dispatch, EpollWait, WaitInterrupted, LoopDone, CallRecver, CallSender,
              Accepter, AcceptOne, AcceptFails, AddConnection, CallInterrupted,
              RecvNothing, RecvEnds, RecvFreed
<1>4. CASE ServiceSends \/ Sender \/ Excepter
  <2>1. pc' # "Service"
    <3>1. CASE SendNothing
      BY <3>1 DEF SendNothing
    <3> QED  BY <1>0, <1>4, <3>1 DEF ServiceSends, Sender, SendSome, SendFull, SendFails,
                                EnablieReadWrite, Excepter
  <2> QED  BY <2>1
<1>5. ASSUME NEW c \in Clients, Client(c)  PROVE ServiceReplies'
  BY <1>5, ClientSteps DEF cpuVars, connVars
<1>6. CASE UNCHANGED vars
  BY <1>6 DEF vars, cpuVars, connVars
<1> QED
  BY <1>1, <1>2, <1>3, <1>4, <1>5, <1>6 DEF Next, Server, Recver, Service

\* What a connection that has a descriptor has received are whole requests.
LEMMA WholeInput ==
    ASSUME WholeRequests, IInv, InputInv, NEW c \in Clients, fd[c] # NoFd,
           PackageEnds(inbuf[c]) = {}
    PROVE  inbuf[c] = <<>>
<1> SUFFICES ASSUME inbuf[c] # <<>>  PROVE FALSE
  OBVIOUS
<1>1. /\ inbuf[c] \in Seq(Fragment) /\ rcvbuf[c] \in Seq(Fragment)
      /\ sent[c] \in 0..Len(Script)
  BY StreamTypes
<1>2. PICK t \in 0..sent[c] : inbuf[c] \o rcvbuf[c] = SubSeq(Script, t + 1, sent[c])
  BY DEF InputInv, Begins, Consumed
<1>3. 1 \in 0..Len(inbuf[c]) /\ 1 \in DOMAIN inbuf[c]
  BY <1>1, EmptySeq
<1>4. t + 1 <= sent[c] /\ \A i \in 1..1 : inbuf[c][i] = Script[t + i]
  BY <1>1, <1>2, <1>3, TakeFragments
<1>5. t + 1 \in DOMAIN Script
  BY <1>1, <1>4, ScriptFacts
<1>6. inbuf[c][1].last
  BY <1>4, <1>5 DEF WholeRequests
<1> QED  BY <1>3, <1>6 DEF PackageEnds

\* Sender is called to send something, and goes on while there is more; or Loop
\* called it for a connection that was reset.
LEMMA SenderStep ==
    ASSUME WholeRequests, IInv, InputInv, CloseInv, [Next]_vars
    PROVE  SenderHasOutput'
<1> USE DEF SenderHasOutput
<1>0. /\ peer \in [Clients -> {"idle", "up", "fin", "rst", "closed"}]
      /\ connections \in [Fds -> Clients \cup {NoConn}]
      /\ revs \in Seq(Event) /\ ret \in {"Loop", "LoopOut", "Recv"}
      /\ pc \in {"Recv", "Service", "Send", "Enable", "Except"} => conn \in Clients
      /\ SenderHasOutput
  BY DEF IInv, TypeOK, CloseInv
<1>1. CASE CallSender
  <2> DEFINE e == Head(revs)
  <2>1. /\ HeadTaken /\ pc # "Accept" /\ revs # <<>> /\ peer' = peer
    BY <1>1 DEF CallSender, HeadTaken, IInv, RevsInv, netVars
  <2>2. e \in Event /\ 1 \in DOMAIN revs /\ revs[1] = e
    BY <1>0, <2>1, TailEntries
  <2>3. SUFFICES ASSUME pc' = "Send"  PROVE peer[conn'] = "rst"
    BY <2>1
  <2>4. Writeable(e) /\ e.fd # Listen /\ IsConnections(e.fd) /\ conn' = connections[e.fd]
    BY <1>1, <2>3 DEF CallSender
  <2> HIDE DEF e
  <2>5. e.fd \in Fds /\ connections[e.fd] \in Clients
    BY <1>0, <2>2, <2>4 DEF Event, IsConnections
  <2>6. e.owner = conn' /\ conn' \in Clients
    <3>1. connections[e.fd] \in {NoConn, e.owner}
      BY <2>1, <2>4 DEF CloseInv, HeadCurrent, e
    <3> QED  BY <2>4, <2>5, <3>1, ReactorAssumption DEF ReactorAssumption
  <2>7. peer[conn'] \in {"rst", "closed"}
    BY <2>2, <2>4, <2>6 DEF CloseInv, TroubleTold
  <2>8. fd[conn'] = e.fd
    BY <2>4, <2>5 DEF IInv, TablesAgree
  <2>9. peer[conn'] # "closed"
    BY <2>5, <2>6, <2>8, NoFdFacts DEF InputInv, Begins
  <2> QED  BY <2>7, <2>9
<1>2. CASE ServiceSends
  <2>1. conn \in Clients /\ fd[conn] # NoFd /\ PackageEnds(inbuf[conn]) = {}
    BY <1>2, HandlerEntry, NoFdFacts DEF ServiceSends
  <2>2. outbuf[conn] # <<>>
    BY <1>2, <2>1, WholeInput DEF ServiceSends, CloseInv, ServiceReplies
  <2> QED  BY <1>2, <2>2 DEF ServiceSends, connVars
<1>3. CASE SendSome
  BY <1>3 DEF SendSome
<1>4. CASE SendNothing
  BY <1>0, <1>4 DEF SendNothing
<1>5. CASE SendFull \/ SendFails \/ EnablieReadWrite \/ Excepter
  BY <1>0, <1>5 DEF SendFull, SendFails, EnablieReadWrite, Excepter
<1>6. CASE CallInterrupted
  BY <1>0, <1>6 DEF CallInterrupted, netVars, connVars
<1>7. CASE EpollWait \/ WaitInterrupted \/ LoopDone \/ CallRecver \/ Accepter
  BY <1>7 DEF EpollWait, WaitInterrupted, LoopDone, CallRecver,
              Accepter, AcceptOne, AcceptFails, AddConnection
<1>8. CASE Recver \/ ServePackage
  BY <1>8 DEF Recver, RecvData, RecvNothing, RecvEnds, RecvFreed, ServePackage
<1>9. ASSUME NEW c \in Clients, Client(c)  PROVE SenderHasOutput'
  <2>1. UNCHANGED <<outbuf, pc, conn>>
    BY <1>9, ClientSteps DEF cpuVars, connVars
  <2>2. pc = "Send" /\ peer[conn] = "rst" => peer'[conn] = "rst"
    BY <1>0, <1>9 DEF Client, Connect, ClientSend, ClientRecv, ClientClose, ClientReset
  <2> QED  BY <1>0, <2>1, <2>2
<1>10. CASE UNCHANGED vars
  BY <1>0, <1>10 DEF vars, cpuVars, connVars, netVars
<1> QED
  BY <1>1, <1>2, <1>3, <1>4, <1>5, <1>6, <1>7, <1>8, <1>9, <1>10
  DEF Next, Server, Dispatch, Service, Sender

\* Excepter is called after recv returned the end of file or an error, or after
\* send failed; never after a send of nothing.
LEMMA ErrorsStep ==
    ASSUME IInv, CloseInv, [Next]_vars  PROVE OnlyErrorsClose'
<1> USE DEF OnlyErrorsClose
<1>0. /\ peer \in [Clients -> {"idle", "up", "fin", "rst", "closed"}]
      /\ ret \in {"Loop", "LoopOut", "Recv"}
      /\ pc \in {"Recv", "Service", "Send", "Enable", "Except"} => conn \in Clients
      /\ OnlyErrorsClose /\ SenderHasOutput
  BY DEF IInv, TypeOK, CloseInv
<1>1. CASE RecvEnds
  BY <1>1 DEF RecvEnds, netVars
<1>2. CASE SendFails
  BY <1>2 DEF SendFails, netVars
<1>3. CASE SendNothing
  BY <1>0, <1>3 DEF SendNothing, SenderHasOutput
<1>4. CASE Dispatch \/ Accepter \/ CallInterrupted
  BY <1>4 DEF Dispatch, EpollWait, WaitInterrupted, LoopDone, CallRecver, CallSender,
              Accepter, AcceptOne, AcceptFails, AddConnection, CallInterrupted
<1>5. CASE RecvData \/ RecvNothing \/ RecvFreed \/ Service
  BY <1>5 DEF RecvData, RecvNothing, RecvFreed, Service, ServePackage, ServiceSends
<1>6. CASE SendSome \/ SendFull \/ EnablieReadWrite \/ Excepter
  BY <1>0, <1>6 DEF SendSome, SendFull, EnablieReadWrite, Excepter
<1>7. ASSUME NEW c \in Clients, Client(c)  PROVE OnlyErrorsClose'
  <2>1. UNCHANGED <<pc, conn>>
    BY <1>7, ClientSteps DEF cpuVars
  <2>2. pc = "Except" => (peer[conn] \in {"fin", "rst"} => peer'[conn] \in {"fin", "rst"})
    BY <1>0, <1>7 DEF Client, Connect, ClientSend, ClientRecv, ClientClose, ClientReset
  <2> QED  BY <1>0, <2>1, <2>2
<1>8. CASE UNCHANGED vars
  BY <1>0, <1>8 DEF vars, cpuVars, netVars
<1> QED
  BY <1>1, <1>2, <1>3, <1>4, <1>5, <1>6, <1>7, <1>8 DEF Next, Server, Recver, Sender

\* "Really an error" (TcpServer.hpp:137): when every request arrives in one piece
\* and none is refused, the server closes only connections the peer has closed or
\* reset, for any number of clients, receive sizes and resets.  With a request in
\* two pieces TLC finds the connection that is closed for an old errno.
THEOREM ErrorsOnlyClose ==
    ASSUME WholeRequests  PROVE Spec => []OnlyErrorsClose
<1>1. Init => CloseInv
  BY DEF Init, CloseInv, AsksForInput, TroubleTold, HeadCurrent, HeadTaken, ServiceReplies,
         SenderHasOutput, OnlyErrorsClose
<1>2. IInv /\ EdgeInv /\ InputInv /\ CloseInv /\ [Next]_vars => CloseInv'
  BY AsksStep, TroubleStep, HeadStep, ServiceStep, SenderStep, ErrorsStep DEF CloseInv
<1>3. CloseInv => OnlyErrorsClose
  BY DEF CloseInv
<1> QED  BY <1>1, <1>2, <1>3, Invariance, EdgesInvariance, InputInvariance, PTL DEF Spec
=============================================================================
