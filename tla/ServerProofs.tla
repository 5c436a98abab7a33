---------------------------- MODULE ServerProofs ----------------------------
(***************************************************************************)
(* Proofs about the servers of Servers, for any number of clients,         *)
(* chunks, descriptors, workers and tasks: what the calls do to a          *)
(* connection, the servers that wait for several descriptors               *)
(* (PollingServers), the thread pool with its programs (PoolPrograms), the *)
(* servers that fork (ForkServers), and all of them side by side.          *)
(***************************************************************************)
EXTENDS Servers, ThreadCounts, SequenceTheorems, WellFoundedInduction

-----------------------------------------------------------------------------
(* The connections.                                                        *)

\* The types of the network.
NetTypes ==
    /\ backlog \in Seq(Clients) /\ sock \in [Clients -> Conns(Nat)]
    /\ sent \in [Clients -> Nat] /\ got \in [Clients -> Seq(Nat)]

\* What happens to a connection keeps its type, as long as it brings no chunk.
LEMMA EndTypes ==
    ASSUME NEW D, NEW k \in Conns(D)
    PROVE  /\ AfterAccept(k) \in Conns(D) /\ AfterRecv(k) \in Conns(D)
           /\ AfterClose(k) \in Conns(D) /\ AfterReset(k) \in Conns(D)
           /\ [k EXCEPT !.peer = "open"] \in Conns(D)
           /\ [k EXCEPT !.peer = "gone", !.fin = TRUE] \in Conns(D)
           /\ k.out # <<>> => [k EXCEPT !.out = Tail(@)] \in Conns(D)
<1>0. /\ <<>> \in Seq(D) /\ k.in \in Seq(D) /\ k.out \in Seq(D)
      /\ k.in # <<>> => Tail(k.in) \in Seq(D)
      /\ k.out # <<>> => Tail(k.out) \in Seq(D)
  BY DEF Conns
<1>1. AfterAccept(k) \in Conns(D)
  BY DEF AfterAccept, Conns
<1>2. AfterRecv(k) \in Conns(D)
  <2>1. \A s \in Seq(D) : [k EXCEPT !.in = s] \in Conns(D)
    BY DEF Conns
  <2>2. [k EXCEPT !.err = "none"] \in Conns(D)
    BY DEF Conns
  <2>3. k.in # <<>> <=> RecvResult(k) = "data"
    BY <1>0 DEF RecvResult
  <2>4. RecvResult(k) \in {"data", "eof", "error"}
    BY DEF RecvResult
  <2> QED  BY <1>0, <2>1, <2>2, <2>3, <2>4 DEF AfterRecv
<1>3. AfterClose(k) \in Conns(D)
  <2>1. \A s, t \in Seq(D) : [k EXCEPT !.srv = "closed", !.in = s, !.err = "none",
                                         !.out = t] \in Conns(D)
    BY DEF Conns
  <2> QED  BY <1>0, <2>1 DEF AfterClose
<1>4. AfterReset(k) \in Conns(D)
  <2>1. \A s \in Seq(D) : [k EXCEPT !.peer = "gone", !.out = s, !.dead = TRUE,
                                      !.err = "ECONNRESET"] \in Conns(D)
    BY DEF Conns
  <2> QED  BY <1>0, <2>1 DEF AfterReset
<1>5. /\ [k EXCEPT !.peer = "open"] \in Conns(D)
      /\ [k EXCEPT !.peer = "gone", !.fin = TRUE] \in Conns(D)
  BY DEF Conns
<1>6. k.out # <<>> => [k EXCEPT !.out = Tail(@)] \in Conns(D)
  <2>1. \A s \in Seq(D) : [k EXCEPT !.out = s] \in Conns(D)
    BY DEF Conns
  <2> QED  BY <1>0, <2>1
<1> QED  BY <1>1, <1>2, <1>3, <1>4, <1>5, <1>6

\* A chunk n that is written, or sent, is one more.
LEMMA ConnTypes ==
    ASSUME NEW D, NEW k \in Conns(D), NEW n \in D
    PROVE  /\ AfterAccept(k) \in Conns(D) /\ AfterRecv(k) \in Conns(D)
           /\ AfterWrite(k, n) \in Conns(D) /\ AfterClose(k) \in Conns(D)
           /\ AfterSend(k, n) \in Conns(D) /\ AfterReset(k) \in Conns(D)
           /\ [k EXCEPT !.peer = "open"] \in Conns(D)
           /\ [k EXCEPT !.peer = "gone", !.fin = TRUE] \in Conns(D)
           /\ k.out # <<>> => [k EXCEPT !.out = Tail(@)] \in Conns(D)
<1>0. /\ <<>> \in Seq(D)
      /\ Append(k.in, n) \in Seq(D) /\ Append(k.out, n) \in Seq(D)
      /\ k.dead \in BOOLEAN
  BY DEF Conns
<1>1. AfterWrite(k, n) \in Conns(D)
  <2>1. \A s \in Seq(D) : [k EXCEPT !.out = s] \in Conns(D)
    BY DEF Conns
  <2>2. /\ [k EXCEPT !.err = "none"] \in Conns(D)
        /\ [k EXCEPT !.dead = TRUE, !.err = "EPIPE"] \in Conns(D)
    BY DEF Conns
  <2> QED  BY <1>0, <2>1, <2>2 DEF AfterWrite
<1>2. AfterSend(k, n) \in Conns(D)
  <2>1. \A s \in Seq(D) : [k EXCEPT !.in = s] \in Conns(D)
    BY DEF Conns
  <2>2. \A s \in Seq(D) : [k EXCEPT !.out = s, !.dead = TRUE] \in Conns(D)
    BY DEF Conns
  <2> QED  BY <1>0, <2>1, <2>2 DEF AfterSend
<1> QED  BY <1>1, <1>2, EndTypes

\* A connection field by field.
LEMMA ConnFields ==
    ASSUME NEW k \in Conns(Nat), NEW n \in Nat
    PROVE  /\ /\ AfterAccept(k).in = k.in /\ AfterAccept(k).out = k.out
              /\ AfterAccept(k).srv = "open" /\ AfterAccept(k).peer = k.peer
              /\ AfterAccept(k).fin = k.fin /\ AfterAccept(k).dead = k.dead
           /\ /\ AfterRecv(k).in = IF k.in # <<>> THEN Tail(k.in) ELSE k.in
              /\ AfterRecv(k).out = k.out /\ AfterRecv(k).dead = k.dead
              /\ AfterRecv(k).srv = k.srv /\ AfterRecv(k).peer = k.peer
           /\ /\ AfterWrite(k, n).in = k.in /\ AfterWrite(k, n).fin = k.fin
              /\ AfterWrite(k, n).srv = k.srv /\ AfterWrite(k, n).peer = k.peer
              /\ k.dead => AfterWrite(k, n).dead
              /\ AfterWrite(k, n).out = k.out \/ AfterWrite(k, n).dead = k.dead
              /\ AfterWrite(k, n).out = IF k.dead \/ k.peer = "gone" THEN k.out
                                        ELSE Append(k.out, n)
           /\ /\ AfterClose(k).srv = "closed" /\ AfterClose(k).peer = k.peer
              /\ AfterClose(k).out \in {k.out, <<>>} /\ AfterClose(k).in = <<>>
           /\ /\ AfterSend(k, n).srv = k.srv /\ AfterSend(k, n).peer = k.peer
              /\ Readable(AfterSend(k, n))
              /\ AfterSend(k, n).out \in {k.out, <<>>}
              /\ k.srv # "closed" => /\ AfterSend(k, n).in = Append(k.in, n)
                                     /\ AfterSend(k, n).out = k.out
           /\ /\ AfterReset(k).srv = k.srv /\ AfterReset(k).peer = "gone"
              /\ AfterReset(k).dead /\ AfterReset(k).out = <<>>
<1>0. k.in \in Seq(Nat) /\ Append(k.in, n) # <<>>
  <2>1. k.in \in Seq(Nat)
    BY DEF Conns
  <2> QED  BY <2>1
<1>1. /\ AfterAccept(k).in = k.in /\ AfterAccept(k).out = k.out
      /\ AfterAccept(k).srv = "open" /\ AfterAccept(k).peer = k.peer
      /\ AfterAccept(k).fin = k.fin /\ AfterAccept(k).dead = k.dead
  BY DEF AfterAccept, Conns
<1>2. /\ AfterRecv(k).in = IF k.in # <<>> THEN Tail(k.in) ELSE k.in
      /\ AfterRecv(k).out = k.out /\ AfterRecv(k).dead = k.dead
      /\ AfterRecv(k).srv = k.srv /\ AfterRecv(k).peer = k.peer
  <2>1. k.in # <<>> <=> RecvResult(k) = "data"
    BY <1>0 DEF RecvResult
  <2>2. RecvResult(k) \in {"data", "eof", "error"}
    BY DEF RecvResult
  <2> QED  BY <2>1, <2>2 DEF AfterRecv, Conns
<1>3. /\ AfterWrite(k, n).in = k.in /\ AfterWrite(k, n).fin = k.fin
      /\ AfterWrite(k, n).srv = k.srv /\ AfterWrite(k, n).peer = k.peer
      /\ k.dead => AfterWrite(k, n).dead
      /\ AfterWrite(k, n).out = k.out \/ AfterWrite(k, n).dead = k.dead
      /\ AfterWrite(k, n).out = IF k.dead \/ k.peer = "gone" THEN k.out
                                ELSE Append(k.out, n)
  BY DEF AfterWrite, Conns
<1>4. /\ AfterClose(k).srv = "closed" /\ AfterClose(k).peer = k.peer
      /\ AfterClose(k).out \in {k.out, <<>>} /\ AfterClose(k).in = <<>>
  BY DEF AfterClose, Conns
<1>5. /\ AfterSend(k, n).srv = k.srv /\ AfterSend(k, n).peer = k.peer
      /\ AfterSend(k, n).out \in {k.out, <<>>}
      /\ k.srv # "closed" => /\ AfterSend(k, n).in = Append(k.in, n)
                             /\ AfterSend(k, n).out = k.out
      /\ k.srv = "closed" => AfterSend(k, n).dead
  BY DEF AfterSend, Conns
<1>6. Readable(AfterSend(k, n))
  BY <1>0, <1>5 DEF Readable
<1>7. /\ AfterReset(k).srv = k.srv /\ AfterReset(k).peer = "gone"
      /\ AfterReset(k).dead /\ AfterReset(k).out = <<>>
  BY DEF AfterReset, Conns
<1> QED  BY <1>1, <1>2, <1>3, <1>4, <1>5, <1>6, <1>7

\* What recv would not wait for, it will not wait for later.
LEMMA ConnReadable ==
    ASSUME NEW k \in Conns(Nat), NEW n \in Nat
    PROVE  /\ Readable(AfterAccept(k)) <=> Readable(k)
           /\ Readable(k) => Readable(AfterWrite(k, n))
BY ConnFields DEF Readable

\* A client keeps the types and what can be read; it changes its own end only,
\* and only a connection it has not opened yet is new in the backlog.
LEMMA ClientKeeps ==
    ASSUME NetTypes, NEW c \in Clients, Client(c)
    PROVE  /\ backlog' \in Seq(Clients) /\ sock' \in [Clients -> Conns(Nat)]
           /\ sent' \in [Clients -> Nat] /\ got' \in [Clients -> Seq(Nat)]
           /\ \A d \in Clients : /\ Readable(sock[d]) => Readable(sock'[d])
                                 /\ sock'[d].srv = sock[d].srv
                                 /\ sock'[d].peer = "none" => sock[d].peer = "none"
           /\ \/ backlog' = backlog
              \/ /\ backlog' = Append(backlog, c) /\ sock[c].peer = "none"
                 /\ sock'[c].peer = "open"
<1> USE DEF NetTypes
<1>0. sock[c] \in Conns(Nat) /\ sent[c] \in Nat /\ got[c] \in Seq(Nat)
  OBVIOUS
<1>1. CASE Connect(c)
  <2> DEFINE k == [sock[c] EXCEPT !.peer = "open"]
  <2>1. /\ sock' = [sock EXCEPT ![c] = k] /\ backlog' = Append(backlog, c)
        /\ sock[c].peer = "none" /\ UNCHANGED <<sent, got>>
    BY <1>1 DEF Connect
  <2>2. k \in Conns(Nat)
    BY <1>0, ConnTypes
  <2>3. /\ k.in = sock[c].in /\ k.fin = sock[c].fin /\ k.dead = sock[c].dead
        /\ k.srv = sock[c].srv /\ k.peer = "open"
    BY <1>0 DEF Conns
  <2> HIDE DEF k
  <2> QED  BY <2>1, <2>2, <2>3 DEF Readable
<1>2. CASE ClientSend(c)
  <2> DEFINE k == AfterSend(sock[c], sent[c] + 1)
  <2>0. sent[c] + 1 \in Nat
    BY <1>0
  <2>1. k \in Conns(Nat) /\ Readable(k) /\ k.srv = sock[c].srv /\ k.peer = sock[c].peer
    <3>1. k \in Conns(Nat)
      BY <1>0, <2>0, ConnTypes
    <3>2. Readable(k) /\ k.srv = sock[c].srv /\ k.peer = sock[c].peer
      BY <1>0, <2>0, ConnFields
    <3> QED  BY <3>1, <3>2
  <2>2. /\ sent' = [sent EXCEPT ![c] = sent[c] + 1]
        /\ sock' = [sock EXCEPT ![c] = k]
        /\ UNCHANGED <<backlog, got>>
    BY <1>2 DEF ClientSend
  <2> HIDE DEF k
  <2> QED  BY <2>1, <2>2
<1>3. CASE ClientRecv(c)
  <2> DEFINE k == [sock[c] EXCEPT !.out = Tail(@)]
  <2>1. /\ sock' = [sock EXCEPT ![c] = k] /\ sock[c].out # <<>>
        /\ got' = [got EXCEPT ![c] = Append(@, Head(sock[c].out))]
        /\ UNCHANGED <<backlog, sent>>
    BY <1>3 DEF ClientRecv
  <2>2. k \in Conns(Nat)
    BY <1>0, <2>1, ConnTypes
  <2>3. /\ Head(sock[c].out) \in Nat /\ k.srv = sock[c].srv /\ k.peer = sock[c].peer
        /\ k.in = sock[c].in /\ k.fin = sock[c].fin /\ k.dead = sock[c].dead
    BY <1>0, <2>1 DEF Conns
  <2>4. Append(got[c], Head(sock[c].out)) \in Seq(Nat)
    BY <1>0, <2>3
  <2> HIDE DEF k
  <2> QED  BY <2>1, <2>2, <2>3, <2>4 DEF Readable
<1>4. CASE ClientClose(c)
  <2> DEFINE k == IF sock[c].out = <<>> THEN [sock[c] EXCEPT !.peer = "gone", !.fin = TRUE]
                  ELSE AfterReset(sock[c])
  <2>1. sock' = [sock EXCEPT ![c] = k] /\ UNCHANGED <<backlog, sent, got>>
    BY <1>4 DEF ClientClose
  <2>2. k \in Conns(Nat)
    BY <1>0, ConnTypes
  <2>3. Readable(k) /\ k.srv = sock[c].srv /\ k.peer = "gone"
    <3>1. CASE sock[c].out = <<>>
      BY <1>0, <3>1 DEF Conns, Readable
    <3>2. CASE sock[c].out # <<>>
      BY <1>0, <3>2, ConnFields DEF Readable
    <3> QED  BY <3>1, <3>2
  <2> HIDE DEF k
  <2> QED  BY <2>1, <2>2, <2>3
<1>5. CASE ClientReset(c)
  <2> DEFINE k == AfterReset(sock[c])
  <2>1. k \in Conns(Nat) /\ Readable(k) /\ k.srv = sock[c].srv /\ k.peer = "gone"
    BY <1>0, ConnTypes, ConnFields DEF Readable
  <2>2. sock' = [sock EXCEPT ![c] = k] /\ UNCHANGED <<backlog, sent, got>>
    BY <1>5 DEF ClientReset
  <2> HIDE DEF k
  <2> QED  BY <2>1, <2>2
<1> QED  BY <1>1, <1>2, <1>3, <1>4, <1>5 DEF Client

\* A connection waits for accept once, from connect on, and nobody serves it
\* meanwhile.
Arrivals ==
    /\ \A c \in Clients : sock[c].peer = "none" => sock[c].srv = "none"
    /\ \A i \in DOMAIN backlog : /\ sock[backlog[i]].srv = "none"
                                 /\ sock[backlog[i]].peer # "none"
    /\ \A i, j \in DOMAIN backlog : backlog[i] = backlog[j] => i = j

\* The first in the backlog goes to accept.
LEMMA ArrivalAccepted ==
    ASSUME NetTypes, Arrivals, backlog # <<>>, backlog' = Tail(backlog),
           NEW k \in Conns(Nat), k.peer = sock[Head(backlog)].peer,
           sock' = [sock EXCEPT ![Head(backlog)] = k]
    PROVE  /\ Arrivals' /\ backlog' \in Seq(Clients) /\ sock' \in [Clients -> Conns(Nat)]
           /\ sock'[Head(backlog)] = k
           /\ \A d \in Clients \ {Head(backlog)} : sock'[d] = sock[d]
<1> DEFINE c == Head(backlog)
<1>1. /\ c \in Clients /\ c = backlog[1] /\ 1 \in DOMAIN backlog /\ backlog' \in Seq(Clients)
      /\ \A i \in DOMAIN backlog' : /\ i + 1 \in DOMAIN backlog /\ i + 1 # 1 /\ i \in Nat
                                    /\ backlog'[i] = backlog[i + 1] /\ backlog'[i] \in Clients
  BY DEF NetTypes
<1>2. k.peer # "none" /\ \A i \in DOMAIN backlog' : backlog'[i] # c
  BY <1>1 DEF Arrivals
<1> HIDE DEF c
<1>3. /\ sock' \in [Clients -> Conns(Nat)] /\ sock'[c] = k
      /\ \A d \in Clients \ {c} : sock'[d] = sock[d]
  BY <1>1 DEF NetTypes, c
<1>4. \A d \in Clients : sock'[d].peer = "none" => sock'[d].srv = "none"
  BY <1>2, <1>3 DEF Arrivals
<1>5. \A i \in DOMAIN backlog' : sock'[backlog'[i]].srv = "none" /\ sock'[backlog'[i]].peer # "none"
  BY <1>1, <1>2, <1>3 DEF Arrivals
<1>6. ASSUME NEW i \in DOMAIN backlog', NEW j \in DOMAIN backlog', backlog'[i] = backlog'[j]
      PROVE  i = j
  <2>1. i + 1 = j + 1 /\ i \in Nat /\ j \in Nat
    BY <1>1, <1>6 DEF Arrivals
  <2> QED  BY <2>1
<1> QED  BY <1>1, <1>3, <1>4, <1>5, <1>6 DEF Arrivals, c

\* Who is first in the backlog.
LEMMA FirstArrival ==
    ASSUME NetTypes, Arrivals, backlog # <<>>
    PROVE  /\ Head(backlog) \in Clients /\ sock[Head(backlog)] \in Conns(Nat)
           /\ sock[Head(backlog)].srv = "none" /\ sock[Head(backlog)].peer # "none"
<1>1. Head(backlog) \in Clients /\ Head(backlog) = backlog[1] /\ 1 \in DOMAIN backlog
  BY DEF NetTypes
<1> QED  BY <1>1 DEF NetTypes, Arrivals

\* What happens to connections that are open is nothing to the backlog.
LEMMA ArrivalsStay ==
    ASSUME NetTypes, Arrivals, backlog' = backlog,
           \A d \in Clients : /\ sock'[d].peer = sock[d].peer
                              /\ sock'[d].srv # sock[d].srv => sock[d].srv # "none"
    PROVE  Arrivals'
<1>1. \A i \in DOMAIN backlog : backlog[i] \in Clients
  BY DEF NetTypes
<1>2. \A i \in DOMAIN backlog : sock'[backlog[i]].srv = "none" /\ sock'[backlog[i]].peer # "none"
  BY <1>1 DEF Arrivals
<1>3. \A d \in Clients : sock'[d].peer = "none" => sock'[d].srv = "none"
  BY DEF Arrivals
<1> QED  BY <1>2, <1>3 DEF Arrivals

\* A client that connects is the last.
LEMMA ClientArrives ==
    ASSUME NetTypes, Arrivals, NEW c \in Clients, Client(c)
    PROVE  Arrivals'
<1>1. /\ \A d \in Clients : /\ sock'[d].srv = sock[d].srv
                            /\ sock'[d].peer = "none" => sock[d].peer = "none"
      /\ \/ backlog' = backlog
         \/ /\ backlog' = Append(backlog, c) /\ sock[c].peer = "none"
            /\ sock'[c].peer = "open"
  BY ClientKeeps
<1>2. \A d \in Clients : sock'[d].peer = "none" => sock'[d].srv = "none"
  BY <1>1 DEF Arrivals
<1>3. \A i \in DOMAIN backlog : /\ backlog[i] \in Clients /\ sock'[backlog[i]].srv = "none"
                                /\ sock'[backlog[i]].peer # "none"
  <2>1. \A i \in DOMAIN backlog : backlog[i] \in Clients
    BY DEF NetTypes
  <2> QED  BY <1>1, <2>1 DEF Arrivals
<1>4. CASE backlog' = backlog
  BY <1>2, <1>3, <1>4 DEF Arrivals
<1>5. CASE /\ backlog' = Append(backlog, c) /\ sock[c].peer = "none"
           /\ sock'[c].peer = "open"
  <2>1. /\ DOMAIN backlog' = 1 .. (Len(backlog) + 1) /\ Len(backlog) \in Nat
        /\ DOMAIN backlog = 1 .. Len(backlog) /\ backlog'[Len(backlog) + 1] = c
        /\ \A i \in DOMAIN backlog : backlog'[i] = backlog[i]
    BY <1>5 DEF NetTypes
  <2>2. sock'[c].srv = "none" /\ \A i \in DOMAIN backlog : backlog[i] # c
    BY <1>1, <1>5 DEF Arrivals
  <2>3. \A i \in DOMAIN backlog' : i \in DOMAIN backlog \/ i = Len(backlog) + 1
    BY <2>1
  <2>4. \A i \in DOMAIN backlog' : sock'[backlog'[i]].srv = "none" /\ sock'[backlog'[i]].peer # "none"
    <3> SUFFICES ASSUME NEW i \in DOMAIN backlog'
                 PROVE  sock'[backlog'[i]].srv = "none" /\ sock'[backlog'[i]].peer # "none"
      OBVIOUS
    <3>1. CASE i = Len(backlog) + 1
      BY <1>5, <2>1, <2>2, <3>1
    <3>2. CASE i # Len(backlog) + 1
      <4>1. i \in DOMAIN backlog /\ backlog'[i] = backlog[i]
        BY <2>1, <2>3, <3>2
      <4> QED  BY <1>3, <4>1
    <3> QED  BY <3>1, <3>2
  <2>5. \A i, j \in DOMAIN backlog' : backlog'[i] = backlog'[j] => i = j
    BY <2>1, <2>2, <2>3 DEF Arrivals
  <2> QED  BY <1>2, <2>4, <2>5 DEF Arrivals
<1> QED  BY <1>1, <1>4, <1>5

-----------------------------------------------------------------------------
(* What is sent, and what comes back.                                      *)

\* The first chunks, in order.
Counted(s) == \A k \in 1 .. Len(s) : s[k] = k

\* The chunks on their way through a connection k, of n that were sent: g came
\* back, and h is what the server has read and not sent back.  What came back is
\* in order, and so is what is still to come, as long as nobody has closed and no
\* reset has arrived.
Flow(k, g, n, h) ==
    /\ Counted(g \o k.out)
    /\ k.peer \in {"none", "open"} /\ ~k.dead /\ k.srv # "closed"
       => LET all == ((g \o k.out) \o h) \o k.in
          IN  Counted(all) /\ Len(all) = n

Stream(c, h) == Flow(sock[c], got[c], sent[c], h)

\* How chunks move from one place to the next.
LEMMA ChunksMove ==
    ASSUME NEW a \in Seq(Nat), NEW b \in Seq(Nat), NEW n \in Nat
    PROVE  /\ Counted(a \o b) => Counted(a)
           /\ b # <<>> => Append(a, Head(b)) \o Tail(b) = a \o b
           /\ b # <<>> => (a \o <<Head(b)>>) \o Tail(b) = (a \o <<>>) \o b
           /\ Counted(a) /\ Len(a) = n => /\ Counted(Append(a, n + 1))
                                          /\ Len(Append(a, n + 1)) = n + 1
           /\ Counted(a) => a = [k \in 1 .. Len(a) |-> k]
<1>1. Counted(a \o b) => Counted(a)
  <2>1. /\ Len(a \o b) = Len(a) + Len(b) /\ Len(a) \in Nat /\ Len(b) \in Nat
        /\ \A k \in 1 .. Len(a) : (a \o b)[k] = a[k]
    OBVIOUS
  <2> QED  BY <2>1 DEF Counted
<1>2. b # <<>> => Append(a, Head(b)) \o Tail(b) = a \o b
  <2> SUFFICES ASSUME b # <<>>  PROVE Append(a, Head(b)) \o Tail(b) = a \o b
    OBVIOUS
  <2>1. Head(b) \in Nat /\ Tail(b) \in Seq(Nat)
    OBVIOUS
  <2>2. Append(a, Head(b)) = a \o <<Head(b)>>
    BY <2>1
  <2>3. <<Head(b)>> \o Tail(b) = b
    BY <2>1
  <2> QED  BY <2>1, <2>2, <2>3
<1>3. b # <<>> => (a \o <<Head(b)>>) \o Tail(b) = (a \o <<>>) \o b
  OBVIOUS
<1>4. Counted(a) /\ Len(a) = n => /\ Counted(Append(a, n + 1))
                                  /\ Len(Append(a, n + 1)) = n + 1
  BY DEF Counted
<1>5. Counted(a) => a = [k \in 1 .. Len(a) |-> k]
  BY DEF Counted
<1> QED  BY <1>1, <1>2, <1>3, <1>4, <1>5

\* What a call does to the chunks of its connection.
LEMMA FlowKept ==
    ASSUME NEW k \in Conns(Nat), NEW g \in Seq(Nat), NEW n \in Nat,
           NEW h \in Seq(Nat), Flow(k, g, n, h)
    PROVE  /\ k.srv = "none" => Flow(AfterAccept(k), g, n, h)
           /\ \A h2 \in Seq(Nat) : Flow(AfterClose(k), g, n, h2)
           /\ k.in # <<>> /\ h = <<>> => Flow(AfterRecv(k), g, n, <<Head(k.in)>>)
           /\ k.in = <<>> => Flow(AfterRecv(k), g, n, h)
           /\ \A m \in Nat : h = <<m>> /\ k.srv = "open"
                               => Flow(AfterWrite(k, m), g, n, <<>>)
           /\ ~k.dead => Flow(AfterSend(k, n + 1), g, n + 1, h)
           /\ k.out # <<>> => Flow([k EXCEPT !.out = Tail(@)],
                                   Append(g, Head(k.out)), n, h)
           /\ Flow(AfterReset(k), g, n, h)
           /\ k.peer = "none" => Flow([k EXCEPT !.peer = "open"], g, n, h)
           /\ Flow([k EXCEPT !.peer = "gone", !.fin = TRUE], g, n, h)
<1>0. /\ k.in \in Seq(Nat) /\ k.out \in Seq(Nat) /\ g \o k.out \in Seq(Nat)
      /\ (g \o k.out) \o h \in Seq(Nat) /\ ((g \o k.out) \o h) \o k.in \in Seq(Nat)
      /\ k.dead \in BOOLEAN /\ g \o <<>> = g /\ Counted(g)
  <2>1. k.in \in Seq(Nat) /\ k.out \in Seq(Nat) /\ k.dead \in BOOLEAN
    BY DEF Conns
  <2>2. Counted(g)
    BY <2>1, ChunksMove DEF Flow
  <2> QED  BY <2>1, <2>2
<1>1. k.srv = "none" => Flow(AfterAccept(k), g, n, h)
  <2>1. /\ AfterAccept(k).in = k.in /\ AfterAccept(k).out = k.out
        /\ AfterAccept(k).peer = k.peer /\ AfterAccept(k).dead = k.dead
    BY ConnFields
  <2> QED  BY <2>1 DEF Flow
<1>2. \A h2 \in Seq(Nat) : Flow(AfterClose(k), g, n, h2)
  <2>1. AfterClose(k).srv = "closed" /\ AfterClose(k).out \in {k.out, <<>>}
    BY ConnFields
  <2> QED  BY <1>0, <2>1 DEF Flow
<1>3. k.in # <<>> /\ h = <<>> => Flow(AfterRecv(k), g, n, <<Head(k.in)>>)
  <2> DEFINE r == AfterRecv(k)
  <2> SUFFICES ASSUME k.in # <<>>, h = <<>>  PROVE Flow(r, g, n, <<Head(k.in)>>)
    OBVIOUS
  <2>1. /\ r.in = Tail(k.in) /\ r.out = k.out /\ r.dead = k.dead
        /\ r.srv = k.srv /\ r.peer = k.peer
    BY ConnFields
  <2>2. ((g \o k.out) \o <<Head(k.in)>>) \o Tail(k.in) = ((g \o k.out) \o <<>>) \o k.in
    <3>1. \A a, b \in Seq(Nat) : b # <<>> => (a \o <<Head(b)>>) \o Tail(b) = (a \o <<>>) \o b
      BY ChunksMove
    <3> QED  BY <1>0, <3>1
  <2> HIDE DEF r
  <2> QED  BY <2>1, <2>2 DEF Flow
<1>4. k.in = <<>> => Flow(AfterRecv(k), g, n, h)
  <2>1. /\ AfterRecv(k).in = IF k.in # <<>> THEN Tail(k.in) ELSE k.in
        /\ AfterRecv(k).out = k.out /\ AfterRecv(k).dead = k.dead
        /\ AfterRecv(k).srv = k.srv /\ AfterRecv(k).peer = k.peer
    BY ConnFields
  <2> QED  BY <2>1 DEF Flow
<1>5. ASSUME NEW m \in Nat, h = <<m>>, k.srv = "open"
      PROVE  Flow(AfterWrite(k, m), g, n, <<>>)
  <2> DEFINE w == AfterWrite(k, m)
  <2> SUFFICES Flow(w, g, n, <<>>)
    OBVIOUS
  <2>1. /\ w.in = k.in /\ w.srv = k.srv /\ w.peer = k.peer
        /\ k.dead => w.dead
        /\ w.out = IF k.dead \/ k.peer = "gone" THEN k.out ELSE Append(k.out, m)
    BY ConnFields
  <2>2. /\ ((g \o Append(k.out, m)) \o <<>>) \o k.in = ((g \o k.out) \o <<m>>) \o k.in
        /\ Counted(((g \o k.out) \o <<m>>) \o k.in) => Counted(g \o Append(k.out, m))
    <3>1. \A a, b, e \in Seq(Nat) :
            /\ ((a \o Append(b, m)) \o <<>>) \o e = ((a \o b) \o <<m>>) \o e
            /\ Counted(((a \o b) \o <<m>>) \o e) => Counted(a \o Append(b, m))
      <4> TAKE a, b, e \in Seq(Nat)
      <4>1. /\ a \o Append(b, m) = (a \o b) \o <<m>> /\ a \o Append(b, m) \in Seq(Nat)
            /\ (a \o Append(b, m)) \o <<>> = a \o Append(b, m)
        OBVIOUS
      <4>2. Counted((a \o Append(b, m)) \o e) => Counted(a \o Append(b, m))
        BY <4>1, ChunksMove
      <4> QED  BY <4>1, <4>2
    <3> QED  BY <1>0, <3>1
  <2>3. k.peer \in {"none", "open", "gone"}
    BY DEF Conns
  <2> HIDE DEF w
  <2>4. CASE k.dead \/ k.peer = "gone"
    <3>1. w.out = k.out /\ (w.dead \/ w.peer = "gone")
      BY <2>1, <2>4
    <3> QED  BY <3>1 DEF Flow
  <2>5. CASE ~(k.dead \/ k.peer = "gone")
    <3>1. LET all == ((g \o k.out) \o <<m>>) \o k.in IN Counted(all) /\ Len(all) = n
      BY <1>5, <2>3, <2>5 DEF Flow
    <3>2. w.out = Append(k.out, m) /\ w.in = k.in
      BY <2>1, <2>5
    <3>3. Counted(g \o w.out)
      BY <2>2, <3>1, <3>2
    <3>4. LET all == ((g \o w.out) \o <<>>) \o w.in IN Counted(all) /\ Len(all) = n
      BY <2>2, <3>1, <3>2
    <3> QED  BY <3>3, <3>4 DEF Flow
  <2> QED  BY <2>4, <2>5
<1>6. ~k.dead => Flow(AfterSend(k, n + 1), g, n + 1, h)
  <2> DEFINE w == AfterSend(k, n + 1)
  <2> SUFFICES ASSUME ~k.dead  PROVE Flow(w, g, n + 1, h)
    OBVIOUS
  <2>1. /\ w.srv = k.srv /\ w.peer = k.peer /\ w.out \in {k.out, <<>>}
        /\ k.srv # "closed" => w.in = Append(k.in, n + 1) /\ w.out = k.out
    <3>1. n + 1 \in Nat
      OBVIOUS
    <3> QED  BY <3>1, ConnFields
  <2> HIDE DEF w
  <2>2. Counted(g \o w.out)
    BY <1>0, <2>1 DEF Flow
  <2>3. ASSUME w.peer \in {"none", "open"}, w.srv # "closed"
        PROVE  LET all == ((g \o w.out) \o h) \o w.in
               IN  Counted(all) /\ Len(all) = n + 1
    <3> DEFINE all == ((g \o k.out) \o h) \o k.in
    <3>1. Counted(all) /\ Len(all) = n
      BY <2>1, <2>3 DEF Flow
    <3>2. all \in Seq(Nat)
      BY <1>0
    <3>3. Counted(Append(all, n + 1)) /\ Len(Append(all, n + 1)) = n + 1
      <4> HIDE DEF all
      <4> QED  BY <3>1, <3>2, ChunksMove
    <3>4. ((g \o k.out) \o h) \o Append(k.in, n + 1) = Append(all, n + 1)
      <4>1. \A a, b \in Seq(Nat) : a \o Append(b, n + 1) = Append(a \o b, n + 1)
        OBVIOUS
      <4> QED  BY <1>0, <4>1
    <3> QED  BY <2>1, <2>3, <3>3, <3>4
  <2> QED  BY <2>2, <2>3 DEF Flow
<1>7. k.out # <<>> => Flow([k EXCEPT !.out = Tail(@)], Append(g, Head(k.out)), n, h)
  <2> DEFINE w == [k EXCEPT !.out = Tail(@)]
  <2> SUFFICES ASSUME k.out # <<>>  PROVE Flow(w, Append(g, Head(k.out)), n, h)
    OBVIOUS
  <2>1. /\ w.in = k.in /\ w.out = Tail(k.out) /\ w.dead = k.dead
        /\ w.srv = k.srv /\ w.peer = k.peer
    BY DEF Conns
  <2>2. Append(g, Head(k.out)) \o Tail(k.out) = g \o k.out
    BY <1>0, ChunksMove
  <2> HIDE DEF w
  <2> QED  BY <2>1, <2>2 DEF Flow
<1>8. Flow(AfterReset(k), g, n, h)
  <2>1. AfterReset(k).peer = "gone" /\ AfterReset(k).out = <<>>
    BY ConnFields
  <2> QED  BY <1>0, <2>1 DEF Flow
<1>9. /\ k.peer = "none" => Flow([k EXCEPT !.peer = "open"], g, n, h)
      /\ Flow([k EXCEPT !.peer = "gone", !.fin = TRUE], g, n, h)
  BY DEF Flow, Conns
<1> QED  BY <1>1, <1>2, <1>3, <1>4, <1>5, <1>6, <1>7, <1>8, <1>9

\* A client that sends, reads, leaves or comes keeps the chunks in order.
LEMMA ClientStream ==
    ASSUME NetTypes, NEW c \in Clients, Client(c), NEW d \in Clients,
           NEW h \in Seq(Nat), Stream(d, h)
    PROVE  Stream(d, h)'
<1> USE DEF NetTypes
<1>0. /\ sock[c] \in Conns(Nat) /\ sent[c] \in Nat /\ got[c] \in Seq(Nat)
      /\ sock[d] \in Conns(Nat)
  OBVIOUS
<1>1. CASE c # d
  <2>1. sock'[d] = sock[d] /\ sent'[d] = sent[d] /\ got'[d] = got[d]
    BY <1>1 DEF Client, Connect, ClientSend, ClientRecv, ClientClose, ClientReset
  <2> QED  BY <2>1 DEF Stream
<1>2. CASE c = d
  <2>0. Flow(sock[c], got[c], sent[c], h)
    BY <1>2 DEF Stream
  <2>1. CASE Connect(c)
    <3>1. /\ sock'[c] = [sock[c] EXCEPT !.peer = "open"] /\ sock[c].peer = "none"
          /\ got' = got /\ sent' = sent
      BY <2>1 DEF Connect
    <3>2. Flow(sock'[c], got[c], sent[c], h)
      <4>1. sock[c].peer = "none" => Flow([sock[c] EXCEPT !.peer = "open"], got[c], sent[c], h)
        BY <1>0, <2>0, FlowKept
      <4> QED  BY <3>1, <4>1
    <3> QED  BY <1>2, <3>1, <3>2 DEF Stream
  <2>2. CASE ClientSend(c)
    <3>1. /\ sock'[c] = AfterSend(sock[c], sent[c] + 1) /\ ~sock[c].dead
          /\ got' = got /\ sent'[c] = sent[c] + 1
      BY <2>2 DEF ClientSend
    <3>2. Flow(sock'[c], got[c], sent[c] + 1, h)
      <4>1. ~sock[c].dead => Flow(AfterSend(sock[c], sent[c] + 1), got[c], sent[c] + 1, h)
        BY <1>0, <2>0, FlowKept
      <4> QED  BY <3>1, <4>1
    <3> QED  BY <1>2, <3>1, <3>2 DEF Stream
  <2>3. CASE ClientRecv(c)
    <3>1. /\ sock'[c] = [sock[c] EXCEPT !.out = Tail(@)] /\ sock[c].out # <<>>
          /\ got'[c] = Append(got[c], Head(sock[c].out)) /\ sent' = sent
      BY <2>3 DEF ClientRecv
    <3>2. Flow(sock'[c], got'[c], sent[c], h)
      <4>1. Flow([sock[c] EXCEPT !.out = Tail(@)], Append(got[c], Head(sock[c].out)),
                 sent[c], h)
        BY <1>0, <2>0, <3>1, FlowKept
      <4> QED  BY <3>1, <4>1
    <3> QED  BY <1>2, <3>1, <3>2 DEF Stream
  <2>4. CASE ClientClose(c) \/ ClientReset(c)
    <3>1. /\ sock'[c] \in {AfterReset(sock[c]), [sock[c] EXCEPT !.peer = "gone", !.fin = TRUE]}
          /\ got' = got /\ sent' = sent
      BY <2>4 DEF ClientClose, ClientReset
    <3>2. Flow(sock'[c], got[c], sent[c], h)
      <4> HIDE DEF Flow
      <4>1. /\ Flow(AfterReset(sock[c]), got[c], sent[c], h)
            /\ Flow([sock[c] EXCEPT !.peer = "gone", !.fin = TRUE], got[c], sent[c], h)
        BY <1>0, <2>0, FlowKept
      <4> QED  BY <3>1, <4>1
    <3> QED  BY <1>2, <3>1, <3>2 DEF Stream
  <2> QED  BY <2>1, <2>2, <2>3, <2>4 DEF Client
<1> QED  BY <1>1, <1>2

-----------------------------------------------------------------------------
(* The servers that wait for several descriptors.                          *)

\* The smallest of some natural numbers is one of them.
LEMMA MinIn ==
    ASSUME NEW S, S \subseteq Nat, S # {}
    PROVE  Min(S) \in S /\ \A x \in S : Min(S) <= x
<1> DEFINE T == {0 .. k : k \in S}  F == FiniteSubsetsOf(Nat)  R == StrictSubsetOrdering(Nat)
<1>1. \A k \in Nat : 0 .. k \in F
  <2>1. \A k \in Nat : IsFiniteSet(0 .. k)
    BY FS_Interval
  <2> QED  BY <2>1 DEF FiniteSubsetsOf
<1>2. IsWellFoundedOn(R, F)
  BY FS_StrictSubsetOrderingWellFounded
<1>3. T \subseteq F /\ T # {}
  BY <1>1
<1> HIDE DEF F, T
<1>4. PICK t \in T : \A u \in T : <<u, t>> \notin R
  BY <1>2, <1>3, WFMin
<1>5. PICK m \in S : t = 0 .. m
  BY DEF T
<1>6. ASSUME NEW x \in S  PROVE m <= x
  <2>1. 0 .. x \in T /\ x \in Nat /\ m \in Nat
    BY DEF T
  <2>2. <<0 .. x, 0 .. m>> \notin R
    BY <2>1, <1>4, <1>5
  <2> SUFFICES ASSUME x < m  PROVE FALSE
    BY <2>1
  <2>3. 0 .. x \subseteq 0 .. m /\ m \in 0 .. m /\ m \notin 0 .. x
    BY <2>1
  <2> QED  BY <2>1, <2>2, <2>3 DEF StrictSubsetOrdering
<1> QED  BY <1>6 DEF Min

\* In the middle of a pass.
Scanning == pc \in {"scan", "write"}

\* The types, as the proofs need them.
PollTypes ==
    /\ prog \in PollingPrograms
    /\ pc \in {"wait", "scan", "write", "exited", "killed"}
    /\ fdarray \in [Slots -> Fds \cup {default_fd, listensock}]
    /\ interest \subseteq Fds \cup {listensock}
    /\ ready \subseteq Fds \cup Slots
    /\ pos \in 0 .. fd_num
    /\ held \in [fd : Fds \cup {default_fd}, chunk : Nat]
    /\ fdtab \in [Fds -> Clients \cup {NoClient}]
    /\ NetTypes

\* Until a signal kills the server, a descriptor has a connection of its own.
Owners ==
    pc # "killed" =>
        /\ \A f, g \in OpenFds : fdtab[f] = fdtab[g] => f = g
        /\ Arrivals

\* What the pass of a server has still to visit: nothing that was closed, and
\* no number that a new connection may get.
Visits ==
    /\ prog # "epoll" => fdarray[0] = listensock
    /\ prog = "epoll" => ready \subseteq interest
    /\ prog = "select" /\ Scanning /\ pos = 0 => ready \subseteq TableFds
    /\ prog = "poll" => \A i \in ready : i \in Slots /\ fdarray[i] # default_fd
    /\ pc = "write" => held.fd \in OpenFds

\* The inductive invariant.
PollInv == PollTypes /\ TablesAgree /\ Owners /\ Visits /\ ReadyWhenVisited

-----------------------------------------------------------------------------
(* The pass of HandleEvent.                                                *)

\* The slot whose turn it is, and where the pass goes on.
LEMMA TurnSlot ==
    ASSUME PollInv, pc = "scan", prog # "epoll",
           NEW f \in Turn, Visited(f)
    PROVE  \E m \in Slots :
             /\ m \in Pending /\ fdarray[m] = f /\ f # default_fd
             /\ pos' = m + 1
             /\ ready' = IF prog = "poll" THEN ready \ {m} ELSE ready
<1> DEFINE m == Min(Pending)
<1>1. Pending # {} /\ Turn = {fdarray[m]}
  BY DEF Turn
<1>2. Pending \subseteq Nat
  BY DEF Pending, Slots
<1>3. m \in Pending
  BY <1>1, <1>2, MinIn
<1>4. pos' = m + 1 /\ ready' = IF prog = "poll" THEN ready \ {m} ELSE ready
  BY DEF Visited
<1> HIDE DEF m
<1> QED  BY <1>1, <1>3, <1>4 DEF Pending

\* A descriptor whose turn it is, and that is not the listening socket, is open.
LEMMA TurnOpen ==
    ASSUME PollInv, pc = "scan", NEW f \in Turn
    PROVE  f \in OpenFds \cup {listensock}
<1>1. CASE prog = "epoll"
  BY <1>1 DEF Turn, PollInv, TablesAgree, Visits
<1>2. CASE prog # "epoll"
  <2>1. Pending # {} /\ f = fdarray[Min(Pending)]
    BY <1>2 DEF Turn
  <2>2. Min(Pending) \in Pending
    <3>1. Pending \subseteq Nat
      BY DEF Pending, Slots
    <3> QED  BY <2>1, <3>1, MinIn
  <2>3. f \in TableFds
    BY <2>1, <2>2 DEF Pending, TableFds
  <2> QED  BY <1>2, <2>3 DEF PollInv, TablesAgree
<1> QED  BY <1>1, <1>2

\* After the visit of f the rest of the pass is as it was: what the handler of f
\* does to the tables concerns f, or a free slot and a new number.
LEMMA PassGoesOn ==
    ASSUME PollInv, pc = "scan", NEW f \in Turn, Visited(f),
           prog' = prog, fdarray' \in [Slots -> Fds \cup {default_fd, listensock}],
           prog = "epoll" => interest \ {f} \subseteq interest',
           \A g \in (OpenFds \cup {listensock}) \ {f} : CanRead(g) => CanRead(g)',
           prog # "epoll" =>
             \A i \in Slots : fdarray'[i] # fdarray[i] =>
               \/ fdarray'[i] = default_fd /\ fdarray[i] = f /\ f # listensock
               \/ /\ fdarray[i] = default_fd /\ f = listensock
                  /\ fdarray'[i] \notin TableFds /\ fdarray'[i] # default_fd
    PROVE  /\ ready' \subseteq Fds \cup Slots /\ pos' \in 0 .. fd_num
           /\ prog # "epoll" => fdarray'[0] = listensock
           /\ prog = "epoll" => ready' \subseteq interest'
           /\ prog = "select" => pos' # 0
           /\ prog = "poll" => \A i \in ready' : i \in Slots /\ fdarray'[i] # default_fd
           /\ ReadyWhenVisited'
<1> USE DEF PollInv
<1>1. CASE prog = "epoll"
  <2>1. f \in ready /\ ready' = ready \ {f} /\ pos' = pos
    BY <1>1 DEF Turn, Visited
  <2>2. \A g \in ready : CanRead(g)
    BY <1>1 DEF ReadyWhenVisited
  <2>3. ready \subseteq OpenFds \cup {listensock}
    BY <1>1 DEF Visits, TablesAgree
  <2>4. \A g \in ready' : CanRead(g)'
    BY <2>1, <2>2, <2>3
  <2>5. ready' \subseteq interest'
    BY <1>1, <2>1 DEF Visits
  <2> QED  BY <1>1, <2>1, <2>4, <2>5 DEF ReadyWhenVisited, PollTypes
<1>2. CASE prog # "epoll"
  <2>1. PICK m \in Slots : /\ m \in Pending /\ fdarray[m] = f /\ f # default_fd
                           /\ pos' = m + 1
                           /\ ready' = IF prog = "poll" THEN ready \ {m} ELSE ready
    BY <1>2, TurnSlot
  <2>2. /\ m \in Nat /\ m < fd_num /\ m >= pos /\ pos \in Nat
        /\ 0 \in Slots /\ fdarray[0] = listensock /\ Slots \subseteq Nat
    BY <1>2, <2>1, PollingAssumption DEF Slots, Pending, Visits, PollTypes
  <2>3. \A i \in Slots : fdarray[i] = f => i = m
    BY <1>2, <2>1 DEF TablesAgree
  <2>4. fdarray'[0] = listensock
    BY <1>2, <2>2 DEF default_fd, listensock
  <2>5. ASSUME NEW i \in Slots, i > m, fdarray'[i] # default_fd, IsSet(i)'
        PROVE  /\ fdarray'[i] = fdarray[i] /\ fdarray[i] # default_fd /\ IsSet(i)
    <3>1. i # m /\ i # 0 /\ fdarray[i] # f
      BY <2>2, <2>3, <2>5
    <3>2. CASE prog = "select42"
      BY <2>5, <3>1, <3>2 DEF IsSet
    <3>3. CASE prog = "select"
      <4>1. fdarray'[i] \in ready
        BY <2>1, <2>5, <3>3 DEF IsSet
      <4>2. ASSUME fdarray'[i] # fdarray[i]  PROVE FALSE
        <5>1. f = listensock /\ fdarray'[i] \notin TableFds
          BY <1>2, <2>5, <4>2
        <5>2. m = 0
          BY <2>2, <2>3, <5>1
        <5>3. pos = 0
          BY <2>2, <5>2
        <5>4. ready \subseteq TableFds
          BY <3>3, <5>3 DEF Visits, Scanning
        <5> QED  BY <4>1, <5>1, <5>4
      <4> QED  BY <2>5, <3>3, <4>1, <4>2 DEF IsSet
    <3>4. CASE prog = "poll"
      <4>1. i \in ready
        BY <2>1, <2>5, <3>4 DEF IsSet
      <4>2. fdarray[i] # default_fd
        BY <3>4, <4>1 DEF Visits
      <4> QED  BY <1>2, <2>5, <3>1, <3>4, <4>1, <4>2 DEF IsSet
    <3> QED  BY <1>2, <3>2, <3>3, <3>4 DEF PollTypes, PollingPrograms
  <2>6. ASSUME NEW i \in Pending'  PROVE CanRead(fdarray[i])'
    <3>1. i \in Slots /\ i >= m + 1 /\ fdarray'[i] # default_fd /\ IsSet(i)'
      BY <2>1 DEF Pending, Slots
    <3>2. /\ fdarray'[i] = fdarray[i] /\ fdarray[i] # default_fd /\ IsSet(i)
          /\ i > m /\ i >= pos
      <4>1. i \in Nat /\ i > m /\ i >= pos
        <5>1. i \in Nat /\ m \in Nat /\ pos \in Nat /\ m >= pos /\ i >= m + 1
          BY <2>2, <3>1
        <5> QED  BY <5>1
      <4>2. /\ fdarray'[i] = fdarray[i] /\ fdarray[i] # default_fd /\ IsSet(i)
        BY <2>5, <3>1, <4>1
      <4> QED  BY <4>1, <4>2
    <3>3. i \in Pending
      BY <3>1, <3>2 DEF Pending
    <3>4. CanRead(fdarray[i])
      BY <1>2, <3>3 DEF ReadyWhenVisited
    <3>5. fdarray[i] \in (OpenFds \cup {listensock}) \ {f}
      <4>1. fdarray[i] \in TableFds
        BY <3>1, <3>2 DEF TableFds
      <4> QED  BY <1>2, <2>2, <2>3, <3>1, <3>2, <4>1 DEF TablesAgree
    <3>6. \A g : g = fdarray[i] => CanRead(g)'
      BY <3>4, <3>5
    <3> QED  BY <3>2, <3>6 DEF CanRead
  <2>7. prog = "poll" => \A i \in ready' : i \in Slots /\ fdarray'[i] # default_fd
    <3> SUFFICES ASSUME prog = "poll", NEW i \in ready'
                 PROVE  i \in Slots /\ fdarray'[i] # default_fd
      OBVIOUS
    <3>1. i \in ready /\ i # m /\ i \in Slots /\ fdarray[i] # default_fd
      BY <2>1 DEF Visits
    <3>2. fdarray[i] # f
      BY <2>3, <3>1
    <3> QED  BY <1>2, <3>1, <3>2
  <2>8. ready' \subseteq Fds \cup Slots /\ pos' \in 0 .. fd_num /\ pos' # 0
    BY <2>1, <2>2, PollingAssumption DEF PollTypes
  <2> QED  BY <1>2, <2>4, <2>6, <2>7, <2>8 DEF ReadyWhenVisited
<1> QED  BY <1>1, <1>2

-----------------------------------------------------------------------------
(* The invariant, action by action.                                        *)

\* The first state.
LEMMA InitPoll == ASSUME PollingInit  PROVE PollInv
<1> USE DEF PollingInit, InitServer, InitNet
<1>1. 0 \in Slots /\ 0 \in 0 .. fd_num /\ OpenFds = {}
  BY PollingAssumption DEF Slots, OpenFds
<1>2. PollTypes
  <2>1. sock \in [Clients -> Conns(Nat)]
    BY DEF Conns
  <2>2. held \in [fd : Fds \cup {default_fd}, chunk : Nat]
    BY DEF None
  <2> QED  BY <1>1, <2>1, <2>2 DEF PollTypes, NetTypes, FirstSlots, FirstInterest
<1>3. TablesAgree
  <2>1. prog = "epoll" => interest = {listensock}
    BY DEF FirstInterest
  <2>2. prog # "epoll" => /\ fdarray[0] = listensock
                          /\ \A i \in Slots : i # 0 => fdarray[i] = default_fd
    BY <1>1 DEF FirstSlots
  <2>3. prog # "epoll" => TableFds = {listensock}
    BY <1>1, <2>2 DEF TableFds, default_fd, listensock
  <2> QED  BY <1>1, <2>1, <2>2, <2>3 DEF TablesAgree
<1>4. Owners
  BY <1>1 DEF Owners, Arrivals
<1>5. Visits
  BY <1>1 DEF Visits, Scanning, FirstSlots
<1> QED  BY <1>2, <1>3, <1>4, <1>5 DEF PollInv, ReadyWhenVisited

\* The calls that wait report what can be read, and the pass begins or ends.
LEMMA WaitPoll ==
    ASSUME PollInv, Select \/ Poll \/ EpollWait \/ PassEnds
    PROVE  PollInv'
<1> USE DEF PollInv
<1>0. /\ UNCHANGED <<prog, net, fdarray, interest, held, fdtab>>
      /\ pc \in {"wait", "scan"} /\ pc' \in {"wait", "scan", "exited"}
  BY DEF Select, Poll, EpollWait, PassEnds
<1>1. Slots' = Slots /\ Fds' = Fds /\ OpenFds' = OpenFds /\ TableFds' = TableFds
  BY <1>0 DEF Slots, Fds, OpenFds, TableFds
<1>2. pc' # "exited"
  <2>1. CASE Select
    BY <2>1 DEF Select, TablesAgree
  <2> QED  BY <2>1 DEF Poll, EpollWait, PassEnds
<1>3. \A f : CanRead(f)' <=> CanRead(f)
  BY <1>0 DEF CanRead, net
<1>4. TablesAgree' /\ Owners'
  BY <1>0, <1>1, <1>2 DEF TablesAgree, Owners, Arrivals, net
<1>5. /\ ready' \subseteq Fds \cup Slots /\ pos' \in 0 .. fd_num
      /\ prog = "epoll" => ready' \subseteq interest
      /\ prog = "select" /\ pos' = 0 => ready' \subseteq TableFds
      /\ prog = "poll" => \A i \in ready' : i \in Slots /\ fdarray[i] # default_fd
      /\ pc' = "scan" => ReadyWhenVisited'
  <2>0. 0 \in 0 .. fd_num
    BY PollingAssumption
  <2>1. CASE Select
    <3>1. prog \in {"select42", "select"} /\ pos' = 0 /\ pc' = "scan"
      BY <1>2, <2>1 DEF Select
    <3>2. ready' = {f \in TableFds : CanRead(f)}
      BY <2>1, <1>2 DEF Select
    <3>3. TableFds \subseteq Fds \cup Slots
      <4>1. 0 \in Slots
        BY PollingAssumption DEF Slots
      <4> QED  BY <4>1 DEF TableFds, PollTypes, listensock
    <3>4. ASSUME NEW i \in Pending'  PROVE CanRead(fdarray[i])'
      <4>1. i \in Slots /\ IsSet(i)'
        BY DEF Pending, Slots
      <4>2. fdarray'[i] \in ready'
        <5>1. CASE prog = "select"
          BY <1>0, <4>1, <5>1 DEF IsSet
        <5>2. CASE prog = "select42"
          BY <1>0, <4>1, <5>2 DEF IsSet, Visits
        <5> QED  BY <3>1, <5>1, <5>2
      <4>3. \A f \in ready' : CanRead(f)'
        BY <1>3, <3>2
      <4> QED  BY <4>2, <4>3
    <3> QED  BY <1>0, <2>0, <3>1, <3>2, <3>3, <3>4 DEF ReadyWhenVisited
  <2>2. CASE Poll
    <3>1. /\ prog = "poll" /\ pos' = 0 /\ pc' = "scan"
          /\ ready' = {i \in Slots : /\ fdarray[i] \in OpenFds \cup {listensock}
                                     /\ CanRead(fdarray[i])}
      BY <2>2 DEF Poll
    <3>2. \A i \in ready' : fdarray[i] # default_fd
      BY <3>1 DEF OpenFds, Fds, default_fd, listensock
    <3>3. ASSUME NEW i \in Pending'  PROVE CanRead(fdarray[i])'
      <4>1. i \in ready'
        BY <1>0, <3>1 DEF Pending, IsSet
      <4>2. CanRead(fdarray[i])
        BY <3>1, <4>1
      <4>3. \A f : f = fdarray[i] => CanRead(f)'
        BY <1>3, <4>2
      <4> QED  BY <1>0, <4>3 DEF CanRead
    <3> QED  BY <1>0, <2>0, <3>1, <3>2, <3>3 DEF ReadyWhenVisited
  <2>3. CASE EpollWait
    <3>1. /\ prog = "epoll" /\ pos' = pos /\ ready' \subseteq {f \in interest : CanRead(f)}
      BY <2>3 DEF EpollWait, kSubset
    <3>2. interest \subseteq Fds \cup Slots
      <4>1. 0 \in Slots
        BY PollingAssumption DEF Slots
      <4> QED  BY <4>1 DEF PollTypes, listensock
    <3>3. \A f \in ready' : CanRead(f)'
      BY <1>3, <3>1
    <3> QED  BY <1>0, <3>1, <3>2, <3>3 DEF ReadyWhenVisited, PollTypes
  <2>4. CASE PassEnds
    BY <2>4 DEF PassEnds, PollTypes
  <2> QED  BY <2>1, <2>2, <2>3, <2>4
<1>6. ReadyWhenVisited'
  BY <1>0, <1>2, <1>5 DEF ReadyWhenVisited
<1>7. PollTypes'
  BY <1>0, <1>1, <1>2, <1>5 DEF PollTypes, NetTypes, net
<1>8. Visits'
  BY <1>0, <1>1, <1>2, <1>5 DEF Visits
<1> QED  BY <1>4, <1>6, <1>7, <1>8

\* accept, with or without a place for the connection.
LEMMA AddPoll ==
    ASSUME PollInv, AddConnection
    PROVE  PollInv'
<1> USE DEF PollInv
<1> DEFINE f == Min(FreeFds)  c == Head(backlog)
<1>1. /\ pc = "scan" /\ listensock \in Turn /\ backlog # <<>> /\ FreeFds # {}
      /\ sock' = [sock EXCEPT ![c] = AfterAccept(sock[c])]
      /\ fdtab' = [fdtab EXCEPT ![f] = c] /\ backlog' = Tail(backlog)
      /\ Visited(listensock) /\ UNCHANGED <<prog, sent, got, pc, held>>
  BY DEF AddConnection
<1>2. /\ prog = "epoll" => interest' = interest \cup {f} /\ fdarray' = fdarray
      /\ prog # "epoll" => /\ FreeSlots # {} /\ interest' = interest
                           /\ fdarray' = [fdarray EXCEPT ![Min(FreeSlots)] = f]
  BY DEF AddConnection
<1>3. f \in Fds /\ f \notin OpenFds /\ f # listensock /\ f # default_fd
  <2>1. FreeFds \subseteq Nat /\ FreeFds \subseteq Fds \ OpenFds
    BY DEF FreeFds, Fds
  <2>2. f \in FreeFds
    BY <1>1, <2>1, MinIn
  <2>3. \A x \in Fds : x # listensock /\ x # default_fd
    BY DEF Fds, listensock, default_fd
  <2> HIDE DEF f
  <2> QED  BY <2>1, <2>2, <2>3
<1>4. prog # "epoll" => Min(FreeSlots) \in Slots /\ fdarray[Min(FreeSlots)] = default_fd
  <2>1. FreeSlots \subseteq Nat
    BY DEF FreeSlots, Slots
  <2> QED  BY <1>2, <2>1, MinIn DEF FreeSlots
<1>5. NetTypes /\ Arrivals
  BY <1>1 DEF PollTypes, Owners
<1>6. /\ c \in Clients /\ sock[c] \in Conns(Nat) /\ sock[c].srv = "none"
      /\ sock[c].peer # "none"
  BY <1>1, <1>5, FirstArrival
<1>7. /\ AfterAccept(sock[c]) \in Conns(Nat) /\ AfterAccept(sock[c]).srv = "open"
      /\ AfterAccept(sock[c]).peer = sock[c].peer
      /\ Readable(AfterAccept(sock[c])) <=> Readable(sock[c])
  BY <1>6, ConnTypes, ConnFields, ConnReadable
<1> HIDE DEF f, c
<1>8. /\ OpenFds' = OpenFds \cup {f} /\ fdtab'[f] = c
      /\ \A g \in OpenFds : fdtab'[g] = fdtab[g] /\ fdtab[g] # c /\ fdtab[g] \in Clients
      /\ Fds' = Fds /\ fdtab' \in [Fds -> Clients \cup {NoClient}]
  <2>1. \A g \in OpenFds : fdtab[g] \in Clients /\ sock[fdtab[g]].srv = "open"
    BY <1>1 DEF OpenFds, PollTypes, TablesAgree
  <2>2. \A g \in OpenFds : fdtab[g] # c
    BY <2>1, <1>6
  <2> QED  BY <1>1, <1>3, <1>6, <2>1, <2>2, PollingAssumption DEF OpenFds, PollTypes, Fds
<1>9. /\ sock' \in [Clients -> Conns(Nat)] /\ \A d \in Clients : d # c => sock'[d] = sock[d]
      /\ backlog' \in Seq(Clients) /\ sock'[c] = AfterAccept(sock[c]) /\ Arrivals'
  BY <1>1, <1>5, <1>7, ArrivalAccepted DEF c
<1>10. sock'[c].srv = "open" /\ sock'[c].peer # "none"
  BY <1>6, <1>7, <1>9
<1>11. prog # "epoll" => /\ TableFds' = TableFds \cup {f}
                         /\ fdarray' \in [Slots -> Fds \cup {default_fd, listensock}]
                         /\ f \notin TableFds
                         /\ \A i \in Slots : \/ fdarray'[i] = fdarray[i]
                                             \/ /\ i = Min(FreeSlots)
                                                /\ fdarray'[i] = f
  <2> SUFFICES ASSUME prog # "epoll"  PROVE <1>11!2
    OBVIOUS
  <2> DEFINE s == Min(FreeSlots)
  <2>1. s \in Slots /\ fdarray[s] = default_fd /\ fdarray' = [fdarray EXCEPT ![s] = f]
    BY <1>2, <1>4
  <2>2. f \notin TableFds
    BY <1>3 DEF TablesAgree
  <2> HIDE DEF s
  <2>3. Slots' = Slots
    BY DEF Slots
  <2>4. TableFds' = TableFds \cup {f}
    BY <1>3, <2>1, <2>3 DEF TableFds, PollTypes
  <2> QED  BY <1>3, <2>1, <2>2, <2>4 DEF PollTypes, s
<1>12. TablesAgree'
  <2>1. prog = "epoll" => interest' = OpenFds' \cup {listensock}
    BY <1>2, <1>8 DEF TablesAgree
  <2>2. prog # "epoll" => TableFds' = OpenFds' \cup {listensock}
    BY <1>8, <1>11 DEF TablesAgree
  <2>3. ASSUME prog # "epoll", NEW i \in Slots, NEW j \in Slots,
               fdarray'[i] = fdarray'[j], i # j
        PROVE  fdarray'[i] = default_fd
    <3>1. CASE fdarray'[i] = fdarray[i] /\ fdarray'[j] = fdarray[j]
      BY <2>3, <3>1 DEF TablesAgree
    <3>2. CASE ~(fdarray'[i] = fdarray[i] /\ fdarray'[j] = fdarray[j])
      <4>1. f \in {fdarray[i], fdarray[j]}
        BY <1>11, <2>3, <3>2
      <4> QED  BY <1>3, <1>11, <2>3, <4>1 DEF TableFds
    <3> QED  BY <3>1, <3>2
  <2>4. \A g \in OpenFds' : sock'[fdtab'[g]].srv = "open"
    BY <1>1, <1>8, <1>9, <1>10 DEF TablesAgree
  <2> QED  BY <1>1, <2>1, <2>2, <2>3, <2>4 DEF TablesAgree, Slots
<1>13. Owners'
  <2>1. \A g, h \in OpenFds' : fdtab'[g] = fdtab'[h] => g = h
    BY <1>1, <1>8 DEF Owners
  <2> QED  BY <1>9, <2>1 DEF Owners
<1>14. \A g \in (OpenFds \cup {listensock}) \ {listensock} : CanRead(g) => CanRead(g)'
  <2> SUFFICES ASSUME NEW g \in OpenFds, g # listensock, CanRead(g)  PROVE CanRead(g)'
    OBVIOUS
  <2>1. fdtab'[g] = fdtab[g] /\ sock'[fdtab[g]] = sock[fdtab[g]]
    BY <1>8, <1>9
  <2> QED  BY <2>1 DEF CanRead
<1>15. prog # "epoll" =>
         \A i \in Slots : fdarray'[i] # fdarray[i] =>
           /\ fdarray[i] = default_fd /\ fdarray'[i] \notin TableFds
           /\ fdarray'[i] # default_fd
  BY <1>3, <1>4, <1>11
<1>16. fdarray' \in [Slots -> Fds \cup {default_fd, listensock}]
  BY <1>2, <1>11 DEF PollTypes
<1>17. /\ ready' \subseteq Fds \cup Slots /\ pos' \in 0 .. fd_num
       /\ prog # "epoll" => fdarray'[0] = listensock
       /\ prog = "epoll" => ready' \subseteq interest'
       /\ prog = "select" => pos' # 0
       /\ prog = "poll" => \A i \in ready' : i \in Slots /\ fdarray'[i] # default_fd
       /\ ReadyWhenVisited'
  <2>1. prog = "epoll" => interest \ {listensock} \subseteq interest'
    BY <1>2
  <2>2. prog' = prog
    BY <1>1
  <2> QED  BY <1>1, <1>14, <1>15, <1>16, <2>1, <2>2, PassGoesOn
<1>18. PollTypes'
  <2>1. interest' \subseteq Fds \cup {listensock}
    BY <1>2, <1>3 DEF PollTypes
  <2>2. Slots' = Slots
    BY DEF Slots
  <2> QED  BY <1>1, <1>8, <1>9, <1>16, <1>17, <2>1, <2>2 DEF PollTypes, NetTypes
<1>19. Visits'
  BY <1>1, <1>17 DEF Visits, Slots
<1> QED  BY <1>12, <1>13, <1>17, <1>18, <1>19

\* accept of a connection that is closed at once, and accept that fails.
LEMMA RefusePoll ==
    ASSUME PollInv, TooHigh \/ AcceptFails
    PROVE  PollInv'
<1> USE DEF PollInv
<1>1. /\ pc = "scan" /\ pc' = pc /\ listensock \in Turn /\ backlog # <<>>
      /\ Visited(listensock)
      /\ UNCHANGED <<prog, sent, got, fdarray, interest, held, fdtab>>
      /\ Slots' = Slots /\ Fds' = Fds /\ OpenFds' = OpenFds /\ TableFds' = TableFds
  BY DEF TooHigh, AcceptFails, Slots, Fds, OpenFds, TableFds, net
<1>2. /\ backlog' \in Seq(Clients) /\ sock' \in [Clients -> Conns(Nat)]
      /\ \A g \in OpenFds : sock'[fdtab[g]] = sock[fdtab[g]]
      /\ Arrivals'
  <2>0. NetTypes /\ Arrivals
    BY <1>1 DEF PollTypes, Owners
  <2>1. CASE AcceptFails
    BY <2>0, <2>1 DEF AcceptFails, net, NetTypes, Arrivals
  <2>2. CASE TooHigh
    <3> DEFINE c == Head(backlog)  k == AfterClose(AfterAccept(sock[c]))
    <3>1. backlog' = Tail(backlog) /\ sock' = [sock EXCEPT ![c] = k]
      BY <2>2 DEF TooHigh
    <3>2. c \in Clients /\ sock[c] \in Conns(Nat) /\ sock[c].srv = "none"
      BY <1>1, <2>0, FirstArrival
    <3>3. AfterAccept(sock[c]) \in Conns(Nat) /\ AfterAccept(sock[c]).peer = sock[c].peer
      BY <3>2, ConnTypes, ConnFields
    <3>4. k \in Conns(Nat) /\ k.peer = sock[c].peer
      BY <3>3, ConnTypes, ConnFields
    <3> HIDE DEF k
    <3>5. /\ Arrivals' /\ backlog' \in Seq(Clients) /\ sock' \in [Clients -> Conns(Nat)]
          /\ \A d \in Clients \ {c} : sock'[d] = sock[d]
      BY <1>1, <2>0, <3>1, <3>4, ArrivalAccepted
    <3>6. \A g \in OpenFds : fdtab[g] # c /\ fdtab[g] \in Clients
      BY <1>1, <3>2 DEF OpenFds, PollTypes, TablesAgree
    <3> QED  BY <3>5, <3>6
  <2> QED  BY <2>1, <2>2
<1>3. \A g \in (OpenFds \cup {listensock}) \ {listensock} : CanRead(g) => CanRead(g)'
  <2> SUFFICES ASSUME NEW g \in OpenFds, g # listensock, CanRead(g)  PROVE CanRead(g)'
    OBVIOUS
  <2>1. fdtab'[g] = fdtab[g] /\ sock'[fdtab[g]] = sock[fdtab[g]]
    BY <1>1, <1>2
  <2> QED  BY <2>1 DEF CanRead
<1>4. TablesAgree'
  BY <1>1, <1>2 DEF TablesAgree
<1>5. Owners'
  BY <1>1, <1>2 DEF Owners
<1>6. /\ ready' \subseteq Fds \cup Slots /\ pos' \in 0 .. fd_num
      /\ prog # "epoll" => fdarray'[0] = listensock
      /\ prog = "epoll" => ready' \subseteq interest'
      /\ prog = "select" => pos' # 0
      /\ prog = "poll" => \A i \in ready' : i \in Slots /\ fdarray'[i] # default_fd
      /\ ReadyWhenVisited'
  <2>1. /\ fdarray' \in [Slots -> Fds \cup {default_fd, listensock}]
        /\ prog' = prog /\ fdarray' = fdarray
        /\ prog = "epoll" => interest \ {listensock} \subseteq interest'
    BY <1>1 DEF PollTypes
  <2> QED  BY <1>1, <1>3, <2>1, PassGoesOn
<1>7. PollTypes'
  BY <1>1, <1>2, <1>6 DEF PollTypes, NetTypes
<1>8. Visits'
  BY <1>1, <1>6 DEF Visits
<1> QED  BY <1>4, <1>5, <1>6, <1>7, <1>8

\* What recv and close do to one connection that is open.
LEMMA RecvPoll ==
    ASSUME PollInv, RecvData \/ RecvEnds
    PROVE  PollInv'
<1> USE DEF PollInv
<1>1. PICK f \in Turn \ {listensock} :
        /\ CanRead(f) /\ Visited(f)
        /\ \/ /\ RecvData /\ RecvResult(sock[fdtab[f]]) = "data"
              /\ held' = [fd |-> f, chunk |-> Head(sock[fdtab[f]].in)]
              /\ sock' = [sock EXCEPT ![fdtab[f]] = AfterRecv(@)]
           \/ /\ RecvEnds
              /\ sock' = [sock EXCEPT ![fdtab[f]] = AfterClose(@)]
              /\ fdtab' = [fdtab EXCEPT ![f] = NoClient]
              /\ interest' = interest \ {f}
              /\ fdarray' = [i \in Slots |-> IF fdarray[i] = f THEN default_fd
                                            ELSE fdarray[i]]
  BY DEF RecvData, RecvEnds
<1>2. pc = "scan" /\ UNCHANGED <<prog, backlog, sent, got>> /\ Slots' = Slots /\ Fds' = Fds
  BY DEF RecvData, RecvEnds, Slots, Fds
<1>3. /\ f \in OpenFds /\ f \in Fds /\ fdtab[f] \in Clients
      /\ sock[fdtab[f]] \in Conns(Nat) /\ sock[fdtab[f]].srv = "open"
      /\ f # default_fd /\ f # listensock
  <2>1. f \in OpenFds
    BY <1>1, <1>2, TurnOpen
  <2>2. f \in Fds /\ fdtab[f] \in Clients
    BY <2>1 DEF OpenFds, PollTypes
  <2>3. f # default_fd /\ f # listensock
    BY <2>2 DEF Fds, default_fd, listensock
  <2> QED  BY <1>2, <2>1, <2>2, <2>3 DEF PollTypes, NetTypes, TablesAgree
<1> DEFINE c == fdtab[f]
<1>4. /\ c \in Clients /\ sock' \in [Clients -> Conns(Nat)]
      /\ \A d \in Clients \ {c} : sock'[d] = sock[d]
      /\ sock'[c].srv # "none" /\ sock'[c].peer = sock[c].peer
  <2>1. PICK k \in {AfterRecv(sock[c]), AfterClose(sock[c])} : sock' = [sock EXCEPT ![c] = k]
    BY <1>1
  <2>2. k \in Conns(Nat) /\ k.srv # "none" /\ k.peer = sock[c].peer
    <3>1. k \in Conns(Nat)
      BY <1>3, <2>1, ConnTypes
    <3>2. k.srv # "none" /\ k.peer = sock[c].peer
      BY <1>3, <2>1, ConnFields
    <3> QED  BY <3>1, <3>2
  <2> QED  BY <1>3, <2>1, <2>2 DEF PollTypes, NetTypes
<1>5. \A g \in OpenFds \ {f} : fdtab[g] \in Clients \ {c}
  BY <1>2, <1>3 DEF Owners, OpenFds, PollTypes
<1>6. Arrivals'
  <2>1. NetTypes /\ Arrivals
    BY <1>2 DEF PollTypes, Owners
  <2>2. \A d \in Clients : /\ sock'[d].peer = sock[d].peer
                           /\ sock'[d].srv # sock[d].srv => sock[d].srv # "none"
    BY <1>3, <1>4
  <2> QED  BY <1>2, <2>1, <2>2, ArrivalsStay
<1> HIDE DEF c
<1>7. \A g \in (OpenFds \cup {listensock}) \ {f} :
         CanRead(g) => CanRead(g)' /\ (g # listensock => fdtab'[g] = fdtab[g])
  <2> SUFFICES ASSUME NEW g \in (OpenFds \cup {listensock}) \ {f}, CanRead(g)
               PROVE  CanRead(g)' /\ (g # listensock => fdtab'[g] = fdtab[g])
    OBVIOUS
  <2>1. CASE g = listensock
    BY <1>2, <2>1 DEF CanRead
  <2>2. CASE g # listensock
    <3>1. fdtab'[g] = fdtab[g]
      BY <1>1, <2>2 DEF RecvData, OpenFds, PollTypes
    <3>2. sock'[fdtab[g]] = sock[fdtab[g]]
      BY <1>4, <1>5, <2>2
    <3> QED  BY <2>2, <3>1, <3>2 DEF CanRead
  <2> QED  BY <2>1, <2>2
<1>8. /\ Owners' /\ TablesAgree' /\ interest' \subseteq Fds \cup {listensock}
      /\ fdarray' \in [Slots -> Fds \cup {default_fd, listensock}]
      /\ fdtab' \in [Fds -> Clients \cup {NoClient}]
      /\ \A i \in Slots : fdarray'[i] # fdarray[i] =>
            fdarray'[i] = default_fd /\ fdarray[i] = f
      /\ interest \ {f} \subseteq interest' /\ pc' \in {"scan", "write"}
      /\ pc' = "write" => held'.fd \in OpenFds'
      /\ held' \in [fd : Fds \cup {default_fd}, chunk : Nat]
  <2>1. CASE RecvData /\ sock' = [sock EXCEPT ![fdtab[f]] = AfterRecv(@)]
             /\ held' = [fd |-> f, chunk |-> Head(sock[c].in)]
             /\ RecvResult(sock[c]) = "data"
    <3>1. /\ pc' = "write" /\ UNCHANGED <<fdarray, interest, fdtab>>
          /\ OpenFds' = OpenFds /\ TableFds' = TableFds
      BY <1>2, <2>1 DEF RecvData, OpenFds, TableFds
    <3>2. sock'[c].srv = "open"
      <4>1. AfterRecv(sock[c]).srv = "open"
        BY <1>3, ConnFields DEF c
      <4> QED  BY <1>3, <1>4, <2>1, <4>1 DEF c, PollTypes
    <3>3. TablesAgree'
      <4>1. \A g \in OpenFds : sock'[fdtab[g]].srv = "open"
        <5> SUFFICES ASSUME NEW g \in OpenFds  PROVE sock'[fdtab[g]].srv = "open"
          OBVIOUS
        <5>1. CASE g = f
          BY <3>2, <5>1 DEF c
        <5>2. CASE g # f
          BY <1>2, <1>4, <1>5, <5>2 DEF TablesAgree
        <5> QED  BY <5>1, <5>2
      <4> QED  BY <1>2, <3>1, <4>1 DEF TablesAgree
    <3>4. Owners'
      BY <1>2, <1>6, <3>1 DEF Owners
    <3>5. Head(sock[c].in) \in Nat
      <4>1. sock[c].in \in Seq(Nat) /\ sock[c].in # <<>>
        BY <1>3, <2>1 DEF Conns, RecvResult, c
      <4> QED  BY <4>1
    <3> QED  BY <1>3, <2>1, <3>1, <3>3, <3>4, <3>5 DEF PollTypes
  <2>2. CASE RecvEnds /\ fdtab' = [fdtab EXCEPT ![f] = NoClient]
             /\ interest' = interest \ {f}
             /\ fdarray' = [i \in Slots |-> IF fdarray[i] = f THEN default_fd
                                            ELSE fdarray[i]]
    <3>1. /\ pc' = pc /\ held' = held /\ OpenFds' = OpenFds \ {f}
          /\ \A g \in OpenFds \ {f} : fdtab'[g] = fdtab[g]
      BY <1>2, <2>2 DEF RecvEnds, OpenFds, PollTypes
    <3>2. TableFds' = TableFds \ {f}
      BY <1>2, <1>3, <2>2 DEF TableFds
    <3>3. TablesAgree'
      <4>1. \A g \in OpenFds' : sock'[fdtab'[g]].srv = "open"
        BY <1>2, <1>4, <1>5, <3>1 DEF TablesAgree
      <4>2. \A i, j \in Slots : fdarray'[i] = fdarray'[j] /\ i # j /\ prog # "epoll"
                                  => fdarray'[i] = default_fd
        BY <2>2 DEF TablesAgree
      <4>3. prog = "epoll" => interest' = OpenFds' \cup {listensock}
        BY <1>3, <2>2, <3>1 DEF TablesAgree
      <4>4. prog # "epoll" => TableFds' = OpenFds' \cup {listensock}
        BY <1>3, <3>1, <3>2 DEF TablesAgree
      <4> QED  BY <1>2, <3>1, <4>1, <4>2, <4>3, <4>4 DEF TablesAgree
    <3>4. Owners'
      BY <1>2, <1>6, <3>1 DEF Owners
    <3> QED  BY <1>2, <1>3, <2>2, <3>1, <3>3, <3>4 DEF PollTypes
  <2> QED  BY <1>1, <2>1, <2>2 DEF c
<1>9. /\ ready' \subseteq Fds \cup Slots /\ pos' \in 0 .. fd_num
      /\ prog # "epoll" => fdarray'[0] = listensock
      /\ prog = "epoll" => ready' \subseteq interest'
      /\ prog = "select" => pos' # 0
      /\ prog = "poll" => \A i \in ready' : i \in Slots /\ fdarray'[i] # default_fd
      /\ ReadyWhenVisited'
  <2>1. prog' = prog /\ f \in Turn /\ Visited(f)
    BY <1>1, <1>2
  <2> QED  BY <1>2, <1>3, <1>7, <1>8, <2>1, PassGoesOn
<1>10. PollTypes'
  BY <1>2, <1>4, <1>8, <1>9 DEF PollTypes, NetTypes
<1>11. Visits'
  BY <1>2, <1>8, <1>9 DEF Visits
<1> QED  BY <1>8, <1>9, <1>10, <1>11

\* write, to a client that is there or one whose absence kills the server.
LEMMA WritePoll ==
    ASSUME PollInv, Write
    PROVE  PollInv'
<1> USE DEF PollInv
<1> DEFINE c == fdtab[held.fd]  k == AfterWrite(sock[c], held.chunk)
<1>1. /\ pc = "write" /\ held' = None /\ pc' \in {"scan", "killed"}
      /\ UNCHANGED <<prog, backlog, sent, got, fdarray, interest, ready, pos, fdtab>>
      /\ Slots' = Slots /\ Fds' = Fds /\ OpenFds' = OpenFds /\ TableFds' = TableFds
  BY DEF Write, Slots, Fds, OpenFds, TableFds
<1>2. held.fd \in OpenFds /\ c \in Clients /\ sock[c] \in Conns(Nat) /\ held.chunk \in Nat
  BY <1>1 DEF Visits, PollTypes, NetTypes, OpenFds
<1>3. k \in Conns(Nat)
  BY <1>2, ConnTypes
<1>4. k.srv = sock[c].srv /\ k.peer = sock[c].peer
  BY <1>2, ConnFields
<1>5. Readable(sock[c]) => Readable(k)
  BY <1>2, ConnReadable
<1>6. held' \in [fd : Fds \cup {default_fd}, chunk : Nat]
  BY <1>1 DEF None
<1>7. CASE pc' = "killed"
  <2>1. sock' = AfterKill(sock)
    BY <1>7 DEF Write
  <2>2. sock' \in [Clients -> Conns(Nat)]
    <3>1. \A d \in Clients : AfterClose(sock[d]) \in Conns(Nat)
      <4> TAKE d \in Clients
      <4>1. sock[d] \in Conns(Nat) /\ 0 \in Nat
        BY DEF PollTypes, NetTypes
      <4> QED  BY <4>1, ConnTypes
    <3> QED  BY <2>1, <3>1 DEF AfterKill, PollTypes, NetTypes
  <2> QED  BY <1>1, <1>6, <1>7, <2>2
           DEF PollTypes, NetTypes, TablesAgree, Owners, Visits, ReadyWhenVisited, Scanning
<1>8. CASE pc' = "scan"
  <2>1. sock' = [sock EXCEPT ![c] = k]
    BY <1>8 DEF Write
  <2> HIDE DEF c, k
  <2>2. /\ sock' \in [Clients -> Conns(Nat)]
        /\ \A d \in Clients : /\ sock'[d].srv = sock[d].srv
                              /\ sock'[d].peer = sock[d].peer
                              /\ Readable(sock[d]) => Readable(sock'[d])
    BY <1>2, <1>3, <1>4, <1>5, <2>1 DEF PollTypes, NetTypes
  <2>3. \A g \in OpenFds \cup {listensock} : CanRead(g) => CanRead(g)'
    BY <1>1, <2>2 DEF CanRead, OpenFds, PollTypes
  <2>4. PollTypes'
    BY <1>1, <1>6, <1>8, <2>2 DEF PollTypes, NetTypes
  <2>5. TablesAgree'
    <3>1. \A g \in OpenFds : sock'[fdtab[g]].srv = "open"
      BY <1>1, <2>2 DEF TablesAgree, OpenFds, PollTypes
    <3> QED  BY <1>1, <1>8, <3>1 DEF TablesAgree
  <2>6. Owners'
    <3>1. NetTypes /\ Arrivals
      BY <1>1 DEF PollTypes, Owners
    <3>2. Arrivals'
      BY <1>1, <2>2, <3>1, ArrivalsStay
    <3> QED  BY <1>1, <1>8, <3>2 DEF Owners
  <2>7. Visits'
    BY <1>1, <1>8 DEF Visits, Scanning
  <2>8. ReadyWhenVisited'
    <3>1. CASE prog = "epoll"
      <4>1. \A g \in ready : g \in OpenFds \cup {listensock} /\ CanRead(g)
        BY <1>1, <3>1 DEF ReadyWhenVisited, Visits, TablesAgree
      <4> QED  BY <1>1, <2>3, <3>1, <4>1 DEF ReadyWhenVisited
    <3>2. CASE prog # "epoll"
      <4> SUFFICES ASSUME NEW i \in Pending'  PROVE CanRead(fdarray[i])'
        BY <1>1, <3>2 DEF ReadyWhenVisited
      <4>1. i \in Pending
        BY <1>1 DEF Pending, IsSet
      <4>2. CanRead(fdarray[i]) /\ fdarray[i] \in TableFds
        BY <1>1, <3>2, <4>1 DEF ReadyWhenVisited, Pending, TableFds
      <4>3. \A g : g = fdarray[i] => CanRead(g)'
        BY <2>3, <3>2, <4>2 DEF TablesAgree
      <4> QED  BY <1>1, <4>3 DEF CanRead
    <3> QED  BY <3>1, <3>2
  <2> QED  BY <2>4, <2>5, <2>6, <2>7, <2>8
<1> QED  BY <1>1, <1>7, <1>8

\* A client: it makes nothing unreadable.
LEMMA ClientPoll ==
    ASSUME PollInv, NEW c \in Clients, Client(c),
           UNCHANGED <<prog, server>>,
           pc \in {"exited", "killed"} => sock[c].peer # "none"
    PROVE  PollInv'
<1> USE DEF PollInv
<1>1. /\ UNCHANGED <<prog, pc, fdarray, interest, ready, pos, held, fdtab>>
      /\ Slots' = Slots /\ Fds' = Fds /\ OpenFds' = OpenFds /\ TableFds' = TableFds
  BY DEF server, Slots, Fds, OpenFds, TableFds
<1>2. /\ backlog' \in Seq(Clients) /\ sock' \in [Clients -> Conns(Nat)]
      /\ sent' \in [Clients -> Nat] /\ got' \in [Clients -> Seq(Nat)]
      /\ \A d \in Clients : /\ Readable(sock[d]) => Readable(sock'[d])
                            /\ sock'[d].srv = sock[d].srv
                            /\ sock'[d].peer = "none" => sock[d].peer = "none"
      /\ \/ backlog' = backlog
         \/ /\ backlog' = Append(backlog, c) /\ sock[c].peer = "none"
            /\ sock'[c].peer = "open"
  BY ClientKeeps DEF PollTypes
<1>3. \A g \in OpenFds \cup {listensock} : CanRead(g) => CanRead(g)'
  <2>0. backlog # <<>> => backlog' # <<>>
    BY <1>2 DEF PollTypes
  <2> SUFFICES ASSUME NEW g \in OpenFds \cup {listensock}, CanRead(g)  PROVE CanRead(g)'
    OBVIOUS
  <2>1. CASE g = listensock
    BY <2>0, <2>1 DEF CanRead
  <2>2. CASE g # listensock
    BY <1>1, <1>2, <2>2 DEF CanRead, OpenFds, PollTypes
  <2> QED  BY <2>1, <2>2
<1>4. PollTypes'
  BY <1>1, <1>2 DEF PollTypes, NetTypes
<1>5. TablesAgree'
  <2>1. \A g \in OpenFds : fdtab[g] \in Clients
    BY DEF OpenFds, PollTypes
  <2> QED  BY <1>1, <1>2, <2>1 DEF TablesAgree
<1>6. Owners'
  <2> SUFFICES ASSUME pc # "killed"  PROVE Owners'
    BY <1>1 DEF Owners
  <2>1. Arrivals'
    BY ClientArrives DEF PollTypes, Owners
  <2> QED  BY <1>1, <2>1 DEF Owners
<1>7. Visits'
  BY <1>1 DEF Visits, Scanning
<1>8. ReadyWhenVisited'
  <2> SUFFICES ASSUME pc \in {"scan", "write"}  PROVE ReadyWhenVisited'
    BY <1>1 DEF ReadyWhenVisited
  <2>1. CASE prog = "epoll"
    <3>1. \A g \in ready : g \in OpenFds \cup {listensock} /\ CanRead(g)
      BY <2>1 DEF ReadyWhenVisited, Visits, TablesAgree
    <3> QED  BY <1>1, <1>3, <2>1, <3>1 DEF ReadyWhenVisited
  <2>2. CASE prog # "epoll"
    <3> SUFFICES ASSUME NEW i \in Pending'  PROVE CanRead(fdarray[i])'
      BY <1>1, <2>2 DEF ReadyWhenVisited
    <3>1. i \in Pending
      BY <1>1 DEF Pending, IsSet
    <3>2. CanRead(fdarray[i]) /\ fdarray[i] \in TableFds
      BY <2>2, <3>1 DEF ReadyWhenVisited, Pending, TableFds
    <3>3. \A g : g = fdarray[i] => CanRead(g)'
      BY <1>3, <2>2, <3>2 DEF TablesAgree
    <3> QED  BY <1>1, <3>3 DEF CanRead
  <2> QED  BY <2>1, <2>2
<1> QED  BY <1>4, <1>5, <1>6, <1>7, <1>8

\* The invariant is kept by every step.
LEMMA PollStep ==
    ASSUME PollInv, [PollingNext]_pollingVars
    PROVE  PollInv'
<1>1. CASE Server
  BY <1>1, WaitPoll, AddPoll, RefusePoll, RecvPoll, WritePoll
     DEF Server, HandleEvent, Accepter, Recver
<1>2. ASSUME NEW c \in Clients, Client(c), UNCHANGED <<prog, server>>,
             pc \in {"exited", "killed"} => sock[c].peer # "none"
      PROVE  PollInv'
  BY <1>2, ClientPoll
<1>3. CASE UNCHANGED pollingVars
  <2>1. /\ UNCHANGED <<prog, backlog, sock, sent, got>>
        /\ UNCHANGED <<pc, fdarray, interest, ready, pos, held, fdtab>>
        /\ OpenFds' = OpenFds /\ TableFds' = TableFds /\ Fds' = Fds /\ Slots' = Slots
    BY <1>3 DEF pollingVars, net, server, OpenFds, TableFds, Fds, Slots
  <2>2. PollTypes' /\ TablesAgree' /\ Owners' /\ Visits'
    BY <2>1 DEF PollInv, PollTypes, NetTypes, TablesAgree, Owners, Arrivals, Visits, Scanning
  <2>3. ReadyWhenVisited'
    BY <2>1 DEF PollInv, ReadyWhenVisited, Pending, IsSet, CanRead
  <2> QED  BY <2>2, <2>3 DEF PollInv
<1> QED  BY <1>1, <1>2, <1>3 DEF PollingNext

\* PollInv is an inductive invariant of the four loops over select, poll and epoll_wait.
THEOREM PollingInvariance == PollingSpec => []PollInv
BY InitPoll, PollStep, PTL DEF PollingSpec

\* What a server keeps of its connections (fdarray, _pollfds, the epoll set) and the
\* kernel's descriptors agree whenever it waits and in the middle of a pass, however
\* numbers are closed and given out again (AddConnection, RecvData).
THEOREM TablesStayTrue == PollingSpec => []TablesAgree
<1>1. PollInv => TablesAgree
  BY DEF PollInv
<1> QED  BY <1>1, PollingInvariance, PTL

\* A handler is called for a descriptor that can be read, so neither accept nor recv
\* blocks the one thread: in the middle of a pass, too, where a handler has closed a
\* connection and accept has given its number to another (HandleEvent).
THEOREM NobodyWaitsInHandler == PollingSpec => []ReadyWhenVisited
<1>1. PollInv => ReadyWhenVisited
  BY DEF PollInv
<1> QED  BY <1>1, PollingInvariance, PTL

-----------------------------------------------------------------------------
(* The chunks of the clients.                                              *)

\* What the handler has read of c and not written.
InHand(c) == IF pc = "write" /\ fdtab[held.fd] = c THEN <<held.chunk>> ELSE <<>>

\* The chunks of every client, with the one in the handler.
Streams == \A c \in Clients : Stream(c, InHand(c))

\* The first state: nothing was sent.
LEMMA InitStreams == ASSUME PollingInit  PROVE Streams
<1>1. <<>> \o <<>> = <<>> /\ Len(<<>>) = 0 /\ Counted(<<>>)
  BY DEF Counted
<1>2. ASSUME NEW c \in Clients  PROVE Stream(c, InHand(c))
  <2>1. /\ got[c] = <<>> /\ sock[c].out = <<>> /\ sock[c].in = <<>> /\ sent[c] = 0
        /\ InHand(c) = <<>>
    BY DEF PollingInit, InitServer, InitNet, InHand
  <2> QED  BY <1>1, <2>1 DEF Stream, Flow
<1> QED  BY <1>2 DEF Streams

\* A step that changes the connection of one client, by a call that keeps its
\* chunks in order, and nothing of the others.
LEMMA OneStream ==
    ASSUME NetTypes, Streams, NEW c \in Clients, NEW k,
           sock' = [sock EXCEPT ![c] = k], UNCHANGED <<sent, got>>,
           Flow(k, got[c], sent[c], InHand(c)'),
           \A d \in Clients \ {c} : InHand(d)' = InHand(d)
    PROVE  Streams'
<1>1. sock'[c] = k /\ \A d \in Clients \ {c} : sock'[d] = sock[d]
  BY DEF NetTypes
<1>2. ASSUME NEW d \in Clients  PROVE Stream(d, InHand(d))'
  <2>1. CASE d = c
    <3>1. \A h : h = InHand(c)' /\ Flow(k, got[c], sent[c], h) => Stream(c, h)'
      BY <1>1 DEF Stream
    <3> QED  BY <2>1, <3>1
  <2>2. CASE d # c
    <3>1. \A h : Stream(d, h) => Stream(d, h)'
      BY <1>1, <2>2 DEF Stream
    <3> QED  BY <2>2, <3>1 DEF Streams, Stream
  <2> QED  BY <2>1, <2>2
<1> QED  BY <1>2 DEF Streams

\* accept.
LEMMA AcceptStreams ==
    ASSUME PollInv, Streams, AddConnection \/ TooHigh
    PROVE  Streams'
<1>1. /\ pc = "scan" /\ pc' = "scan" /\ backlog # <<>> /\ UNCHANGED <<sent, got>>
      /\ \E k \in {AfterAccept(sock[Head(backlog)]),
                   AfterClose(AfterAccept(sock[Head(backlog)]))} :
            sock' = [sock EXCEPT ![Head(backlog)] = k]
  BY DEF AddConnection, TooHigh
<1> DEFINE c == Head(backlog)
<1>2. /\ c \in Clients /\ sock[c] \in Conns(Nat) /\ got[c] \in Seq(Nat) /\ sent[c] \in Nat
      /\ sock[c].srv = "none" /\ NetTypes
  <2>1. NetTypes /\ Arrivals
    BY <1>1 DEF PollInv, PollTypes, Owners
  <2> QED  BY <1>1, <2>1, FirstArrival DEF NetTypes
<1>3. \A d \in Clients : InHand(d) = <<>> /\ InHand(d)' = <<>>
  BY <1>1 DEF InHand
<1>4. Flow(sock[c], got[c], sent[c], <<>>)
  BY <1>2, <1>3 DEF Streams, Stream
<1>5. AfterAccept(sock[c]) \in Conns(Nat) /\ <<>> \in Seq(Nat)
  <2>1. 0 \in Nat
    OBVIOUS
  <2>2. AfterAccept(sock[c]) \in Conns(Nat)
    BY <1>2, <2>1, ConnTypes
  <2> QED  BY <2>2
<1>6. Flow(AfterAccept(sock[c]), got[c], sent[c], <<>>)
  <2>1. sock[c].srv = "none" => Flow(AfterAccept(sock[c]), got[c], sent[c], <<>>)
    BY <1>2, <1>4, <1>5, FlowKept
  <2> QED  BY <1>2, <2>1
<1>7. Flow(AfterClose(AfterAccept(sock[c])), got[c], sent[c], <<>>)
  BY <1>2, <1>5, <1>6, FlowKept
<1> QED  BY <1>1, <1>2, <1>3, <1>6, <1>7, OneStream

\* recv, and close behind the end of the stream.
LEMMA RecvStreams ==
    ASSUME PollInv, Streams, RecvData \/ RecvEnds
    PROVE  Streams'
<1>1. /\ pc = "scan" /\ UNCHANGED <<sent, got>>
  BY DEF RecvData, RecvEnds
<1>2. PICK f \in Turn \ {listensock} :
         \/ /\ pc' = "write" /\ fdtab' = fdtab /\ RecvResult(sock[fdtab[f]]) = "data"
            /\ held' = [fd |-> f, chunk |-> Head(sock[fdtab[f]].in)]
            /\ sock' = [sock EXCEPT ![fdtab[f]] = AfterRecv(@)]
         \/ /\ pc' = "scan" /\ sock' = [sock EXCEPT ![fdtab[f]] = AfterClose(@)]
  BY DEF RecvData, RecvEnds
<1> DEFINE c == fdtab[f]
<1>3. /\ c \in Clients /\ sock[c] \in Conns(Nat) /\ got[c] \in Seq(Nat) /\ sent[c] \in Nat
      /\ NetTypes
  <2>1. f \in OpenFds
    BY <1>1, <1>2, TurnOpen
  <2> QED  BY <2>1 DEF PollInv, PollTypes, NetTypes, OpenFds
<1>4. \A d \in Clients : InHand(d) = <<>>
  BY <1>1 DEF InHand
<1>5. Flow(sock[c], got[c], sent[c], <<>>) /\ <<>> \in Seq(Nat)
  BY <1>3, <1>4 DEF Streams, Stream
<1>6. CASE /\ pc' = "write" /\ fdtab' = fdtab /\ RecvResult(sock[c]) = "data"
           /\ held' = [fd |-> f, chunk |-> Head(sock[c].in)]
           /\ sock' = [sock EXCEPT ![c] = AfterRecv(@)]
  <2>1. sock[c].in # <<>>
    BY <1>6 DEF RecvResult
  <2>2. Flow(AfterRecv(sock[c]), got[c], sent[c], <<Head(sock[c].in)>>)
    BY <1>3, <1>5, <2>1, FlowKept
  <2>3. InHand(c)' = <<Head(sock[c].in)>> /\ \A d \in Clients \ {c} : InHand(d)' = <<>>
    BY <1>6 DEF InHand
  <2> QED  BY <1>1, <1>3, <1>4, <1>6, <2>2, <2>3, OneStream
<1>7. CASE pc' = "scan" /\ sock' = [sock EXCEPT ![c] = AfterClose(@)]
  <2>1. Flow(AfterClose(sock[c]), got[c], sent[c], <<>>)
    BY <1>3, <1>5, FlowKept
  <2>2. \A d \in Clients : InHand(d)' = <<>>
    BY <1>7 DEF InHand
  <2> QED  BY <1>1, <1>3, <1>4, <1>7, <2>1, <2>2, OneStream
<1> QED  BY <1>2, <1>6, <1>7

\* write: what was read goes out, or nothing does any more.
LEMMA WriteStreams ==
    ASSUME PollInv, Streams, Write
    PROVE  Streams'
<1> DEFINE c == fdtab[held.fd]
<1>1. /\ pc = "write" /\ UNCHANGED <<sent, got, fdtab>> /\ pc' # "write"
      /\ \/ sock' = AfterKill(sock)
         \/ sock' = [sock EXCEPT ![c] = AfterWrite(@, held.chunk)]
  BY DEF Write
<1>2. /\ c \in Clients /\ held.chunk \in Nat /\ NetTypes /\ sock[c].srv = "open"
      /\ sock[c].peer # "none"
  <2>1. held.fd \in OpenFds /\ c \in Clients /\ held.chunk \in Nat /\ NetTypes
    BY <1>1 DEF PollInv, Visits, PollTypes, OpenFds
  <2> QED  BY <1>1, <2>1 DEF PollInv, TablesAgree, Owners, Arrivals
<1>3. \A d \in Clients : /\ sock[d] \in Conns(Nat) /\ got[d] \in Seq(Nat) /\ sent[d] \in Nat
                         /\ Flow(sock[d], got[d], sent[d], InHand(d))
  BY <1>2 DEF NetTypes, Streams, Stream
<1>4. /\ InHand(c) = <<held.chunk>>
      /\ \A d \in Clients \ {c} : InHand(d) = <<>>
      /\ \A d \in Clients : InHand(d)' = <<>>
      /\ <<>> \in Seq(Nat) /\ \A n \in Nat : <<n>> \in Seq(Nat)
  BY <1>1 DEF InHand
<1>5. CASE sock' = AfterKill(sock)
  <2>1. ASSUME NEW d \in Clients  PROVE Stream(d, InHand(d))'
    <3>1. sock'[d] = IF sock[d].peer = "none" THEN sock[d] ELSE AfterClose(sock[d])
      BY <1>5 DEF AfterKill
    <3>2. Flow(sock'[d], got[d], sent[d], <<>>)
      <4>1. CASE sock[d].peer = "none"
        BY <1>2, <1>3, <1>4, <3>1, <4>1
      <4>2. CASE sock[d].peer # "none"
        <5>1. InHand(d) \in Seq(Nat)
          BY <1>2, <1>4
        <5>2. Flow(AfterClose(sock[d]), got[d], sent[d], <<>>)
          BY <1>3, <1>4, <5>1, FlowKept
        <5> QED  BY <3>1, <4>2, <5>2
      <4> QED  BY <4>1, <4>2
    <3>3. Stream(d, <<>>)'
      BY <1>1, <3>2 DEF Stream
    <3>4. \A h : h = InHand(d)' => Stream(d, h)'
      BY <1>4, <3>3
    <3> QED  BY <3>4
  <2> QED  BY <2>1 DEF Streams
<1>6. CASE sock' = [sock EXCEPT ![c] = AfterWrite(@, held.chunk)]
  <2>1. Flow(AfterWrite(sock[c], held.chunk), got[c], sent[c], <<>>)
    BY <1>2, <1>3, <1>4, FlowKept
  <2> QED  BY <1>1, <1>2, <1>4, <1>6, <2>1, OneStream
<1> QED  BY <1>1, <1>5, <1>6

\* The chunks stay in order in every step.
LEMMA StreamsStep ==
    ASSUME PollInv, Streams, [PollingNext]_pollingVars
    PROVE  Streams'
<1>1. CASE Select \/ Poll \/ EpollWait \/ PassEnds \/ AcceptFails
  <2>1. UNCHANGED net /\ pc # "write" /\ pc' # "write"
    BY <1>1 DEF Select, Poll, EpollWait, PassEnds, AcceptFails
  <2>2. \A c \in Clients : InHand(c) = <<>> /\ InHand(c)' = <<>>
    BY <2>1 DEF InHand
  <2> QED  BY <2>1, <2>2 DEF Streams, Stream, net
<1>2. CASE AddConnection \/ TooHigh \/ RecvData \/ RecvEnds \/ Write
  BY <1>2, AcceptStreams, RecvStreams, WriteStreams
<1>3. ASSUME NEW c \in Clients, Client(c), UNCHANGED <<prog, server>>
      PROVE  Streams'
  <2>1. ASSUME NEW d \in Clients  PROVE Stream(d, InHand(d))'
    <3>1. InHand(d)' = InHand(d) /\ InHand(d) \in Seq(Nat) /\ NetTypes
      BY <1>3 DEF InHand, server, PollInv, PollTypes
    <3>2. \A h \in Seq(Nat) : Stream(d, h) => Stream(d, h)'
      BY <1>3, <3>1, ClientStream
    <3>3. \A h : h = InHand(d)' => Stream(d, h)'
      BY <3>1, <3>2 DEF Streams
    <3> QED  BY <3>3
  <2> QED  BY <2>1 DEF Streams
<1>4. CASE UNCHANGED pollingVars
  BY <1>4 DEF pollingVars, net, server, Streams, Stream, InHand
<1> QED  BY <1>1, <1>2, <1>3, <1>4
         DEF PollingNext, Server, HandleEvent, Accepter, Recver

\* What a client sends to one of these servers comes back in order and once, as far as
\* it comes back (Recver), for any number of clients that come, leave, reset and reuse
\* descriptors.
THEOREM PollingEchoes == PollingSpec => []EchoesInOrder
<1>1. PollInv /\ Streams => EchoesInOrder
  <2> SUFFICES ASSUME PollInv, Streams, NEW c \in Clients
               PROVE  LET all == got[c] \o sock[c].out
                      IN  all = [k \in 1 .. Len(all) |-> k]
    BY DEF EchoesInOrder
  <2>1. Counted(got[c] \o sock[c].out) /\ got[c] \in Seq(Nat) /\ sock[c].out \in Seq(Nat)
    BY DEF Streams, Stream, Flow, PollInv, PollTypes, NetTypes, Conns
  <2>2. \A s \in Seq(Nat) : Counted(s) => s = [k \in 1 .. Len(s) |-> k]
    BY DEF Counted
  <2>3. got[c] \o sock[c].out \in Seq(Nat)
    BY <2>1
  <2> QED  BY <2>1, <2>2, <2>3
<1>2. PollingSpec => [](PollInv /\ Streams)
  BY InitPoll, InitStreams, PollStep, StreamsStep, PTL DEF PollingSpec
<1> QED  BY <1>1, <1>2, PTL
-----------------------------------------------------------------------------
(* The thread pool: its control state.                                     *)

Labels == {"new", "idle", "GetInstance", "singlock", "create", "singunlock",
           "run", "lock", "test", "wait", "woken", "push", "call", "write", "dead"}

\* What a calculation can give.
Results == {mymath(Typed[i]) : i \in Tasks}

TypeInv ==
    /\ prog \in Programs /\ at \in [Threads -> Labels]
    /\ task \in [Threads -> Jobs \cup {NoTask}]
    /\ task_queue \in Seq(Jobs) /\ backlog \in Seq(Clients)
    /\ typing \in 0 .. Len(Typed) /\ answer \in [Tasks -> Seq(Results)]

\* _singlock is held between the two tests of _tp and the unlock, and the
\* pool is there for whoever goes on to use it.
SingleInv ==
    /\ \A t \in Threads : at[t] \in {"create", "singunlock"} => singlock = t
    /\ tp \in BOOLEAN /\ created = IF tp THEN 1 ELSE 0
    /\ \A t \in Threads :
          at[t] \in {"singunlock", "run", "lock", "woken", "push"} => tp
    /\ \A w \in Workers : at[w] # "new" => tp

\* A caller has a task from submit to the end of push; a worker has one from
\* pop to the end of the call.
CarryInv ==
    /\ \A t \in Threads :
          at[t] \in {"new", "idle", "run", "woken", "test", "wait"} => task[t] = NoTask
    /\ \A w \in Workers : at[w] = "lock" => task[w] = NoTask
    /\ \A c \in Callers : at[c] \in {"lock", "push"} => task[c] # NoTask
    /\ \A t \in Threads : at[t] \in {"call", "write"} => task[t] # NoTask

\* Callers do not wait for tasks, workers do not push; the workers belong to
\* lesson32 and lesson36, and main serves in lesson35 alone; lesson32 has no
\* connections.
RoleInv ==
    /\ \A c \in Callers : at[c] \notin {"test", "wait", "woken"}
    /\ \A w \in Workers : at[w] \notin {"idle", "GetInstance", "singlock", "create",
                                         "singunlock", "run", "push"}
    /\ prog = "lesson35" => \A w \in Workers : at[w] = "new"
    /\ \A c \in Callers : at[c] \in {"call", "write", "dead"} => prog = "lesson35"
    /\ \A t \in Threads : at[t] = "write" => prog # "lesson32"

CtrlInv == TypeInv /\ SingleInv /\ CarryInv /\ RoleInv

\* What a step of the pool leaves alone.
Still == UNCHANGED <<prog, net, answer, typing, chunk, asked, killed>>

-----------------------------------------------------------------------------
\* The steps of the class, and those of the programs around it.
InPool == prog # "lesson35" /\ Still
CallerStep(c) == /\ InPool
                 /\ \/ TestInstance(c) \/ LockSingle(c) \/ Create(c)
                    \/ UnlockSingle(c) \/ StartWorker(c) \/ Push(c)
LockStep(t) == InPool /\ Lock(t)
WorkerStep(w) == InPool /\ (Wait(w) \/ Pop(w) \/ SpuriousWakeup(w))
ProgramStep ==
    \/ \E w \in Workers : Calculate(w)
    \/ \E c \in Callers : Submit(c)
    \/ StartPool \/ Accept
    \/ \E t \in Threads : serviceIO(t)
    \/ \E k \in Clients : tcpclient(k)
    \/ UNCHANGED vars

\* There are no others, and each is taken by its kind of thread.
LEMMA Steps ==
    ASSUME [Next]_vars
    PROVE  \/ \E c \in Callers : CallerStep(c)
           \/ \E t \in Threads : LockStep(t)
           \/ \E w \in Workers : WorkerStep(w)
           \/ ProgramStep
<1>1. ASSUME NEW t \in Threads, PoolStep(t)
      PROVE  \/ \E c \in Callers : CallerStep(c)
             \/ \E u \in Threads : LockStep(u)
             \/ \E w \in Workers : WorkerStep(w)
  BY <1>1 DEF PoolStep, handlerTask, GetInstance, push, Threads, Still, InPool,
              CallerStep, LockStep, WorkerStep
<1>2. ASSUME NEW w \in Workers, Spurious(w)  PROVE WorkerStep(w)
  BY <1>2 DEF Spurious, Still, InPool, WorkerStep
<1> QED  BY <1>1, <1>2, PoolAssumption DEF Next, Step, Threads, ProgramStep

\* The invariant holds before anything runs.
LEMMA InitCtrl == ASSUME Init PROVE CtrlInv
<1>1. TypeInv
  <2>1. at \in [Threads -> Labels] /\ task \in [Threads -> Jobs \cup {NoTask}]
    BY DEF Init, InitPrograms, InitPool, Labels
  <2>2. task_queue \in Seq(Jobs) /\ backlog \in Seq(Clients)
    BY DEF Init, InitPrograms, InitPool, InitNet
  <2>3. typing \in 0 .. Len(Typed) /\ answer \in [Tasks -> Seq(Results)]
    BY PoolAssumption DEF Init, InitPrograms
  <2> QED  BY <2>1, <2>2, <2>3 DEF Init, TypeInv
<1>2. SingleInv /\ CarryInv /\ RoleInv
  BY PoolAssumption DEF Init, InitPrograms, InitPool, SingleInv, CarryInv, RoleInv, Threads
<1> QED  BY <1>1, <1>2 DEF CtrlInv

-----------------------------------------------------------------------------
\* The steps of GetInstance, run and push.
LEMMA CallerCtrl ==
    ASSUME CtrlInv, NEW c \in Callers, CallerStep(c)
    PROVE  CtrlInv'
<1> USE DEF CtrlInv
<1>1. /\ prog' = prog /\ prog # "lesson35" /\ Jobs' = Jobs
      /\ UNCHANGED <<backlog, typing, answer>>
  BY DEF CallerStep, InPool, Still, net, Jobs
<1>2. c \in Threads /\ c \notin Workers
  BY PoolAssumption DEF Threads
<1>3. CASE TestInstance(c) \/ UnlockSingle(c)
  <2>1. /\ at[c] \in {"GetInstance", "singunlock"} /\ UNCHANGED <<task, tp, created, task_queue>>
        /\ singlock' \in {singlock, NoThread} /\ (singlock' # singlock => at[c] = "singunlock")
        /\ \E to \in {"run", "lock", "singlock"} :
              /\ at' = [at EXCEPT ![c] = to]
              /\ to # "singlock" => tp /\ (to = "run" <=> task[c] = NoTask)
    BY <1>3, <1>2 DEF TestInstance, UnlockSingle, Returned, Goto, SingleInv
  <2>2. TypeInv' /\ SingleInv'
    BY <1>1, <1>2, <2>1, PoolAssumption DEF TypeInv, SingleInv, Labels
  <2>3. PICK to \in {"run", "lock", "singlock"} :
          /\ at' = [at EXCEPT ![c] = to]
          /\ to # "singlock" => (to = "run" <=> task[c] = NoTask)
    BY <2>1
  <2>4. at'[c] = to /\ \A t \in Threads \ {c} : at'[t] = at[t]
    BY <1>2, <2>3 DEF TypeInv
  <2>5. CarryInv'
    BY <1>2, <2>1, <2>3, <2>4 DEF CarryInv, Threads
  <2>6. RoleInv'
    BY <1>1, <1>2, <2>3, <2>4 DEF RoleInv, Threads
  <2> QED  BY <2>2, <2>5, <2>6
<1>4. CASE LockSingle(c)
  <2>1. /\ at[c] = "singlock" /\ singlock = NoThread /\ singlock' = c
        /\ at' = [at EXCEPT ![c] = "create"] /\ UNCHANGED <<task, tp, created, task_queue>>
    BY <1>4 DEF LockSingle, Goto
  <2>2. TypeInv' /\ SingleInv'
    BY <1>1, <1>2, <2>1, PoolAssumption DEF TypeInv, SingleInv, Labels
  <2>3. CarryInv' /\ RoleInv'
    BY <1>1, <1>2, <2>1 DEF TypeInv, CarryInv, RoleInv, Threads
  <2> QED  BY <2>2, <2>3
<1>5. CASE Create(c)
  <2>1. /\ at[c] = "create" /\ UNCHANGED <<task, singlock, task_queue>>
        /\ tp' = TRUE /\ created' = IF tp THEN created ELSE created + 1
        /\ at' = [at EXCEPT ![c] = "singunlock"]
    BY <1>5 DEF Create, Goto
  <2>2. TypeInv'
    BY <1>1, <1>2, <2>1 DEF TypeInv, Labels
  <2>3. created' = 1 /\ singlock = c
    BY <1>2, <2>1 DEF SingleInv
  <2>4. SingleInv'
    BY <1>2, <2>1, <2>3 DEF TypeInv, SingleInv, Threads
  <2>5. CarryInv' /\ RoleInv'
    BY <1>1, <1>2, <2>1 DEF TypeInv, CarryInv, RoleInv, Threads
  <2> QED  BY <2>2, <2>4, <2>5
<1>6. CASE StartWorker(c)
  <2>1. /\ at[c] = "run" /\ UNCHANGED <<task, tp, created, singlock, task_queue>>
        /\ \E w \in Workers, to \in {"idle", "run"} :
              at[w] = "new" /\ at' = [at EXCEPT ![w] = "lock", ![c] = to]
    BY <1>6 DEF StartWorker
  <2>2. PICK w \in Workers, to \in {"idle", "run"} :
              at[w] = "new" /\ at' = [at EXCEPT ![w] = "lock", ![c] = to]
    BY <2>1
  <2>3. /\ w \in Threads \ Callers /\ at' \in [Threads -> Labels] /\ at'[w] = "lock" /\ at'[c] = to
        /\ \A t \in Threads \ {w, c} : at'[t] = at[t]
    BY <1>2, <2>2, PoolAssumption DEF TypeInv, Labels, Threads
  <2>4. TypeInv' /\ SingleInv'
    BY <1>1, <1>2, <2>1, <2>3 DEF TypeInv, SingleInv
  <2>5. CarryInv'
    BY <1>1, <1>2, <2>1, <2>2, <2>3 DEF CarryInv, Threads
  <2>6. RoleInv'
    BY <1>1, <1>2, <2>1, <2>2, <2>3 DEF RoleInv, Threads
  <2> QED  BY <2>4, <2>5, <2>6
<1>7. CASE Push(c)
  <2>1. /\ at[c] = "push" /\ UNCHANGED <<tp, created, singlock>>
        /\ task_queue' = Append(task_queue, task[c])
        /\ task' = [task EXCEPT ![c] = NoTask]
    BY <1>7 DEF Push
  <2>2. /\ at' \in [Threads -> Labels] /\ at'[c] = "idle"
        /\ \A t \in Threads \ {c} :
              at'[t] = at[t] \/ (t \in Workers /\ at[t] = "wait" /\ at'[t] = "woken")
    BY <1>7, <1>2 DEF Push, Goto, Waiting, TypeInv, Labels, Threads
  <2>3. task[c] \in Jobs
    BY <2>1, <1>2 DEF TypeInv, CarryInv
  <2>4. TypeInv'
    <3>1. task_queue' \in Seq(Jobs)
      BY <2>1, <2>3 DEF TypeInv
    <3>2. task' \in [Threads -> Jobs \cup {NoTask}]
      BY <2>1 DEF TypeInv
    <3> QED  BY <1>1, <2>2, <3>1, <3>2 DEF TypeInv
  <2>5. SingleInv'
    BY <1>1, <1>2, <2>1, <2>2 DEF SingleInv, Threads
  <2>6. CarryInv' /\ RoleInv'
    BY <1>1, <1>2, <2>1, <2>2 DEF TypeInv, CarryInv, RoleInv, Threads
  <2> QED  BY <2>4, <2>5, <2>6
<1> QED  BY <1>3, <1>4, <1>6, <1>7, <1>5 DEF CallerStep

\* Taking _mutex.
LEMMA LockCtrl ==
    ASSUME CtrlInv, NEW t \in Threads, LockStep(t)
    PROVE  CtrlInv'
<1> USE DEF CtrlInv
<1>1. /\ prog' = prog /\ prog # "lesson35" /\ Jobs' = Jobs
      /\ UNCHANGED <<backlog, typing, answer, task, tp, created, singlock, task_queue>>
      /\ at[t] \in {"lock", "woken"}
      /\ at' = [at EXCEPT ![t] = IF t \in Workers THEN "test" ELSE "push"]
  BY DEF LockStep, InPool, Still, net, Jobs, Lock, Goto
<1>2. TypeInv' /\ SingleInv'
  BY <1>1 DEF TypeInv, SingleInv, Labels
<1>3. CarryInv' /\ RoleInv'
  BY <1>1, PoolAssumption DEF TypeInv, CarryInv, RoleInv, Threads
<1> QED  BY <1>2, <1>3

\* The steps of a worker under _mutex, and its wakeups.
LEMMA WorkerCtrl ==
    ASSUME CtrlInv, NEW w \in Workers, WorkerStep(w)
    PROVE  CtrlInv'
<1> USE DEF CtrlInv
<1>1. /\ prog' = prog /\ prog # "lesson35" /\ Jobs' = Jobs
      /\ UNCHANGED <<backlog, typing, answer, tp, created, singlock>>
  BY DEF WorkerStep, InPool, Still, net, Jobs, Wait, Pop, SpuriousWakeup
<1>2. w \in Threads /\ w \notin Callers
  BY PoolAssumption DEF Threads
<1>3. CASE Wait(w) \/ SpuriousWakeup(w)
  <2>1. /\ UNCHANGED <<task, task_queue>>
        /\ \/ at[w] = "test" /\ at' = [at EXCEPT ![w] = "wait"]
           \/ at[w] = "wait" /\ at' = [at EXCEPT ![w] = "woken"]
    BY <1>3 DEF Wait, SpuriousWakeup, Goto
  <2>2. TypeInv' /\ SingleInv'
    BY <1>1, <1>2, <2>1 DEF TypeInv, SingleInv, Labels
  <2>3. at'[w] \in {"wait", "woken"} /\ \A t \in Threads \ {w} : at'[t] = at[t]
    BY <1>2, <2>1 DEF TypeInv
  <2>4. CarryInv'
    BY <1>1, <1>2, <2>1, <2>3 DEF CarryInv, Threads
  <2>5. RoleInv'
    BY <1>1, <1>2, <2>3 DEF RoleInv, Threads
  <2> QED  BY <2>2, <2>4, <2>5
<1>4. CASE Pop(w)
  <2>1. /\ at[w] = "test" /\ task_queue # <<>> /\ at' = [at EXCEPT ![w] = "call"]
        /\ task' = [task EXCEPT ![w] = Head(task_queue)] /\ task_queue' = Tail(task_queue)
    BY <1>4 DEF Pop, Goto
  <2>2. Head(task_queue) \in Jobs /\ Tail(task_queue) \in Seq(Jobs)
    BY <2>1 DEF TypeInv
  <2>3. NoTask \notin Jobs
    BY PoolAssumption DEF Jobs, Tasks
  <2>4. TypeInv' /\ SingleInv'
    BY <1>1, <1>2, <2>1, <2>2 DEF TypeInv, SingleInv, Labels
  <2>5. CarryInv' /\ RoleInv'
    BY <1>1, <1>2, <2>1, <2>2, <2>3 DEF TypeInv, CarryInv, RoleInv
  <2> QED  BY <2>4, <2>5
<1> QED  BY <1>3, <1>4 DEF WorkerStep

\* Typing, accepting, calculating and serving; the clients leave the pool
\* alone.
LEMMA ProgramCtrl ==
    ASSUME CtrlInv, ProgramStep
    PROVE  CtrlInv'
<1> USE DEF CtrlInv
<1>1. ASSUME NEW w \in Workers, Calculate(w)  PROVE CtrlInv'
  <2>1. /\ prog' = prog /\ prog = "lesson32" /\ Jobs' = Jobs /\ Jobs = Tasks
        /\ UNCHANGED <<backlog, typing, tp, created, singlock, task_queue>>
        /\ at[w] = "call" /\ at' = [at EXCEPT ![w] = "lock"]
        /\ task' = [task EXCEPT ![w] = NoTask]
        /\ answer' = [answer EXCEPT ![task[w]] = Append(@, mymath(Typed[task[w]]))]
    BY <1>1 DEF Calculate, Goto, net, Jobs
  <2>2. w \in Threads /\ w \notin Callers
    BY PoolAssumption DEF Threads
  <2>3. task[w] \in Tasks /\ mymath(Typed[task[w]]) \in Results
    BY <2>1, <2>2 DEF TypeInv, CarryInv, Results
  <2>4. answer' \in [Tasks -> Seq(Results)]
    BY <2>1, <2>3 DEF TypeInv
  <2>5. TypeInv' /\ SingleInv'
    BY <2>1, <2>2, <2>4 DEF TypeInv, SingleInv, Labels
  <2>6. CarryInv' /\ RoleInv'
    BY <2>1, <2>2 DEF TypeInv, CarryInv, RoleInv
  <2> QED  BY <2>5, <2>6
<1>2. ASSUME NEW c \in Callers, Submit(c)  PROVE CtrlInv'
  <2>1. /\ prog' = prog /\ prog = "lesson32" /\ Jobs' = Jobs /\ Jobs = Tasks
        /\ UNCHANGED <<backlog, answer, tp, created, singlock, task_queue>>
        /\ at[c] = "idle" /\ at' = [at EXCEPT ![c] = "GetInstance"]
        /\ typing' = typing + 1 /\ typing < Len(Typed)
        /\ task' = [task EXCEPT ![c] = typing + 1]
    BY <1>2 DEF Submit, Goto, net, Jobs
  <2>2. c \in Threads /\ c \notin Workers
    BY PoolAssumption DEF Threads
  <2>3. typing + 1 \in Tasks /\ typing' \in 0 .. Len(Typed)
    BY <2>1, PoolAssumption DEF TypeInv, Tasks
  <2>4. TypeInv' /\ SingleInv'
    BY <2>1, <2>2, <2>3 DEF TypeInv, SingleInv, Labels
  <2>5. CarryInv' /\ RoleInv'
    BY <2>1, <2>2 DEF TypeInv, CarryInv, RoleInv
  <2> QED  BY <2>4, <2>5
<1>3. CASE StartPool
  <2>1. /\ prog' = prog /\ Jobs' = Jobs
        /\ UNCHANGED <<backlog, typing, answer, task, tp, created, singlock, task_queue>>
        /\ at[Main] = "idle" /\ at' = [at EXCEPT ![Main] = "GetInstance"]
    BY <1>3 DEF StartPool, Goto, net, Jobs
  <2>2. Main \in Threads /\ Main \notin Workers
    BY PoolAssumption DEF Threads
  <2>3. TypeInv' /\ SingleInv'
    BY <2>1, <2>2 DEF TypeInv, SingleInv, Labels
  <2>4. CarryInv' /\ RoleInv'
    BY <2>1, <2>2 DEF TypeInv, CarryInv, RoleInv
  <2> QED  BY <2>3, <2>4
<1>4. CASE Accept
  <2>1. /\ prog' = prog /\ prog # "lesson32" /\ Jobs' = Jobs /\ Jobs = Clients
        /\ UNCHANGED <<typing, answer, tp, created, singlock, task_queue>>
        /\ backlog # <<>> /\ backlog' = Tail(backlog)
        /\ at[Main] = "idle" /\ task' = [task EXCEPT ![Main] = Head(backlog)]
        /\ at' = [at EXCEPT ![Main] = IF prog = "lesson35" THEN "call" ELSE "GetInstance"]
    BY <1>4 DEF Accept, Goto, Jobs
  <2>2. Main \in Callers /\ Main \in Threads /\ Main \notin Workers
    BY PoolAssumption DEF Threads
  <2>3. Head(backlog) \in Clients /\ Tail(backlog) \in Seq(Clients) /\ Head(backlog) # NoTask
    BY <2>1, PoolAssumption DEF TypeInv
  <2>4. TypeInv' /\ SingleInv'
    BY <2>1, <2>2, <2>3 DEF TypeInv, SingleInv, Labels
  <2>5. CarryInv' /\ RoleInv'
    BY <2>1, <2>2, <2>3 DEF TypeInv, CarryInv, RoleInv
  <2> QED  BY <2>4, <2>5
<1>5. ASSUME NEW t \in Threads, serviceIO(t)  PROVE CtrlInv'
  <2>1. /\ prog' = prog /\ Jobs' = Jobs
        /\ UNCHANGED <<backlog, typing, answer, tp, created, singlock, task_queue>>
    BY <1>5 DEF serviceIO, ReadMessage, ReadFails, ClientQuit, Echo, Jobs, mine, pool
  <2>2. t \in Workers => prog # "lesson35" \/ at[t] \notin {"call", "write"}
    BY DEF RoleInv
  <2>3. t \in Callers => prog = "lesson35" \/ at[t] \notin {"call", "write"}
    BY DEF RoleInv
  <2>4. CASE ReadMessage(t) \/ ReadFails(t) \/ Echo(t)
    <3>1. /\ at[t] \in {"call", "write"} /\ task' = task /\ at' \in [Threads -> Labels]
          /\ at'[t] \in {"call", "write", "dead"}
          /\ \A u \in Threads \ {t} : at'[u] = at[u]
      BY <2>4 DEF ReadMessage, ReadFails, Echo, InService, Goto, mine, pool, TypeInv, Labels
    <3>2. TypeInv' /\ SingleInv'
      BY <2>1, <3>1 DEF TypeInv, SingleInv, Threads
    <3>3. CarryInv' /\ RoleInv'
      <4>1. prog # "lesson32"
        BY <2>4 DEF ReadMessage, ReadFails, Echo, InService, RoleInv
      <4>2. CarryInv'
        BY <2>1, <3>1 DEF CarryInv, Threads
      <4>3. RoleInv'
        BY <2>1, <2>2, <2>3, <3>1, <4>1 DEF RoleInv, Threads
      <4> QED  BY <4>2, <4>3
    <3> QED  BY <3>2, <3>3
  <2>5. CASE ClientQuit(t)
    <3>1. /\ at[t] = "call" /\ task' = [task EXCEPT ![t] = NoTask]
          /\ at' = [at EXCEPT ![t] = IF prog = "lesson35" THEN "idle" ELSE "lock"]
      BY <2>5 DEF ClientQuit, InService, Goto
    <3>2. prog = "lesson35" <=> t \notin Workers
      BY <2>2, <2>3, <3>1 DEF Threads
    <3>3. TypeInv' /\ SingleInv'
      BY <2>1, <3>1, <3>2 DEF TypeInv, SingleInv, Labels
    <3>4. CarryInv' /\ RoleInv'
      BY <2>1, <3>1, <3>2, PoolAssumption DEF TypeInv, CarryInv, RoleInv, Threads
    <3> QED  BY <3>3, <3>4
  <2> QED  BY <1>5, <2>4, <2>5 DEF serviceIO
<1>6. ASSUME NEW k \in Clients, tcpclient(k)  PROVE CtrlInv'
  <2>1. /\ prog' = prog /\ UNCHANGED pool /\ UNCHANGED <<typing, answer>>
        /\ backlog' \in {backlog, Append(backlog, k)}
    BY <1>6 DEF tcpclient, Come, Enter, EnterMore, ReadReply, Leave, mine, net,
                Connect, ClientSend, ClientRecv, ClientClose, ClientReset
  <2>2. backlog' \in Seq(Clients)
    BY <2>1 DEF TypeInv
  <2>3. Jobs' = Jobs
    BY <2>1 DEF Jobs
  <2> QED  BY <2>1, <2>2, <2>3 DEF pool, TypeInv, SingleInv, CarryInv, RoleInv
<1>7. CASE UNCHANGED vars
  BY <1>7 DEF vars, mine, pool, net, TypeInv, SingleInv, CarryInv, RoleInv, Jobs
<1> QED  BY <1>1, <1>2, <1>3, <1>4, <1>5, <1>6, <1>7 DEF ProgramStep

-----------------------------------------------------------------------------
\* The control part of the invariant is inductive by itself.
LEMMA CtrlStep == ASSUME CtrlInv, [Next]_vars PROVE CtrlInv'
BY Steps, CallerCtrl, LockCtrl, WorkerCtrl, ProgramCtrl

\* Double-checked locking: one pool is built, and it is there for whoever
\* goes on to use it, however many threads ask at once.
THEOREM OnePool == Spec => []OneInstance
<1>1. Init => CtrlInv
  BY InitCtrl
<1>2. CtrlInv /\ [Next]_vars => CtrlInv'
  BY CtrlStep
<1>3. CtrlInv => OneInstance
  BY DEF CtrlInv, SingleInv, OneInstance
<1> QED  BY <1>1, <1>2, <1>3, PTL DEF Spec

-----------------------------------------------------------------------------
(* Workers that are awake.                                                 *)

Looking == {"lock", "woken", "test"}
Awake == Count(at, Workers, Looking)

\* Nobody falls asleep and nobody stops looking: the workers that are awake
\* stay so, and no task is added.
LEMMA NoneSleeps ==
    ASSUME TypeInv, TypeInv', TasksHaveWorkers,
           Len(task_queue') <= Len(task_queue),
           \A w \in Workers : /\ at[w] \in Looking => at'[w] \in Looking
                              /\ at'[w] = "wait" => at[w] = "wait"
    PROVE  TasksHaveWorkers'
<1> DEFINE A == {w \in Workers : at[w] \in Looking}
           B == {w \in Workers : at'[w] \in Looking}
<1>1. A \subseteq B /\ IsFiniteSet(A) /\ IsFiniteSet(B)
  BY FS_Subset, PoolAssumption
<1>2. Cardinality(A) <= Cardinality(B) /\ Cardinality(A) \in Nat /\ Cardinality(B) \in Nat
  BY <1>1, FS_Subset, FS_CardinalityType
<1>3. Len(task_queue) \in Nat /\ Len(task_queue') \in Nat
  BY DEF TypeInv
<1>4. Waiting' # {} => Waiting # {}
  BY DEF Waiting
<1>5. TasksHaveWorkers <=> (Waiting # {} => Len(task_queue) <= Cardinality(A))
  BY DEF TasksHaveWorkers, Looking
<1>6. TasksHaveWorkers' <=> (Waiting' # {} => Len(task_queue') <= Cardinality(B))
  BY DEF TasksHaveWorkers, Looking
<1> HIDE DEF A, B
<1> QED  BY <1>2, <1>3, <1>4, <1>5, <1>6

\* One worker goes from one place to another.
LEMMA OneGoes ==
    ASSUME TypeInv, TypeInv', NEW w \in Workers,
           \A v \in Workers \ {w} : at'[v] = at[v]
    PROVE  /\ Awake' = Awake + (IF at'[w] \in Looking THEN 1 ELSE 0)
                             - (IF at[w] \in Looking THEN 1 ELSE 0)
           /\ Awake \in Nat
<1>1. IsFiniteSet(Workers) /\ \A v \in Workers \ {w} : at'[v] = at[v]
  BY PoolAssumption
<1>2. Count(at', Workers, Looking) =
         Count(at, Workers, Looking) + (IF w \in Workers /\ at'[w] \in Looking THEN 1 ELSE 0)
                                     - (IF w \in Workers /\ at[w] \in Looking THEN 1 ELSE 0)
  BY <1>1, CountsDiffer
<1> QED  BY <1>1, <1>2, CountType DEF Awake

\* A push wakes a worker for its task, a worker that takes a task leaves one
\* less, and a worker falls asleep beside an empty queue only.
LEMMA AwakeStep ==
    ASSUME CtrlInv, TasksHaveWorkers, [Next]_vars
    PROVE  TasksHaveWorkers'
<1>1. TypeInv /\ TypeInv' /\ CtrlInv'
  BY CtrlStep DEF CtrlInv
<1>2. TasksHaveWorkers <=> (Waiting # {} => Len(task_queue) <= Awake)
  BY DEF TasksHaveWorkers, Looking, Awake, Count
<1>3. TasksHaveWorkers' <=> (Waiting' # {} => Len(task_queue') <= Awake')
  BY DEF TasksHaveWorkers, Looking, Awake, Count
<1>4. /\ Len(task_queue) \in Nat /\ at \in [Threads -> Labels]
      /\ Workers \subseteq Threads /\ \A c \in Callers : c \in Threads /\ c \notin Workers
  BY <1>1, PoolAssumption DEF TypeInv, Threads
<1>5. ASSUME NEW c \in Callers, CallerStep(c)  PROVE TasksHaveWorkers'
  <2>1. CASE TestInstance(c) \/ LockSingle(c) \/ Create(c) \/ UnlockSingle(c)
    <3>1. task_queue' = task_queue /\ \A w \in Workers : at'[w] = at[w]
      BY <1>4, <2>1 DEF TestInstance, LockSingle, Create, UnlockSingle, Returned, Goto
    <3> QED  BY <1>1, <1>4, <3>1, NoneSleeps
  <2>2. CASE StartWorker(c)
    <3>1. PICK w \in Workers, to \in {"idle", "run"} :
            at[w] = "new" /\ at' = [at EXCEPT ![w] = "lock", ![c] = to]
      BY <2>2 DEF StartWorker
    <3>2. at[w] = "new" /\ at'[w] = "lock" /\ \A v \in Threads \ {w, c} : at'[v] = at[v]
      BY <1>4, <3>1
    <3>3. task_queue' = task_queue
      BY <2>2 DEF StartWorker
    <3>4. \A v \in Workers : /\ at[v] \in Looking => at'[v] \in Looking
                             /\ at'[v] = "wait" => at[v] = "wait"
      BY <1>4, <3>2 DEF Looking
    <3> QED  BY <1>1, <1>4, <3>3, <3>4, NoneSleeps
  <2>3. CASE Push(c)
    <3>1. Len(task_queue') = Len(task_queue) + 1
      <4>1. task[c] \in Jobs
        BY <1>4, <2>3 DEF Push, CtrlInv, TypeInv, CarryInv
      <4> QED  BY <1>1, <2>3, <4>1 DEF Push, TypeInv
    <3>2. CASE Waiting = {}
      <4>1. \A w \in Workers : at'[w] = at[w]
        BY <1>4, <2>3, <3>2 DEF Push, Goto
      <4>2. Waiting' = {}
        BY <3>2, <4>1 DEF Waiting
      <4> QED  BY <1>3, <4>2
    <3>3. CASE Waiting # {}
      <4>1. PICK w \in Workers : at[w] = "wait" /\ at' = [at EXCEPT ![c] = "idle", ![w] = "woken"]
        BY <2>3, <3>3 DEF Push, Waiting
      <4>2. at[w] = "wait" /\ at'[w] = "woken" /\ \A v \in Workers \ {w} : at'[v] = at[v]
        BY <1>4, <4>1
      <4>3. Awake' = Awake + 1 /\ Awake \in Nat
        BY <1>1, <4>2, OneGoes DEF Looking
      <4> QED  BY <1>2, <1>3, <1>4, <3>1, <3>3, <4>3
    <3> QED  BY <3>2, <3>3
  <2> QED  BY <1>5, <2>1, <2>2, <2>3 DEF CallerStep
<1>6. ASSUME NEW t \in Threads, LockStep(t)  PROVE TasksHaveWorkers'
  <2>1. task_queue' = task_queue /\ (t \in Workers => at'[t] = "test")
    BY <1>4, <1>6 DEF LockStep, Lock, Goto
  <2>2. \A u \in Threads \ {t} : at'[u] = at[u]
    BY <1>4, <1>6 DEF LockStep, Lock, Goto
  <2>3. \A v \in Workers : /\ at[v] \in Looking => at'[v] \in Looking
                           /\ at'[v] = "wait" => at[v] = "wait"
    BY <1>4, <2>1, <2>2 DEF Looking
  <2> QED  BY <1>1, <1>4, <2>1, <2>3, NoneSleeps
<1>7. ASSUME NEW w \in Workers, WorkerStep(w)  PROVE TasksHaveWorkers'
  <2>1. CASE SpuriousWakeup(w)
    <3>1. task_queue' = task_queue /\ \A v \in Workers : at'[v] = at[v] \/ at'[v] = "woken"
      BY <1>4, <2>1 DEF SpuriousWakeup, Goto
    <3> QED  BY <1>1, <1>4, <3>1, NoneSleeps DEF Looking
  <2>2. CASE Wait(w)
    <3>1. Len(task_queue') = 0
      BY <2>2 DEF Wait
    <3>2. Awake' \in Nat
      BY <1>1, CountType, PoolAssumption DEF Awake
    <3> QED  BY <1>3, <3>1, <3>2
  <2>3. CASE Pop(w)
    <3>1. /\ at[w] = "test" /\ at'[w] = "call" /\ \A v \in Workers \ {w} : at'[v] = at[v]
          /\ Len(task_queue') = Len(task_queue) - 1
      BY <1>1, <1>4, <2>3 DEF Pop, Goto, TypeInv
    <3>2. Awake' = Awake - 1 /\ Awake \in Nat
      BY <1>1, <3>1, OneGoes DEF Looking
    <3>3. Waiting' = Waiting
      BY <3>1 DEF Waiting
    <3> QED  BY <1>2, <1>3, <1>4, <3>1, <3>2, <3>3
  <2> QED  BY <1>7, <2>1, <2>2, <2>3 DEF WorkerStep
<1>8. ASSUME ProgramStep  PROVE TasksHaveWorkers'
  <2>1. task_queue' = task_queue
    BY <1>8 DEF ProgramStep, Calculate, Submit, StartPool, Accept, serviceIO, ReadMessage,
                ReadFails, ClientQuit, Echo, tcpclient, Come, Enter, EnterMore, ReadReply,
                Leave, mine, pool, vars
  <2>2. CASE \E t \in Threads : Calculate(t) \/ serviceIO(t)
    <3>1. PICK t \in Threads : Calculate(t) \/ serviceIO(t)
      BY <2>2
    <3>2. at[t] \in {"call", "write"} /\ \A u \in Threads \ {t} : at'[u] = at[u]
      BY <1>4, <3>1 DEF Calculate, serviceIO, ReadMessage, ReadFails, ClientQuit, Echo,
                        InService, Goto, mine, pool
    <3>3. at'[t] # "wait"
      BY <1>4, <3>1, <3>2 DEF Calculate, serviceIO, ReadMessage, ReadFails, ClientQuit, Echo,
                              InService, Goto, mine, pool
    <3>4. \A v \in Workers : /\ at[v] \in Looking => at'[v] \in Looking
                             /\ at'[v] = "wait" => at[v] = "wait"
      BY <1>4, <3>2, <3>3 DEF Looking
    <3> QED  BY <1>1, <1>4, <2>1, <3>4, NoneSleeps
  <2>3. CASE (\E c \in Callers : Submit(c)) \/ StartPool \/ Accept
    <3>1. Main \in Callers
      BY PoolAssumption
    <3>2. \A v \in Workers : at'[v] = at[v]
      BY <1>4, <2>3, <3>1 DEF Submit, StartPool, Accept, Goto
    <3> QED  BY <1>1, <1>4, <2>1, <3>2, NoneSleeps
  <2>4. CASE (\E k \in Clients : tcpclient(k)) \/ UNCHANGED vars
    <3>1. at' = at
      BY <2>4 DEF tcpclient, Come, Enter, EnterMore, ReadReply, Leave, mine, pool, vars
    <3> QED  BY <1>1, <2>1, <3>1, NoneSleeps
  <2> QED  BY <1>4, <1>8, <2>2, <2>3, <2>4 DEF ProgramStep
<1> QED  BY <1>5, <1>6, <1>7, <1>8, Steps

\* One signal per push is enough (push, handlerTask), for any number of
\* workers and with spurious wakeups.
THEOREM NoTaskForgotten == Spec => []TasksHaveWorkers
<1>1. Init => CtrlInv /\ TasksHaveWorkers
  <2>1. Init => Waiting = {}
    BY DEF Init, InitPrograms, InitPool, Waiting, Threads
  <2> QED  BY <2>1, InitCtrl DEF TasksHaveWorkers
<1>2. CtrlInv /\ TasksHaveWorkers /\ [Next]_vars => CtrlInv' /\ TasksHaveWorkers'
  BY CtrlStep, AwakeStep
<1> QED  BY <1>1, <1>2, PTL DEF Spec

-----------------------------------------------------------------------------
(* What is typed in lesson32 is done once: InOnePlace, on top of the       *)
(* control invariant above.                                                *)

\* The account of a task: in a thread's hands, in the queue, done.
InHands(i) == Count(task, Threads, {i})
Account(i) == InHands(i) + Occurs(task_queue, i) + Len(answer[i])
Due(i) == IF i <= typing THEN 1 ELSE 0

-----------------------------------------------------------------------------
\* The property in these terms, before and after a step.
LEMMA AccountsBalance ==
    /\ InOnePlace <=> (prog = "lesson32" => \A i \in Tasks : Account(i) = Due(i))
    /\ InOnePlace' <=>
          (prog' = "lesson32" => \A i \in Tasks : Account(i)' = Due(i)')
<1>1. ASSUME NEW i
      PROVE  /\ InHands(i) = Cardinality({t \in Threads : task[t] = i})
             /\ InHands(i)' = Cardinality({t \in Threads : task'[t] = i})
  <2>1. /\ {t \in Threads : task[t] \in {i}} = {t \in Threads : task[t] = i}
        /\ {t \in Threads : task'[t] \in {i}} = {t \in Threads : task'[t] = i}
    OBVIOUS
  <2> QED  BY <2>1 DEF InHands, Count
<1> QED  BY <1>1 DEF InOnePlace, Account, Due, Occurs

\* The parts of an account are natural numbers, and no task is NoTask.
LEMMA AccountType ==
    ASSUME TypeInv, prog = "lesson32", NEW i \in Tasks
    PROVE  /\ InHands(i) \in Nat /\ Occurs(task_queue, i) \in Nat
           /\ Len(answer[i]) \in Nat /\ i \in Nat /\ i # NoTask
           /\ typing \in Nat /\ task_queue \in Seq(Tasks) /\ Jobs = Tasks
<1>1. IsFiniteSet(Threads)
  BY FS_Union, PoolAssumption DEF Threads
<1>2. InHands(i) \in Nat
  BY <1>1, CountType DEF InHands
<1>3. task_queue \in Seq(Tasks) /\ Jobs = Tasks
  BY DEF TypeInv, Jobs
<1>4. Occurs(task_queue, i) \in Nat
  BY <1>3, OccursType
<1>5. answer[i] \in Seq(Results)
  BY DEF TypeInv
<1>6. i \in Nat /\ i # NoTask
  BY PoolAssumption DEF Tasks
<1>7. typing \in Nat
  BY PoolAssumption DEF TypeInv
<1> QED  BY <1>2, <1>3, <1>4, <1>5, <1>6, <1>7

\* One thread takes a task in its hands, or gives one away.
LEMMA OneHand ==
    ASSUME NEW t \in Threads,
           \A u \in Threads \ {t} : task'[u] = task[u], NEW i
    PROVE  InHands(i)' = InHands(i) + (IF task'[t] = i THEN 1 ELSE 0)
                                    - (IF task[t] = i THEN 1 ELSE 0)
<1>1. IsFiniteSet(Threads) /\ \A u \in Threads \ {t} : task'[u] = task[u]
  BY FS_Union, PoolAssumption DEF Threads
<1>2. Count(task', Threads, {i}) =
         Count(task, Threads, {i}) + (IF t \in Threads /\ task'[t] \in {i} THEN 1 ELSE 0)
                                   - (IF t \in Threads /\ task[t] \in {i} THEN 1 ELSE 0)
  BY <1>1, CountsDiffer
<1> QED  BY <1>2 DEF InHands

-----------------------------------------------------------------------------
\* A task that is typed is in the hands of the one who pushes it.
LEMMA SubmitOnce ==
    ASSUME CtrlInv, InOnePlace, NEW c \in Callers, Submit(c)
    PROVE  InOnePlace'
<1>1. /\ c \in Threads /\ task[c] = NoTask /\ task'[c] = typing + 1 /\ typing' = typing + 1
      /\ prog = "lesson32" /\ task_queue' = task_queue /\ answer' = answer
      /\ \A u \in Threads \ {c} : task'[u] = task[u]
  BY DEF Submit, CtrlInv, TypeInv, CarryInv, Threads
<1>2. ASSUME NEW i \in Tasks  PROVE Account(i)' = Due(i)'
  <2>1. /\ InHands(i) \in Nat /\ Occurs(task_queue, i) \in Nat /\ Len(answer[i]) \in Nat
        /\ i \in Nat /\ i # NoTask /\ typing \in Nat
    BY <1>1, AccountType DEF CtrlInv
  <2>2. InHands(i)' = InHands(i) + (IF typing + 1 = i THEN 1 ELSE 0)
    BY <1>1, <2>1, OneHand
  <2>3. Account(i) = Due(i)
    BY <1>1, AccountsBalance
  <2> QED  BY <1>1, <2>1, <2>2, <2>3 DEF Account, Due
<1> QED  BY <1>2, AccountsBalance

\* push takes it from there to the queue.
LEMMA PushOnce ==
    ASSUME CtrlInv, InOnePlace, NEW c \in Callers, InPool, Push(c)
    PROVE  InOnePlace'
<1>1. /\ c \in Threads /\ task[c] \in Jobs /\ task'[c] = NoTask
      /\ prog' = prog /\ typing' = typing /\ answer' = answer
      /\ task_queue' = Append(task_queue, task[c])
      /\ \A u \in Threads \ {c} : task'[u] = task[u]
  BY DEF Push, InPool, Still, CtrlInv, TypeInv, CarryInv, Threads
<1>2. ASSUME NEW i \in Tasks, prog = "lesson32"  PROVE Account(i)' = Due(i)'
  <2>1. /\ InHands(i) \in Nat /\ Occurs(task_queue, i) \in Nat /\ Len(answer[i]) \in Nat
        /\ i # NoTask /\ task_queue \in Seq(Tasks) /\ task[c] \in Tasks
    BY <1>1, <1>2, AccountType DEF CtrlInv
  <2>2. InHands(i)' = InHands(i) - (IF task[c] = i THEN 1 ELSE 0)
    BY <1>1, <2>1, OneHand
  <2>3. Occurs(task_queue, i)' = Occurs(task_queue, i) + (IF task[c] = i THEN 1 ELSE 0)
    BY <1>1, <2>1, OccursAppend
  <2>4. Account(i) = Due(i)
    BY <1>2, AccountsBalance
  <2> QED  BY <1>1, <2>1, <2>2, <2>3, <2>4 DEF Account, Due
<1> QED  BY <1>1, <1>2, AccountsBalance

\* pop takes it from the queue to a worker's hands, which were empty.
LEMMA PopOnce ==
    ASSUME CtrlInv, InOnePlace, NEW w \in Workers, InPool, Pop(w)
    PROVE  InOnePlace'
<1>1. /\ w \in Threads /\ task[w] = NoTask /\ task'[w] = Head(task_queue)
      /\ prog' = prog /\ typing' = typing /\ answer' = answer
      /\ task_queue # <<>> /\ task_queue' = Tail(task_queue)
      /\ \A u \in Threads \ {w} : task'[u] = task[u]
  BY DEF Pop, InPool, Still, CtrlInv, TypeInv, CarryInv, Threads
<1>2. ASSUME NEW i \in Tasks, prog = "lesson32"  PROVE Account(i)' = Due(i)'
  <2>1. /\ InHands(i) \in Nat /\ Occurs(task_queue, i) \in Nat /\ Len(answer[i]) \in Nat
        /\ i # NoTask /\ task_queue \in Seq(Tasks)
    BY <1>2, AccountType DEF CtrlInv
  <2>2. InHands(i)' = InHands(i) + (IF Head(task_queue) = i THEN 1 ELSE 0)
    BY <1>1, <2>1, OneHand
  <2>3. Occurs(task_queue, i)' = Occurs(task_queue, i) - (IF Head(task_queue) = i THEN 1 ELSE 0)
    BY <1>1, <2>1, OccursTail
  <2>4. Account(i) = Due(i)
    BY <1>2, AccountsBalance
  <2> QED  BY <1>1, <2>1, <2>2, <2>3, <2>4 DEF Account, Due
<1> QED  BY <1>1, <1>2, AccountsBalance

\* And the call from there to the answers.
LEMMA CalculateOnce ==
    ASSUME CtrlInv, InOnePlace, NEW w \in Workers, Calculate(w)
    PROVE  InOnePlace'
<1>1. /\ w \in Threads /\ task[w] \in Tasks /\ task'[w] = NoTask
      /\ prog = "lesson32" /\ typing' = typing /\ task_queue' = task_queue
      /\ \A u \in Threads \ {w} : task'[u] = task[u]
  BY DEF Calculate, CtrlInv, TypeInv, CarryInv, Threads, Jobs
<1>2. /\ answer \in [Tasks -> Seq(Results)]
      /\ mymath(Typed[task[w]]) \in Results
      /\ answer' = [answer EXCEPT ![task[w]] = Append(@, mymath(Typed[task[w]]))]
  BY <1>1 DEF Calculate, CtrlInv, TypeInv, Results
<1>3. ASSUME NEW i \in Tasks  PROVE Account(i)' = Due(i)'
  <2>1. /\ InHands(i) \in Nat /\ Occurs(task_queue, i) \in Nat /\ Len(answer[i]) \in Nat
        /\ i # NoTask
    BY <1>1, AccountType DEF CtrlInv
  <2>2. InHands(i)' = InHands(i) - (IF task[w] = i THEN 1 ELSE 0)
    BY <1>1, <2>1, OneHand
  <2>3. Len(answer'[i]) = Len(answer[i]) + (IF task[w] = i THEN 1 ELSE 0)
    BY <1>1, <1>2, <2>1
  <2>4. InHands(i) + Occurs(task_queue, i) + Len(answer[i]) = Due(i)
    BY <1>1, AccountsBalance DEF Account
  <2>5. Account(i)' = InHands(i)' + Occurs(task_queue, i) + Len(answer'[i]) /\ Due(i)' = Due(i)
    BY <1>1 DEF Account, Due
  <2>6. CASE task[w] = i
    BY <2>1, <2>2, <2>3, <2>4, <2>5, <2>6
  <2>7. CASE task[w] # i
    BY <2>1, <2>2, <2>3, <2>4, <2>5, <2>7
  <2> QED  BY <2>6, <2>7
<1> QED  BY <1>3, AccountsBalance

\* Every other step leaves the accounts of lesson32 as they are.
LEMMA OnceStep ==
    ASSUME CtrlInv, InOnePlace, [Next]_vars
    PROVE  InOnePlace'
<1>1. ASSUME /\ prog' = prog
             /\ prog = "lesson32" => UNCHANGED <<task, task_queue, answer, typing>>
      PROVE  InOnePlace'
  BY <1>1 DEF InOnePlace
<1>2. ASSUME NEW c \in Callers, CallerStep(c)  PROVE InOnePlace'
  <2>1. CASE Push(c)
    BY <1>2, <2>1, PushOnce DEF CallerStep
  <2>2. CASE ~Push(c)
    BY <1>1, <1>2, <2>2 DEF CallerStep, InPool, Still, TestInstance, LockSingle, Create,
                            UnlockSingle, StartWorker
  <2> QED  BY <2>1, <2>2
<1>3. ASSUME NEW t \in Threads, LockStep(t)  PROVE InOnePlace'
  BY <1>1, <1>3 DEF LockStep, InPool, Still, Lock
<1>4. ASSUME NEW w \in Workers, WorkerStep(w)  PROVE InOnePlace'
  <2>1. CASE Pop(w)
    BY <1>4, <2>1, PopOnce DEF WorkerStep
  <2>2. CASE ~Pop(w)
    BY <1>1, <1>4, <2>2 DEF WorkerStep, InPool, Still, Wait, SpuriousWakeup
  <2> QED  BY <2>1, <2>2
<1>5. ASSUME ProgramStep  PROVE InOnePlace'
  <2>1. CASE \E w \in Workers : Calculate(w)
    BY <2>1, CalculateOnce
  <2>2. CASE \E c \in Callers : Submit(c)
    BY <2>2, SubmitOnce
  <2>3. CASE StartPool \/ Accept \/ \E t \in Threads : serviceIO(t)
    BY <1>1, <2>3 DEF StartPool, Accept, serviceIO, ReadMessage, ReadFails, ClientQuit,
                      Echo, InService, mine, pool
  <2>4. CASE (\E k \in Clients : tcpclient(k)) \/ UNCHANGED vars
    BY <1>1, <2>4 DEF tcpclient, Come, Enter, EnterMore, ReadReply, Leave, mine, pool, vars
  <2> QED  BY <1>5, <2>1, <2>2, <2>3, <2>4 DEF ProgramStep
<1> QED  BY <1>2, <1>3, <1>4, <1>5, Steps

-----------------------------------------------------------------------------
\* Division of natural numbers, as the solver knows it.
LEMMA DivMod ==
    ASSUME NEW a \in Nat, NEW b \in Nat \ {0}
    PROVE  /\ a \div b \in Nat /\ a % b \in 0 .. (b - 1)
           /\ a = b * (a \div b) + (a % b)
           /\ a \div b <= a
<1>1. a \div b \in Nat /\ a = b * (a \div b) + (a % b) /\ a % b \in 0 .. (b - 1)
  OBVIOUS
<1>2. a \div b <= a
  OBVIOUS
<1> QED  BY <1>1, <1>2

LEMMA MagnitudeIs ==
    ASSUME NEW n \in Int
    PROVE  /\ Magnitude(n) \in Nat /\ (n # 0 => Magnitude(n) \in Nat \ {0})
           /\ n >= 0 => Magnitude(n) = n /\ Magnitude(-n) = n
           /\ n < 0 => Magnitude(n) = -n /\ Magnitude(-n) = -n
BY DEF Magnitude

\* The quotient that mymath stores is the one C++ defines, whatever the signs.
LEMMA QuotientDivides ==
    ASSUME NEW x \in Int, NEW y \in Int \ {0}
    PROVE  /\ Quotient(x, y) \in -Magnitude(x) .. Magnitude(x)
           /\ Divided(x, y, Quotient(x, y), x - y * Quotient(x, y))
<1> DEFINE a == Magnitude(x)
           b == Magnitude(y)
           q == a \div b
           r == a % b
<1>1. a \in Nat /\ b \in Nat \ {0}
  BY MagnitudeIs
<1>2. q \in Nat /\ r \in 0 .. (b - 1) /\ a = b * q + r /\ q <= a
  BY <1>1, DivMod
<1>3. /\ x >= 0 => a = x
      /\ x < 0 => a = -x
      /\ y >= 0 => b = y
      /\ y < 0 => b = -y
  BY MagnitudeIs
<1>4. Quotient(x, y) = IF (x < 0) = (y < 0) THEN q ELSE -q
  BY DEF Quotient
<1> HIDE DEF a, b, q, r
<1>5. /\ (-b) * q = -(b * q) /\ b * (-q) = -(b * q) /\ (-b) * (-q) = b * q
      /\ b * q \in Int
  BY <1>1, <1>2
<1>6. x - y * Quotient(x, y) = IF x < 0 THEN -r ELSE r
  <2>1. CASE x < 0 /\ y < 0
    BY <1>1, <1>2, <1>3, <1>4, <1>5, <2>1
  <2>2. CASE x < 0 /\ y >= 0
    BY <1>1, <1>2, <1>3, <1>4, <1>5, <2>2
  <2>3. CASE x >= 0 /\ y < 0
    BY <1>1, <1>2, <1>3, <1>4, <1>5, <2>3
  <2>4. CASE x >= 0 /\ y >= 0
    BY <1>1, <1>2, <1>3, <1>4, <1>5, <2>4
  <2> QED  BY <2>1, <2>2, <2>3, <2>4
<1>7. Quotient(x, y) \in -a .. a
  BY <1>1, <1>2, <1>4
<1>8. LET rest == IF x < 0 THEN -r ELSE r
      IN  Magnitude(rest) < b /\ (rest = 0 \/ (rest < 0 <=> x < 0))
  <2>1. r \in Int /\ r >= 0 /\ r < b
    BY <1>1, <1>2
  <2>2. Magnitude(r) = r /\ Magnitude(-r) = r
    BY <2>1, MagnitudeIs
  <2> QED  BY <2>1, <2>2
<1>9. y * Quotient(x, y) \in Int /\ x = y * Quotient(x, y) + (x - y * Quotient(x, y))
  BY <1>1, <1>7
<1> QED  BY <1>6, <1>7, <1>8, <1>9 DEF Divided, a, b

\* And so is every other answer of mymath.
LEMMA MymathAnswers ==
    ASSUME NEW t \in [x : Int, op : STRING, y : Int]
    PROVE  IsAnswer(t, mymath(t))
<1>1. t.x \in Int /\ t.y \in Int
  OBVIOUS
<1>2. CASE t.op \in {"/", "%"} /\ t.y # 0
  <2>1. /\ Quotient(t.x, t.y) \in -Magnitude(t.x) .. Magnitude(t.x)
        /\ Divided(t.x, t.y, Quotient(t.x, t.y), t.x - t.y * Quotient(t.x, t.y))
    BY <1>1, <1>2, QuotientDivides
  <2>2. CASE t.op = "/"
    BY <1>2, <2>1, <2>2 DEF IsAnswer, mymath
  <2>3. CASE t.op = "%"
    BY <1>2, <2>1, <2>3 DEF IsAnswer, mymath
  <2> QED  BY <1>2, <2>2, <2>3
<1>3. CASE t.op \in {"/", "%"} /\ t.y = 0
  BY <1>3 DEF IsAnswer, mymath
<1>4. CASE t.op \notin {"/", "%"}
  <2>1. t.x + t.y - t.y = t.x /\ t.x - t.y + t.y = t.x /\ t.x * t.y = t.y * t.x
    BY <1>1
  <2> QED  BY <1>4, <2>1 DEF IsAnswer, mymath
<1> QED  BY <1>2, <1>3, <1>4

\* A worker stores what it has calculated under the task it was given.
LEMMA CalculateRight ==
    ASSUME CtrlInv, RightAnswers, NEW w \in Workers, Calculate(w)
    PROVE  RightAnswers'
<1>1. /\ task[w] \in Tasks /\ prog = "lesson32" /\ prog' = prog
      /\ answer \in [Tasks -> Seq(Results)]
      /\ mymath(Typed[task[w]]) \in Results
      /\ answer' = [answer EXCEPT ![task[w]] = Append(@, mymath(Typed[task[w]]))]
  BY DEF Calculate, CtrlInv, TypeInv, CarryInv, Threads, Jobs, Results
<1>2. ASSUME NEW i \in Tasks, NEW k \in DOMAIN answer'[i]
      PROVE  IsAnswer(Typed[i], answer'[i][k])
  <2>1. answer[i] \in Seq(Results)
    BY <1>1
  <2>2. CASE k \in DOMAIN answer[i]
    <3>1. answer'[i][k] = answer[i][k]
      BY <1>1, <2>1, <2>2
    <3> QED  BY <1>1, <2>2, <3>1 DEF RightAnswers
  <2>3. CASE k \notin DOMAIN answer[i]
    <3>1. i = task[w] /\ answer'[i][k] = mymath(Typed[i])
      BY <1>1, <1>2, <2>1, <2>3
    <3>2. Typed[i] \in [x : Int, op : STRING, y : Int]
      <4> DEFINE S == [x : Int, op : STRING, y : Int]
      <4>1. Typed \in Seq(S) /\ i \in 1 .. Len(Typed)
        BY PoolAssumption DEF Tasks
      <4> HIDE DEF S
      <4>2. Typed[i] \in S
        BY <4>1
      <4> QED  BY <4>2 DEF S
    <3> QED  BY <3>1, <3>2, MymathAnswers
  <2> QED  BY <2>2, <2>3
<1> QED  BY <1>1, <1>2 DEF RightAnswers

\* No other step touches the answers.
LEMMA RightStep ==
    ASSUME CtrlInv, RightAnswers, [Next]_vars
    PROVE  RightAnswers'
<1>1. ASSUME UNCHANGED <<prog, answer>>  PROVE RightAnswers'
  BY <1>1 DEF RightAnswers
<1>2. ASSUME NEW c \in Callers, CallerStep(c)  PROVE RightAnswers'
  BY <1>1, <1>2 DEF CallerStep, InPool, Still
<1>3. ASSUME NEW t \in Threads, LockStep(t)  PROVE RightAnswers'
  BY <1>1, <1>3 DEF LockStep, InPool, Still
<1>4. ASSUME NEW w \in Workers, WorkerStep(w)  PROVE RightAnswers'
  BY <1>1, <1>4 DEF WorkerStep, InPool, Still
<1>5. ASSUME ProgramStep  PROVE RightAnswers'
  <2>1. CASE \E w \in Workers : Calculate(w)
    BY <2>1, CalculateRight
  <2>2. CASE \E c \in Callers : Submit(c)
    BY <1>1, <2>2 DEF Submit
  <2>3. CASE StartPool \/ Accept \/ \E t \in Threads : serviceIO(t)
    BY <1>1, <2>3 DEF StartPool, Accept, serviceIO, ReadMessage, ReadFails, ClientQuit,
                      Echo, InService, mine, pool
  <2>4. CASE (\E k \in Clients : tcpclient(k)) \/ UNCHANGED vars
    BY <1>1, <2>4 DEF tcpclient, Come, Enter, EnterMore, ReadReply, Leave, mine, pool, vars
  <2> QED  BY <1>5, <2>1, <2>2, <2>3, <2>4 DEF ProgramStep
<1> QED  BY <1>2, <1>3, <1>4, <1>5, Steps

\* Every calculation that was typed is queued, in somebody's hands or done,
\* in one place and once, and done with the answer C++ gives, for any
\* calculations and any number of workers (push, handlerTask, mymath).
THEOREM EachTaskOnce == Spec => []TasksRunOnce
<1>1. Init => CtrlInv /\ InOnePlace /\ RightAnswers
  <2>1. ASSUME Init, NEW i \in Tasks  PROVE Account(i) = Due(i)
    <3>1. /\ \A t \in Threads : task[t] # i
          /\ task_queue = <<>> /\ answer[i] = <<>> /\ typing = 0
      BY <2>1, PoolAssumption DEF Init, InitPrograms, InitPool, Tasks
    <3>2. {t \in Threads : task[t] \in {i}} = {} /\ {k \in DOMAIN task_queue : task_queue[k] = i} = {}
      BY <3>1
    <3>3. InHands(i) = 0 /\ Occurs(task_queue, i) = 0
      BY <3>2, FS_EmptySet DEF InHands, Count, Occurs
    <3>4. i \in Nat /\ i > 0
      BY PoolAssumption DEF Tasks
    <3> QED  BY <3>1, <3>3, <3>4 DEF Account, Due
  <2>2. Init => \A i \in Tasks : answer[i] = <<>>
    BY DEF Init, InitPrograms
  <2> QED  BY <2>1, <2>2, InitCtrl, AccountsBalance DEF RightAnswers
<1>2. CtrlInv /\ InOnePlace /\ RightAnswers /\ [Next]_vars
         => CtrlInv' /\ InOnePlace' /\ RightAnswers'
  BY CtrlStep, OnceStep, RightStep
<1> QED  BY <1>1, <1>2, PTL DEF Spec, TasksRunOnce
-----------------------------------------------------------------------------
(* The echo servers of lesson35 and lesson36: the connections, and their   *)
(* chunks.                                                                 *)

\* Until a signal kills the server, a connection is in one place: it waits for
\* accept, in the queue, or in the hands of the one thread that serves it.
PlacesInv ==
    /\ \A t, u \in Threads : task[t] = task[u] /\ task[t] # NoTask => t = u
    /\ \A i, j \in DOMAIN task_queue : task_queue[i] = task_queue[j] => i = j
    /\ \A i \in DOMAIN task_queue : \A t \in Threads : task_queue[i] # task[t]
    /\ \A t \in Threads : task[t] # NoTask => sock[task[t]].srv = "open"
    /\ \A i \in DOMAIN task_queue : sock[task_queue[i]].srv = "open"
    /\ Arrivals

\* main is the only caller, and a signal kills lesson35 only.
EchoInv ==
    prog # "lesson32" =>
        /\ NetTypes /\ chunk \in [Threads -> Nat]
        /\ \A c \in Callers \ {Main} : at[c] = "idle"
        /\ killed => prog = "lesson35" /\ at[Main] = "dead"
        /\ ~killed => PlacesInv

Writes(t, c) == at[t] = "write" /\ task[t] = c

\* The chunks of c, with the one that its thread has read and not written.
ServedStreams ==
    prog # "lesson32" =>
        \A c \in Clients :
            /\ \A t \in Threads : Writes(t, c) => Stream(c, <<chunk[t]>>)
            /\ (\A t \in Threads : ~Writes(t, c)) => Stream(c, <<>>)

ServeInv == CtrlInv /\ EchoInv /\ ServedStreams

\* Nothing has arrived at first.
LEMMA InitServe == ASSUME Init  PROVE ServeInv
<1> USE DEF Init, InitPrograms, InitPool, InitNet
<1>1. CtrlInv
  BY InitCtrl
<1>2. EchoInv
  <2>1. NetTypes
    <3>1. sock \in [Clients -> Conns(Nat)]
      BY DEF Conns
    <3> QED  BY <3>1 DEF NetTypes
  <2>2. \A c \in Callers : at[c] = "idle"
    BY PoolAssumption DEF Threads
  <2>3. PlacesInv
    BY DEF PlacesInv, Arrivals
  <2> QED  BY <2>1, <2>2, <2>3 DEF EchoInv
<1>3. ServedStreams
  <2>1. ASSUME NEW c \in Clients
        PROVE  Stream(c, <<>>) /\ \A t \in Threads : ~Writes(t, c)
    <3>1. <<>> \o <<>> = <<>> /\ Len(<<>>) = 0 /\ Counted(<<>>)
      BY DEF Counted
    <3>2. got[c] = <<>> /\ sock[c].out = <<>> /\ sock[c].in = <<>> /\ sent[c] = 0
      OBVIOUS
    <3> QED  BY <3>1, <3>2 DEF Stream, Flow, Writes
  <2> QED  BY <2>1 DEF ServedStreams
<1> QED  BY <1>1, <1>2, <1>3 DEF ServeInv

\* Steps that move no chunk.
LEMMA StreamsRest ==
    ASSUME prog' = prog, ServedStreams, UNCHANGED <<sock, sent, got, chunk>>,
           \A t \in Threads : /\ at'[t] = "write" <=> at[t] = "write"
                              /\ at[t] = "write" => task'[t] = task[t]
    PROVE  ServedStreams'
<1>1. \A t \in Threads, c \in Clients : Writes(t, c)' <=> Writes(t, c)
  BY DEF Writes
<1>2. ASSUME NEW c \in Clients  PROVE \A h : Stream(c, h) => Stream(c, h)'
  BY DEF Stream
<1>3. \A t \in Threads, c \in Clients : Stream(c, <<chunk[t]>>) => Stream(c, <<chunk[t]>>)'
  BY <1>2 DEF Stream
<1> QED  BY <1>1, <1>2, <1>3 DEF ServedStreams

\* Steps of the threads that move no connection.
LEMMA EchoRest ==
    ASSUME ServeInv, prog' = prog,
           UNCHANGED <<net, chunk, killed, task, task_queue>>,
           \A t \in Threads : at'[t] = "write" <=> at[t] = "write",
           prog # "lesson32" => \A c \in Callers \ {Main} : at'[c] = at[c],
           killed => at'[Main] = at[Main]
    PROVE  EchoInv' /\ ServedStreams'
<1>1. ServedStreams'
  BY StreamsRest DEF net, ServeInv
<1>2. EchoInv'
  <2> SUFFICES ASSUME prog # "lesson32"  PROVE EchoInv'
    BY DEF EchoInv
  <2>1. NetTypes' /\ chunk' \in [Threads -> Nat]
    BY DEF net, ServeInv, EchoInv, NetTypes
  <2>2. killed' => prog = "lesson35" /\ at'[Main] = "dead"
    BY DEF ServeInv, EchoInv
  <2>3. ~killed' => PlacesInv'
    BY DEF net, ServeInv, EchoInv, PlacesInv, Arrivals
  <2>4. \A c \in Callers \ {Main} : at'[c] = "idle"
    BY DEF ServeInv, EchoInv
  <2> QED  BY <2>1, <2>2, <2>3, <2>4 DEF EchoInv
<1> QED  BY <1>1, <1>2

\* What the echo servers are like when a thread is about to act.
LEMMA EchoFacts ==
    ASSUME ServeInv, prog # "lesson32", ~killed
    PROVE  /\ NetTypes /\ PlacesInv /\ Arrivals /\ chunk \in [Threads -> Nat]
           /\ at \in [Threads -> Labels] /\ task \in [Threads -> Clients \cup {NoTask}]
           /\ task_queue \in Seq(Clients) /\ Jobs = Clients /\ NoTask \notin Clients
           /\ Main \in Threads /\ Main \in Callers
           /\ \A c \in Callers \ {Main} : at[c] = "idle"
BY PoolAssumption DEF ServeInv, EchoInv, PlacesInv, CtrlInv, TypeInv, Jobs, Threads

\* push takes a connection from the hands of main to the queue.
LEMMA PushEcho ==
    ASSUME ServeInv, prog # "lesson32", NEW c \in Callers, InPool, Push(c)
    PROVE  EchoInv' /\ ServedStreams'
<1>1. /\ prog' = prog /\ prog # "lesson35" /\ UNCHANGED <<net, chunk, killed>>
      /\ at[c] = "push" /\ task_queue' = Append(task_queue, task[c])
      /\ task' = [task EXCEPT ![c] = NoTask]
  BY DEF InPool, Still, Push
<1>2. ~killed /\ c = Main
  BY <1>1 DEF ServeInv, EchoInv
<1>3. /\ NetTypes /\ PlacesInv /\ Arrivals /\ chunk \in [Threads -> Nat]
      /\ at \in [Threads -> Labels] /\ task \in [Threads -> Clients \cup {NoTask}]
      /\ task_queue \in Seq(Clients) /\ NoTask \notin Clients
      /\ Main \in Threads /\ \A d \in Callers \ {Main} : at[d] = "idle"
  BY <1>2, EchoFacts
<1>4. \A t \in Threads \ {c} : at'[t] = at[t] \/ (at[t] = "wait" /\ at'[t] = "woken" /\ t \in Workers)
  BY <1>3 DEF Push, Goto, Waiting
<1>5. at'[c] = "idle"
  BY <1>2, <1>3, PoolAssumption DEF Push, Goto, Waiting
<1>6. /\ task[c] \in Clients /\ task[c] # NoTask /\ task'[c] = NoTask
      /\ \A t \in Threads \ {c} : task'[t] = task[t]
  BY <1>1, <1>2, <1>3 DEF ServeInv, CtrlInv, CarryInv
<1>7. ServedStreams'
  <2>1. \A t \in Threads : /\ at'[t] = "write" <=> at[t] = "write"
                           /\ at[t] = "write" => task'[t] = task[t]
    BY <1>1, <1>4, <1>5, <1>6
  <2> QED  BY <1>1, <2>1, StreamsRest DEF net, ServeInv
<1>8. PlacesInv'
  <2> DEFINE q == task_queue  n == Len(q)
  <2>1. /\ n \in Nat /\ DOMAIN q = 1 .. n /\ DOMAIN q' = 1 .. (n + 1) /\ q'[n + 1] = task[c]
        /\ \A i \in DOMAIN q : q'[i] = q[i] /\ q[i] \in Clients
        /\ \A i \in DOMAIN q' : i \in DOMAIN q \/ i = n + 1
    BY <1>1, <1>3, <1>6
  <2>2. /\ \A t, u \in Threads : task'[t] = task'[u] /\ task'[t] # NoTask => t = u
        /\ \A t \in Threads : task'[t] # NoTask => sock'[task'[t]].srv = "open"
    BY <1>1, <1>3, <1>6 DEF PlacesInv, net
  <2>3. \A i, j \in DOMAIN q' : q'[i] = q'[j] => i = j
    <3>1. \A i \in DOMAIN q : q[i] # task[c]
      BY <1>2, <1>3 DEF PlacesInv
    <3>2. \A i, j \in DOMAIN q : q[i] = q[j] => i = j
      BY <1>3 DEF PlacesInv
    <3> HIDE DEF q, n
    <3> QED  BY <2>1, <3>1, <3>2
  <2>4. \A i \in DOMAIN q' : q'[i] \in Clients /\ \A t \in Threads : q'[i] # task'[t]
    <3>1. \A i \in DOMAIN q : \A t \in Threads : q[i] # task[t]
      BY <1>3 DEF PlacesInv
    <3>2. \A t \in Threads \ {c} : task[t] # task[c]
      BY <1>2, <1>3, <1>6 DEF PlacesInv
    <3> HIDE DEF q, n
    <3> QED  BY <1>3, <1>6, <2>1, <3>1, <3>2
  <2>5. \A i \in DOMAIN q' : sock'[q'[i]].srv = "open"
    <3>1. sock[task[c]].srv = "open" /\ \A i \in DOMAIN q : sock[q[i]].srv = "open"
      BY <1>2, <1>3, <1>6 DEF PlacesInv
    <3> QED  BY <1>1, <2>1, <3>1 DEF net
  <2>6. Arrivals'
    BY <1>1, <1>3 DEF Arrivals, net
  <2> QED  BY <2>2, <2>3, <2>4, <2>5, <2>6 DEF PlacesInv
<1>9. \A d \in Callers \ {Main} : at'[d] = "idle"
  BY <1>2, <1>3, <1>4 DEF Threads
<1> QED  BY <1>1, <1>2, <1>3, <1>7, <1>8, <1>9 DEF EchoInv, NetTypes, net

\* pop takes it from there to the hands of a worker, which were empty.
LEMMA PopEcho ==
    ASSUME ServeInv, prog # "lesson32", NEW w \in Workers, InPool, Pop(w)
    PROVE  EchoInv' /\ ServedStreams'
<1>1. /\ prog' = prog /\ prog # "lesson35" /\ UNCHANGED <<net, chunk, killed>>
      /\ at[w] = "test" /\ task_queue # <<>> /\ task_queue' = Tail(task_queue)
      /\ task' = [task EXCEPT ![w] = Head(task_queue)]
      /\ at' = [at EXCEPT ![w] = "call"]
  BY DEF InPool, Still, Pop, Goto
<1>2. ~killed /\ w \in Threads /\ w \notin Callers
  BY <1>1, PoolAssumption DEF ServeInv, EchoInv, Threads
<1>3. /\ NetTypes /\ PlacesInv /\ Arrivals /\ chunk \in [Threads -> Nat]
      /\ at \in [Threads -> Labels] /\ task \in [Threads -> Clients \cup {NoTask}]
      /\ task_queue \in Seq(Clients) /\ NoTask \notin Clients
      /\ Main \in Threads /\ \A d \in Callers \ {Main} : at[d] = "idle"
  BY <1>2, EchoFacts
<1>4. /\ at'[w] = "call" /\ \A t \in Threads \ {w} : at'[t] = at[t]
      /\ task'[w] = Head(task_queue) /\ \A t \in Threads \ {w} : task'[t] = task[t]
  BY <1>1, <1>2, <1>3
<1>5. ServedStreams'
  <2>1. \A t \in Threads : /\ at'[t] = "write" <=> at[t] = "write"
                           /\ at[t] = "write" => task'[t] = task[t]
    BY <1>1, <1>4
  <2> QED  BY <1>1, <2>1, StreamsRest DEF net, ServeInv
<1>6. PlacesInv'
  <2> DEFINE q == task_queue
  <2>1. /\ Head(q) = q[1] /\ 1 \in DOMAIN q /\ Head(q) \in Clients
        /\ \A i \in DOMAIN q' : /\ i \in Nat /\ i + 1 \in DOMAIN q /\ i + 1 # 1
                                /\ q'[i] = q[i + 1]
    BY <1>1, <1>3
  <2>2. \A i \in DOMAIN q' : q'[i] # Head(q)
    BY <1>3, <2>1 DEF PlacesInv
  <2>3. \A t, u \in Threads : task'[t] = task'[u] /\ task'[t] # NoTask => t = u
    <3>1. \A t \in Threads \ {w} : task'[t] # task'[w]
      BY <1>3, <1>4, <2>1 DEF PlacesInv
    <3> QED  BY <1>3, <1>4, <3>1 DEF PlacesInv
  <2>4. ASSUME NEW i \in DOMAIN q', NEW j \in DOMAIN q', q'[i] = q'[j]  PROVE i = j
    <3>1. i + 1 = j + 1
      BY <1>3, <2>1, <2>4 DEF PlacesInv
    <3> QED  BY <2>1, <3>1
  <2>5. \A i \in DOMAIN q' : \A t \in Threads : q'[i] # task'[t]
    BY <1>3, <1>4, <2>1, <2>2 DEF PlacesInv
  <2>6. \A t \in Threads : task'[t] # NoTask => sock'[task'[t]].srv = "open"
    <3>1. sock[Head(q)].srv = "open"
      BY <1>3, <2>1 DEF PlacesInv
    <3> QED  BY <1>1, <1>3, <1>4, <3>1 DEF PlacesInv, net
  <2>7. \A i \in DOMAIN q' : sock'[q'[i]].srv = "open"
    BY <1>1, <1>3, <2>1 DEF PlacesInv, net
  <2>8. Arrivals'
    BY <1>1, <1>3 DEF Arrivals, net
  <2> QED  BY <2>3, <2>4, <2>5, <2>6, <2>7, <2>8 DEF PlacesInv
<1>7. \A d \in Callers \ {Main} : at'[d] = "idle"
  BY <1>2, <1>3, <1>4 DEF Threads
<1> QED  BY <1>1, <1>2, <1>3, <1>5, <1>6, <1>7 DEF EchoInv, NetTypes, net

\* accept takes a connection from the backlog to the hands of main.
LEMMA AcceptEcho ==
    ASSUME ServeInv, Accept
    PROVE  EchoInv' /\ ServedStreams'
<1>0. PICK c : c = Head(backlog)
  OBVIOUS
<1> DEFINE k == AfterAccept(sock[c])
<1>1. /\ prog' = prog /\ prog # "lesson32" /\ UNCHANGED <<sent, got, task_queue, chunk, killed>>
      /\ at[Main] = "idle" /\ backlog # <<>> /\ backlog' = Tail(backlog)
      /\ task' = [task EXCEPT ![Main] = c] /\ sock' = [sock EXCEPT ![c] = k]
      /\ \E to \in {"call", "GetInstance"} : at' = [at EXCEPT ![Main] = to]
  BY <1>0 DEF Accept, Goto
<1>2. ~killed
  BY <1>1 DEF ServeInv, EchoInv
<1>3. /\ NetTypes /\ PlacesInv /\ Arrivals /\ chunk \in [Threads -> Nat]
      /\ at \in [Threads -> Labels] /\ task \in [Threads -> Clients \cup {NoTask}]
      /\ task_queue \in Seq(Clients) /\ NoTask \notin Clients
      /\ Main \in Threads /\ \A d \in Callers \ {Main} : at[d] = "idle"
  BY <1>1, <1>2, EchoFacts
<1>4. /\ c \in Clients /\ sock[c] \in Conns(Nat) /\ sock[c].srv = "none" /\ task[Main] = NoTask
  BY <1>0, <1>1, <1>3, FirstArrival DEF ServeInv, CtrlInv, CarryInv
<1>5. k \in Conns(Nat) /\ k.srv = "open" /\ k.peer = sock[c].peer
  <2>1. 0 \in Nat
    OBVIOUS
  <2> QED  BY <1>4, <2>1, ConnTypes, ConnFields
<1>6. Flow(sock[c], got[c], sent[c], <<>>) => Flow(k, got[c], sent[c], <<>>)
  <2>1. got[c] \in Seq(Nat) /\ sent[c] \in Nat /\ <<>> \in Seq(Nat)
    BY <1>3, <1>4 DEF NetTypes
  <2> QED  BY <1>4, <2>1, FlowKept
<1> HIDE DEF k
<1>7. /\ Arrivals' /\ backlog' \in Seq(Clients) /\ sock' \in [Clients -> Conns(Nat)]
      /\ sock'[c] = k /\ \A d \in Clients \ {c} : sock'[d] = sock[d]
  BY <1>0, <1>1, <1>3, <1>5, ArrivalAccepted
<1>8. /\ at'[Main] \in {"call", "GetInstance"} /\ \A t \in Threads \ {Main} : at'[t] = at[t]
      /\ task'[Main] = c /\ \A t \in Threads \ {Main} : task'[t] = task[t]
  BY <1>1, <1>3
<1>9. /\ \A t \in Threads : task[t] # c
      /\ \A i \in DOMAIN task_queue : task_queue[i] \in Clients \ {c}
  BY <1>3, <1>4 DEF PlacesInv
<1>10. ServedStreams'
  <2>1. \A t \in Threads, d \in Clients : Writes(t, d)' <=> Writes(t, d)
    BY <1>1, <1>8 DEF Writes
  <2>2. ASSUME NEW d \in Clients \ {c}  PROVE \A h : Stream(d, h) => Stream(d, h)'
    BY <1>1, <1>7, <2>2 DEF Stream
  <2>3. Stream(c, <<>>) => Stream(c, <<>>)'
    BY <1>1, <1>6, <1>7 DEF Stream
  <2>4. \A t \in Threads : ~Writes(t, c)
    BY <1>9 DEF Writes
  <2>5. ASSUME NEW d \in Clients
        PROVE  /\ \A t \in Threads : Writes(t, d)' => Stream(d, <<chunk[t]>>)'
               /\ (\A t \in Threads : ~Writes(t, d)') => Stream(d, <<>>)'
    <3>1. CASE d = c
      BY <1>1, <2>1, <2>3, <2>4, <3>1 DEF ServeInv, ServedStreams
    <3>2. CASE d # c
      <4>1. \A t \in Threads : Stream(d, <<chunk[t]>>) => Stream(d, <<chunk[t]>>)'
        BY <1>1, <2>2, <3>2 DEF Stream
      <4> QED  BY <1>1, <2>1, <2>2, <3>2, <4>1 DEF ServeInv, ServedStreams
    <3> QED  BY <3>1, <3>2
  <2> QED  BY <2>5 DEF ServedStreams
<1>11. PlacesInv'
  <2>1. \A t, u \in Threads : task'[t] = task'[u] /\ task'[t] # NoTask => t = u
    BY <1>3, <1>8, <1>9 DEF PlacesInv
  <2>2. \A i \in DOMAIN task_queue : \A t \in Threads : task_queue[i] # task'[t]
    BY <1>3, <1>8, <1>9 DEF PlacesInv
  <2>3. \A t \in Threads : task'[t] # NoTask => sock'[task'[t]].srv = "open"
    BY <1>3, <1>5, <1>7, <1>8, <1>9 DEF PlacesInv
  <2>4. \A i \in DOMAIN task_queue : sock'[task_queue[i]].srv = "open"
    BY <1>3, <1>7, <1>9 DEF PlacesInv
  <2> QED  BY <1>1, <1>3, <1>7, <2>1, <2>2, <2>3, <2>4 DEF PlacesInv
<1>12. \A d \in Callers \ {Main} : at'[d] = "idle"
  BY <1>3, <1>8 DEF Threads
<1> QED  BY <1>1, <1>2, <1>3, <1>7, <1>10, <1>11, <1>12 DEF EchoInv, NetTypes

\* The thread that is in serviceIO, and its connection.
LEMMA Served ==
    ASSUME ServeInv, NEW t \in Threads, serviceIO(t)
    PROVE  /\ prog # "lesson32" /\ ~killed /\ at[t] \in {"call", "write"}
           /\ task[t] \in Clients /\ sock[task[t]] \in Conns(Nat)
           /\ sock[task[t]].srv = "open" /\ sock[task[t]].peer # "none"
           /\ t \in Callers => t = Main
           /\ prog = "lesson35" => t = Main
<1>1. at[t] \in {"call", "write"} /\ task[t] \in Jobs
  BY DEF serviceIO, ReadMessage, ReadFails, ClientQuit, Echo, InService, ServeInv,
         CtrlInv, TypeInv, CarryInv
<1>2. prog # "lesson32"
  BY DEF serviceIO, ReadMessage, ReadFails, ClientQuit, Echo, InService, ServeInv,
         CtrlInv, RoleInv
<1>3. (t \in Callers => t = Main) /\ (prog = "lesson35" => t = Main)
  BY <1>1, <1>2 DEF ServeInv, CtrlInv, RoleInv, EchoInv, Threads
<1>4. ~killed
  BY <1>1, <1>2, <1>3 DEF ServeInv, EchoInv
<1>5. /\ NetTypes /\ PlacesInv /\ Arrivals /\ Jobs = Clients /\ NoTask \notin Clients
  BY <1>2, <1>4, EchoFacts
<1> QED  BY <1>1, <1>2, <1>3, <1>4, <1>5 DEF NetTypes, PlacesInv, Arrivals


\* A call of serviceIO that changes one connection and one thread: h is what it
\* has in its hands then.
LEMMA OneServed ==
    ASSUME ServeInv, prog # "lesson32", ~killed,
           NEW t \in Threads, t \in Callers => t = Main,
           NEW c \in Clients, task[t] = c, NEW k \in Conns(Nat),
           prog' = prog, UNCHANGED <<backlog, sent, got, task_queue, killed>>,
           sock' = [sock EXCEPT ![c] = k], k.peer = sock[c].peer,
           \A u \in Threads \ {t} : /\ at'[u] = at[u] /\ task'[u] = task[u]
                                    /\ chunk'[u] = chunk[u],
           chunk' \in [Threads -> Nat], task'[t] \in {c, NoTask},
           IF task'[t] = c THEN k.srv = "open" ELSE k.srv = "closed",
           Flow(k, got[c], sent[c],
                IF at'[t] = "write" /\ task'[t] = c THEN <<chunk'[t]>> ELSE <<>>)
    PROVE  EchoInv' /\ ServedStreams'
<1>1. /\ NetTypes /\ PlacesInv /\ Arrivals /\ chunk \in [Threads -> Nat]
      /\ at \in [Threads -> Labels] /\ task \in [Threads -> Clients \cup {NoTask}]
      /\ task_queue \in Seq(Clients) /\ NoTask \notin Clients
      /\ Main \in Threads /\ \A d \in Callers \ {Main} : at[d] = "idle"
  BY EchoFacts
<1>2. sock' \in [Clients -> Conns(Nat)] /\ sock'[c] = k /\ \A d \in Clients \ {c} : sock'[d] = sock[d]
  BY <1>1 DEF NetTypes
<1>3. /\ sock[c].srv = "open" /\ \A u \in Threads \ {t} : task[u] # c
      /\ \A i \in DOMAIN task_queue : task_queue[i] \in Clients \ {c}
  BY <1>1 DEF PlacesInv
<1>4. ServedStreams'
  <2>1. ASSUME NEW d \in Clients \ {c}
        PROVE  /\ \A h : Stream(d, h) => Stream(d, h)'
               /\ \A u \in Threads : Writes(u, d)' <=> Writes(u, d)
    <3>1. \A h : Stream(d, h) => Stream(d, h)'
      BY <1>2, <2>1 DEF Stream
    <3>2. ~Writes(t, d) /\ ~Writes(t, d)'
      BY <1>1, <2>1 DEF Writes
    <3>3. \A u \in Threads \ {t} : Writes(u, d)' <=> Writes(u, d)
      BY DEF Writes
    <3> QED  BY <3>1, <3>2, <3>3
  <2>2. ASSUME NEW d \in Clients \ {c}
        PROVE  /\ \A u \in Threads : Writes(u, d)' => Stream(d, <<chunk[u]>>)'
               /\ (\A u \in Threads : ~Writes(u, d)') => Stream(d, <<>>)'
    <3>1. \A u \in Threads : Writes(u, d) => u # t /\ Stream(d, <<chunk[u]>>)
      BY <1>1, <2>2 DEF Writes, ServeInv, ServedStreams
    <3>2. \A u \in Threads \ {t} : Stream(d, <<chunk[u]>>) => Stream(d, <<chunk[u]>>)'
      BY <2>1, <2>2 DEF Stream
    <3>3. (\A u \in Threads : ~Writes(u, d)) => Stream(d, <<>>)
      BY <2>2 DEF ServeInv, ServedStreams
    <3> QED  BY <2>1, <2>2, <3>1, <3>2, <3>3
  <2>3. /\ \A u \in Threads \ {t} : ~Writes(u, c)'
        /\ Writes(t, c)' <=> at'[t] = "write" /\ task'[t] = c
    BY <1>3 DEF Writes
  <2>4. /\ Writes(t, c)' => Stream(c, <<chunk[t]>>)'
        /\ ~Writes(t, c)' => Stream(c, <<>>)'
    BY <1>2, <2>3 DEF Stream
  <2> QED  BY <2>2, <2>3, <2>4 DEF ServedStreams
<1>5. PlacesInv'
  <2>1. \A u, v \in Threads : task'[u] = task'[v] /\ task'[u] # NoTask => u = v
    BY <1>1, <1>3 DEF PlacesInv
  <2>2. \A i \in DOMAIN task_queue : \A u \in Threads : task_queue[i] # task'[u]
    BY <1>1, <1>3 DEF PlacesInv
  <2>3. \A u \in Threads : task'[u] # NoTask => sock'[task'[u]].srv = "open"
    <3>1. task'[t] # NoTask => sock'[task'[t]].srv = "open"
      BY <1>2
    <3>2. ASSUME NEW u \in Threads \ {t}, task[u] # NoTask
          PROVE  sock'[task[u]].srv = "open"
      <4>1. task[u] \in Clients \ {c}
        BY <1>1, <1>3, <3>2
      <4> QED  BY <1>1, <1>2, <3>2, <4>1 DEF PlacesInv
    <3> QED  BY <3>1, <3>2
  <2>4. \A i \in DOMAIN task_queue : sock'[task_queue[i]].srv = "open"
    BY <1>1, <1>2, <1>3 DEF PlacesInv
  <2>5. Arrivals'
    <3>1. \A d \in Clients : /\ sock'[d].peer = sock[d].peer
                             /\ sock'[d].srv # sock[d].srv => sock[d].srv # "none"
      BY <1>2, <1>3
    <3> QED  BY <1>1, <3>1, ArrivalsStay
  <2> QED  BY <1>1, <2>1, <2>2, <2>3, <2>4, <2>5 DEF PlacesInv
<1>6. \A d \in Callers \ {Main} : at'[d] = "idle"
  BY <1>1 DEF Threads
<1> QED  BY <1>1, <1>2, <1>4, <1>5, <1>6 DEF EchoInv, NetTypes

\* serviceIO reads, writes, or closes what its thread serves.
LEMMA ServiceEcho ==
    ASSUME ServeInv, NEW t \in Threads, serviceIO(t)
    PROVE  EchoInv' /\ ServedStreams'
<1> DEFINE c == task[t]
<1>1. /\ prog # "lesson32" /\ ~killed /\ at[t] \in {"call", "write"}
      /\ c \in Clients /\ sock[c] \in Conns(Nat)
      /\ sock[c].srv = "open" /\ sock[c].peer # "none"
      /\ t \in Callers => t = Main
      /\ prog = "lesson35" => t = Main
  BY Served
<1>2. /\ NetTypes /\ PlacesInv /\ Arrivals /\ chunk \in [Threads -> Nat]
      /\ at \in [Threads -> Labels] /\ task \in [Threads -> Clients \cup {NoTask}]
      /\ task_queue \in Seq(Clients) /\ NoTask \notin Clients
      /\ Main \in Threads /\ \A d \in Callers \ {Main} : at[d] = "idle"
  BY <1>1, EchoFacts
<1>3. got[c] \in Seq(Nat) /\ sent[c] \in Nat /\ <<>> \in Seq(Nat) /\ chunk[t] \in Nat
  BY <1>1, <1>2 DEF NetTypes
<1>4. \A u \in Threads \ {t} : ~Writes(u, c)
  BY <1>1, <1>2 DEF Writes, PlacesInv
<1>5. /\ at[t] = "call" => Flow(sock[c], got[c], sent[c], <<>>)
      /\ at[t] = "write" => Flow(sock[c], got[c], sent[c], <<chunk[t]>>)
  BY <1>1, <1>4 DEF ServeInv, ServedStreams, Writes, Stream
<1> DEFINE Rest == \A u \in Threads \ {t} : /\ at'[u] = at[u] /\ task'[u] = task[u]
                                            /\ chunk'[u] = chunk[u]
<1>6. CASE ReadMessage(t)
  <2>1. /\ UNCHANGED <<prog, backlog, sent, got, task_queue, killed, task>>
        /\ sock' = [sock EXCEPT ![c] = AfterRecv(@)] /\ at[t] = "call"
        /\ at' = [at EXCEPT ![t] = "write"] /\ RecvResult(sock[c]) = "data"
        /\ chunk' = [chunk EXCEPT ![t] = Head(sock[c].in)]
    BY <1>6 DEF ReadMessage, InService, Goto
  <2>2. sock[c].in # <<>> /\ sock[c].in \in Seq(Nat)
    BY <1>1, <2>1 DEF RecvResult, Conns
  <2>3. Head(sock[c].in) \in Nat
    BY <2>2
  <2>4. Rest /\ at'[t] = "write" /\ chunk' \in [Threads -> Nat] /\ chunk'[t] = Head(sock[c].in)
    BY <1>2, <2>1, <2>3
  <2>5. Flow(AfterRecv(sock[c]), got[c], sent[c], <<Head(sock[c].in)>>)
    BY <1>1, <1>3, <1>5, <2>1, <2>2, FlowKept
  <2>6. AfterRecv(sock[c]) \in Conns(Nat)
    BY <1>1, <1>3, ConnTypes
  <2>7. AfterRecv(sock[c]).peer = sock[c].peer /\ AfterRecv(sock[c]).srv = "open"
    BY <1>1, <1>3, ConnFields
  <2> QED  BY <1>1, <2>1, <2>4, <2>5, <2>6, <2>7, OneServed
<1>7. CASE ReadFails(t)
  <2>1. /\ UNCHANGED <<prog, backlog, sent, got, task_queue, killed, task, at, chunk>>
        /\ sock' = [sock EXCEPT ![c] = AfterRecv(@)] /\ at[t] = "call"
        /\ RecvResult(sock[c]) # "data"
    BY <1>7 DEF ReadFails, InService, mine, pool
  <2>2. sock[c].in = <<>>
    BY <2>1 DEF RecvResult
  <2>3. Flow(AfterRecv(sock[c]), got[c], sent[c], <<>>)
    BY <1>1, <1>3, <1>5, <2>1, <2>2, FlowKept
  <2>4. AfterRecv(sock[c]) \in Conns(Nat)
    BY <1>1, <1>3, ConnTypes
  <2>5. AfterRecv(sock[c]).peer = sock[c].peer /\ AfterRecv(sock[c]).srv = "open"
    BY <1>1, <1>3, ConnFields
  <2> QED  BY <1>1, <1>2, <2>1, <2>3, <2>4, <2>5, OneServed
<1>8. CASE ClientQuit(t)
  <2>1. /\ UNCHANGED <<prog, backlog, sent, got, task_queue, killed, chunk>>
        /\ sock' = [sock EXCEPT ![c] = AfterClose(@)] /\ at[t] = "call"
        /\ task' = [task EXCEPT ![t] = NoTask]
        /\ \E to \in {"idle", "lock"} : at' = [at EXCEPT ![t] = to]
    BY <1>8 DEF ClientQuit, InService, Goto
  <2>2. Rest /\ task'[t] = NoTask
    BY <1>2, <2>1
  <2>3. Flow(AfterClose(sock[c]), got[c], sent[c], <<>>)
    BY <1>1, <1>3, <1>5, <2>1, FlowKept
  <2>4. AfterClose(sock[c]) \in Conns(Nat)
    BY <1>1, <1>3, ConnTypes
  <2>5. AfterClose(sock[c]).peer = sock[c].peer /\ AfterClose(sock[c]).srv = "closed"
    BY <1>1, <1>3, ConnFields
  <2> QED  BY <1>1, <1>2, <2>1, <2>2, <2>3, <2>4, <2>5, OneServed
<1>9. CASE Echo(t) /\ killed' = killed
  <2>1. /\ UNCHANGED <<prog, backlog, sent, got, task_queue, killed, task>>
        /\ sock' = [sock EXCEPT ![c] = AfterWrite(@, chunk[t])] /\ at[t] = "write"
        /\ at' = [at EXCEPT ![t] = "call"] /\ chunk' = [chunk EXCEPT ![t] = 0]
    BY <1>1, <1>9 DEF Echo, Goto
  <2>2. Rest /\ at'[t] = "call" /\ chunk' \in [Threads -> Nat]
    BY <1>2, <2>1
  <2>3. Flow(AfterWrite(sock[c], chunk[t]), got[c], sent[c], <<>>)
    <3>1. <<chunk[t]>> \in Seq(Nat) /\ Flow(sock[c], got[c], sent[c], <<chunk[t]>>)
      BY <1>3, <1>5, <2>1
    <3>2. \A m \in Nat : <<chunk[t]>> = <<m>> /\ sock[c].srv = "open"
                          => Flow(AfterWrite(sock[c], m), got[c], sent[c], <<>>)
      BY <1>1, <1>3, <3>1, FlowKept
    <3> QED  BY <1>1, <1>3, <3>2
  <2>4. AfterWrite(sock[c], chunk[t]) \in Conns(Nat)
    BY <1>1, <1>3, ConnTypes
  <2>5. /\ AfterWrite(sock[c], chunk[t]).peer = sock[c].peer
        /\ AfterWrite(sock[c], chunk[t]).srv = "open"
    BY <1>1, <1>3, ConnFields
  <2> QED  BY <1>1, <2>1, <2>2, <2>3, <2>4, <2>5, OneServed
<1>10. CASE Echo(t) /\ killed' # killed
  <2>1. /\ UNCHANGED <<prog, backlog, sent, got, task_queue, task>>
        /\ prog # "lesson36" /\ killed' = TRUE /\ sock' = AfterKill(sock) /\ at[t] = "write"
        /\ at' = [at EXCEPT ![t] = "dead"] /\ chunk' = [chunk EXCEPT ![t] = 0]
    BY <1>10 DEF Echo, Goto, IgnoresSigpipe
  <2>2. prog = "lesson35" /\ t = Main
    BY <1>1, <2>1 DEF ServeInv, CtrlInv, TypeInv, Programs
  <2>3. /\ chunk' \in [Threads -> Nat] /\ at'[Main] = "dead"
        /\ \A u \in Threads \ {t} : at'[u] = at[u]
    BY <1>2, <2>1, <2>2
  <2>4. \A d \in Clients : sock'[d] = IF sock[d].peer = "none" THEN sock[d]
                                      ELSE AfterClose(sock[d])
    BY <2>1 DEF AfterKill
  <2>5. sock' \in [Clients -> Conns(Nat)]
    <3>1. \A d \in Clients : AfterClose(sock[d]) \in Conns(Nat)
      <4> TAKE d \in Clients
      <4>1. sock[d] \in Conns(Nat) /\ 0 \in Nat
        BY <1>2 DEF NetTypes
      <4> QED  BY <4>1, ConnTypes
    <3> QED  BY <1>2, <2>1, <3>1 DEF AfterKill, NetTypes
  <2>6. \A u \in Threads \ {t} : at[u] # "write"
    BY <1>2, <2>2 DEF ServeInv, CtrlInv, RoleInv, Threads
  <2>7. ASSUME NEW d \in Clients
        PROVE  Stream(d, <<>>)' /\ \A u \in Threads : ~Writes(u, d)'
    <3>1. \A u \in Threads : ~Writes(u, d)'
      BY <2>2, <2>3, <2>6 DEF Writes
    <3>2. Flow(sock'[d], got[d], sent[d], <<>>)
      <4>1. CASE sock[d].peer = "none"
        <5>1. \A u \in Threads : ~Writes(u, d)
          BY <1>1, <2>6, <4>1 DEF Writes
        <5> QED  BY <1>1, <2>4, <4>1, <5>1 DEF ServeInv, ServedStreams, Stream
      <4>2. CASE sock[d].peer # "none"
        <5>1. \E h \in Seq(Nat) : Flow(sock[d], got[d], sent[d], h)
          <6>1. CASE d = c
            <7>1. <<chunk[t]>> \in Seq(Nat) /\ Flow(sock[d], got[d], sent[d], <<chunk[t]>>)
              BY <1>3, <1>5, <2>1, <6>1
            <7>2. \A h \in Seq(Nat) : Flow(sock[d], got[d], sent[d], h)
                  => \E x \in Seq(Nat) : Flow(sock[d], got[d], sent[d], x)
              OBVIOUS
            <7> QED  BY <7>1, <7>2
          <6>2. CASE d # c
            <7>1. \A u \in Threads : ~Writes(u, d)
              BY <2>6, <6>2 DEF Writes
            <7> QED  BY <1>1, <1>3, <7>1 DEF ServeInv, ServedStreams, Stream
          <6> QED  BY <6>1, <6>2
        <5>2. sock[d] \in Conns(Nat) /\ got[d] \in Seq(Nat) /\ sent[d] \in Nat
          BY <1>2 DEF NetTypes
        <5>3. Flow(AfterClose(sock[d]), got[d], sent[d], <<>>)
          BY <1>3, <5>1, <5>2, FlowKept
        <5> QED  BY <2>4, <4>2, <5>3
      <4> QED  BY <4>1, <4>2
    <3> QED  BY <2>1, <3>1, <3>2 DEF Stream
  <2>8. \A d \in Callers \ {Main} : at'[d] = "idle"
    BY <1>2, <2>2, <2>3 DEF Threads
  <2>9. ServedStreams'
    BY <2>7 DEF ServedStreams
  <2> QED  BY <1>2, <2>1, <2>2, <2>3, <2>5, <2>8, <2>9 DEF EchoInv, NetTypes
<1> QED  BY <1>6, <1>7, <1>8, <1>9, <1>10 DEF serviceIO

\* A client.
LEMMA ClientEcho ==
    ASSUME ServeInv, NEW c \in Clients, tcpclient(c)
    PROVE  EchoInv' /\ ServedStreams'
<1>1. /\ UNCHANGED <<prog, at, task, task_queue, chunk, killed>>
      /\ Client(c) \/ UNCHANGED net
  BY DEF tcpclient, Come, Enter, EnterMore, ReadReply, Leave, mine, pool, Client
<1>2. CASE UNCHANGED net
  BY <1>1, <1>2, EchoRest
<1>3. CASE Client(c)
  <2> SUFFICES ASSUME prog # "lesson32"  PROVE EchoInv' /\ ServedStreams'
    BY <1>1 DEF EchoInv, ServedStreams
  <2>1. NetTypes /\ chunk \in [Threads -> Nat]
    BY DEF ServeInv, EchoInv
  <2>2. /\ backlog' \in Seq(Clients) /\ sock' \in [Clients -> Conns(Nat)]
        /\ sent' \in [Clients -> Nat] /\ got' \in [Clients -> Seq(Nat)]
        /\ \A d \in Clients : sock'[d].srv = sock[d].srv
    BY <1>3, <2>1, ClientKeeps
  <2>3. ~killed => PlacesInv'
    <3> SUFFICES ASSUME ~killed  PROVE PlacesInv'
      OBVIOUS
    <3>1. /\ PlacesInv /\ Arrivals /\ task \in [Threads -> Clients \cup {NoTask}]
          /\ task_queue \in Seq(Clients)
      BY EchoFacts
    <3>2. Arrivals'
      BY <1>3, <2>1, <3>1, ClientArrives
    <3>3. \A i \in DOMAIN task_queue : task_queue[i] \in Clients
      BY <3>1
    <3> QED  BY <1>1, <2>2, <3>1, <3>2, <3>3 DEF PlacesInv
  <2>4. EchoInv'
    BY <1>1, <2>1, <2>2, <2>3 DEF ServeInv, EchoInv, NetTypes
  <2>5. ASSUME NEW d \in Clients, NEW h \in Seq(Nat), Stream(d, h)  PROVE Stream(d, h)'
    BY <1>3, <2>1, <2>5, ClientStream
  <2>6. \A n \in Nat : <<n>> \in Seq(Nat)
    OBVIOUS
  <2>7. \A t \in Threads, d \in Clients : Writes(t, d)' <=> Writes(t, d)
    BY <1>1 DEF Writes
  <2>8. ASSUME NEW d \in Clients, NEW t \in Threads, Writes(t, d)'
        PROVE  Stream(d, <<chunk[t]>>)'
    <3>1. Stream(d, <<chunk[t]>>) /\ <<chunk[t]>> \in Seq(Nat)
      BY <2>1, <2>6, <2>7, <2>8 DEF ServeInv, ServedStreams
    <3>2. \A h : h = <<chunk[t]>> => Stream(d, h)'
      BY <2>5, <3>1
    <3> QED  BY <1>1, <3>2 DEF Stream
  <2>9. ASSUME NEW d \in Clients, \A t \in Threads : ~Writes(t, d)'
        PROVE  Stream(d, <<>>)'
    <3>1. Stream(d, <<>>) /\ <<>> \in Seq(Nat)
      BY <2>7, <2>9 DEF ServeInv, ServedStreams
    <3> QED  BY <2>5, <3>1
  <2> QED  BY <2>4, <2>8, <2>9 DEF ServedStreams
<1> QED  BY <1>1, <1>2, <1>3

\* The invariant of the echo servers is kept by every step.
LEMMA ServeStep ==
    ASSUME ServeInv, [Next]_vars
    PROVE  ServeInv'
<1>1. CtrlInv' /\ CtrlInv
  BY CtrlStep DEF ServeInv
<1>2. Main \in Threads /\ Main \notin Workers /\ Workers \subseteq Threads /\ Callers \subseteq Threads
  BY PoolAssumption DEF Threads
<1>3. ASSUME NEW c \in Callers, CallerStep(c), prog # "lesson32"  PROVE EchoInv' /\ ServedStreams'
  <2>1. CASE Push(c)
    BY <1>3, <2>1, PushEcho DEF CallerStep
  <2>2. CASE ~Push(c)
    <3>1. /\ prog' = prog /\ ~killed /\ UNCHANGED <<net, chunk, killed, task, task_queue>>
          /\ c = Main
      BY <1>3, <2>2 DEF CallerStep, InPool, Still, TestInstance, LockSingle, Create,
                        UnlockSingle, StartWorker, ServeInv, EchoInv
    <3>2. /\ \A t \in Threads : at'[t] = "write" <=> at[t] = "write"
          /\ \A d \in Callers \ {Main} : at'[d] = at[d]
      <4>1. at \in [Threads -> Labels] /\ c \in Threads /\ Main \notin Workers
        BY <1>1, <1>2 DEF CtrlInv, TypeInv
      <4>2. CASE StartWorker(c)
        BY <1>2, <3>1, <4>1, <4>2, PoolAssumption DEF StartWorker
      <4>3. CASE ~StartWorker(c)
        BY <1>2, <1>3, <2>2, <3>1, <4>1, <4>3
           DEF CallerStep, TestInstance, LockSingle, Create, UnlockSingle, Returned, Goto
      <4> QED  BY <4>2, <4>3
    <3> QED  BY <3>1, <3>2, EchoRest
  <2> QED  BY <2>1, <2>2
<1>4. ASSUME NEW t \in Threads, LockStep(t), prog # "lesson32"  PROVE EchoInv' /\ ServedStreams'
  <2>1. /\ prog' = prog /\ ~killed /\ UNCHANGED <<net, chunk, killed, task, task_queue>>
        /\ at[t] \in {"lock", "woken"}
        /\ \E to \in {"test", "push"} : at' = [at EXCEPT ![t] = to]
    BY <1>4 DEF LockStep, InPool, Still, Lock, Goto, ServeInv, EchoInv
  <2>2. /\ \A u \in Threads : at'[u] = "write" <=> at[u] = "write"
        /\ t \in Callers => t = Main
    BY <1>1, <1>4, <2>1 DEF CtrlInv, TypeInv, ServeInv, EchoInv
  <2>3. \A d \in Callers \ {Main} : at'[d] = at[d]
    BY <1>1, <1>2, <2>1, <2>2 DEF CtrlInv, TypeInv
  <2> QED  BY <2>1, <2>2, <2>3, EchoRest
<1>5. ASSUME NEW w \in Workers, WorkerStep(w), prog # "lesson32"  PROVE EchoInv' /\ ServedStreams'
  <2>1. CASE Pop(w)
    BY <1>5, <2>1, PopEcho DEF WorkerStep
  <2>2. CASE ~Pop(w)
    <3>1. /\ prog' = prog /\ ~killed /\ UNCHANGED <<net, chunk, killed, task, task_queue>>
          /\ at[w] \in {"test", "wait"}
          /\ \E to \in {"wait", "woken"} : at' = [at EXCEPT ![w] = to]
      BY <1>5, <2>2 DEF WorkerStep, InPool, Still, Wait, SpuriousWakeup, Goto, ServeInv, EchoInv
    <3>2. /\ \A u \in Threads : at'[u] = "write" <=> at[u] = "write"
          /\ \A d \in Callers \ {Main} : at'[d] = at[d]
      BY <1>1, <1>2, <3>1, PoolAssumption DEF CtrlInv, TypeInv
    <3> QED  BY <3>1, <3>2, EchoRest
  <2> QED  BY <2>1, <2>2
<1>6. ASSUME ProgramStep, prog # "lesson32"  PROVE EchoInv' /\ ServedStreams'
  <2>1. CASE StartPool
    <3>1. /\ prog' = prog /\ ~killed /\ UNCHANGED <<net, chunk, killed, task, task_queue>>
          /\ at[Main] = "idle" /\ at' = [at EXCEPT ![Main] = "GetInstance"]
      BY <1>6, <2>1 DEF StartPool, Goto, ServeInv, EchoInv
    <3>2. /\ \A u \in Threads : at'[u] = "write" <=> at[u] = "write"
          /\ \A d \in Callers \ {Main} : at'[d] = at[d]
      BY <1>1, <1>2, <3>1 DEF CtrlInv, TypeInv
    <3> QED  BY <3>1, <3>2, EchoRest
  <2>2. CASE UNCHANGED vars
    BY <2>2, EchoRest DEF vars, mine, pool
  <2>3. CASE Accept \/ (\E t \in Threads : serviceIO(t)) \/ \E k \in Clients : tcpclient(k)
    BY <2>3, AcceptEcho, ServiceEcho, ClientEcho
  <2>4. (\A w \in Workers : ~Calculate(w)) /\ \A c \in Callers : ~Submit(c)
    BY <1>6 DEF Calculate, Submit
  <2> QED  BY <1>6, <2>1, <2>2, <2>3, <2>4 DEF ProgramStep
<1>7. CASE prog # "lesson32"
  BY <1>1, <1>3, <1>4, <1>5, <1>6, <1>7, Steps DEF ServeInv
<1>8. CASE prog = "lesson32"
  <2>1. prog' = prog
    <3>1. CASE (\E c \in Callers : CallerStep(c)) \/ (\E t \in Threads : LockStep(t))
               \/ \E w \in Workers : WorkerStep(w)
      BY <3>1 DEF CallerStep, LockStep, WorkerStep, InPool, Still
    <3>2. CASE ProgramStep
      BY <3>2 DEF ProgramStep, Calculate, Submit, StartPool, Accept, serviceIO, ReadMessage,
                  ReadFails, ClientQuit, Echo, tcpclient, Come, Enter, EnterMore, ReadReply,
                  Leave, vars
    <3> QED  BY <3>1, <3>2, Steps
  <2> QED  BY <1>1, <1>8, <2>1 DEF ServeInv, EchoInv, ServedStreams
<1> QED  BY <1>7, <1>8

\* What a client of tcpserver sends comes back in order and once, as far as it
\* comes back, for any number of clients and workers and whatever becomes of the
\* connections, or of the server by SIGPIPE (serviceIO).
THEOREM PoolEchoes == Spec => []EchoesInOrder
<1>1. ServeInv => EchoesInOrder
  <2> SUFFICES ASSUME ServeInv, prog # "lesson32", NEW c \in Clients
               PROVE  LET all == got[c] \o sock[c].out
                      IN  all = [k \in 1 .. Len(all) |-> k]
    BY DEF EchoesInOrder, EchoPrograms
  <2>1. \E h : Stream(c, h)
    BY DEF ServeInv, ServedStreams
  <2>2. Counted(got[c] \o sock[c].out) /\ got[c] \in Seq(Nat) /\ sock[c].out \in Seq(Nat)
    BY <2>1 DEF Stream, Flow, ServeInv, EchoInv, NetTypes, Conns
  <2>3. \A s \in Seq(Nat) : Counted(s) => s = [k \in 1 .. Len(s) |-> k]
    BY DEF Counted
  <2>4. got[c] \o sock[c].out \in Seq(Nat)
    BY <2>2
  <2> QED  BY <2>2, <2>3, <2>4
<1>2. Spec => []ServeInv
  BY InitServe, ServeStep, PTL DEF Spec
<1> QED  BY <1>1, <1>2, PTL

-----------------------------------------------------------------------------
(* The servers that fork twice: who holds a connection.                    *)

\* Until they close it, the father has the connection it is busy with, the child and
\* the grandchild have theirs.
Holds(p, c) ==
    \/ p = Father /\ father.conn = c /\ father.call \in {"fork", "close"}
    \/ p = Proc("child", c) /\ child[c] \in {"close", "exit", "handler"}
    \/ p = Proc("grand", c) /\ grand[c] \in {"recv", "send", "close"}

ForkTypes ==
    /\ NetTypes
    /\ father.call \in {"accept", "fork", "close", "waitpid"}
    /\ father.call # "accept" => father.conn \in Clients
    /\ child \in [Clients -> {"none", "close", "exit", "handler", "zombie", "reaped"}]
    /\ grand \in [Clients -> {"none", "recv", "send", "close", "gone"}]
    /\ DOMAIN holders = Clients

\* A connection is open as long as somebody holds it; what the father has not
\* accepted has no process, and only the connection it is busy with has a child.
HoldersInv ==
    \A c \in Clients :
        /\ \A p : p \in holders[c] <=> Holds(p, c)
        /\ sock[c].srv = "open" <=> holders[c] # {}
        /\ sock[c].srv = "none" => child[c] = "none" /\ grand[c] = "none"
        /\ child[c] \notin {"none", "reaped"}
           => father.conn = c /\ father.call \in {"close", "waitpid"}

ForkInv == ForkTypes /\ Arrivals /\ HoldersInv

\* The processes differ.
LEMMA ProcsDiffer ==
    \A c, d : /\ Proc("child", c) # Proc("grand", d) /\ Proc("child", c) # Father
              /\ Proc("grand", c) # Father
              /\ Proc("child", c) = Proc("child", d) => c = d
              /\ Proc("grand", c) = Proc("grand", d) => c = d
BY DEF Proc, Father

\* Nobody has connected at first.
LEMMA InitFork == ASSUME ForkInit  PROVE ForkInv
<1> USE DEF ForkInit, InitProcs, InitNet
<1>1. ForkTypes /\ Arrivals
  <2>1. sock \in [Clients -> Conns(Nat)]
    BY DEF Conns
  <2> QED  BY <2>1 DEF ForkTypes, NetTypes, Arrivals
<1>2. HoldersInv
  BY DEF HoldersInv, Holds
<1> QED  BY <1>1, <1>2 DEF ForkInv

\* A connection ends when its last holder drops it.
LEMMA ConnectionsEnd ==
    ASSUME ForkInv, NEW h, \A d \in Clients : h[d] \subseteq holders[d],
           Drop(h), UNCHANGED <<backlog, sent, got>>
    PROVE  /\ NetTypes' /\ Arrivals' /\ holders' = h
           /\ \A d \in Clients : /\ sock'[d].srv = "open" <=> h[d] # {}
                                 /\ sock'[d].srv = "none" => sock[d].srv = "none"
<1>1. ASSUME NEW d \in Clients
      PROVE  /\ sock'[d] \in Conns(Nat) /\ sock'[d].peer = sock[d].peer
             /\ sock'[d].srv = "open" <=> h[d] # {}
             /\ sock'[d].srv # sock[d].srv => sock[d].srv # "none"
             /\ sock'[d].srv = "none" => sock[d].srv = "none"
  <2>1. sock[d] \in Conns(Nat) /\ 0 \in Nat /\ (sock[d].srv = "open" <=> holders[d] # {})
    BY DEF ForkInv, ForkTypes, NetTypes, HoldersInv
  <2>2. AfterClose(sock[d]) \in Conns(Nat)
    BY <2>1, ConnTypes
  <2>3. AfterClose(sock[d]).srv = "closed" /\ AfterClose(sock[d]).peer = sock[d].peer
    BY <2>1, ConnFields
  <2>4. sock'[d] = IF holders[d] # {} /\ h[d] = {} THEN AfterClose(sock[d]) ELSE sock[d]
    BY DEF Drop, Released
  <2> QED  BY <2>1, <2>2, <2>3, <2>4
<1>2. sock' \in [Clients -> Conns(Nat)]
  BY <1>1 DEF Drop, Released
<1> QED  BY <1>1, <1>2, ArrivalsStay DEF ForkInv, ForkTypes, NetTypes, Drop

\* A handler changes its connection and what it does next.
LEMMA HandlerKeeps ==
    ASSUME ForkInv, NEW c \in Clients, grand[c] \in {"recv", "send"},
           NEW k \in Conns(Nat), sock' = [sock EXCEPT ![c] = k],
           k.srv = sock[c].srv, k.peer = sock[c].peer,
           NEW p \in {"recv", "send", "close"}, grand' = [grand EXCEPT ![c] = p],
           UNCHANGED <<backlog, sent, got, father, child, holders>>
    PROVE  ForkInv'
<1>1. /\ sock' \in [Clients -> Conns(Nat)]
      /\ \A d \in Clients : sock'[d].srv = sock[d].srv /\ sock'[d].peer = sock[d].peer
  BY DEF ForkInv, ForkTypes, NetTypes
<1>2. Arrivals'
  BY <1>1, ArrivalsStay DEF ForkInv, ForkTypes
<1>3. ForkTypes'
  BY <1>1 DEF ForkInv, ForkTypes, NetTypes
<1>4. ASSUME NEW d \in Clients  PROVE \A x : Holds(x, d)' <=> Holds(x, d)
  BY DEF Holds, ForkInv, ForkTypes
<1>5. ASSUME NEW d \in Clients, sock'[d].srv = "none"
      PROVE  child'[d] = "none" /\ grand'[d] = "none"
  BY <1>1, <1>5 DEF ForkInv, ForkTypes, HoldersInv
<1>6. HoldersInv'
  BY <1>1, <1>4, <1>5 DEF ForkInv, HoldersInv
<1> QED  BY <1>2, <1>3, <1>6 DEF ForkInv

\* recv and send.
LEMMA HandlerFork ==
    ASSUME ForkInv, NEW c \in Clients, Recv(c) \/ RecvFails(c) \/ Send(c)
    PROVE  ForkInv'
<1>1. sock[c] \in Conns(Nat) /\ 1 \in Nat
  BY DEF ForkInv, ForkTypes, NetTypes
<1>2. CASE Recv(c) \/ RecvFails(c)
  <2>1. AfterRecv(sock[c]) \in Conns(Nat)
    BY <1>1, ConnTypes
  <2>2. AfterRecv(sock[c]).srv = sock[c].srv /\ AfterRecv(sock[c]).peer = sock[c].peer
    BY <1>1, ConnFields
  <2>3. /\ grand[c] = "recv" /\ sock' = [sock EXCEPT ![c] = AfterRecv(sock[c])]
        /\ UNCHANGED <<backlog, sent, got, father, child, holders>>
        /\ \E p \in {"recv", "send", "close"} : grand' = [grand EXCEPT ![c] = p]
    BY <1>2 DEF Recv, RecvFails, Handles
  <2> QED  BY <2>1, <2>2, <2>3, HandlerKeeps
<1>3. CASE Send(c)
  <2>1. AfterWrite(sock[c], 1) \in Conns(Nat)
    BY <1>1, ConnTypes
  <2>2. AfterWrite(sock[c], 1).srv = sock[c].srv /\ AfterWrite(sock[c], 1).peer = sock[c].peer
    BY <1>1, ConnFields
  <2>3. /\ grand[c] = "send" /\ sock' = [sock EXCEPT ![c] = AfterWrite(sock[c], 1)]
        /\ UNCHANGED <<backlog, sent, got, father, child, holders>>
        /\ \E p \in {"recv", "send", "close"} : grand' = [grand EXCEPT ![c] = p]
    BY <1>3 DEF Send
  <2> QED  BY <2>1, <2>2, <2>3, HandlerKeeps
<1> QED  BY <1>2, <1>3

\* The father.
LEMMA FatherFork == ASSUME ForkInv, start  PROVE ForkInv'
<1> USE DEF ForkInv
<1>1. CASE AcceptConn
  <2>0. PICK c : c = Head(backlog)
    OBVIOUS
  <2> DEFINE k == AfterAccept(sock[c])
  <2>1. /\ father.call = "accept" /\ backlog # <<>> /\ backlog' = Tail(backlog)
        /\ father' = [call |-> "fork", conn |-> c] /\ sock' = [sock EXCEPT ![c] = k]
        /\ holders' = [holders EXCEPT ![c] = {Father}] /\ UNCHANGED <<sent, got, child, grand>>
    BY <1>1, <2>0 DEF AcceptConn
  <2>2. c \in Clients /\ sock[c] \in Conns(Nat) /\ sock[c].srv = "none"
    BY <2>0, <2>1, FirstArrival DEF ForkTypes
  <2>3. k \in Conns(Nat) /\ k.srv = "open" /\ k.peer = sock[c].peer
    <3>1. 0 \in Nat
      OBVIOUS
    <3> QED  BY <2>2, <3>1, ConnTypes, ConnFields
  <2> HIDE DEF k
  <2>4. /\ Arrivals' /\ backlog' \in Seq(Clients) /\ sock' \in [Clients -> Conns(Nat)]
        /\ sock'[c] = k /\ \A d \in Clients \ {c} : sock'[d] = sock[d]
    BY <2>0, <2>1, <2>3, ArrivalAccepted DEF ForkTypes
  <2>5. ForkTypes'
    BY <2>1, <2>2, <2>4 DEF ForkTypes, NetTypes
  <2>6. child[c] = "none" /\ grand[c] = "none"
    BY <2>2 DEF HoldersInv
  <2>7. \A p : p \in holders'[c] <=> Holds(p, c)'
    BY <2>1, <2>2, <2>6 DEF Holds, ForkTypes
  <2>8. ASSUME NEW d \in Clients \ {c}
        PROVE  holders'[d] = holders[d] /\ \A p : Holds(p, d)' <=> Holds(p, d)
    BY <2>1, <2>8 DEF Holds, ForkTypes
  <2>9. \A d \in Clients : child[d] \in {"none", "reaped"}
    BY <2>1 DEF HoldersInv
  <2>10. HoldersInv'
    <3>1. /\ sock'[c].srv = "open" /\ holders'[c] # {}
      BY <2>1, <2>2, <2>3, <2>4 DEF ForkTypes
    <3> QED  BY <2>1, <2>4, <2>7, <2>8, <2>9, <3>1 DEF HoldersInv
  <2> QED  BY <2>4, <2>5, <2>10
<1>2. CASE Fork
  <2>0. PICK c : c = father.conn
    OBVIOUS
  <2>1. /\ father.call = "fork" /\ c \in Clients /\ UNCHANGED <<net, grand>>
        /\ child' = [child EXCEPT ![c] = "close"]
        /\ holders' = Copied(holders, Father, Proc("child", c))
        /\ father'.call = "close" /\ father'.conn = c
    BY <1>2, <2>0 DEF Fork, ForkTypes
  <2>2. ForkTypes' /\ Arrivals'
    BY <2>1 DEF ForkTypes, NetTypes, Arrivals, Copied, net
  <2>3. \A d \in Clients : Father \in holders[d] <=> d = c
    <3>1. \A d \in Clients : Father \in holders[d] <=> Holds(Father, d)
      BY DEF HoldersInv
    <3> QED  BY <2>0, <2>1, <3>1, ProcsDiffer DEF Holds
  <2>4. ASSUME NEW d \in Clients
        PROVE  /\ \A p : p \in holders'[d] <=> Holds(p, d)'
               /\ holders'[d] # {} <=> holders[d] # {}
    <3>1. holders'[d] = IF d = c THEN holders[d] \cup {Proc("child", c)} ELSE holders[d]
      BY <2>1, <2>3 DEF Copied
    <3>2. \A p : Holds(p, d)' <=> (Holds(p, d) \/ (d = c /\ p = Proc("child", c)))
      BY <2>0, <2>1 DEF Holds, ForkTypes
    <3> QED  BY <2>3, <3>1, <3>2 DEF HoldersInv
  <2>5. \A d \in Clients \ {c} : child[d] \in {"none", "reaped"} /\ child'[d] = child[d]
    BY <2>0, <2>1 DEF HoldersInv, ForkTypes
  <2>6. sock[c].srv # "none"
    BY <2>1, <2>3 DEF HoldersInv
  <2> QED  BY <2>1, <2>2, <2>4, <2>5, <2>6 DEF HoldersInv, net
<1>3. CASE ForkFails
  <2>1. /\ father.call = "fork" /\ father'.call = "close" /\ father'.conn = father.conn
        /\ UNCHANGED <<net, child, grand, holders>>
    BY <1>3 DEF ForkFails
  <2>2. ForkTypes' /\ Arrivals'
    BY <2>1 DEF ForkTypes, NetTypes, Arrivals, net
  <2>3. \A d \in Clients : \A p : Holds(p, d)' <=> Holds(p, d)
    BY <2>1 DEF Holds
  <2> QED  BY <2>1, <2>2, <2>3 DEF HoldersInv, net
<1>4. CASE FatherClose
  <2>0. PICK c : c = father.conn
    OBVIOUS
  <2> DEFINE h == [holders EXCEPT ![c] = @ \ {Father}]
  <2>1. /\ father.call = "close" /\ c \in Clients /\ UNCHANGED <<backlog, sent, got, child, grand>>
        /\ Drop(h) /\ father'.call = "waitpid" /\ father'.conn = c
    BY <1>4, <2>0 DEF FatherClose, ForkTypes
  <2>2. /\ DOMAIN h = Clients
        /\ \A d \in Clients : h[d] \subseteq holders[d]
        /\ \A d \in Clients : \A p : p \in h[d] <=> p \in holders[d] /\ (d = c => p # Father)
    BY <2>1 DEF ForkTypes
  <2> HIDE DEF h
  <2>3. /\ NetTypes' /\ Arrivals' /\ holders' = h
        /\ \A d \in Clients : /\ sock'[d].srv = "open" <=> h[d] # {}
                              /\ sock'[d].srv = "none" => sock[d].srv = "none"
    BY <2>1, <2>2, ConnectionsEnd
  <2>4. ForkTypes'
    BY <2>1, <2>2, <2>3 DEF ForkTypes
  <2>5. \A d \in Clients : \A p : Holds(p, d)' <=> Holds(p, d) /\ (d = c => p # Father)
    BY <2>0, <2>1, ProcsDiffer DEF Holds
  <2> QED  BY <2>0, <2>1, <2>2, <2>3, <2>4, <2>5 DEF HoldersInv
<1>5. CASE Waitpid
  <2>0. PICK c : c = father.conn
    OBVIOUS
  <2>1. /\ father.call = "waitpid" /\ c \in Clients /\ UNCHANGED <<net, grand, holders>>
        /\ child[c] \in {"none", "zombie"} /\ father'.call = "accept"
        /\ child' = [child EXCEPT ![c] = IF @ = "zombie" THEN "reaped" ELSE @]
    BY <1>5, <2>0 DEF Waitpid, ForkTypes
  <2>2. /\ child'[c] = IF child[c] = "none" THEN "none" ELSE "reaped"
        /\ \A d \in Clients \ {c} : child'[d] = child[d] /\ child[d] \in {"none", "reaped"}
    BY <2>0, <2>1 DEF HoldersInv, ForkTypes
  <2>3. ForkTypes' /\ Arrivals'
    BY <2>1, <2>2 DEF ForkTypes, NetTypes, Arrivals, net
  <2>4. \A d \in Clients : \A p : Holds(p, d)' <=> Holds(p, d)
    BY <2>1, <2>2 DEF Holds
  <2> QED  BY <2>1, <2>2, <2>3, <2>4 DEF HoldersInv, net
<1> QED  BY <1>1, <1>2, <1>3, <1>4, <1>5 DEF start

\* A child or a handler that exits.
LEMMA ExitFork ==
    ASSUME ForkInv, NEW c \in Clients, ChildExits(c) \/ HandlerExits(c)
    PROVE  ForkInv'
<1> USE DEF ForkInv
<1>0. PICK p : p = IF ChildExits(c) THEN Proc("child", c) ELSE Proc("grand", c)
  OBVIOUS
<1> DEFINE h == Dropped(holders, p)
<1>1. /\ UNCHANGED <<backlog, sent, got, father>> /\ Drop(h)
      /\ \/ /\ p = Proc("child", c) /\ child[c] \in {"exit", "handler"}
            /\ child' = [child EXCEPT ![c] = "zombie"] /\ grand' = grand
         \/ /\ p = Proc("grand", c) /\ grand[c] = "close"
            /\ grand' = [grand EXCEPT ![c] = "gone"] /\ child' = child
  BY <1>0 DEF ChildExits, HandlerExits
<1>2. /\ DOMAIN h = Clients
      /\ \A d \in Clients : h[d] \subseteq holders[d]
      /\ \A d \in Clients : \A x : x \in h[d] <=> x \in holders[d] /\ x # p
  BY DEF Dropped
<1> HIDE DEF h
<1>3. /\ NetTypes' /\ Arrivals' /\ holders' = h
      /\ \A d \in Clients : /\ sock'[d].srv = "open" <=> h[d] # {}
                            /\ sock'[d].srv = "none" => sock[d].srv = "none"
  BY <1>1, <1>2, ConnectionsEnd
<1>4. ForkTypes'
  BY <1>1, <1>2, <1>3 DEF ForkTypes
<1>5. \A d \in Clients : \A x : Holds(x, d)' <=> Holds(x, d) /\ x # p
  BY <1>1, ProcsDiffer DEF Holds, ForkTypes
<1>6. \A d \in Clients : /\ child'[d] # child[d] => d = c /\ child'[d] = "zombie"
                         /\ grand'[d] # grand[d] => d = c
  BY <1>1 DEF ForkTypes
<1>7. /\ sock[c].srv # "none"
      /\ child'[c] # child[c] => child[c] \notin {"none", "reaped"}
  BY <1>1 DEF HoldersInv, ForkTypes
<1> QED  BY <1>1, <1>2, <1>3, <1>4, <1>5, <1>6, <1>7 DEF HoldersInv

\* A child that forks, or that cannot.
LEMMA ChildFork ==
    ASSUME ForkInv, NEW c \in Clients, ChildForks(c) \/ ChildForkFails(c)
    PROVE  ForkInv'
<1> USE DEF ForkInv
<1>1. /\ UNCHANGED <<net, father>> /\ child[c] = "close" /\ grand' = [grand EXCEPT ![c] = "recv"]
      /\ \E to \in {"exit", "handler"} : child' = [child EXCEPT ![c] = to]
      /\ holders' = Copied(holders, Proc("child", c), Proc("grand", c))
  BY DEF ChildForks, ChildForkFails
<1>2. ForkTypes' /\ Arrivals'
  BY <1>1 DEF ForkTypes, NetTypes, Arrivals, Copied, net
<1>3. \A d \in Clients : Proc("child", c) \in holders[d] <=> d = c
  <2>1. \A d \in Clients : Proc("child", c) \in holders[d] <=> Holds(Proc("child", c), d)
    BY DEF HoldersInv
  <2> QED  BY <1>1, <2>1, ProcsDiffer DEF Holds
<1>4. ASSUME NEW d \in Clients
      PROVE  /\ \A p : p \in holders'[d] <=> Holds(p, d)'
             /\ holders'[d] # {} <=> holders[d] # {}
  <2>1. holders'[d] = IF d = c THEN holders[d] \cup {Proc("grand", c)} ELSE holders[d]
    BY <1>1, <1>3 DEF Copied
  <2>2. \A p : Holds(p, d)' <=> (Holds(p, d) \/ (d = c /\ p = Proc("grand", c)))
    BY <1>1 DEF Holds, ForkTypes
  <2> QED  BY <1>3, <2>1, <2>2 DEF HoldersInv
<1>5. /\ sock[c].srv # "none" /\ child'[c] \in {"exit", "handler"}
      /\ \A d \in Clients \ {c} : child'[d] = child[d] /\ grand'[d] = grand[d]
  BY <1>1 DEF HoldersInv, ForkTypes
<1> QED  BY <1>1, <1>2, <1>4, <1>5 DEF HoldersInv, net

\* The invariant is kept by every step.
LEMMA ForkStep == ASSUME ForkInv, [ForkNext]_forkVars  PROVE ForkInv'
<1>1. ASSUME NEW c \in Clients, Client(c), UNCHANGED procs  PROVE ForkInv'
  <2>1. /\ NetTypes' /\ Arrivals' /\ \A d \in Clients : sock'[d].srv = sock[d].srv
    BY <1>1, ClientKeeps, ClientArrives DEF ForkInv, ForkTypes, NetTypes
  <2>2. \A d \in Clients : \A p : Holds(p, d)' <=> Holds(p, d)
    BY <1>1 DEF Holds, procs
  <2> QED  BY <1>1, <2>1, <2>2 DEF ForkInv, ForkTypes, HoldersInv, procs
<1>2. CASE UNCHANGED forkVars
  BY <1>2 DEF forkVars, procs, net, ForkInv, ForkTypes, NetTypes, Arrivals, HoldersInv, Holds
<1> QED  BY <1>1, <1>2, FatherFork, HandlerFork, ExitFork, ChildFork
         DEF ForkNext, Child, Handler

\* When the father is back in accept it has no zombie, and each connection is held
\* by the process that handles it and by nobody else, whichever fork fails and
\* whoever exits first (start): the client sees the end when the handler closes.
THEOREM HandlerHoldsAlone == ForkSpec => []OneHolder
<1>1. ForkInv => OneHolder
  BY DEF ForkInv, HoldersInv, OneHolder, Holds
<1>2. ForkSpec => []ForkInv
  BY InitFork, ForkStep, PTL DEF ForkSpec
<1> QED  BY <1>1, <1>2, PTL

-----------------------------------------------------------------------------
(* Every chunk is one that its client has sent: the types of the servers.  *)

\* The chunks that client c may send.
Chunks(c) == 1 .. MaxSent[c]

\* The connections hold such chunks only.
ChunksSent ==
    /\ DOMAIN sock = Clients /\ DOMAIN sent = Clients /\ DOMAIN got = Clients
    /\ \A c \in Clients : /\ sock[c] \in Conns(Chunks(c))
                          /\ got[c] \in Seq(Chunks(c)) /\ sent[c] \in 0 .. MaxSent[c]

\* At first there are none.
LEMMA NoChunks == ASSUME InitNet  PROVE ChunksSent
<1>1. ASSUME NEW c \in Clients
      PROVE  /\ sock[c] \in Conns(Chunks(c))
             /\ got[c] \in Seq(Chunks(c)) /\ sent[c] \in 0 .. MaxSent[c]
  <2>1. <<>> \in Seq(Chunks(c)) /\ MaxSent[c] \in Nat
    BY TcpAssumption
  <2> QED  BY <2>1 DEF InitNet, Conns
<1> QED  BY <1>1 DEF InitNet, ChunksSent

\* What the server calls for the connection of c.
Called(c, k) ==
    \/ k \in {sock[c], AfterAccept(sock[c]), AfterRecv(sock[c]), AfterClose(sock[c]),
              AfterClose(AfterAccept(sock[c]))}
    \/ \E n \in Chunks(c) : k = AfterWrite(sock[c], n)

\* Calls of the server bring no other chunk.
LEMMA CallChunks ==
    ASSUME ChunksSent, DOMAIN sock' = Clients, UNCHANGED <<sent, got>>,
           \A c \in Clients : Called(c, sock'[c])
    PROVE  ChunksSent'
<1>1. ASSUME NEW c \in Clients  PROVE sock'[c] \in Conns(Chunks(c))
  <2>1. sock[c] \in Conns(Chunks(c)) /\ Called(c, sock'[c])
    BY DEF ChunksSent
  <2>2. /\ AfterAccept(sock[c]) \in Conns(Chunks(c)) /\ AfterRecv(sock[c]) \in Conns(Chunks(c))
        /\ AfterClose(sock[c]) \in Conns(Chunks(c))
    BY <2>1, EndTypes
  <2>3. AfterClose(AfterAccept(sock[c])) \in Conns(Chunks(c))
    BY <2>2, EndTypes
  <2>4. \A n \in Chunks(c) : AfterWrite(sock[c], n) \in Conns(Chunks(c))
    BY <2>1, ConnTypes
  <2> QED  BY <2>1, <2>2, <2>3, <2>4 DEF Called
<1> QED  BY <1>1 DEF ChunksSent

\* One connection at a time.
LEMMA OneCall ==
    ASSUME ChunksSent, NEW c \in Clients, NEW k, Called(c, k),
           sock' = [sock EXCEPT ![c] = k], UNCHANGED <<sent, got>>
    PROVE  ChunksSent'
<1>1. /\ DOMAIN sock' = Clients /\ sock'[c] = k
      /\ \A d \in Clients \ {c} : sock'[d] = sock[d]
  BY DEF ChunksSent
<1>2. \A d \in Clients : Called(d, sock'[d])
  <2> SUFFICES ASSUME NEW d \in Clients  PROVE Called(d, sock'[d])
    OBVIOUS
  <2>1. CASE d = c
    BY <1>1, <2>1
  <2>2. CASE d # c
    BY <1>1, <2>2 DEF Called
  <2> QED  BY <2>1, <2>2
<1> QED  BY <1>1, <1>2, CallChunks

\* The signal that kills a server closes connections.
LEMMA KillChunks ==
    ASSUME ChunksSent, sock' = AfterKill(sock), UNCHANGED <<sent, got>>
    PROVE  ChunksSent'
<1>1. DOMAIN sock' = Clients /\ \A c \in Clients : sock'[c] \in {sock[c], AfterClose(sock[c])}
  BY DEF AfterKill
<1>2. \A c \in Clients : Called(c, sock'[c])
  BY <1>1 DEF Called
<1> QED  BY <1>1, <1>2, CallChunks

\* A client sends the next chunk, and reads what it was sent.
LEMMA ClientChunks ==
    ASSUME ChunksSent, NEW c \in Clients, Client(c)
    PROVE  ChunksSent'
<1>0. /\ sock[c] \in Conns(Chunks(c)) /\ got[c] \in Seq(Chunks(c))
      /\ sent[c] \in 0 .. MaxSent[c] /\ MaxSent[c] \in Nat
  BY TcpAssumption DEF ChunksSent
<1>1. \/ /\ sent'[c] = sent[c] + 1 /\ sent[c] < MaxSent[c] /\ got' = got
         /\ DOMAIN sent' = Clients /\ \A d \in Clients \ {c} : sent'[d] = sent[d]
         /\ sock' = [sock EXCEPT ![c] = AfterSend(sock[c], sent[c] + 1)]
      \/ /\ got'[c] = Append(got[c], Head(sock[c].out)) /\ sock[c].out # <<>> /\ sent' = sent
         /\ DOMAIN got' = Clients /\ \A d \in Clients \ {c} : got'[d] = got[d]
         /\ sock' = [sock EXCEPT ![c] = [sock[c] EXCEPT !.out = Tail(@)]]
      \/ /\ UNCHANGED <<sent, got>>
         /\ \E k \in {[sock[c] EXCEPT !.peer = "open"], AfterReset(sock[c]),
                      [sock[c] EXCEPT !.peer = "gone", !.fin = TRUE]} :
              sock' = [sock EXCEPT ![c] = k]
  <2>1. CASE Connect(c)
    BY <2>1 DEF Connect
  <2>2. CASE ClientSend(c)
    BY <2>2 DEF ClientSend, ChunksSent
  <2>3. CASE ClientRecv(c)
    BY <2>3 DEF ClientRecv, ChunksSent
  <2>4. CASE ClientClose(c) \/ ClientReset(c)
    BY <2>4 DEF ClientClose, ClientReset
  <2> QED  BY <2>1, <2>2, <2>3, <2>4 DEF Client
<1>2. /\ sock'[c] \in Conns(Chunks(c)) /\ got'[c] \in Seq(Chunks(c))
      /\ sent'[c] \in 0 .. MaxSent[c]
  <2>1. /\ sent[c] < MaxSent[c] => sent[c] + 1 \in Chunks(c)
        /\ sock[c].out # <<>> => Head(sock[c].out) \in Chunks(c)
    BY <1>0 DEF Chunks, Conns
  <2>2. /\ sent[c] < MaxSent[c] => AfterSend(sock[c], sent[c] + 1) \in Conns(Chunks(c))
        /\ sock[c].out # <<>> => [sock[c] EXCEPT !.out = Tail(@)] \in Conns(Chunks(c))
        /\ [sock[c] EXCEPT !.peer = "open"] \in Conns(Chunks(c))
        /\ AfterReset(sock[c]) \in Conns(Chunks(c))
        /\ [sock[c] EXCEPT !.peer = "gone", !.fin = TRUE] \in Conns(Chunks(c))
    BY <1>0, <2>1, ConnTypes, EndTypes
  <2>3. /\ \A k : sock' = [sock EXCEPT ![c] = k] => sock'[c] = k
        /\ sock[c].out # <<>> => Append(got[c], Head(sock[c].out)) \in Seq(Chunks(c))
        /\ sent[c] < MaxSent[c] => sent[c] + 1 \in 0 .. MaxSent[c]
    BY <1>0, <2>1 DEF ChunksSent
  <2> QED  BY <1>0, <1>1, <2>2, <2>3
<1>3. \A d \in Clients \ {c} : sock'[d] = sock[d] /\ sent'[d] = sent[d] /\ got'[d] = got[d]
  BY <1>1 DEF ChunksSent
<1>4. DOMAIN sock' = Clients /\ DOMAIN sent' = Clients /\ DOMAIN got' = Clients
  BY <1>1 DEF ChunksSent
<1>5. ASSUME NEW d \in Clients
      PROVE  /\ sock'[d] \in Conns(Chunks(d))
             /\ got'[d] \in Seq(Chunks(d)) /\ sent'[d] \in 0 .. MaxSent[d]
  BY <1>2, <1>3 DEF ChunksSent
<1> QED  BY <1>4, <1>5 DEF ChunksSent

\* The chunk in the handler is one of them, too.
HandChunk == pc = "write" => held.chunk \in Chunks(fdtab[held.fd])

PollChunks == PollInv /\ ChunksSent /\ HandChunk

\* The steps of the servers that wait for several descriptors.
LEMMA PollChunksStep ==
    ASSUME PollChunks, [PollingNext]_pollingVars
    PROVE  PollChunks'
<1>0. PollInv /\ PollInv' /\ ChunksSent /\ HandChunk
  BY PollStep DEF PollChunks
<1>1. CASE Select \/ Poll \/ EpollWait \/ PassEnds \/ AcceptFails
  <2>1. UNCHANGED net /\ pc' # "write"
    BY <1>1 DEF Select, Poll, EpollWait, PassEnds, AcceptFails
  <2> QED  BY <1>0, <2>1 DEF ChunksSent, HandChunk, net, PollChunks
<1>2. CASE AddConnection \/ TooHigh
  <2> DEFINE c == Head(backlog)
  <2>1. /\ pc' # "write" /\ backlog # <<>> /\ UNCHANGED <<sent, got>>
        /\ \E k \in {AfterAccept(sock[c]), AfterClose(AfterAccept(sock[c]))} :
              sock' = [sock EXCEPT ![c] = k]
    BY <1>2 DEF AddConnection, TooHigh
  <2>2. c \in Clients
    BY <1>0, <2>1 DEF PollInv, PollTypes, NetTypes
  <2>3. ChunksSent'
    BY <1>0, <2>1, <2>2, OneCall DEF Called
  <2> QED  BY <1>0, <2>1, <2>3 DEF HandChunk, PollChunks
<1>3. CASE RecvData
  <2>1. PICK f \in Turn \ {listensock} :
           /\ pc' = "write" /\ fdtab' = fdtab /\ RecvResult(sock[fdtab[f]]) = "data"
           /\ held' = [fd |-> f, chunk |-> Head(sock[fdtab[f]].in)]
           /\ sock' = [sock EXCEPT ![fdtab[f]] = AfterRecv(@)]
           /\ pc = "scan" /\ UNCHANGED <<sent, got>>
    BY <1>3 DEF RecvData
  <2>2. fdtab[f] \in Clients
    <3>1. f \in OpenFds
      BY <1>0, <2>1, TurnOpen
    <3> QED  BY <1>0, <3>1 DEF PollInv, PollTypes, OpenFds
  <2>3. ChunksSent'
    BY <1>0, <2>1, <2>2, OneCall DEF Called
  <2>4. Head(sock[fdtab[f]].in) \in Chunks(fdtab[f])
    <3>1. sock[fdtab[f]].in \in Seq(Chunks(fdtab[f])) /\ sock[fdtab[f]].in # <<>>
      BY <1>0, <2>1, <2>2 DEF ChunksSent, Conns, RecvResult
    <3> QED  BY <3>1
  <2> QED  BY <1>0, <2>1, <2>3, <2>4 DEF HandChunk, PollChunks
<1>4. CASE RecvEnds
  <2>1. PICK f \in Turn \ {listensock} : /\ pc = "scan" /\ pc' = "scan" /\ UNCHANGED <<sent, got>>
                                         /\ sock' = [sock EXCEPT ![fdtab[f]] = AfterClose(@)]
    BY <1>4 DEF RecvEnds
  <2>2. fdtab[f] \in Clients
    <3>1. f \in OpenFds
      BY <1>0, <2>1, TurnOpen
    <3> QED  BY <1>0, <3>1 DEF PollInv, PollTypes, OpenFds
  <2>3. ChunksSent'
    BY <1>0, <2>1, <2>2, OneCall DEF Called
  <2> QED  BY <1>0, <2>1, <2>3 DEF HandChunk, PollChunks
<1>5. CASE Write
  <2> DEFINE c == fdtab[held.fd]
  <2>1. /\ pc = "write" /\ pc' # "write" /\ UNCHANGED <<sent, got>>
        /\ \/ sock' = AfterKill(sock)
           \/ sock' = [sock EXCEPT ![c] = AfterWrite(@, held.chunk)]
    BY <1>5 DEF Write
  <2>2. c \in Clients /\ held.chunk \in Chunks(c)
    BY <1>0, <2>1 DEF PollInv, Visits, PollTypes, OpenFds, HandChunk
  <2>3. ChunksSent'
    <3>1. CASE sock' = AfterKill(sock)
      BY <1>0, <2>1, <3>1, KillChunks
    <3>2. CASE sock' = [sock EXCEPT ![c] = AfterWrite(@, held.chunk)]
      BY <1>0, <2>1, <2>2, <3>2, OneCall DEF Called
    <3> QED  BY <2>1, <3>1, <3>2
  <2> QED  BY <1>0, <2>1, <2>3 DEF HandChunk, PollChunks
<1>6. ASSUME NEW c \in Clients, Client(c), UNCHANGED <<prog, server>>
      PROVE  PollChunks'
  <2>1. ChunksSent'
    BY <1>0, <1>6, ClientChunks
  <2> QED  BY <1>0, <1>6, <2>1 DEF server, HandChunk, PollChunks
<1>7. CASE UNCHANGED pollingVars
  BY <1>0, <1>7 DEF pollingVars, net, server, ChunksSent, HandChunk, PollChunks
<1> QED  BY <1>1, <1>2, <1>3, <1>4, <1>5, <1>6, <1>7
         DEF PollingNext, Server, HandleEvent, Accepter, Recver

\* Their types.
LEMMA PollingTypes == PollingSpec => []PollingTypeOK
<1>1. ASSUME PollingInit  PROVE PollChunks
  BY <1>1, InitPoll, NoChunks DEF PollingInit, InitServer, PollChunks, HandChunk
<1>2. PollChunks => PollingTypeOK
  BY DEF PollChunks, PollInv, PollTypes, NetTypes, PollingTypeOK, NetTypeOK, ChunksSent, Chunks
<1>3. PollingSpec => []PollChunks
  BY <1>1, PollChunksStep, PTL DEF PollingSpec
<1> QED  BY <1>2, <1>3, PTL

\* Every thread carries a chunk of its client; the mutexes are held by threads.
HandChunks == \A t \in Threads : at[t] = "write" => chunk[t] \in Chunks(task[t])
Holdings == asked \subseteq Clients /\ {singlock, mutex} \subseteq Threads \cup {NoThread}

PoolChunks == ServeInv /\ ChunksSent /\ HandChunks /\ Holdings

\* Who holds a mutex, and who waits for a reply.
LEMMA HoldingsStep ==
    ASSUME CtrlInv, Holdings, [Next]_vars
    PROVE  Holdings'
<1> USE DEF Holdings
<1>1. Callers \subseteq Threads /\ Workers \subseteq Threads
  BY DEF Threads
<1>2. ASSUME NEW c \in Callers, CallerStep(c)  PROVE Holdings'
  BY <1>1, <1>2 DEF CallerStep, InPool, Still, TestInstance, LockSingle, Create, UnlockSingle,
                    StartWorker, Push
<1>3. ASSUME NEW t \in Threads, LockStep(t)  PROVE Holdings'
  BY <1>3 DEF LockStep, InPool, Still, Lock
<1>4. ASSUME NEW w \in Workers, WorkerStep(w)  PROVE Holdings'
  BY <1>4 DEF WorkerStep, InPool, Still, Wait, Pop, SpuriousWakeup
<1>5. CASE ProgramStep
  <2>1. UNCHANGED <<singlock, mutex>>
    BY <1>5 DEF ProgramStep, Calculate, Submit, StartPool, Accept, serviceIO, ReadMessage,
                ReadFails, ClientQuit, Echo, tcpclient, Come, Enter, EnterMore, ReadReply,
                Leave, vars, mine, pool
  <2>2. asked' = asked \/ \E k \in Clients : asked' = asked \cup {k} \/ asked' = asked \ {k}
    BY <1>5 DEF ProgramStep, Calculate, Submit, StartPool, Accept, serviceIO, ReadMessage,
                ReadFails, ClientQuit, Echo, tcpclient, Come, Enter, EnterMore, ReadReply,
                Leave, vars, mine, pool
  <2> QED  BY <2>1, <2>2
<1> QED  BY <1>2, <1>3, <1>4, <1>5, Steps

\* A step that changes neither a chunk nor a thread that has one.
LEMMA HandsRest ==
    ASSUME HandChunks, chunk' = chunk,
           \A t \in Threads : at'[t] = "write" => at[t] = "write" /\ task'[t] = task[t]
    PROVE  HandChunks'
BY DEF HandChunks

\* The steps of the pool, which leave the connections alone.
LEMMA PoolHands ==
    ASSUME CtrlInv, ChunksSent, HandChunks,
           \/ \E c \in Callers : CallerStep(c)
           \/ \E t \in Threads : LockStep(t)
           \/ \E w \in Workers : WorkerStep(w)
    PROVE  ChunksSent' /\ HandChunks'
<1>1. at \in [Threads -> Labels] /\ task \in [Threads -> Jobs \cup {NoTask}]
  BY DEF CtrlInv, TypeInv
<1>2. Callers \subseteq Threads /\ Workers \subseteq Threads
  BY DEF Threads
<1>3. UNCHANGED <<net, chunk>>
  BY DEF CallerStep, LockStep, WorkerStep, InPool, Still
<1>4. ChunksSent'
  BY <1>3 DEF ChunksSent, net
<1>5. ASSUME NEW c \in Callers, CallerStep(c)
      PROVE  \A t \in Threads : at'[t] = "write" => at[t] = "write" /\ task'[t] = task[t]
  <2>1. CASE StartWorker(c)
    BY <1>1, <1>2, <2>1 DEF StartWorker
  <2>2. CASE Push(c)
    BY <1>1, <1>2, <2>2 DEF Push, Goto
  <2>3. CASE TestInstance(c) \/ LockSingle(c) \/ Create(c) \/ UnlockSingle(c)
    BY <1>1, <1>2, <2>3 DEF TestInstance, LockSingle, Create, UnlockSingle, Returned, Goto
  <2> QED  BY <1>5, <2>1, <2>2, <2>3 DEF CallerStep
<1>6. ASSUME NEW u \in Threads, LockStep(u)
      PROVE  \A t \in Threads : at'[t] = "write" => at[t] = "write" /\ task'[t] = task[t]
  BY <1>1, <1>6 DEF LockStep, Lock, Goto
<1>7. ASSUME NEW w \in Workers, WorkerStep(w)
      PROVE  \A t \in Threads : at'[t] = "write" => at[t] = "write" /\ task'[t] = task[t]
  BY <1>1, <1>2, <1>7 DEF WorkerStep, Wait, Pop, SpuriousWakeup, Goto
<1> QED  BY <1>3, <1>4, <1>5, <1>6, <1>7, HandsRest

\* serviceIO reads, writes or closes.
LEMMA ServiceChunks ==
    ASSUME PoolChunks, NEW t \in Threads, serviceIO(t)
    PROVE  ChunksSent' /\ HandChunks'
<1> USE DEF PoolChunks
<1> DEFINE c == task[t]
<1>1. /\ c \in Clients /\ sock[c] \in Conns(Chunks(c)) /\ UNCHANGED <<sent, got>>
      /\ at \in [Threads -> Labels] /\ task \in [Threads -> Jobs \cup {NoTask}]
      /\ chunk \in [Threads -> Nat]
  <2>1. UNCHANGED <<sent, got>>
    BY DEF serviceIO, ReadMessage, ReadFails, ClientQuit, Echo
  <2> QED  BY <2>1, Served DEF ServeInv, CtrlInv, TypeInv, EchoInv, ChunksSent
<1>2. CASE ReadMessage(t)
  <2>1. /\ RecvResult(sock[c]) = "data" /\ task' = task
        /\ chunk' = [chunk EXCEPT ![t] = Head(sock[c].in)]
        /\ sock' = [sock EXCEPT ![c] = AfterRecv(@)] /\ at' = [at EXCEPT ![t] = "write"]
    BY <1>2 DEF ReadMessage, Goto
  <2>2. ChunksSent'
    BY <1>1, <2>1, OneCall DEF Called
  <2>3. Head(sock[c].in) \in Chunks(c)
    <3>1. sock[c].in \in Seq(Chunks(c)) /\ sock[c].in # <<>>
      BY <1>1, <2>1 DEF Conns, RecvResult
    <3> QED  BY <3>1
  <2> QED  BY <1>1, <2>1, <2>2, <2>3 DEF HandChunks
<1>3. CASE ReadFails(t)
  <2>1. sock' = [sock EXCEPT ![c] = AfterRecv(@)] /\ UNCHANGED <<at, task, chunk>>
    BY <1>3 DEF ReadFails, mine, pool
  <2>2. ChunksSent'
    BY <1>1, <2>1, OneCall DEF Called
  <2> QED  BY <2>1, <2>2 DEF HandChunks
<1>4. CASE ClientQuit(t)
  <2>1. /\ sock' = [sock EXCEPT ![c] = AfterClose(@)] /\ chunk' = chunk
        /\ task' = [task EXCEPT ![t] = NoTask]
        /\ at' = [at EXCEPT ![t] = IF prog = "lesson35" THEN "idle" ELSE "lock"]
    BY <1>4 DEF ClientQuit, Goto
  <2>2. ChunksSent'
    BY <1>1, <2>1, OneCall DEF Called
  <2> QED  BY <1>1, <2>1, <2>2 DEF HandChunks
<1>5. CASE Echo(t)
  <2>1. /\ \/ sock' = AfterKill(sock)
           \/ sock' = [sock EXCEPT ![c] = AfterWrite(@, chunk[t])]
        /\ task' = task /\ chunk' = [chunk EXCEPT ![t] = 0] /\ at[t] = "write"
        /\ \E to \in {"dead", "call"} : at' = [at EXCEPT ![t] = to]
    BY <1>5 DEF Echo, Goto
  <2>2. ChunksSent'
    <3>1. CASE sock' = AfterKill(sock)
      BY <1>1, <3>1, KillChunks
    <3>2. CASE sock' = [sock EXCEPT ![c] = AfterWrite(@, chunk[t])]
      <4>1. chunk[t] \in Chunks(c)
        BY <2>1 DEF HandChunks
      <4> QED  BY <1>1, <3>2, <4>1, OneCall DEF Called
    <3> QED  BY <2>1, <3>1, <3>2
  <2> QED  BY <1>1, <2>1, <2>2 DEF HandChunks
<1> QED  BY <1>2, <1>3, <1>4, <1>5 DEF serviceIO

\* The steps of the programs around the pool.
LEMMA ProgramChunks ==
    ASSUME PoolChunks, ProgramStep
    PROVE  ChunksSent' /\ HandChunks'
<1>0. /\ CtrlInv /\ ChunksSent /\ HandChunks
      /\ at \in [Threads -> Labels] /\ task \in [Threads -> Jobs \cup {NoTask}]
  BY DEF PoolChunks, ServeInv, CtrlInv, TypeInv
<1>1. Callers \subseteq Threads /\ Workers \subseteq Threads /\ Main \in Callers
  BY PoolAssumption DEF Threads
<1>2. ASSUME NEW w \in Workers, Calculate(w)  PROVE ChunksSent' /\ HandChunks'
  BY <1>0, <1>1, <1>2, HandsRest DEF Calculate, Goto, net, ChunksSent
<1>3. ASSUME NEW c \in Callers, Submit(c)  PROVE ChunksSent' /\ HandChunks'
  BY <1>0, <1>1, <1>3, HandsRest DEF Submit, Goto, net, ChunksSent
<1>4. CASE StartPool
  BY <1>0, <1>1, <1>4, HandsRest DEF StartPool, Goto, net, ChunksSent
<1>5. CASE Accept
  <2> DEFINE c == Head(backlog)
  <2>1. /\ backlog # <<>> /\ sock' = [sock EXCEPT ![c] = AfterAccept(@)]
        /\ UNCHANGED <<sent, got, chunk>> /\ task' = [task EXCEPT ![Main] = c]
        /\ \E to \in {"call", "GetInstance"} : at' = [at EXCEPT ![Main] = to]
    BY <1>5 DEF Accept, Goto
  <2>2. c \in Clients
    BY <1>0, <2>1 DEF CtrlInv, TypeInv
  <2>3. ChunksSent'
    BY <1>0, <2>1, <2>2, OneCall DEF Called
  <2>4. \A t \in Threads : at'[t] = "write" => at[t] = "write" /\ task'[t] = task[t]
    BY <1>0, <1>1, <2>1
  <2> QED  BY <1>0, <2>1, <2>3, <2>4, HandsRest
<1>6. ASSUME NEW c \in Clients, tcpclient(c)  PROVE ChunksSent' /\ HandChunks'
  <2>1. UNCHANGED <<at, task, chunk>> /\ (Client(c) \/ UNCHANGED net)
    BY <1>6 DEF tcpclient, Come, Enter, EnterMore, ReadReply, Leave, Client, mine, pool
  <2>2. ChunksSent'
    BY <1>0, <2>1, ClientChunks DEF ChunksSent, net
  <2> QED  BY <1>0, <2>1, <2>2 DEF HandChunks
<1>7. CASE UNCHANGED vars
  BY <1>0, <1>7 DEF vars, mine, pool, net, ChunksSent, HandChunks
<1> QED  BY <1>2, <1>3, <1>4, <1>5, <1>6, <1>7, ServiceChunks DEF ProgramStep

\* All the steps.
LEMMA PoolChunksStep ==
    ASSUME PoolChunks, [Next]_vars
    PROVE  PoolChunks'
<1>1. CtrlInv /\ ChunksSent /\ HandChunks /\ ServeInv' /\ Holdings'
  BY ServeStep, HoldingsStep DEF PoolChunks, ServeInv
<1>2. CASE ProgramStep
  BY <1>1, <1>2, ProgramChunks DEF PoolChunks
<1>3. CASE \/ \E c \in Callers : CallerStep(c)
           \/ \E t \in Threads : LockStep(t)
           \/ \E w \in Workers : WorkerStep(w)
  BY <1>1, <1>3, PoolHands DEF PoolChunks
<1> QED  BY <1>2, <1>3, Steps

\* Their types.
LEMMA PoolTypes == Spec => []TypeOK
<1>1. ASSUME Init  PROVE PoolChunks
  <2>1. Holdings
    BY <1>1 DEF Init, InitPrograms, InitPool, Holdings
  <2>2. HandChunks
    BY <1>1 DEF Init, InitPrograms, InitPool, HandChunks
  <2> QED  BY <1>1, <2>1, <2>2, InitServe, NoChunks DEF Init, PoolChunks
<1>2. ASSUME PoolChunks  PROVE TypeOK
  <2>1. NetTypeOK
    BY <1>2 DEF PoolChunks, ServeInv, CtrlInv, TypeInv, NetTypeOK, ChunksSent, Chunks
  <2>2. \A k \in DOMAIN task_queue : task_queue[k] \in Jobs
    BY <1>2 DEF PoolChunks, ServeInv, CtrlInv, TypeInv
  <2> QED  BY <1>2, <2>1, <2>2
           DEF PoolChunks, ServeInv, CtrlInv, TypeInv, Holdings, TypeOK, Labels
<1>3. Spec => []PoolChunks
  BY <1>1, PoolChunksStep, PTL DEF Spec
<1> QED  BY <1>2, <1>3, PTL

\* Of what the processes have, the files are there, and an answer is of a client
\* that has sent a chunk.
ProcsOK ==
    /\ father \in [call : {"accept", "fork", "close", "waitpid"}, conn : Clients \cup {"none"}]
    /\ \A c \in Clients : reply[c].file \in DOMAIN Suffixes \cup {"none"}
    /\ DOMAIN reply = Clients
    /\ forkfails \in 0 .. MaxForkFails
    /\ \A c \in Clients : grand[c] = "send" => 1 \in Chunks(c)

ForkChunks == ForkInv /\ ChunksSent /\ ProcsOK

\* A reply names a file that is there, or none.
LEMMA ResponseFile == \A c : Response(c).file \in DOMAIN Suffixes \cup {"none"}
<1> SUFFICES ASSUME NEW c  PROVE Response(c).file \in DOMAIN Suffixes \cup {"none"}
  OBVIOUS
<1>1. NoReply.file = "none"
  BY DEF NoReply
<1>2. ASSUME NEW p  PROVE Get38(p).file \in DOMAIN Suffixes \cup {"none"}
  BY <1>1 DEF Get38, Exists
<1>3. ASSUME NEW p  PROVE Get39(p).file \in DOMAIN Suffixes \cup {"none"}
  <2>1. CASE p = "none"
    BY <1>1, <2>1 DEF Get39
  <2>2. CASE p # "none" /\ Exists(p)
    BY <2>2 DEF Get39, Exists
  <2>3. CASE p # "none" /\ ~Exists(p)
    BY <2>3, ForkAssumption DEF Get39
  <2> QED  BY <2>1, <2>2, <2>3
<1> QED  BY <1>1, <1>2, <1>3 DEF Response

\* The end of a holder closes connections.
LEMMA DropChunks ==
    ASSUME ChunksSent, NEW h, Drop(h), UNCHANGED <<sent, got>>
    PROVE  ChunksSent'
<1>1. DOMAIN sock' = Clients /\ \A c \in Clients : sock'[c] \in {sock[c], AfterClose(sock[c])}
  BY DEF Drop, Released
<1>2. \A c \in Clients : Called(c, sock'[c])
  BY <1>1 DEF Called
<1> QED  BY <1>1, <1>2, CallChunks

\* The steps of the father.
LEMMA FatherChunks ==
    ASSUME ForkChunks, start
    PROVE  ChunksSent' /\ ProcsOK'
<1>0. /\ ChunksSent /\ ProcsOK /\ ForkTypes /\ MaxForkFails \in Nat
      /\ DOMAIN father = {"call", "conn"} /\ father.conn \in Clients \cup {"none"}
      /\ \A p \in {"close", "waitpid"} :
            [father EXCEPT !.call = p] \in [call : {"accept", "fork", "close", "waitpid"},
                                            conn : Clients \cup {"none"}]
  BY ForkAssumption DEF ForkChunks, ForkInv, ProcsOK
<1>1. CASE AcceptConn
  <2> DEFINE c == Head(backlog)
  <2>1. /\ backlog # <<>> /\ sock' = [sock EXCEPT ![c] = AfterAccept(@)]
        /\ father' = [call |-> "fork", conn |-> c]
        /\ UNCHANGED <<sent, got, grand, reply, forkfails>>
    BY <1>1 DEF AcceptConn
  <2>2. c \in Clients
    BY <1>0, <2>1 DEF ForkTypes, NetTypes
  <2>3. ChunksSent'
    BY <1>0, <2>1, <2>2, OneCall DEF Called
  <2> QED  BY <1>0, <2>1, <2>2, <2>3 DEF ProcsOK
<1>2. CASE Fork \/ ForkFails \/ Waitpid
  <2>1. /\ UNCHANGED <<net, grand, reply>>
        /\ \/ forkfails' = forkfails
           \/ forkfails' = forkfails + 1 /\ forkfails < MaxForkFails
        /\ \/ father' = [father EXCEPT !.call = "close"]
           \/ father' = [call |-> "accept", conn |-> "none"]
    BY <1>2 DEF Fork, ForkFails, Waitpid
  <2>2. ChunksSent'
    BY <1>0, <2>1 DEF net, ChunksSent
  <2>3. forkfails' \in 0 .. MaxForkFails
    BY <1>0, <2>1 DEF ProcsOK
  <2> QED  BY <1>0, <2>1, <2>2, <2>3 DEF ProcsOK
<1>3. CASE FatherClose
  <2>1. /\ UNCHANGED <<sent, got, grand, reply, forkfails>>
        /\ father' = [father EXCEPT !.call = "waitpid"]
        /\ Drop([holders EXCEPT ![father.conn] = @ \ {Father}])
    BY <1>3 DEF FatherClose
  <2>2. ChunksSent'
    BY <1>0, <2>1, DropChunks
  <2> QED  BY <1>0, <2>1, <2>2 DEF ProcsOK
<1> QED  BY <1>1, <1>2, <1>3 DEF start

\* The steps of a child and of its handler.
LEMMA HandlerChunks ==
    ASSUME ForkChunks, NEW c \in Clients, Child(c) \/ Handler(c)
    PROVE  ChunksSent' /\ ProcsOK'
<1>0. /\ ChunksSent /\ ProcsOK /\ ForkTypes /\ MaxForkFails \in Nat
      /\ sock[c] \in Conns(Chunks(c)) /\ DOMAIN grand = Clients
  BY ForkAssumption DEF ForkChunks, ForkInv, ForkTypes, ChunksSent
<1>1. CASE ChildForks(c) \/ ChildForkFails(c)
  <2>1. /\ UNCHANGED <<net, reply, father>> /\ grand' = [grand EXCEPT ![c] = "recv"]
        /\ \/ forkfails' = forkfails
           \/ forkfails' = forkfails + 1 /\ forkfails < MaxForkFails
    BY <1>1 DEF ChildForks, ChildForkFails
  <2>2. ChunksSent'
    BY <1>0, <2>1 DEF net, ChunksSent
  <2>3. forkfails' \in 0 .. MaxForkFails
    BY <1>0, <2>1 DEF ProcsOK
  <2> QED  BY <1>0, <2>1, <2>2, <2>3 DEF ProcsOK
<1>2. CASE ChildExits(c) \/ HandlerExits(c)
  <2>1. /\ UNCHANGED <<sent, got, father, reply, forkfails>>
        /\ grand' = grand \/ grand' = [grand EXCEPT ![c] = "gone"]
        /\ \E h : Drop(h)
    BY <1>2 DEF ChildExits, HandlerExits
  <2>2. ChunksSent'
    BY <1>0, <2>1, DropChunks
  <2> QED  BY <1>0, <2>1, <2>2 DEF ProcsOK
<1>3. CASE Recv(c)
  <2>1. /\ RecvResult(sock[c]) = "data" /\ sock' = [sock EXCEPT ![c] = AfterRecv(@)]
        /\ reply' = [reply EXCEPT ![c] = Response(c)]
        /\ \E p \in {"send", "close"} : grand' = [grand EXCEPT ![c] = p]
        /\ UNCHANGED <<sent, got, father, forkfails>>
    BY <1>3 DEF Recv
  <2>2. ChunksSent'
    BY <1>0, <2>1, OneCall DEF Called
  <2>3. 1 \in Chunks(c)
    <3>1. sock[c].in \in Seq(Chunks(c)) /\ sock[c].in # <<>>
      BY <1>0, <2>1 DEF Conns, RecvResult
    <3>2. Head(sock[c].in) \in 1 .. MaxSent[c] /\ MaxSent[c] \in Nat
      BY <3>1, TcpAssumption DEF Chunks
    <3> QED  BY <3>2 DEF Chunks
  <2>4. \A d \in Clients : reply'[d].file \in DOMAIN Suffixes \cup {"none"}
    BY <1>0, <2>1, ResponseFile DEF ProcsOK
  <2> QED  BY <1>0, <2>1, <2>2, <2>3, <2>4 DEF ProcsOK
<1>4. CASE RecvFails(c)
  <2>1. /\ sock' = [sock EXCEPT ![c] = AfterRecv(@)] /\ grand' = [grand EXCEPT ![c] = "close"]
        /\ UNCHANGED <<sent, got, father, reply, forkfails>>
    BY <1>4 DEF RecvFails
  <2>2. ChunksSent'
    BY <1>0, <2>1, OneCall DEF Called
  <2> QED  BY <1>0, <2>1, <2>2 DEF ProcsOK
<1>5. CASE Send(c)
  <2>1. /\ sock' = [sock EXCEPT ![c] = AfterWrite(@, 1)] /\ grand[c] = "send"
        /\ \E p \in {"recv", "close"} : grand' = [grand EXCEPT ![c] = p]
        /\ UNCHANGED <<sent, got, father, reply, forkfails>>
    BY <1>5 DEF Send
  <2>2. 1 \in Chunks(c)
    BY <1>0, <2>1 DEF ProcsOK
  <2>3. ChunksSent'
    BY <1>0, <2>1, <2>2, OneCall DEF Called
  <2> QED  BY <1>0, <2>1, <2>3 DEF ProcsOK
<1> QED  BY <1>1, <1>2, <1>3, <1>4, <1>5 DEF Child, Handler

\* All the steps.
LEMMA ForkChunksStep ==
    ASSUME ForkChunks, [ForkNext]_forkVars
    PROVE  ForkChunks'
<1>0. ForkInv' /\ ChunksSent /\ ProcsOK
  BY ForkStep DEF ForkChunks
<1>1. CASE start
  BY <1>0, <1>1, FatherChunks DEF ForkChunks
<1>2. ASSUME NEW c \in Clients, Child(c) \/ Handler(c)  PROVE ForkChunks'
  BY <1>0, <1>2, HandlerChunks DEF ForkChunks
<1>3. ASSUME NEW c \in Clients, Client(c), UNCHANGED <<prog, procs>>  PROVE ForkChunks'
  BY <1>0, <1>3, ClientChunks DEF ForkChunks, ProcsOK, procs
<1>4. CASE UNCHANGED forkVars
  BY <1>0, <1>4 DEF forkVars, net, procs, ForkChunks, ChunksSent, ProcsOK
<1> QED  BY <1>1, <1>2, <1>3, <1>4 DEF ForkNext

\* Their types.
LEMMA ForkTyped == ForkSpec => []ForkTypeOK
<1>1. ASSUME ForkInit  PROVE ForkChunks
  <2>1. ProcsOK
    BY <1>1, ForkAssumption DEF ForkInit, InitProcs, ProcsOK, NoReply
  <2> QED  BY <1>1, <2>1, InitFork, NoChunks DEF ForkInit, ForkChunks
<1>2. ForkChunks => ForkTypeOK
  BY DEF ForkChunks, ForkInv, ForkTypes, NetTypes, ProcsOK, ForkTypeOK, NetTypeOK, ChunksSent,
         Chunks
<1>3. ForkSpec => []ForkChunks
  BY <1>1, ForkChunksStep, PTL DEF ForkSpec
<1> QED  BY <1>2, <1>3, PTL

-----------------------------------------------------------------------------
(* The servers side by side: the program of a behaviour is one of them,    *)
(* and the others are as they were at first.                               *)

OnlyPolling == prog \in PollingPrograms /\ InitPrograms /\ InitProcs
OnlyPool == prog \in Programs /\ InitServer /\ InitProcs
OnlyFork == prog \in ForkPrograms /\ InitServer /\ InitPrograms

\* A step keeps the program.
LEMMA SameProgram == (PollingNext \/ Next \/ ForkNext) => prog' = prog
<1>1. PollingNext => prog' = prog
  BY DEF PollingNext, Server, Select, Poll, EpollWait, HandleEvent, PassEnds, Accepter,
         AddConnection, TooHigh, AcceptFails, Recver, RecvData, RecvEnds, Write
<1>2. Next => prog' = prog
  BY DEF Next, Step, PoolStep, Calculate, serviceIO, ReadMessage, ReadFails, ClientQuit, Echo,
         StartPool, Accept, Submit, Spurious, tcpclient, Come, Enter, EnterMore, ReadReply, Leave
<1>3. ForkNext => prog' = prog
  BY DEF ForkNext, start, AcceptConn, Fork, ForkFails, FatherClose, Waitpid, Child, ChildForks,
         ChildForkFails, ChildExits, Handler, Recv, RecvFails, Send, HandlerExits
<1> QED  BY <1>1, <1>2, <1>3

\* While no thread of the pool has started, no step is one of the pool's programs,
\* unless the program is one.
LEMMA OthersRest ==
    ASSUME Next, InitPrograms
    PROVE  prog \in Programs
<1>1. \A t \in Threads : at[t] \in {"new", "idle"}
  BY DEF InitPrograms, InitPool
<1>2. \A t \in Threads : ~Echo(t)
  BY <1>1 DEF Echo
<1>3. Workers \subseteq Threads /\ Main \in Threads
  BY PoolAssumption DEF Threads
<1> QED  BY <1>2, <1>3
         DEF Next, Step, PoolStep, Calculate, serviceIO, ReadMessage, ReadFails, ClientQuit,
             InService, StartPool, Accept, Submit, Spurious, Programs

\* One family of programs runs alone.
LEMMA PollingAlone ==
    ASSUME OnlyPolling, [ServersNext]_serversVars
    PROVE  OnlyPolling' /\ [PollingNext]_pollingVars
<1>1. prog \notin Programs /\ prog \notin ForkPrograms
  BY DEF OnlyPolling, PollingPrograms, Programs, ForkPrograms
<1>2. ~Next /\ ~ForkNext
  BY <1>1, OthersRest DEF OnlyPolling, ForkNext
<1>3. prog' = prog /\ UNCHANGED <<mine, procs>>
  BY <1>2, SameProgram DEF ServersNext, serversVars
<1>4. InitPrograms' /\ InitProcs'
  BY <1>3 DEF OnlyPolling, InitPrograms, InitPool, InitProcs, mine, pool, procs
<1>5. [PollingNext]_pollingVars
  BY <1>2 DEF ServersNext, serversVars, pollingVars
<1> QED  BY <1>3, <1>4, <1>5 DEF OnlyPolling

LEMMA PoolAlone ==
    ASSUME OnlyPool, [ServersNext]_serversVars
    PROVE  OnlyPool' /\ [Next]_vars
<1>1. prog \notin PollingPrograms /\ prog \notin ForkPrograms
  BY DEF OnlyPool, PollingPrograms, Programs, ForkPrograms
<1>2. ~PollingNext /\ ~ForkNext
  BY <1>1 DEF PollingNext, ForkNext
<1>3. prog' = prog /\ UNCHANGED <<server, procs>>
  BY <1>2, SameProgram DEF ServersNext, serversVars
<1>4. InitServer' /\ InitProcs'
  BY <1>3 DEF OnlyPool, InitServer, InitProcs, server, procs, Fds, Slots, FirstSlots,
              FirstInterest
<1>5. [Next]_vars
  BY <1>2 DEF ServersNext, serversVars, vars
<1> QED  BY <1>3, <1>4, <1>5 DEF OnlyPool

LEMMA ForkAlone ==
    ASSUME OnlyFork, [ServersNext]_serversVars
    PROVE  OnlyFork' /\ [ForkNext]_forkVars
<1>1. prog \notin PollingPrograms /\ prog \notin Programs
  BY DEF OnlyFork, PollingPrograms, Programs, ForkPrograms
<1>2. ~PollingNext /\ ~Next
  BY <1>1, OthersRest DEF OnlyFork, PollingNext
<1>3. prog' = prog /\ UNCHANGED <<server, mine>>
  BY <1>2, SameProgram DEF ServersNext, serversVars
<1>4. InitServer' /\ InitPrograms'
  BY <1>3 DEF OnlyFork, InitServer, InitPrograms, InitPool, server, mine, pool, Fds, Slots,
              FirstSlots, FirstInterest
<1>5. [ForkNext]_forkVars
  BY <1>2 DEF ServersNext, serversVars, forkVars
<1> QED  BY <1>3, <1>4, <1>5 DEF OnlyFork

\* So a behaviour of the servers is one of a program, and the other modules rest.
LEMMA OneRuns ==
    ServersSpec => \/ PollingSpec /\ []OnlyPolling
                   \/ Spec /\ []OnlyPool
                   \/ ForkSpec /\ []OnlyFork
<1>1. ServersInit => \/ PollingInit /\ OnlyPolling
                     \/ Init /\ OnlyPool
                     \/ ForkInit /\ OnlyFork
  BY DEF ServersInit, PollingInit, Init, ForkInit, OnlyPolling, OnlyPool, OnlyFork
<1>2. OnlyPolling /\ [ServersNext]_serversVars => OnlyPolling' /\ [PollingNext]_pollingVars
  BY PollingAlone
<1>3. OnlyPool /\ [ServersNext]_serversVars => OnlyPool' /\ [Next]_vars
  BY PoolAlone
<1>4. OnlyFork /\ [ServersNext]_serversVars => OnlyFork' /\ [ForkNext]_forkVars
  BY ForkAlone
<1> QED  BY <1>1, <1>2, <1>3, <1>4, PTL DEF ServersSpec, PollingSpec, Spec, ForkSpec

\* What rests keeps its properties.
LEMMA RestTables == ASSUME InitServer, prog \notin PollingPrograms
                    PROVE  TablesAgree /\ ReadyWhenVisited
<1>1. prog # "epoll" /\ pc = "wait" /\ fdtab = [f \in Fds |-> NoClient]
  BY DEF InitServer, PollingPrograms
<1>2. OpenFds = {}
  BY <1>1 DEF OpenFds
<1>3. 0 \in Slots /\ \A i \in Slots : fdarray[i] = IF i = 0 THEN listensock ELSE default_fd
  BY <1>1, PollingAssumption DEF InitServer, FirstSlots, Slots
<1>4. TableFds = {listensock}
  BY <1>3 DEF TableFds, listensock, default_fd
<1> QED  BY <1>1, <1>2, <1>3, <1>4 DEF TablesAgree, ReadyWhenVisited

LEMMA RestPool == ASSUME InitPrograms  PROVE OneInstance /\ TasksHaveWorkers
<1>1. created = 0 /\ tp = FALSE /\ \A t \in Threads : at[t] \in {"new", "idle"}
  BY DEF InitPrograms, InitPool
<1>2. OneInstance
  BY <1>1 DEF OneInstance
<1>3. Waiting = {}
  BY <1>1 DEF Waiting, Threads
<1> QED  BY <1>2, <1>3 DEF TasksHaveWorkers

\* Every variable of every server has its type, in every program (the fdarray of
\* SelectServer, the queue of ThreadPool, the father and its children), and what is in
\* a connection is what its client has sent.
THEOREM ServersTyped == ServersSpec => []ServersTypeOK
<1>1. OnlyPolling /\ PollingTypeOK => ServersTypeOK
  BY DEF ServersTypeOK, OnlyPolling, PollingPrograms, Programs, ForkPrograms
<1>2. OnlyPool /\ TypeOK => ServersTypeOK
  BY DEF ServersTypeOK, OnlyPool, PollingPrograms, Programs, ForkPrograms
<1>3. OnlyFork /\ ForkTypeOK => ServersTypeOK
  BY DEF ServersTypeOK, OnlyFork, PollingPrograms, Programs, ForkPrograms
<1> QED  BY <1>1, <1>2, <1>3, OneRuns, PollingTypes, PoolTypes, ForkTyped, PTL

\* The invariants of the servers, but for their types.
Promises ==
    /\ TablesAgree /\ ReadyWhenVisited
    /\ OneInstance /\ TasksHaveWorkers /\ TasksRunOnce
    /\ EchoesInOrder /\ OneHolder

\* The servers side by side keep what each of them promises alone: a step of one
\* family of programs (select to epoll, serviceIO and the pool, start of the fork
\* servers) is nothing to the others.
THEOREM ServersPromise == ServersSpec => []Promises
<1>1. /\ OnlyPolling /\ TablesAgree /\ ReadyWhenVisited /\ EchoesInOrder => Promises
  <2>1. OnlyPolling => OneInstance /\ TasksHaveWorkers /\ TasksRunOnce /\ OneHolder
    BY RestPool DEF OnlyPolling, TasksRunOnce, InOnePlace, RightAnswers, OneHolder, PollingPrograms, ForkPrograms
  <2> QED  BY <2>1 DEF Promises
<1>2. OnlyPool /\ OneInstance /\ TasksHaveWorkers /\ TasksRunOnce /\ EchoesInOrder => Promises
  <2>1. OnlyPool => TablesAgree /\ ReadyWhenVisited /\ OneHolder
    BY RestTables DEF OnlyPool, OneHolder, PollingPrograms, ForkPrograms, Programs
  <2> QED  BY <2>1 DEF Promises
<1>3. OnlyFork /\ OneHolder => Promises
  <2>1. /\ OnlyFork => TablesAgree /\ ReadyWhenVisited
        /\ OnlyFork => OneInstance /\ TasksHaveWorkers /\ TasksRunOnce /\ EchoesInOrder
    BY RestTables, RestPool
       DEF OnlyFork, PollingPrograms, ForkPrograms, TasksRunOnce, InOnePlace, RightAnswers,
           EchoesInOrder, EchoPrograms
  <2> QED  BY <2>1 DEF Promises
<1> QED  BY <1>1, <1>2, <1>3, OneRuns, TablesStayTrue, NobodyWaitsInHandler, PollingEchoes,
            OnePool, NoTaskForgotten, EachTaskOnce, PoolEchoes, HandlerHoldsAlone, PTL
=============================================================================
