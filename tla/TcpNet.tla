------------------------------- MODULE TcpNet -------------------------------
(***************************************************************************)
(* The kernel's TCP and the clients, as the servers of lesson35 to         *)
(* lesson44 see them (external).  A connection is a record:                *)
(*   in    chunks that arrived and were not read, each at most one recv;   *)
(*   out   chunks the server wrote and the client has not read;            *)
(*   peer  the client: "none" before connect, "open", "gone" after close;  *)
(*   srv   the server: "none" until accept, "open", "closed";              *)
(*   fin   the client has closed: after in comes the end of file;          *)
(*   dead  a reset has arrived: nothing can be written any more;           *)
(*   err   what the next call on the socket reports, once.                 *)
(* A reset leaves the chunks that had arrived readable, is reported once,  *)
(* and after that recv returns 0 and write raises SIGPIPE.                 *)
(***************************************************************************)
EXTENDS Naturals, Sequences

CONSTANTS
    Clients,
    MaxSent,     \* bound: the number of chunks each client sends
    Resetting,   \* clients that may reset their connection
    SndCap       \* chunks that fit between the server and a client

ASSUME TcpAssumption == MaxSent \in [Clients -> Nat]

VARIABLES
    prog,        \* which of the programs runs
    backlog,     \* connections that wait for accept
    sock,        \* the connections
    sent, got    \* clients: the number of chunks sent, and the chunks read

net == <<backlog, sock, sent, got>>

InitNet ==
    /\ backlog = <<>>
    /\ sock = [c \in Clients |->
                 [in |-> <<>>, out |-> <<>>, peer |-> "none", srv |-> "none",
                  fin |-> FALSE, dead |-> FALSE, err |-> "none"]]
    /\ sent = [c \in Clients |-> 0] /\ got = [c \in Clients |-> <<>>]

-----------------------------------------------------------------------------
(* The server's calls.                                                     *)

AfterAccept(k) == [k EXCEPT !.srv = "open"]

\* recv would return without waiting.
Readable(k) == k.in # <<>> \/ k.fin \/ k.dead

\* What recv finds: a chunk, the end of the stream, or a pending error.
RecvResult(k) ==
    IF k.in # <<>> THEN "data"
    ELSE IF k.fin \/ k.err = "none" THEN "eof" ELSE "error"

AfterRecv(k) ==
    CASE RecvResult(k) = "data"  -> [k EXCEPT !.in = Tail(@)]
      [] RecvResult(k) = "error" -> [k EXCEPT !.err = "none"]
      [] RecvResult(k) = "eof"   -> k

\* A blocking write waits for room as long as the client is there.
Writable(k) == Len(k.out) < SndCap \/ k.peer = "gone" \/ k.dead

\* The peer is known to be gone and its error was reported, or is EPIPE.
RaisesSigpipe(k) == k.dead /\ k.err # "ECONNRESET"

\* The first write to a client that has closed is answered with a reset.
AfterWrite(k, chunk) ==
    CASE k.dead -> [k EXCEPT !.err = "none"]
      [] ~k.dead /\ k.peer = "gone" ->
           [k EXCEPT !.dead = TRUE, !.err = "EPIPE"]
      [] OTHER -> [k EXCEPT !.out = Append(@, chunk)]

\* close with unread input resets the connection: what was not read is lost.
AfterClose(k) ==
    [k EXCEPT !.srv = "closed", !.in = <<>>, !.err = "none",
              !.out = IF k.in = <<>> THEN @ ELSE <<>>]

\* A signal ends the process: the kernel closes all that was connected.
AfterKill(conns) ==
    [c \in Clients |-> IF conns[c].peer = "none" THEN conns[c]
                       ELSE AfterClose(conns[c])]

-----------------------------------------------------------------------------
(* The clients.                                                            *)

Connect(c) ==
    /\ sock[c].peer = "none"
    /\ sock' = [sock EXCEPT ![c].peer = "open"]
    /\ backlog' = Append(backlog, c)
    /\ UNCHANGED <<sent, got>>

\* What is sent to a server that has closed is answered with a reset.
AfterSend(k, chunk) ==
    IF k.srv = "closed" THEN [k EXCEPT !.out = <<>>, !.dead = TRUE]
    ELSE [k EXCEPT !.in = Append(@, chunk)]

ClientSend(c) ==
    /\ sock[c].peer = "open" /\ ~sock[c].dead /\ sent[c] < MaxSent[c]
    /\ sent' = [sent EXCEPT ![c] = @ + 1]
    /\ sock' = [sock EXCEPT ![c] = AfterSend(@, sent'[c])]
    /\ UNCHANGED <<backlog, got>>

ClientRecv(c) ==
    /\ sock[c].peer = "open" /\ sock[c].out # <<>>
    /\ got' = [got EXCEPT ![c] = Append(@, Head(sock[c].out))]
    /\ sock' = [sock EXCEPT ![c].out = Tail(@)]
    /\ UNCHANGED <<backlog, sent>>

AfterReset(k) == [k EXCEPT !.peer = "gone", !.out = <<>>, !.dead = TRUE,
                           !.err = "ECONNRESET"]

\* close with unread input resets the connection; otherwise it ends it.
ClientClose(c) ==
    /\ sock[c].peer = "open"
    /\ sock' = [sock EXCEPT ![c] =
                  IF @.out = <<>> THEN [@ EXCEPT !.peer = "gone", !.fin = TRUE]
                  ELSE AfterReset(@)]
    /\ UNCHANGED <<backlog, sent, got>>

ClientReset(c) ==
    /\ c \in Resetting /\ sock[c].peer = "open"
    /\ sock' = [sock EXCEPT ![c] = AfterReset(@)]
    /\ UNCHANGED <<backlog, sent, got>>

Client(c) == Connect(c) \/ ClientSend(c) \/ ClientRecv(c) \/ ClientClose(c)
               \/ ClientReset(c)

\* The connections, with chunks from D.
Conns(D) == [in : Seq(D), out : Seq(D), peer : {"none", "open", "gone"},
             srv : {"none", "open", "closed"}, fin : BOOLEAN, dead : BOOLEAN,
             err : {"none", "ECONNRESET", "EPIPE"}]

NetTypeOK ==
    /\ backlog \in Seq(Clients)
    /\ \A c \in Clients :
         /\ sock[c] \in Conns(1 .. MaxSent[c])
         /\ got[c] \in Seq(1 .. MaxSent[c]) /\ sent[c] \in 0 .. MaxSent[c]

\* The programs that send back what they are sent.
EchoPrograms == {"select42", "select", "poll", "epoll", "lesson35", "lesson36"}

\* What a client sends comes back in order and once, as far as it comes back:
\* whoever serves it, and whoever resets, comes or leaves meanwhile.
EchoesInOrder ==
    prog \in EchoPrograms =>
        \A c \in Clients : LET all == got[c] \o sock[c].out
                           IN  all = [k \in 1 .. Len(all) |-> k]
=============================================================================
