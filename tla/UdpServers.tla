----------------------------- MODULE UdpServers -----------------------------
(***************************************************************************)
(* The UDP servers: one thread that takes a datagram and calls back.       *)
(*   "lesson33"  prints what arrives;                                      *)
(*   "echo"      lesson35/win_linux_udp: sends it back;                    *)
(*   "dict", "command", "chat"  lesson34 with handlerMessage (the one main *)
(*               takes), execCmd or routeMessage as its callback.          *)
(* Datagrams are lost, duplicated and reordered.  One is a record: who     *)
(* sent it, and which of the lines of that client it holds.                *)
(***************************************************************************)
EXTENDS OneProgram

CONSTANTS
    Peers,
    Lines,       \* the lines each client types; "" is an empty line
    MaxCopies    \* bound: datagrams that the network duplicates

ASSUME UdpAssumption == Lines \in [Peers -> Seq(STRING)] /\ MaxCopies \in Nat

VARIABLES
    said,        \* how many of its lines each client has sent
    flying,      \* the datagrams on their way
    copies,      \* duplications so far
    users,       \* onlineUsers: _users
    up,          \* the server's process runs
    handled,     \* history: the datagrams the server has taken, in order
    told         \* history: for each client, the datagrams it was told about

udp == <<said, flying, copies, users, up, handled, told>>
udpVars == <<prog, udp>>

UdpPrograms == {"lesson33", "echo", "dict", "command", "chat"}
Text(d) == Lines[d.from][d.line]

InitUdp ==
    /\ said = [c \in Peers |-> 0]
    /\ flying = {} /\ copies = 0
    /\ users = {} /\ up = TRUE
    /\ handled = <<>> /\ told = [c \in Peers |-> <<>>]

UdpInit == prog \in UdpPrograms /\ InitUdp

-----------------------------------------------------------------------------
(* The clients and the network.                                            *)

\* Client run: it sends every line it reads and waits for no answer.
run(c) ==
    /\ said[c] < Len(Lines[c])
    /\ said' = [said EXCEPT ![c] = @ + 1]
    /\ flying' = flying \cup {[from |-> c, line |-> said'[c]]}
    /\ UNCHANGED <<copies, users, up, handled, told>>

Lose(d) ==
    /\ flying' = flying \ {d}
    /\ UNCHANGED <<said, copies, users, up, handled, told>>

\* The network keeps a copy of d and delivers it again later.
Arrives(d) ==
    \/ flying' = flying \ {d} /\ UNCHANGED copies
    \/ copies < MaxCopies /\ copies' = copies + 1 /\ UNCHANGED flying

-----------------------------------------------------------------------------
(* The callbacks.  SendToOne(cs) is the sendto of a callback, to each of   *)
(* the clients of cs, about the datagram it was called with.               *)

SendToOne(cs) ==
    told' = [c \in Peers |-> IF c \in cs THEN Append(told[c], Len(handled'))
                             ELSE told[c]]

\* main leaves loaddict out, so that dict is empty and the answer "unkown".
handlerMessage(c) == SendToOne({c}) /\ UNCHANGED <<users, up>>

\* A command prints something, or it prints nothing and resize(-1) throws,
\* or popen fails and pclose(NULL) is called: the last two end the server.
execCmd(c) ==
    /\ \/ SendToOne({c}) /\ up' = TRUE
       \/ SendToOne({}) /\ up' = FALSE
    /\ UNCHANGED users

\* Mutant: an "offline" does not take the user off the table.
DelUserForgotten(c) == users

AddUser(c) == users \cup {c}
DelUser(c) == users \ {c}

is_online(c, us) == c \in us
Broadcast(us) == SendToOne(us)

\* Whoever is not online, or has just gone, is told so.
routeMessage(c, message) ==
    /\ users' = CASE message = "online"  -> AddUser(c)
                  [] message = "offline" -> DelUser(c)
                  [] OTHER               -> users
    /\ IF is_online(c, users') THEN Broadcast(users') ELSE SendToOne({c})
    /\ UNCHANGED up

\* lesson33 prints a datagram that is not empty.
PrintMessage(d) ==
    /\ handled' = IF Text(d) # "" THEN Append(handled, d) ELSE handled
    /\ UNCHANGED <<users, up, told>>

\* lesson35 answers with what it got.
Echo(d) == SendToOne({d.from}) /\ UNCHANGED <<users, up>>

Callback(d) ==
    /\ handled' = Append(handled, d)
    /\ \/ prog = "echo" /\ Echo(d)
       \/ prog = "dict" /\ handlerMessage(d.from)
       \/ prog = "command" /\ execCmd(d.from)
       \/ prog = "chat" /\ routeMessage(d.from, Text(d))

\* One turn of the loop: recvfrom, and the callback before the next one.
start(d) ==
    /\ up /\ Arrives(d)
    /\ IF prog = "lesson33" THEN PrintMessage(d) ELSE Callback(d)
    /\ UNCHANGED said

UdpNext ==
    /\ prog \in UdpPrograms /\ UNCHANGED prog
    /\ \/ \E c \in Peers : run(c)
       \/ \E d \in flying : Lose(d) \/ start(d)

UdpSpec == UdpInit /\ [][UdpNext]_udpVars

-----------------------------------------------------------------------------
(* Properties.                                                             *)

UdpTypeOK ==
    /\ said \in [Peers -> Nat] /\ \A c \in Peers : said[c] <= Len(Lines[c])
    /\ \A d \in flying : d.from \in Peers /\ d.line \in 1 .. said[d.from]
    /\ copies \in 0 .. MaxCopies
    /\ users \subseteq Peers /\ up \in BOOLEAN
    /\ \A i \in 1 .. Len(handled) : handled[i].line \in 1 .. said[handled[i].from]
    /\ told \in [Peers -> Seq(Nat)]

Says(c, i, text) == handled[i].from = c /\ Text(handled[i]) = text

\* c is online for the k-th datagram: it said so, and not "offline" since.
OnlineAt(c, k) ==
    \E i \in 1 .. k : /\ Says(c, i, "online")
                      /\ \A j \in i .. k : ~Says(c, j, "offline")

\* Those who are to hear of the k-th datagram.
Hears(c, k) ==
    CASE prog = "lesson33" -> FALSE
      [] prog = "chat" -> \/ c = handled[k].from
                          \/ OnlineAt(c, k) /\ OnlineAt(handled[k].from, k)
      [] OTHER -> c = handled[k].from /\ (up \/ k < Len(handled))

\* Whatever order "online", "offline" and the rest come in, lost or twice,
\* a client hears, once and in the server's order, of exactly the datagrams
\* it should: its own, and in the chat (routeMessage) those that anybody who
\* was online said while it was online itself.
ToldExactly ==
    \A c \in Peers :
        InOrder(told[c], {k \in 1 .. Len(handled) : Hears(c, k)})
=============================================================================
