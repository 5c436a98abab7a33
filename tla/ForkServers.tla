----------------------------- MODULE ForkServers -----------------------------
(***************************************************************************)
(* The servers that fork twice for each connection:                        *)
(*   "lesson37"  calServer, one answer per request until the client leaves;*)
(*   "lesson38"  the first HTTP server;                                    *)
(*   "lesson39"  the HTTP server with Content-Length and a 404 page;       *)
(*   "lesson40"  the same with a handler that reads and says nothing.      *)
(* The child exits at once, so that the father's waitpid does not wait for *)
(* the handler, which runs in the grandchild.  A descriptor is shared by   *)
(* fork, and the connection ends when nobody holds it any more.            *)
(***************************************************************************)
EXTENDS TcpNet, FiniteSets

CONSTANTS
    Visitors,    \* bound: the clients that connect to a server that forks
    Url,         \* the url of each client's request
    LineIn,      \* which chunk of the request its first line ends in
    Suffixes,    \* for each file of ./wwwroot, its suffix
    Stuck,       \* clients whose handler may take for ever
    MaxForkFails \* bound on failing calls of fork

\* The page that stands for those that do not exist is there.
ASSUME ForkAssumption == "404.html" \in DOMAIN Suffixes /\ MaxForkFails \in Nat

VARIABLES
    father,      \* the father's next call, and for which client
    child,       \* the child of each connection
    grand,       \* its grandchild, or the process that handles it
    holders,     \* kernel: who holds the descriptor of a connection
    reply,       \* HTTP: what the handler sends
    forkfails    \* history: the calls of fork that have failed

procs == <<father, child, grand, holders, reply, forkfails>>
forkVars == <<prog, net, procs>>

ForkPrograms == {"lesson37", "lesson38", "lesson39", "lesson40"}
NoReply == [file |-> "none", type |-> "none"]

InitProcs ==
    /\ father = [call |-> "accept", conn |-> "none"]
    /\ child = [c \in Clients |-> "none"]
    /\ grand = [c \in Clients |-> "none"]
    /\ holders = [c \in Clients |-> {}]
    /\ reply = [c \in Clients |-> NoReply]
    /\ forkfails = 0

ForkInit == prog \in ForkPrograms /\ InitProcs /\ InitNet

-----------------------------------------------------------------------------
(* The kernel: fork copies the descriptors of a process, exit closes them. *)

Copied(h, p, q) == [d \in Clients |-> IF p \in h[d] THEN h[d] \cup {q} ELSE h[d]]
Dropped(h, p) == [d \in Clients |-> h[d] \ {p}]

\* A connection ends with its last holder.
Released(h) ==
    [d \in Clients |-> IF holders[d] # {} /\ h[d] = {} THEN AfterClose(sock[d])
                       ELSE sock[d]]

Drop(h) == holders' = h /\ sock' = Released(h)

Proc(kind, c) == <<kind, c>>
Father == Proc("father", "none")

-----------------------------------------------------------------------------
(* start: the father.                                                      *)

AcceptConn ==
    /\ father.call = "accept" /\ backlog # <<>>
    /\ LET c == Head(backlog)
       IN  /\ father' = [call |-> "fork", conn |-> c]
           /\ sock' = [sock EXCEPT ![c] = AfterAccept(@)]
           /\ holders' = [holders EXCEPT ![c] = {Father}]
    /\ backlog' = Tail(backlog)
    /\ UNCHANGED <<prog, sent, got, child, grand, reply, forkfails>>

Fork ==
    /\ father.call = "fork"
    /\ child' = [child EXCEPT ![father.conn] = "close"]
    /\ holders' = Copied(holders, Father, Proc("child", father.conn))
    /\ father' = [father EXCEPT !.call = "close"]
    /\ UNCHANGED <<prog, net, grand, reply, forkfails>>

\* Nothing tests for -1: the connection is closed, and waitpid(-1) has no
\* child to wait for.
ForkFails ==
    /\ father.call = "fork" /\ forkfails < MaxForkFails
    /\ forkfails' = forkfails + 1
    /\ father' = [father EXCEPT !.call = "close"]
    /\ UNCHANGED <<prog, net, child, grand, holders, reply>>

\* Mutant: the father keeps its copy of the descriptor.
FatherKeeps ==
    /\ father.call = "close"
    /\ father' = [father EXCEPT !.call = "waitpid"]
    /\ UNCHANGED <<prog, net, child, grand, holders, reply, forkfails>>

FatherClose ==
    /\ father.call = "close"
    /\ Drop([holders EXCEPT ![father.conn] = @ \ {Father}])
    /\ father' = [father EXCEPT !.call = "waitpid"]
    /\ UNCHANGED <<prog, backlog, sent, got, child, grand, reply, forkfails>>

\* waitpid(id): for the child of this connection, if there is one.
Waitpid ==
    /\ father.call = "waitpid" /\ child[father.conn] \in {"none", "zombie"}
    /\ child' = [child EXCEPT ![father.conn] =
                   IF @ = "zombie" THEN "reaped" ELSE @]
    /\ father' = [call |-> "accept", conn |-> "none"]
    /\ UNCHANGED <<prog, net, grand, holders, reply, forkfails>>

start == AcceptConn \/ Fork \/ ForkFails \/ FatherClose \/ Waitpid

-----------------------------------------------------------------------------
(* The child closes the listening socket and forks; the parent of the two  *)
(* exits.  If fork fails, it goes on as the handler itself.                *)

\* Mutant: the child handles the connection itself.
ChildHandles(c) ==
    /\ child[c] = "close"
    /\ child' = [child EXCEPT ![c] = "handler"]
    /\ grand' = [grand EXCEPT ![c] = "recv"]
    /\ holders' = Copied(holders, Proc("child", c), Proc("grand", c))
    /\ UNCHANGED <<prog, net, father, reply, forkfails>>

ChildForks(c) ==
    /\ child[c] = "close"
    /\ child' = [child EXCEPT ![c] = "exit"]
    /\ grand' = [grand EXCEPT ![c] = "recv"]
    /\ holders' = Copied(holders, Proc("child", c), Proc("grand", c))
    /\ UNCHANGED <<prog, net, father, reply, forkfails>>

ChildForkFails(c) ==
    /\ child[c] = "close" /\ forkfails < MaxForkFails
    /\ forkfails' = forkfails + 1
    /\ child' = [child EXCEPT ![c] = "handler"]
    /\ grand' = [grand EXCEPT ![c] = "recv"]
    /\ holders' = Copied(holders, Proc("child", c), Proc("grand", c))
    /\ UNCHANGED <<prog, net, father, reply>>

ChildExits(c) ==
    /\ \/ child[c] = "exit"
       \/ child[c] = "handler" /\ grand[c] = "gone"
    /\ child' = [child EXCEPT ![c] = "zombie"]
    /\ Drop(Dropped(holders, Proc("child", c)))
    /\ UNCHANGED <<prog, backlog, sent, got, father, grand, reply, forkfails>>

-----------------------------------------------------------------------------
(* HTTP: parase and Get.                                                   *)

\* The path under ./wwwroot; "/" stands for index.html.
Path(url) == IF url = "/" THEN "index.html" ELSE url

Exists(path) == path \in DOMAIN Suffixes

\* suffixToDesc; rfind finds the dot of "./wwwroot" when the name has none,
\* and no type is named then.
ContentType(path) ==
    LET suffix == Suffixes[path]
    IN  CASE suffix = ".html" -> "text/html"
          [] suffix = ".js"   -> "application/x-javascripe"
          [] suffix = ".jpg"  -> "image/jpeg"
          [] OTHER            -> ""

\* lesson38 knows two other types and takes everything else for a page.
ContentType38(path) ==
    CASE Suffixes[path] = ".css" -> "text/css"
      [] Suffixes[path] = ".js"  -> "application/javascript"
      [] OTHER                   -> "text/html"

\* parase returns at once when the first line is not complete, and with no
\* path readFile and fopen fail.
parase(c) == IF LineIn[c] = 1 THEN Path(Url[c]) ELSE "none"

Get38(path) == IF Exists(path) THEN [file |-> path, type |-> ContentType38(path)]
               ELSE NoReply

\* A path that does not exist becomes the page 404.html, with status 200.
Get39(path) ==
    CASE path = "none" -> NoReply
      [] Exists(path)  -> [file |-> path, type |-> ContentType(path)]
      [] OTHER         -> [file |-> "404.html", type |-> "text/html"]

Response(c) == CASE prog = "lesson38" -> Get38(parase(c))
                 [] prog = "lesson39" -> Get39(parase(c))
                 [] OTHER             -> NoReply

-----------------------------------------------------------------------------
(* The handler of one connection.                                          *)

Handles(c, p) == grand[c] = p /\ Readable(sock[c])

\* One recv: what came is the request, and the rest stays unread.
Recv(c) ==
    /\ Handles(c, "recv") /\ RecvResult(sock[c]) = "data"
    /\ sock' = [sock EXCEPT ![c] = AfterRecv(@)]
    /\ reply' = [reply EXCEPT ![c] = Response(c)]
    /\ grand' = [grand EXCEPT ![c] =
                   IF prog = "lesson37" \/ reply'[c] # NoReply THEN "send"
                   ELSE "close"]
    /\ UNCHANGED <<prog, backlog, sent, got, father, child, holders, forkfails>>

RecvFails(c) ==
    /\ Handles(c, "recv") /\ RecvResult(sock[c]) # "data"
    /\ sock' = [sock EXCEPT ![c] = AfterRecv(@)]
    /\ grand' = [grand EXCEPT ![c] = "close"]
    /\ UNCHANGED <<prog, backlog, sent, got, father, child, holders, reply,
                   forkfails>>

\* SIGPIPE ends this process only.  calServer goes on with the next request.
Send(c) ==
    /\ grand[c] = "send" /\ Writable(sock[c])
    /\ sock' = [sock EXCEPT ![c] = AfterWrite(@, 1)]
    /\ grand' = [grand EXCEPT ![c] =
                   IF prog = "lesson37" /\ ~RaisesSigpipe(sock[c]) THEN "recv"
                   ELSE "close"]
    /\ UNCHANGED <<prog, backlog, sent, got, father, child, holders, reply,
                   forkfails>>

\* close(sock) and exit(0); init reaps the orphan.
HandlerExits(c) ==
    /\ grand[c] = "close"
    /\ grand' = [grand EXCEPT ![c] = "gone"]
    /\ Drop(Dropped(holders, Proc("grand", c)))
    /\ UNCHANGED <<prog, backlog, sent, got, father, child, reply, forkfails>>

Child(c) == ChildForks(c) \/ ChildForkFails(c) \/ ChildExits(c)
Handler(c) == Recv(c) \/ RecvFails(c) \/ Send(c) \/ HandlerExits(c)

ForkNext ==
    \/ prog \in ForkPrograms /\ start
    \/ prog \in ForkPrograms /\ \E c \in Clients : Child(c) \/ Handler(c)
    \/ /\ prog \in ForkPrograms
       /\ \E c \in Clients : c \in Visitors /\ Client(c)
       /\ UNCHANGED <<prog, procs>>

\* Every process is scheduled, but the handlers of Stuck may compute for ever.
ForkFairness ==
    /\ WF_forkVars(prog \in ForkPrograms /\ start)
    /\ \A c \in Clients : WF_forkVars(prog \in ForkPrograms /\ Child(c))
    /\ \A c \in Clients \ Stuck : WF_forkVars(prog \in ForkPrograms /\ Handler(c))

ForkSpec == ForkInit /\ [][ForkNext]_forkVars
ForkFairSpec == ForkSpec /\ ForkFairness

-----------------------------------------------------------------------------
(* Properties.                                                             *)

ForkTypeOK ==
    /\ father.call \in {"accept", "fork", "close", "waitpid"}
    /\ father.conn \in Clients \cup {"none"}
    /\ child \in [Clients -> {"none", "close", "exit", "handler", "zombie",
                              "reaped"}]
    /\ grand \in [Clients -> {"none", "recv", "send", "close", "gone"}]
    /\ \A c \in Clients : reply[c].file \in DOMAIN Suffixes \cup {"none"}
    /\ forkfails \in 0 .. MaxForkFails
    /\ NetTypeOK

\* When the father is back in accept, it has no zombie, and a connection is
\* held by its handler and by nobody else: it ends for the client when the
\* handler closes it.
OneHolder ==
    prog \in ForkPrograms /\ father.call = "accept" => \A c \in Clients :
        /\ child[c] \in {"none", "reaped"}
        /\ holders[c] \subseteq {Proc("grand", c)}
        /\ sock[c].srv = "open" <=> holders[c] # {}

\* Nobody waits for somebody else's handler: with fork never failing, each
\* client that sends something is answered, or sees the end, although another
\* handler takes for ever.
Attended(c) ==
    \/ sent[c] = 0 \/ forkfails > 0
    \/ Len(got[c]) + Len(sock[c].out) > 0
    \/ sock[c].srv = "closed" \/ sock[c].peer = "gone"

HandlersIndependent == []<>(\A c \in Clients \ Stuck : Attended(c))
=============================================================================
