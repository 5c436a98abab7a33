---------------------------- MODULE NamedObjects ----------------------------
(***************************************************************************)
(* Servers and clients that meet at a name, and may be killed anywhere.    *)
(*   "fifo"  lesson19/named_pipe: the name is a FIFO;                      *)
(*   "shm"   lesson20: the name is the key of a segment of memory.         *)
(* An object keeps its number when its name goes, and the name may come    *)
(* back with another object behind it.  Every process runs once.           *)
(***************************************************************************)
EXTENDS OneProgram

CONSTANTS
    Servers, Clients,
    MaxLines,    \* bound: the lines typed at each FIFO client; at least 1
    LineLength   \* the characters of a line, without its newline

ASSUME NamedAssumption ==
    /\ Servers \cap Clients = {}
    /\ MaxLines \in Nat \ {0} /\ LineLength \in Nat

VARIABLES
    stage,       \* where each process is
    name,        \* the object behind the name; 0 when there is none
    maker,       \* who made each object: a sequence, by number
    node,        \* the object each process has opened; 0 for none
    privileged,  \* the clients of lesson20 run as root
    stdin,       \* the lines each client has read
    lastRead,    \* what fgets has left in each client's buffer
    inFifo,      \* the bytes in each FIFO, by the lines they belong to
    entered, shown \* history: what went into each FIFO and what was printed

named == <<stage, name, maker, node, privileged, stdin, lastRead, inFifo,
           entered, shown>>
namedVars == <<prog, named>>

NamedPrograms == {"fifo", "shm"}
Procs == Servers \cup Clients
Stages == {"start", "created", "opening", "open", "ended", "closed", "attach",
           "failed", "killed", "done"}
Texts == [line : 0 .. MaxLines, length : 0 .. LineLength]

InitNamed ==
    /\ stage = [p \in Procs |-> "start"]
    /\ name = 0 /\ maker = <<>> /\ node = [p \in Procs |-> 0]
    /\ privileged \in IF prog = "shm" THEN BOOLEAN ELSE {FALSE}
    /\ stdin = [c \in Clients |-> 0]
    /\ lastRead = [c \in Clients |-> [line |-> 0, length |-> 0]]
    /\ inFifo = <<>> /\ entered = <<>> /\ shown = <<>>

NamedInit == prog \in NamedPrograms /\ InitNamed

GoTo(p, to) == stage' = [stage EXCEPT ![p] = to]
Opens(p) == node' = [node EXCEPT ![p] = name]

\* A new object behind the name.
Make(p) ==
    /\ name' = Len(maker) + 1 /\ maker' = Append(maker, p)
    /\ inFifo' = Append(inFifo, <<>>)
    /\ entered' = Append(entered, <<>>) /\ shown' = Append(shown, <<>>)

NothingMade == UNCHANGED <<name, maker, inFifo, entered, shown>>

\* Mutant: a server takes the object that is there for its own.
MakeShared(s, to) ==
    IF name = 0 THEN Make(s) /\ GoTo(s, to)
    ELSE NothingMade /\ GoTo(s, to)

\* Exclusive creation: mkfifo, and shmget with IPC_EXCL.
MakeExclusive(s, to) ==
    IF name = 0 THEN Make(s) /\ GoTo(s, to)
    ELSE NothingMade /\ GoTo(s, "failed")

\* SIGINT: the process closes what it had open, and the name stays.
Kill(p) ==
    /\ stage[p] \notin {"start", "failed", "killed", "done"}
    /\ GoTo(p, "killed")
    /\ UNCHANGED <<node, privileged, stdin, lastRead>> /\ NothingMade

-----------------------------------------------------------------------------
(* lesson19/named_pipe                                                     *)

\* A process in open(2) counts for the other side of the FIFO; a server whose
\* loop has ended still has its end open.
HasOpen(p, n) == node[p] = n /\ stage[p] \in {"opening", "open", "ended"}
Readers(n) == {s \in Servers : HasOpen(s, n)}
Writers(n) == {c \in Clients : HasOpen(c, n)}

createFifo(s) ==
    /\ prog = "fifo" /\ stage[s] = "start"
    /\ MakeExclusive(s, "created")
    /\ UNCHANGED <<node, privileged, stdin, lastRead>>

\* open waits for the other side, and then returns on both.  A client that finds
\* a server behind its loop goes on to write to a FIFO that nobody reads.
openFifo(p, others) ==
    /\ prog = "fifo" /\ stage[p] = IF p \in Servers THEN "created" ELSE "start"
    /\ IF name = 0 THEN GoTo(p, "failed") /\ UNCHANGED node
       ELSE /\ Opens(p)
            /\ IF others = {} THEN GoTo(p, "opening")
               ELSE stage' = [x \in Procs |->
                                IF x = p \/ (x \in others /\ stage[x] = "opening")
                                THEN "open" ELSE stage[x]]
    /\ UNCHANGED <<privileged, stdin, lastRead>> /\ NothingMade

\* What the client sends: the line without its newline.  At the end of
\* stdin fgets leaves the lastRead alone, and its last character goes too.
Typed(c) ==
    IF stdin[c] < MaxLines THEN [line |-> stdin[c] + 1, length |-> LineLength]
    ELSE [lastRead[c] EXCEPT !.length = IF @ = 0 THEN 0 ELSE @ - 1]

\* The loop of the client: fgets and write.  Nobody reads: SIGPIPE.
clientSay(c) ==
    /\ prog = "fifo" /\ stage[c] = "open"
    /\ lastRead' = [lastRead EXCEPT ![c] = Typed(c)]
    /\ stdin' = [stdin EXCEPT ![c] = IF @ < MaxLines THEN @ + 1 ELSE @]
    /\ LET n == node[c]  text == Typed(c) IN
          IF text.length = 0 THEN UNCHANGED <<stage, inFifo, entered>>
          ELSE IF Readers(n) = {} THEN GoTo(c, "killed") /\ UNCHANGED <<inFifo, entered>>
          ELSE /\ inFifo' = [inFifo EXCEPT ![n] = Append(@, text)]
               /\ entered' = [entered EXCEPT ![n] = Append(@, text)]
               /\ UNCHANGED stage
    /\ UNCHANGED <<name, maker, node, privileged, shown>>

\* The loop of the server: one read takes all there is; 0 ends the loop.
serverRead(s) ==
    /\ prog = "fifo" /\ stage[s] = "open"
    /\ LET n == node[s] IN
          \/ /\ inFifo[n] # <<>>
             /\ shown' = [shown EXCEPT ![n] = @ \o inFifo[n]]
             /\ inFifo' = [inFifo EXCEPT ![n] = <<>>]
             /\ UNCHANGED stage
          \/ /\ inFifo[n] = <<>> /\ Writers(n) = {}
             /\ GoTo(s, "ended") /\ UNCHANGED <<inFifo, shown>>
    /\ UNCHANGED <<name, maker, node, privileged, stdin, lastRead, entered>>

\* Between the end of the loop and close(rfd) clients still find a reader.
removeFifo(s) ==
    /\ prog = "fifo"
    /\ \/ stage[s] = "ended" /\ GoTo(s, "closed") /\ UNCHANGED name
       \/ stage[s] = "closed" /\ name' = 0 /\ GoTo(s, "done")
    /\ UNCHANGED <<maker, node, privileged, stdin, lastRead, inFifo, entered, shown>>

-----------------------------------------------------------------------------
(* lesson20.  Neither loop ends, and nobody calls delShm.  What is in the  *)
(* segment, which nothing protects, is left out.                           *)

createShm(s) ==
    /\ prog = "shm" /\ stage[s] = "start"
    /\ MakeExclusive(s, "attach")
    /\ UNCHANGED <<node, privileged, stdin, lastRead>>

\* The client asks for IPC_CREAT: it makes a segment when there is none,
\* and gives no permission bits.
getShm(c) ==
    /\ prog = "shm" /\ stage[c] = "start" /\ GoTo(c, "attach")
    /\ IF name = 0 THEN Make(c) ELSE NothingMade
    /\ UNCHANGED <<node, privileged, stdin, lastRead>>

attachShm(p) ==
    /\ prog = "shm" /\ stage[p] = "attach"
    /\ IF maker[name] \in Servers \/ privileged THEN GoTo(p, "open") /\ Opens(p)
       ELSE GoTo(p, "failed") /\ UNCHANGED node
    /\ UNCHANGED <<privileged, stdin, lastRead>> /\ NothingMade

-----------------------------------------------------------------------------
NamedNext ==
    /\ prog \in NamedPrograms /\ UNCHANGED prog
    /\ \/ \E s \in Servers : \/ createFifo(s) \/ openFifo(s, Writers(name))
                             \/ serverRead(s) \/ removeFifo(s) \/ createShm(s)
       \/ \E c \in Clients : \/ openFifo(c, Readers(name)) \/ clientSay(c)
                             \/ getShm(c)
       \/ \E p \in Procs : attachShm(p) \/ Kill(p)

NamedSpec == NamedInit /\ [][NamedNext]_namedVars

-----------------------------------------------------------------------------
(* Properties.                                                             *)

NamedTypeOK ==
    /\ stage \in [Procs -> Stages]
    /\ name \in 0 .. Len(maker) /\ maker \in Seq(Procs)
    /\ node \in [Procs -> 0 .. Len(maker)]
    /\ stdin \in [Clients -> 0 .. MaxLines] /\ lastRead \in [Clients -> Texts]
    /\ inFifo \in Seq(Seq(Texts)) /\ Len(inFifo) = Len(maker)

Serving(s) == stage[s] \notin {"start", "failed", "killed", "done"}

\* However servers and clients are started and killed, one server at a time
\* serves: the object behind the name is its own (createFifo, createShm),
\* and the lines it prints are those its clients wrote to it, in order.
OneServer ==
    /\ \A s \in Servers : Serving(s) =>
          /\ name # 0 /\ maker[name] = s
          /\ node[s] \in {0, name}
    /\ \A n \in 1 .. Len(maker) : shown[n] \o inFifo[n] = entered[n]
=============================================================================
