----------------------------- MODULE CalProtocol -----------------------------
(***************************************************************************)
(* The calculator's protocol byte by byte, from the expression typed at    *)
(* lesson37's calClient to the answer it prints: Request and Response      *)
(* (their MYSELF format), the length header, recvPackage of lesson37 and   *)
(* ParseOneText of lesson45, over a TCP stream that delivers any number of *)
(* bytes at a time.  The server is either lesson37's calServer (one        *)
(* process per connection runs handlerEntry) or lesson45's Reactor, of     *)
(* which Reactor.tla models the rest.  Characters are their ASCII codes.   *)
(***************************************************************************)
EXTENDS Integers, Sequences, SequencesExt

CONSTANTS
    Sessions,    \* the sequences of requests a client may make
    Servers,     \* a subset of {"calServer", "Reactor"}
    Pipelining   \* the servers whose clients do not wait for an answer

-----------------------------------------------------------------------------
(* std::string, std::to_string, std::stoi.                                 *)

NUL      == 0
SEP      == <<32>>
LINE_SEP == <<13, 10>>
Minus    == 45

\* buffer[n] = 0; inbuffer += buffer: a C string ends in front of its first NUL.
CString(buffer) ==
    SubSeq(buffer, 1, Max({k \in 0..Len(buffer) : \A i \in 1..k : buffer[i] # NUL}))

IsDigit(b) == b \in 48..57

Occurrences(s, part) ==
    {i \in 1..(Len(s) - Len(part) + 1) : SubSeq(s, i, i + Len(part) - 1) = part}

Decimal[n \in Nat] ==
    IF n < 10 THEN <<48 + n>> ELSE Append(Decimal[n \div 10], 48 + (n % 10))

to_string(n) == IF n < 0 THEN <<Minus>> \o Decimal[-n] ELSE Decimal[n]

\* The digits s starts with; stoi stops at the first character that is none.
LeadingDigits(s) ==
    SubSeq(s, 1, Max({k \in 0..Len(s) : \A i \in 1..k : IsDigit(s[i])}))

Value(digits) ==
    LET value[k \in 0..Len(digits)] ==
            IF k = 0 THEN 0 ELSE 10 * value[k - 1] + (digits[k] - 48)
    IN  value[Len(digits)]

\* Mutant: the sign is not read.
stoiUnsigned(s) == Value(LeadingDigits(s))

stoi(s) ==
    IF s # <<>> /\ s[1] = Minus THEN -Value(LeadingDigits(Tail(s)))
    ELSE Value(LeadingDigits(s))

-----------------------------------------------------------------------------
(* protocol.hpp: the header, then Request and Response.                    *)

enLength(content) == to_string(Len(content)) \o LINE_SEP \o content \o LINE_SEP

deLength(package) ==
    LET pos == Min(Occurrences(package, LINE_SEP))
        first == pos + Len(LINE_SEP)
    IN  SubSeq(package, first, first + stoi(SubSeq(package, 1, pos - 1)) - 1)

\* How long the first package of inbuffer is, by its header; 0 before the
\* whole header is there.
TotalLen(inbuffer) ==
    LET ends == Occurrences(inbuffer, LINE_SEP) IN
      IF ends = {} THEN 0
      ELSE LET header == SubSeq(inbuffer, 1, Min(ends) - 1)
           IN  Len(header) + 2 * Len(LINE_SEP) + stoi(header)

\* Mutant: >= for > in the comparison of total_len with the size.
HasMore(inbuffer) == TotalLen(inbuffer) \in 1..(Len(inbuffer) - 1)

\* Whether ParseOneText, or recvPackage, finds a package in inbuffer.
HasPackage(inbuffer) == TotalLen(inbuffer) \in 1..Len(inbuffer)

Package(inbuffer) == SubSeq(inbuffer, 1, TotalLen(inbuffer))
Rest(inbuffer)    == SubSeq(inbuffer, TotalLen(inbuffer) + 1, Len(inbuffer))

SerializeRequest(req) ==
    to_string(req.x) \o SEP \o <<req.op>> \o SEP \o to_string(req.y)

\* What deserialize refuses, and what it reads from the rest.
Refused(in) ==
    LET seps == Occurrences(in, SEP) IN
      \/ seps = {}
      \/ Max(seps) - Min(seps) # 2
      \/ Min(seps) = 1 \/ Max(seps) = Len(in)

DeserializeRequest(in) ==
    LET seps == Occurrences(in, SEP) IN
      [x  |-> stoi(SubSeq(in, 1, Min(seps) - 1)),
       op |-> in[Min(seps) + 1],
       y  |-> stoi(SubSeq(in, Max(seps) + 1, Len(in)))]

SerializeResponse(resp) == to_string(resp.exitcode) \o SEP \o to_string(resp.result)

\* Mutant: the two fields are swapped.
DeserializeSwapped(in) ==
    LET mid == Min(Occurrences(in, SEP)) IN
      [result   |-> stoi(SubSeq(in, 1, mid - 1)),
       exitcode |-> stoi(SubSeq(in, mid + 1, Len(in)))]

DeserializeResponse(in) ==
    LET mid == Min(Occurrences(in, SEP)) IN
      [exitcode |-> stoi(SubSeq(in, 1, mid - 1)),
       result   |-> stoi(SubSeq(in, mid + 1, Len(in)))]

-----------------------------------------------------------------------------
(* The business logic, and the client's reading of the line typed.         *)

OK       == 0
DIV_ZERO == 1
MOD_ZERO == 2
OP_ERR   == 3

Abs(n) == IF n < 0 THEN -n ELSE n

\* C++ division rounds towards zero.
Quotient(x, y) == IF (x < 0) = (y < 0) THEN Abs(x) \div Abs(y) ELSE -(Abs(x) \div Abs(y))

Calculator(req) ==
    LET Result(r) == [exitcode |-> OK, result |-> r]
        Error(e)  == [exitcode |-> e, result |-> 0]
    IN  CASE req.op = 43 -> Result(req.x + req.y)
          [] req.op = 45 -> Result(req.x - req.y)
          [] req.op = 42 -> Result(req.x * req.y)
          [] req.op = 47 -> IF req.y = 0 THEN Error(DIV_ZERO)
                            ELSE Result(Quotient(req.x, req.y))
          [] req.op = 37 -> IF req.y = 0 THEN Error(MOD_ZERO)
                            ELSE Result(req.x - req.y * Quotient(req.x, req.y))
          [] OTHER -> Error(OP_ERR)

\* What may be typed: digits, one other character and a number, of which and of
\* whose result int has room (beyond it the operators overflow, and stoi throws).
\* A NUL is no operator: CString would lose it and what came with it.
MaxInt == 2147483647
Ints   == (-MaxInt - 1)..MaxInt

Requests ==
    {r \in [x : 0..MaxInt, op : (1..127) \ ({10} \cup 48..57), y : Ints] :
        Calculator(r).result \in Ints}

ASSUME CalProtocolAssumption ==
    /\ Servers \subseteq {"calServer", "Reactor"} /\ Pipelining \subseteq Servers
    /\ Sessions \subseteq Seq(Requests)

\* The digits before the first other character, that character, the rest.
ParaseLine(line) ==
    LET left == LeadingDigits(line) IN
      [x  |-> stoi(left),
       op |-> line[Len(left) + 1],
       y  |-> stoi(SubSeq(line, Len(left) + 2, Len(line)))]

\* What is typed for a request; x is not negative.
Line(req) == to_string(req.x) \o <<req.op>> \o to_string(req.y)

-----------------------------------------------------------------------------
VARIABLES
    server,    \* the program the client is connected to
    session,   \* the requests of this client
    nsent,     \* how many of them it has sent
    up, down,  \* the bytes on their way to the server and to the client
    sbuf,      \* inbuffer of handlerEntry, Connection::inbuffer_
    spc,       \* the server thread: in "recv", in "parse", or "closed"
    cbuf,      \* inbuffer of calClient::start
    cpc,       \* the client: at "input", in "recv" or in "parse"
    answers    \* what the client has printed

vars == <<server, session, nsent, up, down, sbuf, spc, cbuf, cpc, answers>>

Init ==
    /\ server \in Servers
    /\ session \in Sessions
    /\ nsent = 0
    /\ up = <<>> /\ down = <<>>
    /\ sbuf = <<>> /\ spc = "recv"
    /\ cbuf = <<>> /\ cpc = "input"
    /\ answers = <<>>

ClientSend ==
    /\ cpc = "input" \/ (cpc = "recv" /\ server \in Pipelining)
    /\ nsent < Len(session)
    /\ up' = up \o enLength(SerializeRequest(ParaseLine(Line(session[nsent + 1]))))
    /\ nsent' = nsent + 1
    /\ cpc' = "recv"
    /\ UNCHANGED <<server, session, down, sbuf, spc, cbuf, answers>>

\* recv returns any number of the bytes that have arrived, which are appended
\* to inbuffer as a C string.
ServerRecv ==
    /\ spc = "recv"
    /\ \E n \in 1..Len(up) :
         /\ sbuf' = sbuf \o CString(SubSeq(up, 1, n))
         /\ up' = SubSeq(up, n + 1, Len(up))
    /\ spc' = "parse"
    /\ UNCHANGED <<server, session, nsent, down, cbuf, cpc, answers>>

\* Mutant: Service handles one package per recv.
ServerHandleOne ==
    /\ spc = "parse" /\ HasPackage(sbuf)
    /\ \E in \in {deLength(Package(sbuf))} :
          down' = down \o enLength(SerializeResponse(Calculator(DeserializeRequest(in))))
    /\ spc' = "recv"
    /\ sbuf' = Rest(sbuf)
    /\ UNCHANGED <<server, session, nsent, up, cbuf, cpc, answers>>

\* recvPackage calls recv before it looks at the buffer, so handlerEntry goes
\* back to recv after every package; Service parses until there is none.
ServerHandle ==
    /\ spc = "parse" /\ HasPackage(sbuf)
    /\ \E in \in {deLength(Package(sbuf))} :
         IF Refused(in)
         THEN /\ spc' = IF server = "Reactor" THEN "recv" ELSE "closed"
              /\ UNCHANGED down
         ELSE /\ spc' = IF server = "Reactor" THEN "parse" ELSE "recv"
              /\ down' = down \o
                    enLength(SerializeResponse(Calculator(DeserializeRequest(in))))
    /\ sbuf' = Rest(sbuf)
    /\ UNCHANGED <<server, session, nsent, up, cbuf, cpc, answers>>

ServerWaits ==
    /\ spc = "parse" /\ ~HasPackage(sbuf)
    /\ spc' = "recv"
    /\ UNCHANGED <<server, session, nsent, up, down, sbuf, cbuf, cpc, answers>>

ClientRecv ==
    /\ cpc = "recv"
    /\ \E n \in 1..Len(down) :
         /\ cbuf' = cbuf \o CString(SubSeq(down, 1, n))
         /\ down' = SubSeq(down, n + 1, Len(down))
    /\ cpc' = "parse"
    /\ UNCHANGED <<server, session, nsent, up, sbuf, spc, answers>>

\* A client that does not wait reads as many answers as have arrived.
ClientTake ==
    /\ cpc = "parse" /\ HasPackage(cbuf)
    /\ answers' = Append(answers, DeserializeResponse(deLength(Package(cbuf))))
    /\ cbuf' = Rest(cbuf)
    /\ cpc' = IF server \in Pipelining THEN "parse" ELSE "input"
    /\ UNCHANGED <<server, session, nsent, up, down, sbuf, spc>>

ClientWaits ==
    /\ cpc = "parse" /\ ~HasPackage(cbuf)
    /\ cpc' = "recv"
    /\ UNCHANGED <<server, session, nsent, up, down, sbuf, spc, cbuf, answers>>

Server == ServerRecv \/ ServerHandle \/ ServerWaits
Client == ClientSend \/ ClientRecv \/ ClientTake \/ ClientWaits

Next == Server \/ Client

Spec == Init /\ [][Next]_vars

-----------------------------------------------------------------------------
(* Properties.                                                             *)

\* No NUL is ever on the wire.
Bytes == 1..127

\* Every variable keeps its type.
TypeOK ==
    /\ server \in Servers /\ session \in Sessions
    /\ nsent \in 0..Len(session)
    /\ \A s \in {up, down, sbuf, cbuf} : s \in Seq(Bytes)
    /\ spc \in {"recv", "parse", "closed"}
    /\ cpc \in {"input", "recv", "parse"}
    /\ answers \in Seq([exitcode : OK..OP_ERR, result : Int])

\* What the client prints is the calculator's answer to what was typed, in
\* order, wherever TCP cuts the stream: inside a header, between the CR and
\* the LF, across two packages (protocol.hpp:23-44, 54-118, 137-185, 198-231).
AnswersAreExact ==
    \A i \in 1..Len(answers) : i <= nsent /\ answers[i] = Calculator(session[i])

\* "Read neither too much nor too little" (calServer.hpp:43-44, Main.cc:58-59):
\* a server that waits for more bytes has no complete request in its buffer.
NothingHeldBack == spc = "recv" => ~HasPackage(sbuf)

\* Client and server do not wait for each other: when both are in recv and no
\* byte is on its way, every request sent has been answered
\* (calServer.hpp:41-73, calClient.hpp:60-88).
NotBothWaiting ==
    spc = "recv" /\ cpc = "recv" /\ up = <<>> /\ down = <<>> => Len(answers) = nsent
=============================================================================
