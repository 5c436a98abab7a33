---------------------------- MODULE ProgramProofs ----------------------------
(***************************************************************************)
(* Proofs about the programs of Programs, each for any values of its       *)
(* constants, and what they say of all of them together.                   *)
(***************************************************************************)
EXTENDS Programs, FiniteSetTheorems, SequenceTheorems, TLAPS

-----------------------------------------------------------------------------
(* NamedObjects: the exclusive creation of the name is enough to keep the  *)
(* servers apart, and a FIFO prints what was written to it, wherever       *)
(* processes are killed.                                                   *)

\* A server that has not started has nothing open.
StartInv == \A s \in Servers : stage[s] = "start" => node[s] = 0

\* The name belongs to the server that serves, and no other serves.
NameInv ==
    \A s \in Servers : Serving(s) =>
        name # 0 /\ maker[name] = s /\ node[s] \in {0, name}

\* The histories have an entry for each object.
HistInv ==
    /\ entered \in Seq(Seq(Texts)) /\ Len(entered) = Len(maker)
    /\ shown \in Seq(Seq(Texts)) /\ Len(shown) = Len(maker)

\* What was printed and what is still in the FIFO make up what was written.
FlowInv == \A n \in 1 .. Len(maker) : shown[n] \o inFifo[n] = entered[n]

NamedInv == NamedTypeOK /\ StartInv /\ NameInv /\ HistInv /\ FlowInv

-----------------------------------------------------------------------------
\* The invariant holds before anything runs.
LEMMA InitNames == ASSUME NamedInit PROVE NamedInv
<1>1. NamedTypeOK
  BY NamedAssumption DEF NamedInit, InitNamed, NamedTypeOK, Stages, Texts
<1>2. StartInv /\ NameInv /\ HistInv
  BY DEF NamedInit, InitNamed, StartInv, NameInv, Serving, HistInv, Procs
<1>3. FlowInv
  BY DEF NamedInit, InitNamed, FlowInv
<1> QED  BY <1>1, <1>2, <1>3 DEF NamedInv

\* A line that the client sends is a Texts.
LEMMA TypedType ==
    ASSUME NamedTypeOK, NEW c \in Clients
    PROVE  Typed(c) \in Texts
<1>1. stdin[c] \in 0 .. MaxLines /\ lastRead[c] \in Texts /\ MaxLines \in Nat /\ LineLength \in Nat
  BY NamedAssumption DEF NamedTypeOK
<1>2. CASE stdin[c] < MaxLines
  <2>1. stdin[c] + 1 \in 0 .. MaxLines /\ LineLength \in 0 .. LineLength
    BY <1>1, <1>2
  <2> QED  BY <1>2, <2>1 DEF Typed, Texts
<1>3. CASE ~(stdin[c] < MaxLines)
  <2> DEFINE k == lastRead[c].length
  <2>1. /\ lastRead[c] = [line |-> lastRead[c].line, length |-> k]
        /\ lastRead[c].line \in 0 .. MaxLines /\ k \in 0 .. LineLength
    BY <1>1 DEF Texts
  <2>2. Typed(c) = [line |-> lastRead[c].line, length |-> IF k = 0 THEN 0 ELSE k - 1]
    BY <1>3, <2>1 DEF Typed
  <2>3. (IF k = 0 THEN 0 ELSE k - 1) \in 0 .. LineLength
    BY <1>1, <2>1
  <2> QED  BY <2>1, <2>2, <2>3 DEF Texts
<1> QED  BY <1>2, <1>3

\* A new object: it has a number of its own and nothing in it.
LEMMA MakeStep ==
    ASSUME NamedInv, NEW p \in Procs, Make(p)
    PROVE  /\ name' = Len(maker') /\ name' \in Nat \ {0} /\ maker'[name'] = p
           /\ maker' \in Seq(Procs) /\ Len(maker') = Len(maker) + 1
           /\ inFifo' \in Seq(Seq(Texts)) /\ Len(inFifo') = Len(maker')
           /\ HistInv' /\ FlowInv'
<1> USE DEF NamedInv
<1>1. /\ maker \in Seq(Procs) /\ inFifo \in Seq(Seq(Texts)) /\ Len(inFifo) = Len(maker)
      /\ entered \in Seq(Seq(Texts)) /\ Len(entered) = Len(maker)
      /\ shown \in Seq(Seq(Texts)) /\ Len(shown) = Len(maker)
  BY DEF NamedTypeOK, HistInv
<1>2. <<>> \in Seq(Texts) /\ <<>> \o <<>> = <<>>
  OBVIOUS
<1>3. /\ maker' \in Seq(Procs) /\ Len(maker') = Len(maker) + 1 /\ maker'[Len(maker) + 1] = p
      /\ name' = Len(maker) + 1
  BY <1>1 DEF Make
<1>4. /\ inFifo' \in Seq(Seq(Texts)) /\ Len(inFifo') = Len(maker) + 1
      /\ \A n \in 1 .. Len(maker) : inFifo'[n] = inFifo[n]
      /\ inFifo'[Len(maker) + 1] = <<>>
  BY <1>1, <1>2 DEF Make
<1>5. /\ entered' \in Seq(Seq(Texts)) /\ Len(entered') = Len(maker) + 1
      /\ \A n \in 1 .. Len(maker) : entered'[n] = entered[n]
      /\ entered'[Len(maker) + 1] = <<>>
  BY <1>1, <1>2 DEF Make
<1>6. /\ shown' \in Seq(Seq(Texts)) /\ Len(shown') = Len(maker) + 1
      /\ \A n \in 1 .. Len(maker) : shown'[n] = shown[n]
      /\ shown'[Len(maker) + 1] = <<>>
  BY <1>1, <1>2 DEF Make
<1>7. FlowInv'
  <2> SUFFICES ASSUME NEW n \in 1 .. Len(maker')
               PROVE  shown'[n] \o inFifo'[n] = entered'[n]
    BY DEF FlowInv
  <2>1. CASE n = Len(maker) + 1
    BY <2>1, <1>2, <1>4, <1>5, <1>6
  <2>2. CASE n \in 1 .. Len(maker)
    BY <2>2, <1>4, <1>5, <1>6 DEF FlowInv
  <2>3. n = Len(maker) + 1 \/ n \in 1 .. Len(maker)
    <3>1. n \in 1 .. (Len(maker) + 1)
      BY <1>3
    <3>2. Len(maker) \in Nat
      BY <1>1
    <3> HIDE DEF NamedInv
    <3> QED  BY <3>1, <3>2
  <2> QED  BY <2>1, <2>2, <2>3
<1> QED  BY <1>1, <1>3, <1>4, <1>5, <1>6, <1>7 DEF HistInv

\* A server that tries to make the name.
LEMMA CreateStep ==
    ASSUME NamedInv, NEW s \in Servers, NEW to \in {"created", "attach"},
           stage[s] = "start", MakeExclusive(s, to),
           UNCHANGED <<node, privileged, stdin, lastRead>>
    PROVE  NamedInv'
<1> USE DEF NamedInv
<1>1. s \in Procs /\ stage \in [Procs -> Stages]
  BY DEF Procs, NamedTypeOK
<1>2. CASE name = 0 /\ Make(s) /\ GoTo(s, to)
  <2>1. /\ name' = Len(maker') /\ name' \in Nat \ {0} /\ maker'[name'] = s
        /\ maker' \in Seq(Procs) /\ Len(maker') = Len(maker) + 1
        /\ inFifo' \in Seq(Seq(Texts)) /\ Len(inFifo') = Len(maker')
        /\ HistInv' /\ FlowInv'
    BY <1>1, <1>2, MakeStep
  <2>2. NamedTypeOK'
    BY <1>1, <1>2, <2>1 DEF NamedTypeOK, Stages, GoTo
  <2>3. StartInv' /\ NameInv'
    BY <1>1, <1>2, <2>1 DEF StartInv, NameInv, Serving, GoTo, Procs
  <2> QED  BY <2>1, <2>2, <2>3
<1>3. CASE NothingMade /\ GoTo(s, "failed")
  BY <1>1, <1>3 DEF NamedTypeOK, Stages, StartInv, NameInv, HistInv, FlowInv, Serving, GoTo, NothingMade, Procs
<1> QED  BY <1>2, <1>3 DEF MakeExclusive

\* A process that opens the FIFO, and those of the other side that wait for it.
LEMMA OpenStep ==
    ASSUME NamedInv,
           \/ \E s \in Servers : openFifo(s, Writers(name))
           \/ \E c \in Clients : openFifo(c, Readers(name))
    PROVE  NamedInv'
<1> USE DEF NamedInv
<1>1. ASSUME NEW p \in Procs, NEW others \in SUBSET Procs, openFifo(p, others),
             \A x \in others : stage[x] \in {"opening", "open", "ended"}
      PROVE  NamedInv'
  <2>1. CASE name = 0
    BY <1>1, <2>1, NamedAssumption
    DEF openFifo, NamedTypeOK, Stages, StartInv, NameInv, HistInv, FlowInv, Serving, GoTo, NothingMade, Procs
  <2>2. CASE name # 0
    <3>1. /\ node' = [node EXCEPT ![p] = name] /\ NothingMade
          /\ UNCHANGED <<privileged, stdin, lastRead>>
          /\ stage[p] = (IF p \in Servers THEN "created" ELSE "start")
      BY <1>1, <2>2 DEF openFifo, Opens
    <3>2. /\ stage' \in [Procs -> Stages]
          /\ stage'[p] \in {"opening", "open"}
          /\ \A x \in Procs \ {p} :
                 stage'[x] = stage[x] \/ (x \in others /\ stage'[x] = "open")
      BY <1>1, <2>2 DEF openFifo, GoTo, NamedTypeOK, Stages
    <3>3. NamedTypeOK'
      BY <3>1, <3>2 DEF NamedTypeOK, NothingMade
    <3>4. HistInv' /\ FlowInv'
      BY <3>1 DEF HistInv, FlowInv, NothingMade
    <3>5. StartInv' /\ NameInv'
      BY <1>1, <3>1, <3>2, <2>2
      DEF StartInv, NameInv, Serving, NothingMade, Procs, NamedTypeOK
    <3> QED  BY <3>3, <3>4, <3>5
  <2> QED  BY <2>1, <2>2
<1> QED  BY <1>1 DEF Writers, Readers, HasOpen, Procs

\* A sequence of sequences is a function on its indices.
LEMMA SeqOfSeqs ==
    ASSUME NEW S, NEW n \in Nat
    PROVE  /\ \A q \in [1 .. n -> Seq(S)] : q \in Seq(Seq(S)) /\ Len(q) = n
           /\ \A q \in Seq(Seq(S)) : Len(q) = n => q \in [1 .. n -> Seq(S)]
OBVIOUS

\* The client writes at the end of its FIFO.
LEMMA SayStep == ASSUME NamedInv, NEW c \in Clients, clientSay(c)  PROVE NamedInv'
<1> USE DEF NamedInv
<1>1. /\ c \in Procs /\ c \notin Servers /\ Typed(c) \in Texts
      /\ UNCHANGED <<name, maker, node, privileged, shown>>
  BY TypedType, NamedAssumption DEF clientSay, Procs
<1>2. stage' = stage \/ GoTo(c, "killed")
  BY DEF clientSay
<1>3. StartInv' /\ NameInv'
  BY <1>1, <1>2 DEF StartInv, NameInv, Serving, GoTo, Procs, NamedTypeOK
<1>4. /\ stage' \in [Procs -> Stages]
      /\ stdin' \in [Clients -> 0 .. MaxLines] /\ lastRead' \in [Clients -> Texts]
  <2>1. lastRead' = [lastRead EXCEPT ![c] = Typed(c)]
        /\ stdin' = [stdin EXCEPT ![c] = IF @ < MaxLines THEN @ + 1 ELSE @]
    BY DEF clientSay
  <2>2. stdin' \in [Clients -> 0 .. MaxLines]
    BY <2>1, NamedAssumption DEF NamedTypeOK
  <2> QED  BY <1>1, <1>2, <2>1, <2>2 DEF GoTo, NamedTypeOK, Stages
<1>5. /\ inFifo \in Seq(Seq(Texts)) /\ Len(inFifo) = Len(maker)
      /\ entered \in Seq(Seq(Texts)) /\ Len(entered) = Len(maker)
      /\ shown \in Seq(Seq(Texts)) /\ Len(shown) = Len(maker)
  BY DEF NamedTypeOK, HistInv
<1>6. CASE UNCHANGED <<inFifo, entered>>
  <2>1. NamedTypeOK'
    BY <1>1, <1>4, <1>6 DEF NamedTypeOK
  <2> QED  BY <1>1, <1>3, <1>6, <2>1 DEF HistInv, FlowInv
<1>7. ASSUME NEW n, n = node[c], NEW text \in Texts, text = Typed(c),
             inFifo' = [inFifo EXCEPT ![n] = Append(@, text)],
             entered' = [entered EXCEPT ![n] = Append(@, text)]
      PROVE  NamedInv'
  <2>1. /\ inFifo' \in Seq(Seq(Texts)) /\ Len(inFifo') = Len(maker)
        /\ entered' \in Seq(Seq(Texts)) /\ Len(entered') = Len(maker)
        /\ \A k \in 1 .. Len(maker) : k # n => inFifo'[k] = inFifo[k] /\ entered'[k] = entered[k]
        /\ n \in 1 .. Len(maker) => /\ inFifo'[n] = Append(inFifo[n], text)
                                   /\ entered'[n] = Append(entered[n], text)
    <3>1. inFifo \in [1 .. Len(maker) -> Seq(Texts)] /\ entered \in [1 .. Len(maker) -> Seq(Texts)]
      BY <1>5, SeqOfSeqs
    <3>2. n \in 1 .. Len(maker) => /\ Append(inFifo[n], text) \in Seq(Texts)
                                  /\ Append(entered[n], text) \in Seq(Texts)
      BY <1>7, <3>1
    <3>3. /\ inFifo' \in [1 .. Len(maker) -> Seq(Texts)] /\ entered' \in [1 .. Len(maker) -> Seq(Texts)]
          /\ \A k \in 1 .. Len(maker) : k # n => inFifo'[k] = inFifo[k] /\ entered'[k] = entered[k]
          /\ n \in 1 .. Len(maker) => /\ inFifo'[n] = Append(inFifo[n], text)
                                     /\ entered'[n] = Append(entered[n], text)
      BY <1>7, <3>1, <3>2
    <3>4. Len(maker) \in Nat
      BY <1>5
    <3> QED  BY <3>3, <3>4, SeqOfSeqs
  <2>2. NamedTypeOK'
    BY <1>1, <1>4, <2>1 DEF NamedTypeOK
  <2>3. HistInv'
    BY <1>1, <2>1 DEF HistInv
  <2>4. ASSUME NEW k \in 1 .. Len(maker)  PROVE shown'[k] \o inFifo'[k] = entered'[k]
    <3>1. shown[k] \in Seq(Texts) /\ inFifo[k] \in Seq(Texts) /\ shown[k] \o inFifo[k] = entered[k]
      BY <1>5, ElementOfSeq DEF FlowInv
    <3>2. CASE k = n
      <4>1. /\ inFifo'[k] = Append(inFifo[k], text)
            /\ entered'[k] = Append(entered[k], text)
        BY <2>1, <3>2
      <4>2. \A a, b \in Seq(Texts) : a \o Append(b, text) = Append(a \o b, text)
        OBVIOUS
      <4> QED  BY <1>1, <3>1, <4>1, <4>2
    <3>3. CASE k # n
      BY <1>1, <2>1, <3>1, <3>3
    <3> QED  BY <3>2, <3>3
  <2>5. FlowInv'
    BY <1>1, <2>4 DEF FlowInv
  <2> QED  BY <1>3, <2>2, <2>3, <2>5
<1> QED  BY <1>1, <1>6, <1>7 DEF clientSay

\* The server prints all there is and leaves its FIFO empty.
LEMMA ReadStep == ASSUME NamedInv, NEW s \in Servers, serverRead(s)  PROVE NamedInv'
<1> USE DEF NamedInv
<1>1. /\ s \in Procs /\ stage[s] = "open"
      /\ UNCHANGED <<name, maker, node, privileged, stdin, lastRead, entered>>
  BY DEF serverRead, Procs
<1>2. stage' = stage \/ GoTo(s, "ended")
  BY DEF serverRead
<1>3. StartInv' /\ NameInv'
  BY <1>1, <1>2 DEF StartInv, NameInv, Serving, GoTo, Procs, NamedTypeOK
<1>4. stage' \in [Procs -> Stages]
  BY <1>1, <1>2 DEF GoTo, NamedTypeOK, Stages
<1>5. /\ inFifo \in Seq(Seq(Texts)) /\ Len(inFifo) = Len(maker) /\ Len(maker) \in Nat
      /\ shown \in Seq(Seq(Texts)) /\ Len(shown) = Len(maker)
  BY DEF NamedTypeOK, HistInv
<1>6. CASE UNCHANGED <<inFifo, shown>>
  <2>1. NamedTypeOK'
    BY <1>1, <1>4, <1>6 DEF NamedTypeOK
  <2> QED  BY <1>1, <1>3, <1>6, <2>1 DEF HistInv, FlowInv
<1>7. ASSUME NEW n, n = node[s],
             shown' = [shown EXCEPT ![n] = @ \o inFifo[n]],
             inFifo' = [inFifo EXCEPT ![n] = <<>>]
      PROVE  NamedInv'
  <2>1. inFifo \in [1 .. Len(maker) -> Seq(Texts)] /\ shown \in [1 .. Len(maker) -> Seq(Texts)]
    BY <1>5, SeqOfSeqs
  <2>2. n \in 1 .. Len(maker) => shown[n] \o inFifo[n] \in Seq(Texts) /\ <<>> \in Seq(Texts)
    BY <2>1
  <2>3. /\ inFifo' \in [1 .. Len(maker) -> Seq(Texts)] /\ shown' \in [1 .. Len(maker) -> Seq(Texts)]
        /\ \A k \in 1 .. Len(maker) : k # n => inFifo'[k] = inFifo[k] /\ shown'[k] = shown[k]
        /\ n \in 1 .. Len(maker) => /\ inFifo'[n] = <<>>
                                   /\ shown'[n] = shown[n] \o inFifo[n]
    BY <1>7, <2>1, <2>2
  <2>4. /\ inFifo' \in Seq(Seq(Texts)) /\ Len(inFifo') = Len(maker)
        /\ shown' \in Seq(Seq(Texts)) /\ Len(shown') = Len(maker)
    BY <1>5, <2>3, SeqOfSeqs
  <2>5. NamedTypeOK' /\ HistInv'
    BY <1>1, <1>4, <2>4 DEF NamedTypeOK, HistInv
  <2>6. \A a \in Seq(Texts) : a \o <<>> = a
    OBVIOUS
  <2>7. FlowInv'
    BY <1>1, <2>1, <2>2, <2>3, <2>6 DEF FlowInv
  <2> QED  BY <1>3, <2>5, <2>7
<1> QED  BY <1>6, <1>7 DEF serverRead

\* The server gives its name up.
LEMMA RemoveStep == ASSUME NamedInv, NEW s \in Servers, removeFifo(s)  PROVE NamedInv'
<1> USE DEF NamedInv
<1>1. s \in Procs /\ UNCHANGED <<maker, node, privileged, stdin, lastRead, inFifo, entered, shown>>
  BY DEF removeFifo, Procs
<1>2. HistInv' /\ FlowInv'
  BY <1>1 DEF HistInv, FlowInv
<1>3. CASE stage[s] = "ended" /\ GoTo(s, "closed") /\ UNCHANGED name
  BY <1>1, <1>2, <1>3 DEF NamedTypeOK, Stages, StartInv, NameInv, Serving, GoTo, Procs
<1>4. CASE stage[s] = "closed" /\ name' = 0 /\ GoTo(s, "done")
  <2>1. Serving(s)
    BY <1>4 DEF Serving
  <2>2. \A r \in Servers : Serving(r) => r = s
    BY <2>1 DEF NameInv
  <2>3. NamedTypeOK'
    BY <1>1, <1>4 DEF NamedTypeOK, Stages, GoTo
  <2>4. StartInv' /\ NameInv'
    BY <1>1, <1>4, <2>2 DEF NamedTypeOK, Stages, StartInv, NameInv, Serving, GoTo, Procs
  <2> QED  BY <1>2, <2>3, <2>4
<1> QED  BY <1>3, <1>4 DEF removeFifo

\* A client that asks for the segment makes it only when there is none, and
\* then nobody serves.
LEMMA GetStep == ASSUME NamedInv, NEW c \in Clients, getShm(c)  PROVE NamedInv'
<1> USE DEF NamedInv
<1>1. /\ c \in Procs /\ c \notin Servers /\ GoTo(c, "attach")
      /\ UNCHANGED <<node, privileged, stdin, lastRead>>
  BY NamedAssumption DEF getShm, Procs
<1>2. CASE name = 0 /\ Make(c)
  <2>1. /\ name' = Len(maker') /\ name' \in Nat \ {0}
        /\ maker' \in Seq(Procs) /\ Len(maker') = Len(maker) + 1
        /\ inFifo' \in Seq(Seq(Texts)) /\ Len(inFifo') = Len(maker')
        /\ HistInv' /\ FlowInv'
    BY <1>1, <1>2, MakeStep
  <2>2. NamedTypeOK'
    BY <1>1, <2>1 DEF NamedTypeOK, Stages, GoTo
  <2>3. StartInv' /\ NameInv'
    BY <1>1, <1>2 DEF NamedTypeOK, Stages, StartInv, NameInv, Serving, GoTo, Procs
  <2> QED  BY <2>1, <2>2, <2>3
<1>3. CASE NothingMade
  <2>1. NamedTypeOK'
    BY <1>1, <1>3 DEF NamedTypeOK, Stages, GoTo, NothingMade
  <2>2. StartInv' /\ NameInv'
    BY <1>1, <1>3 DEF NamedTypeOK, Stages, StartInv, NameInv, Serving, GoTo, NothingMade, Procs
  <2> QED  BY <1>3, <2>1, <2>2 DEF HistInv, FlowInv, NothingMade
<1> QED  BY <1>2, <1>3 DEF getShm

\* Attaching to the object behind the name.
LEMMA AttachStep == ASSUME NamedInv, NEW p \in Procs, attachShm(p)  PROVE NamedInv'
<1> USE DEF NamedInv
<1>1. stage[p] = "attach" /\ UNCHANGED <<privileged, stdin, lastRead>> /\ NothingMade
  BY DEF attachShm
<1>2. \/ GoTo(p, "open") /\ node' = [node EXCEPT ![p] = name]
      \/ GoTo(p, "failed") /\ UNCHANGED node
  BY DEF attachShm, Opens
<1>3. NamedTypeOK'
  BY <1>1, <1>2 DEF NamedTypeOK, Stages, GoTo, NothingMade
<1>4. StartInv' /\ NameInv'
  BY <1>1, <1>2 DEF NamedTypeOK, Stages, StartInv, NameInv, Serving, GoTo, NothingMade, Procs
<1> QED  BY <1>1, <1>3, <1>4 DEF HistInv, FlowInv, NothingMade

\* A process that is killed serves no more.
LEMMA KillStep == ASSUME NamedInv, NEW p \in Procs, Kill(p)  PROVE NamedInv'
<1> USE DEF NamedInv
<1>1. GoTo(p, "killed") /\ UNCHANGED <<node, privileged, stdin, lastRead>> /\ NothingMade
  BY DEF Kill
<1>2. NamedTypeOK'
  BY <1>1 DEF NamedTypeOK, Stages, GoTo, NothingMade
<1>3. StartInv' /\ NameInv'
  BY <1>1 DEF NamedTypeOK, Stages, StartInv, NameInv, Serving, GoTo, NothingMade, Procs
<1> QED  BY <1>1, <1>2, <1>3 DEF HistInv, FlowInv, NothingMade

-----------------------------------------------------------------------------
\* The invariant is inductive, and holds in every reachable state.
THEOREM NamesInvariance == NamedSpec => []NamedInv
<1>1. NamedInit => NamedInv
  BY InitNames
<1>2. NamedInv /\ [NamedNext]_namedVars => NamedInv'
  <2> SUFFICES ASSUME NamedInv, [NamedNext]_namedVars PROVE NamedInv'
    OBVIOUS
  <2>1. ASSUME NEW s \in Servers, createFifo(s)  PROVE NamedInv'
    BY <2>1, CreateStep DEF createFifo
  <2>2. ASSUME NEW s \in Servers, createShm(s)  PROVE NamedInv'
    BY <2>2, CreateStep DEF createShm
  <2>3. CASE UNCHANGED namedVars
    BY <2>3
    DEF namedVars, named, NamedInv, NamedTypeOK, StartInv, NameInv, HistInv, FlowInv, Serving
  <2> QED
    BY <2>1, <2>2, <2>3, OpenStep, SayStep, ReadStep, RemoveStep, GetStep, AttachStep, KillStep
    DEF NamedNext
<1> QED  BY <1>1, <1>2, PTL DEF NamedSpec

\* However servers and clients are started and killed, one server at a time
\* serves, behind a name of its own, and a FIFO prints the lines in order.
THEOREM OneServerAtATime == NamedSpec => []OneServer
<1>1. NamedInv => OneServer
  BY DEF NamedInv, NameInv, FlowInv, OneServer
<1> QED  BY <1>1, NamesInvariance, PTL
-----------------------------------------------------------------------------
(* ThreadPrograms: the mutex makes the load and the store of tickets-- and *)
(* the print before them one step, so that the numbers sold and the        *)
(* tickets left add up.                                                    *)

Labels == {"lock", "test", "print", "load", "store", "unlock", "left",
           "cond_wait", "waiting", "woken"}

SellersTypes ==
    /\ prog \in ThreadedPrograms
    /\ at \in [Threads -> Labels]
    /\ mutex \in Threads \cup {NoThread}
    /\ tickets \in Int /\ loaded \in [Threads -> Int]
    /\ sold \in Seq([by : Threads, ticket : Int]) /\ joined \in BOOLEAN

\* The thread that owns the mutex is the one between lock and unlock.
MutexInv ==
    \A t \in Threads :
        at[t] \in {"test", "print", "load", "store", "unlock", "cond_wait"} <=> mutex = t

\* A ticket is out of the account while it is printed and not yet taken away.
Selling == \E t \in Threads : at[t] \in {"load", "store"}

SoldInv ==
    /\ Len(sold) = Tickets - tickets + (IF Selling THEN 1 ELSE 0)
    /\ \A i \in 1 .. Len(sold) : sold[i].ticket = Tickets - i + 1
    /\ \A t \in Threads : at[t] = "store" => loaded[t] = tickets

\* get_tickets sells what there is and leaves when there is nothing.
LeftInv ==
    prog # "testCond" =>
        /\ tickets >= 0
        /\ \A t \in Threads : at[t] \in {"print", "load", "store"} => tickets > 0
        /\ \A t \in Threads : at[t] = "left" => tickets = 0
        /\ \A t \in Threads : at[t] \notin {"cond_wait", "waiting", "woken"}

JoinInv == joined => /\ prog # "testCond"
                     /\ \A t \in Threads : at[t] = "left"

SellersInv == SellersTypes /\ MutexInv /\ SoldInv /\ LeftInv /\ JoinInv

-----------------------------------------------------------------------------
\* The invariant holds before the threads start.
LEMMA InitSellers == ASSUME ThreadInit PROVE SellersInv
<1>1. SellersTypes
  <2>1. tickets = Tickets /\ sold = <<>> /\ joined = FALSE
    BY DEF ThreadInit, InitThreads
  <2>2. loaded \in [Threads -> Int] /\ at \in [Threads -> Labels]
    BY DEF ThreadInit, InitThreads, Labels
  <2>3. tickets \in Int
    BY <2>1, SellersAssumption 
  <2>4. sold \in Seq([by : Threads, ticket : Int])
    BY <2>1
  <2>5. joined \in BOOLEAN
    BY <2>1
  <2> QED  BY <2>2, <2>3, <2>4, <2>5 DEF ThreadInit, InitThreads, SellersTypes
<1>2. MutexInv /\ SoldInv
  BY SellersAssumption DEF ThreadInit, InitThreads, MutexInv, SoldInv, Selling
<1>3. LeftInv /\ JoinInv
  BY SellersAssumption DEF ThreadInit, InitThreads, LeftInv, JoinInv
<1> QED  BY <1>1, <1>2, <1>3 DEF SellersInv

\* A step of one thread that sells nothing keeps the account.
LEMMA NoSale ==
    ASSUME SellersInv, UNCHANGED <<tickets, loaded, sold>>, Selling' = Selling,
           \A t \in Threads : at'[t] = "store" => at[t] = "store"
    PROVE  SoldInv'
BY DEF SellersInv, SoldInv

\* Taking the mutex.
LEMMA LockStep ==
    ASSUME SellersInv, NEW t \in Threads, Lock(t), prog' = prog
    PROVE  SellersInv'
<1> USE DEF SellersInv
<1> DEFINE label == IF prog = "testCond" THEN "cond_wait" ELSE "test"
<1>1. /\ at[t] = "lock" /\ mutex = NoThread /\ mutex' = t
      /\ at' = [at EXCEPT ![t] = label]
      /\ UNCHANGED <<tickets, loaded, sold, joined>>
  BY DEF Lock, Goto
<1>2. SellersTypes' /\ MutexInv'
  BY <1>1, SellersAssumption DEF SellersTypes, MutexInv, Labels
<1>3. SoldInv'
  <2>1. Selling' = Selling
    BY <1>1 DEF Selling, SellersTypes
  <2> QED  BY <1>1, <2>1, NoSale DEF SellersTypes
<1>4. LeftInv' /\ JoinInv'
  BY <1>1 DEF SellersTypes, LeftInv, JoinInv
<1> QED  BY <1>2, <1>3, <1>4

\* Looking whether there are tickets.
LEMMA TestStep ==
    ASSUME SellersInv, NEW t \in Threads, Test(t), prog' = prog,
           prog # "testCond"
    PROVE  SellersInv'
<1> USE DEF SellersInv
<1>1. /\ at[t] = "test" /\ UNCHANGED <<tickets, loaded, sold, joined>>
      /\ \/ tickets > 0 /\ at' = [at EXCEPT ![t] = "print"] /\ mutex' = mutex
         \/ ~(tickets > 0) /\ at' = [at EXCEPT ![t] = "left"] /\ mutex' = NoThread
  BY DEF Test, Goto
<1>2. SellersTypes' /\ MutexInv'
  BY <1>1, SellersAssumption DEF SellersTypes, MutexInv, Labels
<1>3. SoldInv'
  <2>1. Selling' = Selling
    BY <1>1 DEF Selling, SellersTypes
  <2> QED  BY <1>1, <2>1, NoSale DEF SellersTypes
<1>4. LeftInv' /\ JoinInv'
  BY <1>1 DEF SellersTypes, LeftInv, JoinInv
<1> QED  BY <1>2, <1>3, <1>4

\* The number that is printed is the next one down.
LEMMA PrintStep ==
    ASSUME SellersInv, NEW t \in Threads, PrintTicket(t), prog' = prog
    PROVE  SellersInv'
<1> USE DEF SellersInv
<1>1. /\ at[t] = "print" /\ at' = [at EXCEPT ![t] = "load"]
      /\ sold' = Append(sold, [by |-> t, ticket |-> tickets]) /\ UNCHANGED <<mutex, tickets, loaded, joined>>
  BY DEF PrintTicket, Goto
<1>2. SellersTypes' /\ MutexInv'
  BY <1>1 DEF SellersTypes, MutexInv, Labels
<1>3. ~Selling /\ Selling'
  BY <1>1 DEF Selling, SellersTypes, MutexInv
<1>4. SoldInv'
  <2>1. Len(sold) = Tickets - tickets /\ Len(sold) \in Nat /\ Tickets \in Nat /\ tickets \in Int
    BY <1>3, SellersAssumption DEF SoldInv, SellersTypes
  <2>2. /\ Len(sold') = Len(sold) + 1 /\ sold'[Len(sold) + 1].ticket = tickets
        /\ \A i \in 1 .. Len(sold) : sold'[i] = sold[i]
    BY <1>1 DEF SellersTypes
  <2>3. \A i \in 1 .. Len(sold') : sold'[i].ticket = Tickets - i + 1
    BY <2>1, <2>2 DEF SoldInv
  <2>4. \A u \in Threads : at'[u] = "store" => loaded'[u] = tickets'
    BY <1>1 DEF SoldInv, SellersTypes
  <2> QED  BY <1>1, <1>3, <2>1, <2>2, <2>3, <2>4 DEF SoldInv
<1>5. LeftInv' /\ JoinInv'
  BY <1>1 DEF SellersTypes, LeftInv, JoinInv
<1> QED  BY <1>2, <1>4, <1>5

\* The load and the store: nobody else touches tickets in between.
LEMMA DecrementStep ==
    ASSUME SellersInv, NEW t \in Threads, Decrement(t), prog' = prog
    PROVE  SellersInv'
<1> USE DEF SellersInv
<1>1. CASE /\ at[t] = "load" /\ at' = [at EXCEPT ![t] = "store"]
           /\ loaded' = [loaded EXCEPT ![t] = tickets]
           /\ UNCHANGED <<mutex, tickets, sold, joined>>
  <2>1. SellersTypes' /\ MutexInv'
    BY <1>1 DEF SellersTypes, MutexInv, Labels
  <2>2. Selling /\ Selling'
    BY <1>1 DEF Selling, SellersTypes
  <2>3. \A u \in Threads : at'[u] = "store" => loaded'[u] = tickets'
    BY <1>1 DEF SoldInv, SellersTypes
  <2>4. SoldInv'
    BY <1>1, <2>2, <2>3 DEF SoldInv
  <2>5. LeftInv' /\ JoinInv'
    BY <1>1 DEF SellersTypes, LeftInv, JoinInv
  <2> QED  BY <2>1, <2>4, <2>5
<1>2. CASE /\ at[t] = "store" /\ at' = [at EXCEPT ![t] = "unlock"]
           /\ tickets' = loaded[t] - 1 /\ UNCHANGED <<mutex, loaded, sold, joined>>
  <2>1. SellersTypes' /\ MutexInv'
    BY <1>2 DEF SellersTypes, MutexInv, Labels
  <2>2. Selling /\ ~Selling' /\ \A u \in Threads : at'[u] # "store"
    BY <1>2 DEF Selling, SellersTypes, MutexInv
  <2>3. tickets' = tickets - 1 /\ tickets \in Int /\ Tickets \in Nat
    BY <1>2, SellersAssumption DEF SoldInv, SellersTypes
  <2>4. SoldInv'
    BY <1>2, <2>2, <2>3 DEF SoldInv
  <2>5. LeftInv' /\ JoinInv'
    BY <1>2, <2>3 DEF SellersTypes, MutexInv, LeftInv, JoinInv
  <2> QED  BY <2>1, <2>4, <2>5
<1> QED  BY <1>1, <1>2 DEF Decrement, Goto

\* Giving the mutex back.
LEMMA UnlockStep ==
    ASSUME SellersInv, NEW t \in Threads, unLock(t), prog' = prog
    PROVE  SellersInv'
<1> USE DEF SellersInv
<1>1. /\ at[t] = "unlock" /\ at' = [at EXCEPT ![t] = "lock"] /\ mutex' = NoThread
      /\ UNCHANGED <<tickets, loaded, sold, joined>>
  BY DEF unLock, Goto
<1>2. SellersTypes' /\ MutexInv'
  BY <1>1, SellersAssumption DEF SellersTypes, MutexInv, Labels
<1>3. SoldInv'
  <2>1. Selling' = Selling
    BY <1>1 DEF Selling, SellersTypes
  <2> QED  BY <1>1, <2>1, NoSale DEF SellersTypes
<1>4. LeftInv' /\ JoinInv'
  BY <1>1 DEF SellersTypes, LeftInv, JoinInv
<1> QED  BY <1>2, <1>3, <1>4

\* Waiting gives the mutex back, and a thread that is woken takes it again.
LEMMA CondWaitStep ==
    ASSUME SellersInv, NEW t \in Threads, cond_wait(t), prog' = prog,
           prog = "testCond"
    PROVE  SellersInv'
<1> USE DEF SellersInv
<1>1. /\ \/ at[t] = "cond_wait" /\ at' = [at EXCEPT ![t] = "waiting"] /\ mutex' = NoThread
         \/ at[t] = "woken" /\ mutex = NoThread /\ mutex' = t
            /\ at' = [at EXCEPT ![t] = "print"]
      /\ UNCHANGED <<tickets, loaded, sold, joined>>
  BY DEF cond_wait, Goto
<1>2. SellersTypes' /\ MutexInv'
  BY <1>1, SellersAssumption DEF SellersTypes, MutexInv, Labels
<1>3. SoldInv'
  <2>1. Selling' = Selling
    BY <1>1 DEF Selling, SellersTypes
  <2> QED  BY <1>1, <2>1, NoSale DEF SellersTypes
<1>4. LeftInv' /\ JoinInv'
  BY <1>1 DEF SellersTypes, LeftInv, JoinInv
<1> QED  BY <1>2, <1>3, <1>4

\* A broadcast moves threads that wait to the mutex.
LEMMA BroadcastStep ==
    ASSUME SellersInv, broadcast, prog' = prog
    PROVE  SellersInv'
<1> USE DEF SellersInv
<1>1. /\ prog = "testCond" /\ UNCHANGED <<mutex, tickets, loaded, sold, joined>>
      /\ at' \in [Threads -> Labels]
      /\ \A t \in Threads : at'[t] = at[t] \/ (at[t] = "waiting" /\ at'[t] = "woken")
  BY DEF broadcast, SellersTypes, Labels
<1>2. SellersTypes' /\ MutexInv'
  BY <1>1 DEF SellersTypes, MutexInv
<1>3. SoldInv'
  <2>1. Selling' = Selling
    BY <1>1 DEF Selling
  <2> QED  BY <1>1, <2>1, NoSale
<1>4. LeftInv' /\ JoinInv'
  BY <1>1 DEF LeftInv, JoinInv
<1> QED  BY <1>2, <1>3, <1>4

-----------------------------------------------------------------------------
\* The invariant is inductive, and holds in every reachable state.
THEOREM SellersInvariance == ThreadSpec => []SellersInv
<1>1. ThreadInit => SellersInv
  BY InitSellers
<1>2. SellersInv /\ [ThreadNext]_threadVars => SellersInv'
  <2> SUFFICES ASSUME SellersInv, [ThreadNext]_threadVars PROVE SellersInv'
    OBVIOUS
  <2>1. ASSUME NEW t \in Threads, Steps(t), prog' = prog  PROVE SellersInv'
    BY <2>1, LockStep, TestStep, PrintStep, DecrementStep, UnlockStep, CondWaitStep
    DEF Steps, get_tickets, start_routine
  <2>2. CASE join /\ prog' = prog
    BY <2>2
    DEF join, SellersInv, SellersTypes, MutexInv, SoldInv, Selling, LeftInv, JoinInv
  <2>3. CASE broadcast /\ prog' = prog
    BY <2>3, BroadcastStep
  <2>4. CASE UNCHANGED threads /\ prog' = prog
    BY <2>4
    DEF threads, SellersInv, SellersTypes, MutexInv, SoldInv, Selling, LeftInv, JoinInv
  <2> QED  BY <2>1, <2>2, <2>3, <2>4 DEF ThreadNext, threadVars
<1> QED  BY <1>1, <1>2, PTL DEF ThreadSpec

\* No ticket is sold twice, and when main has joined the sellers none is left.
THEOREM NoneSoldTwice == ThreadSpec => []NoTicketTwice
<1>1. SellersInv => NoTicketTwice
  <2> SUFFICES ASSUME SellersInv PROVE NoTicketTwice
    OBVIOUS
  <2>1. \A i \in 1 .. Len(sold) : sold[i].ticket = Tickets - i + 1
    BY DEF SellersInv, SoldInv
  <2>2. ASSUME prog # "testCond"  PROVE Len(sold) <= Tickets
    <3>1. Selling => tickets > 0
      BY <2>2 DEF SellersInv, LeftInv, Selling
    <3> QED  BY <2>2, <3>1, SellersAssumption DEF SellersInv, LeftInv, SoldInv, SellersTypes
  <2>3. ASSUME joined  PROVE tickets = 0 /\ Len(sold) = Tickets
    <3>1. prog # "testCond" /\ \A t \in Threads : at[t] = "left"
      BY <2>3 DEF SellersInv, JoinInv
    <3>2. tickets = 0
      BY <3>1, SellersAssumption DEF SellersInv, LeftInv
    <3>3. ~Selling
      BY <3>1 DEF Selling
    <3> QED  BY <3>2, <3>3, SellersAssumption DEF SellersInv, SoldInv
  <2> QED  BY <2>1, <2>2, <2>3 DEF NoTicketTwice
<1> QED  BY <1>1, SellersInvariance, PTL
\* What a thread has sold so far, of the tickets in s.
Sales(s, t) == Cardinality({i \in 1 .. Len(s) : s[i].by = t})

Sale == [by : Threads, ticket : Int]

\* A ticket more is one more for its seller.
LEMMA SalesGrow ==
    ASSUME NEW s \in Seq(Sale), NEW e \in Sale, NEW t
    PROVE  /\ s = <<>> => Sales(s, t) = 0
           /\ Sales(s, t) \in Nat
           /\ Sales(Append(s, e), t) = Sales(s, t) + (IF e.by = t THEN 1 ELSE 0)
<1> DEFINE Own(q) == {i \in 1 .. Len(q) : q[i].by = t}
           q == Append(s, e)
<1>1. IsFiniteSet(Own(s))
  <2>1. Own(s) \subseteq 1 .. Len(s) /\ Len(s) \in Nat
    OBVIOUS
  <2>2. IsFiniteSet(1 .. Len(s))
    BY <2>1, FS_Interval
  <2> QED  BY <2>1, <2>2, FS_Subset
<1>2. Cardinality(Own(s)) \in Nat
  BY <1>1, FS_CardinalityType
<1>3. s = <<>> => Own(s) = {}
  OBVIOUS
<1>4. /\ Len(q) = Len(s) + 1 /\ q[Len(s) + 1] = e /\ Len(s) \in Nat
      /\ \A i \in 1 .. Len(s) : q[i] = s[i]
  OBVIOUS
<1>5. Sales(s, t) = Cardinality(Own(s)) /\ Sales(q, t) = Cardinality(Own(q))
  BY DEF Sales
<1>6. (s = <<>> => Sales(s, t) = 0) /\ Sales(s, t) \in Nat
  BY <1>2, <1>3, <1>5, FS_EmptySet
<1>7. ASSUME e.by = t  PROVE Sales(q, t) = Sales(s, t) + 1
  <2>1. Own(q) = Own(s) \cup {Len(s) + 1} /\ Len(s) + 1 \notin Own(s)
    BY <1>4, <1>7
  <2>2. Cardinality(Own(q)) = Cardinality(Own(s)) + 1
    BY <1>1, <2>1, FS_AddElement
  <2> QED  BY <1>5, <2>2
<1>8. ASSUME e.by # t  PROVE Sales(q, t) = Sales(s, t)
  <2>1. Own(q) = Own(s)
    BY <1>4, <1>8
  <2> QED  BY <1>5, <2>1
<1> QED  BY <1>6, <1>7, <1>8

\* A seller's cnt has its sales, but for the one between print and store.
CountInv ==
    /\ cnt \in [Threads -> Nat]
    /\ \A t \in Threads :
          Sales(sold, t) = cnt[t] + (IF at[t] \in {"load", "store"} THEN 1 ELSE 0)

\* One step of a seller, or of main, keeps the account of each.
LEMMA CountStep == ASSUME SellersInv, CountInv, [ThreadNext]_threadVars  PROVE CountInv'
<1>0. at \in [Threads -> Labels] /\ sold \in Seq(Sale) /\ tickets \in Int /\ cnt \in [Threads -> Nat]
  BY DEF SellersInv, SellersTypes, Sale, CountInv
<1>1. ASSUME NEW t \in Threads, PrintTicket(t)  PROVE CountInv'
  <2>1. /\ at[t] = "print" /\ at' = [at EXCEPT ![t] = "load"] /\ cnt' = cnt
        /\ sold' = Append(sold, [by |-> t, ticket |-> tickets])
    BY <1>1 DEF PrintTicket, Goto
  <2>2. [by |-> t, ticket |-> tickets] \in Sale
    BY <1>0 DEF Sale
  <2>3. ASSUME NEW u \in Threads
        PROVE  Sales(sold', u) = cnt'[u] + (IF at'[u] \in {"load", "store"} THEN 1 ELSE 0)
    <3>1. Sales(sold', u) = Sales(sold, u) + (IF t = u THEN 1 ELSE 0)
      BY <1>0, <2>1, <2>2, SalesGrow
    <3>2. Sales(sold, u) = cnt[u] + (IF at[u] \in {"load", "store"} THEN 1 ELSE 0)
      BY DEF CountInv
    <3>3. cnt[u] \in Nat
      BY <1>0
    <3>4. CASE u = t
      BY <1>0, <2>1, <3>1, <3>2, <3>3, <3>4
    <3>5. CASE u # t
      BY <1>0, <2>1, <3>1, <3>2, <3>3, <3>5
    <3> QED  BY <3>4, <3>5
  <2> QED  BY <1>0, <2>1, <2>3 DEF CountInv
<1>2. ASSUME NEW t \in Threads, Decrement(t)  PROVE CountInv'
  BY <1>0, <1>2 DEF Decrement, Goto, CountInv
<1>3. ASSUME NEW t \in Threads, Lock(t) \/ Test(t) \/ unLock(t) \/ cond_wait(t)  PROVE CountInv'
  BY <1>0, <1>3 DEF Lock, Test, unLock, cond_wait, Goto, CountInv
<1>4. CASE broadcast
  <2>1. /\ \A t \in Threads : at'[t] = at[t] \/ (at[t] = "waiting" /\ at'[t] = "woken")
        /\ UNCHANGED <<sold, cnt>>
    BY <1>4 DEF broadcast
  <2> QED  BY <2>1 DEF CountInv
<1>5. CASE join \/ UNCHANGED threads
  BY <1>5 DEF join, threads, CountInv
<1> QED  BY <1>1, <1>2, <1>3, <1>4, <1>5
         DEF ThreadNext, threadVars, Steps, get_tickets, start_routine

\* Each seller counts what it has sold, in every reachable state.
LEMMA SellersCounted == ThreadSpec => []CountInv
<1>1. ThreadInit => CountInv
  <2> SUFFICES ASSUME ThreadInit  PROVE CountInv
    OBVIOUS
  <2>1. /\ sold = <<>> /\ cnt = [t \in Threads |-> 0]
        /\ \A t \in Threads : at[t] = "lock"
    BY DEF ThreadInit, InitThreads
  <2>2. \A t \in Threads : Cardinality({i \in 1 .. 0 : <<>>[i].by = t}) = 0
    <3>1. \A t \in Threads : {i \in 1 .. 0 : <<>>[i].by = t} = {}
      OBVIOUS
    <3> QED  BY <3>1, FS_EmptySet
  <2>3. \A t \in Threads : Sales(sold, t) = 0
    BY <2>1, <2>2 DEF Sales
  <2> QED  BY <2>1, <2>3 DEF CountInv
<1>2. SellersInv /\ CountInv /\ [ThreadNext]_threadVars => CountInv'
  BY CountStep
<1> QED  BY <1>1, <1>2, SellersInvariance, PTL DEF ThreadSpec

\* Every ticket is sold once, and when main has joined the sellers each has counted
\* its own (get_tickets), for any number of threads and tickets.
THEOREM SellersSellOnce == ThreadSpec => []TicketsSoldOnce
<1>1. SellersInv /\ CountInv /\ NoTicketTwice => TicketsSoldOnce
  <2> SUFFICES ASSUME SellersInv, CountInv, NoTicketTwice, joined, NEW t \in Threads
               PROVE  cnt[t] = Cardinality({i \in 1 .. Len(sold) : sold[i].by = t})
    BY DEF TicketsSoldOnce
  <2>1. at[t] = "left" /\ cnt[t] \in Nat
    BY DEF SellersInv, JoinInv, CountInv
  <2>2. Sales(sold, t) = cnt[t]
    BY <2>1 DEF CountInv
  <2> QED  BY <2>2 DEF Sales
<1> QED  BY <1>1, SellersInvariance, SellersCounted, NoneSoldTwice, PTL

\* What the broadcasts and the queue of lesson30 hold.
QueueTypes == rounds \in 0 .. MaxRounds /\ c_bq \in Seq(Tasks) /\ done \in Seq(Int)

\* The result of a task is a number, whatever its operator.
LEMMA ResultType == ASSUME NEW t \in Tasks  PROVE mymath(t) \in Int
<1>1. t.x \in Nat /\ t.y \in Nat
  BY SellersAssumption
<1>2. t.x + t.y \in Int /\ t.x - t.y \in Int /\ t.x * t.y \in Int
  BY <1>1
<1>3. t.y # 0 => t.x \div t.y \in Int /\ t.x % t.y \in Int
  BY <1>1
<1> QED  BY <1>2, <1>3 DEF mymath

\* A step of the threads keeps the types of the queue.
LEMMA QueueStep == ASSUME QueueTypes, [ThreadNext]_threadVars  PROVE QueueTypes'
<1>1. CASE produce /\ UNCHANGED threads
  <2>1. PICK t \in Tasks : c_bq' = Append(c_bq, t)
    BY <1>1 DEF produce
  <2> QED  BY <1>1, <2>1 DEF produce, threads, QueueTypes
<1>2. CASE consume /\ UNCHANGED threads
  <2>1. c_bq # <<>> /\ c_bq' = Tail(c_bq) /\ done' = Append(done, mymath(Head(c_bq))) /\ rounds' = rounds
    BY <1>2 DEF consume, threads
  <2>2. Head(c_bq) \in Tasks /\ Tail(c_bq) \in Seq(Tasks)
    BY <2>1 DEF QueueTypes
  <2>3. mymath(Head(c_bq)) \in Int
    BY <2>2, ResultType
  <2> QED  BY <2>1, <2>2, <2>3 DEF QueueTypes
<1>3. CASE UNCHANGED queues /\ rounds' = rounds
  BY <1>3 DEF queues, QueueTypes
<1>4. CASE broadcast /\ UNCHANGED queues
  BY <1>4, SellersAssumption DEF broadcast, queues, QueueTypes
<1>5. ASSUME NEW t \in Threads, Steps(t)  PROVE rounds' = rounds
  BY <1>5 DEF Steps, get_tickets, start_routine, Lock, Test, PrintTicket, Decrement, unLock, cond_wait
<1> QED  BY <1>1, <1>2, <1>3, <1>4, <1>5 DEF ThreadNext, threadVars, threads, join

\* Every variable of the sellers and of the queue has its type.
LEMMA SellersTyped == ThreadSpec => []ThreadTypeOK
<1>1. ThreadInit => QueueTypes
  BY SellersAssumption DEF ThreadInit, InitThreads, QueueTypes
<1>2. QueueTypes /\ [ThreadNext]_threadVars => QueueTypes'
  BY QueueStep
<1>3. SellersInv /\ CountInv /\ QueueTypes => ThreadTypeOK
  BY DEF SellersInv, SellersTypes, CountInv, QueueTypes, ThreadTypeOK, Labels
<1> QED  BY <1>1, <1>2, <1>3, SellersInvariance, SellersCounted, PTL DEF ThreadSpec

-----------------------------------------------------------------------------
(* UdpServers: the table of users is what the datagrams taken so far say,  *)
(* and every datagram is told of when it is taken, never later.            *)

Datagram == [from : Peers, line : Nat]

UdpTypes == UdpTypeOK /\ flying \subseteq Datagram /\ handled \in Seq(Datagram)

\* The table holds those who are online for the last datagram.
TableInv == prog = "chat" => users = {c \in Peers : OnlineAt(c, Len(handled))}

UdpInv == prog \in UdpPrograms /\ UdpTypes /\ TableInv /\ ToldExactly

\* A number behind all of S comes behind the list of S.
LEMMA InOrderMore ==
    ASSUME NEW s \in Seq(Nat), NEW n \in Nat, NEW S \in SUBSET (1 .. n), InOrder(s, S)
    PROVE  InOrder(Append(s, n + 1), S \cup {n + 1})
<1> DEFINE r == Append(s, n + 1)
           l == Len(s)
<1>1. /\ DOMAIN r = 1 .. l + 1 /\ l \in Nat /\ DOMAIN s = 1 .. l
      /\ \A i \in 1 .. l : r[i] = s[i]
      /\ r[l + 1] = n + 1
  OBVIOUS
<1>2. /\ {s[i] : i \in 1 .. l} = S
      /\ \A i, j \in 1 .. l : i < j => s[i] < s[j]
  BY <1>1 DEF InOrder
<1>3. \A i \in 1 .. l + 1 : i \in 1 .. l \/ i = l + 1
  BY <1>1
<1>4. \A i \in 1 .. l : i \in 1 .. l + 1 /\ s[i] \in 1 .. n
  BY <1>1, <1>2
<1> HIDE DEF r, l
<1>5. {r[i] : i \in DOMAIN r} = S \cup {n + 1}
  <2>1. \A i \in DOMAIN r : r[i] \in S \cup {n + 1}
    BY <1>1, <1>2, <1>3
  <2>2. \A x \in S : \E i \in DOMAIN r : r[i] = x
    BY <1>1, <1>2, <1>4
  <2>3. l + 1 \in DOMAIN r
    BY <1>1
  <2> QED  BY <1>1, <2>1, <2>2, <2>3
<1>6. ASSUME NEW i \in 1 .. l + 1, NEW j \in 1 .. l + 1, i < j  PROVE r[i] < r[j]
  <2>1. i \in 1 .. l
    BY <1>1, <1>6
  <2>2. CASE j = l + 1
    <3>1. r[i] \in 1 .. n
      BY <1>1, <1>4, <2>1
    <3> QED  BY <1>1, <2>2, <3>1
  <2>3. CASE j \in 1 .. l
    BY <1>1, <1>2, <1>6, <2>1, <2>3
  <2> QED  BY <1>3, <2>2, <2>3
<1> QED  BY <1>1, <1>5, <1>6 DEF InOrder, r

\* What was said before the next datagram stays so, and who is online for the next one.
LEMMA NextDatagram ==
    ASSUME NEW n \in Nat, n = Len(handled), handled \in Seq(Datagram), NEW d \in Datagram,
           handled' = Append(handled, d)
    PROVE  /\ Len(handled') = n + 1 /\ handled'[n + 1] = d /\ handled' \in Seq(Datagram)
           /\ \A k \in 1 .. n : handled'[k] = handled[k]
           /\ \A c : \A k \in 1 .. n : OnlineAt(c, k)' <=> OnlineAt(c, k)
           /\ \A c : OnlineAt(c, n + 1)' <=>
                 \/ d.from = c /\ Text(d) = "online"
                 \/ OnlineAt(c, n) /\ ~(d.from = c /\ Text(d) = "offline")
<1>1. /\ Len(handled') = n + 1 /\ handled'[n + 1] = d /\ handled' \in Seq(Datagram)
      /\ \A k \in 1 .. n : handled'[k] = handled[k]
  OBVIOUS
<1>2. \A c, text : \A k \in 1 .. n : Says(c, k, text)' <=> Says(c, k, text)
  BY <1>1 DEF Says, Text
<1>3. \A c, text : Says(c, n + 1, text)' <=> d.from = c /\ Text(d) = text
  BY <1>1 DEF Says, Text
<1>4. ASSUME NEW c, NEW k \in 1 .. n  PROVE OnlineAt(c, k)' <=> OnlineAt(c, k)
  <2>1. \A i \in 1 .. k : i \in 1 .. n /\ \A j \in i .. k : j \in 1 .. n
    OBVIOUS
  <2> QED  BY <1>2, <2>1 DEF OnlineAt
<1>5. ASSUME NEW c
      PROVE  OnlineAt(c, n + 1)' <=>
                 \/ d.from = c /\ Text(d) = "online"
                 \/ OnlineAt(c, n) /\ ~(d.from = c /\ Text(d) = "offline")
  <2>1. "online" # "offline"
    OBVIOUS
  <2>2. /\ \A i \in 1 .. n + 1 : i \in 1 .. n \/ i = n + 1
        /\ \A i \in 1 .. n : i \in 1 .. n + 1 /\ n + 1 \in i .. n + 1
                             /\ \A j \in i .. n : j \in 1 .. n /\ j \in i .. n + 1
        /\ \A i \in 1 .. n : \A j \in i .. n + 1 : j \in i .. n \/ j = n + 1
        /\ n + 1 \in 1 .. n + 1 /\ \A j \in n + 1 .. n + 1 : j = n + 1
    OBVIOUS
  <2>3. ASSUME OnlineAt(c, n + 1)'
        PROVE  \/ d.from = c /\ Text(d) = "online"
               \/ OnlineAt(c, n) /\ ~(d.from = c /\ Text(d) = "offline")
    <3>1. PICK i \in 1 .. n + 1 : /\ Says(c, i, "online")'
                                  /\ \A j \in i .. n + 1 : ~Says(c, j, "offline")'
      BY <2>3 DEF OnlineAt
    <3>2. CASE i = n + 1
      BY <1>3, <3>1, <3>2
    <3>3. CASE i \in 1 .. n
      <4>1. Says(c, i, "online") /\ \A j \in i .. n : ~Says(c, j, "offline")
        BY <1>2, <2>2, <3>1, <3>3
      <4>2. ~(d.from = c /\ Text(d) = "offline")
        BY <1>3, <2>2, <3>1, <3>3
      <4> QED  BY <3>3, <4>1, <4>2 DEF OnlineAt
    <3> QED  BY <2>2, <3>2, <3>3
  <2>4. ASSUME d.from = c, Text(d) = "online"  PROVE OnlineAt(c, n + 1)'
    <3>1. Says(c, n + 1, "online")' /\ ~Says(c, n + 1, "offline")'
      BY <1>3, <2>1, <2>4
    <3>2. \E i \in 1 .. n + 1 : /\ Says(c, i, "online")'
                                /\ \A j \in i .. n + 1 : ~Says(c, j, "offline")'
      BY <2>2, <3>1
    <3> QED  BY <3>2 DEF OnlineAt
  <2>5. ASSUME OnlineAt(c, n), ~(d.from = c /\ Text(d) = "offline")  PROVE OnlineAt(c, n + 1)'
    <3>1. PICK i \in 1 .. n : Says(c, i, "online") /\ \A j \in i .. n : ~Says(c, j, "offline")
      BY <2>5 DEF OnlineAt
    <3>2. Says(c, i, "online")' /\ i \in 1 .. n + 1
      BY <1>2, <2>2, <3>1
    <3>3. \A j \in i .. n + 1 : ~Says(c, j, "offline")'
      BY <1>2, <1>3, <2>2, <2>5, <3>1
    <3> QED  BY <3>2, <3>3 DEF OnlineAt
  <2> QED  BY <2>3, <2>4, <2>5
<1> QED  BY <1>1, <1>4, <1>5

-----------------------------------------------------------------------------
\* Those who are told of a datagram when it is taken are those who are to hear of it, and
\* nobody hears of an earlier one later on.
LEMMA CallbackTells ==
    ASSUME UdpInv, prog' = prog, NEW d \in Datagram, up, Callback(d), NEW n \in Nat, n = Len(handled)
    PROVE  /\ TableInv' /\ users' \subseteq Peers
           /\ \A c \in Peers : \A k \in 1 .. n : Hears(c, k)' <=> Hears(c, k)
           /\ \A c \in Peers : told'[c] = IF Hears(c, n + 1)' THEN Append(told[c], n + 1) ELSE told[c]
           /\ up' \in BOOLEAN /\ DOMAIN told' = Peers
<1>0. /\ handled' = Append(handled, d) /\ handled \in Seq(Datagram) /\ d.from \in Peers
      /\ prog \in {"echo", "dict", "command", "chat"} /\ users \subseteq Peers
  BY DEF UdpInv, UdpTypes, UdpTypeOK, Callback, Datagram
<1>1. /\ Len(handled') = n + 1 /\ handled'[n + 1] = d
      /\ \A k \in 1 .. n : handled'[k] = handled[k]
      /\ \A c : \A k \in 1 .. n : OnlineAt(c, k)' <=> OnlineAt(c, k)
      /\ \A c : OnlineAt(c, n + 1)' <=>
            \/ d.from = c /\ Text(d) = "online"
            \/ OnlineAt(c, n) /\ ~(d.from = c /\ Text(d) = "offline")
  BY <1>0, NextDatagram
<1>2. ASSUME NEW c \in Peers, NEW k \in 1 .. n  PROVE Hears(c, k)' <=> Hears(c, k)
  <2>1. handled'[k] = handled[k] /\ k < Len(handled') /\ k \in 1 .. n + 1
    BY <1>1
  <2>2. CASE prog = "chat"
    <3>1. \A x : OnlineAt(x, k)' <=> OnlineAt(x, k)
      BY <1>1
    <3>2. OnlineAt(handled[k].from, k)' <=> OnlineAt(handled[k].from, k)
      <4>1. PICK x : x = handled[k].from
        OBVIOUS
      <4>2. OnlineAt(handled[k].from, k)' <=> OnlineAt(x, k)'
        BY <2>1, <4>1 DEF OnlineAt, Says
      <4> QED  BY <3>1, <4>1, <4>2
    <3> QED  BY <2>1, <2>2, <3>1, <3>2 DEF Hears
  <2>3. CASE prog # "chat"
    BY <1>0, <2>1, <2>3 DEF Hears
  <2> QED  BY <2>2, <2>3
<1>3. ASSUME NEW cs \in SUBSET Peers, SendToOne(cs),
             \A c \in Peers : c \in cs <=> Hears(c, n + 1)'
      PROVE  /\ \A c \in Peers : told'[c] = IF Hears(c, n + 1)' THEN Append(told[c], n + 1) ELSE told[c]
             /\ DOMAIN told' = Peers
  BY <1>1, <1>3 DEF SendToOne
<1>4. CASE prog # "chat"
  <2>1. TableInv' /\ users' \subseteq Peers /\ up' \in BOOLEAN
    BY <1>0, <1>4 DEF TableInv, Callback, Echo, handlerMessage, execCmd, UdpInv, UdpTypes, UdpTypeOK
  <2>2. \A c \in Peers : Hears(c, n + 1)' <=> c = d.from /\ up'
    BY <1>0, <1>1, <1>4 DEF Hears
  <2>3. \E cs \in SUBSET Peers : SendToOne(cs) /\ \A c \in Peers : c \in cs <=> c = d.from /\ up'
    <3>1. CASE SendToOne({d.from}) /\ up'
      BY <1>0, <3>1
    <3>2. CASE SendToOne({}) /\ ~up'
      BY <3>2
    <3> QED  BY <1>4, <3>1, <3>2 DEF Callback, Echo, handlerMessage, execCmd
  <2> QED  BY <1>2, <1>3, <2>1, <2>2, <2>3
<1>5. CASE prog = "chat"
  <2> DEFINE m == Text(d)
             f == d.from
  <2>1. /\ users' = CASE m = "online" -> users \cup {f} [] m = "offline" -> users \ {f} [] OTHER -> users
        /\ IF f \in users' THEN SendToOne(users') ELSE SendToOne({f})
        /\ up' = up
    BY <1>5 DEF Callback, routeMessage, is_online, Broadcast, AddUser, DelUser
  <2>2. users = {c \in Peers : OnlineAt(c, n)}
    BY <1>5 DEF UdpInv, TableInv
  <2>3. "online" # "offline"
    OBVIOUS
  <2>4. users' \subseteq Peers /\ \A c \in Peers : c \in users' <=> OnlineAt(c, n + 1)'
    <3> HIDE DEF m, f
    <3>1. \A c : OnlineAt(c, n + 1)' <=>
            \/ f = c /\ m = "online"
            \/ OnlineAt(c, n) /\ ~(f = c /\ m = "offline")
      BY <1>1 DEF m, f
    <3>2. f \in Peers
      BY <1>0 DEF f
    <3>3. CASE m = "online"
      <4>1. users' = users \cup {f}
        BY <2>1, <2>3, <3>3
      <4> QED  BY <2>2, <2>3, <3>1, <3>2, <3>3, <4>1
    <3>4. CASE m = "offline"
      <4>1. users' = users \ {f}
        BY <2>1, <2>3, <3>4
      <4> QED  BY <2>2, <2>3, <3>1, <3>2, <3>4, <4>1
    <3>5. CASE m # "online" /\ m # "offline"
      <4>1. users' = users
        BY <2>1, <3>5
      <4> QED  BY <2>2, <3>1, <3>2, <3>5, <4>1
    <3> QED  BY <3>3, <3>4, <3>5
  <2>5. TableInv'
    <3>1. Len(handled)' = n + 1
      BY <1>1
    <3>2. users' = {c \in Peers : OnlineAt(c, n + 1)'}
      BY <2>4
    <3>3. \A c : OnlineAt(c, Len(handled))' <=> OnlineAt(c, n + 1)'
      BY <3>1 DEF OnlineAt
    <3> QED  BY <3>2, <3>3 DEF TableInv
  <2>6. \A c \in Peers : Hears(c, n + 1)' <=> c = f \/ (OnlineAt(c, n + 1)' /\ OnlineAt(f, n + 1)')
    <3>1. OnlineAt(handled[n + 1].from, n + 1)' <=> OnlineAt(f, n + 1)'
      BY <1>1 DEF OnlineAt, Says
    <3> QED  BY <1>1, <1>5, <3>1 DEF Hears
  <2>7. \E cs \in SUBSET Peers : SendToOne(cs) /\ \A c \in Peers : c \in cs <=> Hears(c, n + 1)'
    <3>1. CASE f \in users'
      BY <1>0, <2>1, <2>4, <2>6, <3>1
    <3>2. CASE f \notin users'
      BY <1>0, <2>1, <2>4, <2>6, <3>2
    <3> QED  BY <3>1, <3>2
  <2>8. up' \in BOOLEAN
    BY <2>1 DEF UdpInv, UdpTypes, UdpTypeOK
  <2> QED  BY <1>2, <1>3, <2>4, <2>5, <2>7, <2>8
<1> QED  BY <1>4, <1>5

\* A turn of the loop that does more than print tells those it should.
LEMMA CallbackStep ==
    ASSUME UdpInv, prog' = prog, NEW d \in flying, up, Arrives(d), Callback(d), said' = said
    PROVE  UdpInv'
<1>0. /\ d \in Datagram /\ d.from \in Peers /\ d.line \in 1 .. said[d.from]
      /\ handled' = Append(handled, d) /\ handled \in Seq(Datagram)
      /\ prog \in {"echo", "dict", "command", "chat"}
      /\ flying' \subseteq flying /\ copies' \in 0 .. MaxCopies
      /\ told \in [Peers -> Seq(Nat)]
  <2>1. copies' \in 0 .. MaxCopies
    BY UdpAssumption DEF UdpInv, UdpTypes, UdpTypeOK, Arrives
  <2> QED  BY <2>1 DEF UdpInv, UdpTypes, UdpTypeOK, Callback, Arrives
<1>1. PICK n \in Nat : n = Len(handled)
  BY <1>0
<1>2. /\ Len(handled') = n + 1 /\ handled'[n + 1] = d /\ handled' \in Seq(Datagram)
      /\ \A k \in 1 .. n : handled'[k] = handled[k]
  BY <1>0, <1>1
<1>3. /\ TableInv' /\ users' \subseteq Peers
      /\ \A c \in Peers : \A k \in 1 .. n : Hears(c, k)' <=> Hears(c, k)
      /\ \A c \in Peers : told'[c] = IF Hears(c, n + 1)' THEN Append(told[c], n + 1) ELSE told[c]
      /\ up' \in BOOLEAN /\ DOMAIN told' = Peers
  BY <1>0, <1>1, CallbackTells
<1>4. told' \in [Peers -> Seq(Nat)]
  <2>1. \A c \in Peers : told'[c] \in Seq(Nat)
    <3>1. \A s \in Seq(Nat) : Append(s, n + 1) \in Seq(Nat)
      OBVIOUS
    <3> QED  BY <1>0, <1>3, <3>1
  <2>2. told' = [c \in Peers |-> told'[c]]
    BY <1>0 DEF Callback, SendToOne, Echo, handlerMessage, execCmd, routeMessage, Broadcast
  <2> QED  BY <2>1, <2>2
<1>5. \A k \in 1 .. Len(handled') : handled'[k].line \in 1 .. said'[handled'[k].from]
  <2> TAKE k \in 1 .. Len(handled')
  <2>1. k \in 1 .. n \/ k = n + 1
    BY <1>1, <1>2
  <2> QED  BY <1>0, <1>1, <1>2, <2>1 DEF UdpInv, UdpTypes, UdpTypeOK
<1>6. UdpTypes'
  BY <1>0, <1>2, <1>3, <1>4, <1>5 DEF UdpInv, UdpTypes, UdpTypeOK
<1>7. ToldExactly'
  <2> SUFFICES ASSUME NEW c \in Peers
               PROVE  InOrder(told'[c], {k \in 1 .. Len(handled') : Hears(c, k)'})
    BY DEF ToldExactly, InOrder
  <2> DEFINE S == {k \in 1 .. n : Hears(c, k)}
             T == {k \in 1 .. Len(handled') : Hears(c, k)'}
  <2>1. S \in SUBSET (1 .. n) /\ InOrder(told[c], S) /\ told[c] \in Seq(Nat)
    BY <1>0, <1>1 DEF UdpInv, ToldExactly
  <2>2. \A k \in 1 .. n + 1 : k \in 1 .. n \/ k = n + 1
    OBVIOUS
  <2>3. \A k \in 1 .. n : k \in 1 .. n + 1
    OBVIOUS
  <2>4. n + 1 \in 1 .. n + 1
    OBVIOUS
  <2>5. CASE Hears(c, n + 1)'
    <3>1. T = S \cup {n + 1}
      BY <1>2, <1>3, <2>2, <2>3, <2>4, <2>5
    <3>2. told'[c] = Append(told[c], n + 1)
      BY <1>3, <2>5
    <3> HIDE DEF S, T
    <3>3. InOrder(Append(told[c], n + 1), S \cup {n + 1})
      BY <2>1, InOrderMore
    <3>4. InOrder(told'[c], T)
      BY <3>1, <3>2, <3>3
    <3> QED  BY <3>4 DEF T
  <2>6. CASE ~Hears(c, n + 1)'
    <3>1. T = S
      BY <1>2, <1>3, <2>2, <2>3, <2>6
    <3>2. told'[c] = told[c]
      BY <1>3, <2>6
    <3> HIDE DEF S, T
    <3>3. InOrder(told'[c], T)
      BY <2>1, <3>1, <3>2
    <3> QED  BY <3>3 DEF T
  <2> QED  BY <2>5, <2>6
<1> QED  BY <1>0, <1>3, <1>6, <1>7 DEF UdpInv

\* A step that takes no datagram.
LEMMA NothingTaken ==
    ASSUME UdpInv, UNCHANGED <<prog, users, up, handled, told>>, UdpTypes'
    PROVE  UdpInv'
<1>1. \A c, k : OnlineAt(c, k)' <=> OnlineAt(c, k)
  BY DEF OnlineAt, Says, Text
<1>2. \A c, k : Hears(c, k)' <=> Hears(c, k)
  BY <1>1 DEF Hears, OnlineAt, Says, Text
<1>3. TableInv'
  BY <1>1 DEF UdpInv, TableInv
<1>4. ToldExactly'
  BY <1>2 DEF UdpInv, ToldExactly, InOrder
<1> QED  BY <1>3, <1>4 DEF UdpInv

\* A step of a client, of the network or of the server keeps the invariant.
LEMMA UdpStep == ASSUME UdpInv, [UdpNext]_udpVars  PROVE UdpInv'
<1>0. /\ UdpTypes /\ said \in [Peers -> Nat] /\ flying \subseteq Datagram /\ handled \in Seq(Datagram)
      /\ \A c \in Peers : Lines[c] \in Seq(STRING) /\ said[c] <= Len(Lines[c])
      /\ \A d \in flying : d.from \in Peers /\ d.line \in 1 .. said[d.from]
      /\ \A i \in 1 .. Len(handled) : handled[i].line \in 1 .. said[handled[i].from]
      /\ \A i \in 1 .. Len(handled) : handled[i].from \in Peers
      /\ copies \in 0 .. MaxCopies
  <2>1. UdpTypes /\ UdpTypeOK /\ flying \subseteq Datagram /\ handled \in Seq(Datagram)
    BY DEF UdpInv, UdpTypes
  <2>2. \A i \in 1 .. Len(handled) : handled[i] \in Datagram
    BY <2>1
  <2>3. \A i \in 1 .. Len(handled) : handled[i].from \in Peers
    BY <2>2 DEF Datagram
  <2> QED  BY <2>1, <2>3, UdpAssumption DEF UdpTypeOK
<1>1. ASSUME NEW c \in Peers, run(c), prog' = prog  PROVE UdpInv'
  <2>1. /\ said' = [said EXCEPT ![c] = said[c] + 1] /\ said[c] < Len(Lines[c])
        /\ flying' = flying \cup {[from |-> c, line |-> said[c] + 1]}
        /\ UNCHANGED <<copies, users, up, handled, told>>
    BY <1>0, <1>1 DEF run
  <2>2. /\ said' \in [Peers -> Nat] /\ said'[c] = said[c] + 1 /\ said[c] \in Nat
        /\ \A x \in Peers : x # c => said'[x] = said[x]
        /\ \A x \in Peers : said'[x] <= Len(Lines[x])
    <3>1. Len(Lines[c]) \in Nat /\ said[c] \in Nat
      BY <1>0
    <3> QED  BY <1>0, <2>1, <3>1
  <2>3. \A x \in Peers : \A i \in 1 .. said[x] : i \in 1 .. said'[x]
    BY <1>0, <2>2
  <2>4. said[c] + 1 \in 1 .. said'[c]
    BY <2>2
  <2>5. \A d \in flying' : d \in Datagram /\ d.from \in Peers /\ d.line \in 1 .. said'[d.from]
    <3> TAKE d \in flying'
    <3>1. CASE d \in flying
      BY <1>0, <2>3, <3>1
    <3>2. CASE d = [from |-> c, line |-> said[c] + 1]
      BY <2>2, <2>4, <3>2 DEF Datagram
    <3> QED  BY <2>1, <3>1, <3>2
  <2>6. \A i \in 1 .. Len(handled) : handled[i].line \in 1 .. said'[handled[i].from]
    BY <1>0, <2>3
  <2>7. UdpTypes'
    BY <1>0, <2>1, <2>2, <2>5, <2>6 DEF UdpTypes, UdpTypeOK
  <2> QED  BY <1>1, <2>1, <2>7, NothingTaken
<1>2. ASSUME NEW d \in flying, Lose(d), prog' = prog  PROVE UdpInv'
  <2>1. flying' \subseteq flying /\ UNCHANGED <<said, copies, users, up, handled, told>>
    BY <1>2 DEF Lose
  <2>2. UdpTypes'
    BY <1>0, <2>1 DEF UdpTypes, UdpTypeOK
  <2> QED  BY <1>2, <2>1, <2>2, NothingTaken
<1>3. ASSUME NEW d \in flying, start(d), prog' = prog, prog # "lesson33"  PROVE UdpInv'
  BY <1>3, CallbackStep DEF start
<1>4. ASSUME NEW d \in flying, start(d), prog' = prog, prog = "lesson33"  PROVE UdpInv'
  <2>1. /\ UNCHANGED <<users, up, told, said>> /\ flying' \subseteq flying
        /\ handled' = handled \/ handled' = Append(handled, d)
    BY <1>4 DEF start, PrintMessage, Arrives
  <2>2. d \in Datagram /\ d.from \in Peers /\ d.line \in 1 .. said[d.from]
    BY <1>0
  <2>3. /\ handled' \in Seq(Datagram)
        /\ \A i \in 1 .. Len(handled') : (i \in 1 .. Len(handled) /\ handled'[i] = handled[i]) \/ handled'[i] = d
    <3>1. CASE handled' = handled
      BY <1>0, <3>1
    <3>2. CASE handled' = Append(handled, d)
      BY <1>0, <2>2, <3>2
    <3> QED  BY <2>1, <3>1, <3>2
  <2>4. copies' \in 0 .. MaxCopies
    BY <1>0, <1>4, UdpAssumption DEF start, Arrives
  <2>5. UdpTypes'
    BY <1>0, <2>1, <2>2, <2>3, <2>4 DEF UdpTypes, UdpTypeOK
  <2>6. ToldExactly'
    <3>1. \A c \in Peers : told[c] = <<>>
      <4> TAKE c \in Peers
      <4>1. \A k : ~Hears(c, k)
        BY <1>4 DEF Hears
      <4>2. {k \in 1 .. Len(handled) : Hears(c, k)} = {}
        BY <4>1
      <4>3. {told[c][i] : i \in DOMAIN told[c]} = {} /\ told[c] \in Seq(Nat)
        BY <1>0, <4>2 DEF UdpInv, ToldExactly, InOrder, UdpTypes, UdpTypeOK
      <4>4. DOMAIN told[c] = {}
        BY <4>3
      <4>5. \A s \in Seq(Nat) : s # <<>> => 1 \in DOMAIN s
        OBVIOUS
      <4> QED  BY <4>3, <4>4, <4>5
    <3>2. \A c, k : ~Hears(c, k)'
      BY <1>4 DEF Hears
    <3>3. DOMAIN <<>> = {}
      OBVIOUS
    <3> QED  BY <2>1, <3>1, <3>2, <3>3 DEF ToldExactly, InOrder
  <2> QED  BY <1>4, <2>5, <2>6 DEF UdpInv, TableInv
<1>5. CASE UNCHANGED udpVars
  <2>1. UNCHANGED <<prog, said, flying, copies, users, up, handled, told>>
    BY <1>5 DEF udpVars, udp
  <2>2. UdpTypes'
    BY <2>1 DEF UdpInv, UdpTypes, UdpTypeOK
  <2> QED  BY <2>1, <2>2, NothingTaken
<1> QED  BY <1>1, <1>2, <1>3, <1>4, <1>5 DEF UdpNext

\* The invariant holds before anything is sent.
LEMMA UdpStarts == ASSUME UdpInit  PROVE UdpInv
<1>1. /\ prog \in UdpPrograms /\ said = [c \in Peers |-> 0] /\ flying = {} /\ copies = 0
      /\ users = {} /\ up = TRUE /\ handled = <<>> /\ told = [c \in Peers |-> <<>>]
  BY DEF UdpInit, InitUdp
<1>2. <<>> \in Seq(Datagram) /\ Len(<<>>) = 0 /\ DOMAIN <<>> = {} /\ <<>> \in Seq(Nat)
  OBVIOUS
<1>3. \A c \in Peers : said[c] <= Len(Lines[c])
  <2>1. \A s \in Seq(STRING) : 0 <= Len(s)
    OBVIOUS
  <2> QED  BY <1>1, <2>1, UdpAssumption
<1>4. UdpTypes
  BY <1>1, <1>2, <1>3, UdpAssumption DEF UdpTypes, UdpTypeOK
<1>5. TableInv
  BY <1>1, <1>2 DEF TableInv, OnlineAt
<1>6. ToldExactly
  BY <1>1, <1>2 DEF ToldExactly, InOrder
<1> QED  BY <1>1, <1>4, <1>5, <1>6 DEF UdpInv

\* However datagrams are lost, doubled and reordered, every client hears once and in the
\* server's order of exactly what it should, for any number of clients and lines.
THEOREM UdpTellsExactly == UdpSpec => []ToldExactly
<1>1. UdpInv => ToldExactly
  BY DEF UdpInv
<1> QED  BY <1>1, UdpStarts, UdpStep, PTL DEF UdpSpec
-----------------------------------------------------------------------------
(* PipePrograms: a pipe is at its end only when its writers are gone, and  *)
(* they go behind the last thing they write.                               *)

Calls == {"fork", "fcntl", "send", "close", "read", "poll", "sleep", "waitpid", "exit"}
KidStates == {"none", "new", "loop", "zombie", "reaped"}
Children == 1 .. PROCESS_NUM

\* Pipes carry tasks or bytes of messages.
PipeTypes ==
    /\ father \in [call : Calls, k : 0 .. PROCESS_NUM]
    /\ kid \in [Children -> KidStates]
    /\ data \in [Children -> Seq(Everything)] /\ writers \in [Children -> SUBSET (0 .. PROCESS_NUM)]
    /\ left \in 0 .. taskCnt
    /\ put \in [Children -> Seq(Everything)] /\ taken \in [Children -> Seq(Everything)]

\* What went in has come out or is still there.
PipeFlow == \A k \in Children : taken[k] \o data[k] = put[k]

\* The father of the pool keeps the write ends until it has sent the last task; so a
\* child that has ended found its pipe empty for good.
PoolEnds ==
    prog = "procpool" =>
        /\ father.call \in {"fork", "send", "close", "waitpid", "exit"}
        /\ father.call \in {"fork", "close", "waitpid"} => father.k \in Children
        /\ taskCnt = 0 => father.call \in {"fork", "send"}
        /\ father.call \in {"fork", "send"} => \A k \in Children :
              /\ kid[k] # "none" => 0 \in writers[k]
              /\ kid[k] \in {"none", "new", "loop"}
        /\ \A k \in Children : kid[k] \in {"zombie", "reaped"} => data[k] = <<>>
        /\ father.call \in {"close", "waitpid"} =>
              \A k \in Children : k < father.k => kid[k] = "reaped"
        /\ father.call = "exit" => \A k \in Children : kid[k] = "reaped"

\* The tasks in the pipes are those from 0 up to the next one.
SentSoFar(n) == n < Task \/ father.call \notin {"fork", "send"}

PoolNumbers ==
    prog = "procpool" /\ taskCnt # 0 =>
        /\ father.call = "fork" => left = taskCnt
        /\ \A n \in 0 .. taskCnt : SentSoFar(n) => \E k \in Children : \E a \in DOMAIN put[k] : put[k][a] = n
        /\ \A k \in Children : \A a \in DOMAIN put[k] : SentSoFar(put[k][a])

\* Nothing is put into the pipes twice.
PutOnce ==
    prog # "procpool" \/ taskCnt # 0 =>
        \A j, k \in Kids : \A a \in DOMAIN put[j], b \in DOMAIN put[k] :
            put[j][a] = put[k][b] => j = k /\ a = b

\* The writer of mypipe and testcode holds its end until all is written.
Sent == IF put[1] = <<>> THEN 0 ELSE put[1][Len(put[1])][1] + 1

WriterHolds ==
    prog # "procpool" =>
        /\ kid[1] \in {"none", "new", "zombie", "reaped"}
        /\ kid[1] = "new" => 1 \in writers[1]
        /\ kid[1] = "none" => father.call = "fork"
        /\ father.call \in {"waitpid", "exit"} =>
              kid[1] \in {"zombie", "reaped"} /\ data[1] = <<>>
        /\ prog = "mypipe" =>
              /\ father.call \in {"fork", "close", "read", "waitpid", "exit"}
              /\ father.call = "exit" => kid[1] = "reaped"
        /\ prog = "testcode" => father.call \in {"fcntl", "poll", "sleep", "exit"}

\* The first messages, whole, each byte of them once: s is what was written of
\* them, and every message has k bytes.
Whole(s, sent, k) ==
    /\ \A a \in DOMAIN s : s[a] \in (0 .. sent - 1) \X (1 .. k)
    /\ \A n \in 0 .. sent - 1, i \in 1 .. k : \E a \in DOMAIN s : s[a] = <<n, i>>
    /\ \A a, b \in DOMAIN s : s[a] = s[b] => a = b

\* What it has written are the first messages, whole.
MessagesInv ==
    prog # "procpool" =>
        /\ Sent \in 0 .. NumMessages
        /\ kid[1] \in {"zombie", "reaped"} => Sent = NumMessages
        /\ Whole(put[1], Sent, MessageSize)

PipeInv ==
    /\ prog \in PipingPrograms /\ PipeTypes /\ PipeFlow
    /\ PoolEnds /\ PoolNumbers /\ PutOnce /\ WriterHolds /\ MessagesInv

-----------------------------------------------------------------------------
\* Two parts of a sequence, joined again.
LEMMA CutAndJoined ==
    ASSUME NEW S, NEW s \in Seq(S), NEW n \in 0 .. Len(s)
    PROVE  /\ SubSeq(s, 1, n) \o SubSeq(s, n + 1, Len(s)) = s
           /\ SubSeq(s, 1, n) \in Seq(S) /\ SubSeq(s, n + 1, Len(s)) \in Seq(S)
<1>1. Len(s) \in Nat
  BY LenProperties
<1>2. 1 \in 1 .. (Len(s) + 1) /\ n \in (1 - 1) .. Len(s) /\ Len(s) \in n .. Len(s)
  BY <1>1
<1>3. SubSeq(s, 1, n) \o SubSeq(s, n + 1, Len(s)) = SubSeq(s, 1, Len(s))
  BY <1>2, ConcatAdjacentSubSeq
<1>4. SubSeq(s, 1, n) \in Seq(S) /\ SubSeq(s, n + 1, Len(s)) \in Seq(S)
  BY <1>1
<1> QED  BY <1>3, <1>4, SubSeqFull

\* A write goes to the end of one pipe.
LEMMA WriteStep ==
    ASSUME PipeTypes, PipeFlow, NEW k \in Children, NEW s \in Seq(Everything), Write(k, s)
    PROVE  /\ data' \in [Children -> Seq(Everything)] /\ put' \in [Children -> Seq(Everything)]
           /\ data'[k] = data[k] \o s /\ put'[k] = put[k] \o s
           /\ \A j \in Children : j # k => data'[j] = data[j] /\ put'[j] = put[j]
           /\ \A j \in Children : taken[j] \o data'[j] = put'[j]
<1> DEFINE E == Everything
<1>1. /\ data \in [Children -> Seq(E)] /\ put \in [Children -> Seq(E)] /\ taken \in [Children -> Seq(E)]
      /\ s \in Seq(E) /\ \A j \in Children : taken[j] \o data[j] = put[j]
  BY DEF PipeTypes, PipeFlow
<1> HIDE DEF E
<1>2. data[k] \o s \in Seq(E) /\ put[k] \o s \in Seq(E)
  BY <1>1
<1>3. /\ data' \in [Children -> Seq(E)] /\ put' \in [Children -> Seq(E)]
      /\ data'[k] = data[k] \o s /\ put'[k] = put[k] \o s
      /\ \A j \in Children : j # k => data'[j] = data[j] /\ put'[j] = put[j]
  BY <1>1, <1>2 DEF Write
<1>4. taken[k] \o (data[k] \o s) = (taken[k] \o data[k]) \o s
  <2>1. \A a, b, c \in Seq(E) : a \o (b \o c) = (a \o b) \o c
    OBVIOUS
  <2> QED  BY <1>1, <2>1
<1>5. \A j \in Children : taken[j] \o data'[j] = put'[j]
  BY <1>1, <1>3, <1>4
<1> QED  BY <1>3, <1>5 DEF E

\* A read takes from the front of one pipe.
LEMMA ReadsStep ==
    ASSUME PipeTypes, PipeFlow, NEW k \in Children, NEW n \in 0 .. Len(data[k]), Read(k, n)
    PROVE  /\ data' \in [Children -> Seq(Everything)] /\ taken' \in [Children -> Seq(Everything)]
           /\ \A j \in Children : j # k => data'[j] = data[j] /\ taken'[j] = taken[j]
           /\ \A j \in Children : taken'[j] \o data'[j] = put[j]
<1> DEFINE E == Everything
<1>1. /\ data \in [Children -> Seq(E)] /\ put \in [Children -> Seq(E)] /\ taken \in [Children -> Seq(E)]
      /\ \A j \in Children : taken[j] \o data[j] = put[j]
  BY DEF PipeTypes, PipeFlow
<1> HIDE DEF E
<1> DEFINE a == SubSeq(data[k], 1, n)
           b == SubSeq(data[k], n + 1, Len(data[k]))
<1>2. a \o b = data[k] /\ a \in Seq(E) /\ b \in Seq(E)
  BY <1>1, CutAndJoined
<1>3. data' = [data EXCEPT ![k] = b] /\ taken' = [taken EXCEPT ![k] = @ \o a]
  BY <1>1 DEF Read
<1> HIDE DEF a, b
<1>4. taken[k] \o a \in Seq(E)
  BY <1>1, <1>2
<1>5. /\ data' \in [Children -> Seq(E)] /\ taken' \in [Children -> Seq(E)]
      /\ data'[k] = b /\ taken'[k] = taken[k] \o a
      /\ \A j \in Children : j # k => data'[j] = data[j] /\ taken'[j] = taken[j]
  BY <1>1, <1>2, <1>3, <1>4
<1>6. (taken[k] \o a) \o b = taken[k] \o (a \o b)
  <2>1. \A x, y, z \in Seq(E) : x \o (y \o z) = (x \o y) \o z
    OBVIOUS
  <2> QED  BY <1>1, <1>2, <2>1
<1>7. \A j \in Children : taken'[j] \o data'[j] = put[j]
  BY <1>1, <1>2, <1>5, <1>6
<1> QED  BY <1>5, <1>7 DEF E

\* The read of a buffer is a read.
LEMMA BufferStep ==
    ASSUME PipeTypes, NEW k \in Children, ReadBuffer(k)
    PROVE  \E n \in 0 .. Len(data[k]) : Read(k, n)
<1>1. Len(data[k]) \in Nat /\ BufferSize \in Nat
  BY PipeAssumption DEF PipeTypes
<1>2. CASE Len(data[k]) < BufferSize
  BY <1>1, <1>2 DEF ReadBuffer
<1>3. CASE ~(Len(data[k]) < BufferSize)
  BY <1>1, <1>3 DEF ReadBuffer
<1> QED  BY <1>2, <1>3

\* Closing takes one process from the writers of some pipes.
LEMMA ClosedStep ==
    ASSUME PipeTypes, NEW p, NEW ks
    PROVE  /\ Closed(p, ks) \in [Children -> SUBSET (0 .. PROCESS_NUM)]
           /\ \A j \in Children : \A q \in writers[j] : q # p => q \in Closed(p, ks)[j]
<1>1. writers \in [Children -> SUBSET (0 .. PROCESS_NUM)] /\ DOMAIN writers = Children
  BY DEF PipeTypes
<1> QED  BY <1>1 DEF Closed

\* A fork adds to the writers.
LEMMA ForkStep ==
    ASSUME PipeTypes, NEW k \in Children, Fork(k)
    PROVE  /\ kid' \in [Children -> KidStates] /\ kid'[k] = "new"
           /\ \A j \in Children : j # k => kid'[j] = kid[j]
           /\ writers' \in [Children -> SUBSET (0 .. PROCESS_NUM)]
           /\ writers'[k] = {0, k}
           /\ \A j \in Children : j # k => writers[j] \subseteq writers'[j]
<1>1. /\ writers \in [Children -> SUBSET (0 .. PROCESS_NUM)] /\ DOMAIN writers = Children
      /\ kid \in [Children -> KidStates] /\ k \in 0 .. PROCESS_NUM /\ 0 \in 0 .. PROCESS_NUM
  BY PipeAssumption DEF PipeTypes, Children
<1>2. kid' = [kid EXCEPT ![k] = "new"] /\ "new" \in KidStates
  BY DEF Fork, KidStates
<1>3. writers' = [j \in Children |->
                     IF j = k THEN {0, k}
                     ELSE IF 0 \in writers[j] THEN writers[j] \cup {k}
                     ELSE writers[j]]
  BY <1>1 DEF Fork
<1> QED  BY <1>1, <1>2, <1>3

\* What the pipes can carry depends on the program alone.
LEMMA SameProgram ==
    ASSUME prog' = prog
    PROVE  Everything' = Everything /\ Kids' = Kids
BY DEF Everything, Kids

-----------------------------------------------------------------------------
(* The steps of the pool.                                                  *)

\* A step that neither writes nor reads keeps what is in the pipes and their numbers.
LEMMA PipesKept ==
    ASSUME PipeInv, prog = "procpool", prog' = prog, UNCHANGED <<data, put, taken, left>>,
           father.call \in {"fork", "send"} <=> father'.call \in {"fork", "send"}
    PROVE  PipeFlow' /\ PutOnce' /\ (PoolNumbers' <=> (taskCnt # 0 /\ father'.call = "fork" => left = taskCnt))
<1>1. PipeFlow' /\ PutOnce'
  <2>1. Kids' = Kids /\ data' = data /\ put' = put /\ taken' = taken
    BY SameProgram
  <2>2. PipeFlow'
    BY <2>1 DEF PipeInv, PipeFlow
  <2> QED  BY <2>1, <2>2 DEF PipeInv, PutOnce
<1>2. \A n : SentSoFar(n)' <=> SentSoFar(n)
  BY DEF SentSoFar, Task
<1>3. PoolNumbers' <=> (taskCnt # 0 /\ father'.call = "fork" => left = taskCnt)
  BY <1>2 DEF PipeInv, PoolNumbers
<1> QED  BY <1>1, <1>3

\* The father makes one child more.
LEMMA CreateProcessStep == ASSUME PipeInv, createprocess, prog' = prog  PROVE PipeInv'
<1>0. /\ PipeTypes /\ PipeFlow /\ PoolEnds /\ PoolNumbers /\ prog = "procpool"
      /\ father.call = "fork" /\ father.k \in Children
      /\ UNCHANGED <<data, left, put, taken>> /\ Fork(father.k)
      /\ PROCESS_NUM \in Nat
  BY PipeAssumption DEF PipeInv, createprocess, PoolEnds
<1>1. PICK k \in Children : k = father.k
  BY <1>0
<1>2. /\ kid' \in [Children -> KidStates] /\ kid'[k] = "new"
      /\ \A j \in Children : j # k => kid'[j] = kid[j]
      /\ writers' \in [Children -> SUBSET (0 .. PROCESS_NUM)]
      /\ writers'[k] = {0, k}
      /\ \A j \in Children : j # k => writers[j] \subseteq writers'[j]
  BY <1>0, <1>1, ForkStep
<1>3. father' = [call |-> "send", k |-> 0] \/ (father' = [call |-> "fork", k |-> k + 1] /\ k + 1 \in Children)
  BY <1>0, <1>1 DEF createprocess, Father, Children
<1>4. PipeTypes'
  <2>1. father' \in [call : Calls, k : 0 .. PROCESS_NUM]
    BY <1>0, <1>3 DEF Calls, Children
  <2> QED  BY <1>0, <1>2, <2>1, SameProgram DEF PipeTypes
<1>5. father'.call \in {"fork", "send"} /\ (father'.call = "fork" => father'.k \in Children)
  BY <1>3
<1>6. PoolEnds'
  <2>1. \A j \in Children : (kid'[j] # "none" => 0 \in writers'[j]) /\ kid'[j] \in {"none", "new", "loop"}
    <3> SUFFICES ASSUME NEW j \in Children
                 PROVE  (kid'[j] # "none" => 0 \in writers'[j]) /\ kid'[j] \in {"none", "new", "loop"}
      OBVIOUS
    <3>1. CASE j = k
      BY <1>2, <3>1
    <3>2. CASE j # k
      BY <1>0, <1>2, <3>2 DEF PoolEnds
    <3> QED  BY <3>1, <3>2
  <2> QED  BY <1>5, <2>1 DEF PoolEnds
<1>7. PipeFlow' /\ PutOnce' /\ PoolNumbers'
  BY <1>0, <1>5, PipesKept DEF PipeInv, PoolNumbers
<1> QED  BY <1>0, <1>4, <1>6, <1>7 DEF PipeInv, PipingPrograms, WriterHolds, MessagesInv

\* The child closes what it has inherited; the father's own ends stay.
LEMMA CloseEndsStep ==
    ASSUME PipeInv, NEW k \in Children, closeEnds(k), prog' = prog
    PROVE  PipeInv'
<1>0. /\ PipeTypes /\ PipeFlow /\ PoolEnds /\ PoolNumbers /\ prog = "procpool"
      /\ kid[k] = "new" /\ kid' = [kid EXCEPT ![k] = "loop"]
      /\ writers' = Closed(k, 1 .. k)
      /\ UNCHANGED <<father, data, left, put, taken>>
  BY DEF PipeInv, closeEnds
<1>1. /\ writers' \in [Children -> SUBSET (0 .. PROCESS_NUM)]
      /\ \A j \in Children : 0 \in writers[j] => 0 \in writers'[j]
  BY <1>0, ClosedStep DEF Children
<1>2. /\ kid' \in [Children -> KidStates] /\ kid'[k] = "loop"
      /\ \A j \in Children : j # k => kid'[j] = kid[j]
  BY <1>0 DEF PipeTypes, KidStates
<1>3. PipeTypes'
  BY <1>0, <1>1, <1>2, SameProgram DEF PipeTypes
<1>4. PoolEnds'
  BY <1>0, <1>1, <1>2 DEF PoolEnds
<1>5. PipeFlow' /\ PutOnce' /\ PoolNumbers'
  BY <1>0, PipesKept DEF PipeInv, PoolNumbers
<1> QED  BY <1>0, <1>3, <1>4, <1>5 DEF PipeInv, PipingPrograms, WriterHolds, MessagesInv

\* The child takes a task, or finds the end of its pipe, which the father has then left.
LEMMA TaskStep ==
    ASSUME PipeInv, NEW k \in Children, recevTask(k), prog' = prog
    PROVE  PipeInv'
<1>0. /\ PipeTypes /\ PipeFlow /\ PoolEnds /\ PoolNumbers /\ PutOnce /\ prog = "procpool"
      /\ kid[k] = "loop" /\ UNCHANGED <<father, left, put>>
  BY DEF PipeInv, recevTask
<1>1. CASE data[k] # <<>> /\ Read(k, 1) /\ UNCHANGED <<kid, writers, put>>
  <2>1. 1 \in 0 .. Len(data[k])
    <3>1. data[k] \in Seq(Everything)
      BY <1>0 DEF PipeTypes
    <3> QED  BY <1>1, <3>1
  <2>2. /\ data' \in [Children -> Seq(Everything)] /\ taken' \in [Children -> Seq(Everything)]
        /\ \A j \in Children : j # k => data'[j] = data[j] /\ taken'[j] = taken[j]
        /\ \A j \in Children : taken'[j] \o data'[j] = put[j]
    BY <1>0, <1>1, <2>1, ReadsStep
  <2>3. PipeTypes' /\ PipeFlow'
    BY <1>0, <1>1, <2>2, SameProgram DEF PipeTypes, PipeFlow
  <2>4. PoolEnds'
    BY <1>0, <1>1, <2>2 DEF PoolEnds
  <2>5. PoolNumbers' /\ PutOnce'
    <3>1. \A n : SentSoFar(n)' <=> SentSoFar(n)
      BY <1>0 DEF SentSoFar, Task
    <3> QED  BY <1>0, <3>1, SameProgram DEF PoolNumbers, PutOnce
  <2> QED  BY <1>0, <2>3, <2>4, <2>5 DEF PipeInv, PipingPrograms, WriterHolds, MessagesInv
<1>2. CASE AtEnd(k) /\ Exit(k) /\ UNCHANGED <<data, put, taken>>
  <2>1. /\ kid' \in [Children -> KidStates] /\ kid'[k] = "zombie"
        /\ \A j \in Children : j # k => kid'[j] = kid[j]
    BY <1>0, <1>2 DEF Exit, PipeTypes, KidStates
  <2>2. writers' \in [Children -> SUBSET (0 .. PROCESS_NUM)]
    BY <1>0, <1>2, ClosedStep DEF Exit
  <2>3. PipeTypes'
    BY <1>0, <1>2, <2>1, <2>2, SameProgram DEF PipeTypes
  <2>4. data[k] = <<>> /\ father.call \notin {"fork", "send"}
    BY <1>0, <1>2 DEF AtEnd, PoolEnds
  <2>5. PoolEnds'
    BY <1>0, <1>2, <2>1, <2>4 DEF PoolEnds
  <2>6. PipeFlow' /\ PutOnce' /\ PoolNumbers'
    BY <1>0, <1>2, PipesKept DEF PipeInv, PoolNumbers
  <2> QED  BY <1>0, <2>3, <2>5, <2>6 DEF PipeInv, PipingPrograms, WriterHolds, MessagesInv
<1> QED  BY <1>1, <1>2 DEF recevTask

\* The father sends the next task to some child.
LEMMA SendStep == ASSUME PipeInv, loadBalanceControl, prog' = prog  PROVE PipeInv'
<1>0. /\ PipeTypes /\ PipeFlow /\ PoolEnds /\ PoolNumbers /\ PutOnce /\ prog = "procpool"
      /\ father.call = "send" /\ UNCHANGED <<kid, writers, taken>>
      /\ taskCnt \in Nat /\ left \in 0 .. taskCnt
  BY PipeAssumption DEF PipeInv, loadBalanceControl, PipeTypes
<1>1. PICK k \in Kids : Write(k, <<Task>>)
  BY DEF loadBalanceControl
<1>2. k \in Children
  BY <1>0 DEF Kids, Children
<1>3. Task \in 0 .. taskCnt /\ Task \in Everything /\ <<Task>> \in Seq(Everything)
  BY <1>0 DEF Task, Everything
<1>4. /\ data' \in [Children -> Seq(Everything)] /\ put' \in [Children -> Seq(Everything)]
      /\ data'[k] = data[k] \o <<Task>> /\ put'[k] = put[k] \o <<Task>>
      /\ \A j \in Children : j # k => data'[j] = data[j] /\ put'[j] = put[j]
      /\ \A j \in Children : taken[j] \o data'[j] = put'[j]
  BY <1>0, <1>1, <1>2, <1>3, WriteStep
<1>5. /\ \/ taskCnt = 0 /\ UNCHANGED <<father, left>>
         \/ taskCnt # 0 /\ left = 0 /\ father' = [call |-> "close", k |-> 1] /\ left' = left
         \/ taskCnt # 0 /\ left # 0 /\ left' = left - 1 /\ father' = father
      /\ 1 \in Children /\ 1 \in 0 .. PROCESS_NUM
  BY <1>0, PipeAssumption DEF loadBalanceControl, Father, Children
<1>6. left' \in 0 .. taskCnt /\ father' \in [call : Calls, k : 0 .. PROCESS_NUM]
  BY <1>0, <1>5 DEF PipeTypes, Calls
<1>7. PipeTypes' /\ PipeFlow'
  BY <1>0, <1>4, <1>6, SameProgram DEF PipeTypes, PipeFlow
<1>8. PoolEnds'
  <2>1. \A j \in Children : kid[j] \notin {"zombie", "reaped"} /\ (kid[j] # "none" => 0 \in writers[j])
                            /\ kid[j] \in {"none", "new", "loop"}
    BY <1>0 DEF PoolEnds
  <2>2. father' = father \/ father' = [call |-> "close", k |-> 1]
    BY <1>5
  <2> QED  BY <1>0, <1>5, <2>1, <2>2 DEF PoolEnds, Children
<1>9. ASSUME taskCnt # 0  PROVE PoolNumbers' /\ PutOnce'
  <2>1. \A n \in 0 .. taskCnt : SentSoFar(n)' <=> (SentSoFar(n) \/ n = Task)
    BY <1>0, <1>5, <1>9 DEF SentSoFar, Task
  <2>2. \A n \in 0 .. taskCnt : SentSoFar(n) => n # Task
    BY <1>0 DEF SentSoFar, Task
  <2>3. \A j \in Children : /\ put[j] \in Seq(0 .. taskCnt)
                            /\ \A a \in DOMAIN put[j] : put[j][a] \in 0 .. taskCnt /\ SentSoFar(put[j][a])
    <3>1. Everything = 0 .. taskCnt
      BY <1>0 DEF Everything
    <3> QED  BY <1>0, <1>9, <3>1 DEF PipeTypes, PoolNumbers
  <2>4. /\ DOMAIN put'[k] = 1 .. Len(put[k]) + 1 /\ put'[k][Len(put[k]) + 1] = Task
        /\ \A a \in DOMAIN put[k] : a \in DOMAIN put'[k] /\ put'[k][a] = put[k][a]
        /\ DOMAIN put[k] = 1 .. Len(put[k]) /\ Len(put[k]) \in Nat
    BY <1>2, <1>3, <1>4, <2>3
  <2>5. \A j \in Children : \A a \in DOMAIN put'[j] :
          \/ a \in DOMAIN put[j] /\ put'[j][a] = put[j][a]
          \/ j = k /\ a = Len(put[k]) + 1 /\ put'[j][a] = Task
    <3> SUFFICES ASSUME NEW j \in Children, NEW a \in DOMAIN put'[j]
                 PROVE  \/ a \in DOMAIN put[j] /\ put'[j][a] = put[j][a]
                        \/ j = k /\ a = Len(put[k]) + 1 /\ put'[j][a] = Task
      OBVIOUS
    <3>1. CASE j # k
      BY <1>4, <3>1
    <3>2. CASE j = k
      BY <2>4, <3>2
    <3> QED  BY <3>1, <3>2
  <2>6. \A n \in 0 .. taskCnt : SentSoFar(n)' => \E j \in Children : \E a \in DOMAIN put'[j] : put'[j][a] = n
    <3> SUFFICES ASSUME NEW n \in 0 .. taskCnt, SentSoFar(n)'
                 PROVE  \E j \in Children : \E a \in DOMAIN put'[j] : put'[j][a] = n
      OBVIOUS
    <3>1. CASE n = Task
      <4>1. Len(put[k]) + 1 \in DOMAIN put'[k]
        BY <2>4
      <4> QED  BY <1>2, <2>4, <3>1, <4>1
    <3>2. CASE n # Task
      <4>1. PICK j \in Children : \E a \in DOMAIN put[j] : put[j][a] = n
        BY <1>0, <1>9, <2>1, <3>2 DEF PoolNumbers
      <4>2. \E a \in DOMAIN put'[j] : put'[j][a] = n
        BY <1>4, <2>4, <4>1
      <4> QED  BY <4>2
    <3> QED  BY <3>1, <3>2
  <2>7. \A j \in Children : \A a \in DOMAIN put'[j] : SentSoFar(put[j][a])'
    <3> SUFFICES ASSUME NEW j \in Children, NEW a \in DOMAIN put'[j]
                 PROVE  SentSoFar(put[j][a])'
      OBVIOUS
    <3>1. PICK n \in 0 .. taskCnt : n = put'[j][a] /\ (SentSoFar(n) \/ n = Task)
      BY <1>3, <2>3, <2>5
    <3>2. SentSoFar(n)'
      BY <2>1, <3>1
    <3> QED  BY <3>1, <3>2 DEF SentSoFar
  <2>8. father'.call # "fork"
    BY <1>0, <1>5
  <2>9. PoolNumbers'
    BY <2>6, <2>7, <2>8 DEF PoolNumbers
  <2>10. PutOnce'
    <3> SUFFICES ASSUME NEW j \in Children, NEW i \in Children,
                        NEW a \in DOMAIN put'[j], NEW b \in DOMAIN put'[i], put'[j][a] = put'[i][b]
                 PROVE  j = i /\ a = b
      BY <1>0, SameProgram DEF PutOnce, Kids, Children
    <3>0. Kids = Children
      BY <1>0 DEF Kids, Children
    <3>1. CASE a \in DOMAIN put[j] /\ put'[j][a] = put[j][a] /\ b \in DOMAIN put[i] /\ put'[i][b] = put[i][b]
      <4>1. put[j][a] = put[i][b] /\ a \in DOMAIN put[j] /\ b \in DOMAIN put[i]
        BY <3>1
      <4>2. \A u, v \in Children : \A x \in DOMAIN put[u], y \in DOMAIN put[v] :
               put[u][x] = put[v][y] => u = v /\ x = y
        BY <1>0, <1>9, <3>0 DEF PutOnce
      <4> QED  BY <4>1, <4>2
    <3>2. CASE a \in DOMAIN put[j] /\ put'[j][a] = put[j][a] /\ put'[i][b] = Task
      BY <2>2, <2>3, <3>2
    <3>3. CASE b \in DOMAIN put[i] /\ put'[i][b] = put[i][b] /\ put'[j][a] = Task
      BY <2>2, <2>3, <3>3
    <3>4. CASE j = k /\ a = Len(put[k]) + 1 /\ i = k /\ b = Len(put[k]) + 1
      BY <3>4
    <3> QED  BY <2>5, <3>1, <3>2, <3>3, <3>4
  <2> QED  BY <2>9, <2>10
<1>10. PoolNumbers' /\ PutOnce'
  <2>1. CASE taskCnt = 0
    BY <1>0, <2>1 DEF PoolNumbers, PutOnce
  <2> QED  BY <1>9, <2>1
<1> QED  BY <1>0, <1>7, <1>8, <1>10 DEF PipeInv, PipingPrograms, WriterHolds, MessagesInv

\* The father closes a pipe, and waits for its child.
LEMMA WaitStep == ASSUME PipeInv, waitProcess, prog' = prog  PROVE PipeInv'
<1>0. /\ PipeTypes /\ PipeFlow /\ PoolEnds /\ PoolNumbers /\ prog = "procpool"
      /\ UNCHANGED <<data, left, put, taken>> /\ father.call \in {"close", "waitpid"}
      /\ father.k \in Children /\ PROCESS_NUM \in Nat
  BY PipeAssumption DEF PipeInv, waitProcess, PoolEnds
<1>1. PICK k \in Children : k = father.k
  BY <1>0
<1>2. CASE /\ father.call = "close" /\ writers' = Closed(0, {father.k})
           /\ Father("waitpid", father.k) /\ UNCHANGED kid
  <2>1. writers' \in [Children -> SUBSET (0 .. PROCESS_NUM)]
    BY <1>0, <1>2, ClosedStep
  <2>2. father' = [call |-> "waitpid", k |-> k] /\ k \in 0 .. PROCESS_NUM
    BY <1>1, <1>2 DEF Father, Children
  <2>3. PipeTypes'
    BY <1>0, <1>2, <2>1, <2>2, SameProgram DEF PipeTypes, Calls
  <2>4. PoolEnds'
    BY <1>0, <1>1, <1>2, <2>2 DEF PoolEnds
  <2>5. PipeFlow' /\ PutOnce' /\ PoolNumbers'
    BY <1>0, <2>2, PipesKept DEF PipeInv, PoolNumbers
  <2> QED  BY <1>0, <2>3, <2>4, <2>5 DEF PipeInv, PipingPrograms, WriterHolds, MessagesInv
<1>3. CASE /\ father.call = "waitpid" /\ Reap(father.k) /\ UNCHANGED writers
           /\ IF father.k = PROCESS_NUM THEN Father("exit", 0) ELSE Father("close", father.k + 1)
  <2>1. /\ kid[k] = "zombie" /\ kid' \in [Children -> KidStates] /\ kid'[k] = "reaped"
        /\ \A j \in Children : j # k => kid'[j] = kid[j]
    BY <1>0, <1>1, <1>3 DEF Reap, PipeTypes, KidStates
  <2>2. \/ k = PROCESS_NUM /\ father' = [call |-> "exit", k |-> 0]
        \/ father' = [call |-> "close", k |-> k + 1] /\ k + 1 \in Children
    BY <1>0, <1>1, <1>3 DEF Father, Children
  <2>3. father' \in [call : Calls, k : 0 .. PROCESS_NUM]
    BY <1>0, <2>2 DEF Calls, Children
  <2>4. PipeTypes'
    BY <1>0, <1>3, <2>1, <2>3, SameProgram DEF PipeTypes
  <2>5. PoolEnds'
    <3>1. \A j \in Children : j <= k => kid'[j] = "reaped"
      <4>1. \A j \in Children : j < k => kid[j] = "reaped"
        BY <1>0, <1>1 DEF PoolEnds
      <4> QED  BY <2>1, <4>1 DEF Children
    <3>2. /\ \A j \in Children : kid'[j] \in {"zombie", "reaped"} => data'[j] = <<>>
          /\ taskCnt # 0
      BY <1>0, <2>1 DEF PoolEnds
    <3>3. CASE k = PROCESS_NUM /\ father' = [call |-> "exit", k |-> 0]
      <4>1. \A j \in Children : kid'[j] = "reaped"
        BY <1>0, <3>1, <3>3 DEF Children
      <4> QED  BY <3>2, <3>3, <4>1 DEF PoolEnds
    <3>4. CASE father' = [call |-> "close", k |-> k + 1] /\ k + 1 \in Children
      <4>1. \A j \in Children : j < k + 1 => kid'[j] = "reaped"
        BY <3>1 DEF Children
      <4> QED  BY <3>2, <3>4, <4>1 DEF PoolEnds
    <3> QED  BY <2>2, <3>3, <3>4
  <2>6. PipeFlow' /\ PutOnce' /\ PoolNumbers'
    <3>1. father'.call \notin {"fork", "send"}
      BY <2>2
    <3> QED  BY <1>0, <3>1, PipesKept DEF PipeInv, PoolNumbers
  <2> QED  BY <1>0, <2>4, <2>5, <2>6 DEF PipeInv, PipingPrograms, WriterHolds, MessagesInv
<1> QED  BY <1>2, <1>3 DEF waitProcess

-----------------------------------------------------------------------------
(* The steps of mypipe and testcode.                                       *)

\* A step that neither writes nor ends the child keeps what has been written.
LEMMA MessagesKept ==
    ASSUME PipeInv, prog # "procpool", prog' = prog, put' = put,
           kid'[1] \in {"zombie", "reaped"} => kid[1] \in {"zombie", "reaped"}
    PROVE  PutOnce' /\ MessagesInv'
<1>1. Kids' = Kids /\ Sent' = Sent
  BY SameProgram DEF Sent
<1>2. PutOnce'
  BY <1>1 DEF PipeInv, PutOnce
<1>3. MessagesInv'
  BY <1>1 DEF PipeInv, MessagesInv
<1> QED  BY <1>2, <1>3

\* mypipe forks its child, and closes its own write end.
LEMMA ForkChildStep == ASSUME PipeInv, forkChild, prog' = prog  PROVE PipeInv'
<1>0. /\ PipeTypes /\ PipeFlow /\ WriterHolds /\ prog = "mypipe"
      /\ UNCHANGED <<data, left, put, taken>> /\ 1 \in Children /\ 1 \in 0 .. PROCESS_NUM
  BY PipeAssumption DEF PipeInv, forkChild, Children
<1>1. PipeFlow'
  BY <1>0 DEF PipeFlow
<1>2. CASE father.call = "fork" /\ Fork(1) /\ Father("close", 1)
  <2>1. /\ kid' \in [Children -> KidStates] /\ kid'[1] = "new"
        /\ writers' \in [Children -> SUBSET (0 .. PROCESS_NUM)] /\ writers'[1] = {0, 1}
    BY <1>0, <1>2, ForkStep
  <2>2. father' = [call |-> "close", k |-> 1]
    BY <1>2 DEF Father
  <2>3. PipeTypes'
    BY <1>0, <2>1, <2>2, SameProgram DEF PipeTypes, Calls
  <2>4. WriterHolds'
    BY <1>0, <2>1, <2>2 DEF WriterHolds
  <2>5. PutOnce' /\ MessagesInv'
    BY <1>0, <2>1, MessagesKept
  <2> QED  BY <1>0, <1>1, <2>3, <2>4, <2>5 DEF PipeInv, PipingPrograms, PoolEnds, PoolNumbers
<1>3. CASE /\ father.call = "close" /\ writers' = Closed(0, {1})
           /\ Father("read", 1) /\ UNCHANGED kid
  <2>1. /\ writers' \in [Children -> SUBSET (0 .. PROCESS_NUM)]
        /\ 1 \in writers[1] => 1 \in writers'[1]
    BY <1>0, <1>3, ClosedStep
  <2>2. father' = [call |-> "read", k |-> 1]
    BY <1>3 DEF Father
  <2>3. PipeTypes'
    BY <1>0, <1>3, <2>1, <2>2, SameProgram DEF PipeTypes, Calls
  <2>4. WriterHolds'
    BY <1>0, <1>3, <2>1, <2>2 DEF WriterHolds
  <2>5. PutOnce' /\ MessagesInv'
    BY <1>0, <1>3, MessagesKept
  <2> QED  BY <1>0, <1>1, <2>3, <2>4, <2>5 DEF PipeInv, PipingPrograms, PoolEnds, PoolNumbers
<1> QED  BY <1>2, <1>3 DEF forkChild

\* Two sequences, joined.
LEMMA Joined ==
    ASSUME NEW S, NEW q \in Seq(S), NEW m \in Seq(S)
    PROVE  /\ q \o m \in Seq(S) /\ DOMAIN (q \o m) = 1 .. Len(q) + Len(m)
           /\ Len(q) \in Nat /\ Len(m) \in Nat /\ Len(q \o m) = Len(q) + Len(m)
           /\ \A a \in 1 .. Len(q) : (q \o m)[a] = q[a]
           /\ \A i \in 1 .. Len(m) : (q \o m)[Len(q) + i] = m[i]
OBVIOUS

\* A message behind those that are whole makes one more of them.
LEMMA OneMore ==
    ASSUME NEW S, NEW q \in Seq(S), NEW m \in Seq(S), NEW n \in Nat, NEW k \in Nat \ {0},
           Len(m) = k, \A i \in 1 .. k : m[i] = <<n, i>>, Whole(q, n, k)
    PROVE  /\ Whole(q \o m, n + 1, k)
           /\ (q \o m)[Len(q \o m)] = <<n, k>> /\ q \o m # <<>>
<1> DEFINE r == q \o m
           l == Len(q)
<1>1. /\ DOMAIN r = 1 .. l + k /\ Len(r) = l + k /\ l \in Nat /\ DOMAIN q = 1 .. l
      /\ \A a \in 1 .. l : r[a] = q[a]
      /\ \A i \in 1 .. k : r[l + i] = <<n, i>>
  <2>1. /\ DOMAIN r = 1 .. Len(q) + Len(m) /\ Len(q) \in Nat /\ Len(r) = Len(q) + Len(m)
        /\ \A a \in 1 .. Len(q) : r[a] = q[a]
        /\ \A i \in 1 .. Len(m) : r[Len(q) + i] = m[i]
    <3>1. q \in Seq(S) /\ m \in Seq(S)
      OBVIOUS
    <3>2. \A x, y \in Seq(S) :
             /\ DOMAIN (x \o y) = 1 .. Len(x) + Len(y) /\ Len(x) \in Nat
             /\ Len(x \o y) = Len(x) + Len(y)
             /\ \A a \in 1 .. Len(x) : (x \o y)[a] = x[a]
             /\ \A i \in 1 .. Len(y) : (x \o y)[Len(x) + i] = y[i]
      BY Joined
    <3> QED  BY <3>1, <3>2, Zenon
  <2>2. DOMAIN q = 1 .. Len(q)
    OBVIOUS
  <2> HIDE DEF r
  <2> QED  BY <2>1, <2>2
<1> HIDE DEF r, l
<1>2. \A a \in 1 .. l + k : a \in 1 .. l \/ \E i \in 1 .. k : a = l + i
  <2> TAKE a \in 1 .. l + k
  <2>1. a \in 1 .. l \/ a - l \in 1 .. k
    BY <1>1
  <2>2. a = l + (a - l)
    BY <1>1
  <2> QED  BY <2>1, <2>2
<1>3. \A i \in 1 .. k : l + i \in 1 .. l + k
  BY <1>1
<1>4. \A a \in 1 .. l : a \in 1 .. l + k
  BY <1>1
<1>5. \A a \in 1 .. l : q[a] \in (0 .. n - 1) \X (1 .. k)
  BY <1>1 DEF Whole
<1>6. \A a \in DOMAIN r : r[a] \in (0 .. n + 1 - 1) \X (1 .. k)
  <2> SUFFICES ASSUME NEW a \in 1 .. l + k  PROVE r[a] \in (0 .. n) \X (1 .. k)
    BY <1>1
  <2>1. CASE a \in 1 .. l
    <3>1. PICK x \in 0 .. n - 1, i \in 1 .. k : q[a] = <<x, i>>
      BY <1>5, <2>1
    <3>2. x \in 0 .. n
      OBVIOUS
    <3>3. r[a] = <<x, i>>
      BY <1>1, <2>1, <3>1
    <3> QED  BY <3>2, <3>3
  <2>2. ASSUME NEW i \in 1 .. k, a = l + i  PROVE r[a] \in (0 .. n) \X (1 .. k)
    <3>1. r[a] = <<n, i>> /\ n \in 0 .. n
      BY <1>1, <2>2
    <3> QED  BY <3>1
  <2> QED  BY <1>2, <2>1, <2>2
<1>7. \A x \in 0 .. n + 1 - 1, i \in 1 .. k : \E a \in DOMAIN r : r[a] = <<x, i>>
  <2> SUFFICES ASSUME NEW x \in 0 .. n, NEW i \in 1 .. k
               PROVE  \E a \in 1 .. l + k : r[a] = <<x, i>>
    <3>1. 0 .. n + 1 - 1 = 0 .. n
      OBVIOUS
    <3> QED  BY <1>1, <3>1, Zenon
  <2>1. CASE x = n
    BY <1>1, <1>3, <2>1
  <2>2. CASE x # n
    <3>1. x \in 0 .. n - 1
      BY <2>2
    <3>2. PICK a \in 1 .. l : q[a] = <<x, i>>
      <4>1. \A y \in 0 .. n - 1, j \in 1 .. k : \E a \in DOMAIN q : q[a] = <<y, j>>
        BY DEF Whole
      <4> QED  BY <1>1, <3>1, <4>1
    <3> QED  BY <1>1, <1>4, <3>2
  <2> QED  BY <2>1, <2>2
<1>8. \A a, b \in DOMAIN r : r[a] = r[b] => a = b
  <2> SUFFICES ASSUME NEW a \in 1 .. l + k, NEW b \in 1 .. l + k, r[a] = r[b]
               PROVE  a = b
    BY <1>1
  <2>1. \A i, j \in 1 .. k : r[l + i] = r[l + j] => l + i = l + j
    <3> TAKE i, j \in 1 .. k
    <3>1. r[l + i] = <<n, i>> /\ r[l + j] = <<n, j>>
      BY <1>1
    <3> QED  BY <3>1
  <2>2. \A x \in 1 .. l, i \in 1 .. k : r[x] # r[l + i]
    <3> TAKE x \in 1 .. l, i \in 1 .. k
    <3>1. r[l + i] = <<n, i>>
      BY <1>1
    <3>2. PICK y \in 0 .. n - 1, j \in 1 .. k : r[x] = <<y, j>>
      <4>1. r[x] = q[x] /\ q[x] \in (0 .. n - 1) \X (1 .. k)
        BY <1>1, <1>5
      <4> QED  BY <4>1
    <3>3. y # n
      OBVIOUS
    <3> QED  BY <3>1, <3>2, <3>3
  <2>3. \A x, y \in 1 .. l : r[x] = r[y] => x = y
    BY <1>1 DEF Whole
  <2> QED  BY <1>2, <2>1, <2>2, <2>3
<1>9. Whole(r, n + 1, k)
  BY <1>6, <1>7, <1>8 DEF Whole
<1>10. r[Len(r)] = <<n, k>> /\ r # <<>>
  <2>1. k \in 1 .. k /\ l + k \in DOMAIN r
    BY <1>1
  <2> QED  BY <1>1, <2>1
<1> QED  BY <1>9, <1>10 DEF r

\* The child writes one message more, or leaves when all are written.
LEMMA MessageStep == ASSUME PipeInv, sendMessages, prog' = prog  PROVE PipeInv'
<1>0. /\ PipeTypes /\ PipeFlow /\ WriterHolds /\ MessagesInv /\ prog # "procpool"
      /\ kid[1] = "new" /\ UNCHANGED <<father, left, taken>>
      /\ 1 \in Children /\ NumMessages \in Nat /\ MessageSize \in Nat \ {0}
      /\ prog \in {"mypipe", "testcode"} /\ Sent \in 0 .. NumMessages
      /\ put[1] \in Seq(Everything)
      /\ Everything = (0 .. NumMessages - 1) \X (1 .. MessageSize)
  <2>1. /\ prog \in {"mypipe", "testcode"} /\ kid[1] = "new" /\ UNCHANGED <<father, left, taken>>
    BY DEF sendMessages
  <2>2. PipeTypes /\ PipeFlow /\ WriterHolds /\ MessagesInv /\ prog # "procpool"
    BY <2>1 DEF PipeInv
  <2>3. 1 \in Children /\ NumMessages \in Nat /\ MessageSize \in Nat \ {0}
    BY PipeAssumption DEF Children
  <2>4. put[1] \in Seq(Everything) /\ Sent \in 0 .. NumMessages
    BY <2>2, <2>3 DEF PipeTypes, MessagesInv
  <2>5. Everything = (0 .. NumMessages - 1) \X (1 .. MessageSize)
    BY <2>2 DEF Everything
  <2> QED  BY <2>1, <2>2, <2>3, <2>4, <2>5
<1>1. \/ Sent < NumMessages /\ Write(1, Message(Sent)) /\ UNCHANGED <<kid, writers>>
      \/ Sent = NumMessages /\ Exit(1) /\ UNCHANGED <<data, put>>
  BY DEF sendMessages, Sent
<1>2. CASE Sent < NumMessages /\ Write(1, Message(Sent)) /\ UNCHANGED <<kid, writers>>
  <2>1. PICK n \in 0 .. NumMessages - 1 : n = Sent
    BY <1>0, <1>2
  <2>2. PICK m : m = Message(n)
    OBVIOUS
  <2>3. /\ m \in Seq(Everything) /\ Len(m) = MessageSize
        /\ \A i \in 1 .. MessageSize : m[i] = <<n, i>>
    <3>1. \A i \in 1 .. MessageSize : <<n, i>> \in Everything
      BY <1>0
    <3>2. m = [i \in 1 .. MessageSize |-> <<n, i>>]
      BY <2>2 DEF Message
    <3>3. m \in [1 .. MessageSize -> Everything]
      BY <3>1, <3>2
    <3>4. \A k \in Nat : \A f \in [1 .. k -> Everything] : f \in Seq(Everything) /\ Len(f) = k
      OBVIOUS
    <3> QED  BY <1>0, <3>2, <3>3, <3>4
  <2>4. Write(1, m)
    BY <1>2, <2>1, <2>2
  <2>5. /\ data' \in [Children -> Seq(Everything)] /\ put' \in [Children -> Seq(Everything)]
        /\ put'[1] = put[1] \o m
        /\ \A j \in Children : taken[j] \o data'[j] = put'[j]
    BY <1>0, <2>3, <2>4, WriteStep
  <2>6. PipeTypes' /\ PipeFlow'
    BY <1>0, <1>2, <2>5, SameProgram DEF PipeTypes, PipeFlow
  <2>7. /\ Whole(put[1] \o m, n + 1, MessageSize)
        /\ (put[1] \o m)[Len(put[1] \o m)] = <<n, MessageSize>> /\ put[1] \o m # <<>>
    <3>1. Whole(put[1], n, MessageSize) /\ n \in Nat
      BY <1>0, <2>1 DEF MessagesInv
    <3>2. put[1] \in Seq(Everything) /\ MessageSize \in Nat \ {0}
      BY <1>0
    <3> PICK S : S = Everything
      OBVIOUS
    <3>3. PICK q \in Seq(S), k \in Nat \ {0} : q = put[1] /\ k = MessageSize
      BY <3>2
    <3>4. m \in Seq(S) /\ Len(m) = k /\ (\A i \in 1 .. k : m[i] = <<n, i>>) /\ Whole(q, n, k)
      BY <2>3, <3>1, <3>3
    <3>5. Whole(q \o m, n + 1, k) /\ (q \o m)[Len(q \o m)] = <<n, k>> /\ q \o m # <<>>
      BY <3>1, <3>4, OneMore
    <3> QED  BY <3>3, <3>5
  <2>8. Sent' = n + 1
    BY <2>5, <2>7 DEF Sent
  <2>9. Whole(put[1], Sent, MessageSize)'
    <3>1. Whole(put'[1], Sent', MessageSize)
      BY <2>5, <2>7, <2>8
    <3> QED  BY <3>1 DEF Whole
  <2>10. MessagesInv'
    BY <1>0, <1>2, <2>1, <2>8, <2>9 DEF MessagesInv
  <2>11. PutOnce'
    <3>1. Kids' = {1}
      BY <1>0 DEF Kids
    <3>2. \A a, b \in DOMAIN put'[1] : put'[1][a] = put'[1][b] => a = b
      BY <2>9 DEF Whole
    <3> QED  BY <3>1, <3>2 DEF PutOnce
  <2>12. WriterHolds'
    BY <1>0, <1>2 DEF WriterHolds
  <2> QED  BY <1>0, <2>6, <2>10, <2>11, <2>12 DEF PipeInv, PipingPrograms, PoolEnds, PoolNumbers
<1>3. CASE Sent = NumMessages /\ Exit(1) /\ UNCHANGED <<data, put>>
  <2>1. kid' \in [Children -> KidStates] /\ kid'[1] = "zombie"
    BY <1>0, <1>3 DEF Exit, PipeTypes, KidStates
  <2>2. writers' \in [Children -> SUBSET (0 .. PROCESS_NUM)]
    BY <1>0, <1>3, ClosedStep DEF Exit
  <2>3. PipeTypes' /\ PipeFlow'
    BY <1>0, <1>3, <2>1, <2>2, SameProgram DEF PipeTypes, PipeFlow
  <2>4. WriterHolds'
    BY <1>0, <1>3, <2>1 DEF WriterHolds
  <2>5. Sent' = Sent /\ Kids' = Kids
    BY <1>3, SameProgram DEF Sent
  <2>6. Whole(put[1], Sent, MessageSize)'
    <3>1. Whole(put[1], Sent, MessageSize) /\ put' = put /\ Sent' = Sent
      BY <1>0, <1>3, <2>5 DEF MessagesInv
    <3> QED  BY <3>1 DEF Whole
  <2>7. MessagesInv'
    BY <1>0, <1>3, <2>5, <2>6 DEF MessagesInv
  <2>8. PutOnce'
    BY <1>3, <2>5 DEF PipeInv, PutOnce
  <2> QED  BY <1>0, <2>3, <2>4, <2>7, <2>8 DEF PipeInv, PipingPrograms, PoolEnds, PoolNumbers
<1> QED  BY <1>1, <1>2, <1>3

\* A read of the pipe by the father, and his other steps: he leaves the pipe only when
\* it is empty and its writer gone.
LEMMA FatherReads ==
    ASSUME PipeInv, prog # "procpool", prog' = prog, ReadBuffer(1),
           UNCHANGED <<kid, writers, left, put>>, father' \in [call : Calls, k : 0 .. PROCESS_NUM],
           kid[1] # "none",
           prog = "mypipe" => father'.call = "read", prog = "testcode" => father'.call = "sleep"
    PROVE  PipeInv'
<1>0. /\ PipeTypes /\ PipeFlow /\ WriterHolds /\ prog \in {"mypipe", "testcode"} /\ 1 \in Children
  BY PipeAssumption DEF PipeInv, PipingPrograms, Children
<1>1. PICK n \in 0 .. Len(data[1]) : Read(1, n)
  BY <1>0, BufferStep
<1>2. /\ data' \in [Children -> Seq(Everything)] /\ taken' \in [Children -> Seq(Everything)]
      /\ \A j \in Children : taken'[j] \o data'[j] = put[j]
  BY <1>0, <1>1, ReadsStep
<1>3. PipeTypes' /\ PipeFlow'
  BY <1>0, <1>2, SameProgram DEF PipeTypes, PipeFlow
<1>4. WriterHolds'
  BY <1>0 DEF WriterHolds
<1>5. PutOnce' /\ MessagesInv'
  BY MessagesKept
<1> QED  BY <1>0, <1>3, <1>4, <1>5 DEF PipeInv, PipingPrograms, PoolEnds, PoolNumbers

\* The father moves on, and may reap the child.
LEMMA FatherMoves ==
    ASSUME PipeInv, prog # "procpool", prog' = prog, UNCHANGED <<data, writers, left, put, taken>>,
           NEW call \in Calls, NEW n \in 0 .. PROCESS_NUM, father' = [call |-> call, k |-> n],
           kid' = kid \/ (Reap(1) /\ call = "exit"),
           prog = "mypipe" => call \in {"waitpid", "exit"},
           prog = "testcode" => call \in {"poll", "sleep", "exit"},
           kid[1] # "none",
           call \in {"waitpid", "exit"} => kid[1] \in {"zombie", "reaped"} /\ data[1] = <<>>,
           prog = "mypipe" /\ call = "exit" => kid'[1] = "reaped"
    PROVE  PipeInv'
<1>0. /\ PipeTypes /\ PipeFlow /\ WriterHolds /\ prog \in {"mypipe", "testcode"} /\ 1 \in Children
  BY PipeAssumption DEF PipeInv, PipingPrograms, Children
<1>1. /\ kid' \in [Children -> KidStates]
      /\ kid'[1] = kid[1] \/ (kid[1] = "zombie" /\ kid'[1] = "reaped" /\ call = "exit")
  BY <1>0 DEF Reap, PipeTypes, KidStates
<1>2. PipeTypes' /\ PipeFlow'
  BY <1>0, <1>1, SameProgram DEF PipeTypes, PipeFlow
<1>3. WriterHolds'
  BY <1>0, <1>1 DEF WriterHolds
<1>4. PutOnce' /\ MessagesInv'
  BY <1>1, MessagesKept
<1> QED  BY <1>0, <1>2, <1>3, <1>4 DEF PipeInv, PipingPrograms, PoolEnds, PoolNumbers

\* The father of mypipe reads to the end of the pipe, and waits for his child.
LEMMA ReceiveStep == ASSUME PipeInv, receiveMessages, prog' = prog  PROVE PipeInv'
<1>0. /\ PipeTypes /\ WriterHolds /\ prog = "mypipe" /\ UNCHANGED <<writers, left, put>>
      /\ 0 \in 0 .. PROCESS_NUM /\ 1 \in 0 .. PROCESS_NUM
  BY PipeAssumption DEF PipeInv, receiveMessages
<1>1. CASE /\ father.call = "read" /\ data[1] # <<>> /\ ReadBuffer(1) /\ UNCHANGED <<father, kid>>
  <2>1. kid[1] # "none" /\ father' \in [call : Calls, k : 0 .. PROCESS_NUM] /\ father'.call = "read"
    BY <1>0, <1>1 DEF WriterHolds, PipeTypes
  <2> QED  BY <1>0, <1>1, <2>1, FatherReads
<1>2. CASE /\ father.call = "read" /\ AtEnd(1) /\ Father("waitpid", 1) /\ UNCHANGED <<kid, data, taken>>
  <2>1. kid[1] \in {"zombie", "reaped"} /\ data[1] = <<>>
    BY <1>0, <1>2 DEF WriterHolds, AtEnd
  <2>2. father' = [call |-> "waitpid", k |-> 1] /\ "waitpid" \in Calls
    BY <1>2 DEF Father, Calls
  <2> QED  BY <1>0, <1>2, <2>1, <2>2, FatherMoves
<1>3. CASE /\ father.call = "waitpid" /\ Reap(1) /\ Father("exit", 0) /\ UNCHANGED <<data, taken>>
  <2>1. kid[1] = "zombie" /\ data[1] = <<>> /\ kid'[1] = "reaped"
    BY <1>0, <1>3, PipeAssumption DEF WriterHolds, Reap, PipeTypes, Children
  <2>2. father' = [call |-> "exit", k |-> 0] /\ "exit" \in Calls
    BY <1>3 DEF Father, Calls
  <2> QED  BY <1>0, <1>3, <2>1, <2>2, FatherMoves
<1> QED  BY <1>1, <1>2, <1>3 DEF receiveMessages

\* testcode polls, and only the end of its input ends it.
LEMMA PollStep == ASSUME PipeInv, setNonBlock \/ PollStdin, prog' = prog  PROVE PipeInv'
<1>0. /\ PipeTypes /\ WriterHolds /\ prog = "testcode" /\ UNCHANGED <<kid, writers, left, put>>
      /\ 0 \in 0 .. PROCESS_NUM /\ 1 \in 0 .. PROCESS_NUM /\ kid[1] # "none"
  <2>1. prog = "testcode" /\ UNCHANGED <<kid, writers, left, put>>
    BY DEF setNonBlock, PollStdin
  <2>2. PipeTypes /\ WriterHolds
    BY DEF PipeInv
  <2>3. kid[1] # "none"
    BY <2>1, <2>2 DEF WriterHolds
  <2> QED  BY <2>1, <2>2, <2>3, PipeAssumption
<1>1. CASE data[1] # <<>> /\ ReadBuffer(1) /\ Father("sleep", 1)
  <2>1. father' = [call |-> "sleep", k |-> 1] /\ father' \in [call : Calls, k : 0 .. PROCESS_NUM]
    BY <1>0, <1>1 DEF Father, Calls
  <2>2. father'.call = "sleep"
    BY <2>1
  <2> QED  BY <1>0, <1>1, <2>1, <2>2, FatherReads
<1>2. CASE AtEnd(1) /\ Father("exit", 0) /\ UNCHANGED <<data, taken>>
  <2>1. kid[1] \in {"zombie", "reaped"} /\ data[1] = <<>>
    BY <1>0, <1>2 DEF WriterHolds, AtEnd
  <2>2. father' = [call |-> "exit", k |-> 0] /\ "exit" \in Calls
    BY <1>2 DEF Father, Calls
  <2> QED  BY <1>0, <1>2, <2>1, <2>2, FatherMoves
<1>3. ASSUME NEW call \in {"poll", "sleep"}, Father(call, 1), UNCHANGED <<data, taken>>
      PROVE  PipeInv'
  <2>1. father' = [call |-> call, k |-> 1] /\ call \in Calls /\ call \notin {"waitpid", "exit"}
    BY <1>3 DEF Father, Calls
  <2> QED  BY <1>0, <1>3, <2>1, FatherMoves
<1> QED  BY <1>1, <1>2, <1>3 DEF setNonBlock, PollStdin

\* The invariant holds before the father runs.
LEMMA PipesStart == ASSUME PipeInit  PROVE PipeInv
<1>1. /\ data = [k \in Children |-> <<>>] /\ put = data /\ taken = data /\ left = taskCnt
      /\ father = [call |-> IF prog = "testcode" THEN "fcntl" ELSE "fork", k |-> 1]
      /\ kid = [k \in Children |-> IF prog = "testcode" /\ k = 1 THEN "new" ELSE "none"]
      /\ writers = [k \in Children |-> IF prog = "testcode" /\ k = 1 THEN {k} ELSE {}]
      /\ prog \in PipingPrograms
      /\ 1 \in Children /\ 1 \in 0 .. PROCESS_NUM /\ taskCnt \in Nat /\ NumMessages \in Nat
      /\ Children \subseteq 0 .. PROCESS_NUM
  BY PipeAssumption DEF PipeInit, InitPipes, Children
<1>2. \A k \in Children : data[k] = <<>> /\ put[k] = <<>> /\ taken[k] = <<>>
  BY <1>1
<1>3. /\ <<>> \in Seq(Everything) /\ <<>> \o <<>> = <<>> /\ DOMAIN <<>> = {}
  OBVIOUS
<1>4. PipeTypes
  <2>1. father \in [call : Calls, k : 0 .. PROCESS_NUM]
    BY <1>1 DEF Calls
  <2>2. kid \in [Children -> KidStates] /\ writers \in [Children -> SUBSET (0 .. PROCESS_NUM)]
    BY <1>1 DEF KidStates
  <2> QED  BY <1>1, <1>3, <2>1, <2>2 DEF PipeTypes
<1>5. PipeFlow
  BY <1>2, <1>3 DEF PipeFlow
<1>6. PoolEnds
  BY <1>1 DEF PoolEnds
<1>7. PoolNumbers
  <2>1. prog = "procpool" => \A n \in 0 .. taskCnt : ~SentSoFar(n)
    BY <1>1 DEF SentSoFar, Task
  <2> QED  BY <1>1, <1>2, <1>3, <2>1 DEF PoolNumbers
<1>8. PutOnce
  <2>1. \A k \in Kids : DOMAIN put[k] = {}
    BY <1>1, <1>2, <1>3 DEF Kids, Children
  <2> QED  BY <2>1 DEF PutOnce
<1>9. WriterHolds
  BY <1>1, <1>2 DEF WriterHolds, PipingPrograms
<1>10. MessagesInv
  <2>1. Sent = 0
    BY <1>1, <1>2 DEF Sent
  <2>2. Whole(put[1], Sent, MessageSize)
    BY <1>1, <1>2, <1>3, <2>1 DEF Whole
  <2>3. kid[1] \notin {"zombie", "reaped"}
    BY <1>1
  <2> QED  BY <1>1, <2>1, <2>2, <2>3 DEF MessagesInv
<1> QED  BY <1>1, <1>4, <1>5, <1>6, <1>7, <1>8, <1>9, <1>10 DEF PipeInv

\* A step of any of the three programs keeps the invariant.
LEMMA PipeStep == ASSUME PipeInv, [PipeNext]_pipeVars  PROVE PipeInv'
<1>1. CASE UNCHANGED pipeVars
  <2>1. UNCHANGED <<prog, father, kid, data, writers, left, put, taken>>
    BY <1>1 DEF pipeVars, pipes
  <2>2. Everything' = Everything /\ Kids' = Kids /\ Sent' = Sent
    BY <2>1, SameProgram DEF Sent
  <2>3. PipeTypes' /\ PipeFlow' /\ PutOnce' /\ WriterHolds'
    BY <2>1, <2>2 DEF PipeInv, PipeTypes, PipeFlow, PutOnce, WriterHolds
  <2>4. PoolEnds' /\ PoolNumbers'
    BY <2>1 DEF PipeInv, PoolEnds, PoolNumbers, SentSoFar, Task
  <2>5. MessagesInv'
    BY <2>1, <2>2 DEF PipeInv, MessagesInv
  <2> QED  BY <2>1, <2>3, <2>4, <2>5 DEF PipeInv
<1>2. CASE PipeNext
  <2>1. /\ prog' = prog /\ (FatherSteps \/ \E k \in Kids : KidSteps(k))
        /\ Kids \subseteq Children
    BY <1>2, PipeAssumption DEF PipeNext, Kids, Children
  <2> QED
    BY <2>1, CreateProcessStep, CloseEndsStep, TaskStep, SendStep, WaitStep, ForkChildStep,
       MessageStep, ReceiveStep, PollStep
    DEF FatherSteps, KidSteps
<1> QED  BY <1>1, <1>2

-----------------------------------------------------------------------------
\* Tasks and messages come out of the pipes in order and once, and when the father is
\* done they have all come out, for any number of children, tasks and messages.
THEOREM PipesDeliverAll == PipeSpec => []PipesDeliver
<1>1. PipeInv => PipesDeliver
  <2> SUFFICES ASSUME PipeInv  PROVE PipesDeliver
    OBVIOUS
  <2>1. /\ prog \in PipingPrograms /\ PipeTypes /\ PipeFlow /\ PoolEnds /\ PoolNumbers /\ PutOnce
        /\ WriterHolds /\ MessagesInv /\ Kids \subseteq Children
        /\ (prog # "procpool" => Kids = {1}) /\ (prog = "procpool" => Kids = Children)
    BY PipeAssumption DEF PipeInv, Kids, Children
  <2>2. \A k \in Children : /\ taken[k] \in Seq(Everything) /\ data[k] \in Seq(Everything)
                            /\ taken[k] \o data[k] = put[k]
    BY <2>1 DEF PipeTypes, PipeFlow
  <2>3. \A k \in Children : \A a \in DOMAIN taken[k] :
           a \in DOMAIN put[k] /\ put[k][a] = taken[k][a]
    <3>1. \A x, y \in Seq(Everything) : \A a \in DOMAIN x : a \in DOMAIN (x \o y) /\ (x \o y)[a] = x[a]
      OBVIOUS
    <3> SUFFICES ASSUME NEW k \in Children, NEW a \in DOMAIN taken[k]
                 PROVE  a \in DOMAIN put[k] /\ put[k][a] = taken[k][a]
      OBVIOUS
    <3>2. PICK x \in Seq(Everything), y \in Seq(Everything) : x = taken[k] /\ y = data[k] /\ x \o y = put[k]
      BY <2>2
    <3>3. a \in DOMAIN x
      BY <3>2
    <3>4. a \in DOMAIN (x \o y) /\ (x \o y)[a] = x[a]
      BY <3>1, <3>3
    <3> QED  BY <3>2, <3>4
  <2>4. taskCnt # 0 => \A j, k \in Kids : \A a \in DOMAIN taken[j], b \in DOMAIN taken[k] :
                        taken[j][a] = taken[k][b] => j = k /\ a = b
    <3> SUFFICES ASSUME taskCnt # 0, NEW j \in Kids, NEW k \in Kids,
                        NEW a \in DOMAIN taken[j], NEW b \in DOMAIN taken[k],
                        taken[j][a] = taken[k][b]
                 PROVE  j = k /\ a = b
      OBVIOUS
    <3>1. /\ a \in DOMAIN put[j] /\ b \in DOMAIN put[k] /\ put[j][a] = put[k][b]
      BY <2>1, <2>3
    <3> QED  BY <2>1, <3>1 DEF PutOnce
  <2>5. ASSUME father.call = "exit"
        PROVE  /\ \A k \in Kids : data[k] = <<>>
               /\ \A k \in Kids : kid[k] = "reaped" \/ prog = "testcode"
               /\ UNION {Out(k) : k \in Kids} = Everything
    <3>1. \A k \in Kids : data[k] = <<>> /\ (kid[k] = "reaped" \/ prog = "testcode")
      BY <2>1, <2>5 DEF PoolEnds, WriterHolds, PipingPrograms
    <3>2. \A k \in Kids : taken[k] = put[k]
      <4>1. \A x \in Seq(Everything) : x \o <<>> = x
        OBVIOUS
      <4> QED  BY <2>1, <2>2, <3>1, <4>1
    <3>3. \A k \in Kids : \A a \in DOMAIN put[k] : put[k][a] \in Everything
      BY <2>1 DEF PipeTypes
    <3>4. \A e \in Everything : \E k \in Kids : \E a \in DOMAIN put[k] : put[k][a] = e
      <4>1. CASE prog = "procpool" /\ taskCnt # 0
        <5>1. Everything = 0 .. taskCnt /\ \A n \in 0 .. taskCnt : SentSoFar(n)
          BY <2>5, <4>1 DEF Everything, SentSoFar
        <5> QED  BY <2>1, <4>1, <5>1 DEF PoolNumbers
      <4>2. CASE prog = "procpool" /\ taskCnt = 0
        BY <2>1, <2>5, <4>2 DEF PoolEnds
      <4>3. CASE prog # "procpool"
        <5>1. kid[1] \in {"zombie", "reaped"} /\ Sent = NumMessages
          BY <2>1, <2>5, <4>3 DEF WriterHolds, MessagesInv
        <5>2. \A n \in 0 .. NumMessages - 1, i \in 1 .. MessageSize : \E a \in DOMAIN put[1] : put[1][a] = <<n, i>>
          BY <2>1, <4>3, <5>1 DEF MessagesInv, Whole
        <5>3. Everything = (0 .. NumMessages - 1) \X (1 .. MessageSize)
          BY <4>3 DEF Everything
        <5> QED  BY <2>1, <4>3, <5>2, <5>3
      <4> QED  BY <4>1, <4>2, <4>3
    <3>5. \A k \in Kids : Out(k) = {put[k][a] : a \in DOMAIN put[k]}
      BY <3>2 DEF Out
    <3> QED  BY <3>1, <3>3, <3>4, <3>5
  <2> QED  BY <2>1, <2>2, <2>4, <2>5 DEF PipesDeliver
<1> QED  BY <1>1, PipesStart, PipeStep, PTL DEF PipeSpec
-----------------------------------------------------------------------------
(* Shell: a line leaves nothing behind but its output and its end.         *)

Entry == [line : LinesTyped, code : Int, sig : Nat, wrote : BOOLEAN]

ShellTypes ==
    /\ ShellTypeOK /\ prog \in Shells
    /\ typed \in Seq(Entry) /\ Now <= MaxTyped
    /\ answers \in Seq([at : Nat, code : Nat, sig : Nat])
    /\ lastcode \in Nat /\ lastsig \in Nat

\* The line whose child runs: the redirection is its own, and it has written and ended
\* as far as the child has.
ThisLine ==
    LET l == typed[Now].line
        redirects == prog = "lesson15" /\ l.op # "none"
    IN  /\ Now \in 1 .. MaxTyped /\ Command(l) \notin Builtins
        /\ redirType = IF redirects THEN l.op ELSE "none"
        /\ redirects => redirFile = l.file
        /\ child # "none"
        /\ child = "exec" => stdout = Target(Now)
        /\ child \in {"new", "exec"} => typed[Now].code = -1 /\ ~typed[Now].wrote
        /\ child = "zombie" => /\ typed[Now].code = status.code /\ typed[Now].sig = status.sig
                               /\ status.code \in Nat /\ status.sig \in Nat

ChildInv ==
    /\ sh # "waitpid" => child = "none"
    /\ sh = "waitpid" => ThisLine

\* The last of the first n lines that had a child ended so.
LastEnd(n, code, sig) ==
    LET ran == {k \in 1 .. n : typed[k].code # -1}
    IN  IF ran = {} THEN code = 0 /\ sig = 0
        ELSE \E k \in ran : /\ code = typed[k].code /\ sig = typed[k].sig
                            /\ \A j \in ran : j <= k

EndsInv ==
    /\ sh = "prompt" => LastEnd(Now, lastcode, lastsig)
    /\ sh = "waitpid" => LastEnd(Now - 1, lastcode, lastsig)
    /\ \A i \in 1 .. Len(answers) :
          /\ answers[i].at \in 1 .. Now
          /\ LastEnd(answers[i].at - 1, answers[i].code, answers[i].sig)

\* What is to be in a file: the lines that wrote there since it was last emptied.
Standing(f) ==
    {k \in 1 .. Now : /\ typed[k].wrote /\ Target(k) = f
                      /\ \A j \in k + 1 .. Now : ~Empties(j, f)}

FilesInv ==
    /\ \A k \in 1 .. Now : typed[k].wrote => Target(k) \in DOMAIN files
    /\ \A f \in DOMAIN files : InOrder(files[f], Standing(f))

ShellInv == ShellTypes /\ ChildInv /\ EndsInv /\ FilesInv

-----------------------------------------------------------------------------
\* The invariant holds before anything is typed.
LEMMA ShellStarts == ASSUME ShellInit  PROVE ShellInv
<1>1. /\ prog \in Shells /\ sh = "prompt" /\ redirType = "none" /\ child = "none"
      /\ stdout = "terminal" /\ lastcode = 0 /\ lastsig = 0
      /\ files = [f \in Present \cup {"terminal"} |-> <<>>] /\ typed = <<>> /\ answers = <<>>
  BY DEF ShellInit, InitShell
<1>2. /\ Len(<<>>) = 0 /\ DOMAIN <<>> = {} /\ <<>> \in Seq(1 .. MaxTyped) /\ <<>> \in Seq(Entry)
      /\ <<>> \in Seq([at : Nat, code : Nat, sig : Nat])
  OBVIOUS
<1>3. Now = 0
  BY <1>1, <1>2 DEF Now
<1>4. ShellTypes
  <2>1. ShellTypeOK
    <3>1. DOMAIN files = Present \cup {"terminal"} /\ \A f \in DOMAIN files : files[f] = <<>>
      BY <1>1
    <3> QED  BY <1>1, <1>2, <3>1 DEF ShellTypeOK
  <2>2. Now <= MaxTyped
    BY <1>3, ShellAssumption
  <2>3. typed \in Seq(Entry) /\ answers \in Seq([at : Nat, code : Nat, sig : Nat])
    BY <1>1, <1>2
  <2>4. lastcode \in Nat /\ lastsig \in Nat
    BY <1>1
  <2> QED  BY <1>1, <2>1, <2>2, <2>3, <2>4 DEF ShellTypes
<1>5. ChildInv
  BY <1>1 DEF ChildInv
<1>6. EndsInv
  BY <1>1, <1>2, <1>3 DEF EndsInv, LastEnd
<1>7. FilesInv
  BY <1>1, <1>2, <1>3 DEF FilesInv, Standing, InOrder
<1> QED  BY <1>4, <1>5, <1>6, <1>7 DEF ShellInv

\* The lines typed so far, with one more behind them.
LEMMA OneLineMore ==
    ASSUME typed \in Seq(Entry), NEW e \in Entry, typed' = Append(typed, e), NEW n, n = Now
    PROVE  /\ n \in Nat /\ Now' = n + 1 /\ typed' \in Seq(Entry) /\ typed'[n + 1] = e
           /\ \A k \in 1 .. n : typed'[k] = typed[k]
BY DEF Now

\* The ends of the lines up to n count, whatever comes behind them.
LEMMA SameEnds ==
    ASSUME NEW n \in Nat, \A k \in 1 .. n : typed'[k].code = typed[k].code /\ typed'[k].sig = typed[k].sig
    PROVE  \A code, sig : LastEnd(n, code, sig)' <=> LastEnd(n, code, sig)
<1> TAKE code, sig
<1>1. PICK R : R = {k \in 1 .. n : typed[k].code # -1}
  OBVIOUS
<1>2. R = {k \in 1 .. n : typed'[k].code # -1} /\ \A k \in R : k \in 1 .. n
  BY <1>1
<1>3. LastEnd(n, code, sig) <=>
        IF R = {} THEN code = 0 /\ sig = 0
        ELSE \E k \in R : code = typed[k].code /\ sig = typed[k].sig /\ \A j \in R : j <= k
  BY <1>1 DEF LastEnd
<1>4. LastEnd(n, code, sig)' <=>
        IF R = {} THEN code = 0 /\ sig = 0
        ELSE \E k \in R : code = typed'[k].code /\ sig = typed'[k].sig /\ \A j \in R : j <= k
  BY <1>2 DEF LastEnd
<1> QED  BY <1>2, <1>3, <1>4

\* A line whose child has ended is the last one that had a child; one without a child
\* changes nothing.
LEMMA OneEndMore ==
    ASSUME NEW n \in Nat, NEW code, NEW sig
    PROVE  /\ typed[n + 1].code # -1 /\ code = typed[n + 1].code /\ sig = typed[n + 1].sig =>
                 LastEnd(n + 1, code, sig)
           /\ typed[n + 1].code = -1 => (LastEnd(n + 1, code, sig) <=> LastEnd(n, code, sig))
<1> DEFINE R(m) == {k \in 1 .. m : typed[k].code # -1}
<1>1. \A k \in 1 .. n + 1 : k \in 1 .. n \/ k = n + 1
  OBVIOUS
<1>2. \A k \in 1 .. n : k \in 1 .. n + 1
  OBVIOUS
<1>3. n + 1 \in 1 .. n + 1 /\ \A k \in 1 .. n + 1 : k <= n + 1
  OBVIOUS
<1>4. typed[n + 1].code = -1 => R(n + 1) = R(n)
  BY <1>1, <1>2
<1>5. typed[n + 1].code # -1 => n + 1 \in R(n + 1) /\ \A j \in R(n + 1) : j <= n + 1
  BY <1>3
<1>6. ASSUME NEW m
      PROVE  LastEnd(m, code, sig) <=>
               IF R(m) = {} THEN code = 0 /\ sig = 0
               ELSE \E k \in R(m) : code = typed[k].code /\ sig = typed[k].sig /\ \A j \in R(m) : j <= k
  BY DEF LastEnd
<1> HIDE DEF R
<1>7. typed[n + 1].code # -1 /\ code = typed[n + 1].code /\ sig = typed[n + 1].sig =>
                 LastEnd(n + 1, code, sig)
  BY <1>5, <1>6
<1>8. typed[n + 1].code = -1 => (LastEnd(n + 1, code, sig) <=> LastEnd(n, code, sig))
  BY <1>4, <1>6
<1> QED  BY <1>7, <1>8

\* A line is typed: until its child opens its file, no file knows of it.
LEMMA ReadLineStep ==
    ASSUME ShellInv, NEW l \in LinesTyped, ReadLine(l), prog' = prog
    PROVE  ShellInv'
<1> DEFINE e == [line |-> l, code |-> -1, sig |-> 0, wrote |-> FALSE]
<1>0. /\ sh = "prompt" /\ Now < MaxTyped /\ typed' = Append(typed, e) /\ commandcheck(l)
      /\ child = "none" /\ ShellTypes /\ EndsInv /\ FilesInv /\ typed \in Seq(Entry)
      /\ UNCHANGED <<stdout, status, lastcode, lastsig, files>>
      /\ IF Command(l) \in Builtins THEN UNCHANGED <<sh, child>>
         ELSE sh' = "waitpid" /\ child' = "new"
      /\ answers' = IF l.cmd = "echo $?"
                    THEN Append(answers, [at |-> Now', code |-> lastcode, sig |-> lastsig])
                    ELSE answers
  BY DEF ReadLine, ShellInv, ChildInv, ShellTypes
<1>1. e \in Entry
  BY DEF Entry
<1>2. PICK n \in Nat : n = Now
  BY <1>0, <1>1, OneLineMore
<1>3. /\ Now' = n + 1 /\ typed' \in Seq(Entry) /\ typed'[n + 1] = e
      /\ \A k \in 1 .. n : typed'[k] = typed[k]
  BY <1>0, <1>1, <1>2, OneLineMore
<1>4. /\ redirType' = IF prog = "lesson15" /\ l.op # "none" THEN l.op ELSE "none"
      /\ prog = "lesson15" /\ l.op # "none" => redirFile' = l.file
      /\ redirType' \in {"none", "<", ">", ">>"}
  BY <1>0, ShellAssumption DEF commandcheck, Reset
<1>5. n + 1 <= MaxTyped /\ n + 1 \in 1 .. MaxTyped
  <2>1. n < MaxTyped /\ n \in Nat /\ MaxTyped \in Nat
    BY <1>0, <1>2, ShellAssumption
  <2> QED  BY <2>1
<1>11. lastcode \in Nat /\ lastsig \in Nat /\ answers \in Seq([at : Nat, code : Nat, sig : Nat])
  BY <1>0 DEF ShellTypes
<1>12. PICK a : a = [at |-> n + 1, code |-> lastcode, sig |-> lastsig]
  OBVIOUS
<1>13. a \in [at : Nat, code : Nat, sig : Nat]
  BY <1>11, <1>12
<1>14. answers' = IF l.cmd = "echo $?" THEN Append(answers, a) ELSE answers
  BY <1>0, <1>3, <1>12
<1>15. PICK R : R = [at : Nat, code : Nat, sig : Nat]
  OBVIOUS
<1>16. \A q \in Seq(R), x \in R :
          /\ Append(q, x) \in Seq(R)
          /\ \A i \in 1 .. Len(Append(q, x)) :
                (i \in 1 .. Len(q) /\ Append(q, x)[i] = q[i]) \/ Append(q, x)[i] = x
  OBVIOUS
<1>17. /\ answers' \in Seq(R)
       /\ \A i \in 1 .. Len(answers') :
             (i \in 1 .. Len(answers) /\ answers'[i] = answers[i]) \/ answers'[i] = a
  <2>1. answers \in Seq(R) /\ a \in R
    BY <1>11, <1>13, <1>15
  <2>2. CASE answers' = answers
    BY <2>1, <2>2
  <2>3. CASE answers' = Append(answers, a)
    BY <1>16, <2>1, <2>3
  <2> QED  BY <1>14, <2>2, <2>3
<1>6. Command(l)' = Command(l)
  BY DEF Command
<1>7. ShellTypes'
  <2>1. sh' \in {"prompt", "waitpid", "aborted"} /\ child' \in {"none", "new", "exec", "zombie"}
    BY <1>0
  <2>2. ShellTypeOK'
    BY <1>0, <1>4, <2>1 DEF ShellTypes, ShellTypeOK
  <2>3. Now' <= MaxTyped /\ lastcode' \in Nat /\ lastsig' \in Nat /\ prog' \in Shells
    BY <1>0, <1>3, <1>5, <1>11, prog' = prog DEF ShellTypes
  <2> QED  BY <1>3, <1>15, <1>17, <2>2, <2>3 DEF ShellTypes
<1>8. ChildInv'
  <2>1. CASE Command(l) \in Builtins
    BY <1>0, <2>1 DEF ChildInv
  <2>2. CASE Command(l) \notin Builtins
    <3>1. typed'[Now'].line = l /\ typed'[Now'].code = -1 /\ ~typed'[Now'].wrote
      BY <1>3
    <3>2. Command(typed[Now].line)' = Command(l)
      BY <3>1 DEF Command
    <3>3. ThisLine'
      BY <1>0, <1>3, <1>4, <1>5, <2>2, <3>1, <3>2 DEF ThisLine
    <3> QED  BY <1>0, <2>2, <3>3 DEF ChildInv
  <2> QED  BY <2>1, <2>2
<1>9. EndsInv'
  <2>1. \A k \in 1 .. n : typed'[k].code = typed[k].code /\ typed'[k].sig = typed[k].sig
    BY <1>3
  <2>2. LastEnd(n, lastcode, lastsig)'
    <3>1. LastEnd(n, lastcode, lastsig)
      BY <1>0, <1>2 DEF EndsInv
    <3>2. PICK c, s : c = lastcode /\ s = lastsig
      OBVIOUS
    <3>3. LastEnd(n, c, s)'
      BY <2>1, <3>1, <3>2, SameEnds
    <3> QED  BY <1>0, <3>2, <3>3 DEF LastEnd
  <2>3. sh' = "prompt" => LastEnd(Now, lastcode, lastsig)'
    <3>1. typed'[n + 1].code = -1
      BY <1>3
    <3>2. LastEnd(n + 1, lastcode, lastsig)' <=> LastEnd(n, lastcode, lastsig)'
      <4>1. {k \in 1 .. n + 1 : typed'[k].code # -1} = {k \in 1 .. n : typed'[k].code # -1}
        BY <3>1
      <4> QED  BY <4>1 DEF LastEnd
    <3> QED  BY <1>3, <2>2, <3>2 DEF LastEnd
  <2>4. LastEnd(Now - 1, lastcode, lastsig)'
    <3>1. Now' - 1 = n
      BY <1>3
    <3> QED  BY <2>2, <3>1 DEF LastEnd
  <2>5. ASSUME NEW i \in 1 .. Len(answers')
        PROVE  /\ answers'[i].at \in 1 .. Now'
               /\ LastEnd(answers[i].at - 1, answers[i].code, answers[i].sig)'
    <3>1. CASE i \in 1 .. Len(answers) /\ answers'[i] = answers[i]
      <4>1. PICK m, c, s : m = answers[i].at /\ c = answers[i].code /\ s = answers[i].sig
        OBVIOUS
      <4>2. m \in 1 .. n /\ LastEnd(m - 1, c, s)
        BY <1>0, <1>2, <3>1, <4>1 DEF EndsInv
      <4>3. m - 1 \in Nat /\ \A k \in 1 .. m - 1 : k \in 1 .. n
        BY <4>2
      <4>4. LastEnd(m - 1, c, s)'
        BY <2>1, <4>2, <4>3, SameEnds
      <4>5. m \in 1 .. n + 1
        BY <4>2
      <4>6. m = answers'[i].at /\ c = answers'[i].code /\ s = answers'[i].sig
        BY <3>1, <4>1
      <4> QED  BY <1>3, <4>4, <4>5, <4>6 DEF LastEnd
    <3>2. CASE answers'[i] = a
      <4>1. n + 1 \in 1 .. n + 1 /\ n + 1 - 1 = n
        OBVIOUS
      <4>2. answers'[i].at = n + 1 /\ answers'[i].code = lastcode' /\ answers'[i].sig = lastsig'
        <5>1. a.at = n + 1 /\ a.code = lastcode /\ a.sig = lastsig
          BY <1>12
        <5> QED  BY <1>0, <3>2, <5>1
      <4> QED  BY <1>3, <2>2, <4>1, <4>2 DEF LastEnd
    <3> QED  BY <1>17, <3>1, <3>2
  <2> QED  BY <2>3, <2>4, <2>5 DEF EndsInv
<1>10. FilesInv'
  <2>1. \A k \in 1 .. n : Target(k)' = Target(k)
    BY <1>3 DEF Target
  <2>2. ASSUME NEW f  PROVE /\ \A j \in 1 .. n : Empties(j, f)' <=> Empties(j, f)
                            /\ ~Empties(n + 1, f)'
    <3>1. \A j \in 1 .. n : j < n + 1
      OBVIOUS
    <3>2. \A j \in 1 .. n : Empties(j, f)' <=> Empties(j, f)
      BY <1>0, <1>3, <3>1 DEF Empties
    <3>3. ~Empties(n + 1, f)'
      <4>1. SUFFICES ASSUME Empties(n + 1, f)'  PROVE FALSE
        OBVIOUS
      <4>2. /\ prog' = "lesson15" /\ typed'[n + 1].line.cmd \notin Builtins
            /\ n + 1 < Now' \/ child' # "new"
        BY <4>1 DEF Empties
      <4>3. Command(l) \notin Builtins
        BY <1>3, <4>2, prog' = prog DEF Command
      <4>4. child' = "new"
        BY <1>0, <4>3
      <4>5. ~(n + 1 < Now')
        BY <1>3
      <4> QED  BY <4>2, <4>4, <4>5
    <3> QED  BY <3>2, <3>3
  <2>3. ASSUME NEW f  PROVE Standing(f)' = Standing(f)
    <3>1. \A k \in 1 .. n : (\A j \in k + 1 .. n + 1 : ~Empties(j, f)') <=> (\A j \in k + 1 .. n : ~Empties(j, f))
      <4> TAKE k \in 1 .. n
      <4>1. \A j \in k + 1 .. n + 1 : (j \in 1 .. n /\ j \in k + 1 .. n) \/ j = n + 1
        OBVIOUS
      <4>2. \A j \in k + 1 .. n : j \in 1 .. n /\ j \in k + 1 .. n + 1
        OBVIOUS
      <4> QED  BY <2>2, <4>1, <4>2
    <3>2. ~typed'[n + 1].wrote
      BY <1>3
    <3>3. Standing(f)' = {k \in 1 .. n + 1 : /\ typed'[k].wrote /\ Target(k)' = f
                                            /\ \A j \in k + 1 .. n + 1 : ~Empties(j, f)'}
      BY <1>3 DEF Standing
    <3>4. Standing(f) = {k \in 1 .. n : /\ typed[k].wrote /\ Target(k) = f
                                        /\ \A j \in k + 1 .. n : ~Empties(j, f)}
      BY <1>2 DEF Standing
    <3>5. \A k \in 1 .. n + 1 : k \in 1 .. n \/ k = n + 1
      OBVIOUS
    <3>6. \A k \in 1 .. n : k \in 1 .. n + 1
      OBVIOUS
    <3> QED  BY <1>3, <2>1, <3>1, <3>2, <3>3, <3>4, <3>5, <3>6
  <2>4. \A k \in 1 .. Now' : typed'[k].wrote => Target(k)' \in DOMAIN files'
    <3>1. \A k \in 1 .. n + 1 : k \in 1 .. n \/ k = n + 1
      OBVIOUS
    <3>2. \A k \in 1 .. n : typed[k].wrote => Target(k) \in DOMAIN files
      BY <1>0, <1>2 DEF FilesInv
    <3>3. \A k \in 1 .. n : typed'[k].wrote => Target(k)' \in DOMAIN files'
      BY <1>0, <1>3, <2>1, <3>2
    <3>4. ~typed'[n + 1].wrote
      BY <1>3
    <3>5. 1 .. Now' = 1 .. n + 1
      BY <1>3
    <3> QED  BY <3>1, <3>3, <3>4, <3>5
  <2>5. \A f \in DOMAIN files' : InOrder(files[f], Standing(f))'
    BY <1>0, <2>3 DEF FilesInv, InOrder
  <2> QED  BY <2>4, <2>5 DEF FilesInv
<1> QED  BY <1>7, <1>8, <1>9, <1>10 DEF ShellInv

\* While the lines stay as they are typed, so do their targets and the files they empty.
LEMMA SameLines ==
    ASSUME NEW n \in Nat, n = Now, Now' = n, prog' = prog,
           \A k \in 1 .. n : typed'[k].line = typed[k].line
    PROVE  /\ \A k \in 1 .. n : Target(k)' = Target(k)
           /\ \A f : \A j \in 1 .. n : j < n => (Empties(j, f)' <=> Empties(j, f))
           /\ child # "new" /\ child' # "new" =>
                \A f : \A j \in 1 .. n : Empties(j, f)' <=> Empties(j, f)
           /\ child = "new" => \A f : ~Empties(n, f)
<1>1. \A k \in 1 .. n : Target(k)' = Target(k)
  BY DEF Target
<1>2. \A f : \A j \in 1 .. n : j < n => (Empties(j, f)' <=> Empties(j, f))
  BY DEF Empties
<1>3. child # "new" /\ child' # "new" => \A f : \A j \in 1 .. n : Empties(j, f)' <=> Empties(j, f)
  BY DEF Empties
<1>4. child = "new" => \A f : ~Empties(n, f)
  BY DEF Empties
<1> QED  BY <1>1, <1>2, <1>3, <1>4

\* What is to be in a file, when the newest line writes there or empties it.
LEMMA StandingMore ==
    ASSUME NEW n \in Nat, n >= 1, n = Now, Now' = n, NEW f, ~typed[n].wrote,
           \A k \in 1 .. n : Target(k)' = Target(k),
           \A k \in 1 .. n : k < n => typed'[k].wrote = typed[k].wrote
    PROVE  /\ Standing(f) \in SUBSET (1 .. n - 1)
           /\ (\A j \in 1 .. n : Empties(j, f)' <=> Empties(j, f)) =>
                Standing(f)' = Standing(f) \cup
                               (IF typed'[n].wrote /\ Target(n) = f THEN {n} ELSE {})
           /\ Empties(n, f)' /\ ~typed'[n].wrote => Standing(f)' = {}
<1>1. \A k \in 1 .. n : k = n \/ (k < n /\ k \in 1 .. n - 1 /\ n \in k + 1 .. n)
  OBVIOUS
<1>2. n \in 1 .. n /\ n + 1 .. n = {} /\ \A k \in 1 .. n : \A j \in k + 1 .. n : j \in 1 .. n
  OBVIOUS
<1>3. Standing(f) = {k \in 1 .. n : /\ typed[k].wrote /\ Target(k) = f
                                    /\ \A j \in k + 1 .. n : ~Empties(j, f)}
  BY DEF Standing
<1>4. Standing(f)' = {k \in 1 .. n : /\ typed'[k].wrote /\ Target(k)' = f
                                     /\ \A j \in k + 1 .. n : ~Empties(j, f)'}
  BY DEF Standing
<1>5. Standing(f) \in SUBSET (1 .. n - 1)
  BY <1>1, <1>3
<1>6. ASSUME \A j \in 1 .. n : Empties(j, f)' <=> Empties(j, f)
      PROVE  Standing(f)' = Standing(f) \cup
                            (IF typed'[n].wrote /\ Target(n) = f THEN {n} ELSE {})
  <2>1. \A k \in 1 .. n : (\A j \in k + 1 .. n : ~Empties(j, f)') <=> (\A j \in k + 1 .. n : ~Empties(j, f))
    BY <1>2, <1>6
  <2>2. \A k \in 1 .. n : k < n => (k \in Standing(f)' <=> k \in Standing(f))
    BY <1>3, <1>4, <2>1
  <2>3. n \in Standing(f)' <=> typed'[n].wrote /\ Target(n) = f
    BY <1>2, <1>4
  <2>4. n \notin Standing(f)
    BY <1>3
  <2>5. \A k \in Standing(f) : k \in 1 .. n
    BY <1>3
  <2>6. \A k \in Standing(f)' : k \in 1 .. n
    BY <1>4
  <2>7. PICK A, B : A = Standing(f)' /\ B = Standing(f)
    OBVIOUS
  <2> QED  BY <1>1, <1>2, <2>2, <2>3, <2>4, <2>5, <2>6, <2>7
<1>7. Empties(n, f)' /\ ~typed'[n].wrote => Standing(f)' = {}
  BY <1>1, <1>4
<1> QED  BY <1>5, <1>6, <1>7

\* What the ends of the lines before the newest tell, while its child runs.
LEMMA EndsBefore ==
    ASSUME EndsInv, NEW n \in Nat, n >= 1, n = Now, Now' = n, sh = "waitpid",
           UNCHANGED <<sh, lastcode, lastsig, answers>>,
           \A k \in 1 .. n : k < n => typed'[k] = typed[k]
    PROVE  EndsInv'
<1>1. n - 1 \in Nat /\ \A k \in 1 .. n - 1 : k \in 1 .. n /\ k < n
  OBVIOUS
<1>2. \A k \in 1 .. n - 1 : typed'[k].code = typed[k].code /\ typed'[k].sig = typed[k].sig
  BY <1>1
<1>3. LastEnd(Now - 1, lastcode, lastsig)'
  <2>1. PICK c, s : c = lastcode /\ s = lastsig
    OBVIOUS
  <2>2. LastEnd(n - 1, c, s)
    BY <2>1 DEF EndsInv
  <2>3. LastEnd(n - 1, c, s)'
    BY <1>1, <1>2, <2>2, SameEnds
  <2> QED  BY <2>1, <2>3 DEF LastEnd
<1>4. ASSUME NEW i \in 1 .. Len(answers')
      PROVE  answers'[i].at \in 1 .. Now' /\ LastEnd(answers[i].at - 1, answers[i].code, answers[i].sig)'
  <2>1. PICK m, c, s : m = answers[i].at /\ c = answers[i].code /\ s = answers[i].sig
    OBVIOUS
  <2>2. m \in 1 .. n /\ LastEnd(m - 1, c, s)
    BY <2>1 DEF EndsInv
  <2>3. m - 1 \in Nat /\ \A k \in 1 .. m - 1 : k \in 1 .. n - 1
    BY <2>2
  <2>4. LastEnd(m - 1, c, s)'
    BY <1>2, <2>2, <2>3, SameEnds
  <2> QED  BY <2>1, <2>2, <2>4 DEF LastEnd
<1> QED  BY <1>3, <1>4 DEF EndsInv

\* What the end of the child leaves in the history.
LEMMA EndTyped ==
    ASSUME typed \in Seq(Entry), NEW n \in Nat, n >= 1, n = Now, NEW end,
           end.code \in Nat, end.sig \in Nat, NEW wrote \in BOOLEAN, ChildEnds(end, wrote)
    PROVE  /\ Now' = n /\ typed' \in Seq(Entry) /\ \A k \in 1 .. n : typed'[k].line = typed[k].line
           /\ \A k \in 1 .. n : k < n => typed'[k] = typed[k]
           /\ typed'[n].code = end.code /\ typed'[n].sig = end.sig /\ typed'[n].wrote = wrote
<1>1. PICK q \in Seq(Entry) : q = typed
  OBVIOUS
<1>2. n \in 1 .. Len(q) /\ DOMAIN q = 1 .. Len(q) /\ n = Len(q)
  BY <1>1 DEF Now
<1>3. PICK e : e = [q[n] EXCEPT !.code = end.code, !.sig = end.sig, !.wrote = wrote]
  OBVIOUS
<1>4. q[n] \in Entry
  BY <1>2
<1>5. e \in Entry /\ e.line = q[n].line /\ e.code = end.code /\ e.sig = end.sig /\ e.wrote = wrote
  <2>1. PICK x \in Entry : x = q[n]
    BY <1>4
  <2>2. PICK code \in Int, sig \in Nat : code = end.code /\ sig = end.sig
    OBVIOUS
  <2>3. e = [line |-> x.line, code |-> code, sig |-> sig, wrote |-> wrote]
    BY <1>3, <2>1, <2>2 DEF Entry
  <2> QED  BY <2>1, <2>2, <2>3 DEF Entry
<1>6. typed' = [q EXCEPT ![n] = e]
  <2>1. typed' = [q EXCEPT ![n].code = end.code, ![n].sig = end.sig, ![n].wrote = wrote]
    BY <1>1 DEF ChildEnds
  <2> QED  BY <1>2, <1>3, <2>1
<1>7. typed' \in Seq(Entry) /\ Len(typed') = n
  BY <1>2, <1>5, <1>6
<1>8. typed'[n] = e /\ \A k \in 1 .. n : k < n => typed'[k] = q[k]
  BY <1>2, <1>6
<1>9. \A k \in 1 .. n : k < n \/ k = n
  OBVIOUS
<1> QED  BY <1>1, <1>5, <1>7, <1>8, <1>9 DEF Now

\* The child's step ends it, with a code of its own or errno, and without output.
LEMMA ChildFails ==
    ASSUME ShellInv, child \in {"new", "exec"}, prog' = prog, NEW end, end.code \in Nat, end.sig \in Nat,
           ChildEnds(end, FALSE), UNCHANGED <<sh, redirType, redirFile, stdout, files, lastcode, lastsig, answers>>,
           child = "new" => redirType # "none" /\ redirFile \notin DOMAIN files
    PROVE  ShellInv'
<1>1. /\ ShellTypes /\ ThisLine /\ EndsInv /\ FilesInv /\ sh = "waitpid" /\ child' = "zombie" /\ status' = end
      /\ typed \in Seq(Entry)
  BY DEF ShellInv, ChildInv, ShellTypes, ChildEnds
<1>2. PICK n \in Nat : n = Now /\ n >= 1 /\ n <= MaxTyped
  BY <1>1, ShellAssumption DEF ThisLine
<1>3. /\ Now' = n /\ typed' \in Seq(Entry) /\ \A k \in 1 .. n : typed'[k].line = typed[k].line
      /\ \A k \in 1 .. n : k < n => typed'[k] = typed[k]
      /\ typed'[n].code = end.code /\ typed'[n].sig = end.sig /\ typed'[n].wrote = FALSE
  BY <1>1, <1>2, EndTyped
<1>4. n \in 1 .. n
  BY <1>2
<1>5. ShellTypes'
  BY <1>1, <1>2, <1>3 DEF ShellTypes, ShellTypeOK
<1>6. PICK l : l = typed[n].line
  OBVIOUS
<1>7. /\ typed[Now].line = l /\ typed'[Now'].line = l /\ Command(l)' = Command(l)
  BY <1>2, <1>3, <1>4, <1>6 DEF Command
<1>8. ThisLine'
  BY <1>1, <1>2, <1>3, <1>7 DEF ThisLine
<1>9. ChildInv'
  BY <1>1, <1>8 DEF ChildInv
<1>10. EndsInv'
  BY <1>1, <1>2, <1>3, EndsBefore
<1>11. FilesInv'
  <2>1. ~typed[n].wrote
    BY <1>1, <1>2 DEF ThisLine
  <2>2. \A k \in 1 .. n : Target(k)' = Target(k)
    BY <1>2, <1>3, SameLines
  <2>3. ASSUME NEW f \in DOMAIN files  PROVE \A j \in 1 .. n : Empties(j, f)' <=> Empties(j, f)
    <3>1. CASE child = "exec"
      BY <1>1, <1>2, <1>3, <3>1, SameLines
    <3>2. CASE child = "new"
      <4>1. ~Empties(n, f) /\ \A j \in 1 .. n : j < n => (Empties(j, f)' <=> Empties(j, f))
        BY <1>2, <1>3, <3>2, SameLines
      <4>2. ~Empties(n, f)'
        <5>1. SUFFICES ASSUME Empties(n, f)'  PROVE FALSE
          OBVIOUS
        <5>2. prog = "lesson15" /\ l.op = ">" /\ l.file = f
          BY <1>2, <1>3, <1>7, <5>1 DEF Empties
        <5>3. redirFile = f
          BY <1>1, <1>7, <5>2 DEF ThisLine
        <5> QED  BY <3>2, <5>3
      <4>3. \A j \in 1 .. n : j < n \/ j = n
        OBVIOUS
      <4> QED  BY <4>1, <4>2, <4>3
    <3> QED  BY <3>1, <3>2
  <2>4. ASSUME NEW f \in DOMAIN files  PROVE Standing(f)' = Standing(f)
    <3>1. ~typed'[n].wrote /\ \A k \in 1 .. n : k < n => typed'[k].wrote = typed[k].wrote
      BY <1>3
    <3>2. Standing(f)' = Standing(f) \cup (IF typed'[n].wrote /\ Target(n) = f THEN {n} ELSE {})
      BY <1>2, <1>3, <2>1, <2>2, <2>3, <3>1, StandingMore
    <3> QED  BY <3>1, <3>2
  <2>5. \A k \in 1 .. Now' : typed'[k].wrote => Target(k)' \in DOMAIN files'
    <3>1. \A k \in 1 .. n : k < n \/ k = n
      OBVIOUS
    <3>2. \A k \in 1 .. n : typed[k].wrote => Target(k) \in DOMAIN files
      BY <1>1, <1>2 DEF FilesInv
    <3>3. \A k \in 1 .. n : typed'[k].wrote => Target(k)' \in DOMAIN files'
      BY <1>3, <2>2, <3>1, <3>2
    <3> QED  BY <1>3, <3>3
  <2>6. \A f \in DOMAIN files' : InOrder(files[f], Standing(f))'
    BY <1>1, <2>4 DEF FilesInv, InOrder
  <2> QED  BY <2>5, <2>6 DEF FilesInv
<1> QED  BY <1>5, <1>9, <1>10, <1>11 DEF ShellInv

\* The child opens the file of its own line: for ">" it is emptied.
LEMMA RedirectStep == ASSUME ShellInv, Redirect, prog' = prog  PROVE ShellInv'
<1>1. /\ ShellTypes /\ ThisLine /\ EndsInv /\ FilesInv /\ sh = "waitpid" /\ child = "new"
      /\ typed \in Seq(Entry)
      /\ UNCHANGED <<sh, redirType, redirFile, lastcode, lastsig, answers>>
  BY DEF Redirect, ShellInv, ChildInv, ShellTypes
<1>2. CASE redirType # "none" /\ ~CanOpen(redirType, redirFile)
  <2>1. ENOENT \in Nat /\ redirFile \notin DOMAIN files
    BY <1>2 DEF ENOENT, CanOpen
  <2>2. PICK end : end = [code |-> ENOENT, sig |-> 0]
    OBVIOUS
  <2>3. ChildEnds(end, FALSE) /\ UNCHANGED <<stdout, files>> /\ end.code \in Nat /\ end.sig \in Nat
    BY <1>2, <2>1, <2>2 DEF Redirect
  <2> QED  BY <1>1, <1>2, <2>1, <2>3, ChildFails
<1>3. CASE ~(redirType # "none" /\ ~CanOpen(redirType, redirFile))
  <2>1. /\ child' = "exec" /\ UNCHANGED <<status, typed>>
        /\ stdout' = IF redirType \in {">", ">>"} THEN redirFile ELSE "terminal"
        /\ files' = [f \in DOMAIN files \cup {stdout'} |->
                       IF f \notin DOMAIN files THEN <<>>
                       ELSE IF f = stdout' /\ redirType = ">" THEN <<>>
                       ELSE files[f]]
    BY <1>3 DEF Redirect
  <2>2. PICK n \in Nat : n = Now /\ n >= 1
    BY <1>1, ShellAssumption DEF ThisLine
  <2>3. Now' = n /\ n \in 1 .. n /\ ~typed[n].wrote
    BY <1>1, <2>1, <2>2 DEF Now, ThisLine
  <2>4. PICK l : l = typed[Now].line
    OBVIOUS
  <2>5. /\ Command(l) \notin Builtins /\ typed'[Now'].line = l /\ Command(l)' = Command(l)
        /\ typed[Now].code = -1 /\ Now \in 1 .. MaxTyped
        /\ redirType = IF prog = "lesson15" /\ l.op # "none" THEN l.op ELSE "none"
        /\ prog = "lesson15" /\ l.op # "none" => redirFile = l.file
    BY <1>1, <2>1, <2>2, <2>3, <2>4 DEF ThisLine, Command
  <2>6. Target(Now) = IF prog = "lesson15" /\ l.op \in {">", ">>"} THEN l.file ELSE "terminal"
    BY <2>4 DEF Target
  <2>7. stdout' = Target(Now) /\ stdout' = Target(Now)'
    BY <2>1, <2>2, <2>3, <2>4, <2>5, <2>6 DEF Target
  <2>8. ThisLine'
    BY <1>1, <2>1, <2>2, <2>3, <2>5, <2>7 DEF ThisLine
  <2>9. ChildInv'
    BY <1>1, <2>8 DEF ChildInv
  <2>10. ShellTypes'
    <3>1. stdout' \in DOMAIN files' /\ \A f \in DOMAIN files' : files'[f] \in Seq(1 .. MaxTyped)
      <4>1. stdout' \in DOMAIN files'
        BY <2>1
      <4>2. \A f \in DOMAIN files' : files'[f] = <<>> \/ (f \in DOMAIN files /\ files'[f] = files[f])
        BY <2>1
      <4>3. <<>> \in Seq(1 .. MaxTyped) /\ \A f \in DOMAIN files : files[f] \in Seq(1 .. MaxTyped)
        BY <1>1 DEF ShellTypes, ShellTypeOK
      <4> QED  BY <4>1, <4>2, <4>3
    <3>2. ShellTypeOK'
      BY <1>1, <2>1, <3>1 DEF ShellTypes, ShellTypeOK
    <3> QED  BY <1>1, <2>1, <2>2, <2>3, <3>2 DEF ShellTypes
  <2>11. EndsInv'
    BY <1>1, <2>1, <2>2, <2>3, EndsBefore
  <2>12. FilesInv'
    <3>1. /\ \A k \in 1 .. n : Target(k)' = Target(k)
          /\ \A f : ~Empties(n, f) /\ \A j \in 1 .. n : j < n => (Empties(j, f)' <=> Empties(j, f))
      BY <1>1, <2>1, <2>2, <2>3, SameLines
    <3>2. \A f : Empties(n, f)' <=> redirType = ">" /\ f = redirFile
      <4>1. \A f : Empties(n, f)' <=> prog = "lesson15" /\ l.op = ">" /\ l.file = f /\ l.cmd \notin Builtins
        BY <2>1, <2>2, <2>3, <2>4 DEF Empties
      <4>2. prog = "lesson15" => l.cmd \notin Builtins
        BY <2>5 DEF Command
      <4> QED  BY <2>5, <4>1, <4>2
    <3>3. ASSUME NEW f, Empties(n, f)'  PROVE Standing(f)' = {}
      BY <2>1, <2>2, <2>3, <3>1, <3>3, StandingMore
    <3>4. ASSUME NEW f, ~Empties(n, f)'  PROVE Standing(f)' = Standing(f)
      <4>1. \A j \in 1 .. n : j < n \/ j = n
        OBVIOUS
      <4>2. \A j \in 1 .. n : Empties(j, f)' <=> Empties(j, f)
        BY <3>1, <3>4, <4>1
      <4>3. ~typed'[n].wrote /\ \A k \in 1 .. n : k < n => typed'[k].wrote = typed[k].wrote
        BY <2>1, <2>3
      <4>4. Standing(f)' = Standing(f) \cup (IF typed'[n].wrote /\ Target(n) = f THEN {n} ELSE {})
        BY <2>2, <2>3, <3>1, <4>2, <4>3, StandingMore
      <4> QED  BY <4>3, <4>4
    <3>5. \A k \in 1 .. Now' : typed'[k].wrote => Target(k)' \in DOMAIN files'
      BY <1>1, <2>1, <2>2, <2>3, <3>1 DEF FilesInv
    <3>6. ASSUME NEW f \in DOMAIN files'  PROVE InOrder(files[f], Standing(f))'
      <4>1. CASE files'[f] = files[f] /\ f \in DOMAIN files /\ ~Empties(n, f)'
        BY <1>1, <3>4, <4>1 DEF FilesInv, InOrder
      <4>2. CASE files'[f] = <<>> /\ Standing(f)' = {}
        BY <4>2 DEF InOrder
      <4>3. CASE f \notin DOMAIN files
        <5>1. Standing(f) = {}
          BY <1>1, <4>3 DEF FilesInv, Standing
        <5>2. Standing(f)' = {}
          BY <3>3, <3>4, <5>1
        <5> QED  BY <2>1, <4>2, <4>3, <5>2
      <4>4. CASE f \in DOMAIN files /\ f = stdout' /\ redirType = ">"
        <5>1. Empties(n, f)'
          BY <2>1, <3>2, <4>4
        <5> QED  BY <2>1, <3>3, <4>2, <4>4, <5>1
      <4>5. CASE f \in DOMAIN files /\ ~(f = stdout' /\ redirType = ">")
        <5>1. ~Empties(n, f)'
          BY <2>1, <3>2, <4>5
        <5> QED  BY <2>1, <4>1, <4>5, <5>1
      <4> QED  BY <4>3, <4>4, <4>5
    <3> QED  BY <3>5, <3>6 DEF FilesInv
  <2> QED  BY <2>9, <2>10, <2>11, <2>12 DEF ShellInv
<1> QED  BY <1>2, <1>3

\* The program that is found writes at the end of its own line's file.
LEMMA ExecvpStep == ASSUME ShellInv, execvp, prog' = prog  PROVE ShellInv'
<1>1. /\ ShellTypes /\ ThisLine /\ EndsInv /\ FilesInv /\ sh = "waitpid" /\ child = "exec"
      /\ typed \in Seq(Entry) /\ stdout \in DOMAIN files
      /\ \A f \in DOMAIN files : files[f] \in Seq(1 .. MaxTyped)
      /\ UNCHANGED <<sh, redirType, redirFile, stdout, lastcode, lastsig, answers>>
  BY DEF execvp, ShellInv, ChildInv, ShellTypes, ShellTypeOK
<1>2. CASE Command(typed[Now].line) \notin Found
  <2>1. PICK end : end = [code |-> 1, sig |-> 0]
    OBVIOUS
  <2>2. ChildEnds(end, FALSE) /\ UNCHANGED files /\ end.code \in Nat /\ end.sig \in Nat
    BY <1>2, <2>1 DEF execvp
  <2> QED  BY <1>1, <2>2, ChildFails
<1>3. CASE Command(typed[Now].line) \in Found
  <2>1. PICK end \in Ends, wrote \in BOOLEAN :
          /\ ChildEnds(end, wrote)
          /\ files' = IF wrote THEN [files EXCEPT ![stdout] = Append(@, Now)] ELSE files
    BY <1>3 DEF execvp
  <2>2. end.code \in Nat /\ end.sig \in Nat
    BY ShellAssumption
  <2>3. CASE wrote = FALSE
    BY <1>1, <2>1, <2>2, <2>3, ChildFails
  <2>4. CASE wrote = TRUE
    <3>0. child' = "zombie" /\ status' = end /\ files' = [files EXCEPT ![stdout] = Append(files[stdout], Now)]
      BY <2>1, <2>4 DEF ChildEnds
    <3>1. PICK n \in Nat : n = Now /\ n >= 1 /\ n <= MaxTyped /\ n \in 1 .. MaxTyped
      BY <1>1, ShellAssumption DEF ThisLine
    <3>2. /\ Now' = n /\ typed' \in Seq(Entry) /\ \A k \in 1 .. n : typed'[k].line = typed[k].line
          /\ \A k \in 1 .. n : k < n => typed'[k] = typed[k]
          /\ typed'[n].code = end.code /\ typed'[n].sig = end.sig /\ typed'[n].wrote = wrote
      BY <1>1, <2>1, <2>2, <3>1, EndTyped
    <3>3. n \in 1 .. n /\ ~typed[n].wrote /\ stdout = Target(n)
      BY <1>1, <3>1 DEF ThisLine
    <3>4. PICK l : l = typed[n].line
      OBVIOUS
    <3>5. /\ typed[Now].line = l /\ typed'[Now'].line = l /\ Command(l)' = Command(l)
      BY <3>1, <3>2, <3>3, <3>4 DEF Command
    <3>6. ShellTypes'
      <4>1. \A q \in Seq(1 .. MaxTyped) : Append(q, n) \in Seq(1 .. MaxTyped)
        BY <3>1
      <4>2. DOMAIN files' = DOMAIN files /\ \A f \in DOMAIN files : files'[f] \in Seq(1 .. MaxTyped)
        BY <1>1, <3>0, <3>1, <4>1
      <4>3. ShellTypeOK'
        BY <1>1, <3>0, <4>2 DEF ShellTypes, ShellTypeOK
      <4> QED  BY <1>1, <3>1, <3>2, <4>3 DEF ShellTypes
    <3>7. ChildInv'
      <4>1. ThisLine'
        BY <1>1, <2>2, <3>0, <3>1, <3>2, <3>5 DEF ThisLine
      <4> QED  BY <1>1, <4>1 DEF ChildInv
    <3>8. EndsInv'
      BY <1>1, <3>1, <3>2, EndsBefore
    <3>9. FilesInv'
      <4>1. /\ \A k \in 1 .. n : Target(k)' = Target(k)
            /\ \A f : \A j \in 1 .. n : Empties(j, f)' <=> Empties(j, f)
        BY <1>1, <3>0, <3>1, <3>2, SameLines
      <4>2. typed'[n].wrote /\ \A k \in 1 .. n : k < n => typed'[k].wrote = typed[k].wrote
        BY <2>4, <3>2
      <4>3. ASSUME NEW f
            PROVE  /\ Standing(f) \in SUBSET (1 .. n - 1)
                   /\ Standing(f)' = Standing(f) \cup (IF Target(n) = f THEN {n} ELSE {})
        <5>1. /\ Standing(f) \in SUBSET (1 .. n - 1)
              /\ Standing(f)' = Standing(f) \cup
                                (IF typed'[n].wrote /\ Target(n) = f THEN {n} ELSE {})
          BY <3>1, <3>2, <3>3, <4>1, <4>2, StandingMore
        <5> QED  BY <4>2, <5>1
      <4>4. \A k \in 1 .. Now' : typed'[k].wrote => Target(k)' \in DOMAIN files'
        <5>1. \A k \in 1 .. n : k < n \/ k = n
          OBVIOUS
        <5>2. \A k \in 1 .. n : typed[k].wrote => Target(k) \in DOMAIN files
          BY <1>1, <3>1 DEF FilesInv
        <5>3. \A k \in 1 .. n : typed'[k].wrote => Target(k) \in DOMAIN files
          BY <1>1, <3>3, <4>2, <5>1, <5>2
        <5>4. DOMAIN files' = DOMAIN files
          BY <3>0
        <5> QED  BY <3>2, <4>1, <5>3, <5>4
      <4>5. ASSUME NEW f \in DOMAIN files'  PROVE InOrder(files[f], Standing(f))'
        <5>1. f \in DOMAIN files /\ InOrder(files[f], Standing(f))
          BY <1>1, <3>0 DEF FilesInv
        <5>2. CASE f # stdout
          <6>1. files'[f] = files[f] /\ Standing(f)' = Standing(f)
            BY <3>0, <3>3, <4>3, <5>1, <5>2
          <6> QED  BY <5>1, <6>1 DEF InOrder
        <5>3. CASE f = stdout
          <6>1. PICK s \in Seq(Nat) : s = files[f]
            <7>1. PICK q \in Seq(1 .. MaxTyped) : q = files[f]
              BY <1>1, <5>1
            <7>2. Len(q) \in Nat /\ q = [i \in 1 .. Len(q) |-> q[i]] /\ \A i \in 1 .. Len(q) : q[i] \in Nat
              <8>1. Len(q) \in Nat /\ q = [i \in 1 .. Len(q) |-> q[i]]
                OBVIOUS
              <8>2. \A i \in 1 .. Len(q) : q[i] \in 1 .. MaxTyped
                <9>1. PICK S : S = 1 .. MaxTyped
                  OBVIOUS
                <9>2. \A w \in Seq(S) : \A i \in 1 .. Len(w) : w[i] \in S
                  OBVIOUS
                <9> QED  BY <9>1, <9>2
              <8>3. \A x \in 1 .. MaxTyped : x \in Nat
                BY ShellAssumption
              <8> QED  BY <8>1, <8>2, <8>3
            <7>3. q \in Seq(Nat)
              BY <7>2
            <7> QED  BY <7>1, <7>3
          <6>2. PICK S \in SUBSET (1 .. n - 1) : S = Standing(f)
            BY <4>3
          <6>3. InOrder(Append(s, n - 1 + 1), S \cup {n - 1 + 1})
            <7>1. n - 1 \in Nat /\ InOrder(s, S)
              BY <3>1, <5>1, <6>1, <6>2
            <7> QED  BY <7>1, InOrderMore
          <6>4. n - 1 + 1 = n
            OBVIOUS
          <6>5. files'[f] = Append(s, n) /\ Standing(f)' = S \cup {n}
            BY <3>0, <3>1, <3>3, <4>3, <5>1, <5>3, <6>1, <6>2
          <6> QED  BY <6>3, <6>4, <6>5 DEF InOrder
        <5> QED  BY <5>2, <5>3
      <4> QED  BY <4>4, <4>5 DEF FilesInv
    <3> QED  BY <3>6, <3>7, <3>8, <3>9 DEF ShellInv
  <2> QED  BY <2>3, <2>4
<1> QED  BY <1>2, <1>3

\* No step of the shell but these changes a line or a file.
LEMMA FilesStand ==
    ASSUME FilesInv, UNCHANGED <<prog, typed, files>>, child' = "new" <=> child = "new"
    PROVE  FilesInv'
<1>1. Now' = Now /\ (\A k : Target(k)' = Target(k)) /\ \A j, f : Empties(j, f)' <=> Empties(j, f)
  BY DEF Now, Target, Empties
<1>2. \A f : Standing(f)' = Standing(f)
  BY <1>1 DEF Standing
<1>3. \A k \in 1 .. Now' : typed'[k].wrote => Target(k)' \in DOMAIN files'
  BY <1>1 DEF FilesInv
<1>4. \A f \in DOMAIN files' : InOrder(files[f], Standing(f))'
  BY <1>2 DEF FilesInv, InOrder
<1> QED  BY <1>3, <1>4 DEF FilesInv

\* The shell waits for its child, or reads no more.
LEMMA WaitpidStep == ASSUME ShellInv, waitpid \/ EndOfInput, prog' = prog  PROVE ShellInv'
<1>1. ShellTypes /\ ChildInv /\ EndsInv /\ FilesInv /\ UNCHANGED <<prog, typed, files, answers, stdout, redirType>>
  BY DEF ShellInv, waitpid, EndOfInput
<1>2. Now' = Now /\ \A n, code, sig : LastEnd(n, code, sig)' <=> LastEnd(n, code, sig)
  BY <1>1 DEF Now, LastEnd
<1>3. ASSUME NEW i \in 1 .. Len(answers')
      PROVE  answers'[i].at \in 1 .. Now' /\ LastEnd(answers[i].at - 1, answers[i].code, answers[i].sig)'
  <2>1. PICK m, c, s : m = answers[i].at /\ c = answers[i].code /\ s = answers[i].sig
    OBVIOUS
  <2>2. m \in 1 .. Now /\ LastEnd(m - 1, c, s)
    BY <1>1, <2>1 DEF EndsInv
  <2> QED  BY <1>1, <1>2, <2>1, <2>2 DEF LastEnd
<1>4. CASE waitpid
  <2>1. /\ sh = "waitpid" /\ child = "zombie" /\ lastcode' = status.code /\ lastsig' = status.sig
        /\ sh' = "prompt" /\ child' = "none" /\ ThisLine
    BY <1>1, <1>4 DEF waitpid, ChildInv
  <2>2. /\ Now \in 1 .. MaxTyped /\ typed[Now].code = status.code /\ typed[Now].sig = status.sig
        /\ status.code \in Nat /\ status.sig \in Nat
    BY <2>1 DEF ThisLine
  <2>3. ShellTypes'
    BY <1>1, <1>2, <2>1, <2>2 DEF ShellTypes, ShellTypeOK
  <2>4. ChildInv'
    BY <2>1 DEF ChildInv
  <2>5. LastEnd(Now, lastcode, lastsig)'
    <3>1. PICK m \in Nat : Now = m + 1
      <4>1. Now - 1 \in Nat /\ Now = Now - 1 + 1
        BY <2>2, ShellAssumption
      <4> QED  BY <4>1
    <3>2. PICK c, s : c = status.code /\ s = status.sig
      OBVIOUS
    <3>3. c # -1
      BY <2>2, <3>2
    <3>4. LastEnd(m + 1, c, s)
      BY <2>2, <3>1, <3>2, <3>3, OneEndMore
    <3> QED  BY <1>1, <1>2, <2>1, <3>1, <3>2, <3>4 DEF LastEnd
  <2>6. EndsInv'
    BY <1>3, <2>1, <2>5 DEF EndsInv
  <2>7. FilesInv'
    BY <1>1, <2>1, FilesStand
  <2> QED  BY <2>3, <2>4, <2>6, <2>7 DEF ShellInv
<1>5. CASE EndOfInput
  <2>1. /\ sh = "prompt" /\ sh' = "aborted" /\ child = "none" /\ child' = "none"
        /\ UNCHANGED <<lastcode, lastsig, status, redirFile>>
    BY <1>1, <1>5 DEF EndOfInput, ChildInv
  <2>2. ShellTypes'
    BY <1>1, <1>2, <2>1 DEF ShellTypes, ShellTypeOK
  <2>3. ChildInv' /\ EndsInv'
    BY <1>3, <2>1 DEF ChildInv, EndsInv
  <2>4. FilesInv'
    BY <1>1, <2>1, FilesStand
  <2> QED  BY <2>2, <2>3, <2>4 DEF ShellInv
<1> QED  BY <1>4, <1>5

\* A step of the shell or of its child keeps the invariant.
LEMMA ShellStep == ASSUME ShellInv, [ShellNext]_shellVars  PROVE ShellInv'
<1>1. CASE ShellNext
  BY <1>1, ReadLineStep, RedirectStep, ExecvpStep, WaitpidStep DEF ShellNext
<1>2. CASE UNCHANGED shellVars
  <2>1. /\ UNCHANGED <<prog, typed, files, answers, stdout, redirType, redirFile, sh, child, status>>
        /\ UNCHANGED <<lastcode, lastsig>> /\ ShellTypes /\ ChildInv /\ EndsInv /\ FilesInv
    BY <1>2 DEF shellVars, shell, ShellInv
  <2>2. Now' = Now /\ (\A k : Target(k)' = Target(k)) /\ \A l : Command(l)' = Command(l)
    BY <2>1 DEF Now, Target, Command
  <2>3. ShellTypes'
    BY <2>1, <2>2 DEF ShellTypes, ShellTypeOK
  <2>4. ThisLine' <=> ThisLine
    BY <2>1, <2>2 DEF ThisLine
  <2>5. ChildInv'
    BY <2>1, <2>4 DEF ChildInv
  <2>6. EndsInv'
    BY <2>1, <2>2 DEF EndsInv, LastEnd
  <2>7. FilesInv'
    BY <2>1, FilesStand
  <2> QED  BY <2>3, <2>5, <2>6, <2>7 DEF ShellInv
<1> QED  BY <1>1, <1>2

\* The invariant says of the lines what LinesKeepApart promises.
LEMMA ShellTells == ShellInv => LinesKeepApart
<1> SUFFICES ASSUME ShellInv  PROVE LinesKeepApart
  OBVIOUS
<1>1. \A f \in DOMAIN files :
        InOrder(files[f], {k \in 1 .. Now :
                             /\ typed[k].wrote /\ Target(k) = f
                             /\ \A j \in k + 1 .. Now : ~Empties(j, f)})
  BY DEF ShellInv, FilesInv, Standing
<1>2. ASSUME NEW i \in 1 .. Len(answers)
      PROVE  LastEnd(answers[i].at - 1, answers[i].code, answers[i].sig)
  BY DEF ShellInv, EndsInv
<1>3. ASSUME NEW i \in 1 .. Len(answers), NEW ran,
             ran = {k \in 1 .. answers[i].at - 1 : typed[k].code # -1}
      PROVE  IF ran = {} THEN answers[i].code = 0 /\ answers[i].sig = 0
             ELSE \E k \in ran : /\ answers[i].code = typed[k].code /\ answers[i].sig = typed[k].sig
                                 /\ \A j \in ran : j <= k
  BY <1>2, <1>3 DEF LastEnd
<1> QED  BY <1>1, <1>3 DEF LinesKeepApart

\* Each program's output is in the file of its own line, and "echo $?" tells how the last
\* child ended, for every shell, line and file (main of mybash.c).
THEOREM LinesDoNotMix == ShellSpec => []LinesKeepApart
<1>1. ShellInit => ShellInv
  BY ShellStarts
<1>2. ShellInv /\ [ShellNext]_shellVars => ShellInv'
  BY ShellStep
<1> QED  BY <1>1, <1>2, ShellTells, PTL DEF ShellSpec
-----------------------------------------------------------------------------
(* MyStdio: a byte is in the file or in the buffer, and the buffer is put  *)
(* at the end of the file before anything is written behind it.            *)

StdioTypes ==
    /\ StdioTypeOK /\ prog \in StdioPrograms
    /\ kept \in Seq(Byte) /\ Len(written) <= MaxPut

\* Nothing is written before fopen_, and before the first byte the buffer is empty.
FreshInv ==
    /\ fp = "none" => written = <<>>
    /\ written = <<>> => buffer = <<>>

StdioInv == StdioTypes /\ FreshInv /\ StdioDelivers

\* Concatenation, as the flushes use it.
LEMMA Regroup == \A a, b, c \in Seq(Byte) : (a \o b) \o c = a \o (b \o c)
OBVIOUS

\* The bytes of two pieces, one behind the other.
LEMMA Concats ==
    /\ \A a \in Seq(Byte) : a \o <<>> = a /\ <<>> \o a = a
    /\ \A a, b \in Seq(Byte) : a \o b \in Seq(Byte) /\ Len(a \o b) = Len(a) + Len(b)
    /\ \A a \in Seq(Byte) : SubSeq(a, 1, Len(a)) = a
    /\ \A a \in Seq(Byte), n \in Nat : n <= Len(a) => SubSeq(a, 1, n) \in Seq(Byte)
    /\ <<>> \in Seq(Byte) /\ Len(<<>>) = 0
OBVIOUS

\* A flush of what is in the buffer and a piece behind it: unless write(2) was cut
\* short the file has it all.
LEMMA FlushStep ==
    ASSUME NEW s \in Seq(Byte), file \in Seq(Byte), short \in BOOLEAN, fflush_(s)
    PROVE  /\ file' \in Seq(Byte) /\ short' \in BOOLEAN /\ buffer' = <<>>
           /\ ~short' => ~short /\ file' = file \o s
<1>1. PICK n \in 0 .. Len(s) : /\ file' = file \o SubSeq(s, 1, n)
                               /\ short' = (short \/ n < Len(s))
  BY DEF fflush_
<1>2. n \in Nat /\ n <= Len(s) /\ Len(s) \in Nat
  OBVIOUS
<1>3. SubSeq(s, 1, n) \in Seq(Byte) /\ SubSeq(s, 1, Len(s)) = s
  BY <1>2, Concats
<1>4. file' \in Seq(Byte)
  BY <1>1, <1>3, Concats
<1>5. ~short' => ~short /\ n = Len(s)
  <2>1. (short \/ n < Len(s)) => short'
    BY <1>1, Zenon
  <2> QED  BY <1>2, <2>1
<1> QED  BY <1>1, <1>3, <1>4, <1>5 DEF fflush_

\* Before fopen_, the file has its first byte and the buffer none.
LEMMA NothingWritten == InitStdio => StdioTypeOK
<1> SUFFICES ASSUME InitStdio  PROVE StdioTypeOK
  OBVIOUS
<1>1. /\ buffer = <<>> /\ written = <<>> /\ file = <<<<0, TRUE>>>>
      /\ fp = "none" /\ fileno = "none" /\ flag = "SYNC_LINE" /\ short = FALSE
  BY DEF InitStdio
<1>2. <<0, TRUE>> \in Byte
  <2>1. 0 \in 0 .. MaxPut
    BY StdioAssumption
  <2> QED  BY <2>1 DEF Byte
<1>3. file \in Seq(Byte) /\ <<>> \in Seq(Byte) /\ Len(<<>>) = 0
  BY <1>1, <1>2
<1>4. flag \in SYNC /\ short \in BOOLEAN
  BY <1>1 DEF SYNC
<1>5. buffer \in Seq(Byte) /\ written \in Seq(Byte) /\ Len(buffer) <= SIZE
  BY <1>1, <1>3, StdioAssumption
<1> QED  BY <1>1, <1>3, <1>4, <1>5 DEF StdioTypeOK

\* The invariant holds before anything runs.
LEMMA StdioStarts == ASSUME StdioInit  PROVE StdioInv
<1>1. InitStdio /\ prog \in StdioPrograms
  BY DEF StdioInit
<1>2. StdioTypeOK
  BY <1>1, NothingWritten
<1>3. buffer = <<>> /\ written = <<>> /\ kept = file /\ fp = "none" /\ Len(<<>>) = 0
  BY <1>1 DEF InitStdio
<1>4. StdioTypes
  BY <1>1, <1>2, <1>3, StdioAssumption DEF StdioTypes, StdioTypeOK
<1> QED  BY <1>1, <1>3, <1>4 DEF InitStdio, StdioInv, FreshInv, StdioDelivers

\* A step of the library keeps the invariant.
LEMMA StdioStep == ASSUME StdioInv, [StdioNext]_stdioVars  PROVE StdioInv'
<1>0. /\ StdioTypes /\ FreshInv /\ StdioDelivers
      /\ file \in Seq(Byte) /\ buffer \in Seq(Byte) /\ written \in Seq(Byte)
      /\ kept \in Seq(Byte) /\ short \in BOOLEAN /\ Len(buffer) <= SIZE /\ Len(written) <= MaxPut
  BY DEF StdioInv, StdioTypes, StdioTypeOK
<1>1. ASSUME NEW mode, fopen_(mode), prog' = prog  PROVE StdioInv'
  <2>1. /\ fp = "none" /\ written = <<>> /\ buffer = <<>>
        /\ UNCHANGED <<flag, buffer, written, short>> /\ fp' \in {"open", "NULL"}
    BY <1>0, <1>1 DEF fopen_, FreshInv
  <2>2. fileno' \in {"none", "read", "write", "append"}
    BY <1>0, <1>1 DEF fopen_, StdioTypes, StdioTypeOK
  <2>3. file' \in Seq(Byte) /\ kept' \in Seq(Byte)
    <3>1. <<>> \in Seq(Byte)
      BY Concats
    <3>2. (file' = <<>> \/ file' = file) /\ (kept' = file' \/ kept' = kept)
      BY <1>1 DEF fopen_
    <3> QED  BY <1>0, <3>1, <3>2
  <2>4. ~short => file' = kept'
    <3>1. file \o <<>> = file /\ kept \o <<>> = kept
      BY <1>0, Concats
    <3> QED  BY <1>0, <1>1, <2>1, <3>1 DEF fopen_, StdioDelivers
  <2>5. StdioTypes'
    BY <1>0, <1>1, <2>1, <2>2, <2>3 DEF StdioTypes, StdioTypeOK
  <2>6. FreshInv' /\ StdioDelivers'
    BY <2>1, <2>4 DEF FreshInv, StdioDelivers
  <2> QED  BY <2>5, <2>6 DEF StdioInv
<1>2. ASSUME NEW nums \in 0 .. MaxPiece, fwrite_(nums), prog' = prog  PROVE StdioInv'
  <2>0. nums \in Nat /\ Len(written) + nums <= MaxPut /\ Len(buffer) + nums <= SIZE /\ fp = "open"
    BY <1>2, StdioAssumption DEF fwrite_
  <2>1. PICK newlines \in SUBSET (1 .. nums) :
          LET s == [i \in 1 .. nums |-> <<Len(written) + i, i \in newlines>>]
          IN  /\ written' = written \o s
              /\ IF Full(buffer \o s) THEN fflush_(buffer \o s)
                 ELSE buffer' = buffer \o s /\ UNCHANGED <<file, short>>
    BY <1>2 DEF fwrite_
  <2>2. PICK s : s = [i \in 1 .. nums |-> <<Len(written) + i, i \in newlines>>]
    OBVIOUS
  <2>3. s \in Seq(Byte) /\ Len(s) = nums
    <3>1. \A i \in 1 .. nums : <<Len(written) + i, i \in newlines>> \in Byte
      <4>1. \A i \in 1 .. nums : Len(written) + i \in 0 .. MaxPut
        BY <1>0, <2>0, StdioAssumption
      <4>2. \A i \in 1 .. nums : (i \in newlines) \in BOOLEAN
        OBVIOUS
      <4> QED  BY <4>1, <4>2 DEF Byte
    <3>2. \A n \in Nat : \A q \in [1 .. n -> Byte] : q \in Seq(Byte) /\ Len(q) = n
      OBVIOUS
    <3>3. s \in [1 .. nums -> Byte]
      BY <2>2, <3>1
    <3> QED  BY <2>0, <3>2, <3>3
  <2>4. /\ written' = written \o s /\ UNCHANGED <<fp, fileno, flag, kept>>
        /\ Full(buffer \o s) => fflush_(buffer \o s)
        /\ ~Full(buffer \o s) => buffer' = buffer \o s /\ UNCHANGED <<file, short>>
    BY <1>2, <2>1, <2>2 DEF fwrite_
  <2>5. /\ buffer \o s \in Seq(Byte) /\ Len(buffer \o s) <= SIZE
        /\ written \o s \in Seq(Byte) /\ Len(written \o s) <= MaxPut
    BY <1>0, <2>0, <2>3, Concats
  <2>6. ~short => file \o (buffer \o s) = kept \o (written \o s)
    <3>1. /\ file \o (buffer \o s) = (file \o buffer) \o s
          /\ kept \o (written \o s) = (kept \o written) \o s
      BY <1>0, <2>3, Regroup
    <3> QED  BY <1>0, <3>1 DEF StdioDelivers
  <2>7. written' = <<>> => buffer' = <<>>
    <3>1. written' = <<>> => s = <<>> /\ written = <<>>
      <4>1. \A a, b \in Seq(Byte) : a \o b = <<>> => a = <<>> /\ b = <<>>
        OBVIOUS
      <4> QED  BY <1>0, <2>3, <2>4, <4>1
    <3>2. CASE Full(buffer \o s)
      BY <2>4, <3>2 DEF fflush_
    <3>3. CASE ~Full(buffer \o s)
      <4>1. written' = <<>> => buffer' = <<>> \o <<>>
        BY <1>0, <2>4, <3>1, <3>3 DEF FreshInv
      <4> QED  BY <4>1
    <3> QED  BY <3>2, <3>3
  <2>8. CASE Full(buffer \o s)
    <3>1. /\ file' \in Seq(Byte) /\ short' \in BOOLEAN /\ buffer' = <<>>
          /\ ~short' => ~short /\ file' = file \o (buffer \o s)
      BY <1>0, <2>4, <2>5, <2>8, FlushStep
    <3>2. ~short' => file' \o buffer' = kept' \o written'
      BY <2>4, <2>6, <3>1, Concats
    <3>3. <<>> \in Seq(Byte) /\ Len(<<>>) = 0
      OBVIOUS
    <3>4. StdioTypes'
      BY <1>0, <1>2, <2>4, <2>5, <3>1, <3>3, StdioAssumption DEF StdioTypes, StdioTypeOK
    <3>5. FreshInv' /\ StdioDelivers'
      BY <2>0, <2>4, <3>1, <3>2 DEF FreshInv, StdioDelivers
    <3> QED  BY <3>4, <3>5 DEF StdioInv
  <2>9. CASE ~Full(buffer \o s)
    <3>1. buffer' = buffer \o s /\ UNCHANGED <<file, short, flag>>
      BY <2>4, <2>9
    <3>2. ~Full(buffer)'
      BY <2>9, <3>1 DEF Full
    <3>3. StdioTypes'
      BY <1>0, <1>2, <2>4, <2>5, <3>1 DEF StdioTypes, StdioTypeOK
    <3>4. FreshInv' /\ StdioDelivers'
      BY <2>0, <2>4, <2>6, <2>7, <3>1, <3>2 DEF FreshInv, StdioDelivers
    <3> QED  BY <3>3, <3>4 DEF StdioInv
  <2> QED  BY <2>8, <2>9
<1>3. CASE SetFlag /\ prog' = prog
  <2>1. /\ fp = "open" /\ buffer = <<>> /\ flag' \in SYNC
        /\ UNCHANGED <<fp, fileno, buffer, file, written, kept, short>>
    BY <1>0, <1>3 DEF SetFlag, FreshInv
  <2>2. StdioTypes'
    BY <1>0, <1>3, <2>1 DEF StdioTypes, StdioTypeOK
  <2> QED  BY <1>0, <2>1, <2>2 DEF StdioInv, FreshInv, StdioDelivers
<1>4. CASE (fclose_ \/ CallerFlushes) /\ prog' = prog
  <2>1. /\ fflush_(buffer) /\ fp = "open" /\ fp' \in {"open", "closed"}
        /\ UNCHANGED <<fileno, flag, written, kept>>
    BY <1>4 DEF fclose_, CallerFlushes
  <2>2. /\ file' \in Seq(Byte) /\ short' \in BOOLEAN /\ buffer' = <<>>
        /\ ~short' => ~short /\ file' = file \o buffer
    BY <1>0, <2>1, FlushStep
  <2>3. ~short' => file' \o buffer' = kept' \o written'
    BY <1>0, <2>1, <2>2, Concats DEF StdioDelivers
  <2>4. <<>> \in Seq(Byte) /\ Len(<<>>) = 0
    OBVIOUS
  <2>5. StdioTypes'
    BY <1>0, <1>4, <2>1, <2>2, <2>4, StdioAssumption DEF StdioTypes, StdioTypeOK
  <2> QED  BY <2>1, <2>2, <2>3, <2>5 DEF StdioInv, FreshInv, StdioDelivers
<1>5. CASE UNCHANGED stdioVars
  <2>1. ~Full(buffer) => ~Full(buffer)'
    BY <1>5 DEF stdioVars, stdio, Full
  <2> QED
    BY <1>0, <1>5, <2>1
    DEF stdioVars, stdio, StdioInv, StdioTypes, StdioTypeOK, FreshInv, StdioDelivers
<1> QED  BY <1>1, <1>2, <1>3, <1>4, <1>5 DEF StdioNext

\* Through any calls, whatever the policy and however much write(2) takes, no byte is
\* lost, doubled or moved.
THEOREM StdioLosesNothing == StdioSpec => []StdioDelivers
<1>1. StdioInv => StdioDelivers
  BY DEF StdioInv
<1> QED  BY <1>1, StdioStarts, StdioStep, PTL DEF StdioSpec
-----------------------------------------------------------------------------
(* Signals: SIGINT is in one place, sent, pending or delivered, and the    *)
(* word that waitpid stores keeps apart the two ways a child can end.      *)

\* How a child can have ended.
KidEnds ==
    {NotEnded, [code |-> 66, sig |-> 0, core |-> 0, ended |-> TRUE]} \cup
    {[code |-> 0, sig |-> k.sig, core |-> k.core, ended |-> TRUE] : k \in Kills}

SignalTypes ==
    /\ SignalTypeOK /\ prog \in SignalPrograms
    /\ caught \in Nat /\ kidEnd \in KidEnds

\* A signal that is pending has not been delivered yet, and until the mask is
\* there every signal came before it.
SigintInv ==
    /\ raised > 0 => caught > 0 \/ pending
    /\ caught + (IF pending THEN 1 ELSE 0) <= raised
    /\ prog = "lesson23" /\ turn = "start" => early = raised
    /\ blocked => caught <= early
    /\ prog = "mychild" => ~blocked /\ ~pending

\* The end of kidEnd, as the father prints it.
Printed(end) ==
    IF end.sig = 0 THEN [exited |-> TRUE, number |-> end.code]
    ELSE [exited |-> FALSE, number |-> end.sig]

\* The father stops when the child has ended, and with its report.
ReportInv == turn = "done" => prog = "mychild" /\ kidEnd.ended /\ report = Printed(kidEnd)

SignalInv == SignalTypes /\ SigintInv /\ ReportInv

\* The status word tells an exit from a signal, whatever the core bit says.
LEMMA StatusWord ==
    ASSUME NEW end \in KidEnds, end.ended
    PROVE  Decoded(WaitWord(end)) = Printed(end)
<1>1. CASE end = [code |-> 66, sig |-> 0, core |-> 0, ended |-> TRUE]
  <2>1. WaitWord(end) = 16896
    BY <1>1 DEF WaitWord
  <2>2. 16896 % 128 = 0 /\ (16896 \div 256) % 256 = 66
    OBVIOUS
  <2>3. Decoded(16896) = [exited |-> TRUE, number |-> 66]
    BY <2>2 DEF Decoded
  <2>4. Printed(end) = [exited |-> TRUE, number |-> 66]
    BY <1>1 DEF Printed
  <2> QED  BY <2>1, <2>3, <2>4
<1>2. ASSUME NEW k \in Kills,
             end = [code |-> 0, sig |-> k.sig, core |-> k.core, ended |-> TRUE]
      PROVE  Decoded(WaitWord(end)) = Printed(end)
  <2>1. k.sig \in 1 .. 126 /\ k.core \in {0, 1}
    BY SignalAssumption
  <2>2. WaitWord(end) = k.sig + 128 * k.core
    BY <1>2, <2>1 DEF WaitWord
  <2>3. \A n \in 1 .. 126, c \in {0, 1} : (n + 128 * c) % 128 = n
    OBVIOUS
  <2>4. WaitWord(end) % 128 = k.sig
    BY <2>1, <2>2, <2>3
  <2>5. Decoded(WaitWord(end)) = [exited |-> FALSE, number |-> k.sig]
    <3>1. k.sig # 0
      BY <2>1
    <3> QED  BY <2>4, <3>1 DEF Decoded
  <2>6. Printed(end) = [exited |-> FALSE, number |-> k.sig]
    <3>1. end.sig = k.sig /\ k.sig # 0
      BY <1>2, <2>1
    <3> QED  BY <3>1 DEF Printed
  <2> QED  BY <2>5, <2>6
<1> QED  BY <1>1, <1>2 DEF KidEnds, NotEnded

\* The invariant holds before anything runs.
LEMMA SignalsStart == ASSUME SignalInit  PROVE SignalInv
<1>1. rounds_left \in -1 .. (Rounds + KidRounds)
  BY SignalAssumption DEF SignalInit, InitSignals
<1>2. kidEnd \in KidEnds
  BY DEF SignalInit, InitSignals, KidEnds
<1>3. SignalTypeOK
  <2>1. raised = 0 /\ early = 0 /\ turn \in {"fork", "start"} /\ blocked = FALSE /\ pending = FALSE
    BY DEF SignalInit, InitSignals
  <2>2. raised \in 0 .. MaxRaised /\ early \in 0 .. raised
    BY <2>1, SignalAssumption
  <2> QED  BY <1>1, <2>1, <2>2 DEF SignalTypeOK
<1>4. SigintInv /\ ReportInv
  BY DEF SignalInit, InitSignals, SigintInv, ReportInv
<1>5. prog \in SignalPrograms /\ caught \in Nat
  BY DEF SignalInit, InitSignals
<1> QED  BY <1>2, <1>3, <1>4, <1>5 DEF SignalInv, SignalTypes

\* A step of either program keeps the invariant.
LEMMA SignalStep == ASSUME SignalInv, [SignalNext]_signalVars  PROVE SignalInv'
<1> USE DEF SignalInv
<1>0. /\ SignalTypes /\ SigintInv /\ ReportInv /\ SignalTypeOK
      /\ Rounds \in Nat /\ KidRounds \in Nat /\ MaxRaised \in Nat
  BY SignalAssumption DEF SignalTypes
<1>1. CASE Raise /\ prog' = prog
  <2>1. /\ raised' = raised + 1 /\ pending' = TRUE /\ prog = "lesson23" /\ raised < MaxRaised
        /\ early' = IF turn = "start" THEN raised + 1 ELSE early
        /\ UNCHANGED <<prog, turn, rounds_left, blocked, caught, kidEnd, report>>
    BY <1>1 DEF Raise
  <2>2. raised \in Nat /\ early \in Nat /\ caught \in Nat /\ early <= raised
    BY <1>0 DEF SignalTypes, SignalTypeOK
  <2>3. SignalTypes'
    BY <1>0, <2>1, <2>2 DEF SignalTypes, SignalTypeOK
  <2> QED  BY <1>0, <2>1, <2>2, <2>3 DEF SigintInv, ReportInv
<1>2. CASE myhandler /\ prog' = prog
  <2>1. /\ pending /\ ~blocked /\ pending' = FALSE /\ caught' = caught + 1
        /\ prog = "lesson23" /\ turn' = IF turn = "sleep" THEN "count" ELSE turn
        /\ UNCHANGED <<prog, rounds_left, blocked, raised, early, kidEnd, report>>
    BY <1>2 DEF myhandler
  <2>2. raised \in Nat /\ caught \in Nat /\ caught + 1 <= raised
    BY <1>0, <2>1 DEF SignalTypes, SignalTypeOK, SigintInv
  <2>3. SignalTypes'
    <3>1. turn' \in {"fork", "childless", "start", "show", "sleep", "count", "done"}
      BY <1>0, <2>1 DEF SignalTypeOK
    <3>2. SignalTypeOK'
      BY <1>0, <2>1, <3>1 DEF SignalTypeOK
    <3>3. caught' \in Nat
      BY <2>1, <2>2
    <3> QED  BY <1>0, <2>1, <3>2, <3>3 DEF SignalTypes
  <2>4. SigintInv' /\ ReportInv'
    BY <1>0, <2>1, <2>2 DEF SigintInv, ReportInv
  <2> QED  BY <2>3, <2>4
<1>3. CASE Block /\ prog' = prog
  BY <1>0, <1>3 DEF Block, Turn, SignalTypes, SignalTypeOK, SigintInv, ReportInv
<1>4. CASE show_pending /\ prog' = prog
  BY <1>0, <1>4 DEF show_pending, Turn, SignalTypes, SignalTypeOK, SigintInv, ReportInv
<1>5. CASE Unblock /\ prog' = prog
  BY <1>0, <1>5 DEF Unblock, Turn, SignalTypes, SignalTypeOK, SigintInv, ReportInv
<1>6. CASE Child /\ prog' = prog
  <2>1. /\ prog = "mychild" /\ ~kidEnd.ended /\ kidEnd' \in KidEnds
        /\ UNCHANGED <<turn, blocked, pending, raised, early, caught, report>>
        /\ rounds_left' \in {rounds_left, rounds_left - 1} /\ (rounds_left' # rounds_left => rounds_left > 0)
    BY <1>0, <1>6 DEF Child, KidEnds, SignalTypes
  <2>2. rounds_left' \in -1 .. (Rounds + KidRounds)
    BY <1>0, <2>1 DEF SignalTypeOK
  <2> QED  BY <1>0, <1>6, <2>1, <2>2 DEF SignalTypes, SignalTypeOK, SigintInv, ReportInv
<1>7. CASE Poll /\ prog' = prog
  <2>1. /\ prog = "mychild"
        /\ UNCHANGED <<rounds_left, blocked, pending, raised, early, caught, kidEnd>>
        /\ turn' \in {"sleep", "done", "start"}
    BY <1>7 DEF Poll, Turn
  <2>2. turn' = "done" => kidEnd.ended /\ report' = Decoded(WaitWord(kidEnd))
    BY <1>7 DEF Poll, Turn
  <2>3. turn' = "done" => report' = Printed(kidEnd)
    BY <1>0, <2>2, StatusWord DEF SignalTypes
  <2> QED  BY <1>0, <1>7, <2>1, <2>2, <2>3 DEF SignalTypes, SignalTypeOK, SigintInv, ReportInv
<1>8. CASE StartChild /\ prog' = prog
  BY <1>0, <1>8 DEF StartChild, Turn, SignalTypes, SignalTypeOK, SigintInv, ReportInv
<1>9. CASE UNCHANGED signalVars
  BY <1>0, <1>9 DEF signalVars, signals, SignalTypes, SignalTypeOK, SigintInv, ReportInv
<1> QED  BY <1>1, <1>2, <1>3, <1>4, <1>5, <1>6, <1>7, <1>8, <1>9 DEF SignalNext, Main

\* No SIGINT is lost while the mask is there, and the father reports the end its child
\* had, for any signals and any time the child takes.
THEOREM SignalsAreKept == SignalSpec => []SignalsKept
<1>1. SignalInv => SignalsKept
  BY DEF SignalInv, SignalTypes, SignalTypeOK, SigintInv, ReportInv, Printed, SignalsKept
<1> QED  BY <1>1, SignalsStart, SignalStep, PTL DEF SignalSpec
-----------------------------------------------------------------------------
(* Programs: a behaviour is one of its program, and what the other modules *)
(* say of theirs holds because nothing of theirs happens.                  *)

\* What every step of Next is for each module: a step of its own, or none.
LEMMA OneModuleMoves ==
    ASSUME [Next]_vars
    PROVE  /\ prog' = prog
           /\ [UdpNext]_udpVars /\ (prog \notin UdpPrograms => UNCHANGED <<udp>>)
           /\ [PipeNext]_pipeVars /\ (prog \notin PipingPrograms => UNCHANGED <<pipes>>)
           /\ [NamedNext]_namedVars /\ (prog \notin NamedPrograms => UNCHANGED <<named>>)
           /\ [ThreadNext]_threadVars /\ (prog \notin ThreadedPrograms => UNCHANGED <<threads, queues>>)
           /\ [ShellNext]_shellVars /\ (prog \notin Shells => UNCHANGED <<shell>>)
           /\ [StdioNext]_stdioVars /\ (prog \notin StdioPrograms => UNCHANGED <<stdio>>)
           /\ [SignalNext]_signalVars /\ (prog \notin SignalPrograms => UNCHANGED <<signals>>)
<1>1. CASE UdpNext /\ UNCHANGED <<pipes, named, threads, queues, shell, stdio, signals>>
  BY <1>1 DEF UdpNext, udpVars, pipeVars, namedVars, threadVars, shellVars, stdioVars, signalVars
<1>2. CASE PipeNext /\ UNCHANGED <<udp, named, threads, queues, shell, stdio, signals>>
  BY <1>2 DEF PipeNext, udpVars, pipeVars, namedVars, threadVars, shellVars, stdioVars, signalVars
<1>3. CASE NamedNext /\ UNCHANGED <<udp, pipes, threads, queues, shell, stdio, signals>>
  BY <1>3 DEF NamedNext, udpVars, pipeVars, namedVars, threadVars, shellVars, stdioVars, signalVars
<1>4. CASE ThreadNext /\ UNCHANGED <<udp, pipes, named, shell, stdio, signals>>
  BY <1>4 DEF ThreadNext, udpVars, pipeVars, namedVars, threadVars, shellVars, stdioVars, signalVars
<1>5. CASE ShellNext /\ UNCHANGED <<udp, pipes, named, threads, queues, stdio, signals>>
  BY <1>5 DEF ShellNext, udpVars, pipeVars, namedVars, threadVars, shellVars, stdioVars, signalVars
<1>6. CASE StdioNext /\ UNCHANGED <<udp, pipes, named, threads, queues, shell, signals>>
  BY <1>6 DEF StdioNext, udpVars, pipeVars, namedVars, threadVars, shellVars, stdioVars, signalVars
<1>7. CASE SignalNext /\ UNCHANGED <<udp, pipes, named, threads, queues, shell, stdio>>
  BY <1>7 DEF SignalNext, udpVars, pipeVars, namedVars, threadVars, shellVars, stdioVars, signalVars
<1>8. CASE UNCHANGED vars
  BY <1>8 DEF vars, udpVars, pipeVars, namedVars, threadVars, shellVars, stdioVars, signalVars
<1> QED  BY <1>1, <1>2, <1>3, <1>4, <1>5, <1>6, <1>7, <1>8 DEF Next

\* A behaviour is one of the UDP servers, or they never get past their first state.
LEMMA UdpAlone == Spec => UdpSpec \/ [](prog \notin UdpPrograms /\ InitUdp)
<1>1. Init => UdpInit \/ (prog \notin UdpPrograms /\ InitUdp)
  BY DEF Init, UdpInit
<1>2. [Next]_vars => [UdpNext]_udpVars
  BY OneModuleMoves
<1>3. prog \notin UdpPrograms /\ InitUdp /\ [Next]_vars => (prog \notin UdpPrograms /\ InitUdp)'
  BY OneModuleMoves DEF InitUdp, udp
<1> QED  BY <1>1, <1>2, <1>3, PTL DEF Spec, UdpSpec

\* The same of the programs with pipes,
LEMMA PipeAlone == Spec => PipeSpec \/ [](prog \notin PipingPrograms /\ InitPipes)
<1>1. Init => PipeInit \/ (prog \notin PipingPrograms /\ InitPipes)
  BY DEF Init, PipeInit
<1>2. [Next]_vars => [PipeNext]_pipeVars
  BY OneModuleMoves
<1>3. prog \notin PipingPrograms /\ InitPipes /\ [Next]_vars => (prog \notin PipingPrograms /\ InitPipes)'
  BY OneModuleMoves DEF InitPipes, pipes
<1> QED  BY <1>1, <1>2, <1>3, PTL DEF Spec, PipeSpec

\* of those that meet at a name,
LEMMA NamedAlone == Spec => NamedSpec \/ [](prog \notin NamedPrograms /\ InitNamed)
<1>1. Init => NamedInit \/ (prog \notin NamedPrograms /\ InitNamed)
  BY DEF Init, NamedInit
<1>2. [Next]_vars => [NamedNext]_namedVars
  BY OneModuleMoves
<1>3. prog \notin NamedPrograms /\ InitNamed /\ [Next]_vars => (prog \notin NamedPrograms /\ InitNamed)'
  BY OneModuleMoves DEF InitNamed, named
<1> QED  BY <1>1, <1>2, <1>3, PTL DEF Spec, NamedSpec

\* of those with threads,
LEMMA ThreadAlone == Spec => ThreadSpec \/ [](prog \notin ThreadedPrograms /\ InitThreads)
<1>1. Init => ThreadInit \/ (prog \notin ThreadedPrograms /\ InitThreads)
  BY DEF Init, ThreadInit
<1>2. [Next]_vars => [ThreadNext]_threadVars
  BY OneModuleMoves
<1>3. prog \notin ThreadedPrograms /\ InitThreads /\ [Next]_vars => (prog \notin ThreadedPrograms /\ InitThreads)'
  BY OneModuleMoves DEF InitThreads, threads, queues
<1> QED  BY <1>1, <1>2, <1>3, PTL DEF Spec, ThreadSpec

\* of the shells,
LEMMA ShellAlone == Spec => ShellSpec \/ [](prog \notin Shells /\ InitShell)
<1>1. Init => ShellInit \/ (prog \notin Shells /\ InitShell)
  BY DEF Init, ShellInit
<1>2. [Next]_vars => [ShellNext]_shellVars
  BY OneModuleMoves
<1>3. prog \notin Shells /\ InitShell /\ [Next]_vars => (prog \notin Shells /\ InitShell)'
  BY OneModuleMoves DEF InitShell, shell
<1> QED  BY <1>1, <1>2, <1>3, PTL DEF Spec, ShellSpec

\* of the buffered stdio,
LEMMA StdioAlone == Spec => StdioSpec \/ [](prog \notin StdioPrograms /\ InitStdio)
<1>1. Init => StdioInit \/ (prog \notin StdioPrograms /\ InitStdio)
  BY DEF Init, StdioInit
<1>2. [Next]_vars => [StdioNext]_stdioVars
  BY OneModuleMoves
<1>3. prog \notin StdioPrograms /\ InitStdio /\ [Next]_vars => (prog \notin StdioPrograms /\ InitStdio)'
  BY OneModuleMoves DEF InitStdio, stdio
<1> QED  BY <1>1, <1>2, <1>3, PTL DEF Spec, StdioSpec

\* and of the programs around signals.
LEMMA SignalAlone == Spec => SignalSpec \/ [](prog \notin SignalPrograms /\ InitSignals)
<1>1. Init => SignalInit \/ (prog \notin SignalPrograms /\ InitSignals)
  BY DEF Init, SignalInit
<1>2. [Next]_vars => [SignalNext]_signalVars
  BY OneModuleMoves
<1>3. prog \notin SignalPrograms /\ InitSignals /\ [Next]_vars => (prog \notin SignalPrograms /\ InitSignals)'
  BY OneModuleMoves DEF InitSignals, signals
<1> QED  BY <1>1, <1>2, <1>3, PTL DEF Spec, SignalSpec

\* What goes into a pipe comes out of it for its reader, no byte that fwrite_ has taken is
\* lost, and no signal or end of a child goes by, in every program that promises it.
THEOREM NothingIsLost == Spec => []NothingLost
<1>1. /\ prog \notin PipingPrograms /\ InitPipes => (prog \in PipingPrograms => PipesDeliver)
      /\ prog \notin StdioPrograms /\ InitStdio => (prog \in StdioPrograms => StdioDelivers)
      /\ prog \notin SignalPrograms /\ InitSignals => (prog \in SignalPrograms => SignalsKept)
  OBVIOUS
<1>2. Spec => [](prog \in PipingPrograms => PipesDeliver)
  BY <1>1, PipeAlone, PipesDeliverAll, PTL
<1>3. Spec => [](prog \in StdioPrograms => StdioDelivers)
  BY <1>1, StdioAlone, StdioLosesNothing, PTL
<1>4. Spec => [](prog \in SignalPrograms => SignalsKept)
  BY <1>1, SignalAlone, SignalsAreKept, PTL
<1>5. (/\ prog \in PipingPrograms => PipesDeliver
       /\ prog \in StdioPrograms => StdioDelivers
       /\ prog \in SignalPrograms => SignalsKept)
      => NothingLost
  BY DEF NothingLost
<1> QED  BY <1>2, <1>3, <1>4, <1>5, PTL

\* There is one server behind a name and one seller to a ticket, in every program whose
\* processes or threads contend (createFifo, createShm, get_tickets).
THEOREM OneAtATime == Spec => []Exclusive
<1>1. /\ prog \notin NamedPrograms /\ InitNamed => (prog \in NamedPrograms => OneServer)
      /\ prog \notin ThreadedPrograms /\ InitThreads => (prog \in ThreadedPrograms => TicketsSoldOnce)
  OBVIOUS
<1>2. Spec => [](prog \in NamedPrograms => OneServer)
  BY <1>1, NamedAlone, OneServerAtATime, PTL
<1>3. Spec => [](prog \in ThreadedPrograms => TicketsSoldOnce)
  BY <1>1, ThreadAlone, SellersSellOnce, PTL
<1>4. (prog \in NamedPrograms => OneServer) /\ (prog \in ThreadedPrograms => TicketsSoldOnce) => Exclusive
  BY DEF Exclusive
<1> QED  BY <1>2, <1>3, <1>4, PTL

\* Before anybody says anything, nobody is told anything.
LEMMA NothingSaid == InitUdp => UdpTypeOK /\ ToldExactly
BY UdpAssumption DEF InitUdp, UdpTypeOK, ToldExactly, InOrder

\* A client hears exactly the datagrams that were taken while it was to hear them, also
\* beside the other programs (the callbacks of UdpServer::start).
THEOREM ToldAsTheyHear == Spec => []ToldExactly
<1>1. prog \notin UdpPrograms /\ InitUdp => ToldExactly
  BY NothingSaid
<1> QED  BY <1>1, UdpTellsExactly, UdpAlone, PTL

\* Before a line is typed, every file is empty.
LEMMA NothingTyped == InitShell => ShellTypeOK /\ LinesKeepApart
<1> SUFFICES ASSUME InitShell  PROVE ShellTypeOK /\ LinesKeepApart
  OBVIOUS
<1>1. /\ sh = "prompt" /\ redirType = "none" /\ child = "none" /\ stdout = "terminal"
      /\ files = [f \in Present \cup {"terminal"} |-> <<>>] /\ typed = <<>> /\ answers = <<>>
  BY DEF InitShell
<1>2. DOMAIN files = Present \cup {"terminal"} /\ \A f \in DOMAIN files : files[f] = <<>>
  BY <1>1
<1>3. Len(<<>>) = 0 /\ DOMAIN <<>> = {} /\ <<>> \in Seq(1 .. MaxTyped)
  OBVIOUS
<1>4. ShellTypeOK
  BY <1>1, <1>2, <1>3 DEF ShellTypeOK
<1>5. LinesKeepApart
  BY <1>1, <1>2, <1>3 DEF LinesKeepApart, InOrder, Now
<1> QED  BY <1>4, <1>5

\* No line of a shell disturbs another, also beside the other programs.
THEOREM EachLineItsOwn == Spec => []LinesKeepApart
<1>1. prog \notin Shells /\ InitShell => LinesKeepApart
  BY NothingTyped
<1> QED  BY <1>1, LinesDoNotMix, ShellAlone, PTL

\* The other modules' first states have their types.
LEMMA FirstTypes ==
    /\ InitPipes => PipeTypeOK
    /\ InitNamed => NamedTypeOK
    /\ InitThreads => ThreadTypeOK
    /\ InitStdio => StdioTypeOK
<1>1. InitPipes => PipeTypeOK
  BY PipeAssumption DEF InitPipes, PipeTypeOK
<1>2. InitNamed => NamedTypeOK
  BY NamedAssumption DEF InitNamed, NamedTypeOK, Stages, Texts
<1>3. InitThreads => ThreadTypeOK
  <2> SUFFICES ASSUME InitThreads  PROVE ThreadTypeOK
    OBVIOUS
  <2>1. /\ at = [t \in Threads |-> "lock"] /\ mutex = NoThread /\ tickets = Tickets
        /\ loaded = [t \in Threads |-> 0] /\ cnt = [t \in Threads |-> 0]
        /\ rounds = 0 /\ joined = FALSE
    BY DEF InitThreads
  <2>2. c_bq \in Seq(Tasks) /\ done \in Seq(Int)
    BY DEF InitThreads
  <2>3. tickets \in Int /\ rounds \in 0 .. MaxRounds
    BY <2>1, SellersAssumption
  <2>4. /\ at \in [Threads -> {"lock", "test", "print", "load", "store", "unlock",
                             "left", "cond_wait", "waiting", "woken"}]
    BY <2>1
  <2>5. mutex \in Threads \cup {NoThread} /\ joined \in BOOLEAN
    BY <2>1
  <2>6. loaded \in [Threads -> Int] /\ cnt \in [Threads -> Nat]
    BY <2>1
  <2> QED  BY <2>2, <2>3, <2>4, <2>5, <2>6 DEF ThreadTypeOK
<1>4. InitStdio => StdioTypeOK
  BY NothingWritten
<1> QED  BY <1>1, <1>2, <1>3, <1>4

\* Every variable of every program has its type, for any values of the constants.
THEOREM TypesAreKept == Spec => []TypeOK
<1>1. /\ UdpInv => UdpTypeOK
      /\ PipeInv => PipeTypeOK
      /\ NamedInv => NamedTypeOK
      /\ ShellInv => ShellTypeOK
      /\ StdioInv => StdioTypeOK
      /\ SignalInv => SignalTypeOK
  BY DEF UdpInv, UdpTypes, PipeInv, PipeTypes, PipeTypeOK, Calls, KidStates, Children,
         NamedInv, ShellInv, ShellTypes, StdioInv, StdioTypes, SignalInv, SignalTypes
<1>2. Spec => []UdpTypeOK
  <2>1. prog \notin UdpPrograms /\ InitUdp => UdpTypeOK
    BY NothingSaid
  <2> QED  BY <1>1, <2>1, UdpStarts, UdpStep, UdpAlone, PTL DEF UdpSpec
<1>3. Spec => []PipeTypeOK
  <2>1. prog \notin PipingPrograms /\ InitPipes => PipeTypeOK
    BY FirstTypes
  <2> QED  BY <1>1, <2>1, PipesStart, PipeStep, PipeAlone, PTL DEF PipeSpec
<1>4. Spec => []NamedTypeOK
  <2>1. prog \notin NamedPrograms /\ InitNamed => NamedTypeOK
    BY FirstTypes
  <2> QED  BY <1>1, <2>1, NamesInvariance, NamedAlone, PTL
<1>5. Spec => []ThreadTypeOK
  <2>1. prog \notin ThreadedPrograms /\ InitThreads => ThreadTypeOK
    BY FirstTypes
  <2> QED  BY <2>1, SellersTyped, ThreadAlone, PTL
<1>6. Spec => []ShellTypeOK
  <2>1. prog \notin Shells /\ InitShell => ShellTypeOK
    BY NothingTyped
  <2> QED  BY <1>1, <2>1, ShellStarts, ShellStep, ShellAlone, PTL DEF ShellSpec
<1>7. Spec => []StdioTypeOK
  <2>1. prog \notin StdioPrograms /\ InitStdio => StdioTypeOK
    BY FirstTypes
  <2> QED  BY <1>1, <2>1, StdioStarts, StdioStep, StdioAlone, PTL DEF StdioSpec
<1>8. Spec => [](prog \in SignalPrograms => SignalTypeOK)
  <2>1. prog \notin SignalPrograms /\ InitSignals => (prog \in SignalPrograms => SignalTypeOK)
    OBVIOUS
  <2> QED  BY <1>1, <2>1, SignalsStart, SignalStep, SignalAlone, PTL DEF SignalSpec
<1>9. (/\ UdpTypeOK /\ PipeTypeOK /\ NamedTypeOK /\ ThreadTypeOK /\ ShellTypeOK /\ StdioTypeOK
       /\ prog \in SignalPrograms => SignalTypeOK)
      => TypeOK
  BY DEF TypeOK
<1> QED  BY <1>2, <1>3, <1>4, <1>5, <1>6, <1>7, <1>8, <1>9, PTL
=============================================================================
