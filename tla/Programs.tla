------------------------------ MODULE Programs ------------------------------
(***************************************************************************)
(* The programs around datagrams, pipes, names, threads, files and signals *)
(* side by side: prog chooses the program of a behaviour, and the          *)
(* variables of the other modules keep still.                              *)
(***************************************************************************)
EXTENDS UdpServers, PipePrograms, NamedObjects, ThreadPrograms, Shell, MyStdio, Signals

Init ==
    /\ prog \in UdpPrograms \cup PipingPrograms \cup NamedPrograms \cup
                ThreadedPrograms \cup Shells \cup StdioPrograms \cup SignalPrograms
    /\ InitUdp /\ InitPipes /\ InitNamed /\ InitThreads /\ InitShell
    /\ InitStdio /\ InitSignals

vars == <<prog, udp, pipes, named, threads, queues, shell, stdio, signals>>

Next ==
    \/ UdpNext /\ UNCHANGED <<pipes, named, threads, queues, shell, stdio, signals>>
    \/ PipeNext /\ UNCHANGED <<udp, named, threads, queues, shell, stdio, signals>>
    \/ NamedNext /\ UNCHANGED <<udp, pipes, threads, queues, shell, stdio, signals>>
    \/ ThreadNext /\ UNCHANGED <<udp, pipes, named, shell, stdio, signals>>
    \/ ShellNext /\ UNCHANGED <<udp, pipes, named, threads, queues, stdio, signals>>
    \/ StdioNext /\ UNCHANGED <<udp, pipes, named, threads, queues, shell, signals>>
    \/ SignalNext /\ UNCHANGED <<udp, pipes, named, threads, queues, shell, stdio>>

Spec == Init /\ [][Next]_vars
FairSpec == Spec /\ PipeFairness /\ ThreadFairness /\ SignalFairness

-----------------------------------------------------------------------------
(* The properties of the modules, each about its own programs.             *)

\* Every variable of a program has its type.
TypeOK ==
    /\ UdpTypeOK /\ PipeTypeOK /\ NamedTypeOK /\ ThreadTypeOK /\ ShellTypeOK
    /\ StdioTypeOK
    /\ prog \in SignalPrograms => SignalTypeOK

\* What goes into a pipe or a FILE_ comes out of it, and a signal or the end
\* of a child is noticed (PipePrograms, MyStdio, Signals).
NothingLost ==
    /\ prog \in PipingPrograms => PipesDeliver
    /\ prog \in StdioPrograms => StdioDelivers
    /\ prog \in SignalPrograms => SignalsKept

\* One server has the name, one thread the ticket (NamedObjects,
\* ThreadPrograms).
Exclusive ==
    /\ prog \in NamedPrograms => OneServer
    /\ prog \in ThreadedPrograms => TicketsSoldOnce

\* The children of the pool see the end of their pipes, and the sellers that
\* of the tickets; a blocked signal is delivered in the end, and a father
\* that polls finds its child ended (PipePrograms, ThreadPrograms, Signals).
ProgramsEnd ==
    []<>(/\ prog \in PipingPrograms => PipesEnd
         /\ prog \in ThreadedPrograms => SellersEnd
         /\ prog \in SignalPrograms => SignalsEnd)
=============================================================================
