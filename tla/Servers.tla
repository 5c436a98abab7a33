------------------------------- MODULE Servers -------------------------------
(***************************************************************************)
(* The servers of lesson32 to lesson44 side by side: prog chooses the      *)
(* program of a behaviour, and the variables of the other modules keep     *)
(* still.                                                                  *)
(***************************************************************************)
EXTENDS PollingServers, PoolPrograms, ForkServers

ServersInit ==
    /\ prog \in PollingPrograms \cup Programs \cup ForkPrograms
    /\ InitNet /\ InitServer /\ InitPrograms /\ InitProcs

serversVars == <<prog, net, server, mine, procs>>

ServersNext ==
    \/ PollingNext /\ UNCHANGED <<mine, procs>>
    \/ Next /\ UNCHANGED <<server, procs>>
    \/ ForkNext /\ UNCHANGED <<server, mine>>

ServersSpec == ServersInit /\ [][ServersNext]_serversVars
ServersFairSpec == ServersSpec /\ PollingFairness /\ Fairness /\ ForkFairness

-----------------------------------------------------------------------------
(* The properties of the extended modules are checked as they stand: what  *)
(* a behaviour does not use keeps still.                                   *)

\* Every variable of a program has its type.
ServersTypeOK ==
    /\ prog \in PollingPrograms => PollingTypeOK
    /\ prog \in Programs => TypeOK
    /\ prog \in ForkPrograms => ForkTypeOK
=============================================================================
