----------------------------- MODULE MCReactor -----------------------------
(* Instances of Reactor for TLC: the scripts the clients send.             *)
EXTENDS Reactor

CONSTANTS a, b   \* clients

Part(k) == [req |-> k, last |-> FALSE]
End(k)  == [req |-> k, last |-> TRUE]

\* Three requests, the first in two fragments.
MixedScript == <<Part(1), End(1), End(2), End(3)>>

\* Two requests, both in two fragments.
FragmentedScript == <<Part(1), End(1), Part(2), End(2)>>

\* Requests that are never split.
WholeScript == <<End(1), End(2)>>

OneRequest == <<End(1)>>
=============================================================================
