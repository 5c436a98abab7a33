---------------------------- MODULE CalcService ----------------------------
(***************************************************************************)
(* What the calculator server of lesson45/Reactor promises each client: a  *)
(* request is answered at most once, after it was sent completely, and the *)
(* answers come back in the order of the requests.  Reactor.tla implements *)
(* this specification.                                                     *)
(***************************************************************************)
EXTENDS Naturals, Sequences

CONSTANTS Clients,
          N,        \* requests a client makes
          Refused   \* requests that get no answer

VARIABLES asked,    \* asked[c]: requests c has sent completely
          replied   \* replied[c]: the answers c has received

vars == <<asked, replied>>

Init == /\ asked = [c \in Clients |-> 0]
        /\ replied = [c \in Clients |-> <<>>]

Ask(c) == /\ asked[c] < N
          /\ asked' = [asked EXCEPT ![c] = @ + 1]
          /\ UNCHANGED replied

LastReplied(c) == IF replied[c] = <<>> THEN 0 ELSE replied[c][Len(replied[c])]

\* The next answer is to the first request after the last one answered that
\* is not refused.
Reply(c) ==
    \E k \in (LastReplied(c) + 1)..asked[c] :
        /\ k \notin Refused
        /\ \A j \in (LastReplied(c) + 1)..(k - 1) : j \in Refused
        /\ replied' = [replied EXCEPT ![c] = Append(@, k)]
        /\ UNCHANGED asked

Next == \E c \in Clients : Ask(c) \/ Reply(c)

Spec == Init /\ [][Next]_vars
=============================================================================
