----------------------------- MODULE OneProgram -----------------------------
(***************************************************************************)
(* What the modules of the small programs share: a behaviour is that of    *)
(* one program, and a history says in which order things happened.         *)
(***************************************************************************)
EXTENDS Naturals, Sequences

VARIABLE prog \* which of the programs runs; it never changes

\* s lists the numbers of the set S, each once and the smallest first.
InOrder(s, S) ==
    /\ {s[i] : i \in DOMAIN s} = S
    /\ \A i, j \in DOMAIN s : i < j => s[i] < s[j]
=============================================================================
