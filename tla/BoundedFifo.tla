---------------------------- MODULE BoundedFifo ----------------------------
(***************************************************************************)
(* What a bounded producer-consumer queue promises: at most Capacity items *)
(* are stored and they leave in the order in which they entered, each one  *)
(* to one consumer.  The ring queue of lesson31 (RingQueue.tla) and the    *)
(* blocking queue of lesson29/30 (BlockQueue.tla) implement it.            *)
(***************************************************************************)
EXTENDS Naturals, Sequences

CONSTANTS Consumers, Capacity, Items, NoItem

VARIABLES q,    \* the stored items, oldest first
          out   \* out[c]: the item the last pop of c returned

vars == <<q, out>>

Init == /\ q = <<>>
        /\ out = [c \in Consumers |-> NoItem]

Put == /\ Len(q) < Capacity
       /\ \E x \in Items : q' = Append(q, x)
       /\ UNCHANGED out

Get == /\ q # <<>>
       /\ \E c \in Consumers : out' = [out EXCEPT ![c] = Head(q)]
       /\ q' = Tail(q)

Next == Put \/ Get

Spec == Init /\ [][Next]_vars
=============================================================================
