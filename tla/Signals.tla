------------------------------ MODULE Signals ------------------------------
(***************************************************************************)
(* Two demonstrations of what the kernel keeps for a process.              *)
(*   "lesson23"  mysignal.cc: SIGINT is blocked for some rounds and shown  *)
(*               as pending meanwhile;                                     *)
(*   "mychild"   lesson13/mychild.c: a father asks again and again whether *)
(*               its child has ended, and works in between.                *)
(***************************************************************************)
EXTENDS OneProgram, Integers

CONSTANTS
    Rounds,     \* lesson23: the initial cnt
    MaxRaised,  \* bound: the signals that are sent
    KidRounds,  \* mychild: the initial cnt of the child; at least 1
    Kills       \* mychild: the ways [sig, core] a signal may end the child

ASSUME SignalAssumption ==
    /\ Rounds \in Nat /\ KidRounds \in Nat /\ MaxRaised \in Nat
    /\ \A k \in Kills : k.sig \in 1 .. 126 /\ k.core \in {0, 1}

VARIABLES
    turn,       \* where main is in its loop
    rounds_left,\* cnt of lesson23, and of the child; -1 for all below zero
    blocked,    \* SIGINT is in the mask
    pending,    \* SIGINT is pending
    raised, early, caught, \* history: sent, sent before the mask, delivered
    kidEnd,     \* how the child ended
    report      \* what the father printed about it

signals == <<turn, rounds_left, blocked, pending, raised, early, caught, kidEnd, report>>
signalVars == <<prog, signals>>

SignalPrograms == {"lesson23", "mychild"}

NotEnded == [code |-> 0, sig |-> 0, core |-> 0, ended |-> FALSE]
NoReport == [exited |-> FALSE, number |-> -1]

InitSignals ==
    /\ turn = IF prog = "mychild" THEN "fork" ELSE "start"
    /\ rounds_left = IF prog = "mychild" THEN KidRounds ELSE Rounds
    /\ blocked = FALSE /\ pending = FALSE
    /\ raised = 0 /\ early = 0 /\ caught = 0
    /\ kidEnd = NotEnded /\ report = NoReport

SignalInit == prog \in SignalPrograms /\ InitSignals

Turn(from, to) == turn = from /\ turn' = to

-----------------------------------------------------------------------------
(* lesson23                                                                *)

\* A user sends SIGINT; a signal that is pending does not count twice.
Raise ==
    /\ prog = "lesson23" /\ raised < MaxRaised
    /\ raised' = raised + 1 /\ pending' = TRUE
    /\ early' = IF turn = "start" THEN raised + 1 ELSE early
    /\ UNCHANGED <<turn, rounds_left, blocked, caught, kidEnd, report>>

\* myhandler, which cuts a sleep short.
myhandler ==
    /\ prog = "lesson23" /\ pending /\ ~blocked
    /\ pending' = FALSE /\ caught' = caught + 1
    /\ turn' = IF turn = "sleep" THEN "count" ELSE turn
    /\ UNCHANGED <<rounds_left, blocked, raised, early, kidEnd, report>>

\* The handler is there before the mask is.
Block ==
    /\ prog = "lesson23" /\ Turn("start", "show") /\ blocked' = TRUE
    /\ UNCHANGED <<rounds_left, pending, raised, early, caught, kidEnd, report>>

show_pending ==
    /\ prog = "lesson23"
    /\ Turn("show", "sleep") \/ Turn("sleep", "count")
    /\ UNCHANGED <<rounds_left, blocked, pending, raised, early, caught, kidEnd, report>>

\* Mutant: the mask that is put back is the one that blocks.
BlockAgain ==
    /\ prog = "lesson23" /\ Turn("count", "show")
    /\ rounds_left' = IF rounds_left >= 0 THEN rounds_left - 1 ELSE rounds_left
    /\ UNCHANGED <<blocked, pending, raised, early, caught, kidEnd, report>>

\* cnt-- == 0 holds once: cnt goes on below zero.
Unblock ==
    /\ prog = "lesson23" /\ Turn("count", "show")
    /\ blocked' = (blocked /\ rounds_left # 0)
    /\ rounds_left' = IF rounds_left >= 0 THEN rounds_left - 1 ELSE rounds_left
    /\ UNCHANGED <<pending, raised, early, caught, kidEnd, report>>

-----------------------------------------------------------------------------
(* mychild.c                                                               *)

\* What fork returns is not looked at but for the child's 0.
StartChild ==
    /\ prog = "mychild"
    /\ Turn("fork", "start") \/ Turn("fork", "childless")
    /\ UNCHANGED <<rounds_left, blocked, pending, raised, early, caught, kidEnd, report>>

\* The child counts and exits with 66, or a signal ends it before.
Child ==
    /\ prog = "mychild" /\ turn \notin {"fork", "childless"} /\ ~kidEnd.ended
    /\ \/ /\ rounds_left > 0 /\ rounds_left' = rounds_left - 1
          /\ UNCHANGED kidEnd
       \/ /\ rounds_left = 0 /\ UNCHANGED rounds_left
          /\ kidEnd' = [code |-> 66, sig |-> 0, core |-> 0, ended |-> TRUE]
       \/ /\ \E k \in Kills :
                kidEnd' = [code |-> 0, sig |-> k.sig, core |-> k.core, ended |-> TRUE]
          /\ UNCHANGED rounds_left
    /\ UNCHANGED <<turn, blocked, pending, raised, early, caught, report>>

\* The word that waitpid stores.
WaitWord(end) == IF end.sig = 0 THEN 256 * end.code ELSE end.sig + 128 * end.core

\* Mutant: the whole word is taken for the signal.
DecodedWhole(status) ==
    IF status % 128 = 0 THEN [exited |-> TRUE, number |-> (status \div 256) % 256]
    ELSE [exited |-> FALSE, number |-> status]

\* WIFEXITED and WEXITSTATUS; status & 0x7F.
Decoded(status) ==
    IF status % 128 = 0 THEN [exited |-> TRUE, number |-> (status \div 256) % 256]
    ELSE [exited |-> FALSE, number |-> status % 128]

\* Not ended: the other tasks, and a sleep.  A child that was waited for ends the
\* loop; without one, waitpid fails and the father goes round it for ever, which
\* changes nothing.
Poll ==
    /\ prog = "mychild"
    /\ \/ /\ turn = "start" /\ ~kidEnd.ended
          /\ turn' = "sleep" /\ UNCHANGED report
       \/ /\ turn = "start" /\ kidEnd.ended
          /\ turn' = "done" /\ report' = Decoded(WaitWord(kidEnd))
       \/ /\ Turn("sleep", "start") /\ UNCHANGED report
    /\ UNCHANGED <<rounds_left, blocked, pending, raised, early, caught, kidEnd>>

-----------------------------------------------------------------------------
Main == Block \/ show_pending \/ Unblock \/ myhandler \/ StartChild \/ Poll

SignalNext ==
    /\ prog \in SignalPrograms /\ UNCHANGED prog
    /\ Main \/ Raise \/ Child

\* Both processes are scheduled, and a signal that can be delivered is.
SignalFairness ==
    /\ WF_signalVars(prog \in SignalPrograms /\ UNCHANGED prog /\ Main)
    /\ WF_signalVars(prog \in SignalPrograms /\ UNCHANGED prog /\ myhandler)
    /\ WF_signalVars(prog \in SignalPrograms /\ UNCHANGED prog /\ Child)

SignalSpec == SignalInit /\ [][SignalNext]_signalVars
SignalFairSpec == SignalSpec /\ SignalFairness

-----------------------------------------------------------------------------
(* Properties.                                                             *)

SignalTypeOK ==
    /\ turn \in {"fork", "childless", "start", "show", "sleep", "count", "done"}
    /\ rounds_left \in -1 .. (Rounds + KidRounds)
    /\ blocked \in BOOLEAN /\ pending \in BOOLEAN
    /\ raised \in 0 .. MaxRaised /\ early \in 0 .. raised

\* However many signals come, one of them is delivered or waits to be, and
\* while the mask is there none that came under it; and the father reports
\* the end that its child had (mysignal.cc, mychild.c).
SignalsKept ==
    /\ raised > 0 => caught > 0 \/ pending
    /\ caught <= raised
    /\ blocked => caught <= early
    /\ turn = "done" =>
          report = IF kidEnd.sig = 0 THEN [exited |-> TRUE, number |-> kidEnd.code]
                   ELSE [exited |-> FALSE, number |-> kidEnd.sig]

\* The mask ends, and so does the child, where there is one.
SignalsEnd ==
    /\ prog = "lesson23" => ~pending
    /\ prog = "mychild" => turn \in {"done", "childless"}
=============================================================================
