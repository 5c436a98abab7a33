------------------------------ MODULE MCPrograms ------------------------------
(***************************************************************************)
(* An instance of Programs for TLC.                                        *)
(***************************************************************************)
EXTENDS Programs, TLC

CONSTANTS ann, bob

\* Ann comes and goes while Bob is there; "" is an empty datagram.
Conversation == ann :> <<"online", "hello", "offline">> @@ bob :> <<"online", "">>

\* Tasks of lesson30: a division by zero, one with a remainder, and one with
\* a negative result.
SomeTasks == {[x |-> 7, op |-> "%", y |-> 0], [x |-> 7, op |-> "/", y |-> 2],
              [x |-> 1, op |-> "-", y |-> 9]}

\* "nodir" cannot be created, and "typo" is not found.
Line(c, o, f) == [cmd |-> c, op |-> o, file |-> f]
SomeLines ==
    {Line("", ">", "old"), Line("cd", "none", ""), Line("echo $?", "none", ""),
     Line("ls", "none", ""), Line("ls", ">", "old"), Line("ls", ">>", "old"),
     Line("ls", ">", "nodir"), Line("typo", ">", "new"), Line("ls", "<", "new")}
SomeEnds == {[code |-> 2, sig |-> 0], [code |-> 0, sig |-> 11]}

\* Signals of which one makes the child dump core.
SomeKills == {[sig |-> 9, core |-> 0], [sig |-> 11, core |-> 1]}
=============================================================================
