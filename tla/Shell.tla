-------------------------------- MODULE Shell --------------------------------
(***************************************************************************)
(* The shells: lesson13/mybash, and lesson15/mybash, which redirects.  A   *)
(* line is a record [cmd, op, file]: cmd is "" for a blank line, "cd",     *)
(* "echo $?", or the program to run with its arguments.  File names do not *)
(* depend on the directory, so that cd has no effect here.                 *)
(***************************************************************************)
EXTENDS OneProgram, Integers

CONSTANTS
    LinesTyped,  \* the lines that can be typed
    MaxTyped,    \* bound: how many of them are typed
    Found,       \* the programs that execvp finds
    Ends,        \* how a program can end: records [code, sig]
    Present,     \* the files there are when the shell starts
    Creatable    \* the files that open can create

ASSUME ShellAssumption ==
    /\ \A l \in LinesTyped : l.op \in {"none", "<", ">", ">>"}
    /\ \A e \in Ends : e.code \in Nat /\ e.sig \in Nat
    /\ MaxTyped \in Nat

VARIABLES
    sh,          \* the shell: "prompt", "waitpid" or "aborted"
    redirType, redirFile,
    child,       \* the child: "none", "new", "exec" or "zombie"
    stdout,      \* where the child's output goes: a file, or "terminal"
    status,      \* how the child ended
    lastcode, lastsig,
    files,       \* the files, and the terminal: the lines that wrote there
    typed,       \* history: the lines, how the child of each ended (code -1:
                 \* no child), and whether it has written something
    answers      \* history: what each "echo $?" printed, and its line

shell == <<sh, redirType, redirFile, child, stdout, status, lastcode, lastsig,
           files, typed, answers>>
shellVars == <<prog, shell>>

Shells == {"lesson13", "lesson15"}
Builtins == {"", "cd", "echo $?"}
Now == Len(typed)

\* argv_[0]: lesson13 takes a redirection for a word of the line.
Command(l) ==
    IF prog = "lesson13" /\ l.cmd = "" /\ l.op # "none" THEN l.op ELSE l.cmd

InitShell ==
    /\ sh = "prompt" /\ redirType = "none" /\ redirFile = ""
    /\ child = "none" /\ stdout = "terminal" /\ status = [code |-> 0, sig |-> 0]
    /\ lastcode = 0 /\ lastsig = 0
    /\ files = [f \in Present \cup {"terminal"} |-> <<>>]
    /\ typed = <<>> /\ answers = <<>>

ShellInit == prog \in Shells /\ InitShell

\* Mutant: redirType and redirFile keep what the line before has set.
KeepRedirection == UNCHANGED <<redirType, redirFile>>

\* Every turn of the loop begins without a redirection.
Reset == redirType' = "none" /\ redirFile' = ""

commandcheck(l) ==
    IF prog = "lesson15" /\ l.op # "none"
    THEN redirType' = l.op /\ redirFile' = l.file
    ELSE Reset

\* One turn of the loop up to the fork, or to the continue of a blank line,
\* of cd and of "echo $?".
ReadLine(l) ==
    /\ sh = "prompt" /\ Now < MaxTyped
    /\ commandcheck(l)
    /\ typed' = Append(typed, [line |-> l, code |-> -1, sig |-> 0, wrote |-> FALSE])
    /\ IF Command(l) \in Builtins THEN UNCHANGED <<sh, child>>
       ELSE sh' = "waitpid" /\ child' = "new"
    /\ answers' = IF l.cmd = "echo $?"
                  THEN Append(answers, [at |-> Now', code |-> lastcode,
                                        sig |-> lastsig])
                  ELSE answers
    /\ UNCHANGED <<stdout, status, lastcode, lastsig, files>>

\* fgets returns NULL: the assertion ends the shell.
EndOfInput ==
    /\ sh = "prompt" /\ sh' = "aborted"
    /\ UNCHANGED <<redirType, redirFile, child, stdout, status, lastcode, lastsig,
                   files, typed, answers>>

-----------------------------------------------------------------------------
(* The child.                                                              *)

\* exit, or the end that a signal makes.
ChildEnds(end, wrote) ==
    /\ child' = "zombie" /\ status' = end
    /\ typed' = [typed EXCEPT ![Now].code = end.code, ![Now].sig = end.sig,
                              ![Now].wrote = wrote]

ENOENT == 2

CanOpen(type, f) == f \in DOMAIN files \/ (type # "<" /\ f \in Creatable)

\* dup2 on 0 or 1 of the child alone; a failed open ends it with errno.
Redirect ==
    /\ child = "new"
    /\ IF redirType # "none" /\ ~CanOpen(redirType, redirFile)
       THEN ChildEnds([code |-> ENOENT, sig |-> 0], FALSE) /\ UNCHANGED <<stdout, files>>
       ELSE /\ child' = "exec" /\ UNCHANGED <<status, typed>>
            /\ stdout' = IF redirType \in {">", ">>"} THEN redirFile ELSE "terminal"
            /\ files' = [f \in DOMAIN files \cup {stdout'} |->
                           IF f \notin DOMAIN files THEN <<>>
                           ELSE IF f = stdout' /\ redirType = ">" THEN <<>>
                           ELSE files[f]]
    /\ UNCHANGED <<sh, redirType, redirFile, lastcode, lastsig, answers>>

\* execvp, and exit(1) behind it; the program writes something or nothing.
execvp ==
    /\ child = "exec"
    /\ IF Command(typed[Now].line) \notin Found
       THEN ChildEnds([code |-> 1, sig |-> 0], FALSE) /\ UNCHANGED files
       ELSE \E end \in Ends, wrote \in BOOLEAN :
              /\ ChildEnds(end, wrote)
              /\ files' = IF wrote THEN [files EXCEPT ![stdout] = Append(@, Now)]
                          ELSE files
    /\ UNCHANGED <<sh, redirType, redirFile, stdout, lastcode, lastsig, answers>>

\* waitpid; "command fail" is printed for a signal or the code 1.
waitpid ==
    /\ sh = "waitpid" /\ child = "zombie"
    /\ lastcode' = status.code /\ lastsig' = status.sig
    /\ sh' = "prompt" /\ child' = "none"
    /\ UNCHANGED <<redirType, redirFile, stdout, status, files, typed, answers>>

ShellNext ==
    /\ prog \in Shells /\ UNCHANGED prog
    /\ \/ \E l \in LinesTyped : ReadLine(l)
       \/ EndOfInput \/ Redirect \/ execvp \/ waitpid

ShellSpec == ShellInit /\ [][ShellNext]_shellVars

-----------------------------------------------------------------------------
(* Properties.                                                             *)

ShellTypeOK ==
    /\ sh \in {"prompt", "waitpid", "aborted"}
    /\ child \in {"none", "new", "exec", "zombie"}
    /\ redirType \in {"none", "<", ">", ">>"}
    /\ stdout \in DOMAIN files
    /\ \A f \in DOMAIN files : files[f] \in Seq(1 .. MaxTyped)

\* What the line k asks for, apart from the lines before it.
Target(k) ==
    LET l == typed[k].line
    IN  IF prog = "lesson15" /\ l.op \in {">", ">>"} THEN l.file ELSE "terminal"

\* The line k has emptied the file f: it was run with "> f".
Empties(k, f) ==
    /\ prog = "lesson15" /\ typed[k].line.op = ">" /\ typed[k].line.file = f
    /\ typed[k].line.cmd \notin Builtins /\ (k < Now \/ child # "new")

\* Lines do not disturb each other (main of mybash.c): the output of each
\* program is where its own line sends it, in order and since the file was
\* last emptied, and "echo $?" tells how the last line that had a child
\* ended, whatever blank lines and cd came between.
LinesKeepApart ==
    /\ \A f \in DOMAIN files :
          InOrder(files[f], {k \in 1 .. Now :
                               /\ typed[k].wrote /\ Target(k) = f
                               /\ \A j \in k + 1 .. Now : ~Empties(j, f)})
    /\ \A i \in 1 .. Len(answers) :
          LET run == {k \in 1 .. answers[i].at - 1 : typed[k].code # -1}
              Tells(end) == answers[i].code = end.code /\ answers[i].sig = end.sig
          IN  IF run = {} THEN Tells([code |-> 0, sig |-> 0])
              ELSE \E k \in run : Tells(typed[k]) /\ \A j \in run : j <= k
=============================================================================
