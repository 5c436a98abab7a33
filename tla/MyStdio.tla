------------------------------- MODULE MyStdio -------------------------------
(***************************************************************************)
(* lesson16/mylibc: a FILE_ with a buffer, and a caller of the library.    *)
(* A byte is a pair: its place in what the caller writes, and whether it   *)
(* is a newline.                                                           *)
(***************************************************************************)
EXTENDS OneProgram, Integers

CONSTANTS
    SIZE,        \* the capacity of the buffer
    MaxPiece,    \* bound: the bytes of one fwrite_
    MaxPut       \* bound: the bytes that the caller writes

ASSUME StdioAssumption == SIZE \in Nat /\ MaxPiece \in Nat /\ MaxPut \in Nat

VARIABLES
    fp,          \* the FILE_: "none", "open", "closed", or "NULL"
    fileno,      \* what open gave: "none", "read", "write" or "append"
    flag,        \* the refresh policy
    buffer,      \* the first size bytes of the buffer
    file,        \* what is in the file
    written,     \* history: what the caller has written
    kept,        \* history: what was in the file behind fopen_
    short        \* history: a write(2) took less than it was given

stdio == <<fp, fileno, flag, buffer, file, written, kept, short>>
stdioVars == <<prog, stdio>>

StdioPrograms == {"mylibc"}
Byte == (0 .. MaxPut) \X BOOLEAN
SYNC == {"SYNC_NOW", "SYNC_LINE", "SYNC_FULL"}

InitStdio ==
    /\ fp = "none" /\ fileno = "none" /\ flag = "SYNC_LINE"
    /\ buffer = <<>> /\ file = <<<<0, TRUE>>>>
    /\ written = <<>> /\ kept = file /\ short = FALSE

StdioInit == prog \in StdioPrograms /\ InitStdio

\* The FILE_ is returned whether open succeeds or not.
fopen_(mode) ==
    /\ fp = "none" /\ UNCHANGED <<flag, buffer, written, short>>
    /\ \/ /\ mode \in {"r", "w", "a"} /\ fp' = "open"
          /\ \E fails \in BOOLEAN :
                /\ fileno' = IF fails THEN "none"
                             ELSE CASE mode = "r" -> "read" [] mode = "w" -> "write"
                                    [] mode = "a" -> "append"
                /\ file' = IF mode = "w" /\ ~fails THEN <<>> ELSE file
                /\ kept' = file'
       \/ /\ mode \notin {"r", "w", "a"} /\ fp' = "NULL"
          /\ UNCHANGED <<fileno, file, kept>>

\* The caller may store another policy in the field before it writes.
SetFlag ==
    /\ fp = "open" /\ written = <<>> /\ flag' \in SYNC
    /\ UNCHANGED <<fp, fileno, buffer, file, written, kept, short>>

\* Mutant: what a line has left over stays in the buffer.
FlushButOne(s) ==
    /\ \E n \in 0 .. Len(s) :
          /\ fileno \in {"none", "read"} => n = 0
          /\ file' = file \o SubSeq(s, 1, n)
          /\ short' = (short \/ n < Len(s))
    /\ buffer' = SubSeq(s, Len(s), Len(s))

\* write(2) may take some of the bytes, and none where fileno is no file to
\* write to: what it leaves is forgotten.
fflush_(s) ==
    /\ \E n \in 0 .. Len(s) :
          /\ fileno \in {"none", "read"} => n = 0
          /\ file' = file \o SubSeq(s, 1, n)
          /\ short' = (short \/ n < Len(s))
    /\ buffer' = <<>>

Full(s) ==
    CASE flag = "SYNC_FULL" -> Len(s) = SIZE
      [] flag = "SYNC_LINE" -> s # <<>> /\ s[Len(s)][2]
      [] flag = "SYNC_NOW"  -> TRUE

\* Nothing compares nums with the room in the buffer: the caller has to.
fwrite_(nums) ==
    /\ fp = "open" /\ Len(buffer) + nums <= SIZE /\ Len(written) + nums <= MaxPut
    /\ \E newlines \in SUBSET (1 .. nums) :
          LET s == [i \in 1 .. nums |-> <<Len(written) + i, i \in newlines>>]
          IN  /\ written' = written \o s
              /\ IF Full(buffer \o s) THEN fflush_(buffer \o s)
                 ELSE buffer' = buffer \o s /\ UNCHANGED <<file, short>>
    /\ UNCHANGED <<fp, fileno, flag, kept>>

fclose_ ==
    /\ fp = "open" /\ fp' = "closed" /\ fflush_(buffer)
    /\ UNCHANGED <<fileno, flag, written, kept>>

CallerFlushes ==
    /\ fp = "open" /\ fflush_(buffer)
    /\ UNCHANGED <<fp, fileno, flag, written, kept>>

StdioNext ==
    /\ prog \in StdioPrograms /\ UNCHANGED prog
    /\ \/ \E mode \in {"r", "w", "a", "rw"} : fopen_(mode)
       \/ \E nums \in 0 .. MaxPiece : fwrite_(nums)
       \/ SetFlag \/ CallerFlushes \/ fclose_

StdioSpec == StdioInit /\ [][StdioNext]_stdioVars

-----------------------------------------------------------------------------
(* Properties.                                                             *)

StdioTypeOK ==
    /\ fp \in {"none", "open", "closed", "NULL"}
    /\ fileno \in {"none", "read", "write", "append"} /\ flag \in SYNC
    /\ buffer \in Seq(Byte) /\ Len(buffer) <= SIZE
    /\ file \in Seq(Byte) /\ written \in Seq(Byte) /\ short \in BOOLEAN

\* Through any calls of the library, as long as no write(2) is cut short, the
\* file and behind it the buffer hold all that the caller has written, in
\* order and behind what the mode has left in the file; and what is left in the
\* buffer between two calls does not end in a newline under SYNC_LINE (a whole
\* line may be in it: fwrite_ looks at the last byte only), is less than the
\* capacity under SYNC_FULL, and is nothing under SYNC_NOW and once closed
\* (fwrite_, fflush_, fclose_).
StdioDelivers ==
    /\ ~short => file \o buffer = kept \o written
    /\ fp = "closed" => buffer = <<>>
    /\ buffer # <<>> => ~Full(buffer)
=============================================================================
