----------------------------- MODULE LineBuffer -----------------------------
(***************************************************************************)
(* What the keyboard device promises: the characters are read once each    *)
(* and in the order in which they were typed, as long as no more than SIZE *)
(* of them wait.  A character typed when SIZE wait takes the place of the  *)
(* oldest one.                                                             *)
(***************************************************************************)
EXTENDS Naturals, Sequences

CONSTANTS SIZE,   \* how many characters can wait
          Chars

VARIABLES line,    \* the characters that wait
          read     \* the characters that have been read

Init == line = <<>> /\ read = <<>>

Type(c) ==
    /\ line' = IF Len(line) < SIZE THEN Append(line, c) ELSE [line EXCEPT ![1] = c]
    /\ UNCHANGED read

Read(n) ==
    /\ n <= Len(line)
    /\ read' = read \o SubSeq(line, 1, n)
    /\ line' = SubSeq(line, n + 1, Len(line))

Next == (\E c \in Chars : Type(c)) \/ (\E n \in 1 .. SIZE : Read(n))

Spec == Init /\ [][Next]_<<line, read>>
=============================================================================
