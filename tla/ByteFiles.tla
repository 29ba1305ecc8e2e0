----------------------------- MODULE ByteFiles ------------------------------
(***************************************************************************)
(* What a file system promises: a file is a sequence of bytes, and a call  *)
(* changes no file but its own.  A byte is Zero, or the one that some      *)
(* program wrote at its place.  Nothing is promised of a file that is Lost. *)
(***************************************************************************)
EXTENDS Naturals, Sequences

CONSTANTS FileNames, Zero, Lost, Written(_, _),
          Sizes,       \* the sizes a file can have
          Chunks       \* how many bytes a call can write

VARIABLE contents

Init == contents = [f \in FileNames |-> <<>>]

\* n bytes are written from the offset off on; a gap before them is zeros.
Write(f, off, n) ==
    LET old == contents[f]
        end == IF off + n > Len(old) THEN off + n ELSE Len(old)
    IN contents' = [contents EXCEPT ![f] =
           [x \in 1 .. end |-> IF x - 1 \in off .. off + n - 1 THEN Written(f, x - 1)
                               ELSE IF x <= Len(old) THEN old[x] ELSE Zero]]

Truncate(f) == contents' = [contents EXCEPT ![f] = <<>>]

\* The file is as long as size afterwards, with zeros at its end.
Extend(f, size) ==
    /\ size > Len(contents[f])
    /\ contents' = [contents EXCEPT ![f] =
           [x \in 1 .. size |-> IF x <= Len(@) THEN @[x] ELSE Zero]]

Lose(f) == contents' = [contents EXCEPT ![f] = Lost]

\* A call that reads, or fails.
Fail == UNCHANGED contents

Next ==
    \/ Fail
    \/ \E f \in FileNames :
          \/ Lose(f)
          \/ /\ contents[f] # Lost
             /\ \/ Truncate(f)
                \/ \E size \in Sizes : Extend(f, size)
                \/ \E off \in Sizes, n \in Chunks : Write(f, off, n)

Spec == Init /\ [][Next]_contents
=============================================================================
