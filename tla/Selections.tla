----------------------------- MODULE Selections -----------------------------
(***************************************************************************)
(* Parts of sequences, chosen by their places.  What SelectSeq and the     *)
(* folds compute cannot be proved for every sequence, because their        *)
(* theorems take an operator; what a set of places keeps can.              *)
(***************************************************************************)
EXTENDS Naturals, Sequences

\* The elements of s at the given places, in order.
KeepAt(s, places) ==
    LET kept[n \in 0 .. Len(s)] ==
            IF n = 0 THEN <<>>
            ELSE IF n \in places THEN Append(kept[n - 1], s[n])
            ELSE kept[n - 1]
    IN  kept[Len(s)]

=============================================================================
