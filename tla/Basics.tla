------------------------------- MODULE Basics -------------------------------
(***************************************************************************)
(* What the modules of several components share: the value of an optional  *)
(* that is absent, and a sequence without some of its elements.            *)
(***************************************************************************)
EXTENDS Integers, Sequences

CONSTANT None

(* The elements of a sequence at the positions in S, in order: those of the  *)
(* first n elements, for each n.                                             *)
PickedOf(seq, S) ==
  LET picked[n \in 0..Len(seq)] ==
        IF n = 0 THEN << >>
        ELSE IF n \in S THEN Append(picked[n - 1], seq[n]) ELSE picked[n - 1]
  IN picked

Picked(seq, S) == PickedOf(seq, S)[Len(seq)]
=============================================================================
