------------------------------- MODULE Tables -------------------------------
(***************************************************************************)
(* Rows picked by a mask: what the code asks of pandas and of Python's     *)
(* list comprehensions.                                                    *)
(***************************************************************************)
EXTENDS Integers, Sequences, FiniteSetsExt, Functions

(* The elements of seq at the positions in S, in their order.              *)
Kept(seq, S) ==
    LET kept[i \in 0..Len(seq)] ==
          IF i = 0 THEN <<>>
          ELSE IF i \in S THEN Append(kept[i - 1], seq[i]) ELSE kept[i - 1]
    IN kept[Len(seq)]

=============================================================================
