---------------------------------- MODULE Lists ----------------------------------
(***************************************************************************)
(* What the program does to a slice in place, as a function of sequences:  *)
(* written as a recursive function, so that it can be proved about.        *)
(***************************************************************************)
EXTENDS Naturals, Sequences

\* Those of the list that are not in S, in their order: the loop over
\* list[:0] that keeps what it does not drop.
Dropping(list, S) ==
  LET kept[n \in 0 .. Len(list)] ==
        IF n = 0 THEN <<>>
        ELSE IF list[n] \in S THEN kept[n - 1]
        ELSE Append(kept[n - 1], list[n])
  IN kept[Len(list)]
==================================================================================
