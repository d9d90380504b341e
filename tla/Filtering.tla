------------------------------ MODULE Filtering ------------------------------
(***************************************************************************)
(* What Array.filter keeps of a sequence.  The standard SelectSeq takes an *)
(* operator, which the provers cannot look into; this definition takes a   *)
(* set.                                                                    *)
(***************************************************************************)
EXTENDS Naturals, Sequences

\* The members of S in seq, in their order.
Only(seq, S) ==
  LET upTo[n \in 0..Len(seq)] ==
        IF n = 0 THEN << >>
        ELSE IF seq[n] \in S THEN Append(upTo[n - 1], seq[n]) ELSE upTo[n - 1]
  IN  upTo[Len(seq)]
=============================================================================
