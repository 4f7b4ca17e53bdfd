------------------------------- MODULE Lists -------------------------------
(***************************************************************************)
(* What several modules need of sequences.                                 *)
(***************************************************************************)
EXTENDS Integers, Sequences

\* The items of a sequence at some places, in their order.
Picked(seq, places) ==
    LET upTo[n \in 0..Len(seq)] ==
            IF n = 0 THEN <<>>
            ELSE IF n \in places THEN Append(upTo[n - 1], seq[n]) ELSE upTo[n - 1]
    IN  upTo[Len(seq)]

\* The items of a sequence that are in a set.
Chosen(seq, S) == Picked(seq, {i \in DOMAIN seq : seq[i] \in S})

=============================================================================
