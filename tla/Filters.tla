------------------------------- MODULE Filters -------------------------------
(***************************************************************************)
(* Array.filter with a set for its predicate, and Array.reduce that adds,  *)
(* in a form that can be proved about.                                     *)
(***************************************************************************)
EXTENDS Naturals, Sequences

\* The elements of s that are in S, in their order: SelectSeq with a set for its test.
SelectIn(s, S) ==
    LET upTo[i \in 0..Len(s)] ==
            IF i = 0 THEN <<>>
            ELSE IF s[i] \in S THEN Append(upTo[i - 1], s[i]) ELSE upTo[i - 1]
    IN  upTo[Len(s)]

\* The sum of what W says of the elements of a sequence.
Weight(q, W) ==
    LET upTo[i \in 0..Len(q)] == IF i = 0 THEN 0 ELSE upTo[i - 1] + W[q[i]]
    IN  upTo[Len(q)]
=============================================================================
