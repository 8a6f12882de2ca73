----------------------------- MODULE Sequencing -----------------------------
(***************************************************************************)
(* What the modules need of sequences and the provers do not have.         *)
(***************************************************************************)
EXTENDS Integers, Sequences

\* The elements of s that are in S, in their order: a filter of an array.
Among(s, S) ==
    LET among[i \in 0..Len(s)] ==
          IF i = 0 THEN <<>>
          ELSE IF s[i] \in S THEN Append(among[i - 1], s[i]) ELSE among[i - 1]
    IN  among[Len(s)]
=============================================================================
