----------------------------- MODULE SeqFilter -----------------------------
(***************************************************************************)
(* The elements of a sequence that are in a set, in their order: SelectSeq *)
(* as a recursive function over positions, which can be proved about.      *)
(***************************************************************************)
EXTENDS Integers, Sequences

\* For every i, those among the first i elements.
Kept(s, S) ==
    LET f[i \in 0..Len(s)] ==
            IF i = 0 THEN <<>> ELSE IF s[i] \in S THEN Append(f[i - 1], s[i]) ELSE f[i - 1]
    IN  f

Within(s, S) == Kept(s, S)[Len(s)]
=============================================================================
