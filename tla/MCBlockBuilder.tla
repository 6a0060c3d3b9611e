--------------------------- MODULE MCBlockBuilder ---------------------------
(* A small instance of BlockBuilder for TLC: usize::MAX is 7, a slice has at *)
(* most 3 elements, and offsets reach beyond usize as on a 32-bit target.   *)
EXTENDS BlockBuilder

SeqsUpTo(S, n) == UNION {[1..m -> S] : m \in 0..n}

MCOffsets == SeqsUpTo({0, 1, 2, 9}, 2)
MCKeySlabs == SeqsUpTo({0, 1}, 2)
=============================================================================
