---------------------------- MODULE MCBlockCache ----------------------------
(* Small instances of BlockCache: more blocks than slots, so that every    *)
(* access may have to evict.                                               *)
EXTENDS BlockCache

CONSTANTS b1, b2, b3, v1, v2

MCBlock == {b1, b2, b3}
MCTwoBlocks == {b1, b2}
MCValue == {v1, v2}

\* Blocks are interchangeable, and so are contents.
Symmetry == Permutations(MCBlock) \union Permutations(MCValue)
=============================================================================
