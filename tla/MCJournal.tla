----------------------------- MODULE MCJournal -----------------------------
(* Small instances of Journal: two destination blocks, two contents each,  *)
(* batches of one or two blocks.                                           *)
EXTENDS Journal, TLC

CONSTANTS b1, b2, v1, v2

MCBlock == {b1, b2}
MCValue == {v1, v2}

\* A fault anywhere but in the destination writes of a commit.
FaultsOutsideDest == Steps \ {"dest"}
=============================================================================
