------------------------------ MODULE Batches ------------------------------
(***************************************************************************)
(* The arguments of osfs2_journal_commit(dest, data, count) and their      *)
(* effect on a disk, shared by the journal and by what it promises.        *)
(***************************************************************************)
EXTENDS Naturals, Sequences, Functions

CONSTANTS Block,      \* destination block numbers
          Value,      \* block contents
          MaxBlocks,  \* N, the data slots of the journal
          NoBatch     \* "no batch": also the zeroed header of the journal

(* The pairs of one commit: `dest` in journal-slot order, without          *)
(* repetition because the cache holds a block in one slot at most, and the *)
(* contents of each destination.                                           *)
BatchOf(n) ==
    UNION { [dest : {d}, data : [Range(d) -> Value]] :
                d \in { f \in [1..n -> Block] : IsInjective(f) } }

\* 1 <= count <= N: anything else returns before the first write.
Batch == UNION { BatchOf(n) : n \in 1..MaxBlocks }

\* The disk `d` with the destinations of `batch` replaced.
Overlay(d, batch) ==
    [b \in Block |-> IF b \in DOMAIN batch.data THEN batch.data[b] ELSE d[b]]

ASSUME BatchAssumption ==
    /\ MaxBlocks \in Nat \ {0}
    /\ NoBatch \notin Batch
=============================================================================
