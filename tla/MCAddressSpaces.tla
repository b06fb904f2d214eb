-------------------------- MODULE MCAddressSpaces --------------------------
(***************************************************************************)
(* Two address spaces over three frames: an image of one page, a heap of   *)
(* two and a mapping area of one, a file of two pages and a page cache     *)
(* with a single slot;                                                     *)
(***************************************************************************)
EXTENDS AddressSpaces, Heaps, TLC

VARIABLE part

CONSTANTS dirty, page0, page1

MCFileData == 0 :> page0 @@ 1 :> page1

\* What a free frame holds is never seen: pmem_alloc_page clears it.
View == <<part, spaces, pte, cur, tlb, free, rc, cache,
          [f \in Frame |-> IF f \in free THEN Zero ELSE content[f]], heapsVars>>

\* The page tables and the two allocators share nothing: one of the three moves.
MemoryInit == part \in {"pages", "kernel heap", "program heap"} /\ Init /\ HeapsInit

Only(p) ==
    /\ part = p /\ UNCHANGED part
    /\ p # "pages" => UNCHANGED vars
    /\ p = "pages" => UNCHANGED heapsVars

MemoryNext ==
    \/ Only("pages") /\ Next
    \/ Only("kernel heap") /\ KernelHeapNext
    \/ Only("program heap") /\ ProgramHeapNext

MemorySpec == MemoryInit /\ [][MemoryNext]_<<part, vars, heapsVars>>

\* Frames and address spaces are interchangeable.
Symmetry == Permutations(AS) \union Permutations(Frame)
=============================================================================
