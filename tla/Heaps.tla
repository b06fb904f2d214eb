------------------------------- MODULE Heaps -------------------------------
(***************************************************************************)
(* The two allocators: the kernel's heap of boundary tags (core/heap.c:    *)
(* kmalloc, kfree) and the free list of a program (libc/malloc.h: malloc,  *)
(* free).  Sizes and addresses are in units of 16 bytes; the header is in  *)
(* the size of a block.  A call is one step: malloc and free hold the      *)
(* spinlock; kmalloc and kfree have no lock, and one CPU calls them here.  *)
(***************************************************************************)
EXTENDS Integers, Sequences, FiniteSets, SequencesExt

CONSTANTS HeapSize,  \* bound: units of the kernel's heap
          MaxBrk,    \* bound: units sbrk can give the program
          GrowBy,      \* MALLOC_GROW
          Wants      \* the sizes asked for, header included and rounded up

MinBlock == 2  \* MIN_BLOCK_SIZE, and the least leftover malloc splits off

ASSUME HeapsAssumption == /\ HeapSize \in Nat /\ HeapSize >= MinBlock /\ GrowBy \in Nat /\ GrowBy >= MinBlock
                          /\ Wants \subseteq {n \in Nat : n >= MinBlock}

VARIABLES
    tag,     \* the kernel's heap: at each address, the header written there last
    kheld,   \* history: the blocks the kernel's callers hold, address and size
    list,    \* the program's free list, head first: blocks of an address and a size
    top,     \* the end of the program's heap
    uheld    \* history: the blocks the program holds

heapsVars == <<tag, kheld, list, top, uheld>>
kernelVars == <<tag, kheld>>
programVars == <<list, top, uheld>>

\* kheap_init: one free block.
HeapsInit ==
    /\ tag = [p \in 0 .. HeapSize - 1 |->
                IF p = 0 THEN [size |-> HeapSize, used |-> FALSE, prev |-> 0]
                ELSE [size |-> 0, used |-> FALSE, prev |-> 0]]
    /\ kheld = {} /\ list = <<>> /\ top = 0 /\ uheld = {}

(***************************************************************************)
(* The kernel's heap.                                                      *)
(***************************************************************************)
\* The blocks met by walking the sizes of h from the start (blk_next).
BlocksOf(h) ==
    LET from[p \in 0 .. HeapSize] ==
            IF p >= HeapSize \/ h[p].size = 0 THEN {} ELSE {p} \union from[p + h[p].size]
    IN  from[0]

\* The header at p gets a size, and the block after it is told; nothing is after the last one.
Sized(h, p, size, used) ==
    [q \in DOMAIN h |->
        IF q = p THEN [h[p] EXCEPT !.size = size, !.used = used]
        ELSE IF q = p + size THEN [h[q] EXCEPT !.prev = size]
        ELSE h[q]]

\* Mutant: the block after the tail still has the size of the whole block as prev_size.
Split_NotTold(h, p, need) ==
    [Sized(h, p, need, TRUE) EXCEPT ![p + need] = [size |-> h[p].size - need, used |-> FALSE, prev |-> need]]

\* A block is cut when what is left over can hold a block.
Split(h, p, need) ==
    LET tail == p + need
        left == h[p].size - need
    IN  IF left >= MinBlock THEN Sized(Sized(h, p, need, TRUE), tail, left, FALSE)
        ELSE [h EXCEPT ![p].used = TRUE]

\* The first fit; NULL when there is none.
Kmalloc(need) ==
    LET fits == {p \in BlocksOf(tag) : ~tag[p].used /\ tag[p].size >= need}
        p == CHOOSE q \in fits : \A r \in fits : q <= r
    IN  /\ fits # {}
        /\ tag' = Split(tag, p, need)
        /\ kheld' = kheld \union {[at |-> p, size |-> tag'[p].size]}
        /\ UNCHANGED programVars

\* A block and the one after it, when that is free, become one.
MergeNext(h, p) ==
    LET next == p + h[p].size
    IN  IF next < HeapSize /\ ~h[next].used THEN Sized(h, p, h[p].size + h[next].size, FALSE) ELSE h

\* The same with the block before it, found by prev_size.
MergePrev(h, p) ==
    LET prev == p - h[p].prev
    IN  IF h[p].prev # 0 /\ ~h[prev].used THEN Sized(h, prev, h[prev].size + h[p].size, FALSE) ELSE h

Kfree(b) ==
    /\ b \in kheld /\ kheld' = kheld \ {b}
    /\ tag' = MergePrev(MergeNext([tag EXCEPT ![b.at].used = FALSE], b.at), b.at)
    /\ UNCHANGED programVars

(***************************************************************************)
(* The program's heap.                                                     *)
(***************************************************************************)
\* The i-th block of the list is taken: its tail takes its place, or it leaves the list whole.
Cut(l, i, need) ==
    IF l[i].size - need >= MinBlock
    THEN ReplaceAt(l, i, [at |-> l[i].at + need, size |-> l[i].size - need])
    ELSE RemoveAt(l, i)

Given(l, i, need) ==
    [at |-> l[i].at, size |-> IF l[i].size - need >= MinBlock THEN need ELSE l[i].size]

\* _ualloc_grow pushes the new block at the head of the list; sbrk may have nothing left.
Grown(need) ==
    LET chunk == IF need < GrowBy THEN GrowBy ELSE need
    IN  IF top + chunk > MaxBrk THEN list ELSE <<[at |-> top, size |-> chunk]>> \o list

\* The first fit, in the list as it is or, when there is none, with a new block.
Malloc(need) ==
    LET Fits(l) == {i \in DOMAIN l : l[i].size >= need}
        l == IF Fits(list) = {} THEN Grown(need) ELSE list
        i == CHOOSE j \in Fits(l) : \A k \in Fits(l) : j <= k
    IN  /\ Fits(l) # {}
        /\ top' = IF l = list THEN top ELSE top + l[1].size
        /\ list' = Cut(l, i, need) /\ uheld' = uheld \union {Given(l, i, need)}
        /\ UNCHANGED kernelVars

\* free: the block is put before the first one with a higher address (the list is not always
\* sorted) and takes in the one after it in the list when that is its neighbour.
UFree(b) ==
    LET higher == {i \in DOMAIN list : list[i].at >= b.at}
        i == IF higher = {} THEN Len(list) + 1 ELSE CHOOSE j \in higher : \A k \in higher : j <= k
        joins == i \in DOMAIN list /\ b.at + b.size = list[i].at
    IN  /\ b \in uheld /\ uheld' = uheld \ {b}
        /\ list' = IF joins THEN ReplaceAt(list, i, [at |-> b.at, size |-> b.size + list[i].size])
                   ELSE InsertAt(list, i, b)
        /\ UNCHANGED top /\ UNCHANGED kernelVars

KernelHeapNext == (\E need \in Wants : Kmalloc(need)) \/ (\E b \in kheld : Kfree(b))

ProgramHeapNext == (\E need \in Wants : Malloc(need)) \/ (\E b \in uheld : UFree(b))

HeapsNext == KernelHeapNext \/ ProgramHeapNext

HeapsSpec == HeapsInit /\ [][HeapsNext]_heapsVars

(***************************************************************************)
(* Properties.                                                             *)
(***************************************************************************)
Units(b) == b.at .. b.at + b.size - 1

\* The blocks of S cover the units from 0 to the end, each once.
Tiles(S, end) ==
    /\ UNION {Units(b) : b \in S} = 0 .. end - 1
    /\ \A b, c \in S : b # c => Units(b) \intersect Units(c) = {}

\* After any calls of kmalloc and kfree the tags tile the heap, the blocks in use are those the
\* callers hold, prev_size of each block is the size of the one before it, and no two free
\* blocks are neighbours.
TagsAreExact ==
    LET blocks == {[at |-> p, size |-> tag[p].size] : p \in BlocksOf(tag)}
    IN  /\ Tiles(blocks, HeapSize)
        /\ kheld = {b \in blocks : tag[b.at].used}
        /\ \A b, c \in blocks : b.at + b.size = c.at =>
              /\ tag[c.at].prev = b.size
              /\ tag[b.at].used \/ tag[c.at].used

\* After any calls of malloc and free every unit sbrk gave is in one block, in the list or held
\* by the program, and no block twice.
ListIsExact ==
    /\ Tiles(uheld \union Range(list), top)
    /\ Range(list) \intersect uheld = {}
    /\ \A i, j \in DOMAIN list : i # j => list[i] # list[j]

HeapsSound == TagsAreExact /\ ListIsExact
=============================================================================
