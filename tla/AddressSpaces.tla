--------------------------- MODULE AddressSpaces ---------------------------
(***************************************************************************)
(* kernel/arch/address_space.c with the frame reference counts of          *)
(* kernel/core/pmem_refcount.c and the page cache of page_cache.c: user    *)
(* pages that are mapped at once (ELF image, heap), mapped when they are   *)
(* first touched (mmap), and shared copy-on-write after a fork.            *)
(*                                                                         *)
(* One CPU runs the threads; a system call or a fault is one step.  The    *)
(* CPU may keep a translation in its TLB until the code flushes it.        *)
(***************************************************************************)
EXTENDS Naturals, FiniteSets, SequencesExt

CONSTANTS AS,                  \* the struct address_space of one execution
          Frame,               \* the frames pmem gives to user pages
          Value,               \* the contents of a frame
          Zero,                \* the contents of a zeroed frame
          Image,               \* the pages elf_load_user maps
          HeapBase, HeapMax,   \* USER_HEAP_BASE, USER_HEAP_MAX, in pages
          MmapBase, MmapMax,   \* USER_MMAP_BASE, USER_MMAP_MAX, in pages
          FileData,            \* the pages of a ramfs file
          CacheSlots,          \* PAGE_CACHE_SLOTS
          MaxThreads,          \* bound: user threads at a time
          TlbSize,             \* bound: translations the CPU keeps
          Written,             \* bound: what programs write
          Retries,             \* whether a program asks again for a heap it did not get
          None

Heap == HeapBase .. HeapMax - 1
Mapping == MmapBase .. MmapMax - 1
Page == Image \union Heap \union Mapping
Key == DOMAIN FileData

Entries == [frame : Frame, rw : BOOLEAN, cow : BOOLEAN, cached : BOOLEAN]

ASSUME AddressSpacesAssumption ==
    /\ IsFiniteSet(AS) /\ IsFiniteSet(Frame)
    /\ {HeapBase, HeapMax, MmapBase, MmapMax, CacheSlots, MaxThreads, TlbSize} \subseteq Nat
    /\ HeapBase <= HeapMax /\ HeapMax <= MmapBase /\ MmapBase <= MmapMax
    /\ Image \subseteq 0 .. HeapBase - 1
    /\ Key \subseteq Nat /\ FileData \in [Key -> Value]
    /\ Zero \in Value /\ Written \subseteq Value /\ None \notin Value \union AS \union Entries
    /\ Retries \in BOOLEAN

VARIABLES
    refs,      \* refcount of each address space; 0: there is no such struct
    pte,       \* its page table
    brk,       \* its heap_brk
    vmas,      \* its vmas
    mmapBrk,   \* its mmap_brk
    cur,       \* the address space in TTBR0, None for the boot table
    tlb,       \* what the CPU has cached of its page table
    free,      \* the frames on the free list of pmem
    rc,        \* g_rc
    content,   \* what each frame holds
    cache      \* g_slots in use, the least recently used one first

spaces == <<refs, brk, vmas, mmapBrk>>
frames == <<free, rc, content>>
vars == <<spaces, pte, cur, tlb, frames, cache>>

Entry(f, rw, cow, cached) == [frame |-> f, rw |-> rw, cow |-> cow, cached |-> cached]
NoPages == [v \in Page |-> None]
Flushed == NoPages

Init ==
    /\ refs = [a \in AS |-> 0]
    /\ pte = [a \in AS |-> NoPages]
    /\ brk = [a \in AS |-> HeapBase]
    /\ vmas = [a \in AS |-> {}]
    /\ mmapBrk = [a \in AS |-> MmapBase]
    /\ cur = None
    /\ tlb = Flushed
    /\ free = Frame
    /\ rc = [f \in Frame |-> 0]
    /\ content = [f \in Frame |-> Zero]
    /\ cache = <<>>

-----------------------------------------------------------------------------
Present(a, V) == { v \in V : pte[a][v] # None }
Covers(m, v) == m.va <= v /\ v < m.va + m.len

(* Clearing the entries of the pages V of a: pmem_dec_and_free of a frame  *)
(* of the address space, page_cache_release of a frame of the page cache.  *)
Own(a, V) == { pte[a][v].frame : v \in { w \in Present(a, V) : ~pte[a][w].cached } }
Lent(a, V, f) == { v \in Present(a, V) : pte[a][v].cached /\ pte[a][v].frame = f }
Dropped(a, V) == [f \in Frame |-> IF f \in Own(a, V) /\ rc[f] > 0 THEN rc[f] - 1 ELSE rc[f]]
Freed(a, V) == { f \in Own(a, V) : rc[f] <= 1 }
Released(a, V) == [i \in DOMAIN cache |->
                      [cache[i] EXCEPT !.refs = @ - Cardinality(Lent(a, V, cache[i].frame))]]
Without(a, V) == [v \in Page |-> IF v \in V THEN None ELSE pte[a][v]]

Clear(a, V) ==
    /\ rc' = Dropped(a, V)
    /\ free' = free \union Freed(a, V)
    /\ cache' = Released(a, V)
    /\ pte' = [pte EXCEPT ![a] = Without(a, V)]
    /\ UNCHANGED content

\* The CPU is given another page table, with the flush of address_space_activate.
Activate(a) == cur' = a /\ tlb' = IF a = cur THEN tlb ELSE Flushed

\* A struct that was freed has the fields that address_space_create gives it.
Reset(a, last) ==
    /\ brk' = [brk EXCEPT ![a] = IF last THEN HeapBase ELSE @]
    /\ vmas' = [vmas EXCEPT ![a] = IF last THEN {} ELSE @]
    /\ mmapBrk' = [mmapBrk EXCEPT ![a] = IF last THEN MmapBase ELSE @]

\* elf_load_user: a frame for every page of the image.
Loads(F) == F \in [Image -> free] /\ IsInjective(F)
Loaded(F) == [v \in Page |-> IF v \in Image THEN Entry(F[v], TRUE, FALSE, FALSE) ELSE None]
Zeroed(S) == [f \in Frame |-> IF f \in S THEN Zero ELSE content[f]]

\* Every thread holds a reference to its address space.
Threads == MapThenSumSet(LAMBDA a : refs[a], AS)

Spawn(a) ==
    /\ refs[a] = 0 /\ Threads < MaxThreads
    /\ refs' = [refs EXCEPT ![a] = 1]
    /\ \E F \in [Image -> free] :
           /\ Loads(F)
           /\ pte' = [pte EXCEPT ![a] = Loaded(F)]
           /\ free' = free \ Range(F)
           /\ content' = Zeroed(Range(F))
    /\ UNCHANGED <<brk, vmas, mmapBrk, cur, tlb, rc, cache>>

\* sys_exec: a new address space for the calling thread, which leaves its own.
Exec(b) ==
    /\ cur # None /\ refs[b] = 0
    /\ LET gone == IF refs[cur] = 1 THEN Page ELSE {}
       IN  /\ \E F \in [Image -> free] :
                  /\ Loads(F)
                  /\ pte' = [pte EXCEPT ![b] = Loaded(F), ![cur] = Without(cur, gone)]
                  /\ free' = (free \ Range(F)) \union Freed(cur, gone)
                  /\ content' = Zeroed(Range(F))
           /\ rc' = Dropped(cur, gone)
           /\ cache' = Released(cur, gone)
    /\ refs' = [refs EXCEPT ![b] = 1, ![cur] = @ - 1]
    /\ Reset(cur, refs[cur] = 1)
    /\ Activate(b)

\* address_space_share, for a new thread of the running address space.
Share ==
    /\ cur # None /\ Threads < MaxThreads
    /\ refs' = [refs EXCEPT ![cur] = @ + 1]
    /\ UNCHANGED <<brk, vmas, mmapBrk, pte, cur, tlb, frames, cache>>

\* address_space_destroy, when an exited thread of a is reaped.
Destroy(a) ==
    /\ refs[a] > (IF a = cur THEN 1 ELSE 0)
    /\ refs' = [refs EXCEPT ![a] = @ - 1]
    /\ Clear(a, IF refs[a] = 1 THEN Page ELSE {})
    /\ Reset(a, refs[a] = 1)
    /\ UNCHANGED <<cur, tlb>>

\* The switch to another thread, of an address space or of the kernel.
Switch(a) ==
    /\ a # cur
    /\ a # None => refs[a] > 0
    /\ Activate(a)
    /\ UNCHANGED <<spaces, pte, frames, cache>>

-----------------------------------------------------------------------------
(* address_space_clone_cow. *)
Shareable(a) == { v \in Present(a, Page) : ~pte[a][v].cached }
Cow(e) == Entry(e.frame, FALSE, e.rw \/ e.cow, FALSE)

\* pmem_refcount_share: the first share makes two holders of one.
\* Mutant: it counts the new holder only.
SharedOnce(f) == rc[f] + 1
Shared(f) == IF rc[f] = 0 THEN 2 ELSE rc[f] + 1

Fork(b) ==
    /\ cur # None /\ refs[b] = 0 /\ Threads < MaxThreads
    /\ LET S == Shareable(cur)
       IN  /\ pte' = [pte EXCEPT
                         ![cur] = [v \in Page |-> IF v \in S THEN Cow(@[v]) ELSE @[v]],
                         ![b] = [v \in Page |-> IF v \in S THEN Cow(pte[cur][v]) ELSE None]]
           /\ rc' = [f \in Frame |-> IF f \in Own(cur, Page) THEN Shared(f) ELSE rc[f]]
    /\ refs' = [refs EXCEPT ![b] = 1]
    /\ brk' = [brk EXCEPT ![b] = brk[cur]]
    /\ tlb' = Flushed
    /\ UNCHANGED <<vmas, mmapBrk, cur, free, content, cache>>

\* No frame for a table: what was shared so far (below page w) is given up
\* again, but the entries of the parent stay as they are now.
ForkFails(w) ==
    /\ cur # None
    /\ \E b \in AS : refs[b] = 0
    /\ LET S == { v \in Shareable(cur) : v < w }
       IN  /\ pte' = [pte EXCEPT ![cur] = [v \in Page |-> IF v \in S THEN Cow(@[v]) ELSE @[v]]]
           /\ rc' = [f \in Frame |-> IF f \in Own(cur, S) THEN Shared(f) - 1 ELSE rc[f]]
           /\ tlb' = IF S = {} THEN tlb ELSE Flushed
    /\ UNCHANGED <<spaces, cur, free, content, cache>>

-----------------------------------------------------------------------------
(* The running thread touches its memory.  A fault that is not resolved    *)
(* (no vma, no permission, no frame) ends the thread, which is Switch.     *)
Translation(v) == IF tlb[v] # None THEN tlb[v] ELSE pte[cur][v]

Walk(v) ==
    /\ cur # None
    /\ tlb[v] = None /\ pte[cur][v] # None
    /\ Cardinality({ w \in Page : tlb[w] # None }) < TlbSize
    /\ tlb' = [tlb EXCEPT ![v] = pte[cur][v]]
    /\ UNCHANGED <<spaces, pte, cur, frames, cache>>

Store(v, x) ==
    /\ cur # None
    /\ Translation(v) # None /\ Translation(v).rw
    /\ content' = [content EXCEPT ![Translation(v).frame] = x]
    /\ UNCHANGED <<spaces, pte, cur, tlb, free, rc, cache>>

Install(v, e) == pte' = [pte EXCEPT ![cur][v] = e]

\* address_space_handle_cow_fault, after a write to a page without permission.
CowFault(v) ==
    /\ cur # None
    /\ Translation(v) # None /\ ~Translation(v).rw
    /\ pte[cur][v] # None /\ pte[cur][v].cow /\ ~pte[cur][v].rw
    /\ LET old == pte[cur][v].frame
       IN  \/ /\ rc[old] <= 1
              /\ rc' = [rc EXCEPT ![old] = 0]
              /\ Install(v, Entry(old, TRUE, FALSE, FALSE))
              /\ UNCHANGED <<free, content>>
           \/ /\ rc[old] > 1
              /\ \E new \in free :
                     /\ free' = free \ {new}
                     /\ content' = [content EXCEPT ![new] = content[old]]
                     /\ Install(v, Entry(new, TRUE, FALSE, FALSE))
              /\ rc' = [rc EXCEPT ![old] = @ - 1]
    /\ tlb' = [tlb EXCEPT ![v] = None]
    /\ UNCHANGED <<spaces, cur, cache>>

\* address_space_handle_mmap_fault: the running thread touches page v of m.
Touches(v, m) ==
    /\ cur # None
    /\ Translation(v) = None
    /\ m \in vmas[cur] /\ Covers(m, v)

AnonFault(v, m) ==
    /\ Touches(v, m) /\ m.kind = "anon"
    /\ \E f \in free :
           /\ free' = free \ {f}
           /\ content' = Zeroed({f})
           /\ Install(v, Entry(f, m.writable, FALSE, FALSE))
    /\ UNCHANGED <<spaces, cur, tlb, rc, cache>>

\* What page number k of the file holds, zeros after its end.
Data(k) == IF k \in Key THEN FileData[k] ELSE Zero
KeyAt(m, v) == m.off + (v - m.va)

Cached(k) == { i \in DOMAIN cache : cache[i].key = k }
Idle == { i \in DOMAIN cache : cache[i].refs = 0 }
Line(k, f, n) == [key |-> k, frame |-> f, refs |-> n]

\* page_cache_get_or_load: a hit.
FileHit(v, m) ==
    /\ Touches(v, m) /\ m.kind = "file"
    /\ \E i \in Cached(KeyAt(m, v)) :
           /\ cache' = Append(RemoveAt(cache, i), [cache[i] EXCEPT !.refs = @ + 1])
           /\ Install(v, Entry(cache[i].frame, FALSE, FALSE, TRUE))
    /\ UNCHANGED <<spaces, cur, tlb, frames>>

\* page_cache_get_or_load: a miss takes an unused slot, or the one of the
\* page that was not used for longest and that nobody has mapped.
\* Mutant: the page that was not used for longest, mapped or not.
VictimInUse == { i \in DOMAIN cache : i = 1 }
Victim == { i \in Idle : \A j \in Idle : i <= j }
Kept == IF Len(cache) < CacheSlots THEN {cache} ELSE { RemoveAt(cache, i) : i \in Victim }
Lines(c) == { c[i].frame : i \in DOMAIN c }

FileMiss(v, m) ==
    /\ Touches(v, m) /\ m.kind = "file"
    /\ Cached(KeyAt(m, v)) = {}
    /\ \E kept \in Kept :
           LET unused == free \union (Lines(cache) \ Lines(kept))
           IN  \E f \in unused :
                   /\ free' = unused \ {f}
                   /\ content' = [content EXCEPT ![f] = Data(KeyAt(m, v))]
                   /\ cache' = Append(kept, Line(KeyAt(m, v), f, 1))
                   /\ Install(v, Entry(f, FALSE, FALSE, TRUE))
    /\ UNCHANGED <<spaces, cur, tlb, rc>>

-----------------------------------------------------------------------------
(* System calls of the running thread that change what is mapped.          *)

\* address_space_set_brk, upwards to page n.  Short of frames it maps what
\* it can and leaves the break where it was.
Grow(n) ==
    /\ cur # None
    /\ brk[cur] < n /\ n <= HeapMax
    /\ Retries \/ Present(cur, brk[cur] .. n - 1) = {}
    /\ LET end == IF n - brk[cur] <= Cardinality(free) THEN n ELSE brk[cur] + Cardinality(free)
           got == brk[cur] .. end - 1
       IN  /\ \E F \in [got -> free] :
                  /\ IsInjective(F)
                  /\ pte' = [pte EXCEPT ![cur] = [v \in Page |->
                                IF v \in got THEN Entry(F[v], TRUE, FALSE, FALSE) ELSE @[v]]]
                  /\ free' = free \ Range(F)
                  /\ content' = Zeroed(Range(F))
           /\ brk' = [brk EXCEPT ![cur] = IF end = n THEN n ELSE @]
    /\ UNCHANGED <<refs, vmas, mmapBrk, cur, tlb, rc, cache>>

\* address_space_set_brk, downwards.
\* Mutant: the TLB is not flushed.
ShrinkUnflushed(n) ==
    /\ cur # None
    /\ HeapBase <= n /\ n < brk[cur]
    /\ Clear(cur, n .. brk[cur] - 1)
    /\ brk' = [brk EXCEPT ![cur] = n]
    /\ UNCHANGED <<refs, vmas, mmapBrk, cur, tlb>>
Shrink(n) ==
    /\ cur # None
    /\ HeapBase <= n /\ n < brk[cur]
    /\ Clear(cur, n .. brk[cur] - 1)
    /\ brk' = [brk EXCEPT ![cur] = n]
    /\ tlb' = Flushed
    /\ UNCHANGED <<refs, vmas, mmapBrk, cur>>

\* address_space_mmap_anon, address_space_mmap_ramfs.
Lengths == 1 .. MmapMax - MmapBase
Regions ==
    [kind : {"anon"}, va : Mapping, len : Lengths, writable : BOOLEAN, off : {0}]
    \union [kind : {"file"}, va : Mapping, len : Lengths, writable : {FALSE}, off : Key]

Mmap(m) ==
    /\ cur # None
    /\ m.va = mmapBrk[cur] /\ m.va + m.len <= MmapMax
    /\ mmapBrk' = [mmapBrk EXCEPT ![cur] = m.va + m.len]
    /\ vmas' = [vmas EXCEPT ![cur] = @ \union {m}]
    /\ UNCHANGED <<refs, brk, pte, cur, tlb, frames, cache>>

\* address_space_munmap.
Munmap(m) ==
    /\ cur # None /\ m \in vmas[cur]
    /\ vmas' = [vmas EXCEPT ![cur] = @ \ {m}]
    /\ Clear(cur, { v \in Page : Covers(m, v) })
    /\ tlb' = Flushed
    /\ UNCHANGED <<refs, brk, mmapBrk, cur>>

Next ==
    \/ \E a \in AS : Spawn(a) \/ Exec(a) \/ Destroy(a) \/ Fork(a)
    \/ \E a \in AS \union {None} : Switch(a)
    \/ Share
    \/ \E v \in Page : Walk(v) \/ CowFault(v) \/ ForkFails(v)
    \/ \E v \in Page, x \in Written : Store(v, x)
    \/ \E v \in Page, m \in Regions : AnonFault(v, m) \/ FileHit(v, m) \/ FileMiss(v, m)
    \/ \E n \in HeapBase .. HeapMax : Grow(n) \/ Shrink(n)
    \/ \E m \in Regions : Mmap(m) \/ Munmap(m)

Spec == Init /\ [][Next]_vars

-----------------------------------------------------------------------------
\* Every variable has its type; in particular no count is negative.
TypeOK ==
    /\ refs \in [AS -> Nat]
    /\ pte \in [AS -> [Page -> Entries \union {None}]]
    /\ brk \in [AS -> HeapBase .. HeapMax]
    /\ \A a \in AS : vmas[a] \subseteq Regions
    /\ mmapBrk \in [AS -> MmapBase .. MmapMax]
    /\ cur \in AS \union {None}
    /\ tlb \in [Page -> Entries \union {None}]
    /\ free \subseteq Frame
    /\ rc \in [Frame -> Nat]
    /\ content \in [Frame -> Value]
    /\ cache \in Seq([key : Nat, frame : Frame, refs : Nat]) /\ Len(cache) <= CacheSlots

\* The mappings of frame f, through the page cache or not.
Mapped(f, cached) ==
    { w \in AS \X Page : pte[w[1]][w[2]] # None
                         /\ pte[w[1]][w[2]].frame = f /\ pte[w[1]][w[2]].cached = cached }

\* pmem_refcount: 0 stands for at most one holder, any other count is the
\* number of page tables that map the frame, whatever forks failed half-way.
RefcountExact ==
    \A f \in Frame : LET holders == Cardinality(Mapped(f, FALSE))
                     IN  IF rc[f] = 0 THEN holders <= 1 ELSE holders = rc[f]

\* No frame is lost or given out twice: it is free, or of the page cache,
\* which counts its mappings, or some page table maps it.
FramesAccounted ==
    \A f \in Frame :
        LET lines == { i \in DOMAIN cache : cache[i].frame = f }
        IN  /\ f \in free => lines = {} /\ Mapped(f, TRUE) = {} /\ Mapped(f, FALSE) = {}
            /\ f \notin free => (lines = {}) = (Mapped(f, FALSE) # {})
            /\ Mapped(f, TRUE) # {} => lines # {}
            /\ \A i \in lines : lines = {i} /\ cache[i].refs = Cardinality(Mapped(f, TRUE))

\* A page that can be written without a fault, by its entry or by what the
\* TLB still holds, has no other holder.
WritableIsPrivate ==
    \A a \in AS, v \in Page :
        LET e == IF a = cur /\ tlb[v] # None THEN tlb[v] ELSE pte[a][v]
        IN  e # None /\ e.rw =>
                Mapped(e.frame, FALSE) \subseteq {<<a, v>>} /\ Mapped(e.frame, TRUE) = {}

\* The books are right: what is counted, what is free and what may be written agree with the
\* page tables through every fork, fault, shrink, unmap, exit and failure half-way.
FramesExact == TypeOK /\ RefcountExact /\ FramesAccounted /\ WritableIsPrivate

\* The TLB never holds what the page table in TTBR0 no longer says.
TlbSound == \A v \in Page : tlb[v] # None => cur # None /\ tlb[v] = pte[cur][v]

(* What an address space reads from a page: a mapped page that was not     *)
(* touched yet reads as what the fault handler will put there.             *)
Promised(m, v) == IF m.kind = "anon" THEN Zero ELSE Data(KeyAt(m, v))

Seen(a, v) ==
    CASE a = cur /\ tlb[v] # None -> content[tlb[v].frame]
      [] ~(a = cur /\ tlb[v] # None) /\ pte[a][v] # None -> content[pte[a][v].frame]
      [] OTHER -> IF \E m \in vmas[a] : Covers(m, v)
                  THEN Promised(CHOOSE m \in vmas[a] : Covers(m, v), v)
                  ELSE None

PM == INSTANCE PrivateMemory WITH
          mem <- [a \in AS |-> [v \in Page |-> Seen(a, v)]],
          Lossy <- Mapping, Fresh <- {Zero} \union Range(FileData), Unmapped <- None

\* Copy-on-write, lazy mapping and the page cache are invisible: programs
\* see memories of their own, and after a fork the parent's pages as copies.
ImplementsPrivateMemory == PM!Spec
=============================================================================
