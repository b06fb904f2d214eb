------------------------------- MODULE Osfs2 -------------------------------
(***************************************************************************)
(* The metadata of the writable file system (kernel/core/osfs2.c): the two *)
(* bitmaps, the inodes with their direct and indirect blocks, and the      *)
(* directories, under any sequence of calls on a small volume that runs    *)
(* out of inodes, blocks and directory slots.                              *)
(*                                                                         *)
(* A call is one step: the driver runs with interrupts off and reads and   *)
(* writes blocks of the cache, whose way to the disk is BlockCache.tla;    *)
(* I/O errors are left to that module.  The volume is a record and a call  *)
(* a function from volumes to volumes.  Sizes are in blocks for files and  *)
(* in entries for directories.  A block is Width entries: directory        *)
(* entries, block numbers, or the bytes of a file, which may look like     *)
(* either (Junk).                                                          *)
(***************************************************************************)
EXTENDS Integers, FiniteSets, FiniteSetsExt

CONSTANTS MaxIno,    \* inodes 1 .. MaxIno, of which 1 is the root
          MaxBlk,    \* data blocks 1 .. MaxBlk
          Direct,    \* OSFS2_DIRECT_PTRS
          Width,     \* entries of a block
          Names,     \* the names of files and directories
          NoName     \* the name of an empty entry

ASSUME VolumeAssumption ==
    /\ MaxIno \in Nat \ {0} /\ MaxBlk \in Nat
    /\ Direct \in Nat \ {0} /\ Width \in Nat \ {0} /\ Names # {}

VARIABLES vol,     \* imap, bmap, ino, data
          opened,  \* inodes that a descriptor may hold: those that ever were a file's
          starved, \* history: a call ran out of something half-way
          razed    \* history: O_TRUNC was given for a directory that has entries

fsVars == <<vol, opened, starved, razed>>

Inodes == 1 .. MaxIno
Blocks == 1 .. MaxBlk
Root   == 1

Zero  == [n |-> 0, name |-> NoName]
Junk  == [n |-> 2, name |-> CHOOSE x \in Names : TRUE]
BlockOf(e) == [k \in 0 .. Width - 1 |-> e]
NewInode(type) == [type |-> type, size |-> 0, ptr |-> [k \in 0 .. Direct - 1 |-> 0], ind |-> 0]

\* osfs2_init of a fresh volume.
FsInit ==
    /\ vol = [imap |-> {Root}, bmap |-> {}, data |-> [b \in Blocks |-> BlockOf(Zero)],
              ino |-> [i \in Inodes |-> NewInode(IF i = Root THEN "dir" ELSE "free")]]
    /\ opened = {} /\ starved = FALSE /\ razed = FALSE

\* Mutant: the block keeps what it held.
AllocBlock_Dirty(V) ==
    LET free == Blocks \ V.bmap
    IN  IF free = {} THEN [v |-> V, b |-> 0]
        ELSE [v |-> [V EXCEPT !.bmap = @ \union {Min(free)}], b |-> Min(free)]

\* alloc_block: the first free block, zeroed; 0 when there is none.
AllocBlock(V) ==
    LET free == Blocks \ V.bmap
    IN  IF free = {} THEN [v |-> V, b |-> 0]
        ELSE [v |-> [V EXCEPT !.bmap = @ \union {Min(free)}, !.data[Min(free)] = BlockOf(Zero)],
              b |-> Min(free)]

\* The block a pointer leads to, or a new one for a pointer that is null.
Located(V, b) == IF b # 0 THEN [v |-> V, b |-> b] ELSE AllocBlock(V)

\* resolve_block with allocate: the volume, the inode in memory and the block, 0 on failure,
\* which may come after the indirect block was allocated.
ResolveDirect(V, fi, l) ==
    LET a == Located(V, fi.ptr[l]) IN [v |-> a.v, fi |-> [fi EXCEPT !.ptr[l] = a.b], b |-> a.b]

ResolveIndirect(V, fi, k) ==
    LET a == Located(V, fi.ind)
        has == [fi EXCEPT !.ind = a.b]
        c == Located(a.v, a.v.data[a.b][k].n)
    IN  IF a.b = 0 THEN [v |-> V, fi |-> fi, b |-> 0]
        ELSE IF c.b = 0 THEN [v |-> a.v, fi |-> has, b |-> 0]
        ELSE [v |-> [c.v EXCEPT !.data[a.b][k].n = c.b], fi |-> has, b |-> c.b]

Resolve(V, fi, l) == IF l < Direct THEN ResolveDirect(V, fi, l) ELSE ResolveIndirect(V, fi, l - Direct)

\* The entries of a directory that its size admits, as positions; what they hold.
EntrySlots(V, d) == {s \in 0 .. V.ino[d].size - 1 : V.ino[d].ptr[s \div Width] # 0}
Entry(V, d, s) == V.data[V.ino[d].ptr[s \div Width]][s % Width]

\* dir_find, and the first empty slot it passes.
Find(V, d, name) == {s \in EntrySlots(V, d) : Entry(V, d, s).n # 0 /\ Entry(V, d, s).name = name}
Empty(V, d) == {s \in EntrySlots(V, d) : Entry(V, d, s).n = 0}

SetEntry(V, d, s, e) == [V EXCEPT !.data[V.ino[d].ptr[s \div Width]][s % Width] = e]

\* osfs2_truncate to 0, the only size it is called with.
Indirect(V, i) ==
    IF V.ino[i].ind = 0 THEN {}
    ELSE {V.ino[i].ind} \union {V.data[V.ino[i].ind][k].n : k \in 0 .. Width - 1}
Held(V, i) == ({V.ino[i].ptr[k] : k \in 0 .. Direct - 1} \union Indirect(V, i)) \ {0}
Truncate(V, i) ==
    [V EXCEPT !.bmap = @ \ Held(V, i), !.ino[i] = NewInode(V.ino[i].type)]

(***************************************************************************)
(* The calls.  walk and walk_parent find directories from the root.        *)
(***************************************************************************)
Dirs == {d \in Inodes : d \in vol.imap /\ vol.ino[d].type = "dir"}
Failed(V) == vol' = V /\ starved' = TRUE /\ UNCHANGED <<opened, razed>>
Succeeded(V) == vol' = V /\ UNCHANGED <<starved, razed>>

\* dir_create_in for a name that does not exist: inode bitmap and inode first, then a slot,
\* growing the directory when it has no empty one.  A failure gives the inode back, but leaves
\* what was written to it.
CreateEntry(d, name, type) ==
    LET free == Inodes \ vol.imap
        i    == Min(free)
        made == [vol EXCEPT !.imap = @ \union {i}, !.ino[i] = NewInode(type)]
        undone(V) == [V EXCEPT !.imap = @ \ {i}]
        gaps == Empty(vol, d)
        s    == IF gaps # {} THEN Min(gaps) ELSE vol.ino[d].size
        page == s \div Width
        a    == Located(made, vol.ino[d].ptr[page])
        dir  == [vol.ino[d] EXCEPT !.size = Max({@, s + 1}), !.ptr[page] = a.b]
    IN  /\ Find(vol, d, name) = {} /\ free # {}
        /\ IF page >= Direct \/ a.b = 0 THEN Failed(undone(made))
           ELSE /\ Succeeded(SetEntry([a.v EXCEPT !.ino[d] = dir], d, s, [n |-> i, name |-> name]))
                /\ opened' = IF type = "file" THEN opened \union {i} ELSE opened

\* The end of osfs2_unlink and osfs2_rmdir: free the blocks, clear the entry, free the inode.
DropEntry(d, s) ==
    LET i == Entry(vol, d, s).n
        cleared == SetEntry(Truncate(vol, i), d, s, Zero)
    IN  Succeeded([cleared EXCEPT !.ino[i] = NewInode("free"), !.imap = @ \ {i}])

Unlink(d, name) ==
    /\ \E s \in Find(vol, d, name) : vol.ino[Entry(vol, d, s).n].type # "dir" /\ DropEntry(d, s)
    /\ UNCHANGED opened

Rmdir(d, name) ==
    /\ \E s \in Find(vol, d, name) :
          LET i == Entry(vol, d, s).n
          IN  /\ vol.ino[i].type = "dir"
              /\ \A t \in 0 .. vol.ino[i].size - 1 :
                    vol.ino[i].ptr[t \div Width] # 0 /\ Entry(vol, i, t).n = 0
              /\ DropEntry(d, s)
    /\ UNCHANGED opened

\* osfs2_op_open with O_TRUNC of a name that exists, file or directory.
OpenTrunc(d, name) ==
    /\ \E s \in Find(vol, d, name) :
          LET i == Entry(vol, d, s).n
          IN  /\ vol' = Truncate(vol, i)
              /\ razed' = (razed \/ /\ vol.ino[i].type = "dir"
                                    /\ \E t \in EntrySlots(vol, i) : Entry(vol, i, t).n # 0)
    /\ UNCHANGED <<opened, starved>>

\* osfs2_write of one or two blocks through a descriptor, which holds nothing but the number
\* of the inode: out of space in the first block nothing is written back, in the second the
\* first is kept.
Write(i, l, two) ==
    LET put(r) == [r.v EXCEPT !.data[r.b] = BlockOf(Junk)]
        r1   == Resolve(vol, vol.ino[i], l)
        r2   == IF two THEN Resolve(put(r1), r1.fi, l + 1) ELSE r1
        part == two /\ r2.b = 0
        end  == IF two /\ r2.b # 0 THEN l + 2 ELSE l + 1
        V    == IF part THEN r2.v ELSE put(r2)
        done == [V EXCEPT !.ino[i] = [r2.fi EXCEPT !.size = Max({@, end})]]
    IN  /\ i \in opened /\ vol.ino[i].type = "file"
        /\ IF r1.b = 0 THEN Failed(r1.v)
           ELSE IF part THEN Failed(done) ELSE Succeeded(done) /\ UNCHANGED opened

MaxFileBlocks == Direct + Width

FsNext ==
    \/ \E d \in Dirs, name \in Names :
          \/ \E type \in {"file", "dir"} : CreateEntry(d, name, type)
          \/ Unlink(d, name) \/ Rmdir(d, name) \/ OpenTrunc(d, name)
    \/ \E i \in Inodes, l \in 0 .. MaxFileBlocks - 1, two \in BOOLEAN :
          (two => l + 1 < MaxFileBlocks) /\ Write(i, l, two)

FsSpec == FsInit /\ [][FsNext]_fsVars

(***************************************************************************)
(* Properties.                                                             *)
(***************************************************************************)
FsTypeOK ==
    /\ vol.imap \subseteq Inodes /\ vol.bmap \subseteq Blocks
    /\ \A i \in Inodes :
          /\ vol.ino[i].type \in {"free", "file", "dir"}
          /\ vol.ino[i].size \in 0 .. IF vol.ino[i].type = "dir" THEN Direct * Width ELSE MaxFileBlocks
          /\ \A k \in 0 .. Direct - 1 : vol.ino[i].ptr[k] \in Blocks \union {0}
    /\ Root \in vol.imap /\ opened \subseteq Inodes

\* The directories form a tree over the inodes in use: every entry leads to one, and each of
\* them but the root has exactly one entry, whatever calls ran out of space before, and
\* although freed blocks keep what was in them.  (Not once a directory was truncated.)
Entries == {e \in Dirs \X (0 .. Direct * Width - 1) :
                e[2] \in EntrySlots(vol, e[1]) /\ Entry(vol, e[1], e[2]).n # 0}
TreeIsExact ==
    ~razed =>
        /\ \A e \in Entries : Entry(vol, e[1], e[2]).n \in vol.imap \ {Root}
                              /\ vol.ino[Entry(vol, e[1], e[2]).n].type # "free"
        /\ \A i \in vol.imap \ {Root} :
              Cardinality({e \in Entries : Entry(vol, e[1], e[2]).n = i}) = 1

\* A block belongs to one file or directory, in one place, and is marked as used; a block that
\* belongs to none is free, unless some call ran out of space half-way.
RefAt(p) ==
    LET f == vol.ino[p[1]]
        k == p[2]
    IN  IF k < Direct THEN f.ptr[k]
        ELSE IF k = Direct \/ f.ind = 0 THEN f.ind
        ELSE vol.data[f.ind][k - Direct - 1].n
Refs == {p \in Inodes \X (0 .. Direct + Width) : RefAt(p) # 0}
BlocksExact ==
    LET held == {RefAt(p) : p \in Refs}
    IN  /\ \A p, q \in Refs : RefAt(p) = RefAt(q) => p = q
        /\ held \subseteq vol.bmap
        /\ held = vol.bmap \/ starved

\* The volume is sound: names, inodes and blocks agree.
VolumeSound == FsTypeOK /\ TreeIsExact /\ BlocksExact
=============================================================================
