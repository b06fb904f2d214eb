------------------------------- MODULE TmpFs -------------------------------
(***************************************************************************)
(* The files of /tmp (core/tmpfs.c) as system calls use them: the open of  *)
(* core/vfs.c, its read, lseek and close, and sys_write, which hands       *)
(* tmpfs_write one chunk at a time.  A buffer from kmalloc holds junk.     *)
(***************************************************************************)
EXTENDS Integers, Sequences, FiniteSets

CONSTANTS TNames, TSlots,
          TFds,        \* descriptors, of all processes
          TValues, Blank, Garbage,
          MaxSize, InitialCap,  \* TMPFS_MAX_FILE_SIZE, TMPFS_INITIAL_CAP
          Word,        \* 2^32
          Seeks,       \* where lseek goes
          NoFile, NoFd, Dead,  \* of NamedFiles
          StaleUse     \* whether a descriptor is used after its file was unlinked

ASSUME TmpFsAssumption == /\ InitialCap \in Nat \ {0} /\ MaxSize \in Nat /\ MaxSize >= InitialCap
                          /\ TSlots \subseteq Nat \ {0} /\ Word \in Nat /\ Word > MaxSize
                          /\ Seeks \subseteq Nat /\ StaleUse \in BOOLEAN

VARIABLES slots,   \* g_files
          tfds,    \* ramfs_index and offset of each descriptor
          orphan,  \* history: descriptors whose file was unlinked
          readout  \* history: what the last call read

tmpVars == <<slots, tfds, orphan, readout>>

Unnamed == "unnamed"
ASSUME NamesAssumption == Unnamed \notin TNames

Shut == [slot |-> 0, off |-> 0]
NoEntry == [name |-> Unnamed, data |-> <<>>, size |-> 0]

TmpInit == /\ slots = [s \in TSlots |-> NoEntry] /\ tfds = [f \in TFds |-> Shut]
           /\ orphan = {} /\ readout = <<>>

Taken(s) == slots[s].name # Unnamed
Lookup(n) == {s \in TSlots : slots[s].name = n}
Least(S) == CHOOSE s \in S : \A t \in S : s <= t
Opened(f) == tfds[f] # Shut /\ (StaleUse \/ f \notin orphan)

\* tmpfs_op_open: O_CREAT truncates what is there unless O_APPEND is given, and makes what is not
\* there in the first free slot, if kmalloc has room.
OpenFile(n, f, create, append) ==
    LET free == {s \in TSlots : ~Taken(s)}
        s == IF Lookup(n) # {} THEN Least(Lookup(n)) ELSE Least(free)
        junk == [i \in 1 .. InitialCap |-> Garbage]
    IN  /\ tfds[f] = Shut
        /\ IF Lookup(n) # {}
           THEN slots' = IF create /\ ~append THEN [slots EXCEPT ![s].size = 0] ELSE slots
           ELSE create /\ free # {} /\ slots' = [slots EXCEPT ![s] = [name |-> n, data |-> junk, size |-> 0]]
        /\ tfds' = [tfds EXCEPT ![f] = [slot |-> s, off |-> IF append THEN slots'[s].size ELSE 0]]
        /\ readout' = <<>> /\ UNCHANGED orphan

\* Mutant: the bytes between the end and the offset keep what the buffer held.
Filled_Not(data, size, off) == data

\* A write past the end clears what is in between.
Filled(data, size, off) == [i \in DOMAIN data |-> IF i \in size + 1 .. off THEN Blank ELSE data[i]]

\* tmpfs_grow_to: the capacity doubles, up to the limit; only the bytes in use are copied.
Doubled(cap, need) ==
    LET grow[c \in 1 .. 2 * MaxSize] ==
            IF c >= need THEN c ELSE IF c >= MaxSize \div 2 THEN MaxSize ELSE grow[2 * c]
    IN  grow[cap]

Roomy(file, need) ==
    IF need <= Len(file.data) THEN file.data
    ELSE [i \in 1 .. Doubled(Len(file.data), need) |-> IF i <= file.size THEN file.data[i] ELSE Garbage]

\* tmpfs_write of one chunk at the offset, which is cut to 32 bits.
WriteChunk(f, v, k) ==
    LET s == tfds[f].slot
        off == tfds[f].off % Word
        room == Filled(Roomy(slots[s], off + k), slots[s].size, off)
        end == IF off + k > slots[s].size THEN off + k ELSE slots[s].size
    IN  /\ Opened(f) /\ Taken(s) /\ off + k <= MaxSize
        /\ slots' = [slots EXCEPT ![s].data = [i \in DOMAIN room |-> IF i \in off + 1 .. off + k THEN v ELSE room[i]],
                                  ![s].size = end]
        /\ tfds' = [tfds EXCEPT ![f].off = @ + k]
        /\ readout' = <<>> /\ UNCHANGED orphan

ReadFile(f) ==
    LET s == tfds[f].slot
    IN  /\ Opened(f) /\ Taken(s)
        /\ readout' = SubSeq(slots[s].data, tfds[f].off + 1, slots[s].size)
        /\ tfds' = [tfds EXCEPT ![f].off = @ + Len(readout')]
        /\ UNCHANGED <<slots, orphan>>

SeekFile(f) ==
    /\ Opened(f) /\ readout' = <<>>
    /\ \E p \in Seeks \union {slots[tfds[f].slot].size} : tfds' = [tfds EXCEPT ![f].off = p]
    /\ UNCHANGED <<slots, orphan>>

CloseFile(f) ==
    /\ tfds[f] # Shut /\ tfds' = [tfds EXCEPT ![f] = Shut] /\ orphan' = orphan \ {f}
    /\ readout' = <<>> /\ UNCHANGED slots

\* tmpfs_unlink asks nobody whether the file is open.
UnlinkFile(n) ==
    /\ Lookup(n) # {} /\ readout' = <<>>
    /\ slots' = [s \in TSlots |-> IF s \in Lookup(n) THEN NoEntry ELSE slots[s]]
    /\ orphan' = orphan \union {f \in TFds : tfds[f] # Shut /\ tfds[f].slot \in Lookup(n)}
    /\ UNCHANGED tfds

\* ENOENT, ENOSPC, ENOMEM or EBADF: nothing was changed.
Refused == readout # <<>> /\ readout' = <<>> /\ UNCHANGED <<slots, tfds, orphan>>

TmpNext ==
    \/ \E n \in TNames : UnlinkFile(n) \/ \E f \in TFds, c, a \in BOOLEAN : OpenFile(n, f, c, a)
    \/ \E f \in TFds : \/ ReadFile(f) \/ SeekFile(f) \/ CloseFile(f)
                       \/ \E v \in TValues, k \in 1 .. 2 : WriteChunk(f, v, k)
    \/ Refused

TmpSpec == TmpInit /\ [][TmpNext]_tmpVars

(***************************************************************************)
(* Properties.                                                             *)
(***************************************************************************)
\* No file, no descriptor and a dead descriptor are neither a file nor a descriptor.
ASSUME StoreAssumption ==
    /\ NoFile \notin Seq(TValues \union {Blank, Garbage}) /\ NoFd # Dead
    /\ \A n \in TNames, p \in 0 .. Word : [name |-> n, off |-> p] \notin {NoFd, Dead}

Store == INSTANCE NamedFiles WITH
    Names <- TNames, Fds <- TFds, Bytes <- TValues, Zero <- Blank,
    Positions <- 0 .. Word + MaxSize,
    files <- [n \in TNames |->
                IF Lookup(n) = {} THEN NoFile
                ELSE SubSeq(slots[Least(Lookup(n))].data, 1, slots[Least(Lookup(n))].size)],
    handles <- [f \in TFds |->
                  IF tfds[f] = Shut THEN NoFd ELSE IF f \in orphan THEN Dead
                  ELSE [name |-> slots[tfds[f].slot].name, off |-> tfds[f].off]],
    got <- readout

\* tmpfs.c: a write past the end is zero-filled "so reads between the old size and the new offset
\* return predictable bytes"; through growth, truncation, and slots that are used again, /tmp is a
\* directory of files, as long as offsets fit 32 bits and no descriptor outlives its file.
ImplementsNamedFiles == Store!Spec
=============================================================================
