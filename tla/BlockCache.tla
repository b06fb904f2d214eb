----------------------------- MODULE BlockCache -----------------------------
(***************************************************************************)
(* kernel/core/osfs2_cache.c: the write-back cache between OSFS-2 and the  *)
(* journal, which is taken here as what it promises (AtomicDisk).          *)
(*                                                                         *)
(* Two callers share it: system calls (osfs2_read, osfs2_write, fsync) and *)
(* the background flusher thread of main.c.  A call that needs the disk is *)
(* split where the disk is waited for.                                     *)
(*                                                                         *)
(* osfs2_cache.h asks for one caller at a time.  Nothing in the code keeps *)
(* a system call from preempting the flusher, a kernel thread that runs    *)
(* with interrupts enabled: Preemptible says whether that happens.  The    *)
(* preempting call is kept from starting a commit of its own while one is  *)
(* in progress, and the data of a batch is what its slots held when the    *)
(* commit began.                                                           *)
(***************************************************************************)
EXTENDS Batches, FiniteSets, SequencesExt

CONSTANTS NoBlock,      \* "no block": blk of a slot whose valid is 0
          Preemptible,  \* may a system call run in the middle of a flush?
          IoErrors      \* may the disk report errors?

ASSUME CacheAssumption ==
    /\ NoBlock \notin Block
    /\ Value # {}
    /\ Preemptible \in BOOLEAN
    /\ IoErrors \in BOOLEAN

\* SLOTS is the number of journal slots (osfs2_cache_flush).
Slot == 1..MaxBlocks
Caller == {"syscall", "flusher"}

VARIABLES slot,     \* g_slots: blk, val (its data) and dirty
          lru,      \* the valid slots by last_used, the oldest first
          op,       \* the call in progress of each caller
          durable, begun, cur, st, ret,  \* the disk
          view,     \* history: what the callers last wrote to each block
          allowed   \* history: what each block may hold, since the last flush that returned 0

disk == <<durable, begun, cur, st, ret>>
vars == <<slot, lru, op, disk, view, allowed>>

Disk == INSTANCE AtomicDisk

Idle == [pc |-> "idle"]
Invalid == [blk |-> NoBlock, val |-> CHOOSE v \in Value : TRUE, dirty |-> FALSE]

Valid(i) == slot[i].blk # NoBlock
Dirty(i) == Valid(i) /\ slot[i].dirty
DirtySlots == { i \in Slot : Dirty(i) }

\* find_slot
Holders(b) == { i \in Slot : slot[i].blk = b }

\* pick_victim: the first invalid slot, else the least recently used one.
Victim ==
    IF \E i \in Slot : ~Valid(i)
    THEN CHOOSE i \in Slot : ~Valid(i) /\ \A j \in Slot : j < i => Valid(j)
    ELSE Head(lru)

\* The slots by age, without slot i.
LruWithout(i) ==
    IF i \in Range(lru)
    THEN LET k == CHOOSE k \in DOMAIN lru : lru[k] = i
         IN  [n \in 1 .. Len(lru) - 1 |-> lru[IF n < k THEN n ELSE n + 1]]
    ELSE lru

\* g_slots[i].last_used = ++g_clock
Touch(i) == lru' = Append(LruWithout(i), i)

\* The dirty slots of a commit, in slot order, as osfs2_journal_commit's arguments.
BatchOfSlots(S) ==
    LET order == SetToSortSeq(S, <)
    IN  [dest |-> [n \in 1..Cardinality(S) |-> slot[order[n]].blk],
         data |-> [b \in { slot[i].blk : i \in S } |->
                      slot[CHOOSE i \in S : slot[i].blk = b].val]]

\* May caller p take a step?  The flusher waits for a system call to end.
MayRun(p) ==
    /\ st # "down"
    /\ IF p = "flusher" THEN op["syscall"] = Idle
       ELSE Preemptible \/ op["flusher"] = Idle

\* No other commit is in progress.
DiskFree == st = "idle" /\ \A p \in Caller : op[p].pc \notin {"evict", "flush"}

Init ==
    /\ Disk!Init
    /\ slot = [i \in Slot |-> Invalid]
    /\ lru = <<>>
    /\ op = [p \in Caller |-> Idle]
    /\ view = durable
    /\ allowed = [b \in Block |-> {durable[b]}]

-----------------------------------------------------------------------------
\* The caller wrote v to b: the cache has it, the disk may not.
Wrote(b, v) ==
    /\ view' = [view EXCEPT ![b] = v]
    /\ allowed' = [allowed EXCEPT ![b] = @ \union {v}]

\* osfs2_cache_read or osfs2_cache_write of a block that is cached.
ReadHit(p, b) ==
    /\ MayRun(p) /\ op[p] = Idle
    /\ \E i \in Holders(b) : Touch(i)
    /\ UNCHANGED <<slot, op, disk, view, allowed>>

WriteHit(p, b, v) ==
    /\ MayRun(p) /\ op[p] = Idle
    /\ \E i \in Holders(b) :
           /\ slot' = [slot EXCEPT ![i] = [@ EXCEPT !.val = v, !.dirty = TRUE]]
           /\ Touch(i)
    /\ Wrote(b, v)
    /\ UNCHANGED <<op, disk>>

\* Mutant: the victim is reused without flush_slot.
Miss_NoFlush(p, call) ==
    /\ MayRun(p) /\ op[p] = Idle
    /\ Holders(call.blk) = {}
    /\ op' = [op EXCEPT ![p] = [pc |-> "take", i |-> Victim, call |-> call]]
    /\ UNCHANGED <<slot, lru, disk, view, allowed>>

\* A miss: take the victim, after flush_slot when it is dirty.
Miss(p, call) ==
    /\ MayRun(p) /\ op[p] = Idle
    /\ Holders(call.blk) = {}
    /\ LET i == Victim IN
       IF Dirty(i)
       THEN /\ DiskFree
            /\ Disk!Begin(BatchOfSlots({i}))
            /\ op' = [op EXCEPT ![p] = [pc |-> "evict", i |-> i, call |-> call]]
       ELSE /\ op' = [op EXCEPT ![p] = [pc |-> "take", i |-> i, call |-> call]]
            /\ UNCHANGED disk
    /\ UNCHANGED <<slot, lru, view, allowed>>

ReadMiss(p, b) == Miss(p, [blk |-> b, kind |-> "read"])
WriteMiss(p, b, v) == Miss(p, [blk |-> b, val |-> v, kind |-> "write"])

\* flush_slot returns to the miss: 0 goes on, -1 is the caller's error.
Evicted(p) ==
    /\ MayRun(p) /\ op[p].pc = "evict"
    /\ st = "idle"
    /\ IF ret = "ok"
       THEN /\ slot' = [slot EXCEPT ![op[p].i] = [@ EXCEPT !.dirty = FALSE]]
            /\ op' = [op EXCEPT ![p] = [@ EXCEPT !.pc = "take"]]
       ELSE /\ op' = [op EXCEPT ![p] = Idle]
            /\ UNCHANGED slot
    /\ UNCHANGED <<lru, disk, view, allowed>>

\* osfs2_cache_read fills the victim from the disk: raw_read.
Fill(p) ==
    /\ MayRun(p) /\ op[p].pc = "take" /\ op[p].call.kind = "read"
    /\ LET i == op[p].i
           b == op[p].call.blk
       IN  \/ /\ slot' = [slot EXCEPT ![i] = [blk |-> b, val |-> durable[b], dirty |-> FALSE]]
              /\ Touch(i)
           \/ /\ IoErrors
              /\ slot' = [slot EXCEPT ![i] = Invalid]
              /\ lru' = LruWithout(i)
    /\ op' = [op EXCEPT ![p] = Idle]
    /\ UNCHANGED <<disk, view, allowed>>

\* osfs2_cache_write takes the victim without reading the disk.
Install(p) ==
    /\ MayRun(p) /\ op[p].pc = "take" /\ op[p].call.kind = "write"
    /\ LET i == op[p].i
           c == op[p].call
       IN  /\ slot' = [slot EXCEPT ![i] = [blk |-> c.blk, val |-> c.val, dirty |-> TRUE]]
           /\ Touch(i)
           /\ Wrote(c.blk, c.val)
    /\ op' = [op EXCEPT ![p] = Idle]
    /\ UNCHANGED disk

\* Mutant: the loop over the slots stops before the last.
Flush_OneShort(p) ==
    LET S == DirtySlots \ {MaxBlocks} IN
    /\ MayRun(p) /\ op[p] = Idle
    /\ S # {}
    /\ DiskFree
    /\ Disk!Begin(BatchOfSlots(S))
    /\ op' = [op EXCEPT ![p] = [pc |-> "flush", map |-> S, seen |-> view]]
    /\ UNCHANGED <<slot, lru, view, allowed>>

\* osfs2_cache_flush: every dirty slot in one commit.
Flush(p) ==
    /\ MayRun(p) /\ op[p] = Idle
    /\ DirtySlots # {}
    /\ DiskFree
    /\ Disk!Begin(BatchOfSlots(DirtySlots))
    /\ op' = [op EXCEPT ![p] = [pc |-> "flush", map |-> DirtySlots, seen |-> view]]
    /\ UNCHANGED <<slot, lru, view, allowed>>

\* The commit is back: on 0 the slots of the batch become clean, whatever
\* they hold by now; on -1 they stay dirty.
Flushed(p) ==
    /\ MayRun(p) /\ op[p].pc = "flush"
    /\ st = "idle"
    /\ IF ret = "ok"
       THEN /\ slot' = [i \in Slot |-> IF i \in op[p].map
                                       THEN [slot[i] EXCEPT !.dirty = FALSE]
                                       ELSE slot[i]]
            /\ allowed' = [b \in Block |-> {op[p].seen[b], view[b]}]
       ELSE UNCHANGED <<slot, allowed>>
    /\ op' = [op EXCEPT ![p] = Idle]
    /\ UNCHANGED <<lru, disk, view>>

\* The disk works on the commit in progress.
DiskStep ==
    /\ \/ Disk!Land
       \/ Disk!Return("ok")
       \/ IoErrors /\ Disk!Return("err")
    /\ UNCHANGED <<slot, lru, op, view, allowed>>

\* The machine stops: the cache and the calls are gone, what was promised
\* is not.
Crash ==
    /\ Disk!Crash
    /\ slot' = [i \in Slot |-> Invalid]
    /\ lru' = <<>>
    /\ op' = [p \in Caller |-> Idle]
    /\ view' = durable'
    /\ UNCHANGED allowed

\* The next boot goes on from what the recovery left, and from nothing else.
Mount ==
    /\ Disk!Mount
    /\ allowed' = [b \in Block |-> {durable[b]}]
    /\ UNCHANGED <<slot, lru, op, view>>

Next ==
    \/ \E b \in Block : ReadHit("syscall", b) \/ ReadMiss("syscall", b)
    \/ \E b \in Block, v \in Value : WriteHit("syscall", b, v) \/ WriteMiss("syscall", b, v)
    \/ Evicted("syscall") \/ Fill("syscall") \/ Install("syscall")
    \/ \E p \in Caller : Flush(p) \/ Flushed(p)
    \/ DiskStep \/ Crash \/ Mount

Spec == Init /\ [][Next]_vars

(* The calls in progress go on, the disk answers, the machine is switched  *)
(* on again, and the flusher, which wakes every five seconds and is queued *)
(* like any thread, gets its turn between two system calls.                *)
Fairness ==
    /\ WF_vars(Evicted("syscall") \/ Fill("syscall") \/ Install("syscall"))
    /\ \A p \in Caller : WF_vars(Flushed(p))
    /\ SF_vars(Flush("flusher"))
    /\ WF_vars(DiskStep)
    /\ WF_vars(Mount)

FairSpec == Spec /\ Fairness
-----------------------------------------------------------------------------
SlotType == [blk : Block \union {NoBlock}, val : Value, dirty : BOOLEAN]

TypeOK ==
    /\ slot \in [Slot -> SlotType]
    /\ lru \in Seq(Slot) /\ IsInjective(lru)
    /\ Range(lru) = { i \in Slot : Valid(i) }
    /\ \A p \in Caller : op[p].pc \in {"idle", "evict", "take", "flush"}
    /\ durable \in [Block -> Value]
    /\ st \in {"idle", "busy", "landed", "down"}
    /\ view \in [Block -> Value]
    /\ allowed \in [Block -> SUBSET Value]

(* osfs2_cache.h: "we never silently drop dirty data".  A read, from the   *)
(* slot or from the disk, returns what was last written to the block.      *)
NoLostWrite ==
    st # "down" =>
        \A b \in Block :
            view[b] = IF Holders(b) = {} THEN durable[b]
                      ELSE slot[CHOOSE i \in Holders(b) : TRUE].val

(* fsync: once osfs2_cache_flush has returned 0, the disk holds what was   *)
(* written by then or since, also when the machine stops at any moment and *)
(* is started again: no older contents, not even through a batch whose     *)
(* commit failed earlier, and nothing that was never written.              *)
FlushedStays == \A b \in Block : durable[b] \in allowed[b]

(* A clean slot is a copy of the disk, so it may be dropped.  A commit that *)
(* landed is not yet known to the slots it came from.                      *)
CleanIsOnDisk ==
    \A i \in Slot : Valid(i) /\ ~Dirty(i) => slot[i].val = durable[slot[i].blk]

(* Whatever is evicted, flushed, fails or crashes, the cache shows what was *)
(* written, and what it may forget is on the disk.                         *)
CacheIsFaithful == TypeOK /\ NoLostWrite /\ CleanIsOnDisk

(* main.c: the flusher "bounds the risk window".  What a caller wrote      *)
(* reaches the disk without any fsync, unless it is overwritten (or lost   *)
(* in a crash) first.                                                      *)
ReachesDisk ==
    \A b \in Block, v \in Value :
        view[b] = v ~> (durable[b] = v \/ view[b] # v)
=============================================================================
