--------------------------- MODULE StorageProofs ---------------------------
(***************************************************************************)
(* The file system above the journal, for any parameters.  The block cache *)
(* loses nothing, for any number of blocks, contents and slots, with       *)
(* errors and crashes at any point, as long as the calls and the flusher   *)
(* run one at a time, as osfs2_cache.h asks.  The volume stays sound, for  *)
(* any numbers of inodes, blocks, pointers and entries of a block.         *)
(* The virtio drivers share their queues with their devices soundly, for   *)
(* any sizes of the queues and any slots.  /tmp is a directory of files,   *)
(* for any names, slots, descriptors and limits.                           *)
(***************************************************************************)
EXTENDS BlockCache, Osfs2, TmpFs, Virtio, FiniteSetTheorems, SequenceTheorems, WellFoundedInduction, TLAPS

(***************************************************************************)
(* The block cache.                                                        *)
(***************************************************************************)
\* The callers of osfs2_journal_commit, and the slots they gave it.
Busy(p) == op[p].pc \in {"evict", "flush"}
Batched(p) == IF op[p].pc = "evict" THEN {op[p].i} ELSE op[p].map

Calls == [blk : Block, kind : {"read"}] \union [blk : Block, val : Value, kind : {"write"}]
CallStates == {Idle} \union [pc : {"evict", "take"}, i : Slot, call : Calls]
              \union [pc : {"flush"}, map : SUBSET Slot, seen : [Block -> Value]]

\* One caller at a time, and the flusher only flushes.
OpInv ==
    /\ op \in [Caller -> CallStates]
    /\ op["flusher"].pc \in {"idle", "flush"}
    /\ op["syscall"] = Idle \/ op["flusher"] = Idle

\* A block is in one slot at most.
OneHolder == \A i, j \in Slot : Valid(i) /\ slot[i].blk = slot[j].blk => i = j

\* What the callers know stays true while they wait for the disk.
CallInv ==
    \A p \in Caller :
       /\ op[p].pc \in {"evict", "take"} => Holders(op[p].call.blk) = {}
       /\ op[p].pc = "evict" => Dirty(op[p].i)
       /\ op[p].pc = "take" => ~Dirty(op[p].i)
       /\ op[p].pc = "flush" => op[p].map = DirtySlots /\ op[p].seen = view

\* The batch on its way to the disk is what its slots hold.
DiskInv ==
    /\ st = "down" => /\ \A i \in Slot : ~Valid(i)
                      /\ \A p \in Caller : op[p] = Idle
                      /\ view = durable /\ begun = {}
    /\ st \in {"busy", "landed"} => \E p \in Caller : Busy(p)
    /\ st = "busy" => cur \in begun
    /\ \A p \in Caller : Busy(p) =>
          /\ st = "busy" => /\ DOMAIN cur.data = {slot[i].blk : i \in Batched(p)}
                            /\ \A i \in Batched(p) : cur.data[slot[i].blk] = slot[i].val
          /\ st = "landed" \/ (st = "idle" /\ ret = "ok") =>
                /\ begun = {}
                /\ \A i \in Batched(p) : durable[slot[i].blk] = slot[i].val

\* A crash may bring back what a caller wrote since the last flush, nothing older.
BegunInv ==
    /\ \A bt \in begun, b \in Block : b \in DOMAIN bt.data => bt.data[b] \in allowed[b]
    /\ \A b \in Block : view[b] \in allowed[b]

\* NoLostWrite, said of every holder.
Shown ==
    \A b \in Block : /\ \A i \in Slot : slot[i].blk = b => slot[i].val = view[b]
                     /\ (\A i \in Slot : slot[i].blk # b) => durable[b] = view[b]

CacheInv ==
    TypeOK /\ OpInv /\ OneHolder /\ CallInv /\ DiskInv /\ BegunInv /\ Shown /\ CleanIsOnDisk /\ FlushedStays

\* A nonempty set of numbers has a least one.
LEMMA LeastExists ==
  ASSUME NEW T, T \subseteq Nat, T # {}
  PROVE  \E x \in T : \A y \in T : ~(y < x)
<1>1. PICK x \in T : \A y \in T : ~(<<y, x>> \in OpToRel(<, Nat))
  BY NatLessThanWellFounded, WFMin
<1>2. \A y \in T : y < x => <<y, x>> \in OpToRel(<, Nat)
  BY DEF OpToRel
<1>3. QED
  BY <1>1, <1>2

\* What the age order without a slot, and with a slot at its end, is.
LEMMA WithoutFacts ==
  ASSUME lru \in Seq(Slot), IsInjective(lru), NEW i \in Slot
  PROVE  /\ LruWithout(i) \in Seq(Slot) /\ IsInjective(LruWithout(i))
         /\ Range(LruWithout(i)) = Range(lru) \ {i}
<1>1. CASE i \notin Range(lru)
  BY <1>1 DEF LruWithout
<1>2. CASE i \in Range(lru)
  <2> DEFINE k == CHOOSE k \in DOMAIN lru : lru[k] = i
             w == [n \in 1 .. Len(lru) - 1 |-> lru[IF n < k THEN n ELSE n + 1]]
  <2>1. k \in DOMAIN lru /\ lru[k] = i
    BY <1>2 DEF Range
  <2>2. DOMAIN lru = 1 .. Len(lru) /\ Len(lru) \in Nat /\ \A n \in 1 .. Len(lru) : lru[n] \in Slot
    OBVIOUS
  <2> HIDE DEF k
  <2>3. Len(lru) - 1 \in Nat /\ \A n \in 1 .. Len(lru) - 1 : w[n] \in Slot
    BY <2>1, <2>2
  <2>4. w \in Seq(Slot)
    BY <2>3, IsASeq
  <2>5. IsInjective(w)
    BY <2>1, <2>2 DEF IsInjective
  <2>6. ASSUME NEW n \in 1 .. Len(lru), n # k PROVE lru[n] \in Range(w)
    <3>1. CASE n < k
      BY <2>1, <2>2, <2>6, <3>1 DEF Range
    <3>2. CASE n > k
      <4>1. n - 1 \in 1 .. Len(lru) - 1 /\ w[n - 1] = lru[n]
        BY <2>1, <2>2, <2>6, <3>2
      <4>2. QED
        BY <4>1 DEF Range
    <3>3. QED
      BY <2>1, <2>2, <2>6, <3>1, <3>2
  <2>7. ASSUME NEW n \in 1 .. Len(lru) - 1 PROVE w[n] \in Range(lru) \ {i}
    BY <2>1, <2>2 DEF Range, IsInjective
  <2>8. Range(w) = Range(lru) \ {i}
    <3>1. DOMAIN w = 1 .. Len(lru) - 1
      OBVIOUS
    <3> HIDE DEF w
    <3>2. ASSUME NEW x \in Range(lru) \ {i} PROVE x \in Range(w)
      <4>1. PICK n \in 1 .. Len(lru) : x = lru[n]
        BY <2>2 DEF Range
      <4>2. QED
        BY <2>1, <2>6, <4>1
    <3>3. ASSUME NEW x \in Range(w) PROVE x \in Range(lru) \ {i}
      <4>1. PICK n \in 1 .. Len(lru) - 1 : x = w[n]
        BY <3>1 DEF Range
      <4>2. QED
        BY <2>7, <4>1
    <3>4. QED
      BY <3>2, <3>3
  <2>9. LruWithout(i) = w
    BY <1>2 DEF LruWithout, k
  <2>10. QED
    BY <2>4, <2>5, <2>8, <2>9
<1>3. QED
  BY <1>1, <1>2

LEMMA TouchFacts ==
  ASSUME lru \in Seq(Slot), IsInjective(lru), NEW i \in Slot, Touch(i)
  PROVE  lru' \in Seq(Slot) /\ IsInjective(lru') /\ Range(lru') = Range(lru) \union {i}
<1> DEFINE w == LruWithout(i)
<1>1. w \in Seq(Slot) /\ IsInjective(w) /\ Range(w) = Range(lru) \ {i}
  BY WithoutFacts
<1>2. lru' = Append(w, i)
  BY DEF Touch
<1> HIDE DEF w
<1>3. /\ lru' \in Seq(Slot) /\ Len(lru') = Len(w) + 1
      /\ \A n \in 1 .. Len(w) : lru'[n] = w[n]
      /\ lru'[Len(w) + 1] = i
  BY <1>1, <1>2, AppendProperties
<1>4. DOMAIN w = 1 .. Len(w) /\ DOMAIN lru' = 1 .. Len(w) + 1 /\ Len(w) \in Nat
  BY <1>1, <1>3
<1>5. \A n \in 1 .. Len(w) : w[n] # i
  BY <1>1, <1>4 DEF Range
<1>6. IsInjective(lru')
  BY <1>1, <1>3, <1>4, <1>5 DEF IsInjective
<1>7. Range(lru') = Range(w) \union {i}
  BY <1>3, <1>4 DEF Range
<1>8. QED
  BY <1>1, <1>3, <1>6, <1>7

\* pick_victim returns a slot.
LEMMA VictimIsSlot ==
  ASSUME TypeOK
  PROVE  Victim \in Slot
<1>1. CASE \E i \in Slot : ~Valid(i)
  <2> DEFINE T == {i \in Slot : ~Valid(i)}
  <2>1. PICK x \in T : \A y \in T : ~(y < x)
    <3>1. T # {}
      BY <1>1
    <3>2. T \subseteq Nat
      BY DEF Slot
    <3> HIDE DEF T
    <3>3. QED
      BY <3>1, <3>2, LeastExists
  <2>2. \E i \in Slot : ~Valid(i) /\ \A j \in Slot : j < i => Valid(j)
    BY <2>1
  <2>3. QED
    BY <1>1, <2>2 DEF Victim
<1>2. CASE \A i \in Slot : Valid(i)
  <2>1. 1 \in Slot
    BY BatchAssumption DEF Slot
  <2>2. lru # <<>>
    BY <1>2, <2>1 DEF TypeOK, Range
  <2>3. Head(lru) \in Slot
    BY <2>2, HeadTailProperties DEF TypeOK
  <2>4. QED
    BY <1>2, <2>3 DEF Victim
<1>3. QED
  BY <1>1, <1>2

\* The data of a commit, block by block.
LEMMA BatchData ==
  ASSUME OneHolder, NEW S, S \subseteq {i \in Slot : Valid(i)}
  PROVE  /\ DOMAIN BatchOfSlots(S).data = {slot[i].blk : i \in S}
         /\ \A i \in S : BatchOfSlots(S).data[slot[i].blk] = slot[i].val
<1> DEFINE data == [b \in {slot[i].blk : i \in S} |-> slot[CHOOSE i \in S : slot[i].blk = b].val]
<1>1. BatchOfSlots(S).data = data
  BY DEF BatchOfSlots
<1>2. ASSUME NEW i \in S PROVE data[slot[i].blk] = slot[i].val
  <2>1. \A j \in S : slot[j].blk = slot[i].blk => j = i
    BY DEF OneHolder
  <2>2. (CHOOSE j \in S : slot[j].blk = slot[i].blk) = i
    BY <2>1
  <2>3. QED
    BY <2>2
<1>3. QED
  BY <1>1, <1>2

\* Only one caller is in a call, and a caller that starts one is alone with the disk at rest.
LEMMA Alone ==
  ASSUME CacheInv, ~Preemptible, NEW p \in Caller, MayRun(p), op[p] = Idle
  PROVE  (\A q \in Caller : op[q] = Idle /\ op[q].pc = "idle") /\ st = "idle"
<1>1. \A q \in Caller : op[q] = Idle
  BY DEF MayRun, Caller
<1>2. \A q \in Caller : op[q].pc = "idle"
  BY <1>1 DEF Idle
<1>3. st # "down" /\ st \notin {"busy", "landed"}
  BY <1>2 DEF MayRun, CacheInv, DiskInv, Busy
<1>4. QED
  BY <1>1, <1>2, <1>3 DEF CacheInv, TypeOK

LEMMA HolderIsValid == \A b \in Block : \A i \in Slot : slot[i].blk = b => Valid(i)
BY CacheAssumption DEF Valid

\* osfs2_cache_read of a cached block moves its slot to the end of the age order.
LEMMA ReadHitKeeps ==
  ASSUME CacheInv, ~Preemptible, NEW b \in Block, ReadHit("syscall", b)
  PROVE  CacheInv'
<1>1. UNCHANGED <<slot, op, durable, begun, cur, st, ret, view, allowed>>
  BY DEF ReadHit, disk
<1>2. PICK i \in Slot : slot[i].blk = b /\ Touch(i)
  BY DEF ReadHit, Holders
<1>3. lru' \in Seq(Slot) /\ IsInjective(lru') /\ Range(lru') = Range(lru) \union {i}
  BY <1>2, TouchFacts DEF CacheInv, TypeOK
<1>4. Valid(i)
  BY <1>2, HolderIsValid
<1>5. Range(lru') = {j \in Slot : Valid(j)}
  BY <1>3, <1>4 DEF CacheInv, TypeOK
<1>6. TypeOK'
  BY <1>1, <1>3, <1>5 DEF CacheInv, TypeOK, Valid
<1>7. OpInv' /\ OneHolder'
  BY <1>1 DEF CacheInv, OpInv, OneHolder, Valid
<1>8. CallInv'
  BY <1>1 DEF CacheInv, CallInv, Holders, Dirty, DirtySlots, Valid
<1>9. DiskInv'
  BY <1>1 DEF CacheInv, DiskInv, Busy, Batched, Valid
<1>10. BegunInv' /\ Shown' /\ CleanIsOnDisk' /\ FlushedStays'
  BY <1>1 DEF CacheInv, BegunInv, Shown, CleanIsOnDisk, FlushedStays, Dirty, Valid
<1>11. QED
  BY <1>6, <1>7, <1>8, <1>9, <1>10 DEF CacheInv

\* osfs2_cache_write of a cached block.
LEMMA WriteHitKeeps ==
  ASSUME CacheInv, ~Preemptible, NEW b \in Block, NEW v \in Value, WriteHit("syscall", b, v)
  PROVE  CacheInv'
<1>1. UNCHANGED <<op, durable, begun, cur, st, ret>> /\ Wrote(b, v)
  BY DEF WriteHit, disk
<1>2. (\A q \in Caller : op[q] = Idle /\ op[q].pc = "idle") /\ st = "idle"
  BY Alone DEF WriteHit, Caller
<1>3. PICK i \in Slot : /\ slot[i].blk = b /\ Touch(i)
                        /\ slot' = [slot EXCEPT ![i] = [@ EXCEPT !.val = v, !.dirty = TRUE]]
  BY DEF WriteHit, Holders
<1>4. lru' \in Seq(Slot) /\ IsInjective(lru') /\ Range(lru') = Range(lru) \union {i}
  BY <1>3, TouchFacts DEF CacheInv, TypeOK
<1>5. Valid(i)
  BY <1>3, HolderIsValid
<1>6. /\ slot' \in [Slot -> SlotType]
      /\ \A j \in Slot : slot'[j].blk = slot[j].blk
      /\ \A j \in Slot : j # i => slot'[j] = slot[j]
      /\ slot'[i].val = v /\ slot'[i].dirty
  BY <1>3 DEF CacheInv, TypeOK, SlotType
<1>7. view' \in [Block -> Value] /\ \A c \in Block : view'[c] = IF c = b THEN v ELSE view[c]
  BY <1>1 DEF Wrote, CacheInv, TypeOK
<1>8. allowed' \in [Block -> SUBSET Value] /\ \A c \in Block : allowed'[c] = IF c = b THEN allowed[b] \union {v} ELSE allowed[c]
  BY <1>1 DEF Wrote, CacheInv, TypeOK
<1>9. TypeOK'
  <2>1. \A j \in Slot : Valid(j)' <=> Valid(j)
    BY <1>6 DEF Valid
  <2>2. Range(lru') = {j \in Slot : Valid(j)'}
    BY <1>4, <1>5, <2>1 DEF CacheInv, TypeOK
  <2>3. QED
    BY <1>1, <1>4, <1>6, <1>7, <1>8, <2>2 DEF CacheInv, TypeOK
<1>10. OpInv' /\ OneHolder'
  BY <1>1, <1>6 DEF CacheInv, OpInv, OneHolder, Valid
<1>11. CallInv' /\ DiskInv'
  BY <1>1, <1>2 DEF CallInv, DiskInv, Busy
<1>12. BegunInv' /\ FlushedStays'
  BY <1>1, <1>7, <1>8 DEF CacheInv, BegunInv, FlushedStays
<1>13. Shown'
  BY <1>1, <1>3, <1>5, <1>6, <1>7 DEF CacheInv, Shown, OneHolder
<1>14. CleanIsOnDisk'
  BY <1>1, <1>6 DEF CacheInv, CleanIsOnDisk, Dirty, Valid
<1>15. QED
  BY <1>9, <1>10, <1>11, <1>12, <1>13, <1>14 DEF CacheInv

\* A commit begins for the dirty slots of a call: nothing but the disk and the call changes.
LEMMA BeginKeeps ==
  ASSUME CacheInv, ~Preemptible, NEW p \in Caller, MayRun(p), op[p] = Idle,
         NEW S, S \subseteq {i \in Slot : Dirty(i)}, Disk!Begin(BatchOfSlots(S)),
         NEW o \in CallStates, op' = [op EXCEPT ![p] = o], o.pc \in {"evict", "flush"},
         S = IF o.pc = "evict" THEN {o.i} ELSE o.map,
         p = "flusher" => o.pc = "flush",
         o.pc = "evict" => Holders(o.call.blk) = {},
         o.pc = "flush" => S = DirtySlots /\ o.seen = view,
         UNCHANGED <<slot, lru, view, allowed>>
  PROVE  CacheInv'
<1>1. (\A q \in Caller : op[q] = Idle /\ op[q].pc = "idle") /\ st = "idle"
  BY Alone
<1>2. /\ begun' = begun \union {BatchOfSlots(S)} /\ cur' = BatchOfSlots(S)
      /\ st' = "busy" /\ ret' = "none" /\ durable' = durable
  BY DEF Disk!Begin
<1>3. op'[p] = o /\ \A q \in Caller : q # p => op'[q] = Idle /\ op'[q].pc = "idle"
  BY <1>1 DEF CacheInv, OpInv
<1>4. /\ DOMAIN cur'.data = {slot[i].blk : i \in S}
      /\ \A i \in S : cur'.data[slot[i].blk] = slot[i].val
  BY <1>2, BatchData DEF CacheInv, Dirty
<1>5. TypeOK'
  <2>1. \A q \in Caller : op'[q].pc \in {"idle", "evict", "take", "flush"}
    BY <1>3
  <2>2. QED
    BY <1>2, <2>1 DEF CacheInv, TypeOK, Valid
<1>6. OpInv'
  BY <1>1, <1>3 DEF CacheInv, OpInv, Caller
<1>7. OneHolder' /\ Shown' /\ CleanIsOnDisk' /\ FlushedStays'
  BY <1>2 DEF CacheInv, OneHolder, Shown, CleanIsOnDisk, FlushedStays, Dirty, Valid
<1>8. CallInv'
  <2>1. o.pc = "evict" => Dirty(o.i)
    OBVIOUS
  <2>2. QED
    BY <1>3, <2>1 DEF CallInv, Holders, Dirty, DirtySlots, Valid
<1>9. DiskInv'
  <2>1. Busy(p)' /\ Batched(p)' = S /\ cur' \in begun'
    BY <1>2, <1>3 DEF Busy, Batched
  <2>2. \A q \in Caller : Busy(q)' => q = p
    BY <1>3 DEF Busy
  <2>3. QED
    BY <1>2, <1>4, <2>1, <2>2 DEF DiskInv
<1>10. BegunInv'
  <2>1. ASSUME NEW b \in Block, b \in DOMAIN cur'.data PROVE cur'.data[b] \in allowed[b]
    <3>1. PICK i \in S : b = slot[i].blk
      BY <1>4, <2>1
    <3>2. cur'.data[b] = view[b]
      BY <1>4, <3>1 DEF CacheInv, Shown
    <3>3. QED
      BY <3>2 DEF CacheInv, BegunInv
  <2>2. QED
    BY <1>2, <2>1 DEF CacheInv, BegunInv
<1>11. QED
  BY <1>5, <1>6, <1>7, <1>8, <1>9, <1>10 DEF CacheInv

\* A miss begins the write-back of its victim, or has a clean victim.
LEMMA MissKeeps ==
  ASSUME CacheInv, ~Preemptible, NEW call \in Calls, Miss("syscall", call)
  PROVE  CacheInv'
<1> DEFINE i == Victim
<1>1. i \in Slot
  BY VictimIsSlot DEF CacheInv
<1>2. MayRun("syscall") /\ op["syscall"] = Idle /\ Holders(call.blk) = {} /\ UNCHANGED <<slot, lru, view, allowed>>
  BY DEF Miss
<1>3. (\A q \in Caller : op[q] = Idle /\ op[q].pc = "idle") /\ st = "idle"
  BY <1>2, Alone DEF Caller
<1>4. CASE Dirty(i)
  <2> DEFINE o == [pc |-> "evict", i |-> i, call |-> call]
  <2>1. Disk!Begin(BatchOfSlots({i})) /\ op' = [op EXCEPT !["syscall"] = o]
    BY <1>4 DEF Miss
  <2>2. o \in CallStates
    BY <1>1 DEF CallStates
  <2>3. {i} \subseteq {j \in Slot : Dirty(j)}
    BY <1>1, <1>4
  <2> HIDE DEF i
  <2>4. o.pc = "evict" /\ o.i = i /\ o.call = call
    OBVIOUS
  <2> HIDE DEF o
  <2>5. QED
    BY <1>2, <2>1, <2>2, <2>3, <2>4, BeginKeeps DEF Caller
<1>5. CASE ~Dirty(i)
  <2> DEFINE o == [pc |-> "take", i |-> i, call |-> call]
  <2>1. op' = [op EXCEPT !["syscall"] = o] /\ UNCHANGED <<durable, begun, cur, st, ret>>
    BY <1>5 DEF Miss, disk
  <2>2. o \in CallStates /\ o.pc = "take" /\ o.i = i /\ o.call = call
    BY <1>1 DEF CallStates
  <2> HIDE DEF i, o
  <2>3. op'["syscall"] = o /\ op'["flusher"] = Idle /\ op'["flusher"].pc = "idle"
    BY <1>3, <2>1 DEF CacheInv, OpInv, Caller
  <2>4. op' \in [Caller -> CallStates]
    BY <2>1, <2>2 DEF CacheInv, OpInv
  <2>5. TypeOK'
    BY <1>2, <2>1, <2>2, <2>3 DEF CacheInv, TypeOK, Valid, Caller
  <2>6. OpInv'
    BY <2>3, <2>4 DEF OpInv
  <2>7. OneHolder' /\ Shown' /\ CleanIsOnDisk' /\ FlushedStays' /\ BegunInv'
    BY <1>2, <2>1 DEF CacheInv, OneHolder, Shown, CleanIsOnDisk, FlushedStays, BegunInv, Dirty, Valid
  <2>8. CallInv'
    BY <1>2, <1>5, <2>2, <2>3 DEF CallInv, Holders, Dirty, Valid, Caller
  <2>9. DiskInv'
    BY <1>3, <2>1, <2>2, <2>3 DEF DiskInv, Busy, Caller
  <2>10. QED
    BY <2>5, <2>6, <2>7, <2>8, <2>9 DEF CacheInv
<1>6. QED
  BY <1>4, <1>5

\* osfs2_cache_flush begins with every dirty slot.
LEMMA FlushKeeps ==
  ASSUME CacheInv, ~Preemptible, NEW p \in Caller, Flush(p)
  PROVE  CacheInv'
<1> DEFINE o == [pc |-> "flush", map |-> DirtySlots, seen |-> view]
<1>1. /\ MayRun(p) /\ op[p] = Idle /\ Disk!Begin(BatchOfSlots(DirtySlots))
      /\ op' = [op EXCEPT ![p] = o] /\ UNCHANGED <<slot, lru, view, allowed>>
  BY DEF Flush
<1>2. o \in CallStates
  BY DEF CallStates, DirtySlots, CacheInv, TypeOK
<1>3. o.pc = "flush" /\ o.map = DirtySlots /\ o.seen = view
  OBVIOUS
<1> HIDE DEF o
<1>4. QED
  BY <1>1, <1>2, <1>3, BeginKeeps DEF DirtySlots

\* The caller of a step after the first is the one that is in a call.
LEMMA InCall ==
  ASSUME CacheInv, NEW p \in Caller, op[p].pc # "idle"
  PROVE  \A q \in Caller : q # p => op[q] = Idle /\ op[q].pc = "idle"
BY DEF CacheInv, OpInv, Caller, Idle

\* The write-back of a victim returned.
LEMMA EvictedKeeps ==
  ASSUME CacheInv, ~Preemptible, Evicted("syscall")
  PROVE  CacheInv'
<1> DEFINE o == op["syscall"]
<1>1. o.pc = "evict" /\ st = "idle" /\ UNCHANGED <<lru, durable, begun, cur, st, ret, view, allowed>>
  BY DEF Evicted, disk
<1>2. op["flusher"] = Idle /\ op["flusher"].pc = "idle"
  BY <1>1, InCall DEF Caller
<1>3. o \in [pc : {"evict", "take"}, i : Slot, call : Calls]
  BY <1>1 DEF CacheInv, OpInv, CallStates, Caller, Idle
<1>4. Holders(o.call.blk) = {} /\ Dirty(o.i)
  BY <1>1 DEF CacheInv, CallInv, Caller
<1>5. CASE ret = "ok"
  <2>1. /\ slot' = [slot EXCEPT ![o.i] = [@ EXCEPT !.dirty = FALSE]]
        /\ op' = [op EXCEPT !["syscall"] = [@ EXCEPT !.pc = "take"]]
    BY <1>5 DEF Evicted
  <2>2. op' \in [Caller -> CallStates] /\ op'["flusher"] = Idle /\ op'["flusher"].pc = "idle"
    <3>1. [o EXCEPT !.pc = "take"] \in CallStates
      BY <1>3 DEF CallStates
    <3>2. QED
      BY <1>2, <2>1, <3>1 DEF CacheInv, OpInv, Caller
  <2>3. op'["syscall"].pc = "take" /\ op'["syscall"].i = o.i /\ op'["syscall"].call = o.call
    BY <1>3, <2>1 DEF CacheInv, OpInv, Caller
  <2>4. /\ slot' \in [Slot -> SlotType]
        /\ \A j \in Slot : slot'[j].blk = slot[j].blk /\ slot'[j].val = slot[j].val
        /\ \A j \in Slot : j # o.i => slot'[j] = slot[j]
        /\ slot'[o.i].dirty = FALSE
    BY ZenonT(60), <1>3, <2>1 DEF CacheInv, TypeOK, SlotType
  <2>5. durable[slot[o.i].blk] = slot[o.i].val
    BY <1>1, <1>5 DEF CacheInv, DiskInv, Busy, Batched, Caller
  <2>6. TypeOK'
    <3>1. \A j \in Slot : Valid(j)' <=> Valid(j)
      BY <2>4 DEF Valid
    <3>2. \A q \in Caller : op'[q].pc \in {"idle", "evict", "take", "flush"}
      BY <2>2, <2>3 DEF Caller
    <3>3. Range(lru') = {j \in Slot : Valid(j)'}
      BY <1>1, <3>1 DEF CacheInv, TypeOK
    <3>4. QED
      BY <1>1, <2>4, <3>2, <3>3 DEF CacheInv, TypeOK
  <2>7. OpInv'
    BY <2>2 DEF OpInv
  <2>8. OneHolder' /\ Shown' /\ FlushedStays' /\ BegunInv'
    BY <1>1, <2>4 DEF CacheInv, OneHolder, Shown, FlushedStays, BegunInv, Valid
  <2>9. CallInv'
    BY <1>3, <1>4, <2>2, <2>3, <2>4 DEF CallInv, Holders, Dirty, Valid, Caller
  <2>10. DiskInv'
    BY <1>1, <2>2, <2>3 DEF DiskInv, Busy, Caller
  <2>11. CleanIsOnDisk'
    BY <1>1, <2>4, <2>5 DEF CacheInv, CleanIsOnDisk, Dirty, Valid
  <2>12. QED
    BY <2>6, <2>7, <2>8, <2>9, <2>10, <2>11 DEF CacheInv
<1>6. CASE ret # "ok"
  <2>1. op' = [op EXCEPT !["syscall"] = Idle] /\ UNCHANGED slot
    BY <1>6 DEF Evicted
  <2>2. /\ op' \in [Caller -> CallStates] /\ \A q \in Caller : op'[q] = Idle /\ op'[q].pc = "idle"
    BY <1>2, <2>1 DEF CacheInv, OpInv, Caller, CallStates, Idle
  <2>3. TypeOK'
    BY <1>1, <2>1, <2>2 DEF CacheInv, TypeOK, Valid
  <2>4. OpInv'
    BY <2>2 DEF OpInv, Caller
  <2>5. OneHolder' /\ Shown' /\ FlushedStays' /\ BegunInv' /\ CleanIsOnDisk'
    BY <1>1, <2>1 DEF CacheInv, OneHolder, Shown, FlushedStays, BegunInv, CleanIsOnDisk, Dirty, Valid
  <2>6. CallInv' /\ DiskInv'
    BY <1>1, <2>2 DEF CallInv, DiskInv, Busy
  <2>7. QED
    BY <2>3, <2>4, <2>5, <2>6 DEF CacheInv
<1>7. QED
  BY <1>5, <1>6

\* A victim that is ready to be taken: clean, of no block that is asked for, and the disk at rest.
LEMMA TakenFacts ==
  ASSUME CacheInv, ~Preemptible, MayRun("syscall"), op["syscall"].pc = "take",
         op' = [op EXCEPT !["syscall"] = Idle]
  PROVE  /\ op["syscall"].i \in Slot /\ op["syscall"].call \in Calls /\ ~Dirty(op["syscall"].i)
         /\ \A j \in Slot : slot[j].blk # op["syscall"].call.blk
         /\ st = "idle" /\ op' \in [Caller -> CallStates] /\ \A q \in Caller : op'[q] = Idle /\ op'[q].pc = "idle"
<1> DEFINE o == op["syscall"]
<1>1. op["flusher"] = Idle /\ op["flusher"].pc = "idle"
  BY InCall DEF Caller
<1>2. o \in [pc : {"evict", "take"}, i : Slot, call : Calls]
  BY DEF CacheInv, OpInv, CallStates, Caller, Idle
<1>3. ~Dirty(o.i) /\ Holders(o.call.blk) = {}
  BY DEF CacheInv, CallInv, Caller
<1>4. \A q \in Caller : ~Busy(q)
  BY <1>1 DEF Busy, Caller
<1>5. st = "idle"
  BY <1>4 DEF CacheInv, DiskInv, TypeOK, MayRun
<1>6. op' \in [Caller -> CallStates] /\ \A q \in Caller : op'[q] = Idle /\ op'[q].pc = "idle"
  BY <1>1 DEF CacheInv, OpInv, Caller, CallStates, Idle
<1>7. QED
  BY <1>2, <1>3, <1>5, <1>6 DEF Holders

\* When no call is left, what is said of calls holds.
LEMMA NoCall ==
  ASSUME op' \in [Caller -> CallStates], \A q \in Caller : op'[q] = Idle /\ op'[q].pc = "idle", st' = "idle"
  PROVE  OpInv' /\ CallInv' /\ DiskInv' /\ \A q \in Caller : op'[q].pc \in {"idle", "evict", "take", "flush"}
BY DEF OpInv, CallInv, DiskInv, Busy, Caller

\* osfs2_cache_read fills its victim, or cannot read and leaves it invalid.
LEMMA FillKeeps ==
  ASSUME CacheInv, ~Preemptible, Fill("syscall")
  PROVE  CacheInv'
<1> DEFINE i == op["syscall"].i
           b == op["syscall"].call.blk
<1>1. /\ MayRun("syscall") /\ op["syscall"].pc = "take" /\ op' = [op EXCEPT !["syscall"] = Idle]
      /\ UNCHANGED <<durable, begun, cur, st, ret, view, allowed>>
  BY DEF Fill, disk
<1>2. /\ i \in Slot /\ op["syscall"].call \in Calls /\ ~Dirty(i)
      /\ \A j \in Slot : slot[j].blk # b
      /\ st = "idle" /\ op' \in [Caller -> CallStates] /\ \A q \in Caller : op'[q] = Idle /\ op'[q].pc = "idle"
  BY <1>1, TakenFacts
<1>3. b \in Block /\ b # NoBlock
  BY <1>2, CacheAssumption DEF Calls
<1>4. OpInv' /\ CallInv' /\ DiskInv' /\ \A q \in Caller : op'[q].pc \in {"idle", "evict", "take", "flush"}
  BY <1>1, <1>2, NoCall
<1>5. BegunInv' /\ FlushedStays'
  BY <1>1 DEF CacheInv, BegunInv, FlushedStays
<1>6. \A c \in Block : slot[i].blk = c => durable[c] = view[c] /\ \A j \in Slot : slot[j].blk = c => j = i
  BY <1>2, HolderIsValid DEF CacheInv, Shown, CleanIsOnDisk, OneHolder
<1>7. CASE slot' = [slot EXCEPT ![i] = [blk |-> b, val |-> durable[b], dirty |-> FALSE]] /\ Touch(i)
  <2> HIDE DEF i, b
  <2>1. /\ slot' \in [Slot -> SlotType] /\ \A j \in Slot : j # i => slot'[j] = slot[j]
        /\ slot'[i].blk = b /\ slot'[i].val = durable[b] /\ ~slot'[i].dirty
    BY <1>2, <1>3, <1>7 DEF CacheInv, TypeOK, SlotType
  <2>2. lru' \in Seq(Slot) /\ IsInjective(lru') /\ Range(lru') = Range(lru) \union {i}
    BY <1>2, <1>7, TouchFacts DEF CacheInv, TypeOK
  <2>3. Range(lru') = {j \in Slot : Valid(j)'}
    BY <1>2, <1>3, <2>1, <2>2 DEF CacheInv, TypeOK, Valid
  <2>4. TypeOK'
    BY <1>1, <1>4, <2>1, <2>2, <2>3 DEF CacheInv, TypeOK
  <2>5. OneHolder'
    BY <1>2, <2>1 DEF CacheInv, OneHolder, Valid
  <2>6. Shown'
    <3>1. ASSUME NEW c \in Block, NEW j \in Slot, slot'[j].blk = c PROVE slot'[j].val = view'[c]
      BY <1>1, <1>2, <1>3, <2>1, <3>1 DEF CacheInv, Shown
    <3>2. ASSUME NEW c \in Block, \A j \in Slot : slot'[j].blk # c PROVE durable'[c] = view'[c]
      BY <1>1, <1>2, <1>6, <2>1, <3>2 DEF CacheInv, Shown
    <3>3. QED
      BY <3>1, <3>2 DEF Shown
  <2>7. CleanIsOnDisk'
    BY <1>1, <2>1 DEF CacheInv, CleanIsOnDisk, Dirty, Valid
  <2>8. QED
    BY <1>4, <1>5, <2>4, <2>5, <2>6, <2>7 DEF CacheInv
<1>8. CASE slot' = [slot EXCEPT ![i] = Invalid] /\ lru' = LruWithout(i)
  <2> HIDE DEF i, b
  <2>1. /\ slot' \in [Slot -> SlotType] /\ \A j \in Slot : j # i => slot'[j] = slot[j]
        /\ slot'[i].blk = NoBlock
    BY <1>2, <1>8, CacheAssumption DEF CacheInv, TypeOK, SlotType, Invalid
  <2>2. lru' \in Seq(Slot) /\ IsInjective(lru') /\ Range(lru') = Range(lru) \ {i}
    BY <1>2, <1>8, WithoutFacts DEF CacheInv, TypeOK
  <2>3. Range(lru') = {j \in Slot : Valid(j)'}
    BY <1>2, <2>1, <2>2 DEF CacheInv, TypeOK, Valid
  <2>4. TypeOK'
    BY <1>1, <1>4, <2>1, <2>2, <2>3 DEF CacheInv, TypeOK
  <2>5. OneHolder'
    BY <1>2, <2>1 DEF CacheInv, OneHolder, Valid
  <2>6. Shown'
    BY <1>1, <1>6, <2>1, CacheAssumption DEF CacheInv, Shown
  <2>7. CleanIsOnDisk'
    BY <1>1, <2>1 DEF CacheInv, CleanIsOnDisk, Dirty, Valid
  <2>8. QED
    BY <1>4, <1>5, <2>4, <2>5, <2>6, <2>7 DEF CacheInv
<1>9. QED
  BY <1>7, <1>8 DEF Fill

\* osfs2_cache_write installs its data in the victim.
LEMMA InstallKeeps ==
  ASSUME CacheInv, ~Preemptible, Install("syscall")
  PROVE  CacheInv'
<1> DEFINE i == op["syscall"].i
           b == op["syscall"].call.blk
           v == op["syscall"].call.val
<1>1. /\ MayRun("syscall") /\ op["syscall"].pc = "take" /\ op["syscall"].call.kind = "write"
      /\ op' = [op EXCEPT !["syscall"] = Idle] /\ UNCHANGED <<durable, begun, cur, st, ret>>
      /\ slot' = [slot EXCEPT ![i] = [blk |-> b, val |-> v, dirty |-> TRUE]] /\ Touch(i) /\ Wrote(b, v)
  BY DEF Install, disk
<1>2. /\ i \in Slot /\ op["syscall"].call \in Calls /\ ~Dirty(i)
      /\ \A j \in Slot : slot[j].blk # b
      /\ st = "idle" /\ op' \in [Caller -> CallStates] /\ \A q \in Caller : op'[q] = Idle /\ op'[q].pc = "idle"
  BY <1>1, TakenFacts
<1>3. b \in Block /\ b # NoBlock /\ v \in Value
  BY <1>1, <1>2, CacheAssumption DEF Calls
<1>4. OpInv' /\ CallInv' /\ DiskInv' /\ \A q \in Caller : op'[q].pc \in {"idle", "evict", "take", "flush"}
  BY <1>1, <1>2, NoCall
<1>5. \A c \in Block : slot[i].blk = c => durable[c] = view[c] /\ \A j \in Slot : slot[j].blk = c => j = i
  BY <1>2, HolderIsValid DEF CacheInv, Shown, CleanIsOnDisk, OneHolder
<1> HIDE DEF i, b, v
<1>6. /\ slot' \in [Slot -> SlotType] /\ \A j \in Slot : j # i => slot'[j] = slot[j]
      /\ slot'[i].blk = b /\ slot'[i].val = v /\ slot'[i].dirty
  BY <1>1, <1>2, <1>3 DEF CacheInv, TypeOK, SlotType
<1>7. /\ view' \in [Block -> Value] /\ allowed' \in [Block -> SUBSET Value]
      /\ \A c \in Block : view'[c] = IF c = b THEN v ELSE view[c]
      /\ \A c \in Block : allowed'[c] = IF c = b THEN allowed[b] \union {v} ELSE allowed[c]
  BY <1>1, <1>3 DEF Wrote, CacheInv, TypeOK
<1>8. lru' \in Seq(Slot) /\ IsInjective(lru') /\ Range(lru') = Range(lru) \union {i}
  BY <1>1, <1>2, TouchFacts DEF CacheInv, TypeOK
<1>9. Range(lru') = {j \in Slot : Valid(j)'}
  BY <1>2, <1>3, <1>6, <1>8 DEF CacheInv, TypeOK, Valid
<1>10. TypeOK'
  BY <1>1, <1>4, <1>6, <1>7, <1>8, <1>9 DEF CacheInv, TypeOK
<1>11. OneHolder'
  BY <1>2, <1>6 DEF CacheInv, OneHolder, Valid
<1>12. BegunInv' /\ FlushedStays'
  BY <1>1, <1>7 DEF CacheInv, BegunInv, FlushedStays
<1>13. Shown'
  <2>1. ASSUME NEW c \in Block, NEW j \in Slot, slot'[j].blk = c PROVE slot'[j].val = view'[c]
    BY <1>2, <1>3, <1>6, <1>7, <2>1 DEF CacheInv, Shown
  <2>2. ASSUME NEW c \in Block, \A j \in Slot : slot'[j].blk # c PROVE durable'[c] = view'[c]
    BY <1>1, <1>2, <1>5, <1>6, <1>7, <2>2 DEF CacheInv, Shown
  <2>3. QED
    BY <2>1, <2>2 DEF Shown
<1>14. CleanIsOnDisk'
  BY <1>1, <1>6 DEF CacheInv, CleanIsOnDisk, Dirty, Valid
<1>15. QED
  BY <1>4, <1>10, <1>11, <1>12, <1>13, <1>14 DEF CacheInv

\* The commit of a flush returned: on 0 its slots are clean, and nothing older can come back.
LEMMA FlushedKeeps ==
  ASSUME CacheInv, ~Preemptible, NEW p \in Caller, Flushed(p)
  PROVE  CacheInv'
<1>1. /\ op[p].pc = "flush" /\ st = "idle" /\ op' = [op EXCEPT ![p] = Idle]
      /\ UNCHANGED <<lru, durable, begun, cur, st, ret, view>>
  BY DEF Flushed, disk
<1>2. op' \in [Caller -> CallStates] /\ \A q \in Caller : op'[q] = Idle /\ op'[q].pc = "idle"
  <2>1. \A q \in Caller : q # p => op[q] = Idle /\ op[q].pc = "idle"
    BY <1>1, InCall
  <2>2. QED
    BY <1>1, <2>1 DEF CacheInv, OpInv, CallStates, Idle
<1>3. OpInv' /\ CallInv' /\ DiskInv' /\ \A q \in Caller : op'[q].pc \in {"idle", "evict", "take", "flush"}
  BY <1>1, <1>2, NoCall
<1>4. CASE ret = "ok"
  <2>1. /\ slot' = [i \in Slot |-> IF i \in op[p].map THEN [slot[i] EXCEPT !.dirty = FALSE] ELSE slot[i]]
        /\ allowed' = [b \in Block |-> {op[p].seen[b], view[b]}]
    BY <1>4 DEF Flushed
  <2>2. op[p].map = DirtySlots /\ op[p].seen = view
    BY <1>1 DEF CacheInv, CallInv
  <2>3. begun = {} /\ \A i \in Slot : Valid(i) => durable[slot[i].blk] = slot[i].val
    <3>1. begun = {} /\ \A i \in DirtySlots : durable[slot[i].blk] = slot[i].val
      BY <1>1, <1>4, <2>2 DEF CacheInv, DiskInv, Busy, Batched
    <3>2. QED
      BY <3>1 DEF CacheInv, CleanIsOnDisk, DirtySlots
  <2>4. /\ slot' \in [Slot -> SlotType]
        /\ \A i \in Slot : slot'[i].blk = slot[i].blk /\ slot'[i].val = slot[i].val
    BY <2>1 DEF CacheInv, TypeOK, SlotType
  <2>5. allowed' = [b \in Block |-> {view[b]}]
    BY <2>1, <2>2
  <2>6. \A b \in Block : durable[b] = view[b]
    BY <2>3, HolderIsValid DEF CacheInv, Shown
  <2>7. TypeOK'
    <3>1. \A i \in Slot : Valid(i)' <=> Valid(i)
      BY <2>4 DEF Valid
    <3>2. Range(lru') = {i \in Slot : Valid(i)'}
      BY <1>1, <3>1 DEF CacheInv, TypeOK
    <3>3. allowed' \in [Block -> SUBSET Value]
      BY <2>5 DEF CacheInv, TypeOK
    <3>4. QED
      BY <1>1, <1>3, <2>4, <3>2, <3>3 DEF CacheInv, TypeOK
  <2>8. OneHolder' /\ Shown'
    BY <1>1, <2>4 DEF CacheInv, OneHolder, Shown, Valid
  <2>9. BegunInv' /\ FlushedStays'
    BY <1>1, <2>3, <2>5, <2>6 DEF BegunInv, FlushedStays
  <2>10. CleanIsOnDisk'
    BY <1>1, <2>3, <2>4 DEF CleanIsOnDisk, Valid
  <2>11. QED
    BY <1>3, <2>7, <2>8, <2>9, <2>10 DEF CacheInv
<1>5. CASE ret # "ok"
  <2>1. UNCHANGED <<slot, allowed>>
    BY <1>5 DEF Flushed
  <2>2. TypeOK'
    BY <1>1, <1>3, <2>1 DEF CacheInv, TypeOK, Valid
  <2>3. OneHolder' /\ Shown' /\ FlushedStays' /\ BegunInv' /\ CleanIsOnDisk'
    BY <1>1, <2>1 DEF CacheInv, OneHolder, Shown, FlushedStays, BegunInv, CleanIsOnDisk, Dirty, Valid
  <2>4. QED
    BY <1>3, <2>2, <2>3 DEF CacheInv
<1>6. QED
  BY <1>4, <1>5

\* The commit lands: only blocks change that a dirty slot holds.
LEMMA LandKeeps ==
  ASSUME CacheInv, Disk!Land, UNCHANGED <<slot, lru, op, view, allowed>>
  PROVE  CacheInv'
<1>1. st = "busy" /\ durable' = Overlay(durable, cur) /\ begun' = {} /\ st' = "landed" /\ UNCHANGED <<cur, ret>>
  BY DEF Disk!Land, Disk!Overlay, Overlay
<1>2. PICK p \in Caller : Busy(p)
  BY <1>1 DEF CacheInv, DiskInv
<1>3. \A q \in Caller : Busy(q) => q = p
  BY <1>2, InCall DEF Busy, Caller
<1> DEFINE S == Batched(p)
<1>4. \A i \in S : i \in Slot /\ Dirty(i)
  BY <1>2 DEF CacheInv, OpInv, CallInv, Busy, Batched, CallStates, Idle, DirtySlots
<1>5. DOMAIN cur.data = {slot[i].blk : i \in S} /\ \A i \in S : cur.data[slot[i].blk] = slot[i].val
  BY <1>1, <1>2 DEF CacheInv, DiskInv
<1> HIDE DEF S
<1>6. \A b \in Block : durable'[b] = IF b \in DOMAIN cur.data THEN cur.data[b] ELSE durable[b]
  BY <1>1 DEF Overlay
<1>7. \A b \in Block : b \in DOMAIN cur.data => cur.data[b] \in allowed[b] /\ cur.data[b] \in Value
  BY <1>1 DEF CacheInv, DiskInv, BegunInv, TypeOK
<1>8. durable' \in [Block -> Value]
  BY <1>1, <1>6, <1>7 DEF Overlay, CacheInv, TypeOK
<1>9. \A i \in S : durable'[slot[i].blk] = slot[i].val
  BY <1>4, <1>5, <1>6 DEF Dirty, Valid, CacheInv, TypeOK, SlotType
<1>10. TypeOK'
  BY <1>1, <1>8 DEF CacheInv, TypeOK, Valid
<1>11. OpInv' /\ OneHolder' /\ CallInv'
  BY DEF CacheInv, OpInv, OneHolder, CallInv, Holders, Dirty, DirtySlots, Valid
<1>12. DiskInv'
  <2>1. Busy(p)' /\ Batched(p)' = S /\ \A q \in Caller : Busy(q)' => q = p
    BY <1>2, <1>3 DEF Busy, Batched, S
  <2>2. QED
    BY <1>1, <1>9, <2>1 DEF DiskInv
<1>13. BegunInv' /\ FlushedStays'
  BY <1>1, <1>6, <1>7 DEF CacheInv, BegunInv, FlushedStays
<1>14. Shown'
  <2>1. ASSUME NEW b \in Block, \A i \in Slot : slot[i].blk # b PROVE durable'[b] = view[b]
    <3>1. b \notin DOMAIN cur.data
      BY <1>4, <1>5, <2>1
    <3>2. QED
      BY <1>6, <2>1, <3>1 DEF CacheInv, Shown
  <2>2. QED
    BY <2>1 DEF CacheInv, Shown
<1>15. CleanIsOnDisk'
  <2>1. ASSUME NEW i \in Slot, Valid(i), ~Dirty(i) PROVE slot[i].val = durable'[slot[i].blk]
    <3>1. slot[i].blk \notin DOMAIN cur.data
      <4>1. SUFFICES ASSUME NEW j \in S, slot[i].blk = slot[j].blk PROVE FALSE
        BY <1>5
      <4>2. i = j
        BY <1>4, <2>1, <4>1 DEF CacheInv, OneHolder
      <4>3. QED
        BY <1>4, <2>1, <4>2
    <3>2. slot[i].blk \in Block
      BY <2>1 DEF Valid, CacheInv, TypeOK, SlotType
    <3>3. QED
      BY <1>6, <2>1, <3>1, <3>2 DEF CacheInv, CleanIsOnDisk
  <2>2. QED
    BY <2>1 DEF CleanIsOnDisk, Dirty, Valid
<1>16. QED
  BY <1>10, <1>11, <1>12, <1>13, <1>14, <1>15 DEF CacheInv

\* The commit returns.
LEMMA ReturnKeeps ==
  ASSUME CacheInv, NEW r \in {"ok", "err"}, Disk!Return(r), UNCHANGED <<slot, lru, op, view, allowed>>
  PROVE  CacheInv'
<1>1. /\ st = "landed" \/ (st = "busy" /\ r = "err")
      /\ st' = "idle" /\ ret' = r /\ UNCHANGED <<durable, begun>>
  BY DEF Disk!Return
<1>2. TypeOK'
  BY <1>1 DEF CacheInv, TypeOK, Valid
<1>3. OpInv' /\ OneHolder' /\ CallInv'
  BY DEF CacheInv, OpInv, OneHolder, CallInv, Holders, Dirty, DirtySlots, Valid
<1>4. DiskInv'
  BY <1>1 DEF CacheInv, DiskInv, Busy, Batched
<1>5. BegunInv' /\ FlushedStays' /\ Shown' /\ CleanIsOnDisk'
  BY <1>1 DEF CacheInv, BegunInv, FlushedStays, Shown, CleanIsOnDisk, Dirty, Valid
<1>6. QED
  BY <1>2, <1>3, <1>4, <1>5 DEF CacheInv

\* Of an empty cache.
LEMMA EmptyCache ==
  ASSUME slot' = [i \in Slot |-> Invalid], lru' = <<>>, op' = [p \in Caller |-> Idle], view' = durable',
         allowed' \in [Block -> SUBSET Value], \A b \in Block : durable'[b] \in allowed'[b],
         durable' \in [Block -> Value], begun' = {}, st' \in {"idle", "down"}
  PROVE  CacheInv'
<1>1. \A i \in Slot : slot'[i].blk = NoBlock
  BY DEF Invalid
<1>2. \A p \in Caller : op'[p] = Idle /\ op'[p].pc = "idle"
  BY DEF Idle
<1>3. TypeOK'
  <2>1. slot' \in [Slot -> SlotType]
    BY CacheAssumption DEF Invalid, SlotType
  <2>2. lru' \in Seq(Slot) /\ IsInjective(lru') /\ Range(lru') = {}
    BY DEF IsInjective, Range
  <2>3. {i \in Slot : Valid(i)'} = {}
    BY <1>1 DEF Valid
  <2>4. QED
    BY <1>2, <2>1, <2>2, <2>3 DEF TypeOK
<1>4. OpInv'
  BY <1>2 DEF OpInv, Caller, CallStates
<1>5. OneHolder' /\ CallInv' /\ DiskInv'
  BY <1>1, <1>2 DEF OneHolder, CallInv, DiskInv, Valid, Busy
<1>6. BegunInv' /\ FlushedStays' /\ Shown' /\ CleanIsOnDisk'
  BY <1>1, CacheAssumption DEF BegunInv, FlushedStays, Shown, CleanIsOnDisk, Valid
<1>7. QED
  BY <1>3, <1>4, <1>5, <1>6 DEF CacheInv

\* The machine stops: what the recovery leaves is what a caller wrote since the last flush, because
\* no older batch is left to be replayed.
LEMMA CrashKeeps ==
  ASSUME CacheInv, Crash
  PROVE  CacheInv'
<1>1. begun' = {} /\ st' = "down" /\ allowed' = allowed
  BY DEF Crash, Disk!Crash
<1>2. durable' \in [Block -> Value] /\ \A b \in Block : durable'[b] \in allowed[b]
  <2>1. CASE durable' = durable
    BY <2>1 DEF CacheInv, TypeOK, FlushedStays
  <2>2. ASSUME NEW bt \in begun, durable' = Overlay(durable, bt)
        PROVE  durable' \in [Block -> Value] /\ \A b \in Block : durable'[b] \in allowed[b]
    <3>1. \A b \in Block : durable'[b] = IF b \in DOMAIN bt.data THEN bt.data[b] ELSE durable[b]
      BY <2>2 DEF Overlay
    <3>2. \A b \in Block : b \in DOMAIN bt.data => bt.data[b] \in allowed[b] /\ bt.data[b] \in Value
      BY DEF CacheInv, BegunInv, TypeOK
    <3>3. QED
      BY <2>2, <3>1, <3>2 DEF Overlay, CacheInv, TypeOK, FlushedStays
  <2>3. QED
    BY <2>1, <2>2 DEF Crash, Disk!Crash, Disk!Overlay, Overlay
<1>3. allowed' \in [Block -> SUBSET Value] /\ \A b \in Block : durable'[b] \in allowed'[b]
  BY <1>1, <1>2 DEF CacheInv, TypeOK
<1>4. QED
  BY <1>1, <1>2, <1>3, EmptyCache DEF Crash

\* The next boot is bound to what the recovery left.
LEMMA MountKeeps ==
  ASSUME CacheInv, Mount
  PROVE  CacheInv'
<1>1. /\ st = "down" /\ st' = "idle" /\ UNCHANGED <<durable, begun, cur, ret, slot, lru, op, view>>
      /\ allowed' = [b \in Block |-> {durable[b]}] /\ begun = {} /\ view = durable
  BY DEF Mount, Disk!Mount, CacheInv, DiskInv
<1>2. TypeOK'
  <2>1. allowed' \in [Block -> SUBSET Value]
    BY <1>1 DEF CacheInv, TypeOK
  <2>2. QED
    BY <1>1, <2>1 DEF CacheInv, TypeOK, Valid
<1>3. OpInv' /\ OneHolder' /\ CallInv'
  BY <1>1 DEF CacheInv, OpInv, OneHolder, CallInv, Holders, Dirty, DirtySlots, Valid
<1>4. DiskInv'
  BY <1>1 DEF CacheInv, DiskInv, Busy, Idle
<1>5. BegunInv' /\ FlushedStays' /\ Shown' /\ CleanIsOnDisk'
  BY <1>1 DEF CacheInv, BegunInv, FlushedStays, Shown, CleanIsOnDisk, Dirty, Valid
<1>6. QED
  BY <1>2, <1>3, <1>4, <1>5 DEF CacheInv

\* The cache starts empty.
LEMMA CacheStarts == Init => CacheInv
<1> SUFFICES ASSUME Init PROVE CacheInv
  OBVIOUS
<1>1. /\ slot = [i \in Slot |-> Invalid] /\ lru = <<>> /\ op = [p \in Caller |-> Idle] /\ view = durable
      /\ allowed = [b \in Block |-> {durable[b]}] /\ durable \in [Block -> Value] /\ begun = {} /\ st = "idle"
  BY DEF Init, Disk!Init
<1>2. \A i \in Slot : slot[i].blk = NoBlock
  BY <1>1 DEF Invalid
<1>3. \A p \in Caller : op[p] = Idle /\ op[p].pc = "idle"
  BY <1>1 DEF Idle
<1>4. TypeOK
  <2>1. slot \in [Slot -> SlotType]
    BY <1>1, CacheAssumption DEF Invalid, SlotType
  <2>2. lru \in Seq(Slot) /\ IsInjective(lru) /\ Range(lru) = {}
    BY <1>1 DEF IsInjective, Range
  <2>3. {i \in Slot : Valid(i)} = {}
    BY <1>2 DEF Valid
  <2>4. QED
    BY <1>1, <1>3, <2>1, <2>2, <2>3 DEF TypeOK
<1>5. OpInv
  BY <1>1, <1>3 DEF OpInv, Caller, CallStates
<1>6. OneHolder /\ CallInv /\ DiskInv
  BY <1>1, <1>2, <1>3 DEF OneHolder, CallInv, DiskInv, Valid, Busy
<1>7. BegunInv /\ FlushedStays /\ Shown /\ CleanIsOnDisk
  BY <1>1, <1>2, CacheAssumption DEF BegunInv, FlushedStays, Shown, CleanIsOnDisk, Valid
<1>8. QED
  BY <1>4, <1>5, <1>6, <1>7 DEF CacheInv

\* Every step of a call, of the flusher and of the disk keeps the invariant.
LEMMA CacheKeeps ==
  ASSUME ~Preemptible
  PROVE  CacheInv /\ [Next]_vars => CacheInv'
<1> SUFFICES ASSUME CacheInv, [Next]_vars PROVE CacheInv'
  OBVIOUS
<1>1. CASE UNCHANGED vars
  <2>1. UNCHANGED <<slot, lru, op, durable, begun, cur, st, ret, view, allowed>>
    BY <1>1 DEF vars, disk
  <2>2. TypeOK' /\ OpInv' /\ OneHolder'
    BY <2>1 DEF CacheInv, TypeOK, OpInv, OneHolder, Valid
  <2>3. CallInv' /\ DiskInv'
    BY <2>1 DEF CacheInv, CallInv, DiskInv, Busy, Batched, Holders, Dirty, DirtySlots, Valid
  <2>4. BegunInv' /\ FlushedStays' /\ Shown' /\ CleanIsOnDisk'
    BY <2>1 DEF CacheInv, BegunInv, FlushedStays, Shown, CleanIsOnDisk, Dirty, Valid
  <2>5. QED
    BY <2>2, <2>3, <2>4 DEF CacheInv
<1>2. ASSUME NEW b \in Block, ReadHit("syscall", b) \/ ReadMiss("syscall", b) PROVE CacheInv'
  <2>1. [blk |-> b, kind |-> "read"] \in Calls
    BY DEF Calls
  <2>2. QED
    BY <1>2, <2>1, ReadHitKeeps, MissKeeps DEF ReadMiss
<1>3. ASSUME NEW b \in Block, NEW v \in Value, WriteHit("syscall", b, v) \/ WriteMiss("syscall", b, v) PROVE CacheInv'
  <2>1. [blk |-> b, val |-> v, kind |-> "write"] \in Calls
    BY DEF Calls
  <2>2. QED
    BY <1>3, <2>1, WriteHitKeeps, MissKeeps DEF WriteMiss
<1>4. CASE Evicted("syscall") \/ Fill("syscall") \/ Install("syscall")
  BY <1>4, EvictedKeeps, FillKeeps, InstallKeeps
<1>5. ASSUME NEW p \in Caller, Flush(p) \/ Flushed(p) PROVE CacheInv'
  BY <1>5, FlushKeeps, FlushedKeeps
<1>6. CASE DiskStep
  BY <1>6, LandKeeps, ReturnKeeps DEF DiskStep
<1>7. CASE Crash \/ Mount
  BY <1>7, CrashKeeps, MountKeeps
<1>8. QED
  BY <1>1, <1>2, <1>3, <1>4, <1>5, <1>6, <1>7 DEF Next

\* osfs2_cache.c, reads and writes: whatever is cached, evicted, flushed, fails or crashes, and
\* however many blocks share however many slots, a read returns what was written last and a clean
\* slot is a copy of the disk.
THEOREM CacheLosesNothing ==
  ASSUME ~Preemptible
  PROVE  Spec => []CacheIsFaithful
<1>1. CacheInv => CacheIsFaithful
  <2> SUFFICES ASSUME CacheInv PROVE NoLostWrite
    BY DEF CacheInv, CacheIsFaithful
  <2> SUFFICES ASSUME NEW b \in Block
               PROVE  view[b] = IF Holders(b) = {} THEN durable[b] ELSE slot[CHOOSE i \in Holders(b) : TRUE].val
    BY DEF NoLostWrite
  <2>1. CASE Holders(b) = {}
    BY <2>1 DEF CacheInv, Shown, Holders
  <2>2. CASE Holders(b) # {}
    <3>1. (CHOOSE i \in Holders(b) : TRUE) \in Holders(b)
      BY <2>2
    <3>2. \A i \in Holders(b) : slot[i].val = view[b]
      BY DEF CacheInv, Shown, Holders
    <3>3. QED
      BY <2>2, <3>1, <3>2
  <2>3. QED
    BY <2>1, <2>2
<1>2. CacheInv /\ [Next]_vars => CacheInv'
  BY CacheKeeps
<1>3. QED
  BY CacheStarts, <1>1, <1>2, PTL DEF Spec

\* osfs2_cache_flush returning 0: what the disk holds, and what a crash at any moment and the
\* recovery after it leave, is what was written by then or since.
THEOREM FlushedSurvives ==
  ASSUME ~Preemptible
  PROVE  Spec => []FlushedStays
<1>1. CacheInv => FlushedStays
  BY DEF CacheInv
<1>2. CacheInv /\ [Next]_vars => CacheInv'
  BY CacheKeeps
<1>3. QED
  BY CacheStarts, <1>1, <1>2, PTL DEF Spec

(***************************************************************************)
(* The volume.                                                             *)
(***************************************************************************)
Item == [n : Nat, name : Names \union {NoName}]
Pointers == 0 .. Direct - 1
Offsets == 0 .. Width - 1
Inode == [type : {"free", "file", "dir"}, size : Nat, ptr : [Pointers -> Blocks \union {0}],
          ind : Blocks \union {0}]
Volumes == [imap : SUBSET Inodes, bmap : SUBSET Blocks, data : [Blocks -> [Offsets -> Item]],
            ino : [Inodes -> Inode]]

\* What inode i of a volume refers to: by its pointers, by that to the indirect block, and in that.
Links == 0 .. Direct + Width
Ref(V, i, k) ==
    IF k < Direct THEN V.ino[i].ptr[k]
    ELSE IF k = Direct \/ V.ino[i].ind = 0 THEN V.ino[i].ind
    ELSE V.data[V.ino[i].ind][k - Direct - 1].n

\* A block is referred to once, and marked; if tight, no other is marked.
Books(V, tight) ==
    /\ \A i, j \in Inodes, k, l \in Links :
          Ref(V, i, k) # 0 /\ Ref(V, i, k) = Ref(V, j, l) => i = j /\ k = l
    /\ \A i \in Inodes, k \in Links : Ref(V, i, k) # 0 => Ref(V, i, k) \in V.bmap
    /\ tight => \A b \in V.bmap : \E i \in Inodes, k \in Links : Ref(V, i, k) = b

\* Where entry s of directory d leads to.
Spots == 0 .. Direct * Width - 1
Leads(V, d, s) ==
    IF d \in V.imap /\ V.ino[d].type = "dir" /\ s \in EntrySlots(V, d) THEN Entry(V, d, s).n ELSE 0

\* An entry leads to an inode in use, which no other does; if whole, one leads to every inode.
Tree(V, whole) ==
    /\ \A d \in Inodes, s \in Spots : Leads(V, d, s) # 0 =>
          Leads(V, d, s) \in V.imap \ {Root, d} /\ V.ino[Leads(V, d, s)].type # "free"
    /\ \A d, e \in Inodes, s, t \in Spots :
          Leads(V, d, s) # 0 /\ Leads(V, d, s) = Leads(V, e, t) => d = e /\ s = t
    /\ whole => \A i \in V.imap \ {Root} : \E d \in Inodes, s \in Spots : Leads(V, d, s) = i

\* Sizes are within what the pointers reach, and an inode that is not in use refers to nothing.
Shapes(V, tight) ==
    /\ V \in Volumes /\ Root \in V.imap
    /\ \A i \in Inodes : V.ino[i].size <= IF V.ino[i].type = "dir" THEN Direct * Width ELSE MaxFileBlocks
    /\ \A i \in Inodes : V.ino[i].type = "free" => \A k \in Links : Ref(V, i, k) = 0
    /\ tight => \A i \in Inodes \ V.imap : V.ino[i].type = "free"

VolumeInv ==
    /\ Shapes(vol, ~starved) /\ Books(vol, ~starved) /\ Tree(vol, ~razed)
    /\ opened \subseteq Inodes /\ starved \in BOOLEAN /\ razed \in BOOLEAN

\* What the parameters are.
LEMMA VolumeSizes ==
  /\ MaxIno \in Nat /\ MaxIno >= 1 /\ MaxBlk \in Nat /\ Direct \in Nat /\ Direct >= 1
  /\ Width \in Nat /\ Width >= 1 /\ Direct * Width \in Nat /\ Root \in Inodes
  /\ 0 \notin Blocks /\ 0 \notin Inodes /\ Inodes \subseteq Nat /\ Blocks \subseteq Nat /\ Root \in Nat
BY VolumeAssumption DEF Root, Inodes, Blocks

\* Items of a block.
LEMMA Items == Zero \in Item /\ Junk \in Item /\ Zero.n = 0
  /\ BlockOf(Zero) \in [Offsets -> Item] /\ BlockOf(Junk) \in [Offsets -> Item]
  /\ \A k \in Offsets : BlockOf(Zero)[k] = Zero
<1>1. (CHOOSE x \in Names : TRUE) \in Names
  BY VolumeAssumption
<1>2. Zero \in Item /\ Junk \in Item /\ Zero.n = 0
  BY <1>1 DEF Zero, Junk, Item
<1>3. QED
  BY <1>2 DEF BlockOf, Offsets

\* Entry s of a directory is at a place of its own.
LEMMA SpotFacts ==
  ASSUME NEW s \in Nat
  PROVE  /\ s \div Width \in Nat /\ s % Width \in Offsets /\ s = Width * (s \div Width) + (s % Width)
         /\ s \div Width < Direct <=> s \in Spots
<1>0. Width \in Int /\ Width > 0 /\ s \in Int
  BY VolumeSizes
<1>1. s \div Width \in Nat /\ s % Width \in Offsets /\ s = Width * (s \div Width) + (s % Width)
  <2>1. s \div Width \in Int /\ s % Width \in 0 .. Width - 1 /\ s = Width * (s \div Width) + (s % Width)
    BY <1>0
  <2> DEFINE q == s \div Width
  <2> DEFINE r == s % Width
  <2>2. q \in Int /\ r \in Int /\ r < Width /\ s = Width * q + r
    BY <1>0, <2>1
  <2> HIDE DEF q, r
  <2>3. q >= 0
    <3> SUFFICES ASSUME q <= -1 PROVE FALSE
      BY <2>2
    <3>1. Width * q <= Width * (-1)
      BY <1>0, <2>2
    <3>2. QED
      BY <1>0, <2>2, <3>1
  <2>4. q \in Nat
    BY <2>2, <2>3
  <2>5. s % Width \in Offsets
    BY <2>1 DEF Offsets
  <2>6. s \div Width \in Nat
    BY <2>4 DEF q
  <2>7. QED
    BY <2>1, <2>5, <2>6
<1> DEFINE q == s \div Width
<1> DEFINE r == s % Width
<1>2. q \in Nat /\ r \in Nat /\ r < Width /\ s = Width * q + r
  BY <1>1, VolumeSizes DEF Offsets
<1> HIDE DEF q, r
<1>3. q < Direct => s < Direct * Width
  <2> SUFFICES ASSUME q < Direct PROVE s < Direct * Width
    OBVIOUS
  <2>1. q + 1 <= Direct
    BY <1>2, VolumeSizes
  <2>2. Width * (q + 1) <= Width * Direct
    BY <1>2, <2>1, VolumeSizes
  <2>3. Width * (q + 1) = Width * q + Width
    BY <1>2, VolumeSizes
  <2>4. QED
    BY <1>2, <2>2, <2>3, VolumeSizes
<1>4. s < Direct * Width => q < Direct
  <2> SUFFICES ASSUME Direct <= q PROVE Direct * Width <= s
    BY <1>2, VolumeSizes
  <2>1. Width * Direct <= Width * q
    BY <1>2, VolumeSizes
  <2>2. QED
    BY <1>2, <2>1, VolumeSizes
<1>5. QED
  BY <1>1, <1>3, <1>4, VolumeSizes DEF q, Spots

\* The least element of a set of numbers.
LEMMA LeastNumber ==
  ASSUME NEW S \in SUBSET Nat, S # {}
  PROVE  Min(S) \in S
<1>1. PICK x \in S : \A y \in S : ~(<<y, x>> \in OpToRel(<, Nat))
  BY NatLessThanWellFounded, WFMin
<1>2. \A y \in S : y < x => <<y, x>> \in OpToRel(<, Nat)
  BY DEF OpToRel
<1>3. \A y \in S : ~(y < x)
  BY <1>1, <1>2
<1>4. \A y \in S : x =< y
  BY <1>3
<1>5. QED
  BY <1>4 DEF Min

\* The parts of a volume, and of an inode.
LEMMA Parts ==
  ASSUME NEW V \in Volumes
  PROVE  /\ V = [imap |-> V.imap, bmap |-> V.bmap, data |-> V.data, ino |-> V.ino]
         /\ V.imap \subseteq Inodes /\ V.bmap \subseteq Blocks
         /\ V.data \in [Blocks -> [Offsets -> Item]] /\ V.ino \in [Inodes -> Inode]
BY DEF Volumes

\* A record with these parts is a volume.
LEMMA PartsMake ==
  ASSUME NEW V, V = [imap |-> V.imap, bmap |-> V.bmap, data |-> V.data, ino |-> V.ino],
         V.imap \subseteq Inodes, V.bmap \subseteq Blocks,
         V.data \in [Blocks -> [Offsets -> Item]], V.ino \in [Inodes -> Inode]
  PROVE  V \in Volumes
BY DEF Volumes

\* alloc_block fails and leaves all as it was, or takes a free block, zeroed.
LEMMA AllocFacts ==
  ASSUME NEW V \in Volumes, NEW a, a = AllocBlock(V)
  PROVE  /\ a.v \in Volumes /\ a.v.ino = V.ino /\ a.v.imap = V.imap /\ a.b \in Blocks \union {0}
         /\ a.b = 0 => a.v = V
         /\ a.b # 0 => /\ a.b \in Blocks \ V.bmap /\ a.v.bmap = V.bmap \union {a.b}
                       /\ a.v.data = [V.data EXCEPT ![a.b] = BlockOf(Zero)]
<1> DEFINE free == Blocks \ V.bmap
<1>1. CASE free = {}
  BY <1>1, VolumeSizes DEF AllocBlock
<1>2. CASE free # {}
  <2>1. Min(free) \in free
    BY <1>2, VolumeSizes, LeastNumber
  <2> DEFINE b == Min(free)
  <2>2. a = [v |-> [V EXCEPT !.bmap = @ \union {b}, !.data[b] = BlockOf(Zero)], b |-> b]
    BY <1>2 DEF AllocBlock
  <2>3. b \in Blocks /\ b \notin V.bmap /\ b # 0
    BY <2>1, VolumeSizes
  <2> HIDE DEF b, free
  <2>4. a.b = b /\ a.v = [V EXCEPT !.bmap = @ \union {b}, !.data[b] = BlockOf(Zero)]
    BY <2>2
  <2>5. a.v = [imap |-> V.imap, bmap |-> V.bmap \union {b}, data |-> [V.data EXCEPT ![b] = BlockOf(Zero)],
               ino |-> V.ino]
    <3>1. V = [imap |-> V.imap, bmap |-> V.bmap, data |-> V.data, ino |-> V.ino]
      BY Parts
    <3>2. QED
      BY <2>4, <3>1
  <2>6. a.v \in Volumes
    <3>1. [V.data EXCEPT ![b] = BlockOf(Zero)] \in [Blocks -> [Offsets -> Item]]
      BY Parts, Items
    <3>2. V.bmap \union {b} \subseteq Blocks /\ V.imap \subseteq Inodes /\ V.ino \in [Inodes -> Inode]
      BY <2>3, Parts
    <3>3. QED
      BY <2>5, <3>1, <3>2 DEF Volumes
  <2>7. QED
    BY <2>3, <2>4, <2>5, <2>6
<1>3. QED
  BY <1>1, <1>2

\* What Ref says of the links of an inode.
LEMMA RefFacts ==
  ASSUME NEW V \in Volumes, NEW i \in Inodes
  PROVE  /\ \A k \in Pointers : k \in Links /\ k # Direct /\ Ref(V, i, k) = V.ino[i].ptr[k]
         /\ Direct \in Links /\ Ref(V, i, Direct) = V.ino[i].ind
         /\ \A k \in Offsets : /\ Direct + 1 + k \in Links /\ Direct + 1 + k # Direct
                               /\ Ref(V, i, Direct + 1 + k) = IF V.ino[i].ind = 0 THEN 0 ELSE V.data[V.ino[i].ind][k].n
         /\ \A k \in Links : k \in Pointers \/ k = Direct \/ (k - Direct - 1 \in Offsets /\ k = Direct + 1 + (k - Direct - 1))
<1>1. Direct \in Nat /\ Width \in Nat /\ Width >= 1
  BY VolumeSizes
<1>2. \A k \in Offsets : k \in Nat /\ Direct + 1 + k > Direct /\ (Direct + 1 + k) - Direct - 1 = k
  BY <1>1 DEF Offsets
<1>3. QED
  BY <1>1, <1>2 DEF Ref, Pointers, Links, Offsets

\* The links of an inode stay if it and its indirect block do.
LEMMA RefStays ==
  ASSUME NEW V \in Volumes, NEW U \in Volumes, NEW i \in Inodes, U.ino[i] = V.ino[i],
         V.ino[i].ind # 0 => U.data[V.ino[i].ind] = V.data[V.ino[i].ind]
  PROVE  \A k \in Links : Ref(U, i, k) = Ref(V, i, k)
BY DEF Ref

\* A link that was empty gets a free block.
LEMMA BooksGain ==
  ASSUME NEW V, NEW U, NEW tight, Books(V, tight), 0 \notin V.bmap, NEW i \in Inodes, NEW k \in Links,
         Ref(V, i, k) = 0, Ref(U, i, k) \notin V.bmap, Ref(U, i, k) # 0,
         \A j \in Inodes, l \in Links : j # i \/ l # k => Ref(U, j, l) = Ref(V, j, l),
         U.bmap = V.bmap \union {Ref(U, i, k)}
  PROVE  Books(U, tight)
<1>1. \A j \in Inodes, l \in Links : (j # i \/ l # k) /\ Ref(U, j, l) # 0 => Ref(U, j, l) # Ref(U, i, k)
  BY DEF Books
<1>2. ASSUME NEW j \in Inodes, NEW m \in Inodes, NEW l \in Links, NEW n \in Links,
             Ref(U, j, l) # 0, Ref(U, j, l) = Ref(U, m, n)
      PROVE  j = m /\ l = n
  <2>1. CASE j = i /\ l = k
    BY <1>1, <1>2, <2>1
  <2>2. CASE m = i /\ n = k
    BY <1>1, <1>2, <2>2
  <2>3. CASE (j # i \/ l # k) /\ (m # i \/ n # k)
    BY <1>2, <2>3 DEF Books
  <2>4. QED
    BY <2>1, <2>2, <2>3
<1>3. ASSUME NEW j \in Inodes, NEW l \in Links, Ref(U, j, l) # 0 PROVE Ref(U, j, l) \in U.bmap
  BY <1>3 DEF Books
<1>4. ASSUME tight, NEW b \in U.bmap PROVE \E j \in Inodes, l \in Links : Ref(U, j, l) = b
  <2>1. CASE b = Ref(U, i, k)
    BY <2>1
  <2>2. CASE b # Ref(U, i, k)
    <3>1. PICK j \in Inodes, l \in Links : Ref(V, j, l) = b
      BY <1>4, <2>2 DEF Books
    <3>2. b # 0
      BY <1>4, <2>2
    <3>3. j # i \/ l # k
      BY <3>1, <3>2
    <3>4. QED
      BY <3>1, <3>3
  <2>3. QED
    BY <2>1, <2>2
<1>5. QED
  BY <1>2, <1>3, <1>4 DEF Books

\* A block that is not the indirect block of an inode may hold anything.
LEMMA DataKeeps ==
  ASSUME NEW V \in Volumes, NEW U \in Volumes, NEW tight, Books(V, tight),
         U.ino = V.ino, U.bmap = V.bmap, NEW i \in Inodes, NEW k \in Links, k # Direct, Ref(V, i, k) # 0,
         \A c \in Blocks : c # Ref(V, i, k) => U.data[c] = V.data[c]
  PROVE  (\A j \in Inodes, l \in Links : Ref(U, j, l) = Ref(V, j, l)) /\ Books(U, tight)
<1>1. ASSUME NEW j \in Inodes PROVE \A l \in Links : Ref(U, j, l) = Ref(V, j, l)
  <2>1. V.ino[j].ind # 0 => V.ino[j].ind \in Blocks /\ V.ino[j].ind # Ref(V, i, k)
    <3>1. Direct \in Links /\ Ref(V, j, Direct) = V.ino[j].ind
      BY RefFacts
    <3>2. V.ino[j].ind \in Blocks \union {0}
      BY Parts DEF Inode
    <3>3. QED
      BY <3>1, <3>2 DEF Books
  <2>2. QED
    BY <2>1, RefStays
<1>2. QED
  BY <1>1 DEF Books

\* The volume with an inode as it is in memory.
With(V, i, f) == [V EXCEPT !.ino[i] = f]

\* All else is as it was.
LEMMA WithFacts ==
  ASSUME NEW V \in Volumes, NEW i \in Inodes, NEW f \in Inode
  PROVE  /\ With(V, i, f) \in Volumes /\ With(V, i, f).data = V.data
         /\ With(V, i, f).bmap = V.bmap /\ With(V, i, f).imap = V.imap
         /\ With(V, i, f).ino[i] = f /\ \A j \in Inodes \ {i} : With(V, i, f).ino[j] = V.ino[j]
<1>1. With(V, i, f) = [imap |-> V.imap, bmap |-> V.bmap, data |-> V.data, ino |-> [V.ino EXCEPT ![i] = f]]
  BY Parts DEF With
<1>2. [V.ino EXCEPT ![i] = f] \in [Inodes -> Inode]
  BY Parts
<1>3. With(V, i, f) \in Volumes
  BY <1>1, <1>2, Parts DEF Volumes
<1>4. QED
  BY <1>1, <1>3, Parts

\* A pointer of the inode in memory that is null gets a block.
LEMMA PointerGains ==
  ASSUME NEW V \in Volumes, NEW i \in Inodes, NEW fi \in Inode, NEW gi \in Inode, NEW tight,
         Books(With(V, i, fi), tight), NEW a, a = AllocBlock(V), a.b # 0,
         \/ \E l \in Pointers : fi.ptr[l] = 0 /\ gi.ind = fi.ind /\ gi.ptr = [fi.ptr EXCEPT ![l] = a.b]
         \/ fi.ind = 0 /\ gi.ind = a.b /\ gi.ptr = fi.ptr
  PROVE  Books(With(a.v, i, gi), tight)
<1> DEFINE W == With(V, i, fi)
<1> DEFINE U == With(a.v, i, gi)
<1>1. /\ a.v \in Volumes /\ a.v.ino = V.ino /\ a.b \in Blocks \ V.bmap /\ a.v.bmap = V.bmap \union {a.b}
      /\ a.v.data = [V.data EXCEPT ![a.b] = BlockOf(Zero)]
  BY AllocFacts
<1>2. /\ W \in Volumes /\ W.data = V.data /\ W.bmap = V.bmap /\ W.ino[i] = fi
      /\ \A j \in Inodes \ {i} : W.ino[j] = V.ino[j]
  BY WithFacts
<1>3. /\ U \in Volumes /\ U.data = a.v.data /\ U.bmap = a.v.bmap /\ U.ino[i] = gi
      /\ \A j \in Inodes \ {i} : U.ino[j] = V.ino[j]
  <2> DEFINE X == a.v
  <2>1. X \in Volumes /\ X.ino = V.ino
    BY <1>1
  <2> HIDE DEF X
  <2>2. /\ With(X, i, gi) \in Volumes /\ With(X, i, gi).data = X.data /\ With(X, i, gi).bmap = X.bmap
        /\ With(X, i, gi).ino[i] = gi /\ \A j \in Inodes \ {i} : With(X, i, gi).ino[j] = X.ino[j]
    BY <2>1, WithFacts
  <2>3. QED
    BY <2>1, <2>2 DEF X
<1> HIDE DEF W, U
<1>4. 0 \notin V.bmap /\ a.b # 0 /\ V.data \in [Blocks -> [Offsets -> Item]]
  BY Parts, VolumeSizes
<1>5. ASSUME NEW j \in Inodes, W.ino[j].ind # 0 PROVE W.ino[j].ind # a.b /\ W.ino[j].ind \in Blocks
  <2>1. Direct \in Links /\ Ref(W, j, Direct) = W.ino[j].ind
    BY <1>2, RefFacts
  <2>2. W.ino[j].ind \in V.bmap
    BY <1>2, <1>5, <2>1 DEF Books, W
  <2>3. QED
    BY <1>1, <2>2, Parts
<1>6. ASSUME NEW j \in Inodes, W.ino[j].ind # 0 PROVE U.data[W.ino[j].ind] = W.data[W.ino[j].ind]
  BY <1>1, <1>2, <1>3, <1>4, <1>5, <1>6
<1>7. \A j \in Inodes, l \in Links : j # i => Ref(U, j, l) = Ref(W, j, l)
  BY <1>2, <1>3, <1>6, RefStays
<1>8. ASSUME NEW l \in Pointers, fi.ptr[l] = 0, gi.ind = fi.ind, gi.ptr = [fi.ptr EXCEPT ![l] = a.b] PROVE Books(U, tight)
  <2>1. l \in Links /\ Ref(W, i, l) = 0 /\ Ref(U, i, l) = a.b
    BY <1>2, <1>3, <1>8, RefFacts DEF Inode
  <2>2. ASSUME NEW k \in Links, k # l PROVE Ref(U, i, k) = Ref(W, i, k)
    <3>1. \A p \in Pointers : p # l => gi.ptr[p] = fi.ptr[p]
      BY <1>8 DEF Inode
    <3>2. gi.ind = fi.ind
      BY <1>8
    <3>3. k \in Pointers \/ ~(k < Direct)
      BY VolumeSizes DEF Links, Pointers
    <3>4. k \in Pointers => k < Direct
      BY VolumeSizes DEF Pointers
    <3>5. QED
      BY <1>2, <1>3, <1>6, <2>2, <3>1, <3>2, <3>3, <3>4 DEF Ref
  <2>3. QED
    BY <1>1, <1>2, <1>3, <1>4, <1>7, <2>1, <2>2, BooksGain DEF W
<1>9. ASSUME fi.ind = 0, gi.ind = a.b, gi.ptr = fi.ptr PROVE Books(U, tight)
  <2>1. Direct \in Links /\ Ref(W, i, Direct) = 0 /\ Ref(U, i, Direct) = a.b
    BY <1>2, <1>3, <1>9, RefFacts DEF Inode
  <2>2. ASSUME NEW k \in Links, k # Direct PROVE Ref(U, i, k) = Ref(W, i, k)
    <3>1. CASE k \in Pointers
      BY <1>2, <1>3, <1>9, <3>1, RefFacts DEF Inode
    <3>2. CASE k \notin Pointers
      <4>1. k - Direct - 1 \in Offsets /\ k = Direct + 1 + (k - Direct - 1)
        BY <1>2, <2>2, <3>2, RefFacts
      <4>2. Ref(W, i, k) = 0
        BY <1>2, <1>9, <4>1, RefFacts
      <4>3. Ref(U, i, k) = U.data[a.b][k - Direct - 1].n
        <5>1. U.ino[i].ind = a.b
          BY <1>3, <1>9 DEF Inode
        <5>2. QED
          BY <1>3, <1>4, <4>1, <5>1, RefFacts
      <4>4. U.data[a.b] = BlockOf(Zero)
        BY <1>1, <1>3, <1>4
      <4>5. QED
        BY <4>1, <4>2, <4>3, <4>4, Items
    <3>3. QED
      BY <3>1, <3>2
  <2>3. QED
    BY <1>1, <1>2, <1>3, <1>4, <1>7, <2>1, <2>2, BooksGain DEF W
<1>10. QED
  BY <1>8, <1>9 DEF U

\* What the inode in memory refers to.
LEMMA LinkInMemory ==
  ASSUME NEW V \in Volumes, NEW i \in Inodes, NEW f \in Inode
  PROVE  /\ \A k \in Pointers : k \in Links /\ k # Direct /\ Ref(With(V, i, f), i, k) = f.ptr[k]
         /\ Direct \in Links /\ Ref(With(V, i, f), i, Direct) = f.ind
         /\ \A k \in Offsets : /\ Direct + 1 + k \in Links /\ Direct + 1 + k # Direct
                               /\ Ref(With(V, i, f), i, Direct + 1 + k) = IF f.ind = 0 THEN 0 ELSE V.data[f.ind][k].n
<1> DEFINE U == With(V, i, f)
<1>1. /\ U \in Volumes /\ U.data = V.data /\ U.bmap = V.bmap /\ U.ino[i] = f
      /\ \A j \in Inodes \ {i} : U.ino[j] = V.ino[j]
  BY WithFacts
<1> HIDE DEF U
<1>2. QED
  BY <1>1, RefFacts DEF U

\* What resolve_block does to the volume with the inode in memory.
Resolved(V, i, fi, r, tight) ==
    /\ r.v \in Volumes /\ r.v.ino = V.ino /\ r.v.imap = V.imap /\ V.bmap \subseteq r.v.bmap
    /\ r.fi \in Inode /\ r.fi.size = fi.size /\ r.fi.type = fi.type
    /\ r.b \in Blocks \union {0} /\ Books(With(r.v, i, r.fi), tight)
    /\ \A b \in V.bmap : b # fi.ind \/ r.b = 0 => r.v.data[b] = V.data[b]
    /\ r.b # 0 => \E k \in Links : k # Direct /\ Ref(With(r.v, i, r.fi), i, k) = r.b

\* Located leaves every block that is in use alone.
LEMMA LocatedFacts ==
  ASSUME NEW V \in Volumes, NEW p \in Blocks \union {0}, NEW a, a = Located(V, p)
  PROVE  /\ a.v \in Volumes /\ a.v.ino = V.ino /\ a.v.imap = V.imap /\ V.bmap \subseteq a.v.bmap
         /\ a.b \in Blocks \union {0} /\ \A b \in V.bmap : a.v.data[b] = V.data[b]
         /\ a.b = 0 => a.v = V
         /\ p # 0 => a.v = V /\ a.b = p
         /\ p = 0 => a = AllocBlock(V)
<1>1. CASE p # 0
  BY <1>1 DEF Located
<1>2. CASE p = 0
  <2>1. a = AllocBlock(V)
    BY <1>2 DEF Located
  <2>2. /\ a.v \in Volumes /\ a.v.ino = V.ino /\ a.v.imap = V.imap /\ a.b \in Blocks \union {0}
        /\ a.b = 0 => a.v = V
        /\ a.b # 0 => /\ a.b \in Blocks \ V.bmap /\ a.v.bmap = V.bmap \union {a.b}
                      /\ a.v.data = [V.data EXCEPT ![a.b] = BlockOf(Zero)]
    BY <2>1, AllocFacts
  <2>3. QED
    BY <1>2, <2>1, <2>2, Parts
<1>3. QED
  BY <1>1, <1>2

\* resolve_block through a pointer of the inode.
LEMMA DirectKeeps ==
  ASSUME NEW V \in Volumes, NEW i \in Inodes, NEW fi \in Inode, NEW tight, Books(With(V, i, fi), tight),
         NEW l \in Pointers
  PROVE  Resolved(V, i, fi, ResolveDirect(V, fi, l), tight)
<1> DEFINE a == Located(V, fi.ptr[l])
<1> DEFINE gi == [fi EXCEPT !.ptr[l] = a.b]
<1>1. ResolveDirect(V, fi, l) = [v |-> a.v, fi |-> gi, b |-> a.b]
  BY DEF ResolveDirect, Inode
<1>2. fi.ptr[l] \in Blocks \union {0}
  BY DEF Inode
<1>3. /\ a.v \in Volumes /\ a.v.ino = V.ino /\ a.v.imap = V.imap /\ V.bmap \subseteq a.v.bmap
      /\ a.b \in Blocks \union {0} /\ \A b \in V.bmap : a.v.data[b] = V.data[b]
      /\ a.b = 0 => a.v = V
      /\ fi.ptr[l] # 0 => a.v = V /\ a.b = fi.ptr[l]
      /\ fi.ptr[l] = 0 => a = AllocBlock(V)
  BY <1>2, LocatedFacts
<1> HIDE DEF a
<1>4. /\ gi \in Inode /\ gi.size = fi.size /\ gi.type = fi.type /\ gi.ind = fi.ind
      /\ gi.ptr = [fi.ptr EXCEPT ![l] = a.b] /\ gi.ptr[l] = a.b
  BY <1>3 DEF Inode
<1>5. fi.ptr[l] = a.b => gi = fi
  BY DEF Inode
<1> HIDE DEF gi
<1>6. Books(With(a.v, i, gi), tight)
  <2>1. CASE fi.ptr[l] # 0
    BY <1>3, <1>5, <2>1
  <2>2. CASE fi.ptr[l] = 0 /\ a.b = 0
    BY <1>3, <1>5, <2>2
  <2>3. CASE fi.ptr[l] = 0 /\ a.b # 0
    BY <1>3, <1>4, <2>3, PointerGains
  <2>4. QED
    BY <2>1, <2>2, <2>3
<1>7. l \in Links /\ l # Direct /\ Ref(With(a.v, i, gi), i, l) = a.b
  <2>0. gi \in Inode
    BY <1>4
  <2>1. ASSUME NEW W \in Volumes PROVE l \in Links /\ l # Direct /\ Ref(With(W, i, gi), i, l) = gi.ptr[l]
    BY <2>0, LinkInMemory
  <2>2. QED
    BY <1>3, <1>4, <2>1
<1>8. QED
  BY <1>1, <1>3, <1>4, <1>6, <1>7 DEF Resolved

\* An empty place of the indirect block gets a block.
LEMMA EntryGains ==
  ASSUME NEW V \in Volumes, NEW i \in Inodes, NEW f \in Inode, f.ind # 0, NEW tight,
         Books(With(V, i, f), tight), NEW k \in Offsets, V.data[f.ind][k].n = 0,
         NEW c, c = AllocBlock(V), c.b # 0, NEW W \in Volumes, W.ino = V.ino, W.bmap = c.v.bmap,
         \A b \in Blocks : b # f.ind => W.data[b] = c.v.data[b],
         \A o \in Offsets : W.data[f.ind][o].n = IF o = k THEN c.b ELSE V.data[f.ind][o].n
  PROVE  Books(With(W, i, f), tight)
<1> DEFINE A == With(V, i, f)
<1> DEFINE B == With(W, i, f)
<1>1. /\ c.b \in Blocks \ V.bmap /\ c.v.bmap = V.bmap \union {c.b}
      /\ \A b \in Blocks : b # c.b => c.v.data[b] = V.data[b]
  <2>1. c.b \in Blocks \ V.bmap /\ c.v.bmap = V.bmap \union {c.b} /\ c.v.data = [V.data EXCEPT ![c.b] = BlockOf(Zero)]
    BY AllocFacts
  <2>2. QED
    BY <2>1, Parts
<1>2. /\ A \in Volumes /\ A.data = V.data /\ A.bmap = V.bmap /\ A.ino[i] = f
      /\ \A j \in Inodes \ {i} : A.ino[j] = V.ino[j]
  BY WithFacts
<1>3. /\ B \in Volumes /\ B.data = W.data /\ B.bmap = W.bmap /\ B.ino[i] = f
      /\ \A j \in Inodes \ {i} : B.ino[j] = V.ino[j]
  BY WithFacts
<1> DEFINE l == Direct + 1 + k
<1>4. /\ l \in Links /\ Ref(A, i, l) = 0 /\ Ref(B, i, l) = c.b
      /\ Direct \in Links /\ l # Direct /\ Ref(A, i, Direct) = f.ind
  <2>1. l \in Links /\ l # Direct /\ Direct \in Links /\ Ref(A, i, Direct) = f.ind
    BY <1>2, RefFacts
  <2>2. Ref(A, i, l) = 0
    BY <1>2, RefFacts
  <2>3. Ref(B, i, l) = B.data[f.ind][k].n
    BY <1>3, RefFacts
  <2>4. QED
    BY <1>3, <2>1, <2>2, <2>3
<1> HIDE DEF A, B, l
<1>5. f.ind \in Blocks
  BY DEF Inode
<1>6. ASSUME NEW j \in Inodes, j # i PROVE \A m \in Links : Ref(B, j, m) = Ref(A, j, m)
  <2>1. Ref(A, j, Direct) = A.ino[j].ind
    BY <1>2, RefFacts
  <2>2. ASSUME A.ino[j].ind # 0 PROVE B.data[A.ino[j].ind] = A.data[A.ino[j].ind]
    <3>1. A.ino[j].ind # f.ind
      BY <1>4, <1>6, <2>1, <2>2 DEF Books, A
    <3>2. A.ino[j].ind \in V.bmap
      BY <1>2, <1>4, <2>1, <2>2 DEF Books, A
    <3>3. A.ino[j].ind # c.b /\ A.ino[j].ind \in Blocks
      BY <1>1, <3>2, Parts
    <3>4. QED
      BY <1>1, <1>2, <1>3, <3>1, <3>3
  <2>3. QED
    BY <1>2, <1>3, <1>6, <2>2, RefStays
<1>7. ASSUME NEW m \in Links, m # l PROVE Ref(B, i, m) = Ref(A, i, m)
  <2>1. CASE m \in Pointers \/ m = Direct
    <3>1. m < Direct \/ m = Direct
      BY <2>1, VolumeSizes DEF Pointers
    <3>2. QED
      BY <1>2, <1>3, <3>1 DEF Ref
  <2>2. CASE ~(m \in Pointers \/ m = Direct)
    <3> DEFINE o == m - Direct - 1
    <3>1. o \in Offsets /\ m = Direct + 1 + o
      BY <1>2, <2>2, RefFacts
    <3> HIDE DEF o
    <3>2. o # k
      BY <1>7, <3>1 DEF l
    <3>3. Ref(A, i, m) = A.data[f.ind][o].n /\ Ref(B, i, m) = B.data[f.ind][o].n
      BY <1>2, <1>3, <3>1, RefFacts
    <3>4. QED
      BY <1>2, <1>3, <3>1, <3>2, <3>3
  <2>3. QED
    BY <2>1, <2>2
<1>8. 0 \notin A.bmap /\ c.b # 0 /\ Books(A, tight)
  BY <1>2, Parts, VolumeSizes DEF A
<1>9. B.bmap = A.bmap \union {c.b} /\ c.b \notin A.bmap
  BY <1>1, <1>2, <1>3
<1>10. Books(B, tight)
  BY <1>4, <1>6, <1>7, <1>8, <1>9, BooksGain
<1>11. QED
  BY <1>10 DEF B

\* One number in a block is changed.
Numbered(X, b, k, n) == [X EXCEPT !.data[b][k].n = n]

\* Nothing else in the volume changes, nor the name.
OneNumber(W, X, b, k, n) ==
    /\ W \in Volumes /\ W.ino = X.ino /\ W.imap = X.imap /\ W.bmap = X.bmap
    /\ \A x \in Blocks : x # b => W.data[x] = X.data[x]
    /\ \A o \in Offsets : W.data[b][o].n = IF o = k THEN n ELSE X.data[b][o].n
    /\ \A o \in Offsets : W.data[b][o].name = X.data[b][o].name

\* That is what Numbered does.
LEMMA ItemSet ==
  ASSUME NEW X \in Volumes, NEW b \in Blocks, NEW k \in Offsets, NEW n \in Nat,
         NEW W, W = Numbered(X, b, k, n)
  PROVE  OneNumber(W, X, b, k, n)
<1> DEFINE e == [X.data[b][k] EXCEPT !.n = n]
<1> DEFINE q == [X.data[b] EXCEPT ![k] = e]
<1> DEFINE d == [X.data EXCEPT ![b] = q]
<1>1. X = [imap |-> X.imap, bmap |-> X.bmap, data |-> X.data, ino |-> X.ino] /\ X.data \in [Blocks -> [Offsets -> Item]]
  BY Parts
<1>2. W = [imap |-> X.imap, bmap |-> X.bmap, data |-> d, ino |-> X.ino]
  BY <1>1 DEF Item, Numbered
<1>3. X.data[b] \in [Offsets -> Item] /\ X.data[b][k] \in Item
  BY <1>1
<1>4. e \in Item /\ e.n = n /\ e.name = X.data[b][k].name
  BY <1>3 DEF Item
<1> HIDE DEF e
<1>5. q \in [Offsets -> Item] /\ q[k] = e /\ \A o \in Offsets : o # k => q[o] = X.data[b][o]
  BY <1>3, <1>4
<1> HIDE DEF q
<1>6. d \in [Blocks -> [Offsets -> Item]] /\ d[b] = q /\ \A x \in Blocks : x # b => d[x] = X.data[x]
  BY <1>1, <1>5
<1> HIDE DEF d
<1>7. W \in Volumes
  BY <1>2, <1>6, Parts DEF Volumes
<1>8. W.ino = X.ino /\ W.imap = X.imap /\ W.bmap = X.bmap /\ W.data = d
  BY <1>2
<1>9. QED
  BY <1>4, <1>5, <1>6, <1>7, <1>8 DEF OneNumber

\* A block is filled.
Blocked(X, b, q) == [X EXCEPT !.data[b] = q]

\* All else is as it was.
LEMMA BlockSet ==
  ASSUME NEW X \in Volumes, NEW b \in Blocks, NEW q \in [Offsets -> Item], NEW W, W = Blocked(X, b, q)
  PROVE  /\ W \in Volumes /\ W.ino = X.ino /\ W.imap = X.imap /\ W.bmap = X.bmap
         /\ \A x \in Blocks : x # b => W.data[x] = X.data[x]
         /\ W.data[b] = q
<1>1. X = [imap |-> X.imap, bmap |-> X.bmap, data |-> X.data, ino |-> X.ino] /\ X.data \in [Blocks -> [Offsets -> Item]]
  BY Parts
<1>2. W = [imap |-> X.imap, bmap |-> X.bmap, data |-> [X.data EXCEPT ![b] = q], ino |-> X.ino]
  BY <1>1 DEF Blocked
<1>3. [X.data EXCEPT ![b] = q] \in [Blocks -> [Offsets -> Item]]
  BY <1>1
<1>4. W \in Volumes
  BY <1>2, <1>3, Parts DEF Volumes
<1>5. QED
  BY <1>1, <1>2, <1>4

\* Volumes with the same items are the same.
LEMMA SameItems ==
  ASSUME NEW V \in Volumes, NEW U \in Volumes, U.ino = V.ino, U.imap = V.imap, U.bmap = V.bmap,
         NEW b, \A x \in Blocks : x # b => U.data[x] = V.data[x],
         \A o \in Offsets : b \in Blocks => U.data[b][o].n = V.data[b][o].n /\ U.data[b][o].name = V.data[b][o].name
  PROVE  U = V
<1>1. ASSUME NEW x \in Blocks PROVE U.data[x] = V.data[x]
  <2>1. CASE x # b
    BY <2>1
  <2>2. CASE x = b
    <3>1. ASSUME NEW o \in Offsets PROVE U.data[x][o] = V.data[x][o]
      <4>1. U.data[x][o] \in Item /\ V.data[x][o] \in Item
        BY Parts
      <4>2. U.data[x][o].n = V.data[x][o].n /\ U.data[x][o].name = V.data[x][o].name
        BY <2>2
      <4>3. QED
        BY <4>1, <4>2 DEF Item
    <3>2. U.data[x] \in [Offsets -> Item] /\ V.data[x] \in [Offsets -> Item]
      BY Parts
    <3>3. QED
      BY <3>1, <3>2
  <2>3. QED
    BY <2>1, <2>2
<1>2. U.data = V.data
  BY <1>1, Parts
<1>3. QED
  BY <1>2, Parts

\* resolve_block through the indirect block.
LEMMA IndirectKeeps ==
  ASSUME NEW V \in Volumes, NEW i \in Inodes, NEW fi \in Inode, NEW tight, Books(With(V, i, fi), tight),
         NEW k \in Offsets
  PROVE  Resolved(V, i, fi, ResolveIndirect(V, fi, k), tight)
<1> DEFINE a == Located(V, fi.ind)
<1> DEFINE has == [fi EXCEPT !.ind = a.b]
<1> DEFINE p == a.v.data[a.b][k].n
<1> DEFINE c == Located(a.v, p)
<1> DEFINE W == Numbered(c.v, a.b, k, c.b)
<1> DEFINE r == ResolveIndirect(V, fi, k)
<1>1. r = IF a.b = 0 THEN [v |-> V, fi |-> fi, b |-> 0]
          ELSE IF c.b = 0 THEN [v |-> a.v, fi |-> has, b |-> 0]
          ELSE [v |-> W, fi |-> has, b |-> c.b]
  BY Zenon DEF ResolveIndirect, Numbered
<1>2. fi.ind \in Blocks \union {0}
  BY DEF Inode
<1>3. /\ a.v \in Volumes /\ a.v.ino = V.ino /\ a.v.imap = V.imap /\ V.bmap \subseteq a.v.bmap
      /\ a.b \in Blocks \union {0} /\ \A b \in V.bmap : a.v.data[b] = V.data[b]
      /\ fi.ind # 0 => a.v = V /\ a.b = fi.ind
      /\ fi.ind = 0 => a = AllocBlock(V)
  BY <1>2, LocatedFacts
<1>4. fi.ind = 0 /\ a.b # 0 => a.b \notin V.bmap
  BY <1>3, AllocFacts
<1> DEFINE A == a.v
<1> DEFINE b == a.b
<1>5. r = IF b = 0 THEN [v |-> V, fi |-> fi, b |-> 0]
          ELSE IF c.b = 0 THEN [v |-> A, fi |-> has, b |-> 0]
          ELSE [v |-> W, fi |-> has, b |-> c.b]
  BY <1>1
<1>6. /\ A \in Volumes /\ A.ino = V.ino /\ A.imap = V.imap /\ V.bmap \subseteq A.bmap
      /\ b \in Blocks \union {0} /\ \A x \in V.bmap : A.data[x] = V.data[x]
      /\ fi.ind # 0 => A = V /\ b = fi.ind
      /\ fi.ind = 0 /\ b # 0 => b \notin V.bmap
  BY <1>3, <1>4
<1>7. c = Located(A, p) /\ p = A.data[b][k].n
  OBVIOUS
<1>8. W = Numbered(c.v, b, k, c.b)
  OBVIOUS
<1>9. /\ has \in Inode /\ has.size = fi.size /\ has.type = fi.type /\ has.ptr = fi.ptr /\ has.ind = b
      /\ fi.ind = b => has = fi
  BY <1>6 DEF Inode
<1>10. ASSUME b = 0 PROVE Resolved(V, i, fi, r, tight)
  <2>1. r.v = V /\ r.fi = fi /\ r.b = 0
    BY <1>5, <1>10
  <2>2. QED
    BY <2>1 DEF Resolved
<1>11. ASSUME b # 0 PROVE Books(With(A, i, has), tight)
  <2>1. CASE fi.ind # 0
    BY <1>6, <1>9, <2>1
  <2>2. CASE fi.ind = 0
    BY <1>3, <1>9, <1>11, <2>2, PointerGains
  <2>3. QED
    BY <2>1, <2>2
<1> HIDE DEF a, has, W, p, c, A, b, r
<1>12. ASSUME b # 0 PROVE p \in Blocks \union {0} /\ Ref(With(A, i, has), i, Direct + 1 + k) = p
  <2>1. /\ Direct + 1 + k \in Links
        /\ Ref(With(A, i, has), i, Direct + 1 + k) = IF has.ind = 0 THEN 0 ELSE A.data[has.ind][k].n
    BY <1>6, <1>9, LinkInMemory
  <2>2. Ref(With(A, i, has), i, Direct + 1 + k) = p
    BY <1>7, <1>9, <1>12, <2>1
  <2>3. With(A, i, has).bmap = A.bmap
    BY <1>6, <1>9, WithFacts
  <2>4. p # 0 => p \in A.bmap
    BY <1>11, <1>12, <2>1, <2>2, <2>3 DEF Books
  <2>5. QED
    BY <1>6, <2>2, <2>4, Parts
<1>13. ASSUME b # 0
       PROVE  /\ c.v \in Volumes /\ c.v.ino = A.ino /\ c.v.imap = A.imap /\ A.bmap \subseteq c.v.bmap
              /\ c.b \in Blocks \union {0} /\ \A x \in A.bmap : c.v.data[x] = A.data[x]
              /\ p # 0 => c.v = A /\ c.b = p
              /\ p = 0 => c = AllocBlock(A)
  BY <1>6, <1>7, <1>12, <1>13, LocatedFacts
<1>14. ASSUME b # 0, c.b = 0 PROVE Resolved(V, i, fi, r, tight)
  <2>1. r.v = A /\ r.fi = has /\ r.b = 0
    BY <1>5, <1>14
  <2>2. QED
    BY <1>6, <1>9, <1>11, <1>14, <2>1 DEF Resolved
<1>15. ASSUME b # 0, c.b # 0 PROVE Resolved(V, i, fi, r, tight)
  <2>1. r.v = W /\ r.fi = has /\ r.b = c.b
    BY <1>5, <1>15
  <2> DEFINE X == c.v
  <2>2. X \in Volumes /\ X.ino = V.ino /\ X.imap = V.imap /\ A.bmap \subseteq X.bmap /\ c.b \in Blocks
        /\ \A x \in A.bmap : X.data[x] = A.data[x]
    BY <1>6, <1>13, <1>15
  <2>3. W = Numbered(X, b, k, c.b)
    BY <1>8
  <2> HIDE DEF X
  <2>4. /\ W \in Volumes /\ W.ino = X.ino /\ W.imap = X.imap /\ W.bmap = X.bmap
        /\ \A x \in Blocks : x # b => W.data[x] = X.data[x]
        /\ \A o \in Offsets : W.data[b][o].n = IF o = k THEN c.b ELSE X.data[b][o].n
        /\ \A o \in Offsets : W.data[b][o].name = X.data[b][o].name
    <3>1. b \in Blocks /\ c.b \in Nat
      BY <1>6, <1>15, <2>2, VolumeSizes
    <3> DEFINE n == c.b
    <3>2. X \in Volumes /\ n \in Nat /\ W = Numbered(X, b, k, n)
      BY <2>2, <2>3, <3>1
    <3> HIDE DEF n
    <3>3. OneNumber(W, X, b, k, n)
      BY <3>1, <3>2, ItemSet
    <3>4. QED
      BY <3>3 DEF n, OneNumber
  <2>5. b \in A.bmap
    <3>1. Direct \in Links /\ Ref(With(A, i, has), i, Direct) = b
      BY <1>6, <1>9, LinkInMemory
    <3>2. With(A, i, has).bmap = A.bmap
      BY <1>6, <1>9, WithFacts
    <3>3. QED
      BY <1>11, <1>15, <3>1, <3>2 DEF Books
  <2>6. Books(With(W, i, has), tight)
    <3>1. CASE p # 0
      <4>1. X = A /\ c.b = p
        BY <1>13, <1>15, <3>1 DEF X
      <4>2. W = X
        BY <1>7, <1>15, <2>2, <2>4, <4>1, <1>6, SameItems
      <4>3. QED
        BY <1>11, <1>15, <4>1, <4>2
    <3>2. CASE p = 0
      <4>1. c = AllocBlock(A) /\ A.data[b][k].n = 0
        BY <1>7, <1>13, <1>15, <3>2
      <4>2. \A o \in Offsets : W.data[b][o].n = IF o = k THEN c.b ELSE A.data[b][o].n
        BY <2>2, <2>4, <2>5
      <4>3. W.ino = A.ino /\ W.bmap = c.v.bmap /\ \A x \in Blocks : x # b => W.data[x] = c.v.data[x]
        BY <1>6, <2>2, <2>4 DEF X
      <4>4. W \in Volumes /\ A \in Volumes /\ has \in Inode /\ has.ind = b /\ has.ind # 0 /\ c.b # 0
        BY <1>6, <1>9, <1>15, <2>4
      <4>5. Books(With(A, i, has), tight)
        BY <1>11, <1>15
      <4>6. QED
        BY <4>1, <4>2, <4>3, <4>4, <4>5, EntryGains
    <3>3. QED
      BY <3>1, <3>2
  <2>7. ASSUME NEW x \in V.bmap, x # fi.ind PROVE W.data[x] = V.data[x]
    <3>1. x # b /\ x \in Blocks /\ x \in A.bmap
      BY <1>6, <1>15, <2>7, Parts
    <3>2. QED
      BY <1>6, <2>2, <2>4, <3>1
  <2>8. /\ Direct + 1 + k \in Links /\ Direct + 1 + k # Direct
        /\ Ref(With(W, i, has), i, Direct + 1 + k) = c.b
    <3>1. /\ Direct + 1 + k \in Links /\ Direct + 1 + k # Direct
          /\ Ref(With(W, i, has), i, Direct + 1 + k) = IF has.ind = 0 THEN 0 ELSE W.data[has.ind][k].n
      BY <1>9, <2>4, LinkInMemory
    <3>2. QED
      BY <1>9, <1>15, <2>4, <3>1
  <2>9. W.ino = V.ino /\ W.imap = V.imap /\ V.bmap \subseteq W.bmap
    BY <1>6, <2>2, <2>4
  <2>10. QED
    BY <1>9, <1>15, <2>1, <2>2, <2>4, <2>6, <2>7, <2>8, <2>9 DEF Resolved
<1>16. QED
  BY <1>10, <1>14, <1>15 DEF r

\* resolve_block gives the inode in memory a block that is its own, or fails.
LEMMA ResolveKeeps ==
  ASSUME NEW V \in Volumes, NEW i \in Inodes, NEW fi \in Inode, NEW tight, Books(With(V, i, fi), tight),
         NEW l \in 0 .. MaxFileBlocks - 1
  PROVE  Resolved(V, i, fi, Resolve(V, fi, l), tight)
<1>1. CASE l < Direct
  <2>1. l \in Pointers
    BY <1>1, VolumeSizes DEF Pointers
  <2>2. Resolve(V, fi, l) = ResolveDirect(V, fi, l)
    BY <1>1, Zenon DEF Resolve
  <2>3. QED
    BY <2>1, <2>2, DirectKeeps
<1>2. CASE ~(l < Direct)
  <2>1. l - Direct \in Offsets
    BY <1>2, VolumeSizes DEF Offsets, MaxFileBlocks
  <2>2. Resolve(V, fi, l) = ResolveIndirect(V, fi, l - Direct)
    BY <1>2, Zenon DEF Resolve
  <2>3. QED
    BY <2>1, <2>2, IndirectKeeps
<1>3. QED
  BY <1>1, <1>2

(***************************************************************************)
(* A write.                                                                *)
(***************************************************************************)
\* V and f are what a write to inode i of O has made of the volume and of the inode so far.
Midway(O, i, V, f, tight) ==
    /\ V \in Volumes /\ V.ino = O.ino /\ V.imap = O.imap /\ O.bmap \subseteq V.bmap
    /\ f \in Inode /\ f.size = O.ino[i].size /\ f.type = O.ino[i].type
    /\ Books(O, FALSE) /\ Books(With(V, i, f), tight)
    /\ \A j \in Inodes \ {i}, k \in Links : Ref(O, j, k) # 0 => V.data[Ref(O, j, k)] = O.data[Ref(O, j, k)]

\* A link that is not null leads to a block.
LEMMA RefIsBlock ==
  ASSUME NEW V \in Volumes, NEW tight, Books(V, tight), NEW j \in Inodes, NEW k \in Links, Ref(V, j, k) # 0
  PROVE  Ref(V, j, k) \in Blocks /\ Ref(V, j, k) \in V.bmap
BY Parts DEF Books

\* The others still refer to what they did.
LEMMA MidwayStays ==
  ASSUME NEW O \in Volumes, NEW i \in Inodes, NEW V, NEW f, NEW tight, Midway(O, i, V, f, tight)
  PROVE  \A j \in Inodes, k \in Links : j # i => Ref(With(V, i, f), j, k) = Ref(O, j, k)
<1> DEFINE W == With(V, i, f)
<1>1. /\ V \in Volumes /\ V.ino = O.ino /\ f \in Inode
      /\ \A j \in Inodes \ {i}, k \in Links : Ref(O, j, k) # 0 => V.data[Ref(O, j, k)] = O.data[Ref(O, j, k)]
  BY DEF Midway
<1>2. W \in Volumes /\ W.data = V.data /\ \A j \in Inodes \ {i} : W.ino[j] = V.ino[j]
  BY <1>1, WithFacts
<1> HIDE DEF W
<1>3. ASSUME NEW j \in Inodes, j # i PROVE \A k \in Links : Ref(W, j, k) = Ref(O, j, k)
  <2>1. Direct \in Links /\ Ref(O, j, Direct) = O.ino[j].ind
    BY RefFacts
  <2>2. O.ino[j].ind # 0 => W.data[O.ino[j].ind] = O.data[O.ino[j].ind]
    BY <1>1, <1>2, <1>3, <2>1
  <2>3. W.ino[j] = O.ino[j]
    BY <1>1, <1>2, <1>3
  <2>4. QED
    BY <1>2, <2>2, <2>3, RefStays
<1>4. QED
  BY <1>3 DEF W

\* The inode being written refers to nothing of theirs.
LEMMA MidwayApart ==
  ASSUME NEW O \in Volumes, NEW i \in Inodes, NEW V, NEW f, NEW tight, Midway(O, i, V, f, tight)
  PROVE  \A j \in Inodes \ {i}, k \in Links, m \in Links :
           Ref(O, j, k) # 0 => Ref(With(V, i, f), i, m) # Ref(O, j, k)
<1>1. Books(With(V, i, f), tight)
  BY DEF Midway
<1>2. \A j \in Inodes, k \in Links : j # i => Ref(With(V, i, f), j, k) = Ref(O, j, k)
  BY MidwayStays
<1> DEFINE W == With(V, i, f)
<1> HIDE DEF W
<1>3. Books(W, tight) /\ \A j \in Inodes, k \in Links : j # i => Ref(W, j, k) = Ref(O, j, k)
  BY <1>1, <1>2 DEF W
<1>4. ASSUME NEW j \in Inodes, j # i, NEW k \in Links, NEW m \in Links, Ref(O, j, k) # 0
      PROVE  Ref(W, i, m) # Ref(O, j, k)
  BY <1>3, <1>4 DEF Books
<1>5. QED
  BY <1>4 DEF W

\* A write that resolves a block, and fills it, is still midway.
LEMMA MidwayResolves ==
  ASSUME NEW O \in Volumes, NEW i \in Inodes, NEW V, NEW f, NEW tight, Midway(O, i, V, f, tight),
         NEW l \in 0 .. MaxFileBlocks - 1, NEW r, r = Resolve(V, f, l)
  PROVE  /\ Midway(O, i, r.v, r.fi, tight) /\ r.b \in Blocks \union {0} /\ Resolved(V, i, f, r, tight)
         /\ r.b # 0 => Midway(O, i, Blocked(r.v, r.b, BlockOf(Junk)), r.fi, tight)
<1>1. /\ V \in Volumes /\ V.ino = O.ino /\ V.imap = O.imap /\ O.bmap \subseteq V.bmap
      /\ f \in Inode /\ f.size = O.ino[i].size /\ f.type = O.ino[i].type
      /\ Books(O, FALSE) /\ Books(With(V, i, f), tight)
      /\ \A j \in Inodes \ {i}, k \in Links : Ref(O, j, k) # 0 => V.data[Ref(O, j, k)] = O.data[Ref(O, j, k)]
  BY DEF Midway
<1>2. Resolved(V, i, f, r, tight)
  BY <1>1, ResolveKeeps
<1>3. /\ r.v \in Volumes /\ r.v.ino = V.ino /\ r.v.imap = V.imap /\ V.bmap \subseteq r.v.bmap
      /\ r.fi \in Inode /\ r.fi.size = f.size /\ r.fi.type = f.type /\ r.b \in Blocks \union {0}
      /\ Books(With(r.v, i, r.fi), tight) /\ \A b \in V.bmap : b # f.ind => r.v.data[b] = V.data[b]
      /\ r.b # 0 => \E k \in Links : k # Direct /\ Ref(With(r.v, i, r.fi), i, k) = r.b
  BY <1>2 DEF Resolved
<1>4. ASSUME NEW j \in Inodes, j # i, NEW k \in Links, Ref(O, j, k) # 0
      PROVE  r.v.data[Ref(O, j, k)] = O.data[Ref(O, j, k)]
  <2>1. Ref(O, j, k) \in V.bmap
    BY <1>1, <1>4, RefIsBlock, Parts
  <2>2. Direct \in Links /\ Ref(With(V, i, f), i, Direct) = f.ind
    BY <1>1, LinkInMemory
  <2>3. Ref(O, j, k) # f.ind
    <3>1. \A n \in Inodes \ {i}, m \in Links, q \in Links : Ref(O, n, m) # 0 => Ref(With(V, i, f), i, q) # Ref(O, n, m)
      BY MidwayApart
    <3>2. QED
      BY <1>4, <2>2, <3>1
  <2>4. QED
    BY <1>1, <1>3, <1>4, <2>1, <2>3
<1>5. Midway(O, i, r.v, r.fi, tight)
  BY <1>1, <1>3, <1>4 DEF Midway
<1>6. ASSUME r.b # 0 PROVE Midway(O, i, Blocked(r.v, r.b, BlockOf(Junk)), r.fi, tight)
  <2> DEFINE X == r.v
  <2> DEFINE g == r.fi
  <2> DEFINE P == Blocked(X, r.b, BlockOf(Junk))
  <2>1. PICK k \in Links : k # Direct /\ Ref(With(X, i, g), i, k) = r.b
    BY <1>3, <1>6
  <2>2. X \in Volumes /\ g \in Inode /\ r.b \in Blocks /\ Midway(O, i, X, g, tight)
    BY <1>3, <1>5, <1>6
  <2>3. /\ P \in Volumes /\ P.ino = X.ino /\ P.imap = X.imap /\ P.bmap = X.bmap
        /\ \A b \in Blocks : b # r.b => P.data[b] = X.data[b]
    BY <2>2, BlockSet, Items
  <2> HIDE DEF P, X, g
  <2>4. /\ With(P, i, g) \in Volumes /\ With(P, i, g).data = P.data /\ With(P, i, g).bmap = P.bmap
        /\ With(P, i, g).ino[i] = g /\ \A j \in Inodes \ {i} : With(P, i, g).ino[j] = P.ino[j]
    BY <2>2, <2>3, WithFacts
  <2>5. /\ With(X, i, g) \in Volumes /\ With(X, i, g).data = X.data /\ With(X, i, g).bmap = X.bmap
        /\ With(X, i, g).ino[i] = g /\ \A j \in Inodes \ {i} : With(X, i, g).ino[j] = X.ino[j]
    BY <2>2, WithFacts
  <2>6. With(P, i, g).ino = With(X, i, g).ino
    <3>1. \A j \in Inodes : With(P, i, g).ino[j] = With(X, i, g).ino[j]
      BY <2>3, <2>4, <2>5
    <3>2. QED
      BY <2>4, <2>5, <3>1, Parts
  <2>7. Books(With(P, i, g), tight)
    <3>1. Books(With(X, i, g), tight)
      BY <2>2 DEF Midway
    <3>2. QED
      BY <1>6, <2>1, <2>3, <2>4, <2>5, <2>6, <3>1, DataKeeps
  <2>8. ASSUME NEW j \in Inodes, j # i, NEW m \in Links, Ref(O, j, m) # 0
        PROVE  P.data[Ref(O, j, m)] = O.data[Ref(O, j, m)]
    <3>1. Ref(O, j, m) # r.b
      <4>1. \A n \in Inodes \ {i}, h \in Links, q \in Links : Ref(O, n, h) # 0 => Ref(With(X, i, g), i, q) # Ref(O, n, h)
        BY <2>2, MidwayApart
      <4>2. QED
        BY <2>1, <2>8, <4>1 DEF X, g
    <3>2. Ref(O, j, m) \in Blocks
      BY <1>1, <2>8, RefIsBlock
    <3>3. QED
      BY <1>4, <2>3, <2>8, <3>1, <3>2 DEF X
  <2>9. QED
    BY <2>2, <2>3, <2>7, <2>8 DEF Midway, P, X, g
<1>7. QED
  BY <1>2, <1>3, <1>5, <1>6

(***************************************************************************)
(* The directories.                                                        *)
(***************************************************************************)
\* Where an entry is.
LEMMA LeadsIs ==
  ASSUME NEW V \in Volumes, NEW d \in Inodes, NEW s \in Spots
  PROVE  /\ s \div Width \in Pointers /\ s % Width \in Offsets
         /\ s \in EntrySlots(V, d) <=> s < V.ino[d].size /\ V.ino[d].ptr[s \div Width] # 0
         /\ Leads(V, d, s) = IF /\ d \in V.imap /\ V.ino[d].type = "dir"
                                /\ s < V.ino[d].size /\ V.ino[d].ptr[s \div Width] # 0
                             THEN V.data[V.ino[d].ptr[s \div Width]][s % Width].n ELSE 0
<1>1. s \in Nat
  BY VolumeSizes DEF Spots
<1>2. s \div Width \in Pointers /\ s % Width \in Offsets
  BY <1>1, SpotFacts, VolumeSizes DEF Pointers
<1>3. V.ino[d].size \in Nat
  BY Parts DEF Inode
<1>4. s \in EntrySlots(V, d) <=> s < V.ino[d].size /\ V.ino[d].ptr[s \div Width] # 0
  BY <1>1, <1>3 DEF EntrySlots
<1>5. QED
  BY <1>2, <1>4 DEF Leads, Entry

\* A directory stays what it is if its inode and its blocks do.
LEMMA DirStays ==
  ASSUME NEW V \in Volumes, NEW U \in Volumes, NEW d \in Inodes,
         d \in U.imap <=> d \in V.imap, U.ino[d] = V.ino[d],
         \A k \in Pointers : V.ino[d].ptr[k] # 0 => U.data[V.ino[d].ptr[k]] = V.data[V.ino[d].ptr[k]]
  PROVE  \A s \in Spots : Leads(U, d, s) = Leads(V, d, s)
<1> SUFFICES ASSUME NEW s \in Spots PROVE Leads(U, d, s) = Leads(V, d, s)
  OBVIOUS
<1> DEFINE q == s \div Width
<1> DEFINE o == s % Width
<1>1. /\ q \in Pointers
      /\ Leads(V, d, s) = IF /\ d \in V.imap /\ V.ino[d].type = "dir" /\ s < V.ino[d].size /\ V.ino[d].ptr[q] # 0
                          THEN V.data[V.ino[d].ptr[q]][o].n ELSE 0
      /\ Leads(U, d, s) = IF /\ d \in U.imap /\ U.ino[d].type = "dir" /\ s < U.ino[d].size /\ U.ino[d].ptr[q] # 0
                          THEN U.data[U.ino[d].ptr[q]][o].n ELSE 0
  BY LeadsIs
<1> HIDE DEF q, o
<1>2. QED
  BY <1>1

\* Entries that lead where they did.
LEMMA TreeStays ==
  ASSUME NEW V \in Volumes, NEW U \in Volumes, NEW whole, Tree(V, whole), U.imap = V.imap,
         \A d \in Inodes, s \in Spots : Leads(U, d, s) = Leads(V, d, s),
         \A j \in Inodes : U.ino[j].type = V.ino[j].type
  PROVE  Tree(U, whole)
<1>1. \A d \in Inodes, s \in Spots : Leads(U, d, s) # 0 =>
          Leads(U, d, s) \in U.imap \ {Root, d} /\ U.ino[Leads(U, d, s)].type # "free"
  <2> SUFFICES ASSUME NEW d \in Inodes, NEW s \in Spots, Leads(U, d, s) # 0
               PROVE  Leads(U, d, s) \in U.imap \ {Root, d} /\ U.ino[Leads(U, d, s)].type # "free"
    OBVIOUS
  <2>1. Leads(V, d, s) \in V.imap \ {Root, d} /\ V.ino[Leads(V, d, s)].type # "free"
    BY DEF Tree
  <2>2. Leads(V, d, s) \in Inodes
    BY <2>1, Parts
  <2>3. QED
    BY <2>1, <2>2
<1>2. \A d, e \in Inodes, s, t \in Spots :
          Leads(U, d, s) # 0 /\ Leads(U, d, s) = Leads(U, e, t) => d = e /\ s = t
  BY DEF Tree
<1>3. whole => \A i \in U.imap \ {Root} : \E d \in Inodes, s \in Spots : Leads(U, d, s) = i
  <2> SUFFICES ASSUME whole, NEW i \in U.imap \ {Root} PROVE \E d \in Inodes, s \in Spots : Leads(U, d, s) = i
    OBVIOUS
  <2>1. PICK d \in Inodes, s \in Spots : Leads(V, d, s) = i
    BY DEF Tree
  <2>2. QED
    BY <2>1
<1>4. QED
  BY <1>1, <1>2, <1>3 DEF Tree

\* A volume of which only file i has changed.
LEMMA FileChanges ==
  ASSUME NEW V \in Volumes, NEW U \in Volumes, NEW whole, NEW i \in Inodes, Tree(V, whole),
         V.ino[i].type = "file", U.ino[i].type = "file", U.imap = V.imap, \A j \in Inodes \ {i} : U.ino[j] = V.ino[j],
         \A j \in Inodes \ {i}, k \in Links : Ref(V, j, k) # 0 => U.data[Ref(V, j, k)] = V.data[Ref(V, j, k)]
  PROVE  Tree(U, whole) /\ \A j \in Inodes, k \in Links : j # i => Ref(U, j, k) = Ref(V, j, k)
<1>1. ASSUME NEW j \in Inodes, j # i PROVE \A k \in Links : Ref(U, j, k) = Ref(V, j, k)
  <2>1. Direct \in Links /\ Ref(V, j, Direct) = V.ino[j].ind
    BY RefFacts
  <2>2. QED
    BY <1>1, <2>1, RefStays
<1>2. ASSUME NEW d \in Inodes PROVE \A s \in Spots : Leads(U, d, s) = Leads(V, d, s)
  <2>1. CASE d = i
    BY <2>1 DEF Leads
  <2>2. CASE d # i
    <3>1. \A k \in Pointers : V.ino[d].ptr[k] # 0 => U.data[V.ino[d].ptr[k]] = V.data[V.ino[d].ptr[k]]
      BY <2>2, RefFacts
    <3>2. QED
      BY <2>2, <3>1, DirStays
  <2>3. QED
    BY <2>1, <2>2
<1>3. \A j \in Inodes : U.ino[j].type = V.ino[j].type
  OBVIOUS
<1>4. Tree(U, whole)
  BY <1>2, <1>3, TreeStays
<1>5. QED
  BY <1>1, <1>4

\* What is sound stays so if no link changes; marks may be added unless the bitmap must be exact.
LEMMA BooksStay ==
  ASSUME NEW V, NEW U, NEW tight, NEW t, Books(V, tight), V.bmap \subseteq U.bmap,
         \A j \in Inodes, k \in Links : Ref(U, j, k) = Ref(V, j, k), t => tight /\ U.bmap = V.bmap
  PROVE  Books(U, t)
<1>1. \A i, j \in Inodes, k, l \in Links :
          Ref(U, i, k) # 0 /\ Ref(U, i, k) = Ref(U, j, l) => i = j /\ k = l
  BY DEF Books
<1>2. \A i \in Inodes, k \in Links : Ref(U, i, k) # 0 => Ref(U, i, k) \in U.bmap
  BY DEF Books
<1>3. ASSUME t, NEW b \in U.bmap PROVE \E i \in Inodes, k \in Links : Ref(U, i, k) = b
  <2>1. PICK i \in Inodes, k \in Links : Ref(V, i, k) = b
    BY <1>3 DEF Books
  <2>2. QED
    BY <2>1
<1>4. QED
  BY <1>1, <1>2, <1>3 DEF Books

\* A write ends: the inode is written back with the size that the file has now.
LEMMA WriteEnds ==
  ASSUME NEW O \in Volumes, NEW i \in Inodes, NEW V, NEW f, NEW tight, NEW t, NEW whole, t => tight,
         Shapes(O, tight), Tree(O, whole), O.ino[i].type = "file", Midway(O, i, V, f, t),
         NEW n \in 0 .. MaxFileBlocks, NEW D, D = With(V, i, [f EXCEPT !.size = n])
  PROVE  Shapes(D, t) /\ Books(D, t) /\ Tree(D, whole)
<1> DEFINE g == [f EXCEPT !.size = n]
<1> DEFINE W == With(V, i, f)
<1>1. /\ V \in Volumes /\ V.ino = O.ino /\ V.imap = O.imap /\ f \in Inode /\ f.type = "file"
      /\ Books(O, FALSE) /\ Books(W, t)
      /\ \A j \in Inodes \ {i}, k \in Links : Ref(O, j, k) # 0 => V.data[Ref(O, j, k)] = O.data[Ref(O, j, k)]
  BY DEF Midway
<1>2. g \in Inode /\ g.size = n /\ g.type = f.type /\ g.ptr = f.ptr /\ g.ind = f.ind
  BY <1>1, VolumeSizes DEF Inode, MaxFileBlocks
<1>3. D = With(V, i, g)
  OBVIOUS
<1> HIDE DEF g
<1>4. /\ D \in Volumes /\ D.data = V.data /\ D.bmap = V.bmap /\ D.imap = V.imap /\ D.ino[i] = g
      /\ \A j \in Inodes \ {i} : D.ino[j] = V.ino[j]
  <2>1. V \in Volumes /\ g \in Inode
    BY <1>1, <1>2
  <2>2. /\ With(V, i, g) \in Volumes /\ With(V, i, g).data = V.data
        /\ With(V, i, g).bmap = V.bmap /\ With(V, i, g).imap = V.imap
        /\ With(V, i, g).ino[i] = g /\ \A j \in Inodes \ {i} : With(V, i, g).ino[j] = V.ino[j]
    BY <2>1, WithFacts
  <2>3. QED
    BY <1>3, <2>2
<1>5. /\ W \in Volumes /\ W.data = V.data /\ W.bmap = V.bmap /\ W.ino[i] = f
      /\ \A j \in Inodes \ {i} : W.ino[j] = V.ino[j]
  BY <1>1, WithFacts
<1> HIDE DEF W
<1>6. ASSUME NEW j \in Inodes PROVE \A k \in Links : Ref(D, j, k) = Ref(W, j, k)
  <2>1. D.data = W.data /\ D.ino[j].ptr = W.ino[j].ptr /\ D.ino[j].ind = W.ino[j].ind
    BY <1>2, <1>4, <1>5
  <2>2. QED
    BY <2>1 DEF Ref
<1>7. Books(D, t)
  BY <1>1, <1>4, <1>5, <1>6, BooksStay
<1>8. Tree(D, whole) /\ \A j \in Inodes, k \in Links : j # i => Ref(D, j, k) = Ref(O, j, k)
  <2>1. D.ino[i].type = "file" /\ D.imap = O.imap /\ \A j \in Inodes \ {i} : D.ino[j] = O.ino[j]
    BY <1>1, <1>2, <1>4
  <2>2. \A j \in Inodes \ {i}, k \in Links : Ref(O, j, k) # 0 => D.data[Ref(O, j, k)] = O.data[Ref(O, j, k)]
    BY <1>1, <1>4
  <2>3. Tree(O, whole) /\ O.ino[i].type = "file" /\ D \in Volumes
    BY <1>1, <1>4
  <2>4. QED
    BY <2>1, <2>2, <2>3, FileChanges
<1>9. Shapes(D, t)
  <2>1. Root \in D.imap
    BY <1>1, <1>4 DEF Shapes
  <2>2. ASSUME NEW j \in Inodes
        PROVE  D.ino[j].size <= IF D.ino[j].type = "dir" THEN Direct * Width ELSE MaxFileBlocks
    BY <1>1, <1>2, <1>4 DEF Shapes
  <2>3. ASSUME NEW j \in Inodes, D.ino[j].type = "free" PROVE \A k \in Links : Ref(D, j, k) = 0
    BY <1>1, <1>2, <1>4, <1>8, <2>3 DEF Shapes
  <2>4. ASSUME t, NEW j \in Inodes \ D.imap PROVE D.ino[j].type = "free"
    <3>1. O.ino[j].type = "free"
      BY <1>1, <1>4, <2>4 DEF Shapes
    <3>2. QED
      BY <1>1, <1>4, <3>1
  <2>5. QED
    BY <1>4, <2>1, <2>2, <2>3, <2>4 DEF Shapes
<1>10. QED
  BY <1>7, <1>8, <1>9

\* A write that gets no block at all: marks may be left behind, and nothing else.
LEMMA WriteFails ==
  ASSUME NEW V \in Volumes, NEW U \in Volumes, NEW tight, NEW whole, Shapes(V, tight), Books(V, tight), Tree(V, whole),
         U.ino = V.ino, U.imap = V.imap, V.bmap \subseteq U.bmap, \A b \in V.bmap : U.data[b] = V.data[b]
  PROVE  Shapes(U, FALSE) /\ Books(U, FALSE) /\ Tree(U, whole)
<1>1. ASSUME NEW j \in Inodes PROVE \A k \in Links : Ref(U, j, k) = Ref(V, j, k)
  <2>1. Direct \in Links /\ Ref(V, j, Direct) = V.ino[j].ind
    BY RefFacts
  <2>2. V.ino[j].ind # 0 => U.data[V.ino[j].ind] = V.data[V.ino[j].ind]
    BY <2>1 DEF Books
  <2>3. QED
    BY <2>2, RefStays
<1>2. Books(U, FALSE)
  BY <1>1, BooksStay
<1>3. ASSUME NEW d \in Inodes PROVE \A s \in Spots : Leads(U, d, s) = Leads(V, d, s)
  <2>1. \A k \in Pointers : V.ino[d].ptr[k] # 0 => U.data[V.ino[d].ptr[k]] = V.data[V.ino[d].ptr[k]]
    <3>1. \A k \in Pointers : k \in Links /\ Ref(V, d, k) = V.ino[d].ptr[k]
      BY RefFacts
    <3>2. QED
      BY <3>1 DEF Books
  <2>2. QED
    BY <2>1, DirStays
<1>4. Tree(U, whole)
  BY <1>3, TreeStays
<1>5. Shapes(U, FALSE)
  BY <1>1 DEF Shapes
<1>6. QED
  BY <1>2, <1>4, <1>5

\* The greater of two numbers.
LEMMA Greater ==
  ASSUME NEW x \in Nat, NEW y \in Nat
  PROVE  Max({x, y}) = IF x < y THEN y ELSE x
<1>1. (IF x < y THEN y ELSE x) \in {x, y} /\ \A z \in {x, y} : (IF x < y THEN y ELSE x) >= z
  OBVIOUS
<1>2. \A w \in {x, y} : (\A z \in {x, y} : w >= z) => w = IF x < y THEN y ELSE x
  OBVIOUS
<1>3. QED
  BY <1>1, <1>2 DEF Max

\* The file being written is as sound as it need be.
LEMMA MidwayLoosens ==
  ASSUME NEW O, NEW i, NEW V, NEW f, NEW tight, NEW t, t => tight, Midway(O, i, V, f, tight)
  PROVE  Midway(O, i, V, f, t)
BY DEF Midway, Books


\* osfs2_write.
LEMMA WriteKeeps ==
  ASSUME VolumeInv, NEW i \in Inodes, NEW l \in 0 .. MaxFileBlocks - 1, NEW two \in BOOLEAN,
         two => l + 1 < MaxFileBlocks, Write(i, l, two)
  PROVE  VolumeInv'
<1> DEFINE tight == ~starved
<1> DEFINE whole == ~razed
<1> DEFINE t == ~starved'
<1> DEFINE fi == vol.ino[i]
<1> DEFINE put(r) == Blocked(r.v, r.b, BlockOf(Junk))
<1> DEFINE r1 == Resolve(vol, fi, l)
<1> DEFINE P == put(r1)
<1> DEFINE r2 == Resolve(P, r1.fi, l + 1)
<1> DEFINE done(V, f, end) == With(V, i, [f EXCEPT !.size = Max({f.size, end})])
<1>1. /\ vol.ino[i].type = "file"
      /\ IF r1.b = 0 THEN Failed(r1.v)
         ELSE IF ~two THEN Succeeded(done(put(r1), r1.fi, l + 1)) /\ opened' = opened
         ELSE IF r2.b = 0 THEN Failed(done(r2.v, r2.fi, l + 1))
         ELSE Succeeded(done(put(r2), r2.fi, l + 2)) /\ opened' = opened
  BY Zenon DEF Write, With, Blocked
<1>2. /\ Shapes(vol, tight) /\ Books(vol, tight) /\ Tree(vol, whole) /\ vol \in Volumes
      /\ opened \subseteq Inodes /\ starved \in BOOLEAN /\ razed \in BOOLEAN
  BY DEF VolumeInv, Shapes
<1>3. opened' = opened /\ razed' = razed /\ starved' \in BOOLEAN /\ (t => tight)
  BY <1>1, <1>2 DEF Failed, Succeeded
<1>4. fi \in Inode /\ fi.size \in Nat /\ fi.size <= MaxFileBlocks /\ MaxFileBlocks \in Nat /\ l \in Nat
  <2>1. MaxFileBlocks \in Nat /\ l \in Nat
    BY VolumeSizes DEF MaxFileBlocks
  <2>2. fi \in Inode
    BY <1>2, Parts
  <2>3. fi.size <= MaxFileBlocks
    BY <1>1, <1>2 DEF Shapes
  <2>4. QED
    BY <2>1, <2>2, <2>3 DEF Inode
<1>5. Midway(vol, i, vol, fi, tight)
  <2>1. With(vol, i, fi) = vol
    <3>1. [vol.ino EXCEPT ![i] = vol.ino[i]] = vol.ino
      BY <1>2, Parts
    <3>2. QED
      BY <1>2, <3>1, Parts DEF With
  <2>2. Books(vol, FALSE)
    BY <1>2 DEF Books
  <2>3. QED
    BY <1>2, <1>4, <2>1, <2>2 DEF Midway
<1>6. /\ Midway(vol, i, r1.v, r1.fi, tight) /\ r1.b \in Blocks \union {0} /\ Resolved(vol, i, fi, r1, tight)
      /\ r1.b # 0 => Midway(vol, i, P, r1.fi, tight)
  BY <1>2, <1>5, MidwayResolves
<1>7. ASSUME two, r1.b # 0
      PROVE  /\ Midway(vol, i, r2.v, r2.fi, tight) /\ r2.b \in Blocks \union {0}
             /\ r2.b # 0 => Midway(vol, i, put(r2), r2.fi, tight)
  <2>1. l + 1 \in 0 .. MaxFileBlocks - 1
    BY <1>4, <1>7
  <2>2. Midway(vol, i, P, r1.fi, tight)
    BY <1>6, <1>7
  <2> DEFINE f == r1.fi
  <2>3. r2 = Resolve(P, f, l + 1) /\ Midway(vol, i, P, f, tight)
    BY <2>2
  <2> HIDE DEF P, f, tight, r2, r1
  <2>4. QED
    BY <1>2, <2>1, <2>3, MidwayResolves
<1> HIDE DEF tight, whole, t, fi, r1, P, r2
<1>8. ASSUME NEW V, NEW f, NEW end \in 0 .. MaxFileBlocks, Midway(vol, i, V, f, tight), vol' = done(V, f, end)
      PROVE  Shapes(vol', t) /\ Books(vol', t) /\ Tree(vol', whole)
  <2> DEFINE n == Max({f.size, end})
  <2>1. n \in 0 .. MaxFileBlocks
    <3>1. f.size = fi.size
      BY <1>8 DEF Midway, fi
    <3>2. end \in Nat
      BY <1>4
    <3>3. QED
      BY <1>4, <3>1, <3>2, Greater
  <2>2. Midway(vol, i, V, f, t)
    BY <1>3, <1>8, MidwayLoosens
  <2>3. vol' = With(V, i, [f EXCEPT !.size = n])
    BY <1>8
  <2> HIDE DEF n
  <2>4. QED
    BY <1>1, <1>2, <1>3, <2>1, <2>2, <2>3, WriteEnds
<1>9. Shapes(vol', t) /\ Books(vol', t) /\ Tree(vol', whole)
  <2>1. CASE r1.b = 0
    <3>1. vol' = r1.v /\ starved' = TRUE
      BY <1>1, <2>1 DEF Failed
    <3>2. /\ r1.v \in Volumes /\ r1.v.ino = vol.ino /\ r1.v.imap = vol.imap /\ vol.bmap \subseteq r1.v.bmap
          /\ \A b \in vol.bmap : r1.v.data[b] = vol.data[b]
      BY <1>6, <2>1 DEF Resolved
    <3> DEFINE U == r1.v
    <3>3. U \in Volumes /\ U.ino = vol.ino /\ U.imap = vol.imap /\ vol.bmap \subseteq U.bmap /\ \A b \in vol.bmap : U.data[b] = vol.data[b]
      BY <3>2
    <3> HIDE DEF U
    <3>4. Shapes(U, FALSE) /\ Books(U, FALSE) /\ Tree(U, whole)
      BY <1>2, <3>3, WriteFails
    <3>5. vol' = U /\ t = FALSE
      BY <3>1 DEF U, t
    <3>6. QED
      BY <3>4, <3>5
  <2>2. CASE r1.b # 0 /\ ~two
    <3>1. Midway(vol, i, P, r1.fi, tight) /\ vol' = done(P, r1.fi, l + 1) /\ l + 1 \in 0 .. MaxFileBlocks
      BY <1>1, <1>4, <1>6, <2>2 DEF Succeeded, P
    <3>2. QED
      BY <1>8, <3>1
  <2>3. CASE r1.b # 0 /\ two /\ r2.b = 0
    <3>1. Midway(vol, i, r2.v, r2.fi, tight) /\ vol' = done(r2.v, r2.fi, l + 1) /\ l + 1 \in 0 .. MaxFileBlocks
      BY <1>1, <1>4, <1>7, <2>3 DEF Failed
    <3>2. QED
      BY <1>8, <3>1
  <2>4. CASE r1.b # 0 /\ two /\ r2.b # 0
    <3>1. Midway(vol, i, put(r2), r2.fi, tight) /\ vol' = done(put(r2), r2.fi, l + 2) /\ l + 2 \in 0 .. MaxFileBlocks
      BY <1>1, <1>4, <1>7, <2>4 DEF Succeeded
    <3>2. QED
      BY <1>8, <3>1
  <2>5. QED
    BY <2>1, <2>2, <2>3, <2>4
<1>10. QED
  BY <1>2, <1>3, <1>9 DEF VolumeInv, t, whole

(***************************************************************************)
(* An entry is made.                                                       *)
(***************************************************************************)
\* A new inode.
LEMMA NewInodeFacts ==
  ASSUME NEW type \in {"free", "file", "dir"}, NEW f, f = NewInode(type)
  PROVE  f \in Inode /\ f.type = type /\ f.size = 0 /\ f.ind = 0 /\ \A k \in Pointers : f.ptr[k] = 0
BY DEF NewInode, Inode, Pointers

\* An inode is reset, and marked or not: it refers to nothing and leads nowhere.
LEMMA InodeReset ==
  ASSUME NEW V \in Volumes, NEW i \in Inodes, NEW type \in {"free", "file", "dir"}, NEW M \in Volumes,
         M.data = V.data, M.ino[i] = NewInode(type), \A j \in Inodes \ {i} : M.ino[j] = V.ino[j],
         \A j \in Inodes \ {i} : j \in M.imap <=> j \in V.imap
  PROVE  /\ \A k \in Links : Ref(M, i, k) = 0
         /\ \A j \in Inodes, k \in Links : j # i => Ref(M, j, k) = Ref(V, j, k)
         /\ \A s \in Spots : Leads(M, i, s) = 0
         /\ \A e \in Inodes, s \in Spots : e # i => Leads(M, e, s) = Leads(V, e, s)
<1> DEFINE f == NewInode(type)
<1>1. f \in Inode /\ f.type = type /\ f.size = 0 /\ f.ind = 0 /\ \A k \in Pointers : f.ptr[k] = 0
  BY NewInodeFacts
<1>2. M.ino[i] = f
  OBVIOUS
<1> HIDE DEF f
<1>3. \A k \in Links : Ref(M, i, k) = 0
  BY <1>1, <1>2, RefFacts
<1>4. \A j \in Inodes, k \in Links : j # i => Ref(M, j, k) = Ref(V, j, k)
  BY RefStays
<1>5. \A s \in Spots : Leads(M, i, s) = 0
  <2> SUFFICES ASSUME NEW s \in Spots PROVE Leads(M, i, s) = 0
    OBVIOUS
  <2>1. s >= 0
    BY VolumeSizes DEF Spots
  <2>2. s \notin EntrySlots(M, i)
    BY <1>1, <1>2, <2>1, LeadsIs
  <2>3. QED
    BY <2>2 DEF Leads
<1>6. \A e \in Inodes, s \in Spots : e # i => Leads(M, e, s) = Leads(V, e, s)
  BY DirStays
<1>7. QED
  BY <1>3, <1>4, <1>5, <1>6

\* An inode that refers to nothing, as before, or to what it no longer refers to.
LEMMA BooksReset ==
  ASSUME NEW V \in Volumes, NEW M \in Volumes, NEW i \in Inodes, NEW tight, NEW t, Books(V, tight), M.bmap = V.bmap,
         \A k \in Links : Ref(M, i, k) = 0,
         \A j \in Inodes, k \in Links : j # i => Ref(M, j, k) = Ref(V, j, k),
         t => tight /\ \A k \in Links : Ref(V, i, k) = 0
  PROVE  Books(M, t)
<1>1. \A j, m \in Inodes, k, l \in Links :
          Ref(M, j, k) # 0 /\ Ref(M, j, k) = Ref(M, m, l) => j = m /\ k = l
  BY DEF Books
<1>2. \A j \in Inodes, k \in Links : Ref(M, j, k) # 0 => Ref(M, j, k) \in M.bmap
  BY DEF Books
<1>3. ASSUME t, NEW b \in M.bmap PROVE \E j \in Inodes, k \in Links : Ref(M, j, k) = b
  <2>1. PICK j \in Inodes, k \in Links : Ref(V, j, k) = b
    BY <1>3 DEF Books
  <2>2. j # i
    BY <1>3, <2>1, Parts, VolumeSizes
  <2>3. QED
    BY <2>1, <2>2
<1>4. QED
  BY <1>1, <1>2, <1>3 DEF Books

\* An inode is taken, or given back.
Made(V, i, type) == [V EXCEPT !.imap = @ \union {i}, !.ino[i] = NewInode(type)]
Unmade(V, i) == [V EXCEPT !.imap = @ \ {i}]

\* A new inode refers to nothing, leads nowhere and changes nothing else.
LEMMA InodeMade ==
  ASSUME NEW V \in Volumes, NEW i \in Inodes \ V.imap, NEW type \in {"file", "dir"},
         NEW M, M = Made(V, i, type)
  PROVE  /\ M \in Volumes /\ M.imap = V.imap \union {i} /\ M.bmap = V.bmap /\ M.data = V.data
         /\ M.ino[i] = NewInode(type) /\ \A j \in Inodes \ {i} : M.ino[j] = V.ino[j]
         /\ \A k \in Links : Ref(M, i, k) = 0
         /\ \A j \in Inodes, k \in Links : j # i => Ref(M, j, k) = Ref(V, j, k)
         /\ \A e \in Inodes, s \in Spots : Leads(M, e, s) = Leads(V, e, s)
<1> DEFINE f == NewInode(type)
<1>1. f \in Inode
  BY NewInodeFacts
<1>2. M = [imap |-> V.imap \union {i}, bmap |-> V.bmap, data |-> V.data, ino |-> [V.ino EXCEPT ![i] = f]]
  <2>1. V = [imap |-> V.imap, bmap |-> V.bmap, data |-> V.data, ino |-> V.ino]
    BY Parts
  <2>2. M = [V EXCEPT !.imap = @ \union {i}, !.ino[i] = f]
    BY DEF Made
  <2> HIDE DEF f
  <2>3. QED
    BY <2>1, <2>2
<1> HIDE DEF f
<1>3. [V.ino EXCEPT ![i] = f] \in [Inodes -> Inode] /\ V.imap \union {i} \subseteq Inodes
  BY <1>1, Parts
<1>4. M \in Volumes
  BY <1>2, <1>3, Parts DEF Volumes
<1>5. /\ M.imap = V.imap \union {i} /\ M.bmap = V.bmap /\ M.data = V.data
      /\ M.ino[i] = f /\ \A j \in Inodes \ {i} : M.ino[j] = V.ino[j]
  BY <1>2, Parts
<1>6. /\ \A k \in Links : Ref(M, i, k) = 0
      /\ \A j \in Inodes, k \in Links : j # i => Ref(M, j, k) = Ref(V, j, k)
      /\ \A s \in Spots : Leads(M, i, s) = 0
      /\ \A e \in Inodes, s \in Spots : e # i => Leads(M, e, s) = Leads(V, e, s)
  <2>1. M.ino[i] = NewInode(type) /\ type \in {"free", "file", "dir"}
    BY <1>5 DEF f
  <2>2. QED
    BY <1>4, <1>5, <2>1, InodeReset
<1>7. \A s \in Spots : Leads(V, i, s) = 0
  BY DEF Leads
<1>8. QED
  BY <1>4, <1>5, <1>6, <1>7 DEF f

\* dir_create_in fails: the inode is given back, with what was written to it.
LEMMA CreateFails ==
  ASSUME NEW V \in Volumes, NEW i \in Inodes \ V.imap, NEW type \in {"file", "dir"}, NEW tight, NEW whole,
         Shapes(V, tight), Books(V, tight), Tree(V, whole),
         NEW M, M = Made(V, i, type), NEW U, U = Unmade(M, i)
  PROVE  Shapes(U, FALSE) /\ Books(U, FALSE) /\ Tree(U, whole)
<1>1. /\ M \in Volumes /\ M.imap = V.imap \union {i} /\ M.bmap = V.bmap /\ M.data = V.data
      /\ M.ino[i] = NewInode(type) /\ \A j \in Inodes \ {i} : M.ino[j] = V.ino[j]
  BY InodeMade
<1>2. /\ U \in Volumes /\ U.imap = V.imap /\ U.bmap = V.bmap /\ U.data = V.data
      /\ U.ino[i] = NewInode(type) /\ \A j \in Inodes \ {i} : U.ino[j] = V.ino[j]
  <2>1. U = [imap |-> V.imap, bmap |-> M.bmap, data |-> M.data, ino |-> M.ino]
    <3>1. M = [imap |-> M.imap, bmap |-> M.bmap, data |-> M.data, ino |-> M.ino]
      BY <1>1, Parts
    <3>2. U = [M EXCEPT !.imap = @ \ {i}]
      BY DEF Unmade
    <3>3. QED
      BY <1>1, <3>1, <3>2
  <2>2. QED
    BY <1>1, <2>1, Parts DEF Volumes
<1>3. /\ \A k \in Links : Ref(U, i, k) = 0
      /\ \A j \in Inodes, k \in Links : j # i => Ref(U, j, k) = Ref(V, j, k)
      /\ \A s \in Spots : Leads(U, i, s) = 0
      /\ \A e \in Inodes, s \in Spots : e # i => Leads(U, e, s) = Leads(V, e, s)
  BY <1>2, InodeReset
<1>4. Books(U, FALSE)
  BY <1>2, <1>3, BooksReset
<1>5. \A e \in Inodes, s \in Spots : Leads(U, e, s) = Leads(V, e, s)
  BY <1>3 DEF Leads
<1>6. Tree(U, whole)
  <2>1. \A e \in Inodes, s \in Spots : Leads(U, e, s) # 0 =>
            Leads(U, e, s) \in U.imap \ {Root, e} /\ U.ino[Leads(U, e, s)].type # "free"
    <3> SUFFICES ASSUME NEW e \in Inodes, NEW s \in Spots, Leads(U, e, s) # 0
                 PROVE  Leads(U, e, s) \in U.imap \ {Root, e} /\ U.ino[Leads(U, e, s)].type # "free"
      OBVIOUS
    <3>1. Leads(V, e, s) \in V.imap \ {Root, e} /\ V.ino[Leads(V, e, s)].type # "free"
      BY <1>5 DEF Tree
    <3>2. QED
      BY <1>2, <1>5, <3>1, Parts
  <2>2. \A e, g \in Inodes, s, t \in Spots :
            Leads(U, e, s) # 0 /\ Leads(U, e, s) = Leads(U, g, t) => e = g /\ s = t
    BY <1>5 DEF Tree
  <2>3. ASSUME whole, NEW j \in U.imap \ {Root} PROVE \E e \in Inodes, s \in Spots : Leads(U, e, s) = j
    <3>1. PICK e \in Inodes, s \in Spots : Leads(V, e, s) = j
      BY <1>2, <2>3 DEF Tree
    <3>2. QED
      BY <1>5, <3>1
  <2>4. QED
    BY <2>1, <2>2, <2>3 DEF Tree
<1>7. Shapes(U, FALSE)
  <2>1. Root \in U.imap
    BY <1>2 DEF Shapes
  <2>2. ASSUME NEW j \in Inodes
        PROVE  /\ U.ino[j].size <= IF U.ino[j].type = "dir" THEN Direct * Width ELSE MaxFileBlocks
               /\ U.ino[j].type = "free" => \A k \in Links : Ref(U, j, k) = 0
    <3>1. CASE j = i
      <4>1. U.ino[j].size = 0
        BY <1>2, <3>1, NewInodeFacts
      <4>2. QED
        BY <1>3, <3>1, <4>1, VolumeSizes DEF MaxFileBlocks
    <3>2. CASE j # i
      BY <1>2, <1>3, <3>2 DEF Shapes
    <3>3. QED
      BY <3>1, <3>2
  <2>3. QED
    BY <1>2, <2>1, <2>2 DEF Shapes
<1>8. QED
  BY <1>4, <1>6, <1>7

\* Entries of a page are at different offsets.
LEMMA SpotsApart ==
  ASSUME NEW s \in Spots, NEW x \in Spots, s \div Width = x \div Width, s % Width = x % Width
  PROVE  s = x
<1>1. s \in Nat /\ x \in Nat
  BY VolumeSizes DEF Spots
<1>2. s = Width * (s \div Width) + (s % Width) /\ x = Width * (x \div Width) + (x % Width)
  BY <1>1, SpotFacts
<1>3. QED
  BY <1>2

\* An entry is written: it leads where it says, and nothing else changes.
LEMMA EntrySet ==
  ASSUME NEW G \in Volumes, NEW tight, Books(G, tight), NEW d \in Inodes, NEW s \in Spots,
         G.ino[d].ptr[s \div Width] # 0, NEW e \in Item, NEW U, U = SetEntry(G, d, s, e)
  PROVE  /\ U \in Volumes /\ U.ino = G.ino /\ U.imap = G.imap /\ U.bmap = G.bmap
         /\ \A j \in Inodes, k \in Links : Ref(U, j, k) = Ref(G, j, k)
         /\ Books(U, tight)
         /\ \A f \in Inodes, x \in Spots : f # d \/ x # s => Leads(U, f, x) = Leads(G, f, x)
         /\ d \in G.imap /\ G.ino[d].type = "dir" /\ s < G.ino[d].size => Leads(U, d, s) = e.n
<1> DEFINE q == s \div Width
<1> DEFINE o == s % Width
<1> DEFINE b == G.ino[d].ptr[q]
<1>1. q \in Pointers /\ o \in Offsets
  BY LeadsIs
<1>2. b \in Blocks /\ q \in Links /\ q # Direct /\ Ref(G, d, q) = b
  <2>1. q \in Links /\ q # Direct /\ Ref(G, d, q) = b
    BY <1>1, RefFacts
  <2>2. QED
    BY <2>1, RefIsBlock
<1> DEFINE p == [G.data[b] EXCEPT ![o] = e]
<1>3. G.data[b] \in [Offsets -> Item]
  BY <1>2, Parts
<1>4. p \in [Offsets -> Item] /\ p[o] = e /\ \A n \in Offsets : n # o => p[n] = G.data[b][n]
  BY <1>1, <1>3
<1>5. U = Blocked(G, b, p)
  BY Zenon DEF SetEntry, Blocked
<1>6. /\ \A x \in Spots : x # s => x \div Width # q \/ x % Width # o
      /\ \A f \in Inodes, x \in Spots : /\ x \div Width \in Pointers /\ x % Width \in Offsets
           /\ Leads(G, f, x) = IF f \in G.imap /\ G.ino[f].type = "dir" /\ x < G.ino[f].size /\ G.ino[f].ptr[x \div Width] # 0
                               THEN G.data[G.ino[f].ptr[x \div Width]][x % Width].n ELSE 0
  BY SpotsApart, LeadsIs
<1> HIDE DEF p
<1>7. /\ U \in Volumes /\ U.ino = G.ino /\ U.imap = G.imap /\ U.bmap = G.bmap
      /\ \A x \in Blocks : x # b => U.data[x] = G.data[x]
      /\ U.data[b] = p
  <2> HIDE DEF b, q, o
  <2>1. b \in Blocks /\ p \in [Offsets -> Item] /\ U = Blocked(G, b, p)
    BY <1>2, <1>4, <1>5
  <2>2. QED
    BY <2>1, BlockSet
<1>8. (\A j \in Inodes, k \in Links : Ref(U, j, k) = Ref(G, j, k)) /\ Books(U, tight)
  <2>1. G.ino[d].ptr[q] # 0
    OBVIOUS
  <2> HIDE DEF q, b
  <2>2. b # 0
    BY <2>1 DEF b
  <2>3. QED
    BY <1>2, <1>7, <2>2, DataKeeps
<1>9. \A f \in Inodes, x \in Spots :
           Leads(U, f, x) = IF f \in U.imap /\ U.ino[f].type = "dir" /\ x < U.ino[f].size /\ U.ino[f].ptr[x \div Width] # 0
                            THEN U.data[U.ino[f].ptr[x \div Width]][x % Width].n ELSE 0
  <2>1. U \in Volumes
    BY <1>7
  <2>2. QED
    BY <2>1, LeadsIs
<1>10. ASSUME NEW f \in Inodes, NEW x \in Spots, f # d \/ x # s PROVE Leads(U, f, x) = Leads(G, f, x)
  <2> DEFINE h == x \div Width
  <2> DEFINE g == G.ino[f].ptr[h]
  <2> DEFINE n == x % Width
  <2>1. h \in Pointers /\ n \in Offsets /\ (x # s => h # q \/ n # o)
    BY <1>6
  <2>2. /\ Leads(G, f, x) = IF f \in G.imap /\ G.ino[f].type = "dir" /\ x < G.ino[f].size /\ g # 0
                            THEN G.data[g][n].n ELSE 0
        /\ Leads(U, f, x) = IF f \in G.imap /\ G.ino[f].type = "dir" /\ x < G.ino[f].size /\ g # 0
                            THEN U.data[g][n].n ELSE 0
    <3>1. U.ino = G.ino /\ U.imap = G.imap
      BY <1>7
    <3>2. Leads(G, f, x) = IF f \in G.imap /\ G.ino[f].type = "dir" /\ x < G.ino[f].size /\ g # 0
                           THEN G.data[g][n].n ELSE 0
      BY <1>6
    <3>3. Leads(U, f, x) = IF f \in U.imap /\ U.ino[f].type = "dir" /\ x < U.ino[f].size /\ U.ino[f].ptr[h] # 0
                           THEN U.data[U.ino[f].ptr[h]][n].n ELSE 0
      BY <1>9
    <3>4. QED
      BY <3>1, <3>2, <3>3
  <2>3. h \in Links /\ Ref(G, f, h) = g
    BY <2>1, RefFacts
  <2>4. g # 0 => g \in Blocks
    BY <2>3, RefIsBlock
  <2> HIDE DEF h, g, n, q, o, b
  <2>5. g # 0 /\ g = b => f = d /\ h = q
    BY <1>2, <2>3 DEF Books
  <2>6. g # 0 => U.data[g][n] = G.data[g][n]
    <3>1. CASE g = b
      BY <1>4, <1>7, <1>10, <2>1, <2>5, <3>1
    <3>2. CASE g # b
      BY <1>7, <2>4, <3>2
    <3>3. QED
      BY <3>1, <3>2
  <2>7. QED
    BY <2>2, <2>6
<1>11. ASSUME d \in G.imap, G.ino[d].type = "dir", s < G.ino[d].size PROVE Leads(U, d, s) = e.n
  <2>1. Leads(U, d, s) = U.data[b][o].n
    BY <1>7, <1>9, <1>11
  <2>2. QED
    BY <1>4, <1>7, <2>1
<1>12. QED
  BY <1>7, <1>8, <1>10, <1>11

\* The volume with its own inode.
LEMMA WithSame ==
  ASSUME NEW V \in Volumes, NEW i \in Inodes
  PROVE  With(V, i, V.ino[i]) = V
<1>1. [V.ino EXCEPT ![i] = V.ino[i]] = V.ino
  BY Parts
<1>2. QED
  BY <1>1, Parts DEF With

\* A directory that has entry s, on page q, which is block b.
Grown(z, s, q, b) == [z EXCEPT !.size = Max({@, s + 1}), !.ptr[q] = b]

\* Its size covers the entry, its page is the block.
LEMMA GrownFacts ==
  ASSUME NEW z \in Inode, NEW s \in Nat, NEW q \in Pointers, NEW b \in Blocks, NEW f, f = Grown(z, s, q, b)
  PROVE  /\ f \in Inode /\ f.type = z.type /\ f.ind = z.ind /\ f.ptr = [z.ptr EXCEPT ![q] = b] /\ f.ptr[q] = b
         /\ f.size = IF z.size < s + 1 THEN s + 1 ELSE z.size
<1> DEFINE n == Max({z.size, s + 1})
<1>1. z.size \in Nat
  BY DEF Inode
<1>2. n = IF z.size < s + 1 THEN s + 1 ELSE z.size
  BY <1>1, Greater
<1>3. f = [z EXCEPT !.size = n, !.ptr[q] = b]
  BY Zenon DEF Grown
<1> HIDE DEF n
<1>4. n \in Nat
  BY <1>1, <1>2
<1>5. f = [type |-> z.type, size |-> n, ptr |-> [z.ptr EXCEPT ![q] = b], ind |-> z.ind]
  BY <1>3 DEF Inode
<1>6. z.ptr \in [Pointers -> Blocks \union {0}] /\ z.type \in {"free", "file", "dir"} /\ z.ind \in Blocks \union {0}
  BY DEF Inode
<1>7. QED
  BY <1>2, <1>4, <1>5, <1>6 DEF Inode

\* A directory gets a slot: an empty one, or one at its end, for which it may have to grow.
Place(V, d, s, q, a, f) ==
    /\ V.ino[d].type = "dir" /\ V.ino[d].size <= Direct * Width /\ q = s \div Width
    /\ s = V.ino[d].size \/ (s < V.ino[d].size /\ V.ino[d].ptr[q] # 0)
    /\ a = Located(V, V.ino[d].ptr[q]) /\ a.b # 0
    /\ f = Grown(V.ino[d], s, q, a.b)

\* The entry has a place in the directory, and all others lead where they did.
LEMMA SlotMade ==
  ASSUME NEW V \in Volumes, NEW tight, Books(V, tight), NEW d \in Inodes, NEW s \in Spots, NEW q, NEW a, NEW f,
         Place(V, d, s, q, a, f), NEW G, G = With(a.v, d, f)
  PROVE  /\ G \in Volumes /\ G.imap = V.imap /\ \A j \in Inodes \ {d} : G.ino[j] = V.ino[j]
         /\ Books(G, tight) /\ G.ino[d].ptr[q] # 0 /\ s < G.ino[d].size
         /\ G.ino[d].size <= Direct * Width /\ G.ino[d].type = "dir"
         /\ \A j \in Inodes, k \in Links : j # d => Ref(G, j, k) = Ref(V, j, k)
         /\ \A e \in Inodes, x \in Spots : e # d \/ x # s => Leads(G, e, x) = Leads(V, e, x)
<1> DEFINE z == V.ino[d]
<1>0. /\ z.type = "dir" /\ z.size <= Direct * Width
      /\ s = z.size \/ (s < z.size /\ z.ptr[q] # 0)
      /\ a = Located(V, z.ptr[q]) /\ a.b # 0 /\ f = Grown(z, s, q, a.b)
  BY DEF Place
<1>1. q \in Pointers /\ z \in Inode /\ s \in Nat /\ s < Direct * Width /\ Direct * Width \in Nat
  <2>1. q \in Pointers
    BY LeadsIs DEF Place
  <2>2. z \in Inode
    BY Parts
  <2>3. QED
    BY <2>1, <2>2, VolumeSizes DEF Spots
<1>2. z.ptr[q] \in Blocks \union {0} /\ z.size \in Nat
  BY <1>1 DEF Inode
<1>3. /\ a.v \in Volumes /\ a.v.ino = V.ino /\ a.v.imap = V.imap /\ V.bmap \subseteq a.v.bmap
      /\ a.b \in Blocks \union {0} /\ \A b \in V.bmap : a.v.data[b] = V.data[b]
      /\ z.ptr[q] # 0 => a.v = V /\ a.b = z.ptr[q]
      /\ z.ptr[q] = 0 => a = AllocBlock(V)
  <2> DEFINE p == z.ptr[q]
  <2>1. p \in Blocks \union {0} /\ a = Located(V, p)
    BY <1>0, <1>2
  <2> HIDE DEF z, p
  <2>2. /\ a.v \in Volumes /\ a.v.ino = V.ino /\ a.v.imap = V.imap /\ V.bmap \subseteq a.v.bmap
        /\ a.b \in Blocks \union {0} /\ \A b \in V.bmap : a.v.data[b] = V.data[b]
        /\ p # 0 => a.v = V /\ a.b = p
        /\ p = 0 => a = AllocBlock(V)
    BY <2>1, LocatedFacts
  <2>3. QED
    BY <2>2 DEF p
<1>5. /\ f \in Inode /\ f.type = "dir" /\ f.ind = z.ind /\ f.ptr = [z.ptr EXCEPT ![q] = a.b] /\ f.ptr[q] = a.b
      /\ f.size = IF z.size < s + 1 THEN s + 1 ELSE z.size
  <2>1. f = Grown(z, s, q, a.b) /\ z.type = "dir" /\ a.b \in Blocks
    BY <1>0, <1>3
  <2> HIDE DEF z
  <2>2. QED
    BY <1>1, <2>1, GrownFacts
<1> DEFINE A == a.v
<1>6. /\ G \in Volumes /\ G.data = A.data /\ G.bmap = A.bmap /\ G.imap = V.imap /\ G.ino[d] = f
      /\ \A j \in Inodes \ {d} : G.ino[j] = V.ino[j]
  <2>1. A \in Volumes /\ A.ino = V.ino /\ A.imap = V.imap /\ G = With(A, d, f)
    BY <1>3
  <2> HIDE DEF A
  <2>2. /\ With(A, d, f) \in Volumes /\ With(A, d, f).data = A.data
        /\ With(A, d, f).bmap = A.bmap /\ With(A, d, f).imap = A.imap
        /\ With(A, d, f).ino[d] = f /\ \A j \in Inodes \ {d} : With(A, d, f).ino[j] = A.ino[j]
    BY <1>5, <2>1, WithFacts
  <2>3. QED
    BY <2>1, <2>2
<1> HIDE DEF z
<1>7. Books(With(V, d, z), tight)
  BY WithSame DEF z
<1>8. Books(G, tight)
  <2>1. CASE z.ptr[q] = 0
    <3>1. f.ind = z.ind /\ f.ptr = [z.ptr EXCEPT ![q] = a.b] /\ a = AllocBlock(V)
      BY <1>3, <1>0, <1>5, <2>1
    <3>2. QED
      BY <1>1, <1>0, <1>5, <1>7, <2>1, <3>1, PointerGains
  <2>2. CASE z.ptr[q] # 0
    <3>1. A = V /\ f.ptr = z.ptr /\ f.ind = z.ind
      BY <1>1, <1>3, <1>0, <1>5, <2>2 DEF Inode
    <3>2. ASSUME NEW j \in Inodes PROVE \A k \in Links : Ref(G, j, k) = Ref(V, j, k)
      <4>1. G.data = V.data /\ G.ino[j].ptr = V.ino[j].ptr /\ G.ino[j].ind = V.ino[j].ind
        BY <1>6, <3>1 DEF z
      <4>2. QED
        BY <4>1 DEF Ref
    <3>3. G.bmap = V.bmap
      BY <1>6, <3>1
    <3>4. QED
      BY <3>2, <3>3, BooksStay
  <2>3. QED
    BY <2>1, <2>2
<1>9. \A j \in Inodes, k \in Links : Ref(V, j, k) # 0 => G.data[Ref(V, j, k)] = V.data[Ref(V, j, k)]
  BY <1>3, <1>6 DEF Books
<1>10. \A j \in Inodes, k \in Links : j # d => Ref(G, j, k) = Ref(V, j, k)
  <2> SUFFICES ASSUME NEW j \in Inodes, j # d PROVE \A k \in Links : Ref(G, j, k) = Ref(V, j, k)
    OBVIOUS
  <2>1. Direct \in Links /\ Ref(V, j, Direct) = V.ino[j].ind
    BY RefFacts
  <2>2. QED
    BY <1>6, <1>9, <2>1, RefStays
<1>11. ASSUME NEW e \in Inodes, e # d PROVE \A x \in Spots : Leads(G, e, x) = Leads(V, e, x)
  <2>1. \A k \in Pointers : k \in Links /\ Ref(V, e, k) = V.ino[e].ptr[k]
    BY RefFacts
  <2>2. QED
    BY <1>6, <1>9, <1>11, <2>1, DirStays
<1>12. ASSUME NEW x \in Spots, x # s PROVE Leads(G, d, x) = Leads(V, d, x)
  <2> DEFINE h == x \div Width
  <2> DEFINE n == x % Width
  <2>1. /\ h \in Pointers /\ n \in Offsets
        /\ Leads(V, d, x) = IF d \in V.imap /\ z.type = "dir" /\ x < z.size /\ z.ptr[h] # 0
                            THEN V.data[z.ptr[h]][n].n ELSE 0
    BY LeadsIs DEF z
  <2>2. Leads(G, d, x) = IF d \in G.imap /\ f.type = "dir" /\ x < f.size /\ f.ptr[h] # 0
                         THEN G.data[f.ptr[h]][n].n ELSE 0
    <3>1. G \in Volumes /\ G.ino[d] = f
      BY <1>6
    <3>2. Leads(G, d, x) = IF d \in G.imap /\ G.ino[d].type = "dir" /\ x < G.ino[d].size /\ G.ino[d].ptr[h] # 0
                           THEN G.data[G.ino[d].ptr[h]][n].n ELSE 0
      BY <3>1, LeadsIs
    <3>3. QED
      BY <3>1, <3>2
  <2> HIDE DEF h, n
  <2>3. x < f.size <=> x < z.size
    <3>1. x \in Nat
      BY VolumeSizes DEF Spots
    <3>2. f.size = IF z.size < s + 1 THEN s + 1 ELSE z.size
      BY <1>5
    <3>3. z.size \in Nat /\ s \in Nat /\ s <= z.size /\ x # s
      BY <1>0, <1>1, <1>2, <1>12
    <3>4. QED
      BY <3>1, <3>2, <3>3
  <2>4. h \in Links /\ Ref(V, d, h) = z.ptr[h] /\ q \in Links /\ Ref(V, d, q) = z.ptr[q]
    BY <1>1, <2>1, RefFacts DEF z
  <2>5. CASE h # q \/ z.ptr[q] # 0
    <3>1. f.ptr[h] = z.ptr[h]
      BY <1>1, <1>3, <1>0, <1>5, <2>1, <2>5 DEF Inode
    <3>2. z.ptr[h] # 0 => G.data[z.ptr[h]] = V.data[z.ptr[h]]
      BY <1>9, <2>4
    <3>3. z.type = "dir" /\ f.type = "dir" /\ G.imap = V.imap
      BY <1>0, <1>5, <1>6
    <3>4. z.ptr[h] # 0 => G.data[f.ptr[h]][n].n = V.data[z.ptr[h]][n].n
      BY <3>1, <3>2
    <3>5. QED
      BY <2>1, <2>2, <2>3, <3>1, <3>3, <3>4
  <2>6. CASE h = q /\ z.ptr[q] = 0
    <3>1. f.ptr[h] = a.b
      BY <1>0, <1>5, <2>6
    <3>2. a.b \in Blocks /\ a.v.data = [V.data EXCEPT ![a.b] = BlockOf(Zero)]
      <4>1. a = AllocBlock(V) /\ a.b # 0
        BY <1>0, <1>3, <2>6
      <4>2. QED
        BY <4>1, AllocFacts
    <3>3. G.data[a.b] = BlockOf(Zero)
      BY <1>6, <3>2, Parts
    <3>4. G.data[f.ptr[h]][n].n = 0
      BY <2>1, <3>1, <3>3, Items
    <3>5. QED
      BY <2>1, <2>2, <2>6, <3>4
  <2>7. QED
    BY <2>5, <2>6
<1>13. s < G.ino[d].size /\ G.ino[d].size <= Direct * Width /\ G.ino[d].type = "dir" /\ G.ino[d].ptr[q] # 0
  <2>1. f.ptr[q] # 0 /\ f.type = "dir"
    BY <1>0, <1>5
  <2>2. s < f.size /\ f.size <= Direct * Width
    BY <1>0, <1>1, <1>2, <1>5
  <2>3. G.ino[d] = f
    BY <1>6
  <2>4. QED
    BY <2>1, <2>2, <2>3
<1>14. QED
  BY <1>6, <1>8, <1>10, <1>11, <1>12, <1>13

\* A new entry leads to a new inode.
LEMMA TreeGains ==
  ASSUME NEW V \in Volumes, NEW U \in Volumes, NEW whole, Tree(V, whole), NEW d \in Inodes, NEW s \in Spots,
         NEW i \in Inodes \ V.imap, i # d, i # Root, U.imap = V.imap \union {i}, Leads(V, d, s) = 0, Leads(U, d, s) = i,
         \A e \in Inodes, x \in Spots : e # d \/ x # s => Leads(U, e, x) = Leads(V, e, x),
         U.ino[i].type # "free", \A j \in Inodes \ {i} : U.ino[j].type = V.ino[j].type
  PROVE  Tree(U, whole)
<1>0. i # 0 /\ 0 \notin V.imap
  BY Parts, VolumeSizes
<1>1. \A e \in Inodes, x \in Spots : Leads(V, e, x) # 0 => Leads(V, e, x) \in V.imap /\ Leads(V, e, x) # i
  BY DEF Tree
<1>2. \A e \in Inodes, x \in Spots : Leads(U, e, x) # 0 =>
          Leads(U, e, x) \in U.imap \ {Root, e} /\ U.ino[Leads(U, e, x)].type # "free"
  <2> SUFFICES ASSUME NEW e \in Inodes, NEW x \in Spots, Leads(U, e, x) # 0
               PROVE  Leads(U, e, x) \in U.imap \ {Root, e} /\ U.ino[Leads(U, e, x)].type # "free"
    OBVIOUS
  <2>1. CASE e = d /\ x = s
    BY <2>1
  <2>2. CASE e # d \/ x # s
    <3>1. Leads(U, e, x) = Leads(V, e, x)
      BY <2>2
    <3>2. Leads(V, e, x) \in V.imap \ {Root, e} /\ V.ino[Leads(V, e, x)].type # "free"
      BY <3>1 DEF Tree
    <3>3. Leads(V, e, x) \in Inodes \ {i}
      BY <3>2, Parts
    <3>4. QED
      BY <3>1, <3>2, <3>3
  <2>3. QED
    BY <2>1, <2>2
<1>3. ASSUME NEW e \in Inodes, NEW f \in Inodes, NEW x \in Spots, NEW y \in Spots,
             Leads(U, e, x) # 0, Leads(U, e, x) = Leads(U, f, y)
      PROVE  e = f /\ x = y
  <2>1. CASE e = d /\ x = s
    BY <1>0, <1>1, <1>3, <2>1
  <2>2. CASE f = d /\ y = s
    BY <1>0, <1>1, <1>3, <2>2
  <2>3. CASE (e # d \/ x # s) /\ (f # d \/ y # s)
    BY <1>3, <2>3 DEF Tree
  <2>4. QED
    BY <2>1, <2>2, <2>3
<1>4. ASSUME whole, NEW j \in U.imap \ {Root} PROVE \E e \in Inodes, x \in Spots : Leads(U, e, x) = j
  <2>1. CASE j = i
    BY <2>1
  <2>2. CASE j # i
    <3>1. PICK e \in Inodes, x \in Spots : Leads(V, e, x) = j
      BY <1>4, <2>2 DEF Tree
    <3>2. j # 0
      BY <1>0, <2>2
    <3>3. e # d \/ x # s
      BY <3>1, <3>2
    <3>4. QED
      BY <3>1, <3>3
  <2>3. QED
    BY <2>1, <2>2
<1>5. QED
  BY <1>2, <1>3, <1>4 DEF Tree

\* dir_create_in.
LEMMA CreateKeeps ==
  ASSUME VolumeInv, NEW d \in Dirs, NEW name \in Names, NEW type \in {"file", "dir"}, CreateEntry(d, name, type)
  PROVE  VolumeInv'
<1> DEFINE tight == ~starved
<1> DEFINE whole == ~razed
<1> DEFINE free == Inodes \ vol.imap
<1> DEFINE i == Min(free)
<1> DEFINE M == Made(vol, i, type)
<1> DEFINE gaps == Empty(vol, d)
<1> DEFINE s == IF gaps # {} THEN Min(gaps) ELSE vol.ino[d].size
<1> DEFINE page == s \div Width
<1> DEFINE a == Located(M, vol.ino[d].ptr[page])
<1> DEFINE f == Grown(vol.ino[d], s, page, a.b)
<1> DEFINE G == With(a.v, d, f)
<1> DEFINE item == [n |-> i, name |-> name]
<1> DEFINE U == SetEntry(G, d, s, item)
<1>1. /\ free # {}
      /\ IF page >= Direct \/ a.b = 0 THEN Failed(Unmade(M, i))
         ELSE Succeeded(U) /\ opened' = IF type = "file" THEN opened \union {i} ELSE opened
  BY Zenon DEF CreateEntry, Made, Unmade, Grown, With
<1>2. /\ Shapes(vol, tight) /\ Books(vol, tight) /\ Tree(vol, whole) /\ vol \in Volumes
      /\ opened \subseteq Inodes /\ starved \in BOOLEAN /\ razed \in BOOLEAN
  BY DEF VolumeInv, Shapes
<1>3. d \in Inodes /\ d \in vol.imap /\ vol.ino[d].type = "dir" /\ Root \in vol.imap /\ vol.ino[d].size <= Direct * Width
  BY <1>2 DEF Dirs, Shapes
<1>4. i \in Inodes \ vol.imap /\ i # d /\ i # Root
  <2>1. free \in SUBSET Nat /\ free # {}
    BY <1>1, VolumeSizes
  <2> HIDE DEF free
  <2>2. i \in free
    BY <2>1, LeastNumber
  <2>3. QED
    BY <1>3, <2>2 DEF free
<1>5. vol.ino[d].size \in Nat
  BY <1>2, <1>3, Parts DEF Inode
<1>6. s \in Nat /\ (s = vol.ino[d].size \/ (s \in EntrySlots(vol, d) /\ Entry(vol, d, s).n = 0))
  <2>1. gaps \in SUBSET Nat /\ \A x \in gaps : x \in EntrySlots(vol, d) /\ Entry(vol, d, x).n = 0
    BY <1>5 DEF Empty, EntrySlots
  <2> HIDE DEF gaps
  <2>2. CASE gaps # {}
    <3>1. Min(gaps) \in gaps
      BY <2>1, <2>2, LeastNumber
    <3>2. QED
      BY <2>1, <2>2, <3>1
  <2>3. CASE gaps = {}
    BY <1>5, <2>3
  <2>4. QED
    BY <2>2, <2>3
<1> HIDE DEF tight, whole, free, i, M, gaps, s, page, a, f, G, item, U
<1>7. CASE page >= Direct \/ a.b = 0
  <2>1. vol' = Unmade(M, i) /\ starved' = TRUE /\ opened' = opened /\ razed' = razed
    BY <1>1, <1>7 DEF Failed
  <2> DEFINE W == Unmade(M, i)
  <2>2. M = Made(vol, i, type) /\ W = Unmade(M, i)
    BY DEF M
  <2> HIDE DEF W
  <2>3. Shapes(W, FALSE) /\ Books(W, FALSE) /\ Tree(W, whole)
    BY <1>2, <1>4, <2>2, CreateFails
  <2>4. QED
    BY <1>2, <2>1, <2>3 DEF VolumeInv, W, whole
<1>8. CASE ~(page >= Direct \/ a.b = 0)
  <2>1. vol' = U /\ starved' = starved /\ razed' = razed /\ opened' \subseteq Inodes
    BY <1>1, <1>2, <1>4, <1>8 DEF Succeeded
  <2>2. s \in Spots
    <3>1. s \div Width < Direct <=> s \in Spots
      BY <1>6, SpotFacts
    <3>2. s \div Width \in Nat
      BY <1>6, SpotFacts
    <3>3. QED
      BY <1>8, <3>1, <3>2, VolumeSizes DEF page
  <2>3. /\ M \in Volumes /\ M.imap = vol.imap \union {i} /\ M.bmap = vol.bmap /\ M.data = vol.data
        /\ M.ino[i] = NewInode(type) /\ \A j \in Inodes \ {i} : M.ino[j] = vol.ino[j]
        /\ \A k \in Links : Ref(M, i, k) = 0
        /\ \A j \in Inodes, k \in Links : j # i => Ref(M, j, k) = Ref(vol, j, k)
        /\ \A e \in Inodes, x \in Spots : Leads(M, e, x) = Leads(vol, e, x)
    BY <1>2, <1>4, InodeMade DEF M
  <2>4. Books(M, tight)
    <3>1. tight => \A k \in Links : Ref(vol, i, k) = 0
      BY <1>2, <1>4 DEF Shapes
    <3>2. QED
      BY <1>2, <1>4, <2>3, <3>1, BooksReset
  <2>5. M.ino[d] = vol.ino[d]
    BY <1>3, <1>4, <2>3
  <2>6. Leads(vol, d, s) = 0 /\ (s = vol.ino[d].size \/ (s < vol.ino[d].size /\ vol.ino[d].ptr[page] # 0))
    <3>1. s \in EntrySlots(vol, d) <=> s < vol.ino[d].size /\ vol.ino[d].ptr[page] # 0
      BY <1>2, <1>3, <2>2, LeadsIs DEF page
    <3>2. s \in EntrySlots(vol, d) => Entry(vol, d, s).n = 0
      BY <1>5, <1>6, <3>1
    <3>3. QED
      BY <1>6, <3>1, <3>2 DEF Leads
  <2>7. Place(M, d, s, page, a, f)
    BY <1>3, <1>8, <2>5, <2>6 DEF Place, a, f, page
  <2>8. /\ G \in Volumes /\ G.imap = M.imap /\ \A j \in Inodes \ {d} : G.ino[j] = M.ino[j]
        /\ Books(G, tight) /\ G.ino[d].ptr[page] # 0 /\ s < G.ino[d].size
        /\ G.ino[d].size <= Direct * Width /\ G.ino[d].type = "dir"
        /\ \A j \in Inodes, k \in Links : j # d => Ref(G, j, k) = Ref(M, j, k)
        /\ \A e \in Inodes, x \in Spots : e # d \/ x # s => Leads(G, e, x) = Leads(M, e, x)
    BY <1>3, <2>2, <2>3, <2>4, <2>7, SlotMade DEF G
  <2>9. item \in Item /\ item.n = i
    BY <1>4, VolumeSizes DEF item, Item
  <2>10. /\ U \in Volumes /\ U.ino = G.ino /\ U.imap = G.imap /\ U.bmap = G.bmap
         /\ \A j \in Inodes, k \in Links : Ref(U, j, k) = Ref(G, j, k)
         /\ Books(U, tight)
         /\ \A e \in Inodes, x \in Spots : e # d \/ x # s => Leads(U, e, x) = Leads(G, e, x)
         /\ d \in G.imap /\ G.ino[d].type = "dir" /\ s < G.ino[d].size => Leads(U, d, s) = item.n
    <3>1. G.ino[d].ptr[s \div Width] # 0
      BY <2>8 DEF page
    <3>2. QED
      BY <1>3, <2>2, <2>8, <2>9, <3>1, EntrySet DEF U
  <2>11. U.ino[i] = NewInode(type) /\ U.ino[i].type = type /\ U.ino[i].size = 0
    <3>1. U.ino[i] = NewInode(type)
      BY <1>4, <2>3, <2>8, <2>10
    <3>2. QED
      BY <3>1, NewInodeFacts
  <2>12. \A j \in Inodes \ {i} : U.ino[j].type = vol.ino[j].type
    BY <1>3, <2>3, <2>8, <2>10
  <2>13. Tree(U, whole)
    <3>1. U.imap = vol.imap \union {i} /\ U \in Volumes /\ U.ino[i].type # "free"
      BY <2>3, <2>8, <2>10, <2>11
    <3>2. Leads(U, d, s) = i
      BY <1>3, <2>3, <2>8, <2>9, <2>10
    <3>3. \A e \in Inodes, x \in Spots : e # d \/ x # s => Leads(U, e, x) = Leads(vol, e, x)
      BY <2>3, <2>8, <2>10
    <3>4. QED
      BY <1>2, <1>3, <1>4, <2>2, <2>6, <2>12, <3>1, <3>2, <3>3, TreeGains
  <2>14. Shapes(U, tight)
    <3>1. Root \in U.imap /\ U.imap = vol.imap \union {i}
      BY <1>3, <2>3, <2>8, <2>10
    <3>2. ASSUME NEW j \in Inodes PROVE U.ino[j].size <= IF U.ino[j].type = "dir" THEN Direct * Width ELSE MaxFileBlocks
      <4>1. CASE j = i
        BY <2>11, <4>1, VolumeSizes DEF MaxFileBlocks
      <4>2. CASE j = d
        BY <2>8, <2>10, <4>2
      <4>3. CASE j # i /\ j # d
        BY <1>2, <2>3, <2>8, <2>10, <4>3 DEF Shapes
      <4>4. QED
        BY <4>1, <4>2, <4>3
    <3>3. ASSUME NEW j \in Inodes, U.ino[j].type = "free" PROVE \A k \in Links : Ref(U, j, k) = 0
      <4>1. j # i /\ j # d /\ vol.ino[j].type = "free"
        BY <2>8, <2>10, <2>11, <2>12, <3>3
      <4>2. \A k \in Links : Ref(vol, j, k) = 0
        BY <1>2, <4>1 DEF Shapes
      <4>3. QED
        BY <2>3, <2>8, <2>10, <4>1, <4>2
    <3>4. ASSUME tight, NEW j \in Inodes \ U.imap PROVE U.ino[j].type = "free"
      <4>1. j # i /\ j \in Inodes \ vol.imap
        BY <3>1, <3>4
      <4>2. QED
        BY <1>2, <2>12, <3>4, <4>1 DEF Shapes
    <3>5. QED
      BY <2>10, <3>1, <3>2, <3>3, <3>4 DEF Shapes
  <2>15. QED
    BY <1>2, <2>1, <2>10, <2>13, <2>14 DEF VolumeInv, tight, whole
<1>9. QED
  BY <1>7, <1>8

(***************************************************************************)
(* A file is truncated, an entry is dropped.                               *)
(***************************************************************************)
\* The blocks that osfs2_truncate frees are those that the inode refers to.
LEMMA HeldFacts ==
  ASSUME NEW V \in Volumes, NEW i \in Inodes, NEW b, b # 0
  PROVE  b \in Held(V, i) <=> \E k \in Links : Ref(V, i, k) = b
<1> DEFINE z == V.ino[i]
<1>1. /\ \A k \in Pointers : k \in Links /\ k # Direct /\ Ref(V, i, k) = z.ptr[k]
      /\ Direct \in Links /\ Ref(V, i, Direct) = z.ind
      /\ \A k \in Offsets : /\ Direct + 1 + k \in Links /\ Direct + 1 + k # Direct
                            /\ Ref(V, i, Direct + 1 + k) = IF z.ind = 0 THEN 0 ELSE V.data[z.ind][k].n
      /\ \A k \in Links : k \in Pointers \/ k = Direct \/ (k - Direct - 1 \in Offsets /\ k = Direct + 1 + (k - Direct - 1))
  BY RefFacts
<1>2. b \in Held(V, i) <=> \/ \E k \in Pointers : z.ptr[k] = b
                           \/ z.ind # 0 /\ (z.ind = b \/ \E k \in Offsets : V.data[z.ind][k].n = b)
  BY DEF Held, Indirect, Pointers, Offsets
<1> HIDE DEF z
<1>3. ASSUME b \in Held(V, i) PROVE \E k \in Links : Ref(V, i, k) = b
  <2>1. CASE \E k \in Pointers : z.ptr[k] = b
    BY <1>1, <2>1
  <2>2. CASE z.ind # 0 /\ z.ind = b
    BY <1>1, <2>2
  <2>3. CASE z.ind # 0 /\ \E k \in Offsets : V.data[z.ind][k].n = b
    <3>1. PICK k \in Offsets : V.data[z.ind][k].n = b
      BY <2>3
    <3>2. Direct + 1 + k \in Links /\ Ref(V, i, Direct + 1 + k) = b
      BY <1>1, <2>3, <3>1
    <3>3. QED
      BY <3>2
  <2>4. QED
    BY <1>2, <1>3, <2>1, <2>2, <2>3
<1>4. ASSUME NEW k \in Links, Ref(V, i, k) = b PROVE b \in Held(V, i)
  <2>1. CASE k \in Pointers
    BY <1>1, <1>2, <1>4, <2>1
  <2>2. CASE k = Direct
    BY <1>1, <1>2, <1>4, <2>2
  <2>3. CASE k \notin Pointers /\ k # Direct
    <3> DEFINE o == k - Direct - 1
    <3>1. o \in Offsets /\ k = Direct + 1 + o
      BY <1>1, <2>3
    <3> HIDE DEF o
    <3>2. Ref(V, i, k) = IF z.ind = 0 THEN 0 ELSE V.data[z.ind][o].n
      BY <1>1, <3>1
    <3>3. QED
      BY <1>2, <1>4, <3>1, <3>2
  <2>4. QED
    BY <2>1, <2>2, <2>3
<1>5. QED
  BY <1>3, <1>4

\* osfs2_truncate.
LEMMA TruncateKeeps ==
  ASSUME NEW V \in Volumes, NEW i \in Inodes, NEW tight, Books(V, tight), NEW T, T = Truncate(V, i)
  PROVE  /\ T \in Volumes /\ T.imap = V.imap /\ T.data = V.data
         /\ T.ino[i] = NewInode(V.ino[i].type) /\ \A j \in Inodes \ {i} : T.ino[j] = V.ino[j]
         /\ \A k \in Links : Ref(T, i, k) = 0
         /\ \A j \in Inodes, k \in Links : j # i => Ref(T, j, k) = Ref(V, j, k)
         /\ \A s \in Spots : Leads(T, i, s) = 0
         /\ \A e \in Inodes, s \in Spots : e # i => Leads(T, e, s) = Leads(V, e, s)
         /\ Books(T, tight)
<1> DEFINE type == V.ino[i].type
<1> DEFINE f == NewInode(type)
<1> DEFINE held == Held(V, i)
<1>1. type \in {"free", "file", "dir"} /\ f \in Inode
  BY Parts, NewInodeFacts DEF Inode
<1>2. T = [imap |-> V.imap, bmap |-> V.bmap \ held, data |-> V.data, ino |-> [V.ino EXCEPT ![i] = f]]
  <2>1. V = [imap |-> V.imap, bmap |-> V.bmap, data |-> V.data, ino |-> V.ino]
    BY Parts
  <2>2. T = [V EXCEPT !.bmap = @ \ held, !.ino[i] = f]
    BY DEF Truncate
  <2> HIDE DEF f, held
  <2>3. QED
    BY <2>1, <2>2
<1> HIDE DEF f, held
<1>3. [V.ino EXCEPT ![i] = f] \in [Inodes -> Inode] /\ V.bmap \ held \subseteq Blocks
  BY <1>1, Parts
<1>4. T \in Volumes
  BY <1>2, <1>3, Parts DEF Volumes
<1>5. /\ T.imap = V.imap /\ T.bmap = V.bmap \ held /\ T.data = V.data
      /\ T.ino[i] = f /\ \A j \in Inodes \ {i} : T.ino[j] = V.ino[j]
  BY <1>2, Parts
<1>6. /\ \A k \in Links : Ref(T, i, k) = 0
      /\ \A j \in Inodes, k \in Links : j # i => Ref(T, j, k) = Ref(V, j, k)
      /\ \A s \in Spots : Leads(T, i, s) = 0
      /\ \A e \in Inodes, s \in Spots : e # i => Leads(T, e, s) = Leads(V, e, s)
  <2>1. T.ino[i] = NewInode(type)
    BY <1>5 DEF f
  <2> HIDE DEF type
  <2>2. QED
    BY <1>1, <1>4, <1>5, <2>1, InodeReset
<1>7. 0 \notin V.bmap
  BY Parts, VolumeSizes
<1>8. \A b : b # 0 => (b \in held <=> \E k \in Links : Ref(V, i, k) = b)
  BY HeldFacts DEF held
<1>9. Books(T, tight)
  <2>1. \A j, m \in Inodes, k, l \in Links :
            Ref(T, j, k) # 0 /\ Ref(T, j, k) = Ref(T, m, l) => j = m /\ k = l
    BY <1>6 DEF Books
  <2>2. ASSUME NEW j \in Inodes, NEW k \in Links, Ref(T, j, k) # 0 PROVE Ref(T, j, k) \in T.bmap
    <3> DEFINE b == Ref(V, j, k)
    <3>1. j # i /\ Ref(T, j, k) = b /\ b # 0
      BY <1>6, <2>2
    <3>2. b \in V.bmap /\ \A l \in Links : Ref(V, i, l) # b
      BY <3>1 DEF Books
    <3>3. b \notin held
      BY <1>8, <3>1, <3>2
    <3>4. QED
      BY <1>5, <3>1, <3>2, <3>3
  <2>3. ASSUME tight, NEW b \in T.bmap PROVE \E j \in Inodes, k \in Links : Ref(T, j, k) = b
    <3>1. b \in V.bmap /\ b \notin held /\ b # 0
      BY <1>5, <1>7, <2>3
    <3>2. PICK j \in Inodes, k \in Links : Ref(V, j, k) = b
      BY <2>3, <3>1 DEF Books
    <3>3. j # i
      BY <1>8, <3>1, <3>2
    <3>4. QED
      BY <1>6, <3>2, <3>3
  <2>4. QED
    BY <2>1, <2>2, <2>3 DEF Books
<1>10. QED
  BY <1>4, <1>5, <1>6, <1>9 DEF f

\* An entry that led to an inode is gone, and what that inode led to.
LEMMA TreeLoses ==
  ASSUME NEW V \in Volumes, NEW U \in Volumes, NEW whole, NEW h, Tree(V, whole), NEW i \in Inodes,
         \A x \in Spots : Leads(U, i, x) = 0,
         \A e \in Inodes, x \in Spots : Leads(U, e, x) = Leads(V, e, x) \/ Leads(U, e, x) = 0,
         \A e \in Inodes, x \in Spots : Leads(U, e, x) # 0 => Leads(U, e, x) \in U.imap,
         \A j \in U.imap : U.ino[j].type = V.ino[j].type,
         U.imap \subseteq V.imap,
         h => whole /\ \A e \in Inodes, x \in Spots :
                Leads(V, e, x) # 0 /\ Leads(U, e, x) = 0 => Leads(V, e, x) \notin U.imap
  PROVE  Tree(U, h)
<1>1. \A e \in Inodes, x \in Spots : Leads(U, e, x) # 0 =>
          Leads(U, e, x) \in U.imap \ {Root, e} /\ U.ino[Leads(U, e, x)].type # "free"
  <2> SUFFICES ASSUME NEW e \in Inodes, NEW x \in Spots, Leads(U, e, x) # 0
               PROVE  Leads(U, e, x) \in U.imap \ {Root, e} /\ U.ino[Leads(U, e, x)].type # "free"
    OBVIOUS
  <2>1. Leads(U, e, x) = Leads(V, e, x) /\ Leads(U, e, x) \in U.imap
    OBVIOUS
  <2>2. Leads(V, e, x) \in V.imap \ {Root, e} /\ V.ino[Leads(V, e, x)].type # "free"
    BY <2>1 DEF Tree
  <2>3. QED
    BY <2>1, <2>2
<1>2. \A e, f \in Inodes, x, y \in Spots :
          Leads(U, e, x) # 0 /\ Leads(U, e, x) = Leads(U, f, y) => e = f /\ x = y
  <2> SUFFICES ASSUME NEW e \in Inodes, NEW f \in Inodes, NEW x \in Spots, NEW y \in Spots,
                      Leads(U, e, x) # 0, Leads(U, e, x) = Leads(U, f, y)
               PROVE  e = f /\ x = y
    OBVIOUS
  <2>1. Leads(V, e, x) = Leads(U, e, x) /\ Leads(V, f, y) = Leads(U, f, y)
    OBVIOUS
  <2>2. QED
    BY <2>1 DEF Tree
<1>3. ASSUME h, NEW j \in U.imap \ {Root} PROVE \E e \in Inodes, x \in Spots : Leads(U, e, x) = j
  <2>1. PICK e \in Inodes, x \in Spots : Leads(V, e, x) = j
    BY <1>3 DEF Tree
  <2>2. j # 0
    BY Parts, VolumeSizes
  <2>3. Leads(U, e, x) # 0
    BY <1>3, <2>1, <2>2
  <2>4. QED
    BY <2>1, <2>3
<1>4. QED
  BY <1>1, <1>2, <1>3 DEF Tree

\* An inode is given back.
Dropped(V, i) == [V EXCEPT !.ino[i] = NewInode("free"), !.imap = @ \ {i}]

\* It refers to nothing, leads nowhere and changes nothing else.
LEMMA DroppedFacts ==
  ASSUME NEW V \in Volumes, NEW i \in Inodes, NEW R, R = Dropped(V, i)
  PROVE  /\ R \in Volumes /\ R.imap = V.imap \ {i} /\ R.bmap = V.bmap /\ R.data = V.data
         /\ R.ino[i] = NewInode("free") /\ \A j \in Inodes \ {i} : R.ino[j] = V.ino[j]
         /\ \A k \in Links : Ref(R, i, k) = 0
         /\ \A j \in Inodes, k \in Links : j # i => Ref(R, j, k) = Ref(V, j, k)
         /\ \A s \in Spots : Leads(R, i, s) = 0
         /\ \A e \in Inodes, s \in Spots : e # i => Leads(R, e, s) = Leads(V, e, s)
<1> DEFINE type == "free"
<1> DEFINE f == NewInode(type)
<1>1. type \in {"free", "file", "dir"} /\ f \in Inode
  BY NewInodeFacts
<1>2. R = [imap |-> V.imap \ {i}, bmap |-> V.bmap, data |-> V.data, ino |-> [V.ino EXCEPT ![i] = f]]
  <2>1. V = [imap |-> V.imap, bmap |-> V.bmap, data |-> V.data, ino |-> V.ino]
    BY Parts
  <2>2. R = [V EXCEPT !.ino[i] = f, !.imap = @ \ {i}]
    BY DEF Dropped
  <2> HIDE DEF f
  <2>3. QED
    BY <2>1, <2>2
<1> HIDE DEF f
<1>3. [V.ino EXCEPT ![i] = f] \in [Inodes -> Inode] /\ V.imap \ {i} \subseteq Inodes
  BY <1>1, Parts
<1>4. R \in Volumes
  BY <1>2, <1>3, Parts DEF Volumes
<1>5. /\ R.imap = V.imap \ {i} /\ R.bmap = V.bmap /\ R.data = V.data
      /\ R.ino[i] = f /\ \A j \in Inodes \ {i} : R.ino[j] = V.ino[j]
  BY <1>2, Parts
<1>6. /\ \A k \in Links : Ref(R, i, k) = 0
      /\ \A j \in Inodes, k \in Links : j # i => Ref(R, j, k) = Ref(V, j, k)
      /\ \A s \in Spots : Leads(R, i, s) = 0
      /\ \A e \in Inodes, s \in Spots : e # i => Leads(R, e, s) = Leads(V, e, s)
  <2>1. R.ino[i] = NewInode(type)
    BY <1>5 DEF f
  <2> HIDE DEF type
  <2>2. QED
    BY <1>1, <1>4, <1>5, <2>1, InodeReset
<1>7. QED
  BY <1>4, <1>5, <1>6 DEF f

\* What an entry that is found leads to.
LEMMA Found ==
  ASSUME VolumeInv, NEW d \in Dirs, NEW name, NEW s \in Find(vol, d, name), NEW i, i = Entry(vol, d, s).n
  PROVE  /\ d \in Inodes /\ d \in vol.imap /\ vol.ino[d].type = "dir" /\ s \in Spots
         /\ s < vol.ino[d].size /\ vol.ino[d].ptr[s \div Width] # 0
         /\ Leads(vol, d, s) = i /\ i \in Inodes /\ i \in vol.imap /\ i # d /\ i # Root /\ i # 0
         /\ vol.ino[i].type # "free"
<1>1. vol \in Volumes /\ Tree(vol, ~razed)
  BY DEF VolumeInv, Shapes
<1>2. d \in Inodes /\ d \in vol.imap /\ vol.ino[d].type = "dir" /\ vol.ino[d].size <= Direct * Width
  BY DEF Dirs, VolumeInv, Shapes
<1>3. vol.ino[d].size \in Nat
  BY <1>1, <1>2, Parts DEF Inode
<1>4. s \in EntrySlots(vol, d) /\ i # 0
  BY DEF Find
<1>5. s \in Spots
  BY <1>2, <1>3, <1>4, VolumeSizes DEF EntrySlots, Spots
<1>6. s < vol.ino[d].size /\ vol.ino[d].ptr[s \div Width] # 0
  BY <1>1, <1>2, <1>4, <1>5, LeadsIs
<1>7. Leads(vol, d, s) = i
  BY <1>2, <1>4 DEF Leads
<1>8. i \in vol.imap \ {Root, d} /\ vol.ino[i].type # "free"
  BY <1>1, <1>2, <1>4, <1>5, <1>7 DEF Tree
<1>9. QED
  BY <1>1, <1>2, <1>4, <1>5, <1>6, <1>7, <1>8, Parts

\* The end of osfs2_unlink and osfs2_rmdir.
LEMMA DropKeeps ==
  ASSUME VolumeInv, NEW d \in Dirs, NEW name, NEW s \in Find(vol, d, name), NEW i, i = Entry(vol, d, s).n,
         \A x \in Spots : Leads(vol, i, x) = 0, DropEntry(d, s), opened' = opened
  PROVE  VolumeInv'
<1> DEFINE tight == ~starved
<1> DEFINE whole == ~razed
<1> DEFINE T == Truncate(vol, i)
<1> DEFINE C == SetEntry(T, d, s, Zero)
<1> DEFINE R == Dropped(C, i)
<1>1. vol' = R /\ starved' = starved /\ razed' = razed
  BY Zenon DEF DropEntry, Succeeded, Dropped
<1>2. /\ Shapes(vol, tight) /\ Books(vol, tight) /\ Tree(vol, whole) /\ vol \in Volumes /\ Root \in vol.imap
      /\ opened \subseteq Inodes /\ starved \in BOOLEAN /\ razed \in BOOLEAN
  BY DEF VolumeInv, Shapes
<1>3. /\ d \in Inodes /\ d \in vol.imap /\ vol.ino[d].type = "dir" /\ s \in Spots
      /\ s < vol.ino[d].size /\ vol.ino[d].ptr[s \div Width] # 0
      /\ Leads(vol, d, s) = i /\ i \in Inodes /\ i \in vol.imap /\ i # d /\ i # Root /\ i # 0
      /\ vol.ino[i].type # "free"
  BY Found
<1> HIDE DEF tight, whole, T, C, R
<1>4. /\ T \in Volumes /\ T.imap = vol.imap /\ T.data = vol.data
      /\ T.ino[i] = NewInode(vol.ino[i].type) /\ \A j \in Inodes \ {i} : T.ino[j] = vol.ino[j]
      /\ \A k \in Links : Ref(T, i, k) = 0
      /\ \A j \in Inodes, k \in Links : j # i => Ref(T, j, k) = Ref(vol, j, k)
      /\ \A x \in Spots : Leads(T, i, x) = 0
      /\ \A e \in Inodes, x \in Spots : e # i => Leads(T, e, x) = Leads(vol, e, x)
      /\ Books(T, tight)
  BY <1>2, <1>3, TruncateKeeps DEF T
<1>5. T.ino[d] = vol.ino[d]
  BY <1>3, <1>4
<1>6. /\ C \in Volumes /\ C.ino = T.ino /\ C.imap = T.imap /\ C.bmap = T.bmap
      /\ \A j \in Inodes, k \in Links : Ref(C, j, k) = Ref(T, j, k)
      /\ Books(C, tight)
      /\ \A f \in Inodes, x \in Spots : f # d \/ x # s => Leads(C, f, x) = Leads(T, f, x)
      /\ d \in T.imap /\ T.ino[d].type = "dir" /\ s < T.ino[d].size => Leads(C, d, s) = Zero.n
  <2>1. T.ino[d].ptr[s \div Width] # 0 /\ Zero \in Item
    BY <1>3, <1>5, Items
  <2>2. QED
    BY <1>3, <1>4, <2>1, EntrySet DEF C
<1>7. /\ R \in Volumes /\ R.imap = C.imap \ {i} /\ R.bmap = C.bmap /\ R.data = C.data
      /\ R.ino[i] = NewInode("free") /\ \A j \in Inodes \ {i} : R.ino[j] = C.ino[j]
      /\ \A k \in Links : Ref(R, i, k) = 0
      /\ \A j \in Inodes, k \in Links : j # i => Ref(R, j, k) = Ref(C, j, k)
      /\ \A x \in Spots : Leads(R, i, x) = 0
      /\ \A e \in Inodes, x \in Spots : e # i => Leads(R, e, x) = Leads(C, e, x)
  <2>1. C \in Volumes /\ i \in Inodes /\ R = Dropped(C, i)
    BY <1>3, <1>6 DEF R
  <2>2. QED
    BY <2>1, DroppedFacts
<1>8. Books(R, tight)
  <2>1. \A k \in Links : Ref(C, i, k) = 0
    BY <1>3, <1>4, <1>6
  <2>2. QED
    BY <1>3, <1>6, <1>7, <2>1, BooksReset
<1>9. Leads(C, d, s) = 0
  BY <1>3, <1>4, <1>5, <1>6, Items
<1>10. R.imap = vol.imap \ {i} /\ \A j \in Inodes \ {i} : R.ino[j] = vol.ino[j]
  BY <1>4, <1>6, <1>7
<1>11. \A e \in Inodes, x \in Spots :
           Leads(R, e, x) = IF e = i \/ (e = d /\ x = s) THEN 0 ELSE Leads(vol, e, x)
  BY <1>3, <1>4, <1>6, <1>7, <1>9
<1>12. Tree(R, whole)
  <2>1. \A e \in Inodes, x \in Spots : Leads(R, e, x) # 0 => Leads(R, e, x) \in R.imap
    <3> SUFFICES ASSUME NEW e \in Inodes, NEW x \in Spots, Leads(R, e, x) # 0 PROVE Leads(R, e, x) \in R.imap
      OBVIOUS
    <3>1. Leads(R, e, x) = Leads(vol, e, x) /\ (e # d \/ x # s)
      BY <1>11
    <3>2. Leads(vol, e, x) \in vol.imap /\ Leads(vol, e, x) # i
      BY <1>2, <1>3, <3>1 DEF Tree
    <3>3. QED
      BY <1>10, <3>1, <3>2
  <2>2. \A j \in R.imap : R.ino[j].type = vol.ino[j].type
    BY <1>2, <1>10, Parts
  <2>3. \A e \in Inodes, x \in Spots : Leads(vol, e, x) # 0 /\ Leads(R, e, x) = 0 => Leads(vol, e, x) \notin R.imap
    BY <1>3, <1>10, <1>11
  <2>4. \A e \in Inodes, x \in Spots : Leads(R, e, x) = Leads(vol, e, x) \/ Leads(R, e, x) = 0
    BY <1>11
  <2>5. QED
    BY <1>2, <1>3, <1>7, <1>10, <2>1, <2>2, <2>3, <2>4, TreeLoses
<1>13. Shapes(R, tight)
  <2>1. R.ino[i].type = "free" /\ R.ino[i].size = 0
    BY <1>7, NewInodeFacts
  <2>2. ASSUME NEW j \in Inodes PROVE R.ino[j].size <= IF R.ino[j].type = "dir" THEN Direct * Width ELSE MaxFileBlocks
    <3>1. CASE j = i
      BY <2>1, <3>1, VolumeSizes DEF MaxFileBlocks
    <3>2. CASE j # i
      BY <1>2, <1>10, <3>2 DEF Shapes
    <3>3. QED
      BY <3>1, <3>2
  <2>3. ASSUME NEW j \in Inodes, R.ino[j].type = "free" PROVE \A k \in Links : Ref(R, j, k) = 0
    <3>1. CASE j = i
      BY <1>7, <3>1
    <3>2. CASE j # i
      <4>1. \A k \in Links : Ref(vol, j, k) = 0
        BY <1>2, <1>10, <2>3, <3>2 DEF Shapes
      <4>2. QED
        BY <1>4, <1>6, <1>7, <3>2, <4>1
    <3>3. QED
      BY <3>1, <3>2
  <2>4. ASSUME tight, NEW j \in Inodes \ R.imap PROVE R.ino[j].type = "free"
    <3>1. CASE j = i
      BY <2>1, <3>1
    <3>2. CASE j # i
      BY <1>2, <1>10, <2>4, <3>2 DEF Shapes
    <3>3. QED
      BY <3>1, <3>2
  <2>5. Root \in R.imap
    BY <1>2, <1>3, <1>10
  <2>6. QED
    BY <1>7, <2>2, <2>3, <2>4, <2>5 DEF Shapes
<1>14. QED
  BY <1>1, <1>2, <1>8, <1>12, <1>13 DEF VolumeInv, tight, whole

\* osfs2_unlink: a file leads nowhere.
LEMMA UnlinkKeeps ==
  ASSUME VolumeInv, NEW d \in Dirs, NEW name \in Names, Unlink(d, name)
  PROVE  VolumeInv'
<1>1. PICK s \in Find(vol, d, name) : vol.ino[Entry(vol, d, s).n].type # "dir" /\ DropEntry(d, s)
  BY DEF Unlink
<1> DEFINE i == Entry(vol, d, s).n
<1>2. \A x \in Spots : Leads(vol, i, x) = 0
  BY <1>1 DEF Leads
<1>3. opened' = opened
  BY DEF Unlink
<1> HIDE DEF i
<1>4. QED
  BY <1>1, <1>2, <1>3, DropKeeps DEF i

\* osfs2_rmdir: nor does an empty directory.
LEMMA RmdirKeeps ==
  ASSUME VolumeInv, NEW d \in Dirs, NEW name \in Names, Rmdir(d, name)
  PROVE  VolumeInv'
<1>1. PICK s \in Find(vol, d, name) :
         LET i == Entry(vol, d, s).n
         IN  /\ vol.ino[i].type = "dir"
             /\ \A t \in 0 .. vol.ino[i].size - 1 : vol.ino[i].ptr[t \div Width] # 0 /\ Entry(vol, i, t).n = 0
             /\ DropEntry(d, s)
  BY DEF Rmdir
<1> DEFINE i == Entry(vol, d, s).n
<1>2. /\ \A t \in 0 .. vol.ino[i].size - 1 : Entry(vol, i, t).n = 0
      /\ DropEntry(d, s)
  BY <1>1
<1>3. opened' = opened
  BY DEF Rmdir
<1> HIDE DEF i
<1>4. \A x \in Spots : Leads(vol, i, x) = 0
  BY <1>2 DEF Leads, EntrySlots
<1>5. QED
  BY <1>2, <1>3, <1>4, DropKeeps DEF i

\* osfs2_op_open with O_TRUNC: a directory that had entries is noted.
LEMMA OpenTruncKeeps ==
  ASSUME VolumeInv, NEW d \in Dirs, NEW name \in Names, OpenTrunc(d, name)
  PROVE  VolumeInv'
<1> DEFINE tight == ~starved
<1> DEFINE whole == ~razed
<1> DEFINE h == ~razed'
<1>1. PICK s \in Find(vol, d, name) :
         LET i == Entry(vol, d, s).n
         IN  /\ vol' = Truncate(vol, i)
             /\ razed' = (razed \/ /\ vol.ino[i].type = "dir"
                                   /\ \E t \in EntrySlots(vol, i) : Entry(vol, i, t).n # 0)
  BY DEF OpenTrunc
<1> DEFINE i == Entry(vol, d, s).n
<1> DEFINE T == Truncate(vol, i)
<1>2. /\ vol' = T /\ opened' = opened /\ starved' = starved
      /\ razed' = (razed \/ (vol.ino[i].type = "dir" /\ \E t \in EntrySlots(vol, i) : Entry(vol, i, t).n # 0))
  BY <1>1 DEF OpenTrunc
<1>3. /\ Shapes(vol, tight) /\ Books(vol, tight) /\ Tree(vol, whole) /\ vol \in Volumes /\ Root \in vol.imap
      /\ opened \subseteq Inodes /\ starved \in BOOLEAN /\ razed \in BOOLEAN
  BY DEF VolumeInv, Shapes
<1>4. i \in Inodes /\ i \in vol.imap /\ vol.ino[i].type # "free"
  BY Found
<1> HIDE DEF tight, whole, h, i, T
<1>5. razed' \in BOOLEAN /\ (h => whole /\ \A x \in Spots : Leads(vol, i, x) = 0)
  BY <1>2, <1>3 DEF h, whole, Leads
<1>6. /\ T \in Volumes /\ T.imap = vol.imap /\ T.data = vol.data
      /\ T.ino[i] = NewInode(vol.ino[i].type) /\ \A j \in Inodes \ {i} : T.ino[j] = vol.ino[j]
      /\ \A k \in Links : Ref(T, i, k) = 0
      /\ \A j \in Inodes, k \in Links : j # i => Ref(T, j, k) = Ref(vol, j, k)
      /\ \A x \in Spots : Leads(T, i, x) = 0
      /\ \A e \in Inodes, x \in Spots : e # i => Leads(T, e, x) = Leads(vol, e, x)
      /\ Books(T, tight)
  BY <1>3, <1>4, TruncateKeeps DEF T
<1>7. T.ino[i].type = vol.ino[i].type /\ T.ino[i].size = 0
  <2>1. vol.ino[i].type \in {"free", "file", "dir"}
    BY <1>3, <1>4, Parts DEF Inode
  <2>2. QED
    BY <1>6, <2>1, NewInodeFacts
<1>8. Tree(T, h)
  <2>1. \A e \in Inodes, x \in Spots : Leads(T, e, x) = Leads(vol, e, x) \/ Leads(T, e, x) = 0
    BY <1>6
  <2>2. \A e \in Inodes, x \in Spots : Leads(T, e, x) # 0 => Leads(T, e, x) \in T.imap
    BY <1>3, <1>6 DEF Tree
  <2>3. \A j \in T.imap : T.ino[j].type = vol.ino[j].type
    BY <1>3, <1>6, <1>7, Parts
  <2>4. h => whole /\ \A e \in Inodes, x \in Spots :
                Leads(vol, e, x) # 0 /\ Leads(T, e, x) = 0 => Leads(vol, e, x) \notin T.imap
    BY <1>5, <1>6
  <2>5. T.imap \subseteq vol.imap
    BY <1>6
  <2>6. QED
    BY <1>3, <1>4, <1>6, <2>1, <2>2, <2>3, <2>4, <2>5, TreeLoses
<1>9. Shapes(T, tight)
  <2>1. ASSUME NEW j \in Inodes PROVE T.ino[j].size <= IF T.ino[j].type = "dir" THEN Direct * Width ELSE MaxFileBlocks
    <3>1. CASE j = i
      BY <1>7, <3>1, VolumeSizes DEF MaxFileBlocks
    <3>2. CASE j # i
      BY <1>3, <1>6, <3>2 DEF Shapes
    <3>3. QED
      BY <3>1, <3>2
  <2>2. ASSUME NEW j \in Inodes, T.ino[j].type = "free" PROVE \A k \in Links : Ref(T, j, k) = 0
    <3>1. j # i
      BY <1>4, <1>7, <2>2
    <3>2. QED
      BY <1>3, <1>6, <2>2, <3>1 DEF Shapes
  <2>3. ASSUME tight, NEW j \in Inodes \ T.imap PROVE T.ino[j].type = "free"
    BY <1>3, <1>4, <1>6, <2>3 DEF Shapes
  <2>4. Root \in T.imap
    BY <1>3, <1>6
  <2>5. QED
    BY <1>6, <2>1, <2>2, <2>3, <2>4 DEF Shapes
<1>10. QED
  BY <1>2, <1>3, <1>5, <1>6, <1>8, <1>9 DEF VolumeInv, tight, h

(***************************************************************************)
(* The theorem.                                                            *)
(***************************************************************************)
\* The fresh volume.
LEMMA FreshVolume == FsInit => VolumeInv
<1> SUFFICES ASSUME FsInit PROVE VolumeInv
  OBVIOUS
<1>1. /\ vol = [imap |-> {Root}, bmap |-> {}, data |-> [b \in Blocks |-> BlockOf(Zero)],
                ino |-> [i \in Inodes |-> NewInode(IF i = Root THEN "dir" ELSE "free")]]
      /\ opened = {} /\ starved = FALSE /\ razed = FALSE
  BY DEF FsInit
<1> DEFINE kind(i) == IF i = Root THEN "dir" ELSE "free"
<1>2. \A i \in Inodes : /\ NewInode(kind(i)) \in Inode /\ NewInode(kind(i)).type = kind(i) /\ NewInode(kind(i)).size = 0
                        /\ NewInode(kind(i)).ind = 0 /\ \A k \in Pointers : NewInode(kind(i)).ptr[k] = 0
  BY NewInodeFacts
<1>3. vol.imap = {Root} /\ vol.bmap = {} /\ \A i \in Inodes : vol.ino[i] = NewInode(kind(i))
  BY <1>1
<1>4. vol \in Volumes
  <2>1. [i \in Inodes |-> NewInode(kind(i))] \in [Inodes -> Inode]
    BY <1>2
  <2>2. [b \in Blocks |-> BlockOf(Zero)] \in [Blocks -> [Offsets -> Item]]
    BY Items
  <2>3. {Root} \subseteq Inodes
    BY VolumeSizes
  <2> HIDE DEF kind
  <2>4. vol = [imap |-> {Root}, bmap |-> {}, data |-> [b \in Blocks |-> BlockOf(Zero)],
               ino |-> [i \in Inodes |-> NewInode(kind(i))]]
    BY <1>1 DEF kind
  <2>5. QED
    BY <2>1, <2>2, <2>3, <2>4 DEF Volumes
<1>5. ASSUME NEW i \in Inodes
      PROVE  /\ vol.ino[i].type = kind(i) /\ vol.ino[i].size = 0 /\ vol.ino[i].ind = 0
             /\ \A k \in Pointers : vol.ino[i].ptr[k] = 0
  BY <1>2, <1>3
<1>6. ASSUME NEW i \in Inodes, NEW k \in Links PROVE Ref(vol, i, k) = 0
  BY <1>4, <1>5, RefFacts
<1>7. ASSUME NEW d \in Inodes, NEW s \in Spots PROVE Leads(vol, d, s) = 0
  <2>1. s >= 0 /\ s \in Int
    BY VolumeSizes DEF Spots
  <2>2. QED
    BY <1>4, <1>5, <2>1, LeadsIs
<1>8. Books(vol, ~starved)
  BY <1>3, <1>6 DEF Books
<1>9. Tree(vol, ~razed)
  BY <1>3, <1>7 DEF Tree
<1>10. Shapes(vol, ~starved)
  <2>1. \A i \in Inodes : vol.ino[i].size <= IF vol.ino[i].type = "dir" THEN Direct * Width ELSE MaxFileBlocks
    BY <1>5, VolumeSizes DEF MaxFileBlocks
  <2>2. \A i \in Inodes \ vol.imap : vol.ino[i].type = "free"
    BY <1>3, <1>5
  <2>3. QED
    BY <1>3, <1>4, <1>6, <2>1, <2>2 DEF Shapes
<1>11. QED
  BY <1>1, <1>8, <1>9, <1>10 DEF VolumeInv

\* The invariant says that the volume is sound.
LEMMA InvIsSound == VolumeInv => VolumeSound
<1> SUFFICES ASSUME VolumeInv PROVE VolumeSound
  OBVIOUS
<1>1. /\ Shapes(vol, ~starved) /\ Books(vol, ~starved) /\ Tree(vol, ~razed)
      /\ vol \in Volumes /\ Root \in vol.imap /\ opened \subseteq Inodes
  BY DEF VolumeInv, Shapes
<1>2. FsTypeOK
  <2>1. vol.imap \subseteq Inodes /\ vol.bmap \subseteq Blocks /\ vol.ino \in [Inodes -> Inode]
    BY <1>1, Parts
  <2>2. ASSUME NEW i \in Inodes
        PROVE  /\ vol.ino[i].type \in {"free", "file", "dir"}
               /\ vol.ino[i].size \in 0 .. IF vol.ino[i].type = "dir" THEN Direct * Width ELSE MaxFileBlocks
               /\ \A k \in 0 .. Direct - 1 : vol.ino[i].ptr[k] \in Blocks \union {0}
    <3>1. vol.ino[i] \in Inode
      BY <2>1
    <3>2. vol.ino[i].size <= IF vol.ino[i].type = "dir" THEN Direct * Width ELSE MaxFileBlocks
      BY <1>1 DEF Shapes
    <3>3. MaxFileBlocks \in Nat
      BY VolumeSizes DEF MaxFileBlocks
    <3>4. vol.ino[i].size \in Nat
      BY <3>1 DEF Inode
    <3>5. vol.ino[i].size \in 0 .. IF vol.ino[i].type = "dir" THEN Direct * Width ELSE MaxFileBlocks
      BY <3>2, <3>3, <3>4, VolumeSizes
    <3>6. QED
      BY <3>1, <3>5 DEF Inode, Pointers
  <2>3. QED
    BY <1>1, <2>1, <2>2 DEF FsTypeOK
<1>3. TreeIsExact
  <2> SUFFICES ASSUME ~razed PROVE
        /\ \A e \in Entries : Entry(vol, e[1], e[2]).n \in vol.imap \ {Root}
                              /\ vol.ino[Entry(vol, e[1], e[2]).n].type # "free"
        /\ \A i \in vol.imap \ {Root} : Cardinality({e \in Entries : Entry(vol, e[1], e[2]).n = i}) = 1
    BY DEF TreeIsExact
  <2>1. ASSUME NEW e \in Entries
        PROVE  /\ e = <<e[1], e[2]>> /\ e[1] \in Inodes /\ e[2] \in Spots
               /\ Leads(vol, e[1], e[2]) = Entry(vol, e[1], e[2]).n /\ Leads(vol, e[1], e[2]) # 0
    BY DEF Entries, Dirs, Spots, Leads
  <2>2. ASSUME NEW d \in Inodes, NEW s \in Spots, Leads(vol, d, s) # 0
        PROVE  <<d, s>> \in Entries /\ Entry(vol, d, s).n = Leads(vol, d, s)
    BY <2>2 DEF Entries, Dirs, Spots, Leads
  <2>3. ASSUME NEW e \in Entries
        PROVE  Entry(vol, e[1], e[2]).n \in vol.imap \ {Root} /\ vol.ino[Entry(vol, e[1], e[2]).n].type # "free"
    BY <1>1, <2>1 DEF Tree
  <2>4. ASSUME NEW i \in vol.imap \ {Root} PROVE Cardinality({e \in Entries : Entry(vol, e[1], e[2]).n = i}) = 1
    <3>1. PICK d \in Inodes, s \in Spots : Leads(vol, d, s) = i
      BY <1>1 DEF Tree
    <3>2. i # 0
      BY <1>1, Parts, VolumeSizes
    <3>3. ASSUME NEW e \in Entries, Entry(vol, e[1], e[2]).n = i PROVE e = <<d, s>>
      BY <1>1, <2>1, <3>1, <3>2, <3>3 DEF Tree
    <3>4. <<d, s>> \in Entries /\ Entry(vol, d, s).n = i
      BY <2>2, <3>1, <3>2
    <3>5. {e \in Entries : Entry(vol, e[1], e[2]).n = i} = {<<d, s>>}
      BY <3>3, <3>4
    <3>6. QED
      BY <3>5, FS_Singleton
  <2>5. QED
    BY <2>3, <2>4
<1>4. BlocksExact
  <2>1. ASSUME NEW p \in Inodes \X (0 .. Direct + Width)
        PROVE  p = <<p[1], p[2]>> /\ p[1] \in Inodes /\ p[2] \in Links /\ RefAt(p) = Ref(vol, p[1], p[2])
    BY DEF Links, RefAt, Ref
  <2>2. ASSUME NEW i \in Inodes, NEW k \in Links, Ref(vol, i, k) # 0
        PROVE  <<i, k>> \in Refs /\ RefAt(<<i, k>>) = Ref(vol, i, k)
    <3>1. <<i, k>> \in Inodes \X (0 .. Direct + Width)
      BY DEF Links
    <3>2. RefAt(<<i, k>>) = Ref(vol, i, k)
      BY <2>1, <3>1
    <3>3. QED
      BY <2>2, <3>1, <3>2 DEF Refs
  <2> DEFINE held == {RefAt(p) : p \in Refs}
  <2>3. \A p \in Refs : p \in Inodes \X (0 .. Direct + Width) /\ RefAt(p) # 0
    BY DEF Refs
  <2>4. \A p, q \in Refs : RefAt(p) = RefAt(q) => p = q
    <3> SUFFICES ASSUME NEW p \in Refs, NEW q \in Refs, RefAt(p) = RefAt(q) PROVE p = q
      OBVIOUS
    <3>1. p = <<p[1], p[2]>> /\ p[1] \in Inodes /\ p[2] \in Links /\ RefAt(p) = Ref(vol, p[1], p[2]) /\ RefAt(p) # 0
      BY <2>1, <2>3
    <3>2. q = <<q[1], q[2]>> /\ q[1] \in Inodes /\ q[2] \in Links /\ RefAt(q) = Ref(vol, q[1], q[2])
      BY <2>1, <2>3
    <3>3. p[1] = q[1] /\ p[2] = q[2]
      <4>1. \A i, j \in Inodes, k, l \in Links : Ref(vol, i, k) # 0 /\ Ref(vol, i, k) = Ref(vol, j, l) => i = j /\ k = l
        BY <1>1 DEF Books
      <4>2. Ref(vol, p[1], p[2]) # 0 /\ Ref(vol, p[1], p[2]) = Ref(vol, q[1], q[2])
        BY <3>1, <3>2
      <4>3. QED
        BY <3>1, <3>2, <4>1, <4>2
    <3>4. QED
      BY <3>1, <3>2, <3>3
  <2>5. held \subseteq vol.bmap
    BY <1>1, <2>1, <2>3 DEF Books
  <2>6. ASSUME ~starved, NEW b \in vol.bmap PROVE b \in held
    <3>1. PICK i \in Inodes, k \in Links : Ref(vol, i, k) = b
      BY <1>1, <2>6 DEF Books
    <3>2. b # 0
      BY <1>1, Parts, VolumeSizes
    <3>3. QED
      BY <2>2, <3>1, <3>2
  <2>7. QED
    BY <2>4, <2>5, <2>6 DEF BlocksExact
<1>5. QED
  BY <1>2, <1>3, <1>4 DEF VolumeSound

\* Every call keeps the invariant.
LEMMA VolumeStep ==
  ASSUME VolumeInv, [FsNext]_fsVars
  PROVE  VolumeInv'
<1>1. CASE UNCHANGED fsVars
  BY <1>1 DEF fsVars, VolumeInv
<1>2. ASSUME NEW d \in Dirs, NEW name \in Names,
             (\E type \in {"file", "dir"} : CreateEntry(d, name, type)) \/ Unlink(d, name) \/ Rmdir(d, name) \/ OpenTrunc(d, name)
      PROVE  VolumeInv'
  BY <1>2, CreateKeeps, UnlinkKeeps, RmdirKeeps, OpenTruncKeeps
<1>3. ASSUME NEW i \in Inodes, NEW l \in 0 .. MaxFileBlocks - 1, NEW two \in BOOLEAN,
             two => l + 1 < MaxFileBlocks, Write(i, l, two)
      PROVE  VolumeInv'
  BY <1>3, WriteKeeps
<1>4. QED
  BY <1>1, <1>2, <1>3 DEF FsNext

\* Whatever calls are made, and whichever of them run out of inodes, blocks or slots: every name leads to
\* an inode in use and every inode in use but the root has one name (until a directory with entries
\* is truncated), and every block belongs to one file or directory at one place and is marked, while
\* none is marked that belongs to nobody (until a call runs out of space half-way).
THEOREM VolumeStaysSound == FsSpec => []VolumeSound
<1>1. VolumeInv /\ [FsNext]_fsVars => VolumeInv'
  BY VolumeStep
<1>2. QED
  BY <1>1, FreshVolume, InvIsSound, PTL DEF FsSpec

(***************************************************************************)
(* The virtio drivers: the indices of a queue, which wrap at Wrap, and the *)
(* places they name, which wrap at Q.                                      *)
(***************************************************************************)
Indices == 0 .. Wrap - 1

\* Division with remainder.
LEMMA DivideBy ==
  ASSUME NEW m \in Int, m > 0, NEW x \in Int
  PROVE  x % m \in 0 .. m - 1 /\ x \div m \in Int /\ x = m * (x \div m) + (x % m)
OBVIOUS

\* A remainder is the only one.
LEMMA LoneRemainder ==
  ASSUME NEW m \in Nat \ {0}, NEW x \in Int, NEW q \in Int, NEW r \in 0 .. m - 1, x = m * q + r
  PROVE  x % m = r
<1> DEFINE t == x % m
<1>0. m \in Int /\ m > 0
  OBVIOUS
<1>1. PICK p \in Int : t \in 0 .. m - 1 /\ x = m * p + t
  BY <1>0, DivideBy
<1> HIDE DEF t
<1>2. t \in Int /\ r \in Int /\ t - r < m /\ r - t < m
  BY <1>0, <1>1
<1>3. m * (q - p) = t - r
  <2>1. m * (q - p) = m * q - m * p
    BY <1>0
  <2>2. QED
    BY <1>0, <1>1, <1>2, <2>1
<1>4. q - p = 0
  <2> DEFINE d == q - p
  <2>1. d \in Int /\ m * d < m /\ m * d > -m
    BY <1>0, <1>2, <1>3
  <2> HIDE DEF d
  <2>2. ~ d >= 1
    BY <1>0, <2>1
  <2>3. ~ d <= -1
    BY <1>0, <2>1
  <2>4. QED
    BY <2>1, <2>2, <2>3 DEF d
<1>5. m * (q - p) = 0
  BY <1>0, <1>4
<1>6. t = r
  BY <1>2, <1>3, <1>5
<1>7. QED
  BY <1>6 DEF t

\* The sizes of a queue.
LEMMA QueueSizes ==
  /\ Q \in Int /\ Q > 0 /\ Wrap \in Int /\ Wrap >= 2 * Q
  /\ \E n \in Int : Wrap = Q * n
<1>1. Q \in Int /\ Q > 0 /\ Wrap \in Int /\ Wrap > Q /\ Wrap % Q = 0
  BY QueueAssumption
<1>2. PICK n \in Int : Wrap = Q * n + (Wrap % Q)
  <2>1. Wrap = Q * (Wrap \div Q) + (Wrap % Q) /\ Wrap \div Q \in Int
    BY <1>1, DivideBy
  <2>2. QED
    BY <2>1
<1>3. Wrap = Q * n
  BY <1>1, <1>2
<1>4. n >= 2
  <2>1. ~ n <= 1
    <3>1. n <= 1 => Q * n <= Q * 1
      BY <1>1
    <3>2. QED
      BY <1>1, <1>3, <3>1
  <2>2. QED
    BY <2>1
<1>5. Wrap >= 2 * Q
  <2>1. Q * n >= Q * 2
    BY <1>1, <1>4
  <2>2. QED
    BY <1>1, <1>3, <2>1
<1>6. QED
  BY <1>1, <1>3, <1>5

\* The next index.
LEMMA NextIndex ==
  ASSUME NEW i \in Indices
  PROVE  After(i, 1) = (IF i = Wrap - 1 THEN 0 ELSE i + 1) /\ After(i, 1) \in Indices
<1>1. Wrap \in Nat \ {0} /\ i \in Int /\ 0 <= i /\ i < Wrap
  BY QueueSizes DEF Indices
<1>2. CASE i = Wrap - 1
  <2>1. i + 1 = Wrap * 1 + 0 /\ 0 \in 0 .. Wrap - 1 /\ i + 1 \in Int
    BY <1>1, <1>2
  <2>2. (i + 1) % Wrap = 0
    BY <1>1, <2>1, LoneRemainder
  <2>3. QED
    BY <1>1, <1>2, <2>1, <2>2 DEF After, Indices
<1>3. CASE i # Wrap - 1
  <2>1. i + 1 = Wrap * 0 + (i + 1) /\ i + 1 \in 0 .. Wrap - 1 /\ i + 1 \in Int
    BY <1>1, <1>3
  <2>2. (i + 1) % Wrap = i + 1
    BY <1>1, <2>1, LoneRemainder
  <2>3. QED
    BY <1>1, <1>3, <2>1, <2>2 DEF After, Indices
<1>4. QED
  BY <1>2, <1>3

\* The index k steps on.
LEMMA LaterIndex ==
  ASSUME NEW i \in Indices, NEW k \in Indices
  PROVE  After(i, k) = (IF i + k < Wrap THEN i + k ELSE i + k - Wrap) /\ After(i, k) \in Indices
<1>1. Wrap \in Nat \ {0} /\ i \in Int /\ 0 <= i /\ i < Wrap /\ k \in Int /\ 0 <= k /\ k < Wrap
  BY QueueSizes DEF Indices
<1>2. CASE ~ i + k < Wrap
  <2>1. i + k = Wrap * 1 + (i + k - Wrap) /\ i + k - Wrap \in 0 .. Wrap - 1 /\ i + k \in Int
    BY <1>1, <1>2
  <2>2. (i + k) % Wrap = i + k - Wrap
    BY <1>1, <2>1, LoneRemainder
  <2>3. QED
    BY <1>1, <1>2, <2>1, <2>2 DEF After, Indices
<1>3. CASE i + k < Wrap
  <2>1. i + k = Wrap * 0 + (i + k) /\ i + k \in 0 .. Wrap - 1 /\ i + k \in Int
    BY <1>1, <1>3
  <2>2. (i + k) % Wrap = i + k
    BY <1>1, <2>1, LoneRemainder
  <2>3. QED
    BY <1>1, <1>3, <2>1, <2>2 DEF After, Indices
<1>4. QED
  BY <1>2, <1>3

\* How far an index is ahead of another.
LEMMA Distance ==
  ASSUME NEW i \in Indices, NEW j \in Indices
  PROVE  Ahead(i, j) = (IF i >= j THEN i - j ELSE i - j + Wrap) /\ Ahead(i, j) \in Indices
<1>1. Wrap \in Nat \ {0} /\ i \in Int /\ 0 <= i /\ i < Wrap /\ j \in Int /\ 0 <= j /\ j < Wrap
  BY QueueSizes DEF Indices
<1>2. CASE i >= j
  <2>1. i - j + Wrap = Wrap * 1 + (i - j) /\ i - j \in 0 .. Wrap - 1 /\ i - j + Wrap \in Int
    BY <1>1, <1>2
  <2>2. (i - j + Wrap) % Wrap = i - j
    BY <1>1, <2>1, LoneRemainder
  <2>3. QED
    BY <1>1, <1>2, <2>1, <2>2 DEF Ahead, Indices
<1>3. CASE ~ i >= j
  <2>1. i - j + Wrap = Wrap * 0 + (i - j + Wrap) /\ i - j + Wrap \in 0 .. Wrap - 1 /\ i - j + Wrap \in Int
    BY <1>1, <1>3
  <2>2. (i - j + Wrap) % Wrap = i - j + Wrap
    BY <1>1, <2>1, LoneRemainder
  <2>3. QED
    BY <1>1, <1>3, <2>1, <2>2 DEF Ahead, Indices
<1>4. QED
  BY <1>2, <1>3

\* The indices between two are those that are less far ahead of the first.
LEMMA Window ==
  ASSUME NEW f \in Indices, NEW t \in Indices
  PROVE  Between(f, t) = {i \in Indices : Ahead(i, f) < Ahead(t, f)}
<1>0. Wrap \in Int /\ Wrap > 0 /\ f \in Int /\ 0 <= f /\ f < Wrap
  BY QueueSizes DEF Indices
<1>1. Ahead(t, f) \in Indices
  BY Distance
<1>2. ASSUME NEW i \in Between(f, t) PROVE i \in Indices /\ Ahead(i, f) < Ahead(t, f)
  <2>1. PICK k \in 0 .. Ahead(t, f) - 1 : i = After(f, k)
    BY <1>2 DEF Between
  <2>2. k \in Indices /\ k < Ahead(t, f)
    BY <1>0, <1>1 DEF Indices
  <2>3. i = (IF f + k < Wrap THEN f + k ELSE f + k - Wrap) /\ i \in Indices
    BY <2>1, <2>2, LaterIndex
  <2>4. Ahead(i, f) = (IF i >= f THEN i - f ELSE i - f + Wrap)
    BY <2>3, Distance
  <2>5. Ahead(i, f) = k
    BY <1>0, <2>2, <2>3, <2>4 DEF Indices
  <2>6. QED
    BY <2>2, <2>3, <2>5
<1>3. ASSUME NEW i \in Indices, Ahead(i, f) < Ahead(t, f) PROVE i \in Between(f, t)
  <2> DEFINE k == Ahead(i, f)
  <2>1. k = (IF i >= f THEN i - f ELSE i - f + Wrap) /\ k \in Indices
    BY Distance
  <2>2. k \in 0 .. Ahead(t, f) - 1
    BY <1>0, <1>1, <1>3, <2>1 DEF Indices
  <2> HIDE DEF k
  <2>3. After(f, k) = (IF f + k < Wrap THEN f + k ELSE f + k - Wrap)
    BY <2>1, LaterIndex
  <2>4. After(f, k) = i
    BY <1>0, <2>1, <2>3 DEF Indices
  <2>5. QED
    BY <2>2, <2>4 DEF Between
<1>4. QED
  BY <1>2, <1>3

\* A window grows at its end by the index there, and shrinks at its beginning.
LEMMA WindowMoves ==
  ASSUME NEW f \in Indices, NEW t \in Indices
  PROVE  /\ Ahead(t, f) < Wrap - 1 => /\ Ahead(After(t, 1), f) = Ahead(t, f) + 1
                                      /\ Between(f, After(t, 1)) = Between(f, t) \union {t}
                                      /\ t \notin Between(f, t)
         /\ t # f => /\ Ahead(t, After(f, 1)) = Ahead(t, f) - 1
                     /\ Between(After(f, 1), t) = Between(f, t) \ {f}
                     /\ f \in Between(f, t) /\ Ahead(t, f) > 0
         /\ t = f <=> Ahead(t, f) = 0
         /\ Between(f, f) = {}
<1>0. Wrap \in Int /\ Wrap > 0 /\ f \in Int /\ 0 <= f /\ f < Wrap /\ t \in Int /\ 0 <= t /\ t < Wrap
  BY QueueSizes DEF Indices
<1>1. Ahead(t, f) = (IF t >= f THEN t - f ELSE t - f + Wrap) /\ Ahead(f, f) = 0 /\ Ahead(t, f) \in Indices
  BY <1>0, Distance
<1>2. /\ After(t, 1) = (IF t = Wrap - 1 THEN 0 ELSE t + 1) /\ After(t, 1) \in Indices
      /\ After(f, 1) = (IF f = Wrap - 1 THEN 0 ELSE f + 1) /\ After(f, 1) \in Indices
  BY NextIndex
<1>3. ASSUME Ahead(t, f) < Wrap - 1
      PROVE  /\ Ahead(After(t, 1), f) = Ahead(t, f) + 1
             /\ Between(f, After(t, 1)) = Between(f, t) \union {t}
             /\ t \notin Between(f, t)
  <2>1. Ahead(After(t, 1), f) = (IF After(t, 1) >= f THEN After(t, 1) - f ELSE After(t, 1) - f + Wrap)
    BY <1>2, Distance
  <2>2. Ahead(After(t, 1), f) = Ahead(t, f) + 1
    BY <1>0, <1>1, <1>2, <1>3, <2>1
  <2>3. \A i \in Indices : Ahead(i, f) < Ahead(t, f) + 1 <=> Ahead(i, f) < Ahead(t, f) \/ i = t
    <3> SUFFICES ASSUME NEW i \in Indices
                 PROVE  Ahead(i, f) < Ahead(t, f) + 1 <=> Ahead(i, f) < Ahead(t, f) \/ i = t
      OBVIOUS
    <3>1. Ahead(i, f) = (IF i >= f THEN i - f ELSE i - f + Wrap)
      BY Distance
    <3>2. QED
      BY <1>0, <1>1, <3>1 DEF Indices
  <2>4. /\ Between(f, After(t, 1)) = {i \in Indices : Ahead(i, f) < Ahead(After(t, 1), f)}
        /\ Between(f, t) = {i \in Indices : Ahead(i, f) < Ahead(t, f)}
    BY <1>2, Window
  <2>5. ~ Ahead(t, f) < Ahead(t, f)
    BY <1>0, <1>1
  <2>6. QED
    BY <2>2, <2>3, <2>4, <2>5
<1>4. ASSUME t # f
      PROVE  /\ Ahead(t, After(f, 1)) = Ahead(t, f) - 1
             /\ Between(After(f, 1), t) = Between(f, t) \ {f}
             /\ f \in Between(f, t) /\ Ahead(t, f) > 0
  <2>1. Ahead(t, After(f, 1)) = (IF t >= After(f, 1) THEN t - After(f, 1) ELSE t - After(f, 1) + Wrap)
    BY <1>2, Distance
  <2>2. Ahead(t, After(f, 1)) = Ahead(t, f) - 1 /\ Ahead(t, f) > 0
    BY <1>0, <1>1, <1>2, <1>4, <2>1
  <2>3. \A i \in Indices : Ahead(i, After(f, 1)) < Ahead(t, f) - 1 <=> Ahead(i, f) < Ahead(t, f) /\ i # f
    <3> SUFFICES ASSUME NEW i \in Indices
                 PROVE  Ahead(i, After(f, 1)) < Ahead(t, f) - 1 <=> Ahead(i, f) < Ahead(t, f) /\ i # f
      OBVIOUS
    <3>1. /\ Ahead(i, f) = (IF i >= f THEN i - f ELSE i - f + Wrap)
          /\ Ahead(i, After(f, 1)) = (IF i >= After(f, 1) THEN i - After(f, 1) ELSE i - After(f, 1) + Wrap)
      BY <1>2, Distance
    <3>2. QED
      BY <1>0, <1>1, <1>2, <3>1 DEF Indices
  <2>4. /\ Between(After(f, 1), t) = {i \in Indices : Ahead(i, After(f, 1)) < Ahead(t, After(f, 1))}
        /\ Between(f, t) = {i \in Indices : Ahead(i, f) < Ahead(t, f)}
    BY <1>2, Window
  <2>5. QED
    BY <1>1, <2>2, <2>3, <2>4
<1>5. t = f <=> Ahead(t, f) = 0
  BY <1>0, <1>1
<1>6. Between(f, f) = {}
  <2>1. Between(f, f) = {i \in Indices : Ahead(i, f) < Ahead(f, f)}
    BY Window
  <2>2. \A i \in Indices : ~ Ahead(i, f) < 0
    BY <1>0, Distance DEF Indices
  <2>3. QED
    BY <1>1, <2>1, <2>2
<1>7. QED
  BY <1>3, <1>4, <1>5, <1>6

\* An index names a place.
LEMMA PlaceOfIndex ==
  ASSUME NEW i \in Indices PROVE i % Q \in Places
BY QueueSizes DEF Indices, Places

\* Two indices that are less than Q ahead of a third name different places.
LEMMA PlacesDiffer ==
  ASSUME NEW f \in Indices, NEW i \in Indices, NEW j \in Indices, Ahead(i, f) < Q, Ahead(j, f) < Q,
         i % Q = j % Q
  PROVE  i = j
<1>0. Q \in Nat \ {0} /\ Q \in Int /\ Wrap \in Int
  BY QueueSizes
<1>1. PICK n \in Int : Wrap = Q * n
  BY QueueSizes
<1>2. f \in Int /\ i \in Int /\ j \in Int
  BY <1>0 DEF Indices
<1> DEFINE a == Ahead(i, f)
<1> DEFINE b == Ahead(j, f)
<1> DEFINE r == i % Q
<1>3. a = (IF i >= f THEN i - f ELSE i - f + Wrap) /\ a \in Indices
  BY Distance
<1>4. b = (IF j >= f THEN j - f ELSE j - f + Wrap) /\ b \in Indices
  BY Distance
<1>5. a \in 0 .. Q - 1 /\ b \in 0 .. Q - 1
  BY <1>0, <1>3, <1>4 DEF Indices
<1>6. PICK x \in Int, y \in Int : i = Q * x + r /\ j = Q * y + r /\ r \in 0 .. Q - 1
  <2>1. i = Q * (i \div Q) + r /\ i \div Q \in Int /\ r \in 0 .. Q - 1
    BY <1>0, <1>2, DivideBy
  <2>2. j = Q * (j \div Q) + r /\ j \div Q \in Int
    BY <1>0, <1>2, DivideBy
  <2>3. QED
    BY <2>1, <2>2
<1> HIDE DEF a, b, r
<1>7. \E u \in Int : f + a = Q * u + r
  <2>1. CASE i >= f
    BY <1>0, <1>2, <1>3, <1>6, <2>1
  <2>2. CASE ~ i >= f
    <3>1. f + a = Q * (x + n) + r
      <4>1. Q * (x + n) = Q * x + Q * n
        BY <1>0, <1>1, <1>6
      <4>2. f + a = i + Wrap
        BY <1>0, <1>2, <1>3, <2>2
      <4>3. QED
        BY <1>0, <1>1, <1>2, <1>6, <4>1, <4>2
    <3>2. QED
      BY <3>1
  <2>3. QED
    BY <2>1, <2>2
<1>8. \E v \in Int : f + b = Q * v + r
  <2>1. CASE j >= f
    BY <1>0, <1>2, <1>4, <1>6, <2>1
  <2>2. CASE ~ j >= f
    <3>1. f + b = Q * (y + n) + r
      <4>1. Q * (y + n) = Q * y + Q * n
        BY <1>0, <1>1, <1>6
      <4>2. f + b = j + Wrap
        BY <1>0, <1>2, <1>4, <2>2
      <4>3. QED
        BY <1>0, <1>1, <1>2, <1>6, <4>1, <4>2
    <3>2. QED
      BY <3>1
  <2>3. QED
    BY <2>1, <2>2
<1>9. PICK u \in Int, v \in Int : f + a = Q * u + r /\ f + b = Q * v + r
  BY <1>7, <1>8
<1>10. a - b = Q * (u - v)
  <2>1. Q * (u - v) = Q * u - Q * v
    BY <1>0
  <2>2. QED
    BY <1>0, <1>2, <1>5, <1>6, <1>9, <2>1
<1>11. u - v = 0
  <2> DEFINE d == u - v
  <2>1. d \in Int /\ Q * d < Q /\ Q * d > -Q
    BY <1>0, <1>5, <1>10
  <2> HIDE DEF d
  <2>2. ~ d >= 1
    BY <1>0, <2>1
  <2>3. ~ d <= -1
    BY <1>0, <2>1
  <2>4. QED
    BY <2>1, <2>2, <2>3 DEF d
<1>12. a = b
  <2>1. Q * (u - v) = 0
    BY <1>0, <1>11
  <2>2. QED
    BY <1>5, <1>10, <2>1
<1>13. QED
  BY <1>0, <1>2, <1>3, <1>4, <1>12 DEF Indices
(***************************************************************************)
(* What a window of a ring holds, and that it holds nothing twice.         *)
(***************************************************************************)
Content(f, t, r) == {r[i % Q] : i \in Between(f, t)}
NothingTwice(f, t, r) == \A i, j \in Between(f, t) : r[i % Q] = r[j % Q] => i = j

Put(r, t, d) == [r EXCEPT ![t % Q] = d]

\* What is put at the end of a window is added to what it holds.
LEMMA PutAtEnd ==
  ASSUME NEW f \in Indices, NEW t \in Indices, NEW r \in [Places -> Places], NEW d \in Places,
         Ahead(t, f) < Q, NothingTwice(f, t, r), d \notin Content(f, t, r)
  PROVE  /\ Put(r, t, d) \in [Places -> Places] /\ Put(r, t, d)[t % Q] = d
         /\ \A i \in Between(f, t) : Put(r, t, d)[i % Q] = r[i % Q]
         /\ Content(f, After(t, 1), Put(r, t, d)) = Content(f, t, r) \union {d}
         /\ NothingTwice(f, After(t, 1), Put(r, t, d))
<1> DEFINE w == Put(r, t, d)
<1>1. t % Q \in Places
  BY PlaceOfIndex
<1>2. w \in [Places -> Places] /\ w[t % Q] = d
  BY <1>1 DEF Put
<1>3. ASSUME NEW i \in Between(f, t) PROVE w[i % Q] = r[i % Q]
  <2>1. i \in Indices /\ Ahead(i, f) < Ahead(t, f)
    BY Window
  <2>2. Ahead(i, f) < Q /\ i # t
    <3>1. Ahead(i, f) \in Indices /\ Ahead(t, f) \in Indices
      BY <2>1, Distance
    <3>2. QED
      BY <2>1, <3>1, QueueSizes DEF Indices
  <2>3. i % Q # t % Q
    BY <2>1, <2>2, PlacesDiffer
  <2>4. i % Q \in Places
    BY <2>1, PlaceOfIndex
  <2>5. QED
    BY <1>1, <2>3, <2>4 DEF Put
<1> HIDE DEF w
<1>4. Between(f, After(t, 1)) = Between(f, t) \union {t}
  <2>1. Ahead(t, f) < Wrap - 1
    <3>1. Ahead(t, f) \in Indices
      BY Distance
    <3>2. QED
      BY <3>1, QueueSizes DEF Indices
  <2>2. QED
    BY <2>1, WindowMoves
<1>5. Content(f, After(t, 1), w) = Content(f, t, r) \union {d}
  BY <1>2, <1>3, <1>4 DEF Content
<1>6. NothingTwice(f, After(t, 1), w)
  <2>1. \A i \in Between(f, t) : w[i % Q] # d
    BY <1>3 DEF Content
  <2>2. QED
    BY <1>2, <1>3, <1>4, <2>1 DEF NothingTwice
<1>7. QED
  BY <1>2, <1>3, <1>5, <1>6 DEF w

\* What is taken from the beginning of a window is gone from it.
LEMMA TakeFirst ==
  ASSUME NEW f \in Indices, NEW t \in Indices, NEW r \in [Places -> Places], t # f, NothingTwice(f, t, r)
  PROVE  /\ r[f % Q] \in Content(f, t, r) /\ r[f % Q] \in Places
         /\ Content(After(f, 1), t, r) = Content(f, t, r) \ {r[f % Q]}
         /\ NothingTwice(After(f, 1), t, r)
<1>1. f \in Between(f, t) /\ Between(After(f, 1), t) = Between(f, t) \ {f}
  BY WindowMoves
<1>2. r[f % Q] \in Places
  BY PlaceOfIndex
<1>3. Content(After(f, 1), t, r) = Content(f, t, r) \ {r[f % Q]}
  BY <1>1 DEF Content, NothingTwice
<1>4. QED
  BY <1>1, <1>2, <1>3 DEF Content, NothingTwice

(***************************************************************************)
(* The receive queue.                                                      *)
(***************************************************************************)
RxStates ==
    [avail : Indices, ring : [Places -> Places], taken : Indices, used : Indices,
     uring : [Places -> Places], seen : Indices, buf : [Places -> Indices],
     pc : {"loop", "recycle", "kick"}, got : Indices, processed : BOOLEAN, waits : BOOLEAN,
     dry : BOOLEAN]

RxInv ==
    /\ rx \in RxStates
    /\ Ahead(rx.avail, rx.taken) + Ahead(rx.used, rx.seen) = Q
    /\ NothingTwice(rx.taken, rx.avail, rx.ring) /\ NothingTwice(rx.seen, rx.used, rx.uring)
    /\ Free \intersect Full = {} /\ Free \union Full = Places
    /\ \A i \in Between(rx.seen, rx.used) : rx.buf[rx.uring[i % Q]] = i
    /\ rx.pc = "recycle" => rx.got = rx.seen /\ rx.seen # rx.used
    /\ rx.dry => rx.seen # rx.used \/ rx.processed

\* At first every buffer is with the device.
LEMMA RxStart == ASSUME rx \in RxStarts PROVE RxInv
<1>0. Q \in Int /\ Q > 0 /\ Wrap \in Int /\ Wrap >= 2 * Q
  BY QueueSizes
<1>1. Q % Wrap = Q /\ 0 \in Indices /\ Q \in Indices
  <2>1. Q = Wrap * 0 + Q /\ Q \in 0 .. Wrap - 1 /\ Wrap \in Nat \ {0}
    BY <1>0
  <2>2. Q % Wrap = Q
    BY <1>0, <2>1, LoneRemainder
  <2>3. QED
    BY <1>0, <2>2 DEF Indices
<1>2. /\ rx.avail = Q /\ rx.taken = 0 /\ rx.used = 0 /\ rx.seen = 0 /\ rx.pc = "loop" /\ rx.dry = FALSE
      /\ rx.ring = [p \in Places |-> p] /\ rx.uring = [p \in Places |-> 0]
      /\ rx.buf = [p \in Places |-> 0]
  BY <1>1 DEF RxStarts
<1>3. rx \in RxStates
  <2>1. 0 \in Places
    BY <1>0 DEF Places
  <2>2. /\ rx.avail \in Indices /\ rx.taken \in Indices /\ rx.used \in Indices /\ rx.seen \in Indices
        /\ rx.got \in Indices /\ rx.ring \in [Places -> Places] /\ rx.uring \in [Places -> Places]
        /\ rx.buf \in [Places -> Indices]
    <3>1. rx.got = 0
      BY DEF RxStarts
    <3>2. QED
      BY <1>1, <1>2, <2>1, <3>1
  <2>3. /\ rx.processed \in BOOLEAN /\ rx.waits \in BOOLEAN /\ rx.dry \in BOOLEAN
        /\ rx.pc \in {"loop", "recycle", "kick"}
    <3>1. rx.processed \in {FALSE} /\ rx.waits \in BOOLEAN /\ rx.dry \in {FALSE}
      BY DEF RxStarts
    <3>2. \A x \in {FALSE} : x \in BOOLEAN
      OBVIOUS
    <3>3. rx.processed \in BOOLEAN /\ rx.waits \in BOOLEAN /\ rx.dry \in BOOLEAN
      BY <3>1, <3>2, Zenon
    <3>4. QED
      BY <1>2, <3>3
  <2>4. rx = [avail |-> rx.avail, ring |-> rx.ring, taken |-> rx.taken, used |-> rx.used,
              uring |-> rx.uring, seen |-> rx.seen, buf |-> rx.buf, pc |-> rx.pc, got |-> rx.got,
              processed |-> rx.processed, waits |-> rx.waits, dry |-> rx.dry]
    BY DEF RxStarts
  <2>5. QED
    BY <2>2, <2>3, <2>4 DEF RxStates
<1>4. Between(0, Q) = Places /\ Ahead(Q, 0) = Q
  <2>1. /\ Between(0, Q) = {i \in Indices : Ahead(i, 0) < Ahead(Q, 0)}
        /\ \A i \in Indices : Ahead(i, 0) = (IF i >= 0 THEN i - 0 ELSE i - 0 + Wrap)
    BY <1>1, Window, Distance
  <2>2. \A i \in Indices : i \in Int /\ Ahead(i, 0) = i /\ i >= 0
    BY <1>0, <2>1 DEF Indices
  <2>3. Ahead(Q, 0) = Q
    BY <1>1, <2>2
  <2>4. \A i : i \in Places <=> i \in Indices /\ i < Q
    BY <1>0 DEF Indices, Places
  <2>5. Between(0, Q) = {i \in Indices : i < Q}
    BY <2>1, <2>2, <2>3
  <2>6. QED
    BY <2>3, <2>4, <2>5
<1>5. Between(0, 0) = {} /\ Ahead(0, 0) = 0
  BY <1>1, WindowMoves
<1>6. \A i \in Places : i % Q = i
  <2> SUFFICES ASSUME NEW i \in Places PROVE i % Q = i
    OBVIOUS
  <2>1. i = Q * 0 + i /\ i \in 0 .. Q - 1 /\ Q \in Nat \ {0} /\ i \in Int
    BY <1>0 DEF Places
  <2>2. QED
    BY <2>1, LoneRemainder
<1>7. Free = Places /\ Full = {}
  BY <1>2, <1>4, <1>5, <1>6 DEF Free, Full
<1>8. NothingTwice(rx.taken, rx.avail, rx.ring) /\ NothingTwice(rx.seen, rx.used, rx.uring)
  BY <1>2, <1>4, <1>5, <1>6 DEF NothingTwice
<1>9. QED
  BY <1>0, <1>2, <1>3, <1>4, <1>5, <1>7, <1>8 DEF RxInv
\* What a delivery does to each part of the queue.
LEMMA DeliverParts ==
  ASSUME rx \in RxStates, RxDeliver
  PROVE  LET d == rx.ring[rx.taken % Q] IN
         /\ ~rx.dry /\ rx.taken # rx.avail
         /\ rx' = [avail |-> rx.avail, ring |-> rx.ring, taken |-> After(rx.taken, 1),
                   used |-> After(rx.used, 1), uring |-> [rx.uring EXCEPT ![rx.used % Q] = d],
                   seen |-> rx.seen, buf |-> [rx.buf EXCEPT ![d] = rx.used], pc |-> rx.pc,
                   got |-> rx.got, processed |-> rx.processed, waits |-> rx.waits, dry |-> rx.dry]
BY DEF RxDeliver, RxStates

\* What giving a buffer back does to each part of the queue.
LEMMA RecycleParts ==
  ASSUME rx \in RxStates, RxRecycle
  PROVE  LET d == rx.uring[rx.seen % Q] IN
         /\ rx.pc = "recycle"
         /\ rx' = [avail |-> After(rx.avail, 1), ring |-> [rx.ring EXCEPT ![rx.avail % Q] = d],
                   taken |-> rx.taken, used |-> rx.used, uring |-> rx.uring,
                   seen |-> After(rx.seen, 1), buf |-> rx.buf, pc |-> "loop",
                   got |-> rx.got, processed |-> TRUE, waits |-> rx.waits, dry |-> rx.dry]
BY DEF RxRecycle, RxStates, RxPublish
\* The device fills a buffer.
LEMMA DeliverKeeps == ASSUME RxInv, RxDeliver PROVE RxInv'
<1> DEFINE d == rx.ring[rx.taken % Q]
<1> DEFINE w == [rx.uring EXCEPT ![rx.used % Q] = d]
<1> DEFINE m == [rx.buf EXCEPT ![d] = rx.used]
<1>0. Q \in Int /\ Q > 0 /\ Wrap \in Int /\ Wrap >= 2 * Q
  BY QueueSizes
<1>1. /\ rx.avail \in Indices /\ rx.taken \in Indices /\ rx.used \in Indices /\ rx.seen \in Indices
      /\ rx.ring \in [Places -> Places] /\ rx.uring \in [Places -> Places] /\ rx.buf \in [Places -> Indices]
      /\ rx \in RxStates
  BY DEF RxInv, RxStates
<1>2. /\ ~rx.dry /\ rx.taken # rx.avail
      /\ rx' = [avail |-> rx.avail, ring |-> rx.ring, taken |-> After(rx.taken, 1),
                used |-> After(rx.used, 1), uring |-> w, seen |-> rx.seen, buf |-> m, pc |-> rx.pc,
                got |-> rx.got, processed |-> rx.processed, waits |-> rx.waits, dry |-> rx.dry]
  BY <1>1, DeliverParts
<1>3. Free = Content(rx.taken, rx.avail, rx.ring) /\ Full = Content(rx.seen, rx.used, rx.uring)
  BY DEF Free, Full, Content
<1>4. /\ NothingTwice(rx.taken, rx.avail, rx.ring) /\ NothingTwice(rx.seen, rx.used, rx.uring)
      /\ Free \intersect Full = {} /\ Free \union Full = Places
      /\ Ahead(rx.avail, rx.taken) + Ahead(rx.used, rx.seen) = Q
      /\ \A i \in Between(rx.seen, rx.used) : rx.buf[rx.uring[i % Q]] = i
  BY DEF RxInv
<1>5. /\ d \in Free /\ d \in Places
      /\ Content(After(rx.taken, 1), rx.avail, rx.ring) = Free \ {d}
      /\ NothingTwice(After(rx.taken, 1), rx.avail, rx.ring)
  BY <1>1, <1>2, <1>3, <1>4, TakeFirst
<1>6. /\ Ahead(rx.avail, rx.taken) > 0 /\ Ahead(rx.avail, After(rx.taken, 1)) = Ahead(rx.avail, rx.taken) - 1
      /\ Ahead(rx.used, rx.seen) \in Int /\ Ahead(rx.avail, rx.taken) \in Int
  <2>1. Ahead(rx.used, rx.seen) \in Indices /\ Ahead(rx.avail, rx.taken) \in Indices
    BY <1>1, Distance
  <2>2. Ahead(rx.avail, rx.taken) > 0 /\ Ahead(rx.avail, After(rx.taken, 1)) = Ahead(rx.avail, rx.taken) - 1
    BY <1>1, <1>2, WindowMoves
  <2>3. QED
    BY <1>0, <2>1, <2>2 DEF Indices
<1>7. Ahead(rx.used, rx.seen) < Q
  BY <1>0, <1>4, <1>6
<1>8. /\ Ahead(After(rx.used, 1), rx.seen) = Ahead(rx.used, rx.seen) + 1
      /\ Between(rx.seen, After(rx.used, 1)) = Between(rx.seen, rx.used) \union {rx.used}
      /\ After(rx.used, 1) \in Indices /\ After(rx.taken, 1) \in Indices
      /\ rx.seen # After(rx.used, 1)
  <2>1. Ahead(rx.used, rx.seen) < Wrap - 1
    BY <1>0, <1>6, <1>7
  <2>2. After(rx.used, 1) \in Indices /\ After(rx.taken, 1) \in Indices
    BY <1>1, NextIndex
  <2>3. Ahead(After(rx.used, 1), rx.seen) = Ahead(rx.used, rx.seen) + 1
    BY <1>1, <2>1, WindowMoves
  <2>4. rx.seen # After(rx.used, 1)
    <3>1. Ahead(rx.used, rx.seen) \in Indices
      BY <1>1, Distance
    <3>2. Ahead(After(rx.used, 1), rx.seen) # 0
      BY <1>0, <2>3, <3>1 DEF Indices
    <3>3. QED
      BY <1>1, <2>2, <3>2, WindowMoves
  <2>5. QED
    BY <1>1, <2>1, <2>2, <2>3, <2>4, WindowMoves
<1> HIDE DEF d
<1>9. d \notin Content(rx.seen, rx.used, rx.uring)
  BY <1>3, <1>4, <1>5
<1>9b. w = Put(rx.uring, rx.used, d)
  BY DEF Put
<1> HIDE DEF w
<1>10. /\ w \in [Places -> Places] /\ w[rx.used % Q] = d
       /\ \A i \in Between(rx.seen, rx.used) : w[i % Q] = rx.uring[i % Q]
       /\ Content(rx.seen, After(rx.used, 1), w) = Full \union {d}
       /\ NothingTwice(rx.seen, After(rx.used, 1), w)
  BY <1>1, <1>3, <1>4, <1>5, <1>7, <1>9, <1>9b, PutAtEnd
<1>11. \A i \in Between(rx.seen, After(rx.used, 1)) : m[w[i % Q]] = i
  <2> SUFFICES ASSUME NEW i \in Between(rx.seen, After(rx.used, 1)) PROVE m[w[i % Q]] = i
    OBVIOUS
  <2>1. CASE i = rx.used
    BY <1>1, <1>5, <1>10, <2>1
  <2>2. CASE i \in Between(rx.seen, rx.used)
    <3>1. w[i % Q] = rx.uring[i % Q] /\ rx.uring[i % Q] # d
      BY <1>9, <1>10, <2>2 DEF Content
    <3>2. rx.uring[i % Q] \in Places
      <4>1. i \in Indices
        BY <1>1, <2>2, Window
      <4>2. QED
        BY <1>1, <4>1, PlaceOfIndex
    <3>3. QED
      BY <1>1, <1>4, <2>2, <3>1, <3>2
  <2>3. QED
    BY <1>8, <2>1, <2>2
<1>12. m \in [Places -> Indices]
  BY <1>1, <1>5
<1> HIDE DEF m
<1>13. /\ rx'.avail = rx.avail /\ rx'.ring = rx.ring /\ rx'.taken = After(rx.taken, 1)
       /\ rx'.used = After(rx.used, 1) /\ rx'.uring = w /\ rx'.seen = rx.seen /\ rx'.buf = m
       /\ rx'.pc = rx.pc /\ rx'.got = rx.got /\ rx'.dry = rx.dry
  BY <1>2
<1>14. rx' \in RxStates
  <2>1. rx.pc \in {"loop", "recycle", "kick"} /\ rx.got \in Indices /\ rx.processed \in BOOLEAN
        /\ rx.waits \in BOOLEAN /\ rx.dry \in BOOLEAN
    BY <1>1 DEF RxStates
  <2>2. QED
    BY <1>1, <1>2, <1>8, <1>10, <1>12, <2>1 DEF RxStates
<1>15. Free' = Free \ {d} /\ Full' = Full \union {d}
  <2>1. Free' = Content(rx'.taken, rx'.avail, rx'.ring) /\ Full' = Content(rx'.seen, rx'.used, rx'.uring)
    BY DEF Free, Full, Content
  <2>2. QED
    BY <1>5, <1>10, <1>13, <2>1
<1>16. Free' \intersect Full' = {} /\ Free' \union Full' = Places
  BY <1>4, <1>5, <1>15
<1>17. Ahead(rx'.avail, rx'.taken) + Ahead(rx'.used, rx'.seen) = Q
  BY <1>0, <1>4, <1>6, <1>8, <1>13
<1>18. NothingTwice(rx'.taken, rx'.avail, rx'.ring) /\ NothingTwice(rx'.seen, rx'.used, rx'.uring)
  BY <1>5, <1>10, <1>13
<1>19. \A i \in Between(rx'.seen, rx'.used) : rx'.buf[rx'.uring[i % Q]] = i
  BY <1>11, <1>13
<1>20. /\ rx'.pc = "recycle" => rx'.got = rx'.seen /\ rx'.seen # rx'.used
       /\ rx'.dry => rx'.seen # rx'.used \/ rx'.processed
  BY <1>8, <1>13 DEF RxInv
<1>21. QED
  BY <1>14, <1>16, <1>17, <1>18, <1>19, <1>20 DEF RxInv

\* The driver gives a buffer back.
LEMMA RecycleKeeps == ASSUME RxInv, RxRecycle PROVE RxInv'
<1> DEFINE d == rx.uring[rx.seen % Q]
<1> DEFINE w == [rx.ring EXCEPT ![rx.avail % Q] = d]
<1>0. Q \in Int /\ Q > 0 /\ Wrap \in Int /\ Wrap >= 2 * Q
  BY QueueSizes
<1>1. /\ rx.avail \in Indices /\ rx.taken \in Indices /\ rx.used \in Indices /\ rx.seen \in Indices
      /\ rx.ring \in [Places -> Places] /\ rx.uring \in [Places -> Places] /\ rx.buf \in [Places -> Indices]
      /\ rx \in RxStates
  BY DEF RxInv, RxStates
<1>2. /\ rx.pc = "recycle"
      /\ rx' = [avail |-> After(rx.avail, 1), ring |-> w, taken |-> rx.taken, used |-> rx.used,
                uring |-> rx.uring, seen |-> After(rx.seen, 1), buf |-> rx.buf, pc |-> "loop",
                got |-> rx.got, processed |-> TRUE, waits |-> rx.waits, dry |-> rx.dry]
  BY <1>1, RecycleParts
<1>3. Free = Content(rx.taken, rx.avail, rx.ring) /\ Full = Content(rx.seen, rx.used, rx.uring)
  BY DEF Free, Full, Content
<1>4. /\ NothingTwice(rx.taken, rx.avail, rx.ring) /\ NothingTwice(rx.seen, rx.used, rx.uring)
      /\ Free \intersect Full = {} /\ Free \union Full = Places
      /\ Ahead(rx.avail, rx.taken) + Ahead(rx.used, rx.seen) = Q
      /\ \A i \in Between(rx.seen, rx.used) : rx.buf[rx.uring[i % Q]] = i
      /\ rx.seen # rx.used
  BY <1>2 DEF RxInv
<1>5. /\ d \in Full /\ d \in Places
      /\ Content(After(rx.seen, 1), rx.used, rx.uring) = Full \ {d}
      /\ NothingTwice(After(rx.seen, 1), rx.used, rx.uring)
  BY <1>1, <1>3, <1>4, TakeFirst
<1>6. /\ Ahead(rx.used, rx.seen) > 0 /\ Ahead(rx.used, After(rx.seen, 1)) = Ahead(rx.used, rx.seen) - 1
      /\ Between(After(rx.seen, 1), rx.used) = Between(rx.seen, rx.used) \ {rx.seen}
      /\ Ahead(rx.used, rx.seen) \in Int /\ Ahead(rx.avail, rx.taken) \in Int
  <2>1. Ahead(rx.used, rx.seen) \in Indices /\ Ahead(rx.avail, rx.taken) \in Indices
    BY <1>1, Distance
  <2>2. /\ Ahead(rx.used, rx.seen) > 0 /\ Ahead(rx.used, After(rx.seen, 1)) = Ahead(rx.used, rx.seen) - 1
        /\ Between(After(rx.seen, 1), rx.used) = Between(rx.seen, rx.used) \ {rx.seen}
    BY <1>1, <1>4, WindowMoves
  <2>3. QED
    BY <1>0, <2>1, <2>2 DEF Indices
<1>7. Ahead(rx.avail, rx.taken) < Q
  BY <1>0, <1>4, <1>6
<1>8. /\ Ahead(After(rx.avail, 1), rx.taken) = Ahead(rx.avail, rx.taken) + 1
      /\ After(rx.avail, 1) \in Indices /\ After(rx.seen, 1) \in Indices
  <2>1. Ahead(rx.avail, rx.taken) < Wrap - 1
    BY <1>0, <1>6, <1>7
  <2>2. QED
    BY <1>1, <2>1, WindowMoves, NextIndex
<1> HIDE DEF d
<1>9. d \notin Content(rx.taken, rx.avail, rx.ring)
  BY <1>3, <1>4, <1>5
<1>9b. w = Put(rx.ring, rx.avail, d)
  BY DEF Put
<1> HIDE DEF w
<1>10. /\ w \in [Places -> Places]
       /\ Content(rx.taken, After(rx.avail, 1), w) = Free \union {d}
       /\ NothingTwice(rx.taken, After(rx.avail, 1), w)
  BY <1>1, <1>3, <1>4, <1>5, <1>7, <1>9, <1>9b, PutAtEnd
<1>13. /\ rx'.avail = After(rx.avail, 1) /\ rx'.ring = w /\ rx'.taken = rx.taken
       /\ rx'.used = rx.used /\ rx'.uring = rx.uring /\ rx'.seen = After(rx.seen, 1) /\ rx'.buf = rx.buf
       /\ rx'.pc = "loop" /\ rx'.processed = TRUE
  BY <1>2
<1>14. rx' \in RxStates
  <2>1. rx.got \in Indices /\ rx.waits \in BOOLEAN /\ rx.dry \in BOOLEAN
    BY <1>1 DEF RxStates
  <2>2. QED
    BY <1>1, <1>2, <1>8, <1>10, <2>1 DEF RxStates
<1>15. Free' = Free \union {d} /\ Full' = Full \ {d}
  <2>1. Free' = Content(rx'.taken, rx'.avail, rx'.ring) /\ Full' = Content(rx'.seen, rx'.used, rx'.uring)
    BY DEF Free, Full, Content
  <2>2. QED
    BY <1>5, <1>10, <1>13, <2>1
<1>16. Free' \intersect Full' = {} /\ Free' \union Full' = Places
  BY <1>4, <1>5, <1>15
<1>17. Ahead(rx'.avail, rx'.taken) + Ahead(rx'.used, rx'.seen) = Q
  BY <1>0, <1>4, <1>6, <1>8, <1>13
<1>18. NothingTwice(rx'.taken, rx'.avail, rx'.ring) /\ NothingTwice(rx'.seen, rx'.used, rx'.uring)
  BY <1>5, <1>10, <1>13
<1>19. \A i \in Between(rx'.seen, rx'.used) : rx'.buf[rx'.uring[i % Q]] = i
  BY <1>4, <1>6, <1>13
<1>20. /\ rx'.pc = "recycle" => rx'.got = rx'.seen /\ rx'.seen # rx'.used
       /\ rx'.dry => rx'.seen # rx'.used \/ rx'.processed
  BY <1>13
<1>21. QED
  BY <1>14, <1>16, <1>17, <1>18, <1>19, <1>20 DEF RxInv

\* The steps that leave the rings alone.
LEMMA RingsStay ==
  ASSUME RxInv, NEW x, x \in RxStates,
         x.avail = rx.avail, x.ring = rx.ring, x.taken = rx.taken, x.used = rx.used,
         x.uring = rx.uring, x.seen = rx.seen, x.buf = rx.buf, rx' = x,
         x.pc = "recycle" => x.got = x.seen /\ x.seen # x.used,
         x.dry => x.seen # x.used \/ x.processed
  PROVE  RxInv'
<1>1. Free' = Free /\ Full' = Full
  BY DEF Free, Full
<1>2. QED
  BY <1>1 DEF RxInv

\* Every step of the receive queue keeps it in order.
LEMMA RxKeeps == ASSUME RxInv, [RxNext]_rx PROVE RxInv'
<1>0. rx \in RxStates
  BY DEF RxInv
<1>1. CASE RxDeliver
  BY <1>1, DeliverKeeps
<1>2. CASE RxRecycle
  BY <1>2, RecycleKeeps
<1>3. CASE RxDry
  <2>1. rx.taken = rx.avail /\ rx' = [rx EXCEPT !.dry = TRUE]
    BY <1>3 DEF RxDry
  <2>2. rx.seen # rx.used
    <3>1. rx.avail \in Indices /\ rx.used \in Indices /\ rx.seen \in Indices
      BY <1>0 DEF RxStates
    <3>2. Ahead(rx.avail, rx.taken) = 0 /\ (rx.seen = rx.used => Ahead(rx.used, rx.seen) = 0)
      BY <2>1, <3>1, WindowMoves
    <3>3. QED
      BY <3>2, QueueSizes DEF RxInv
  <2>3. rx' \in RxStates /\ rx'.pc = rx.pc /\ rx'.got = rx.got
    BY <1>0, <2>1 DEF RxStates
  <2>4. /\ rx'.avail = rx.avail /\ rx'.ring = rx.ring /\ rx'.taken = rx.taken /\ rx'.used = rx.used
        /\ rx'.uring = rx.uring /\ rx'.seen = rx.seen /\ rx'.buf = rx.buf
    BY <1>0, <2>1 DEF RxStates
  <2>5. rx'.pc = "recycle" => rx'.got = rx'.seen /\ rx'.seen # rx'.used
    BY <2>3, <2>4 DEF RxInv
  <2>6. QED
    BY <2>2, <2>3, <2>4, <2>5, RingsStay
<1>4. CASE RxHandle
  <2>1. rx.pc = "loop" /\ rx.seen # rx.used
        /\ rx' = [rx EXCEPT !.got = rx.buf[rx.uring[rx.seen % Q]], !.pc = "recycle"]
    BY <1>4 DEF RxHandle
  <2>2. rx.buf[rx.uring[rx.seen % Q]] = rx.seen /\ rx.seen \in Indices
    <3>1. rx.seen \in Indices /\ rx.used \in Indices
      BY <1>0 DEF RxStates
    <3>2. rx.seen \in Between(rx.seen, rx.used)
      BY <2>1, <3>1, WindowMoves
    <3>3. QED
      BY <3>1, <3>2 DEF RxInv
  <2>3. rx' = [rx EXCEPT !.got = rx.seen, !.pc = "recycle"]
    BY <2>1, <2>2
  <2>4. rx' \in RxStates /\ rx'.pc = "recycle" /\ rx'.got = rx.seen /\ rx'.dry = rx.dry /\ rx'.processed = rx.processed
    BY <1>0, <2>2, <2>3 DEF RxStates
  <2>5. /\ rx'.avail = rx.avail /\ rx'.ring = rx.ring /\ rx'.taken = rx.taken /\ rx'.used = rx.used
        /\ rx'.uring = rx.uring /\ rx'.seen = rx.seen /\ rx'.buf = rx.buf
    BY <1>0, <2>3 DEF RxStates
  <2>6. QED
    BY <2>1, <2>4, <2>5, RingsStay
<1>5. CASE RxLeave
  <2>1. rx.pc = "loop" /\ rx.processed /\ rx' = [rx EXCEPT !.pc = "kick"]
    BY <1>5 DEF RxLeave
  <2>2. rx' \in RxStates /\ rx'.pc = "kick" /\ rx'.processed = rx.processed
    BY <1>0, <2>1 DEF RxStates
  <2>3. /\ rx'.avail = rx.avail /\ rx'.ring = rx.ring /\ rx'.taken = rx.taken /\ rx'.used = rx.used
        /\ rx'.uring = rx.uring /\ rx'.seen = rx.seen /\ rx'.buf = rx.buf
    BY <1>0, <2>1 DEF RxStates
  <2>4. QED
    BY <2>1, <2>2, <2>3, RingsStay
<1>6. CASE RxKick
  <2>1. rx' = [rx EXCEPT !.pc = "loop", !.processed = FALSE, !.dry = FALSE]
    BY <1>6 DEF RxKick
  <2>2. rx' \in RxStates /\ rx'.pc = "loop" /\ rx'.dry = FALSE
    BY <1>0, <2>1 DEF RxStates
  <2>3. /\ rx'.avail = rx.avail /\ rx'.ring = rx.ring /\ rx'.taken = rx.taken /\ rx'.used = rx.used
        /\ rx'.uring = rx.uring /\ rx'.seen = rx.seen /\ rx'.buf = rx.buf
    BY <1>0, <2>1 DEF RxStates
  <2>4. QED
    BY <2>2, <2>3, RingsStay
<1>7. CASE UNCHANGED rx
  <2>1. rx' = rx
    BY <1>7
  <2>2. Free' = Free /\ Full' = Full
    BY <2>1 DEF Free, Full
  <2>3. QED
    BY <2>1, <2>2 DEF RxInv
<1>8. QED
  BY <1>1, <1>2, <1>3, <1>4, <1>5, <1>6, <1>7 DEF RxNext
\* The receive queue is sound in every state the invariant allows.
LEMMA RxInvSound == ASSUME RxInv PROVE RxSound
BY DEF RxInv, RxSound

(***************************************************************************)
(* The transmit queue: published, taken by the device, used, reaped, in    *)
(* this order around the ring, and never more than Q of them.              *)
(***************************************************************************)
TxStates ==
    [avail : Indices, ring : [Places -> Places], taken : Indices, used : Indices, seen : Indices,
     buf : [Places -> Indices]]

TxInv ==
    /\ tx \in TxStates
    /\ Ahead(tx.avail, tx.taken) + Ahead(tx.taken, tx.used) = Ahead(tx.avail, tx.used)
    /\ Ahead(tx.avail, tx.used) + Ahead(tx.used, tx.seen) = Ahead(tx.avail, tx.seen)
    /\ Ahead(tx.avail, tx.seen) <= Q
    /\ \A i \in Between(tx.used, tx.avail) : tx.ring[i % Q] = i % Q /\ tx.buf[i % Q] = i

\* At first nothing is under way.
LEMMA TxStart == ASSUME tx \in TxStarts PROVE TxInv
<1>0. Q \in Int /\ Q > 0 /\ Wrap \in Int /\ Wrap >= 2 * Q
  BY QueueSizes
<1>1. 0 \in Indices /\ 0 \in Places
  BY <1>0 DEF Indices, Places
<1>2. tx = [avail |-> 0, ring |-> [p \in Places |-> 0], taken |-> 0, used |-> 0, seen |-> 0,
            buf |-> [p \in Places |-> 0]]
  BY DEF TxStarts
<1>3. Between(0, 0) = {} /\ Ahead(0, 0) = 0
  BY <1>1, WindowMoves
<1>4. tx \in TxStates
  BY <1>1, <1>2 DEF TxStates
<1>5. tx.avail = 0 /\ tx.taken = 0 /\ tx.used = 0 /\ tx.seen = 0
  BY <1>2
<1>6. QED
  BY <1>0, <1>3, <1>4, <1>5 DEF TxInv

\* The distances of the four indices.
LEMMA TxDistances ==
  ASSUME TxInv
  PROVE  /\ tx.avail \in Indices /\ tx.taken \in Indices /\ tx.used \in Indices /\ tx.seen \in Indices
         /\ Ahead(tx.avail, tx.taken) \in Nat /\ Ahead(tx.taken, tx.used) \in Nat
         /\ Ahead(tx.avail, tx.used) \in Nat /\ Ahead(tx.used, tx.seen) \in Nat
         /\ Ahead(tx.avail, tx.seen) \in Nat
         /\ Q \in Int /\ Q > 0 /\ Wrap \in Int /\ Wrap >= 2 * Q
<1>1. tx.avail \in Indices /\ tx.taken \in Indices /\ tx.used \in Indices /\ tx.seen \in Indices
  BY DEF TxInv, TxStates
<1>2. \A i \in Indices : i \in Nat
  BY QueueSizes DEF Indices
<1>3. QED
  BY <1>1, <1>2, Distance, QueueSizes

\* A step that only moves indices of the device keeps what lies between them.
LEMMA TxMoves ==
  ASSUME TxInv, NEW x, x \in TxStates, tx' = x, x.avail = tx.avail, x.ring = tx.ring, x.buf = tx.buf,
         Ahead(x.avail, x.taken) + Ahead(x.taken, x.used) = Ahead(x.avail, x.used),
         Ahead(x.avail, x.used) + Ahead(x.used, x.seen) = Ahead(x.avail, x.seen),
         Ahead(x.avail, x.seen) <= Q, Between(x.used, x.avail) \subseteq Between(tx.used, tx.avail)
  PROVE  TxInv'
BY DEF TxInv

\* Every step of the transmit queue keeps it in order.
LEMMA TxKeeps == ASSUME TxInv, [TxNext]_tx PROVE TxInv'
<1>0. /\ tx.avail \in Indices /\ tx.taken \in Indices /\ tx.used \in Indices /\ tx.seen \in Indices
      /\ Ahead(tx.avail, tx.taken) \in Nat /\ Ahead(tx.taken, tx.used) \in Nat
      /\ Ahead(tx.avail, tx.used) \in Nat /\ Ahead(tx.used, tx.seen) \in Nat
      /\ Ahead(tx.avail, tx.seen) \in Nat
      /\ Q \in Int /\ Q > 0 /\ Wrap \in Int /\ Wrap >= 2 * Q
  BY TxDistances
<1>1. /\ tx \in TxStates
      /\ Ahead(tx.avail, tx.taken) + Ahead(tx.taken, tx.used) = Ahead(tx.avail, tx.used)
      /\ Ahead(tx.avail, tx.used) + Ahead(tx.used, tx.seen) = Ahead(tx.avail, tx.seen)
      /\ Ahead(tx.avail, tx.seen) <= Q
      /\ \A i \in Between(tx.used, tx.avail) : tx.ring[i % Q] = i % Q /\ tx.buf[i % Q] = i
  BY DEF TxInv
<1>2. CASE TxTake
  <2>1. tx.taken # tx.avail /\ tx' = [tx EXCEPT !.taken = After(tx.taken, 1)]
    BY <1>2 DEF TxTake
  <2>2. After(tx.taken, 1) \in Indices /\ Ahead(tx.avail, After(tx.taken, 1)) = Ahead(tx.avail, tx.taken) - 1
    BY <1>0, <2>1, NextIndex, WindowMoves
  <2>3. Ahead(tx.avail, tx.taken) > 0
    BY <1>0, <2>1, WindowMoves
  <2>4. Ahead(tx.taken, tx.used) < Wrap - 1
    BY <1>0, <1>1, <2>3
  <2>5. Ahead(After(tx.taken, 1), tx.used) = Ahead(tx.taken, tx.used) + 1
    BY <1>0, <2>4, WindowMoves
  <2>6. /\ tx' \in TxStates /\ tx'.avail = tx.avail /\ tx'.ring = tx.ring /\ tx'.buf = tx.buf
        /\ tx'.taken = After(tx.taken, 1) /\ tx'.used = tx.used /\ tx'.seen = tx.seen
    BY <1>1, <2>1, <2>2 DEF TxStates
  <2>7. Ahead(tx'.avail, tx'.taken) + Ahead(tx'.taken, tx'.used) = Ahead(tx'.avail, tx'.used)
    BY <1>0, <1>1, <2>2, <2>5, <2>6
  <2>8. QED
    BY <1>1, <2>6, <2>7, TxMoves
<1>3. CASE TxComplete
  <2>1. tx.used # tx.taken /\ tx' = [tx EXCEPT !.used = After(tx.used, 1)]
    BY <1>3 DEF TxComplete
  <2>2. /\ After(tx.used, 1) \in Indices /\ Ahead(tx.taken, After(tx.used, 1)) = Ahead(tx.taken, tx.used) - 1
        /\ Ahead(tx.taken, tx.used) > 0
    BY <1>0, <2>1, NextIndex, WindowMoves
  <2>3. tx.avail # tx.used
    <3>1. Ahead(tx.avail, tx.used) # 0
      BY <1>0, <1>1, <2>2
    <3>2. QED
      BY <1>0, <3>1, WindowMoves
  <2>4. /\ Ahead(tx.avail, After(tx.used, 1)) = Ahead(tx.avail, tx.used) - 1
        /\ Between(After(tx.used, 1), tx.avail) = Between(tx.used, tx.avail) \ {tx.used}
    BY <1>0, <2>3, WindowMoves
  <2>5. Ahead(After(tx.used, 1), tx.seen) = Ahead(tx.used, tx.seen) + 1
    <3>1. Ahead(tx.used, tx.seen) < Wrap - 1
      BY <1>0, <1>1, <2>2
    <3>2. QED
      BY <1>0, <3>1, WindowMoves
  <2>6. /\ tx' \in TxStates /\ tx'.avail = tx.avail /\ tx'.ring = tx.ring /\ tx'.buf = tx.buf
        /\ tx'.taken = tx.taken /\ tx'.used = After(tx.used, 1) /\ tx'.seen = tx.seen
    BY <1>1, <2>1, <2>2 DEF TxStates
  <2>7. /\ Ahead(tx'.avail, tx'.taken) + Ahead(tx'.taken, tx'.used) = Ahead(tx'.avail, tx'.used)
        /\ Ahead(tx'.avail, tx'.used) + Ahead(tx'.used, tx'.seen) = Ahead(tx'.avail, tx'.seen)
        /\ Ahead(tx'.avail, tx'.seen) <= Q
    BY <1>0, <1>1, <2>2, <2>4, <2>5, <2>6
  <2>8. Between(tx'.used, tx'.avail) \subseteq Between(tx.used, tx.avail)
    BY <2>4, <2>6
  <2>9. QED
    BY <2>6, <2>7, <2>8, TxMoves
<1>4. CASE TxSend
  <2> DEFINE p == tx.avail % Q
  <2> DEFINE r == [tx EXCEPT !.seen = tx.used]
  <2>1. /\ r \in TxStates /\ r.avail = tx.avail /\ r.ring = tx.ring /\ r.buf = tx.buf
        /\ r.taken = tx.taken /\ r.used = tx.used /\ r.seen = tx.used
    BY <1>0, <1>1 DEF TxStates
  <2>2. Ahead(tx.used, tx.used) = 0
    BY <1>0, WindowMoves
  <2>3. tx' = IF Ahead(r.avail, r.seen) >= Q THEN r
              ELSE [r EXCEPT !.buf[p] = r.avail, !.ring[p] = p, !.avail = After(r.avail, 1)]
    BY <1>4 DEF TxSend
  <2>4. CASE Ahead(r.avail, r.seen) >= Q
    <3>1. tx' = r
      BY <2>3, <2>4
    <3> HIDE DEF r
    <3>2. /\ Ahead(r.avail, r.taken) + Ahead(r.taken, r.used) = Ahead(r.avail, r.used)
          /\ Ahead(r.avail, r.used) + Ahead(r.used, r.seen) = Ahead(r.avail, r.seen)
          /\ Ahead(r.avail, r.seen) <= Q
      BY <1>0, <1>1, <2>1, <2>2
    <3>3. Between(r.used, r.avail) \subseteq Between(tx.used, tx.avail)
      BY <2>1
    <3>4. QED
      BY <2>1, <3>1, <3>2, <3>3, TxMoves
  <2>5. CASE ~ Ahead(r.avail, r.seen) >= Q
    <3> DEFINE b == [tx.buf EXCEPT ![p] = tx.avail]
    <3> DEFINE w == [tx.ring EXCEPT ![p] = p]
    <3>1. tx' = [avail |-> After(tx.avail, 1), ring |-> w, taken |-> tx.taken, used |-> tx.used,
                 seen |-> tx.used, buf |-> b]
      BY <1>1, <2>1, <2>3, <2>5 DEF TxStates
    <3>2. Ahead(tx.avail, tx.used) < Q
      BY <1>0, <2>1, <2>5
    <3>3. p \in Places /\ tx.ring \in [Places -> Places] /\ tx.buf \in [Places -> Indices]
      BY <1>0, <1>1, PlaceOfIndex DEF TxStates
    <3>4. /\ w \in [Places -> Places] /\ b \in [Places -> Indices] /\ w[p] = p /\ b[p] = tx.avail
          /\ \A q \in Places : q # p => w[q] = tx.ring[q] /\ b[q] = tx.buf[q]
      BY <1>0, <3>3
    <3>5. /\ After(tx.avail, 1) \in Indices
          /\ Ahead(After(tx.avail, 1), tx.used) = Ahead(tx.avail, tx.used) + 1
          /\ Between(tx.used, After(tx.avail, 1)) = Between(tx.used, tx.avail) \union {tx.avail}
      BY <1>0, <3>2, NextIndex, WindowMoves
    <3>6. Ahead(After(tx.avail, 1), tx.taken) = Ahead(tx.avail, tx.taken) + 1
      <4>1. Ahead(tx.avail, tx.taken) < Wrap - 1
        BY <1>0, <1>1, <3>2
      <4>2. QED
        BY <1>0, <4>1, WindowMoves
    <3> HIDE DEF w, b
    <3>7. \A i \in Between(tx.used, After(tx.avail, 1)) : w[i % Q] = i % Q /\ b[i % Q] = i
      <4> SUFFICES ASSUME NEW i \in Between(tx.used, tx.avail), i # tx.avail
                   PROVE  w[i % Q] = i % Q /\ b[i % Q] = i
        BY <3>4, <3>5
      <4>1. i \in Indices /\ Ahead(i, tx.used) < Ahead(tx.avail, tx.used)
        BY <1>0, Window
      <4>2. Ahead(i, tx.used) < Q
        <5>1. Ahead(i, tx.used) \in Indices
          BY <1>0, <4>1, Distance
        <5>2. QED
          BY <1>0, <3>2, <4>1, <5>1 DEF Indices
      <4>3. i % Q # p /\ i % Q \in Places
        BY <1>0, <3>2, <4>1, <4>2, PlacesDiffer, PlaceOfIndex
      <4>4. QED
        BY <1>1, <3>4, <4>3
    <3>8. tx' \in TxStates
      BY <1>0, <3>1, <3>4, <3>5 DEF TxStates
    <3>9. /\ tx'.avail = After(tx.avail, 1) /\ tx'.ring = w /\ tx'.taken = tx.taken
          /\ tx'.used = tx.used /\ tx'.seen = tx.used /\ tx'.buf = b
      BY <3>1
    <3>10. /\ Ahead(tx'.avail, tx'.taken) + Ahead(tx'.taken, tx'.used) = Ahead(tx'.avail, tx'.used)
           /\ Ahead(tx'.avail, tx'.used) + Ahead(tx'.used, tx'.seen) = Ahead(tx'.avail, tx'.seen)
           /\ Ahead(tx'.avail, tx'.seen) <= Q
      BY <1>0, <1>1, <2>2, <3>2, <3>5, <3>6, <3>9
    <3>11. QED
      BY <3>7, <3>8, <3>9, <3>10 DEF TxInv
  <2>6. QED
    BY <2>4, <2>5
<1>5. CASE UNCHANGED tx
  BY <1>5 DEF TxInv
<1>6. QED
  BY <1>2, <1>3, <1>4, <1>5 DEF TxNext

\* The transmit queue is sound in every state the invariant allows.
LEMMA TxInvSound == ASSUME TxInv PROVE TxSound
<1>1. \A i \in Between(tx.used, tx.avail) : tx.buf[tx.ring[i % Q]] = i
  BY DEF TxInv
<1>2. Ahead(tx.avail, tx.used) <= Q
  BY TxDistances DEF TxInv
<1>3. QED
  BY <1>1, <1>2 DEF TxSound
(***************************************************************************)
(* The request queue, as long as no request timed out: one request at a    *)
(* time, and the page says what the device does with it.                   *)
(***************************************************************************)
Pages == [write : BOOLEAN, sector : Sectors, data : Data, ok : BOOLEAN]

ReqStates ==
    [pc : {"idle", "wait"}, op : Ops, avail : Indices, taken : Indices, used : Indices, seen : Indices,
     disk : [Sectors -> Data], cur : Ops, spins : BOOLEAN, page : Pages, ok : BOOLEAN, late : BOOLEAN]

Resting == rq.avail = rq.seen /\ rq.taken = rq.seen /\ rq.used = rq.seen

UnderWay ==
    /\ rq.avail = After(rq.seen, 1) /\ rq.page.sector = rq.op.sector
    /\ \/ rq.taken = rq.seen /\ rq.used = rq.seen
       \/ rq.taken = rq.avail /\ rq.used = rq.seen /\ rq.cur.sector = rq.op.sector
       \/ /\ rq.taken = rq.avail /\ rq.used = rq.avail
          /\ rq.page.ok => rq.disk[rq.op.sector] = rq.page.data

ReqInv ==
    /\ rq \in ReqStates
    /\ ~rq.late /\ rq.pc = "idle" => Resting /\ (rq.ok => rq.disk[rq.op.sector] = rq.op.data)
    /\ ~rq.late /\ rq.pc = "wait" => UnderWay

\* The index after another is another.
LEMMA NextDiffers == ASSUME NEW i \in Indices PROVE After(i, 1) \in Indices /\ After(i, 1) # i
<1>1. After(i, 1) = (IF i = Wrap - 1 THEN 0 ELSE i + 1) /\ After(i, 1) \in Indices
  BY NextIndex
<1>2. Wrap \in Int /\ Wrap >= 2 /\ i \in Int
  BY QueueSizes DEF Indices
<1>3. QED
  BY <1>1, <1>2

\* At first there is no request.
LEMMA ReqStart == ASSUME rq \in ReqStarts PROVE ReqInv
<1> DEFINE s == CHOOSE s \in Sectors : TRUE
<1> DEFINE d == CHOOSE d \in Data : TRUE
<1> DEFINE none == [write |-> FALSE, sector |-> s, data |-> d]
<1> DEFINE blank == [write |-> FALSE, sector |-> s, data |-> d, ok |-> FALSE]
<1>1. s \in Sectors /\ d \in Data
  BY QueueAssumption
<1>2. 0 \in Indices
  BY QueueSizes DEF Indices
<1>3. rq \in [pc : {"idle"}, op : {none}, avail : {0}, taken : {0}, used : {0}, seen : {0},
              disk : {[x \in Sectors |-> d]}, cur : {none}, spins : BOOLEAN,
              page : {blank}, ok : {FALSE}, late : {FALSE}]
  BY DEF ReqStarts
<1> HIDE DEF s, d
<1>4. none \in Ops /\ blank \in Pages /\ [x \in Sectors |-> d] \in [Sectors -> Data]
  BY <1>1 DEF Ops, Pages
<1> DEFINE map == [x \in Sectors |-> d]
<1> HIDE DEF none, blank, map
<1>5. /\ rq.pc = "idle" /\ rq.op = none /\ rq.avail = 0 /\ rq.taken = 0 /\ rq.used = 0 /\ rq.seen = 0
      /\ rq.disk = map /\ rq.cur = none /\ rq.page = blank /\ rq.ok \in {FALSE} /\ rq.late \in {FALSE}
      /\ rq.spins \in BOOLEAN
      /\ rq = [pc |-> rq.pc, op |-> rq.op, avail |-> rq.avail, taken |-> rq.taken, used |-> rq.used,
               seen |-> rq.seen, disk |-> rq.disk, cur |-> rq.cur, spins |-> rq.spins,
               page |-> rq.page, ok |-> rq.ok, late |-> rq.late]
  BY <1>3 DEF map
<1>6. rq.ok \in BOOLEAN /\ rq.late \in BOOLEAN /\ ~rq.ok
  <2>1. \A x \in {FALSE} : x \in BOOLEAN /\ ~x
    OBVIOUS
  <2>2. QED
    BY <1>5, <2>1, Zenon
<1>7. map \in [Sectors -> Data]
  BY <1>4 DEF map
<1>8. rq \in ReqStates
  BY <1>2, <1>4, <1>5, <1>6, <1>7 DEF ReqStates
<1>9. QED
  BY <1>5, <1>6, <1>8 DEF ReqInv, Resting

\* A request is put into the page and published.
LEMMA SubmitKeeps == ASSUME ReqInv, ReqSubmit PROVE ReqInv'
<1>0. rq \in ReqStates
  BY DEF ReqInv
<1>1. PICK o \in Ops :
        /\ rq.pc = "idle"
        /\ rq' = [rq EXCEPT !.op = o, !.avail = After(rq.avail, 1), !.pc = "wait", !.ok = FALSE,
                    !.page = [write |-> o.write, sector |-> o.sector, data |-> o.data, ok |-> FALSE]]
  BY DEF ReqSubmit
<1> DEFINE page == [write |-> o.write, sector |-> o.sector, data |-> o.data, ok |-> FALSE]
<1>2. page \in Pages /\ page.sector = o.sector
  BY DEF Ops, Pages
<1>3. After(rq.avail, 1) \in Indices
  BY <1>0, NextIndex DEF ReqStates
<1> HIDE DEF page
<1>4. rq' = [rq EXCEPT !.op = o, !.avail = After(rq.avail, 1), !.pc = "wait", !.ok = FALSE, !.page = page]
  BY <1>1 DEF page
<1>5. /\ rq' \in ReqStates
      /\ rq'.pc = "wait" /\ rq'.op = o /\ rq'.page = page /\ rq'.avail = After(rq.avail, 1)
      /\ rq'.seen = rq.seen /\ rq'.taken = rq.taken /\ rq'.used = rq.used /\ rq'.late = rq.late
  BY <1>0, <1>2, <1>3, <1>4 DEF ReqStates
<1>6. ~rq.late => Resting
  BY <1>1 DEF ReqInv
<1>7. ~rq'.late => UnderWay'
  BY <1>2, <1>5, <1>6 DEF Resting, UnderWay
<1>8. QED
  BY <1>5, <1>7 DEF ReqInv

\* The device takes a request.
LEMMA TakeKeeps == ASSUME ReqInv, ReqTake PROVE ReqInv'
<1>0. rq \in ReqStates
  BY DEF ReqInv
<1> DEFINE head == [write |-> rq.page.write, sector |-> rq.page.sector, data |-> rq.page.data]
<1>1. /\ rq.taken = rq.used /\ rq.taken # rq.avail
      /\ rq' = [rq EXCEPT !.taken = After(rq.taken, 1), !.cur = head]
  BY DEF ReqTake
<1>2. head \in Ops /\ head.sector = rq.page.sector
  BY <1>0 DEF ReqStates, Pages, Ops
<1>3. After(rq.taken, 1) \in Indices
  BY <1>0, NextIndex DEF ReqStates
<1> HIDE DEF head
<1>4. /\ rq' \in ReqStates
      /\ rq'.pc = rq.pc /\ rq'.op = rq.op /\ rq'.page = rq.page /\ rq'.avail = rq.avail
      /\ rq'.seen = rq.seen /\ rq'.taken = After(rq.taken, 1) /\ rq'.used = rq.used
      /\ rq'.late = rq.late /\ rq'.cur = head /\ rq'.ok = rq.ok /\ rq'.disk = rq.disk
  BY <1>0, <1>1, <1>2, <1>3 DEF ReqStates
<1>5. ~rq.late => rq.pc = "wait" /\ UnderWay /\ rq.taken = rq.seen
  <2>1. rq.pc \in {"idle", "wait"}
    BY <1>0 DEF ReqStates
  <2>2. QED
    BY <1>1, <2>1 DEF ReqInv, Resting, UnderWay
<1>6. ~rq'.late => rq'.pc = "wait" /\ UnderWay'
  <2>1. SUFFICES ASSUME ~rq.late PROVE rq'.pc = "wait" /\ UnderWay'
    BY <1>4
  <2>2. rq.avail = After(rq.seen, 1) /\ rq.page.sector = rq.op.sector
    BY <1>5, <2>1 DEF UnderWay
  <2>3. QED
    BY <1>1, <1>2, <1>4, <1>5, <2>1, <2>2 DEF UnderWay
<1>7. QED
  BY <1>4, <1>6 DEF ReqInv

\* The device serves a request, or fails to.
LEMMA ServeKeeps == ASSUME ReqInv, ReqServe PROVE ReqInv'
<1>0. rq \in ReqStates
  BY DEF ReqInv
<1> DEFINE s == rq.cur.sector
<1>1. rq.taken # rq.used /\ s \in Sectors /\ rq.page \in Pages /\ rq.disk \in [Sectors -> Data]
  BY <1>0 DEF ReqServe, ReqStates, Ops
<1>2. \E g \in Pages, m \in [Sectors -> Data] :
        /\ rq' = [rq EXCEPT !.used = After(rq.used, 1), !.page = g, !.disk = m]
        /\ g.sector = rq.page.sector /\ (g.ok => m[s] = g.data)
  <2>1. CASE rq' = [rq EXCEPT !.used = After(@, 1), !.page.ok = FALSE]
    <3> DEFINE g == [rq.page EXCEPT !.ok = FALSE]
    <3>1. rq' = [rq EXCEPT !.used = After(rq.used, 1), !.page = g, !.disk = rq.disk]
      BY <1>0, <1>1, <2>1 DEF ReqStates
    <3>2. g \in Pages /\ g.sector = rq.page.sector /\ ~g.ok
      BY <1>1 DEF Pages
    <3>3. QED
      BY <1>1, <3>1, <3>2
  <2>2. CASE rq' = [rq EXCEPT !.used = After(@, 1), !.page.ok = TRUE, !.disk[rq.cur.sector] = rq.page.data]
    <3> DEFINE g == [rq.page EXCEPT !.ok = TRUE]
    <3> DEFINE m == [rq.disk EXCEPT ![s] = rq.page.data]
    <3>1. rq' = [rq EXCEPT !.used = After(rq.used, 1), !.page = g, !.disk = m]
      BY <1>0, <1>1, <2>2 DEF ReqStates
    <3>2. g \in Pages /\ g.sector = rq.page.sector /\ g.data = rq.page.data /\ rq.page.data \in Data
      BY <1>1 DEF Pages
    <3>3. m \in [Sectors -> Data] /\ m[s] = rq.page.data
      BY <1>1, <3>2
    <3>4. QED
      BY <3>1, <3>2, <3>3
  <2>3. CASE rq' = [rq EXCEPT !.used = After(@, 1), !.page.ok = TRUE, !.page.data = rq.disk[rq.cur.sector]]
    <3> DEFINE g == [rq.page EXCEPT !.ok = TRUE, !.data = rq.disk[s]]
    <3>1. rq' = [rq EXCEPT !.used = After(rq.used, 1), !.page = g, !.disk = rq.disk]
      BY <1>0, <1>1, <2>3 DEF ReqStates, Pages
    <3>2. g \in Pages /\ g.sector = rq.page.sector /\ g.data = rq.disk[s]
      BY <1>1 DEF Pages
    <3>3. QED
      BY <1>1, <3>1, <3>2
  <2>4. QED
    BY <2>1, <2>2, <2>3 DEF ReqServe
<1>3. PICK g \in Pages, m \in [Sectors -> Data] :
        /\ rq' = [rq EXCEPT !.used = After(rq.used, 1), !.page = g, !.disk = m]
        /\ g.sector = rq.page.sector /\ (g.ok => m[s] = g.data)
  BY <1>2
<1>4. After(rq.used, 1) \in Indices
  BY <1>0, NextIndex DEF ReqStates
<1>5. /\ rq' \in ReqStates
      /\ rq'.pc = rq.pc /\ rq'.op = rq.op /\ rq'.page = g /\ rq'.avail = rq.avail
      /\ rq'.seen = rq.seen /\ rq'.taken = rq.taken /\ rq'.used = After(rq.used, 1)
      /\ rq'.late = rq.late /\ rq'.disk = m
  BY <1>0, <1>3, <1>4 DEF ReqStates
<1>6. ~rq'.late => rq'.pc = "wait" /\ UnderWay'
  <2>1. SUFFICES ASSUME ~rq.late PROVE rq'.pc = "wait" /\ UnderWay'
    BY <1>5
  <2>2. rq.pc = "wait" /\ UnderWay
    <3>1. rq.pc \in {"idle", "wait"}
      BY <1>0 DEF ReqStates
    <3>2. QED
      BY <1>1, <2>1, <3>1 DEF ReqInv, Resting
  <2>3. rq.avail = After(rq.seen, 1) /\ rq.page.sector = rq.op.sector /\ rq.taken = rq.avail
        /\ rq.used = rq.seen /\ s = rq.op.sector
    BY <1>1, <2>2 DEF UnderWay
  <2>4. QED
    BY <1>3, <1>5, <2>2, <2>3 DEF UnderWay
<1>7. QED
  BY <1>5, <1>6 DEF ReqInv

\* The driver finds its request done.
LEMMA DoneKeeps == ASSUME ReqInv, ReqDone PROVE ReqInv'
<1>0. rq \in ReqStates
  BY DEF ReqInv
<1> DEFINE o == [rq.op EXCEPT !.data = rq.page.data]
<1>1. rq.pc = "wait" /\ Completed
      /\ rq' = [rq EXCEPT !.pc = "idle", !.seen = After(rq.seen, 1), !.ok = rq.page.ok, !.op = o]
  BY <1>0 DEF ReqDone, ReqStates, Ops
<1>2. o \in Ops /\ o.sector = rq.op.sector /\ o.data = rq.page.data /\ rq.page.ok \in BOOLEAN
  BY <1>0 DEF ReqStates, Ops, Pages
<1>3. After(rq.seen, 1) \in Indices /\ After(rq.seen, 1) # rq.seen
  BY <1>0, NextDiffers DEF ReqStates
<1> HIDE DEF o
<1>4. /\ rq' \in ReqStates
      /\ rq'.pc = "idle" /\ rq'.op = o /\ rq'.avail = rq.avail /\ rq'.ok = rq.page.ok
      /\ rq'.seen = After(rq.seen, 1) /\ rq'.taken = rq.taken /\ rq'.used = rq.used
      /\ rq'.late = rq.late /\ rq'.disk = rq.disk
  BY <1>0, <1>1, <1>2, <1>3 DEF ReqStates
<1>5. ASSUME ~rq'.late PROVE Resting' /\ (rq'.ok => rq'.disk[rq'.op.sector] = rq'.op.data)
  <2>1. UnderWay
    BY <1>1, <1>4, <1>5 DEF ReqInv
  <2>2. rq.used = rq.avail /\ rq.avail = After(rq.seen, 1)
    BY <1>1, <1>3, <2>1 DEF UnderWay, Completed
  <2>3. rq.taken = rq.avail /\ (rq.page.ok => rq.disk[rq.op.sector] = rq.page.data)
    BY <1>3, <2>1, <2>2 DEF UnderWay
  <2>4. QED
    BY <1>2, <1>4, <2>2, <2>3 DEF Resting
<1>6. QED
  BY <1>4, <1>5 DEF ReqInv

\* Every step of the request queue keeps it in order.
LEMMA ReqKeeps == ASSUME ReqInv, [ReqNext]_rq PROVE ReqInv'
<1>1. CASE ReqTimeout
  <2>1. rq \in ReqStates /\ rq' = [rq EXCEPT !.pc = "idle", !.late = TRUE]
    BY <1>1 DEF ReqInv, ReqTimeout
  <2>2. rq' \in ReqStates /\ rq'.late = TRUE
    BY <2>1 DEF ReqStates
  <2>3. QED
    BY <2>2 DEF ReqInv
<1>2. CASE UNCHANGED rq
  BY <1>2 DEF ReqInv, Resting, UnderWay
<1>3. QED
  BY <1>1, <1>2, SubmitKeeps, TakeKeeps, ServeKeeps, DoneKeeps DEF ReqNext

\* The request queue is sound in every state the invariant allows.
LEMMA ReqInvSound == ASSUME ReqInv PROVE RequestSound
BY DEF ReqInv, RequestSound
(***************************************************************************)
(* Bringing up: how far a device is follows from the steps that are left.  *)
(***************************************************************************)
Marks == {"ack", "driver", "features_ok", "driver_ok", "failed"}
DeviceStates == [status : SUBSET Marks, queues : BOOLEAN, posted : BOOLEAN]

UpSteps == {"features", "accept", "memory", "queues", "config", "go", "ask", "post", "kick"}
UpStates ==
    [drv : Drivers, has : SUBSET Slots, left : SUBSET Slots, slot : Nat, todo : Seq(UpSteps),
     at : [Slots -> DeviceStates], devs : Seq(Slots), over : BOOLEAN]

\* The steps of plan P from the n-th on.
Remaining(P, n, todo) ==
    /\ n \in 1 .. Len(P) + 1 /\ Len(todo) = Len(P) + 1 - n
    /\ \A i \in 1 .. Len(todo) : todo[i] = P[i + n - 1]

\* What the first n - 1 steps of plan P have done to a device.
Passed(P, n, x) == \E m \in 1 .. n - 1 : P[m] = x
Progress(P, n, d) ==
    /\ {"ack", "driver"} \subseteq d.status /\ "failed" \notin d.status
    /\ Passed(P, n, "accept") => "features_ok" \in d.status
    /\ Passed(P, n, "go") <=> "driver_ok" \in d.status
    /\ Passed(P, n, "queues") => d.queues
    /\ Passed(P, n, "post") => d.posted

Usable(d) == "driver_ok" \in d.status => "features_ok" \in d.status /\ d.queues
Ready(drv, d) ==
    /\ d.status = {"ack", "driver", "features_ok", "driver_ok"} /\ d.queues
    /\ drv \in {"net", "input", "tablet"} => d.posted

UpInv ==
    /\ up \in UpStates
    /\ \A i \in 1 .. Len(up.devs) : Ready(up.drv, up.at[up.devs[i]]) /\ up.devs[i] \notin up.left
    /\ \A s \in Slots : Usable(up.at[s])
    /\ \A i, j \in 1 .. Len(up.devs) : i < j => up.devs[i] > up.devs[j]
    /\ up.drv # "blk" => Len(up.devs) <= 1 /\ (~up.over => Len(up.devs) = 0)
    /\ up.drv = "blk" => \A i \in 1 .. Len(up.devs), t \in up.left : up.devs[i] > t
    /\ up.todo # <<>> =>
          /\ up.slot \in Slots /\ up.slot \notin up.left /\ ~up.over
          /\ up.drv = "blk" => /\ \A t \in up.left : up.slot > t
                               /\ \A i \in 1 .. Len(up.devs) : up.devs[i] > up.slot
          /\ \E n \in 1 .. Len(Plan[up.drv]) :
                Remaining(Plan[up.drv], n, up.todo) /\ Progress(Plan[up.drv], n, up.at[up.slot])

\* Step g of a plan sets the device going; before it, a accepts the features and q makes the queues.
Steps(P, l, g, a, q) ==
    /\ P \in Seq(UpSteps) /\ Len(P) = l /\ g <= l /\ 1 <= a /\ a < g /\ 1 <= q /\ q < g
    /\ P[g] = "go" /\ P[a] = "accept" /\ P[q] = "queues" /\ \A m \in 1 .. l : P[m] = "go" => m = g

Orderly(P) == \E l, g, a, q \in Nat : Steps(P, l, g, a, q)

\* Every driver has an orderly plan, and those that receive post their buffers.
LEMMA PlansAreOrderly == ASSUME NEW drv \in Drivers PROVE Orderly(Plan[drv])
<1>1. Steps(BlkUp, 6, 6, 2, 4)
  BY DEF Steps, BlkUp, UpSteps
<1>2. Steps(GpuUp, 6, 5, 2, 4)
  BY DEF Steps, GpuUp, UpSteps
<1>3. Steps(NetUp, 8, 7, 2, 5)
  BY DEF Steps, NetUp, UpSteps
<1>4. Steps(InputUp, 7, 7, 2, 4)
  BY DEF Steps, InputUp, UpSteps
<1>5. Steps(TabletUp, 8, 8, 2, 5)
  BY DEF Steps, TabletUp, UpSteps
<1>6. Steps(SndUp, 7, 6, 2, 5)
  BY DEF Steps, SndUp, UpSteps
<1>7. Steps(RngUp, 5, 5, 2, 4)
  BY DEF Steps, RngUp, UpSteps
<1>8. Plan[drv] \in {BlkUp, GpuUp, NetUp, InputUp, TabletUp, SndUp, RngUp}
  BY DEF Drivers, Plan
<1>9. \A l, g, a, q \in {2, 4, 5, 6, 7, 8} : l \in Nat /\ g \in Nat /\ a \in Nat /\ q \in Nat
  OBVIOUS
<1>10. QED
  BY <1>1, <1>2, <1>3, <1>4, <1>5, <1>6, <1>7, <1>8, <1>9 DEF Orderly

\* The drivers that receive post their buffers.
LEMMA ReceiversPost ==
  ASSUME NEW drv \in {"net", "input", "tablet"}
  PROVE  drv \in Drivers /\ \E p \in 1 .. Len(Plan[drv]) : Plan[drv][p] = "post"
<1>1. NetUp[6] = "post" /\ Len(NetUp) = 8
  BY DEF NetUp
<1>2. InputUp[5] = "post" /\ Len(InputUp) = 7
  BY DEF InputUp
<1>3. TabletUp[6] = "post" /\ Len(TabletUp) = 8
  BY DEF TabletUp
<1>4. Plan["net"] = NetUp /\ Plan["input"] = InputUp /\ Plan["tablet"] = TabletUp
  BY DEF Plan
<1>5. drv \in Drivers
  BY DEF Drivers, Plan
<1>6. /\ \E p \in 1 .. Len(NetUp) : NetUp[p] = "post"
      /\ \E p \in 1 .. Len(InputUp) : InputUp[p] = "post"
      /\ \E p \in 1 .. Len(TabletUp) : TabletUp[p] = "post"
  BY <1>1, <1>2, <1>3
<1>7. QED
  BY <1>4, <1>5, <1>6
\* A set of numbers that is not empty has a least element.
LEMMA Lowest == ASSUME NEW S \in SUBSET Nat, S # {} PROVE \E x \in S : \A y \in S : x <= y
<1>1. PICK x \in S : \A y \in S : ~(<<y, x>> \in OpToRel(<, Nat))
  BY NatLessThanWellFounded, WFMin
<1>2. \A y \in S : y < x => <<y, x>> \in OpToRel(<, Nat)
  BY DEF OpToRel
<1>3. \A y \in S : ~(y < x)
  BY <1>1, <1>2
<1>4. \A y \in S : x <= y
  BY <1>3
<1>5. QED
  BY <1>4

\* The slot that is tried next is one that is left, for the disks the highest.
LEMMA CandidateFits ==
  ASSUME up \in UpStates, up.left # {}
  PROVE  Candidate \in up.left /\ (up.drv = "blk" => \A t \in up.left : t <= Candidate)
<1>1. up.left \in SUBSET Nat /\ \A t \in up.left : t \in Int /\ 0 <= t /\ t <= 31
  <2>1. up.left \in SUBSET Slots
    BY DEF UpStates
  <2>2. \A t \in 0 .. 31 : t \in Nat /\ t \in Int /\ 0 <= t /\ t <= 31
    OBVIOUS
  <2>3. Slots \subseteq 0 .. 31
    BY QueueAssumption
  <2>4. QED
    BY <2>1, <2>2, <2>3
<1>2. PICK x \in up.left : \A y \in up.left : x <= y
  BY <1>1, Lowest
<1>3. \E z \in up.left : \A y \in up.left : y <= z
  <2> DEFINE S == {31 - t : t \in up.left}
  <2>1. S \in SUBSET Nat /\ S # {}
    BY <1>1
  <2>2. PICK d \in S : \A e \in S : d <= e
    BY <2>1, Lowest
  <2>3. PICK z \in up.left : d = 31 - z
    BY <2>2
  <2>4. \A y \in up.left : 31 - z <= 31 - y
    BY <2>2, <2>3
  <2>5. \A y \in up.left : y <= z
    BY <1>1, <2>4
  <2>6. QED
    BY <2>5
<1>4. QED
  BY <1>2, <1>3 DEF Candidate

\* At first no device is touched.
LEMMA UpStart == ASSUME up \in UpStarts PROVE UpInv
<1> DEFINE d == [status |-> {}, queues |-> FALSE, posted |-> FALSE]
<1> DEFINE m == [s \in Slots |-> d]
<1>1. up \in [drv : Drivers, has : SUBSET Slots, left : {Slots}, slot : {0}, todo : {<<>>},
              at : {m}, devs : {<<>>}, over : {FALSE}]
  BY DEF UpStarts
<1>2. d \in DeviceStates /\ d.status = {}
  BY DEF DeviceStates, Marks
<1> HIDE DEF d
<1>3. m \in [Slots -> DeviceStates] /\ \A s \in Slots : m[s].status = {}
  BY <1>2
<1> HIDE DEF m
<1>4. /\ up.drv \in Drivers /\ up.has \in SUBSET Slots /\ up.left = Slots /\ up.slot = 0 /\ up.todo = <<>>
      /\ up.at = m /\ up.devs = <<>> /\ up.over = FALSE
      /\ up = [drv |-> up.drv, has |-> up.has, left |-> up.left, slot |-> up.slot, todo |-> up.todo,
               at |-> up.at, devs |-> up.devs, over |-> up.over]
  BY <1>1
<1>5. up.todo \in Seq(UpSteps) /\ up.devs \in Seq(Slots) /\ Len(up.devs) = 0
  BY <1>4
<1>6. up \in UpStates
  <2>1. up.left \in SUBSET Slots /\ up.slot \in Nat /\ up.at \in [Slots -> DeviceStates]
    BY <1>3, <1>4
  <2>2. up.over \in BOOLEAN
    BY <1>4
  <2>3. QED
    BY <1>4, <1>5, <2>1, <2>2 DEF UpStates
<1>7. \A s \in Slots : Usable(up.at[s])
  BY <1>3, <1>4 DEF Usable
<1>8. \A i : ~ i \in 1 .. Len(up.devs)
  BY <1>5
<1>9. QED
  BY <1>4, <1>5, <1>6, <1>7, <1>8 DEF UpInv
\* A device that went through its plan up to n can be used if it was set going.
LEMMA ProgressUsable ==
  ASSUME NEW drv \in Drivers, NEW n \in 1 .. Len(Plan[drv]) + 1, NEW d, Progress(Plan[drv], n, d)
  PROVE  Usable(d)
<1> DEFINE P == Plan[drv]
<1>1. PICK l \in Nat, g \in Nat, a \in Nat, q \in Nat : Steps(P, l, g, a, q)
  BY PlansAreOrderly DEF Orderly
<1> HIDE DEF P
<1>2. SUFFICES ASSUME "driver_ok" \in d.status PROVE "features_ok" \in d.status /\ d.queues
  BY DEF Usable
<1>3. n \in 1 .. l + 1
  BY <1>1 DEF Steps, P
<1>4. Passed(P, n, "go")
  BY <1>2 DEF Progress, P
<1>5. PICK m \in 1 .. n - 1 : P[m] = "go"
  BY <1>4 DEF Passed
<1>6. m = g /\ a \in 1 .. n - 1 /\ q \in 1 .. n - 1
  BY <1>1, <1>3, <1>5 DEF Steps
<1>7. Passed(P, n, "accept") /\ Passed(P, n, "queues")
  BY <1>1, <1>6 DEF Passed, Steps
<1>8. QED
  BY <1>7 DEF Progress, P

\* A device that went through the whole of its plan is ready.
LEMMA ProgressReady ==
  ASSUME NEW drv \in Drivers, NEW d \in DeviceStates, Progress(Plan[drv], Len(Plan[drv]) + 1, d)
  PROVE  Ready(drv, d)
<1> DEFINE P == Plan[drv]
<1>1. PICK l \in Nat, g \in Nat, a \in Nat, q \in Nat : Steps(P, l, g, a, q)
  BY PlansAreOrderly DEF Orderly
<1>2. drv \in {"net", "input", "tablet"} => \E p \in 1 .. Len(P) : P[p] = "post"
  BY ReceiversPost
<1>3. Progress(P, Len(P) + 1, d)
  OBVIOUS
<1> HIDE DEF P
<1>4. Len(P) \in Nat /\ g \in 1 .. Len(P) /\ a \in 1 .. Len(P) /\ q \in 1 .. Len(P)
      /\ P[g] = "go" /\ P[a] = "accept" /\ P[q] = "queues"
  BY <1>1 DEF Steps
<1>5. Len(P) + 1 - 1 = Len(P)
  BY <1>4
<1>6. Passed(P, Len(P) + 1, "go") /\ Passed(P, Len(P) + 1, "accept") /\ Passed(P, Len(P) + 1, "queues")
      /\ (drv \in {"net", "input", "tablet"} => Passed(P, Len(P) + 1, "post"))
  BY <1>2, <1>4, <1>5 DEF Passed
<1>7. /\ {"ack", "driver"} \subseteq d.status /\ "failed" \notin d.status
      /\ "features_ok" \in d.status /\ "driver_ok" \in d.status /\ d.queues
      /\ drv \in {"net", "input", "tablet"} => d.posted
  BY <1>3, <1>6 DEF Progress
<1>8. d.status \subseteq Marks
  BY DEF DeviceStates
<1>9. d.status = {"ack", "driver", "features_ok", "driver_ok"}
  BY <1>7, <1>8 DEF Marks
<1>10. QED
  BY <1>7, <1>9 DEF Ready

\* One more step of the plan.
LEMMA ProgressNext ==
  ASSUME NEW P, NEW n \in Nat, n >= 1, NEW d \in DeviceStates, Progress(P, n, d)
  PROVE  Effect(d, P[n]) \in DeviceStates /\ Progress(P, n + 1, Effect(d, P[n]))
<1> DEFINE e == Effect(d, P[n])
<1>1. /\ d.status \subseteq Marks /\ d.queues \in BOOLEAN /\ d.posted \in BOOLEAN
      /\ d = [status |-> d.status, queues |-> d.queues, posted |-> d.posted]
  BY DEF DeviceStates
<1>2. \A x : Passed(P, n + 1, x) <=> Passed(P, n, x) \/ P[n] = x
  <2>1. \A m : m \in 1 .. (n + 1) - 1 <=> m \in 1 .. n - 1 \/ m = n
    OBVIOUS
  <2>2. QED
    BY <2>1 DEF Passed
<1>3. e = [status |-> d.status \union (IF P[n] = "accept" THEN {"features_ok"}
                                      ELSE IF P[n] = "go" THEN {"driver_ok"} ELSE {}),
           queues |-> (IF P[n] = "queues" THEN TRUE ELSE d.queues),
           posted |-> (IF P[n] = "post" THEN TRUE ELSE d.posted)]
  <2>1. CASE P[n] = "accept"
    BY <1>1, <2>1 DEF Effect
  <2>2. CASE P[n] = "go"
    BY <1>1, <2>2 DEF Effect
  <2>3. CASE P[n] = "queues"
    BY <1>1, <2>3 DEF Effect
  <2>4. CASE P[n] = "post"
    BY <1>1, <2>4 DEF Effect
  <2>5. CASE P[n] \notin {"accept", "go", "queues", "post"}
    BY <1>1, <2>5 DEF Effect
  <2>6. QED
    BY <2>1, <2>2, <2>3, <2>4, <2>5
<1>4. /\ e.status = d.status \union (IF P[n] = "accept" THEN {"features_ok"}
                                     ELSE IF P[n] = "go" THEN {"driver_ok"} ELSE {})
      /\ e.queues <=> P[n] = "queues" \/ d.queues
      /\ e.posted <=> P[n] = "post" \/ d.posted
  BY <1>1, <1>3
<1>5. e \in DeviceStates
  <2>1. e.status \in SUBSET Marks
    BY <1>1, <1>4 DEF Marks
  <2>2. e.queues \in BOOLEAN
    <3>1. e.queues = (IF P[n] = "queues" THEN TRUE ELSE d.queues)
      BY <1>3
    <3> HIDE DEF e
    <3>2. QED
      BY <1>1, <3>1, Zenon
  <2>3. e.posted \in BOOLEAN
    <3>1. e.posted = (IF P[n] = "post" THEN TRUE ELSE d.posted)
      BY <1>3
    <3> HIDE DEF e
    <3>2. QED
      BY <1>1, <3>1, Zenon
  <2>4. e = [status |-> e.status, queues |-> e.queues, posted |-> e.posted]
    BY <1>3
  <2> HIDE DEF e
  <2>5. QED
    BY <2>1, <2>2, <2>3, <2>4 DEF DeviceStates
<1> HIDE DEF e
<1>6. Progress(P, n + 1, e)
  BY <1>2, <1>4 DEF Progress
<1>7. QED
  BY <1>5, <1>6 DEF e
\* A slot is probed.
LEMMA ProbeKeeps == ASSUME UpInv, UpProbe PROVE UpInv'
<1>0. up \in UpStates
  BY DEF UpInv
<1>1. up.todo = <<>> /\ ~up.over
  BY DEF UpProbe
<1>2. CASE up.left = {} \/ Len(up.devs) = MaxDevs
  <2>1. up' = [up EXCEPT !.over = TRUE]
    BY <1>2 DEF UpProbe
  <2>2. /\ up' \in UpStates /\ up'.drv = up.drv /\ up'.left = up.left /\ up'.todo = up.todo
        /\ up'.at = up.at /\ up'.devs = up.devs
    BY <1>0, <2>1 DEF UpStates
  <2>3. QED
    BY <1>1, <2>2 DEF UpInv
<1> DEFINE s == Candidate
<1>3. CASE ~(up.left = {} \/ Len(up.devs) = MaxDevs)
  <2>0. s \in up.left /\ (up.drv = "blk" => \A t \in up.left : t <= s)
    BY <1>0, <1>3, CandidateFits
  <2>a. up' = IF s \notin up.has THEN [up EXCEPT !.left = @ \ {s}]
              ELSE [up EXCEPT !.left = @ \ {s}, !.slot = s, !.todo = Plan[up.drv], !.at[s] = Reset]
    BY <1>3 DEF UpProbe
  <2> HIDE DEF s
  <2>1. s \in Slots /\ s \in Nat /\ \A t \in up.left : t \in Nat
    BY <1>0, <2>0, QueueAssumption DEF UpStates
  <2> DEFINE rest == up.left \ {s}
  <2>b. rest \in SUBSET Slots
    BY <1>0 DEF UpStates
  <2>2. CASE s \notin up.has
    <3>1. up' = [up EXCEPT !.left = rest]
      BY <1>0, <2>a, <2>2 DEF UpStates
    <3>2. /\ up' \in UpStates /\ up'.drv = up.drv /\ up'.left = rest /\ up'.todo = up.todo
          /\ up'.at = up.at /\ up'.devs = up.devs /\ up'.over = up.over
      BY <1>0, <2>b, <3>1 DEF UpStates
    <3>3. QED
      BY <1>1, <3>2 DEF UpInv
  <2>3. CASE s \in up.has
    <3> DEFINE m == [up.at EXCEPT ![s] = Reset]
    <3> DEFINE P == Plan[up.drv]
    <3>1. up' = [up EXCEPT !.left = rest, !.slot = s, !.todo = P, !.at = m]
      BY <1>0, <2>a, <2>3 DEF UpStates
    <3>2. Reset \in DeviceStates /\ Reset.status = {"ack", "driver"}
      BY DEF Reset, DeviceStates, Marks
    <3>3. /\ m \in [Slots -> DeviceStates] /\ m[s] = Reset
          /\ \A t \in Slots : t # s => m[t] = up.at[t]
      <4>1. up.at \in [Slots -> DeviceStates]
        BY <1>0 DEF UpStates
      <4>2. QED
        BY <2>1, <3>2, <4>1
    <3>4. up.drv \in Drivers
      BY <1>0 DEF UpStates
    <3>5. P \in Seq(UpSteps) /\ Len(P) \in Nat /\ Len(P) >= 1
      <4>1. PICK l \in Nat, g \in Nat, a \in Nat, q \in Nat : Steps(P, l, g, a, q)
        BY <3>4, PlansAreOrderly DEF Orderly
      <4>2. QED
        BY <4>1 DEF Steps
    <3> HIDE DEF m, P
    <3>6. Remaining(P, 1, P) /\ Progress(P, 1, m[s])
      <4>1. Remaining(P, 1, P)
        BY <3>5 DEF Remaining
      <4>2. \A x : ~Passed(P, 1, x)
        BY DEF Passed
      <4>3. QED
        BY <3>2, <3>3, <4>1, <4>2 DEF Progress
    <3>7. /\ up' \in UpStates /\ up'.drv = up.drv /\ up'.left = rest /\ up'.todo = P
          /\ up'.at = m /\ up'.devs = up.devs /\ up'.over = up.over /\ up'.slot = s
      BY <1>0, <2>1, <2>b, <3>1, <3>3, <3>5 DEF UpStates
    <3>8. \A i \in 1 .. Len(up.devs) : up.devs[i] \in Slots /\ up.devs[i] # s
      <4>1. up.devs \in Seq(Slots)
        BY <1>0 DEF UpStates
      <4>2. QED
        BY <2>0, <4>1 DEF UpInv
    <3>9. \A i \in 1 .. Len(up'.devs) : Ready(up'.drv, up'.at[up'.devs[i]]) /\ up'.devs[i] \notin up'.left
      BY <3>3, <3>7, <3>8 DEF UpInv
    <3>10. \A t \in Slots : Usable(up'.at[t])
      <4>1. Usable(Reset)
        BY <3>2 DEF Usable
      <4>2. QED
        BY <3>3, <3>7, <4>1 DEF UpInv
    <3>11. up'.slot \in Slots /\ up'.slot \notin up'.left /\ ~up'.over
      BY <1>1, <2>1, <3>7
    <3>12. up'.drv = "blk" => /\ \A t \in up'.left : up'.slot > t
                              /\ \A i \in 1 .. Len(up'.devs) : up'.devs[i] > up'.slot
      <4>1. up.drv = "blk" => \A t \in rest : s > t
        BY <2>0, <2>1
      <4>2. up.drv = "blk" => \A i \in 1 .. Len(up.devs) : up.devs[i] > s
        BY <2>0 DEF UpInv
      <4>3. QED
        BY <3>7, <4>1, <4>2
    <3>13. \E n \in 1 .. Len(Plan[up'.drv]) :
              Remaining(Plan[up'.drv], n, up'.todo) /\ Progress(Plan[up'.drv], n, up'.at[up'.slot])
      <4>1. Plan[up'.drv] = P
        BY <3>7 DEF P
      <4>2. 1 \in 1 .. Len(P)
        BY <3>5
      <4>3. QED
        BY <3>6, <3>7, <4>1, <4>2
    <3>14. /\ \A i, j \in 1 .. Len(up'.devs) : i < j => up'.devs[i] > up'.devs[j]
           /\ up'.drv # "blk" => Len(up'.devs) <= 1 /\ (~up'.over => Len(up'.devs) = 0)
           /\ up'.drv = "blk" => \A i \in 1 .. Len(up'.devs), t \in up'.left : up'.devs[i] > t
      BY <3>7 DEF UpInv
    <3>15. QED
      BY <3>7, <3>9, <3>10, <3>11, <3>12, <3>13, <3>14 DEF UpInv
  <2>4. QED
    BY <2>2, <2>3
<1>4. QED
  BY <1>2, <1>3
\* The device whose driver is at work is none of those that are ready.
LEMMA AtWork ==
  ASSUME UpInv, up.todo # <<>>
  PROVE  /\ up.slot \in Slots /\ up.slot \in Nat /\ \A t \in Slots : t \in Nat
         /\ \A i \in 1 .. Len(up.devs) : up.devs[i] \in Slots /\ up.devs[i] # up.slot
         /\ Len(up.devs) \in Nat
<1>1. up.slot \in Slots /\ up.devs \in Seq(Slots)
  BY DEF UpInv, UpStates
<1>2. \A t \in Slots : t \in Nat
  <2>1. \A t \in 0 .. 31 : t \in Nat
    OBVIOUS
  <2>2. Slots \subseteq 0 .. 31
    BY QueueAssumption
  <2>3. QED
    BY <2>1, <2>2
<1>3. Len(up.devs) \in Nat /\ \A i \in 1 .. Len(up.devs) : up.devs[i] \in Slots
  BY <1>1
<1>4. ASSUME NEW i \in 1 .. Len(up.devs) PROVE up.devs[i] # up.slot
  <2>1. CASE up.drv = "blk"
    <3>1. up.devs[i] > up.slot
      BY <2>1 DEF UpInv
    <3>2. QED
      BY <1>1, <1>2, <3>1
  <2>2. CASE up.drv # "blk"
    <3>1. Len(up.devs) = 0
      BY <2>2 DEF UpInv
    <3>2. QED
      BY <3>1
  <2>3. QED
    BY <2>1, <2>2
<1>5. QED
  BY <1>1, <1>2, <1>3, <1>4

\* A step of the plan.
LEMMA StepKeeps == ASSUME UpInv, UpStep PROVE UpInv'
<1>0. up \in UpStates
  BY DEF UpInv
<1>1. up.todo # <<>>
  BY DEF UpStep
<1> DEFINE P == Plan[up.drv]
<1> DEFINE s == up.slot
<1>2. /\ s \in Slots /\ s \in Nat /\ (\A t \in Slots : t \in Nat)
      /\ \A i \in 1 .. Len(up.devs) : up.devs[i] \in Slots /\ up.devs[i] # s
      /\ Len(up.devs) \in Nat
  BY <1>1, AtWork
<1>3. PICK n \in 1 .. Len(P) : Remaining(P, n, up.todo) /\ Progress(P, n, up.at[s])
  BY <1>1 DEF UpInv
<1>4. up.drv \in Drivers /\ up.at \in [Slots -> DeviceStates] /\ up.todo \in Seq(UpSteps)
      /\ up.devs \in Seq(Slots) /\ up.left \in SUBSET Slots
  BY <1>0 DEF UpStates
<1>5. P \in Seq(UpSteps) /\ Len(P) \in Nat
  <2>1. PICK l \in Nat, g \in Nat, a \in Nat, q \in Nat : Steps(P, l, g, a, q)
    BY <1>4, PlansAreOrderly DEF Orderly
  <2>2. QED
    BY <2>1 DEF Steps
<1> DEFINE rest == Tail(up.todo)
<1> DEFINE e == Effect(up.at[s], P[n])
<1> DEFINE m == [up.at EXCEPT ![s] = e]
<1> DEFINE done == rest = <<>>
<1> DEFINE devs == IF done THEN Append(up.devs, s) ELSE up.devs
<1>6. Head(up.todo) = P[n] /\ rest \in Seq(UpSteps) /\ Len(rest) = Len(up.todo) - 1 /\ Len(up.todo) >= 1
      /\ \A i \in 1 .. Len(rest) : rest[i] = up.todo[i + 1]
  <2>1. Len(up.todo) \in Nat /\ Len(up.todo) >= 1 /\ Head(up.todo) = up.todo[1]
    BY <1>1, <1>4
  <2>2. up.todo[1] = P[1 + n - 1] /\ 1 + n - 1 = n
    BY <1>3, <1>5, <2>1 DEF Remaining
  <2>3. rest \in Seq(UpSteps) /\ Len(rest) = Len(up.todo) - 1
    BY <1>1, <1>4
  <2>4. \A i \in 1 .. Len(rest) : rest[i] = up.todo[i + 1]
    BY <1>1, <1>4
  <2>5. QED
    BY <2>1, <2>2, <2>3, <2>4
<1>7. e \in DeviceStates /\ Progress(P, n + 1, e)
  <2>1. n \in Nat /\ n >= 1 /\ up.at[s] \in DeviceStates
    BY <1>2, <1>4, <1>5
  <2>2. QED
    BY <1>3, <2>1, ProgressNext
<1>8. up' = [up EXCEPT !.todo = rest, !.at = m, !.devs = devs, !.over = (done /\ up.drv # "blk")]
  BY <1>0, <1>6 DEF UpStep, UpStates
<1>9. Usable(e) /\ (n = Len(P) => Ready(up.drv, e))
  <2>1. n + 1 \in 1 .. Len(P) + 1
    BY <1>5
  <2>2. Usable(e)
    BY <1>4, <1>7, <2>1, ProgressUsable
  <2>3. n = Len(P) => Ready(up.drv, e)
    BY <1>4, <1>7, ProgressReady
  <2>4. QED
    BY <2>2, <2>3
<1> HIDE DEF rest
<1>10. (done <=> n = Len(P)) /\ Remaining(P, n + 1, rest)
  <2>1. Len(up.todo) = Len(P) + 1 - n
    BY <1>3 DEF Remaining
  <2>2. done <=> Len(rest) = 0
    BY <1>6, EmptySeq
  <2>3. done <=> n = Len(P)
    BY <1>5, <1>6, <2>1, <2>2
  <2>4. \A i \in 1 .. Len(rest) : rest[i] = P[i + (n + 1) - 1]
    <3> SUFFICES ASSUME NEW i \in 1 .. Len(rest) PROVE rest[i] = P[i + (n + 1) - 1]
      OBVIOUS
    <3>1. i \in Nat /\ i + 1 \in 1 .. Len(up.todo) /\ (i + 1) + n - 1 = i + (n + 1) - 1
      BY <1>5, <1>6, <2>1
    <3>2. rest[i] = up.todo[i + 1] /\ up.todo[i + 1] = P[(i + 1) + n - 1]
      BY <1>3, <1>6, <3>1 DEF Remaining
    <3>3. QED
      BY <3>1, <3>2
  <2> HIDE DEF P
  <2>5. n + 1 \in 1 .. Len(P) + 1 /\ Len(rest) = Len(P) + 1 - (n + 1)
    <3>1. n \in Int /\ 1 <= n /\ n <= Len(P) /\ Len(P) \in Int
      BY <1>5
    <3>2. Len(rest) = Len(P) + 1 - n - 1
      BY <1>6, <2>1
    <3>3. QED
      BY <3>1, <3>2
  <2>6. Remaining(P, n + 1, rest)
    BY <2>4, <2>5 DEF Remaining
  <2>7. QED
    BY <2>3, <2>6
<1> HIDE DEF P, e
<1>11. /\ m \in [Slots -> DeviceStates] /\ m[s] = e /\ \A t \in Slots : t # s => m[t] = up.at[t]
  BY <1>2, <1>4, <1>7
<1>12. devs \in Seq(Slots) /\ (done => Len(devs) = Len(up.devs) + 1 /\ devs[Len(up.devs) + 1] = s)
       /\ (~done => devs = up.devs) /\ \A i \in 1 .. Len(up.devs) : devs[i] = up.devs[i]
  BY <1>2, <1>4
<1> HIDE DEF m, devs
<1>13. (done /\ up.drv # "blk") \in BOOLEAN
  OBVIOUS
<1> DEFINE over == done /\ up.drv # "blk"
<1> HIDE DEF done
<1>13b. over \in BOOLEAN
  BY <1>13
<1>14. /\ up' \in UpStates /\ up'.drv = up.drv /\ up'.left = up.left /\ up'.todo = rest
       /\ up'.at = m /\ up'.devs = devs /\ up'.slot = s /\ (up'.over <=> over)
  <2> HIDE DEF over
  <2>1. up' = [up EXCEPT !.todo = rest, !.at = m, !.devs = devs, !.over = over]
    BY <1>8 DEF over
  <2>2. QED
    BY <1>0, <1>6, <1>11, <1>12, <1>13b, <2>1 DEF UpStates
<1>15. /\ ~up.over /\ s \notin up.left
       /\ up.drv # "blk" => Len(up.devs) = 0
       /\ up.drv = "blk" => /\ \A t \in up.left : s > t
                            /\ \A i \in 1 .. Len(up.devs) : up.devs[i] > s
  BY <1>1 DEF UpInv
<1>16. \A i \in 1 .. Len(devs) : i \in 1 .. Len(up.devs) \/ (done /\ i = Len(up.devs) + 1)
  BY <1>2, <1>12
<1>17. \A i \in 1 .. Len(devs) : Ready(up.drv, m[devs[i]]) /\ devs[i] \notin up.left
  <2> SUFFICES ASSUME NEW i \in 1 .. Len(devs) PROVE Ready(up.drv, m[devs[i]]) /\ devs[i] \notin up.left
    OBVIOUS
  <2>1. CASE i \in 1 .. Len(up.devs)
    <3>1. devs[i] = up.devs[i] /\ up.devs[i] \in Slots /\ up.devs[i] # s
      BY <1>2, <1>12, <2>1
    <3>2. Ready(up.drv, up.at[up.devs[i]]) /\ up.devs[i] \notin up.left
      BY <2>1 DEF UpInv
    <3>3. QED
      BY <1>11, <3>1, <3>2
  <2>2. CASE done /\ i = Len(up.devs) + 1
    <3>1. devs[i] = s /\ Ready(up.drv, e)
      BY <1>9, <1>10, <1>12, <2>2
    <3>2. QED
      BY <1>11, <1>15, <3>1
  <2>3. QED
    BY <1>16, <2>1, <2>2
<1>18. \A t \in Slots : Usable(m[t])
  BY <1>9, <1>11 DEF UpInv
<1>19. \A i, j \in 1 .. Len(devs) : i < j => devs[i] > devs[j]
  <2> SUFFICES ASSUME NEW i \in 1 .. Len(devs), NEW j \in 1 .. Len(devs), i < j PROVE devs[i] > devs[j]
    OBVIOUS
  <2>1. i \in 1 .. Len(up.devs) /\ devs[i] = up.devs[i]
    <3>1. Len(devs) <= Len(up.devs) + 1 /\ Len(devs) \in Int
      BY <1>2, <1>12
    <3>2. i \in 1 .. Len(up.devs)
      BY <1>2, <3>1
    <3>3. QED
      BY <1>12, <3>2
  <2>2. CASE j \in 1 .. Len(up.devs)
    BY <1>12, <2>1, <2>2 DEF UpInv
  <2>3. CASE done /\ j = Len(up.devs) + 1
    <3>1. devs[j] = s /\ up.drv = "blk"
      BY <1>12, <1>15, <2>1, <2>3
    <3>2. QED
      BY <1>15, <2>1, <3>1
  <2>4. QED
    BY <1>16, <2>2, <2>3
<1>20. up.drv # "blk" => Len(devs) <= 1 /\ (~over => Len(devs) = 0)
  BY <1>12, <1>15
<1>21. up.drv = "blk" => \A i \in 1 .. Len(devs), t \in up.left : devs[i] > t
  <2> SUFFICES ASSUME up.drv = "blk", NEW i \in 1 .. Len(devs), NEW t \in up.left PROVE devs[i] > t
    OBVIOUS
  <2>1. CASE i \in 1 .. Len(up.devs)
    BY <1>12, <2>1 DEF UpInv
  <2>2. CASE done /\ i = Len(up.devs) + 1
    BY <1>12, <1>15, <2>2
  <2>3. QED
    BY <1>16, <2>1, <2>2
<1>22. rest # <<>> =>
          /\ s \in Slots /\ s \notin up.left /\ ~over
          /\ up.drv = "blk" => /\ \A t \in up.left : s > t
                               /\ \A i \in 1 .. Len(devs) : devs[i] > s
          /\ \E k \in 1 .. Len(P) : Remaining(P, k, rest) /\ Progress(P, k, m[s])
  <2> SUFFICES ASSUME ~done
               PROVE  /\ s \in Slots /\ s \notin up.left /\ ~over
                      /\ up.drv = "blk" => /\ \A t \in up.left : s > t
                                           /\ \A i \in 1 .. Len(devs) : devs[i] > s
                      /\ \E k \in 1 .. Len(P) : Remaining(P, k, rest) /\ Progress(P, k, m[s])
    BY DEF done
  <2>1. devs = up.devs
    BY <1>12
  <2>2. n + 1 \in 1 .. Len(P)
    BY <1>3, <1>5, <1>10
  <2>3. \E k \in 1 .. Len(P) : Remaining(P, k, rest) /\ Progress(P, k, m[s])
    BY <1>7, <1>10, <1>11, <2>2
  <2>4. QED
    BY <1>2, <1>15, <2>1, <2>3
<1>23. QED
  BY <1>14, <1>17, <1>18, <1>19, <1>20, <1>21, <1>22 DEF UpInv, P

\* A step of the plan fails.
LEMMA FailKeeps == ASSUME UpInv, UpFail PROVE UpInv'
<1>0. up \in UpStates
  BY DEF UpInv
<1> DEFINE s == up.slot
<1>1. up.todo # <<>>
  BY DEF UpFail
<1>2. /\ s \in Slots /\ s \in Nat /\ (\A t \in Slots : t \in Nat)
      /\ \A i \in 1 .. Len(up.devs) : up.devs[i] \in Slots /\ up.devs[i] # s
      /\ Len(up.devs) \in Nat
  BY <1>1, AtWork
<1>3. up.at \in [Slots -> DeviceStates] /\ up.at[s] \in DeviceStates
  BY <1>0, <1>2 DEF UpStates
<1>4. \E d \in DeviceStates :
        /\ up' = [up EXCEPT !.todo = <<>>, !.over = (up.drv # "blk"), !.at = [up.at EXCEPT ![s] = d]]
        /\ Usable(d)
  <2> DEFINE quiet == Head(up.todo) = "ask" \/ (Head(up.todo) = "queues" /\ up.drv \in {"net", "snd"})
  <2> DEFINE d == [status |-> (IF quiet THEN up.at[s].status ELSE {"failed"}), queues |-> up.at[s].queues,
                   posted |-> up.at[s].posted]
  <2> DEFINE over == up.drv # "blk"
  <2> DEFINE mark == IF quiet THEN up.at[s].status ELSE {"failed"}
  <2>1. up' = [up EXCEPT !.todo = <<>>, !.over = over, !.at = [up.at EXCEPT ![s] = [up.at[s] EXCEPT !.status = mark]]]
    BY <1>0, <1>2, <1>3 DEF UpFail, UpStates, DeviceStates
  <2> HIDE DEF quiet, over, mark
  <2>2. [up.at[s] EXCEPT !.status = mark] = [status |-> mark, queues |-> up.at[s].queues, posted |-> up.at[s].posted]
    BY <1>3 DEF DeviceStates
  <2>3. up' = [up EXCEPT !.todo = <<>>, !.over = (up.drv # "blk"), !.at = [up.at EXCEPT ![s] = d]]
    BY <2>1, <2>2 DEF over, mark
  <2>4. d \in DeviceStates
    BY <1>3 DEF DeviceStates, Marks
  <2>5. Usable(d)
    <3>1. Usable(up.at[s])
      BY <1>2 DEF UpInv
    <3>2. CASE quiet
      BY <3>1, <3>2 DEF Usable
    <3>3. CASE ~quiet
      BY <3>3 DEF Usable
    <3>4. QED
      BY <3>2, <3>3
  <2>6. QED
    BY <2>3, <2>4, <2>5
<1>5. PICK d \in DeviceStates :
        /\ up' = [up EXCEPT !.todo = <<>>, !.over = (up.drv # "blk"), !.at = [up.at EXCEPT ![s] = d]]
        /\ Usable(d)
  BY <1>4
<1> DEFINE m == [up.at EXCEPT ![s] = d]
<1>6. m \in [Slots -> DeviceStates] /\ m[s] = d /\ \A t \in Slots : t # s => m[t] = up.at[t]
  BY <1>2, <1>3
<1> HIDE DEF m
<1> DEFINE over == up.drv # "blk"
<1>7. over \in BOOLEAN /\ <<>> \in Seq(UpSteps)
  OBVIOUS
<1>8. /\ up' \in UpStates /\ up'.drv = up.drv /\ up'.left = up.left /\ up'.todo = <<>>
      /\ up'.at = m /\ up'.devs = up.devs
  <2> HIDE DEF over
  <2>1. up' = [up EXCEPT !.todo = <<>>, !.over = over, !.at = m]
    BY <1>5 DEF over, m
  <2>2. QED
    BY <1>0, <1>6, <1>7, <2>1 DEF UpStates
<1>9. \A i \in 1 .. Len(up.devs) : Ready(up.drv, m[up.devs[i]])
  BY <1>2, <1>6 DEF UpInv
<1>10. \A t \in Slots : Usable(m[t])
  BY <1>5, <1>6 DEF UpInv
<1>11. up.drv # "blk" => Len(up.devs) = 0
  BY <1>1 DEF UpInv
<1>12. QED
  BY <1>2, <1>8, <1>9, <1>10, <1>11 DEF UpInv

\* Every step of bringing up keeps the promises to the drivers.
LEMMA UpKeeps == ASSUME UpInv, [UpNext]_up PROVE UpInv'
<1>1. CASE UNCHANGED up
  BY <1>1 DEF UpInv
<1>2. QED
  BY <1>1, ProbeKeeps, StepKeeps, FailKeeps DEF UpNext

\* What is brought up can be used in every state the invariant allows.
LEMMA UpInvSound == ASSUME UpInv PROVE BringUpSound
<1>1. \A i \in 1 .. Len(up.devs) : LET d == up.at[up.devs[i]] IN
        d.status = {"ack", "driver", "features_ok", "driver_ok"} /\ d.queues
        /\ (up.drv \in {"net", "input", "tablet"} => d.posted)
  BY DEF UpInv, Ready
<1>2. \A s \in Slots : "driver_ok" \in up.at[s].status => "features_ok" \in up.at[s].status /\ up.at[s].queues
  BY DEF UpInv, Usable
<1>3. QED
  BY <1>1, <1>2 DEF UpInv, BringUpSound

\* For any size of the queues, any sectors and any slots: a buffer is with the device or with the
\* driver and frames are handled in the order of their arrival, no frame under way is overwritten,
\* a request that returned 0 was served, and what a driver calls ready can be used.
THEOREM DevicesStaySound == VirtioSpec => []DevicesSound
<1>1. rx \in RxStarts /\ [][RxNext]_rx => []RxSound
  <2>1. rx \in RxStarts => RxInv
    BY RxStart
  <2>2. RxInv /\ [RxNext]_rx => RxInv'
    BY RxKeeps
  <2>3. RxInv => RxSound
    BY RxInvSound
  <2>4. QED
    BY <2>1, <2>2, <2>3, PTL
<1>2. tx \in TxStarts /\ [][TxNext]_tx => []TxSound
  <2>1. tx \in TxStarts => TxInv
    BY TxStart
  <2>2. TxInv /\ [TxNext]_tx => TxInv'
    BY TxKeeps
  <2>3. TxInv => TxSound
    BY TxInvSound
  <2>4. QED
    BY <2>1, <2>2, <2>3, PTL
<1>3. rq \in ReqStarts /\ [][ReqNext]_rq => []RequestSound
  <2>1. rq \in ReqStarts => ReqInv
    BY ReqStart
  <2>2. ReqInv /\ [ReqNext]_rq => ReqInv'
    BY ReqKeeps
  <2>3. ReqInv => RequestSound
    BY ReqInvSound
  <2>4. QED
    BY <2>1, <2>2, <2>3, PTL
<1>4. up \in UpStarts /\ [][UpNext]_up => []BringUpSound
  <2>1. up \in UpStarts => UpInv
    BY UpStart
  <2>2. UpInv /\ [UpNext]_up => UpInv'
    BY UpKeeps
  <2>3. UpInv => BringUpSound
    BY UpInvSound
  <2>4. QED
    BY <2>1, <2>2, <2>3, PTL
<1>5. VirtioInit => rx \in RxStarts /\ tx \in TxStarts /\ rq \in ReqStarts /\ up \in UpStarts
  BY DEF VirtioInit
<1>6. RxSound /\ TxSound /\ RequestSound /\ BringUpSound => DevicesSound
  BY DEF DevicesSound
<1>7. QED
  BY <1>1, <1>2, <1>3, <1>4, <1>5, <1>6, PTL DEF VirtioSpec

(***************************************************************************)
(* /tmp: how far a buffer grows.                                           *)
(***************************************************************************)
\* A set of numbers that is not empty has a least element.
LEMMA LeastOf == ASSUME NEW S \in SUBSET Nat, S # {} PROVE \E x \in S : \A y \in S : x <= y
<1>1. PICK x \in S : \A y \in S : ~(y < x)
  BY LeastExists
<1>2. QED
  BY <1>1

\* A set of numbers up to m that is not empty has a greatest element.
LEMMA GreatestOf == ASSUME NEW m \in Nat, NEW S \in SUBSET (0 .. m), S # {} PROVE \E x \in S : \A y \in S : y <= x
<1> DEFINE T == {m - x : x \in S}
<1>1. T \in SUBSET Nat /\ T # {}
  <2>1. \A x \in S : x \in 0 .. m
    OBVIOUS
  <2>2. \A x \in 0 .. m : m - x \in Nat
    OBVIOUS
  <2>3. QED
    BY <2>1, <2>2
<1>2. PICK d \in T : \A e \in T : d <= e
  BY <1>1, LeastOf
<1>3. PICK x \in S : d = m - x
  BY <1>2
<1>4. \A y \in S : m - x <= m - y
  BY <1>2, <1>3
<1>5. \A y \in S : y <= x
  BY <1>4
<1>6. QED
  BY <1>5

\* The doubling from c on, once what follows 2c is known.
Doubling(g, c, need) == IF c >= need THEN c ELSE IF c >= MaxSize \div 2 THEN MaxSize ELSE g[2 * c]
Grows(g, need) == g = [c \in 1 .. 2 * MaxSize |-> Doubling(g, c, need)]

\* Half of the limit.
LEMMA HalfFacts ==
  /\ MaxSize \in Int /\ MaxSize >= 1 /\ MaxSize \div 2 \in Int
  /\ \A c \in Int : c < MaxSize \div 2 => 2 * c < MaxSize
<1>1. MaxSize \in Int /\ MaxSize >= 1
  BY TmpFsAssumption
<1>2. MaxSize \div 2 \in Int /\ 2 * (MaxSize \div 2) <= MaxSize
  BY <1>1
<1>3. QED
  BY <1>1, <1>2

\* The recursion of tmpfs_grow_to has a solution: it is known from n before the last capacity on,
\* for every n.
LEMMA GrowingExists == ASSUME NEW need \in Nat PROVE \E g : Grows(g, need)
<1> DEFINE M == 2 * MaxSize
<1> DEFINE From(n) == {c \in 1 .. M : c > M - n}
<1> DEFINE Known(n, g) == g = [c \in From(n) |-> Doubling(g, c, need)]
<1> DEFINE bad == {n \in 0 .. M : ~ \E g : Known(n, g)}
<1>0. M \in Int /\ M >= 0
  BY HalfFacts
<1>1. bad = {}
  <2> SUFFICES ASSUME bad # {} PROVE FALSE
    OBVIOUS
  <2>1. bad \in SUBSET Nat
    BY <1>0
  <2>2. PICK n \in bad : \A m \in bad : n <= m
    BY <2>1, LeastOf
  <2>3. CASE n = 0
    <3>1. From(0) = {}
      BY <1>0
    <3>2. Known(0, [c \in {} |-> 0])
      BY <3>1
    <3>3. QED
      BY <2>3, <3>2
  <2>4. CASE n # 0
    <3>1. n - 1 \in 0 .. M /\ n - 1 \notin bad /\ n \in 1 .. M
      <4>1. n \in 1 .. M /\ n - 1 \in 0 .. M /\ ~ n <= n - 1
        <5>1. n \in 0 .. M
          BY <2>2
        <5> HIDE DEF M
        <5>2. QED
          BY <1>0, <2>4, <5>1
      <4>2. n - 1 \notin bad
        BY <2>2, <4>1
      <4>3. QED
        BY <4>1, <4>2
    <3>2. PICK g : Known(n - 1, g)
      BY <3>1
    <3> DEFINE x == M - n + 1
    <3> DEFINE h == [c \in From(n) |-> IF c = x THEN Doubling(g, x, need) ELSE g[c]]
    <3>3. x \in 1 .. M /\ \A c : c \in From(n) <=> c \in From(n - 1) \/ c = x
      BY <1>0, <3>1
    <3>4. \A c \in From(n - 1) : c # x /\ h[c] = g[c]
      BY <1>0, <3>1, <3>3
    <3>5. \A c \in From(n) : ~(c >= need) /\ ~(c >= MaxSize \div 2) => 2 * c \in From(n - 1)
      BY <1>0, <3>1, HalfFacts
    <3>6. \A c \in From(n) : Doubling(h, c, need) = Doubling(g, c, need)
      BY <3>4, <3>5 DEF Doubling
    <3>7. \A c \in From(n - 1) : g[c] = Doubling(g, c, need)
      BY <3>2
    <3>8. \A c \in From(n) : h[c] = Doubling(h, c, need)
      BY <3>3, <3>4, <3>6, <3>7
    <3>9. h = [c \in From(n) |-> h[c]]
      OBVIOUS
    <3> HIDE DEF h
    <3>10. Known(n, h)
      BY <3>8, <3>9
    <3>11. QED
      BY <2>2, <3>10
  <2>5. QED
    BY <2>3, <2>4
<1>2. M \in 0 .. M /\ From(M) = 1 .. M
  BY <1>0
<1>3. PICK g : Known(M, g)
  BY <1>1, <1>2
<1>4. QED
  BY <1>2, <1>3 DEF Grows

\* A buffer grows to what is needed, and never beyond the limit.
LEMMA DoubledFacts ==
  ASSUME NEW cap \in 1 .. MaxSize, NEW need \in 0 .. MaxSize
  PROVE  Doubled(cap, need) \in Nat /\ need <= Doubled(cap, need) /\ Doubled(cap, need) <= MaxSize
<1> DEFINE g == CHOOSE f : f = [c \in 1 .. 2 * MaxSize |->
                      IF c >= need THEN c ELSE IF c >= MaxSize \div 2 THEN MaxSize ELSE f[2 * c]]
<1>0. need \in Nat /\ cap \in Nat /\ MaxSize \in Int /\ MaxSize >= 1
  BY HalfFacts
<1>1. Grows(g, need)
  BY <1>0, GrowingExists DEF Grows, Doubling
<1>2. Doubled(cap, need) = g[cap]
  BY DEF Doubled
<1> HIDE DEF g
<1> DEFINE fits(c) == g[c] \in Nat /\ need <= g[c] /\ g[c] <= MaxSize
<1> DEFINE bad == {c \in 1 .. MaxSize : ~ fits(c)}
<1>3. \A c \in 1 .. MaxSize : g[c] = Doubling(g, c, need)
  BY <1>0, <1>1 DEF Grows
<1>4. bad = {}
  <2> SUFFICES ASSUME bad # {} PROVE FALSE
    OBVIOUS
  <2>1. MaxSize \in Nat /\ bad \in SUBSET (0 .. MaxSize)
    BY <1>0
  <2>2. PICK c \in bad : \A d \in bad : d <= c
    BY <2>1, GreatestOf
  <2>3. c \in 1 .. MaxSize /\ ~ fits(c) /\ g[c] = Doubling(g, c, need)
    BY <1>3, <2>2
  <2>4. CASE c >= need
    BY <1>0, <2>3, <2>4 DEF Doubling
  <2>5. CASE ~ c >= need /\ c >= MaxSize \div 2
    BY <1>0, <2>3, <2>5 DEF Doubling
  <2>6. CASE ~ c >= need /\ ~ c >= MaxSize \div 2
    <3>1. 2 * c \in 1 .. MaxSize /\ 2 * c > c
      BY <1>0, <2>3, <2>6, HalfFacts
    <3>2. 2 * c \notin bad
      BY <1>0, <2>2, <2>3, <3>1
    <3>3. fits(2 * c)
      BY <3>1, <3>2
    <3>4. g[c] = g[2 * c]
      BY <2>3, <2>6 DEF Doubling
    <3>5. QED
      BY <2>3, <3>3, <3>4
  <2>7. QED
    BY <2>4, <2>5, <2>6
<1>5. QED
  BY <1>2, <1>4
(***************************************************************************)
(* What the slots hold, what the descriptors stand for, and how both look  *)
(* in the directory of files.                                              *)
(***************************************************************************)
Cells == TValues \union {Blank, Garbage}
SlotStates == [name : TNames \union {Unnamed}, data : Seq(Cells), size : Nat]

\* A file fits into its buffer, which is within the limit, and its name is its own.
SlotsSound(S) ==
    /\ S \in [TSlots -> SlotStates]
    /\ \A s \in TSlots : S[s].name # Unnamed =>
          /\ Len(S[s].data) \in 1 .. MaxSize /\ S[s].size <= Len(S[s].data)
          /\ \A t \in TSlots : S[t].name = S[s].name => t = s

\* A descriptor is of a slot, and of a file there as long as that was not unlinked.
FdsSound(S, T, O) ==
    /\ T \in [TFds -> [slot : TSlots \union {0}, off : Nat]]
    /\ \A f \in TFds : T[f] # Shut =>
          /\ T[f].slot \in TSlots /\ T[f].off < Word
          /\ f \notin O => S[T[f].slot].name # Unnamed
    /\ \A f \in O : f \in TFds /\ T[f] # Shut

TmpInv == SlotsSound(slots) /\ FdsSound(slots, tfds, orphan)

Text(e) == SubSeq(e.data, 1, e.size)
SlotsNamed(S, n) == {s \in TSlots : S[s].name = n}
FileIn(S, n) == IF SlotsNamed(S, n) = {} THEN NoFile ELSE Text(S[Least(SlotsNamed(S, n))])
HandleIn(S, T, O, f) ==
    IF T[f] = Shut THEN NoFd ELSE IF f \in O THEN Dead ELSE [name |-> S[T[f].slot].name, off |-> T[f].off]
Files == [n \in TNames |-> FileIn(slots, n)]
Handles == [f \in TFds |-> HandleIn(slots, tfds, orphan, f)]

\* The contents of a file are a sequence of its size.
LEMMA TextFacts ==
  ASSUME NEW e \in SlotStates, e.size <= Len(e.data)
  PROVE  /\ Text(e) \in Seq(Cells) /\ Len(Text(e)) = e.size /\ e.size \in Nat
         /\ \A i \in 1 .. e.size : Text(e)[i] = e.data[i] /\ e.data[i] \in Cells
<1>1. e.data \in Seq(Cells) /\ e.size \in Nat /\ Len(e.data) \in Nat
  BY DEF SlotStates
<1>2. \A i \in 1 .. e.size : e.data[i] \in Cells
  BY <1>1
<1> DEFINE d == e.data
<1> DEFINE z == e.size
<1>3. z \in Int /\ 1 \in Int /\ \A i \in 1 .. z : d[i] \in Cells
  BY <1>1, <1>2
<1> HIDE DEF d, z
<1>4. /\ SubSeq(d, 1, z) \in Seq(Cells)
      /\ Len(SubSeq(d, 1, z)) = IF 1 <= z THEN z - 1 + 1 ELSE 0
      /\ \A i \in 1 .. z - 1 + 1 : SubSeq(d, 1, z)[i] = d[1 + i - 1]
  BY <1>3, SubSeqProperties
<1>5. z \in Nat /\ \A i \in 1 .. z : i \in 1 .. z - 1 + 1 /\ 1 + i - 1 = i
  BY <1>1, <1>3 DEF z
<1>6. Len(SubSeq(d, 1, z)) = z /\ \A i \in 1 .. z : SubSeq(d, 1, z)[i] = d[i]
  BY <1>4, <1>5
<1>7. QED
  BY <1>1, <1>2, <1>4, <1>6 DEF Text, d, z

\* The file of a name is in its only slot.
LEMMA FileFacts ==
  ASSUME NEW S, SlotsSound(S), NEW s \in TSlots, S[s].name # Unnamed
  PROVE  FileIn(S, S[s].name) = Text(S[s]) /\ SlotsNamed(S, S[s].name) = {s} /\ S[s].name \in TNames
<1>1. SlotsNamed(S, S[s].name) = {s}
  BY DEF SlotsNamed, SlotsSound
<1>2. Least({s}) = s
  <2>1. s \in Nat
    BY TmpFsAssumption
  <2>2. \A x \in {s} : \A t \in {s} : x <= t
    BY <2>1
  <2>3. QED
    BY <2>2 DEF Least
<1>3. S[s].name \in TNames
  BY DEF SlotsSound, SlotStates
<1>4. QED
  BY <1>1, <1>2, <1>3 DEF FileIn

\* A change of the slot of one name leaves the files of the others.
LEMMA OthersStay ==
  ASSUME NEW S, NEW U, SlotsSound(S), SlotsSound(U), NEW n,
         \A t \in TSlots : S[t].name # n \/ U[t].name # n =>
            U[t] = S[t] \/ (S[t].name \in {n, Unnamed} /\ U[t].name \in {n, Unnamed})
  PROVE  \A m \in TNames : m # n => FileIn(U, m) = FileIn(S, m)
<1> SUFFICES ASSUME NEW m \in TNames, m # n PROVE FileIn(U, m) = FileIn(S, m)
  OBVIOUS
<1>1. m # Unnamed
  BY NamesAssumption
<1>2. \A t \in TSlots : U[t].name = m <=> S[t].name = m
  BY <1>1
<1>3. SlotsNamed(U, m) = SlotsNamed(S, m)
  BY <1>2 DEF SlotsNamed
<1>4. CASE SlotsNamed(S, m) = {}
  BY <1>3, <1>4 DEF FileIn
<1>5. CASE SlotsNamed(S, m) # {}
  <2>1. PICK t \in TSlots : S[t].name = m
    BY <1>5 DEF SlotsNamed
  <2>2. U[t].name = m /\ U[t] = S[t]
    BY <1>1, <1>2, <2>1
  <2>3. FileIn(S, m) = Text(S[t]) /\ FileIn(U, m) = Text(U[t])
    BY <1>1, <2>1, <2>2, FileFacts
  <2>4. QED
    BY <2>2, <2>3
<1>6. QED
  BY <1>4, <1>5

(***************************************************************************)
(* The steps of the directory, from what they do to its two functions.     *)
(***************************************************************************)
\* A file is opened.
LEMMA StoreOpens ==
  ASSUME NEW n \in TNames, NEW f \in TFds, Handles[f] = NoFd, readout' = <<>>,
         NEW s \in {<<>>, Files[n]} \ {NoFile}, Files' = [Files EXCEPT ![n] = s],
         NEW p \in {0, Len(s)}, Handles' = [Handles EXCEPT ![f] = [name |-> n, off |-> p]]
  PROVE  Store!Next
<1>1. Store!Open(n, f)
  BY DEF Store!Open, Files, Handles, FileIn, HandleIn, SlotsNamed, Text, Lookup
<1>2. QED
  BY <1>1 DEF Store!Next
\* What a write of k times b at p makes of the file s.
Written(s, p, b, k) ==
    [i \in 1 .. IF p + k > Len(s) THEN p + k ELSE Len(s) |->
        IF i \in p + 1 .. p + k THEN b ELSE IF i <= Len(s) THEN s[i] ELSE Blank]

\* A chunk is written.
LEMMA StoreWrites ==
  ASSUME NEW f \in TFds, NEW v \in TValues, NEW k \in 1 .. 2, Handles[f] \notin {NoFd, Dead}, readout' = <<>>,
         Files' = [Files EXCEPT ![Handles[f].name] = Written(Files[Handles[f].name], Handles[f].off, v, k)],
         Handles' = [Handles EXCEPT ![f].off = Handles[f].off + k]
  PROVE  Store!Next
<1>1. Store!Write(f, v, k)
  BY DEF Store!Write, Store!Usable, Store!Contents, Written, Files, Handles, FileIn, HandleIn, SlotsNamed, Text, Lookup
<1>2. k \in 0 .. Word + MaxSize
  BY TmpFsAssumption
<1>3. QED
  BY <1>1, <1>2 DEF Store!Next

\* The rest of a file is read.
LEMMA StoreReads ==
  ASSUME NEW f \in TFds, Handles[f] \notin {NoFd, Dead}, Files' = Files,
         readout' = SubSeq(Files[Handles[f].name], Handles[f].off + 1, Len(Files[Handles[f].name])),
         Handles' = [Handles EXCEPT ![f].off = @ + Len(readout')]
  PROVE  Store!Next
<1>1. Store!Read(f)
  BY DEF Store!Read, Store!Usable, Store!Contents, Files, Handles, FileIn, HandleIn, SlotsNamed, Text, Lookup
<1>2. QED
  BY <1>1 DEF Store!Next

\* A position is set.
LEMMA StoreSeeks ==
  ASSUME NEW f \in TFds, Handles[f] \notin {NoFd, Dead}, Files' = Files, readout' = <<>>,
         NEW p \in 0 .. Word + MaxSize, Handles' = [Handles EXCEPT ![f].off = p]
  PROVE  Store!Next
<1>1. Store!Seek(f)
  BY DEF Store!Seek, Store!Usable, Files, Handles, FileIn, HandleIn, SlotsNamed, Text, Lookup
<1>2. QED
  BY <1>1 DEF Store!Next

\* A descriptor is closed.
LEMMA StoreCloses ==
  ASSUME NEW f \in TFds, Files' = Files, readout' = <<>>, Handles' = [Handles EXCEPT ![f] = NoFd]
  PROVE  Store!Next
<1>1. Store!Close(f)
  BY DEF Store!Close, Files, Handles, FileIn, HandleIn, SlotsNamed, Text, Lookup
<1>2. QED
  BY <1>1 DEF Store!Next

\* A name goes, and its descriptors die.
LEMMA StoreUnlinks ==
  ASSUME NEW n \in TNames, readout' = <<>>, Files' = [Files EXCEPT ![n] = NoFile],
         Handles' = [f \in TFds |-> IF Handles[f] \notin {NoFd, Dead} /\ Handles[f].name = n THEN Dead ELSE Handles[f]]
  PROVE  Store!Next
<1>1. Store!Unlink(n)
  BY DEF Store!Unlink, Files, Handles, FileIn, HandleIn, SlotsNamed, Text, Lookup
<1>2. QED
  BY <1>1 DEF Store!Next

\* A call fails.
LEMMA StoreFails == ASSUME readout' = <<>>, Files' = Files, Handles' = Handles PROVE Store!Next
<1>1. Store!Fail
  BY DEF Store!Fail, Files, Handles, FileIn, HandleIn, SlotsNamed, Text, Lookup
<1>2. QED
  BY <1>1 DEF Store!Next
(***************************************************************************)
(* The steps of /tmp.                                                      *)
(***************************************************************************)
\* A usable descriptor is of a named slot, and looks so in the directory.
LEMMA OpenedFacts ==
  ASSUME TmpInv, ~StaleUse, NEW f \in TFds, Opened(f)
  PROVE  LET s == tfds[f].slot
         IN  /\ s \in TSlots /\ slots[s].name # Unnamed /\ slots[s].name \in TNames
             /\ tfds[f] # Shut /\ f \notin orphan /\ tfds[f].off \in Nat /\ tfds[f].off < Word
             /\ slots[s] \in SlotStates /\ slots[s].size <= Len(slots[s].data)
             /\ Len(slots[s].data) \in 1 .. MaxSize
             /\ Handles[f] = [name |-> slots[s].name, off |-> tfds[f].off]
             /\ Handles[f] \notin {NoFd, Dead}
             /\ Files[slots[s].name] = Text(slots[s])
<1> DEFINE s == tfds[f].slot
<1>1. tfds[f] # Shut /\ f \notin orphan
  BY DEF Opened
<1>2. s \in TSlots /\ tfds[f].off < Word /\ slots[s].name # Unnamed /\ tfds[f].off \in Nat
  BY <1>1 DEF TmpInv, FdsSound
<1>3. slots[s] \in SlotStates /\ slots[s].size <= Len(slots[s].data) /\ Len(slots[s].data) \in 1 .. MaxSize
  BY <1>2 DEF TmpInv, SlotsSound
<1>4. Handles[f] = [name |-> slots[s].name, off |-> tfds[f].off]
  BY <1>1 DEF Handles, HandleIn
<1>5. FileIn(slots, slots[s].name) = Text(slots[s]) /\ slots[s].name \in TNames
  BY <1>2, FileFacts DEF TmpInv
<1>6. tfds[f].off \in 0 .. Word
  BY <1>2, TmpFsAssumption
<1>7. Handles[f] \notin {NoFd, Dead}
  BY <1>4, <1>5, <1>6, StoreAssumption
<1>8. QED
  BY <1>1, <1>2, <1>3, <1>4, <1>5, <1>7 DEF Files

\* A descriptor moves to another position.
LEMMA Moves ==
  ASSUME TmpInv, ~StaleUse, NEW f \in TFds, Opened(f), NEW p \in Nat, p < Word,
         tfds' = [tfds EXCEPT ![f].off = p], orphan' = orphan,
         \A s \in TSlots : slots'[s].name = slots[s].name
  PROVE  FdsSound(slots', tfds', orphan') /\ Handles' = [Handles EXCEPT ![f].off = p]
<1>1. tfds \in [TFds -> [slot : TSlots \union {0}, off : Nat]]
  BY DEF TmpInv, FdsSound
<1>2. tfds[f].slot \in TSlots /\ tfds[f] # Shut /\ f \notin orphan
  BY OpenedFacts
<1>3. /\ tfds' \in [TFds -> [slot : TSlots \union {0}, off : Nat]]
      /\ tfds'[f].slot = tfds[f].slot /\ tfds'[f].off = p
      /\ \A g \in TFds : g # f => tfds'[g] = tfds[g]
  BY <1>1
<1>4. tfds'[f] # Shut
  BY <1>2, <1>3, TmpFsAssumption DEF Shut
<1>5. FdsSound(slots', tfds', orphan')
  BY <1>2, <1>3, <1>4 DEF TmpInv, FdsSound
<1>6. Handles'[f] = [name |-> slots[tfds[f].slot].name, off |-> p]
  BY <1>2, <1>3, <1>4 DEF Handles, HandleIn
<1>7. Handles[f] = [name |-> slots[tfds[f].slot].name, off |-> tfds[f].off]
  BY <1>2 DEF Handles, HandleIn
<1>8. [Handles EXCEPT ![f].off = p][f] = [Handles[f] EXCEPT !.off = p]
  BY DEF Handles
<1>9. \A g \in TFds : g # f => Handles'[g] = Handles[g]
  <2> SUFFICES ASSUME NEW g \in TFds, g # f PROVE Handles'[g] = Handles[g]
    OBVIOUS
  <2>1. CASE tfds[g] = Shut \/ g \in orphan
    BY <1>3, <2>1 DEF Handles, HandleIn
  <2>2. CASE tfds[g] # Shut /\ g \notin orphan
    <3>1. tfds[g].slot \in TSlots
      BY <2>2 DEF TmpInv, FdsSound
    <3>2. QED
      BY <1>3, <2>2, <3>1 DEF Handles, HandleIn
  <2>3. QED
    BY <2>1, <2>2
<1>10. Handles' = [g \in TFds |-> Handles'[g]] /\ Handles = [g \in TFds |-> Handles[g]]
  BY DEF Handles
<1>11. \A g \in TFds : [Handles EXCEPT ![f].off = p][g] = Handles'[g]
  BY <1>6, <1>7, <1>8, <1>9, <1>10
<1>12. QED
  BY <1>5, <1>10, <1>11

\* The rest of a file, from its contents as from its buffer.
LEMMA RestOf ==
  ASSUME NEW e \in SlotStates, e.size <= Len(e.data), NEW o \in Nat
  PROVE  /\ SubSeq(e.data, o + 1, e.size) = SubSeq(Text(e), o + 1, Len(Text(e)))
         /\ Len(SubSeq(e.data, o + 1, e.size)) \in Nat
         /\ o + Len(SubSeq(e.data, o + 1, e.size)) \in {o, e.size}
<1>1. Text(e) \in Seq(Cells) /\ Len(Text(e)) = e.size /\ e.size \in Nat
      /\ \A i \in 1 .. e.size : Text(e)[i] = e.data[i] /\ e.data[i] \in Cells
  BY TextFacts
<1> DEFINE d == e.data
<1> DEFINE z == e.size
<1> DEFINE t == Text(e)
<1>2. z \in Int /\ o + 1 \in Int /\ z \in Nat
  BY <1>1
<1>3. \A i \in o + 1 .. z : d[i] \in Cells /\ t[i] \in Cells /\ t[i] = d[i]
  BY <1>1
<1>4. Len(t) = z
  BY <1>1
<1> HIDE DEF d, z, t
<1>5. /\ SubSeq(d, o + 1, z) \in Seq(Cells)
      /\ Len(SubSeq(d, o + 1, z)) = IF o + 1 <= z THEN z - (o + 1) + 1 ELSE 0
      /\ \A i \in 1 .. z - (o + 1) + 1 : SubSeq(d, o + 1, z)[i] = d[o + 1 + i - 1]
  BY <1>2, <1>3, SubSeqProperties
<1>6. /\ SubSeq(t, o + 1, z) \in Seq(Cells)
      /\ Len(SubSeq(t, o + 1, z)) = IF o + 1 <= z THEN z - (o + 1) + 1 ELSE 0
      /\ \A i \in 1 .. z - (o + 1) + 1 : SubSeq(t, o + 1, z)[i] = t[o + 1 + i - 1]
  BY <1>2, <1>3, SubSeqProperties
<1>7. \A i \in 1 .. z - (o + 1) + 1 : o + 1 + i - 1 \in o + 1 .. z
  BY <1>2
<1>8. \A i \in 1 .. Len(SubSeq(d, o + 1, z)) : SubSeq(t, o + 1, z)[i] = SubSeq(d, o + 1, z)[i]
  BY <1>2, <1>3, <1>5, <1>6, <1>7
<1>9. SubSeq(d, o + 1, z) = SubSeq(t, o + 1, z)
  BY <1>5, <1>6, <1>8, SeqEqual
<1>10. Len(SubSeq(d, o + 1, z)) \in Nat /\ o + Len(SubSeq(d, o + 1, z)) \in {o, z}
  BY <1>2, <1>5
<1>11. QED
  BY <1>4, <1>9, <1>10 DEF d, z, t

\* A read.
LEMMA ReadFileStep ==
  ASSUME TmpInv, ~StaleUse, NEW f \in TFds, ReadFile(f)
  PROVE  TmpInv' /\ Store!Next
<1> DEFINE s == tfds[f].slot
<1> DEFINE p == tfds[f].off + Len(readout')
<1>1. /\ Opened(f) /\ slots' = slots /\ orphan' = orphan
      /\ readout' = SubSeq(slots[s].data, tfds[f].off + 1, slots[s].size)
      /\ tfds' = [tfds EXCEPT ![f].off = p]
  BY DEF ReadFile
<1>2. /\ s \in TSlots /\ slots[s].name \in TNames /\ tfds[f].off \in Nat /\ tfds[f].off < Word
      /\ slots[s] \in SlotStates /\ slots[s].size <= Len(slots[s].data) /\ Len(slots[s].data) \in 1 .. MaxSize
      /\ Handles[f] = [name |-> slots[s].name, off |-> tfds[f].off]
      /\ Handles[f] \notin {NoFd, Dead} /\ Files[slots[s].name] = Text(slots[s])
  BY <1>1, OpenedFacts
<1>3. /\ readout' = SubSeq(Text(slots[s]), tfds[f].off + 1, Len(Text(slots[s])))
      /\ Len(readout') \in Nat /\ p \in {tfds[f].off, slots[s].size}
  BY <1>1, <1>2, RestOf
<1>4. slots[s].size \in Nat /\ slots[s].size < Word
  BY <1>2, TmpFsAssumption DEF SlotStates
<1> HIDE DEF p
<1>5. p \in Nat /\ p < Word
  BY <1>2, <1>3, <1>4
<1>6. FdsSound(slots', tfds', orphan') /\ Handles' = [Handles EXCEPT ![f].off = p]
  BY <1>1, <1>5, Moves
<1>7. TmpInv'
  BY <1>1, <1>6 DEF TmpInv
<1>8. Files' = Files
  BY <1>1 DEF Files, FileIn, SlotsNamed
<1>9. Handles' = [Handles EXCEPT ![f].off = @ + Len(readout')]
  <2>1. p = Handles[f].off + Len(readout')
    BY <1>2 DEF p
  <2>2. QED
    BY <1>6, <2>1
<1>10. readout' = SubSeq(Files[Handles[f].name], Handles[f].off + 1, Len(Files[Handles[f].name]))
  <2>1. Handles[f].name = slots[s].name /\ Handles[f].off = tfds[f].off
    BY <1>2
  <2>2. QED
    BY <1>2, <1>3, <2>1
<1>11. QED
  BY <1>2, <1>7, <1>8, <1>9, <1>10, StoreReads

\* A seek.
LEMMA SeekFileStep ==
  ASSUME TmpInv, ~StaleUse, \A q \in Seeks : q < Word, NEW f \in TFds, SeekFile(f)
  PROVE  TmpInv' /\ Store!Next
<1> DEFINE s == tfds[f].slot
<1>1. PICK p \in Seeks \union {slots[s].size} : tfds' = [tfds EXCEPT ![f].off = p]
  BY DEF SeekFile
<1>2. Opened(f) /\ slots' = slots /\ orphan' = orphan /\ readout' = <<>>
  BY DEF SeekFile
<1>3. slots[s] \in SlotStates /\ slots[s].size <= Len(slots[s].data) /\ Len(slots[s].data) \in 1 .. MaxSize
      /\ Handles[f] \notin {NoFd, Dead}
  BY <1>2, OpenedFacts
<1>4. slots[s].size \in Nat /\ slots[s].size < Word
  BY <1>3, TmpFsAssumption DEF SlotStates
<1>5. p \in Nat /\ p < Word /\ p \in 0 .. Word + MaxSize
  BY <1>4, TmpFsAssumption
<1>6. FdsSound(slots', tfds', orphan') /\ Handles' = [Handles EXCEPT ![f].off = p]
  BY <1>1, <1>2, <1>5, Moves
<1>7. TmpInv'
  BY <1>2, <1>6 DEF TmpInv
<1>8. Files' = Files
  BY <1>2 DEF Files, FileIn, SlotsNamed
<1>9. QED
  BY <1>2, <1>3, <1>5, <1>6, <1>7, <1>8, StoreSeeks
\* A buffer with room for what is needed still has what is in use.
LEMMA RoomyFacts ==
  ASSUME NEW e \in SlotStates, e.size <= Len(e.data), Len(e.data) \in 1 .. MaxSize, NEW need \in 0 .. MaxSize
  PROVE  /\ Roomy(e, need) \in Seq(Cells) /\ Len(Roomy(e, need)) \in 1 .. MaxSize
         /\ need <= Len(Roomy(e, need)) /\ e.size <= Len(Roomy(e, need))
         /\ \A i \in 1 .. e.size : Roomy(e, need)[i] = e.data[i]
<1>1. e.data \in Seq(Cells) /\ e.size \in Nat /\ Len(e.data) \in Nat
  BY DEF SlotStates
<1>2. CASE need <= Len(e.data)
  BY <1>1, <1>2 DEF Roomy
<1>3. CASE ~ need <= Len(e.data)
  <2> DEFINE L == Doubled(Len(e.data), need)
  <2> DEFINE R == [i \in 1 .. L |-> IF i <= e.size THEN e.data[i] ELSE Garbage]
  <2>1. L \in Nat /\ need <= L /\ L <= MaxSize
    BY DoubledFacts
  <2>2. Roomy(e, need) = R
    BY <1>3 DEF Roomy
  <2> HIDE DEF L
  <2>3. \A i \in 1 .. L : (IF i <= e.size THEN e.data[i] ELSE Garbage) \in Cells
    BY <1>1, <2>1 DEF Cells
  <2>4. R \in Seq(Cells) /\ Len(R) = L
    BY <2>1, <2>3
  <2>5. e.size <= L /\ L \in 1 .. MaxSize
    BY <1>1, <1>3, <2>1
  <2>6. \A i \in 1 .. e.size : R[i] = e.data[i]
    BY <1>1, <2>1, <2>5
  <2>7. QED
    BY <2>1, <2>2, <2>4, <2>5, <2>6
<1>4. QED
  BY <1>2, <1>3

\* The entry of a file after a chunk was written at off.
Room(e, off, k) == Filled(Roomy(e, off + k), e.size, off)
Chunk(room, off, v, k) == [i \in DOMAIN room |-> IF i \in off + 1 .. off + k THEN v ELSE room[i]]
Chunked(e, off, v, k) ==
    [name |-> e.name, data |-> Chunk(Room(e, off, k), off, v, k), size |-> IF off + k > e.size THEN off + k ELSE e.size]

\* A chunk in a buffer is a write to the contents.
LEMMA ChunkFacts ==
  ASSUME NEW e \in SlotStates, e.size <= Len(e.data), Len(e.data) \in 1 .. MaxSize,
         NEW off \in Nat, NEW k \in 1 .. 2, off + k <= MaxSize, NEW v \in TValues
  PROVE  LET u == Chunked(e, off, v, k)
         IN  /\ u \in SlotStates /\ u.name = e.name /\ Len(u.data) \in 1 .. MaxSize /\ u.size <= Len(u.data)
             /\ Text(u) = Written(Text(e), off, v, k)
<1> DEFINE room == Room(e, off, k)
<1> DEFINE d == Chunk(room, off, v, k)
<1> DEFINE end == IF off + k > e.size THEN off + k ELSE e.size
<1> DEFINE u == Chunked(e, off, v, k)
<1>0. u = [name |-> e.name, data |-> d, size |-> end]
  BY DEF Chunked
<1> DEFINE R == Roomy(e, off + k)
<1> DEFINE t == Text(e)
<1> DEFINE z == e.size
<1>1. off + k \in 0 .. MaxSize
  BY TmpFsAssumption
<1>2. /\ R \in Seq(Cells) /\ Len(R) \in 1 .. MaxSize /\ off + k <= Len(R) /\ z <= Len(R)
      /\ \A i \in 1 .. z : R[i] = e.data[i]
  BY <1>1, RoomyFacts
<1>3. t \in Seq(Cells) /\ Len(t) = z /\ z \in Nat /\ \A i \in 1 .. z : t[i] = e.data[i]
  BY TextFacts
<1>4. room = [i \in DOMAIN R |-> IF i \in z + 1 .. off THEN Blank ELSE R[i]]
  BY DEF Filled, Room
<1> HIDE DEF R, t, z, room
<1>5. DOMAIN R = 1 .. Len(R) /\ Len(R) \in Nat
  BY <1>2
<1>6. d = [i \in 1 .. Len(R) |-> IF i \in off + 1 .. off + k THEN v ELSE IF i \in z + 1 .. off THEN Blank ELSE R[i]]
  BY <1>4, <1>5 DEF Chunk
<1>7. \A i \in 1 .. Len(R) : R[i] \in Cells
  BY <1>2
<1>8. d \in Seq(Cells) /\ Len(d) = Len(R)
  BY <1>5, <1>6, <1>7 DEF Cells
<1>9. end = (IF off + k > z THEN off + k ELSE z) /\ end \in Nat /\ end <= Len(R)
  BY <1>2, <1>3 DEF z
<1> HIDE DEF d, end, u
<1>10. u \in SlotStates /\ u.name = e.name /\ u.data = d /\ u.size = end /\ u.size <= Len(u.data)
  BY <1>0, <1>8, <1>9 DEF SlotStates
<1>11. Text(u) \in Seq(Cells) /\ Len(Text(u)) = end /\ \A i \in 1 .. end : Text(u)[i] = d[i]
  <2>1. /\ Text(u) \in Seq(Cells) /\ Len(Text(u)) = u.size
        /\ \A i \in 1 .. u.size : Text(u)[i] = u.data[i]
    BY <1>10, TextFacts
  <2>2. u.size = end /\ u.data = d
    BY <1>10
  <2>3. QED
    BY <2>1, <2>2
<1> DEFINE W == [i \in 1 .. end |-> IF i \in off + 1 .. off + k THEN v ELSE IF i <= z THEN t[i] ELSE Blank]
<1>12. Written(t, off, v, k) = W
  BY <1>3, <1>9 DEF Written
<1>13. \A i \in 1 .. end : W[i] = d[i]
  <2> SUFFICES ASSUME NEW i \in 1 .. end PROVE W[i] = d[i]
    OBVIOUS
  <2>1. i \in 1 .. Len(R) /\ i \in Int
    BY <1>5, <1>9
  <2>2. CASE i \in off + 1 .. off + k
    BY <1>6, <2>1, <2>2
  <2>3. CASE i \notin off + 1 .. off + k /\ i <= z
    <3>1. t[i] = R[i] /\ i \notin z + 1 .. off
      BY <1>2, <1>3, <2>1, <2>3 DEF z
    <3>2. W[i] = t[i]
      BY <2>3
    <3>3. d[i] = R[i]
      BY <1>6, <2>1, <2>3, <3>1
    <3>4. QED
      BY <3>1, <3>2, <3>3
  <2>4. CASE i \notin off + 1 .. off + k /\ ~ i <= z
    <3>1. i \in z + 1 .. off
      BY <1>3, <1>9, <2>1, <2>4
    <3>2. W[i] = Blank
      BY <2>4
    <3>3. d[i] = Blank
      BY <1>6, <2>1, <2>4, <3>1
    <3>4. QED
      BY <3>2, <3>3
  <2>5. QED
    BY <2>2, <2>3, <2>4
<1>14. Text(u) = [i \in 1 .. end |-> Text(u)[i]]
  BY <1>9, <1>11
<1>15. Text(u) = W
  BY <1>11, <1>13, <1>14
<1>16. QED
  BY <1>2, <1>8, <1>10, <1>12, <1>15 DEF t, u

\* The files after a step that changed at most one of them.
LEMMA FilesWith ==
  ASSUME SlotsSound(slots), SlotsSound(slots'), NEW n \in TNames,
         \A t \in TSlots : slots[t].name # n \/ slots'[t].name # n =>
            slots'[t] = slots[t] \/ (slots[t].name \in {n, Unnamed} /\ slots'[t].name \in {n, Unnamed})
  PROVE  Files' = [Files EXCEPT ![n] = FileIn(slots', n)]
<1>1. \A m \in TNames : m # n => FileIn(slots', m) = FileIn(slots, m)
  BY OthersStay
<1>2. Files' = [m \in TNames |-> FileIn(slots', m)]
  BY DEF Files
<1>3. \A m \in TNames : Files[m] = FileIn(slots, m)
  BY DEF Files
<1>4. Files = [m \in TNames |-> Files[m]]
  BY DEF Files
<1>5. \A m \in TNames : [Files EXCEPT ![n] = FileIn(slots', n)][m] = FileIn(slots', m)
  BY <1>1, <1>3, <1>4
<1>6. QED
  BY <1>2, <1>4, <1>5
\* A write.
LEMMA WriteChunkStep ==
  ASSUME TmpInv, ~StaleUse, NEW f \in TFds, NEW v \in TValues, NEW k \in 1 .. 2, WriteChunk(f, v, k)
  PROVE  TmpInv' /\ Store!Next
<1> DEFINE s == tfds[f].slot
<1> DEFINE off == tfds[f].off
<1> DEFINE e == slots[s]
<1> DEFINE u == Chunked(e, off, v, k)
<1>1. Opened(f)
  BY DEF WriteChunk
<1>2. /\ s \in TSlots /\ e.name # Unnamed /\ e.name \in TNames /\ off \in Nat /\ off < Word
      /\ e \in SlotStates /\ e.size <= Len(e.data) /\ Len(e.data) \in 1 .. MaxSize
      /\ Handles[f] = [name |-> e.name, off |-> off]
      /\ Handles[f] \notin {NoFd, Dead} /\ Files[e.name] = Text(e)
  BY <1>1, OpenedFacts
<1>3. off % Word = off
  BY <1>2, TmpFsAssumption
<1>4. /\ off + k <= MaxSize /\ readout' = <<>> /\ orphan' = orphan
      /\ tfds' = [tfds EXCEPT ![f].off = @ + k]
      /\ slots' = [slots EXCEPT ![s].data = u.data, ![s].size = u.size]
  BY <1>3 DEF WriteChunk, Chunked, Chunk, Room
<1>5. tfds' = [tfds EXCEPT ![f].off = off + k]
  BY <1>4
<1>6. off + k \in Nat /\ off + k < Word /\ off + k \in 0 .. MaxSize
  BY <1>2, <1>4, TmpFsAssumption
<1>7. /\ u \in SlotStates /\ u.name = e.name /\ Len(u.data) \in 1 .. MaxSize /\ u.size <= Len(u.data)
      /\ Text(u) = Written(Text(e), off, v, k)
  <2> HIDE DEF e, off
  <2>1. QED
    BY <1>2, <1>4, ChunkFacts
<1> HIDE DEF u
<1>10. slots'[s] = u /\ slots' \in [TSlots -> SlotStates] /\ \A t \in TSlots : t # s => slots'[t] = slots[t]
  <2>1. slots \in [TSlots -> SlotStates]
    BY DEF TmpInv, SlotsSound
  <2>2. slots'[s] = u
    BY <1>2, <1>4, <1>7, <2>1 DEF SlotStates
  <2>3. \A t \in TSlots : t # s => slots'[t] = slots[t]
    BY <1>2, <1>4, <2>1
  <2>4. slots' = [t \in TSlots |-> slots'[t]]
    BY <1>4, <2>1
  <2>5. \A t \in TSlots : slots'[t] \in SlotStates
    BY <1>7, <2>1, <2>2, <2>3
  <2>6. QED
    BY <2>2, <2>3, <2>4, <2>5
<1>11. \A t \in TSlots : slots'[t].name = slots[t].name
  BY <1>7, <1>10
<1>12. SlotsSound(slots')
  BY <1>7, <1>10, <1>11 DEF TmpInv, SlotsSound
<1>13. FdsSound(slots', tfds', orphan') /\ Handles' = [Handles EXCEPT ![f].off = off + k]
  <2> HIDE DEF off
  <2>1. QED
    BY <1>1, <1>4, <1>5, <1>6, <1>11, Moves
<1>14. FileIn(slots', e.name) = Written(Text(e), off, v, k)
  <2>1. slots'[s].name = e.name /\ slots'[s].name # Unnamed
    BY <1>2, <1>7, <1>10
  <2>2. FileIn(slots', slots'[s].name) = Text(slots'[s])
    BY <1>2, <1>12, <2>1, FileFacts
  <2>3. QED
    BY <1>7, <1>10, <2>1, <2>2
<1>15. Files' = [Files EXCEPT ![e.name] = FileIn(slots', e.name)]
  <2>1. \A t \in TSlots : slots[t].name # e.name => t # s
    OBVIOUS
  <2>2. \A t \in TSlots : slots[t].name # e.name \/ slots'[t].name # e.name => slots'[t] = slots[t]
    BY <1>10, <1>11, <2>1
  <2>3. SlotsSound(slots)
    BY DEF TmpInv
  <2>4. \A t \in TSlots : slots[t].name # e.name \/ slots'[t].name # e.name =>
           slots'[t] = slots[t] \/ (slots[t].name \in {e.name, Unnamed} /\ slots'[t].name \in {e.name, Unnamed})
    BY <2>2
  <2>5. e.name \in TNames
    BY <1>2
  <2> DEFINE n == e.name
  <2> HIDE DEF e, n
  <2>6. QED
    BY <1>12, <2>3, <2>4, <2>5, FilesWith DEF n
<1>16. Handles[f].name = e.name /\ Handles[f].off = off
  BY <1>2
<1>17. Files' = [Files EXCEPT ![Handles[f].name] = Written(Files[Handles[f].name], Handles[f].off, v, k)]
  BY <1>2, <1>14, <1>15, <1>16
<1>18. Handles' = [Handles EXCEPT ![f].off = Handles[f].off + k]
  BY <1>13, <1>16
<1>19. Store!Next
  BY <1>2, <1>4, <1>17, <1>18, StoreWrites
<1>20. QED
  BY <1>12, <1>13, <1>19 DEF TmpInv
\* An open: the slot s holds the file u of the name n from now on.
LEMMA OpensTo ==
  ASSUME TmpInv, NEW n \in TNames, NEW f \in TFds, tfds[f] = Shut, orphan' = orphan, readout' = <<>>,
         NEW s \in TSlots, slots[s].name \in {n, Unnamed}, \A t \in TSlots : slots[t].name = n => t = s,
         NEW u \in SlotStates, u.name = n, Len(u.data) \in 1 .. MaxSize, u.size <= Len(u.data),
         u.size = 0 \/ u = slots[s], slots' = [slots EXCEPT ![s] = u],
         NEW p \in {0, u.size}, tfds' = [tfds EXCEPT ![f] = [slot |-> s, off |-> p]]
  PROVE  TmpInv' /\ Store!Next
<1>1. slots \in [TSlots -> SlotStates] /\ tfds \in [TFds -> [slot : TSlots \union {0}, off : Nat]]
  BY DEF TmpInv, SlotsSound, FdsSound
<1>2. slots' \in [TSlots -> SlotStates] /\ slots'[s] = u /\ \A t \in TSlots : t # s => slots'[t] = slots[t]
  BY <1>1
<1>3. n # Unnamed
  BY NamesAssumption
<1>4. SlotsSound(slots) /\ SlotsSound(slots')
  <2>1. SlotsSound(slots)
    BY DEF TmpInv
  <2>2. \A t \in TSlots : slots'[t].name = n => t = s
    BY <1>2
  <2>3. QED
    BY <1>2, <2>1, <2>2 DEF SlotsSound
<1>5. u.size \in Nat /\ u.size < Word
  BY TmpFsAssumption DEF SlotStates
<1>6. p \in Nat /\ p < Word
  BY <1>5, TmpFsAssumption
<1>7. /\ tfds' \in [TFds -> [slot : TSlots \union {0}, off : Nat]]
      /\ tfds'[f] = [slot |-> s, off |-> p] /\ \A g \in TFds : g # f => tfds'[g] = tfds[g]
  BY <1>1, <1>6
<1>8. tfds'[f] # Shut /\ f \notin orphan
  BY <1>7, TmpFsAssumption DEF Shut, TmpInv, FdsSound
<1>9. FdsSound(slots', tfds', orphan')
  <2>1. \A t \in TSlots : slots[t].name # Unnamed => slots'[t].name # Unnamed
    BY <1>2, <1>3
  <2>2. tfds'[f].slot = s /\ tfds'[f].off = p /\ slots'[s].name # Unnamed
    BY <1>2, <1>3, <1>7
  <2>3. \A g \in TFds : tfds'[g] # Shut =>
           tfds'[g].slot \in TSlots /\ tfds'[g].off < Word /\ (g \notin orphan => slots'[tfds'[g].slot].name # Unnamed)
    BY <1>6, <1>7, <2>1, <2>2 DEF TmpInv, FdsSound
  <2>4. \A g \in orphan : g \in TFds /\ tfds'[g] # Shut
    BY <1>7, <1>8 DEF TmpInv, FdsSound
  <2>5. QED
    BY <1>7, <2>3, <2>4 DEF FdsSound
<1>10. FileIn(slots', n) = Text(u)
  BY <1>2, <1>3, <1>4, FileFacts
<1>11. Files' = [Files EXCEPT ![n] = Text(u)]
  <2>1. \A t \in TSlots : slots[t].name # n \/ slots'[t].name # n =>
           slots'[t] = slots[t] \/ (slots[t].name \in {n, Unnamed} /\ slots'[t].name \in {n, Unnamed})
    BY <1>2
  <2>2. Files' = [Files EXCEPT ![n] = FileIn(slots', n)]
    BY <1>4, <2>1, FilesWith
  <2>3. QED
    BY <1>10, <2>2
<1>12. Text(u) \in {<<>>, Files[n]} \ {NoFile} /\ Len(Text(u)) = u.size
  <2>1. Text(u) \in Seq(Cells) /\ Len(Text(u)) = u.size
    BY TextFacts
  <2>2. Text(u) # NoFile
    BY <2>1, StoreAssumption DEF Cells
  <2>3. CASE u.size = 0
    BY <2>1, <2>2, <2>3, EmptySeq
  <2>4. CASE u = slots[s]
    <3>1. slots[s].name = n /\ slots[s].name # Unnamed
      BY <1>3, <2>4
    <3>2. FileIn(slots, slots[s].name) = Text(slots[s])
      BY <1>4, <3>1, FileFacts
    <3>3. Files[n] = Text(u)
      BY <2>4, <3>1, <3>2 DEF Files
    <3>4. QED
      BY <2>1, <2>2, <3>3
  <2>5. QED
    BY <2>3, <2>4
<1>13. Handles' = [Handles EXCEPT ![f] = [name |-> n, off |-> p]]
  <2>1. Handles'[f] = [name |-> n, off |-> p]
    BY <1>2, <1>7, <1>8 DEF Handles, HandleIn
  <2>2. \A g \in TFds : g # f => Handles'[g] = Handles[g]
    <3> SUFFICES ASSUME NEW g \in TFds, g # f PROVE Handles'[g] = Handles[g]
      OBVIOUS
    <3>1. CASE tfds[g] = Shut \/ g \in orphan
      BY <1>7, <3>1 DEF Handles, HandleIn
    <3>2. CASE tfds[g] # Shut /\ g \notin orphan
      <4>1. tfds[g].slot \in TSlots /\ slots[tfds[g].slot].name # Unnamed
        BY <3>2 DEF TmpInv, FdsSound
      <4>2. slots'[tfds[g].slot].name = slots[tfds[g].slot].name
        BY <1>2, <4>1
      <4>3. QED
        BY <1>7, <3>2, <4>2 DEF Handles, HandleIn
    <3>3. QED
      BY <3>1, <3>2
  <2>3. Handles' = [g \in TFds |-> Handles'[g]] /\ Handles = [g \in TFds |-> Handles[g]]
    BY DEF Handles
  <2>4. QED
    BY <2>1, <2>2, <2>3
<1>14. Handles[f] = NoFd
  BY DEF Handles, HandleIn
<1>15. p \in {0, Len(Text(u))}
  BY <1>12
<1>16. Store!Next
  BY <1>11, <1>12, <1>13, <1>14, <1>15, StoreOpens
<1>17. QED
  BY <1>4, <1>9, <1>16 DEF TmpInv

\* The slot of a name that is there.
LEMMA LookupFacts ==
  ASSUME TmpInv, NEW n \in TNames, Lookup(n) # {}
  PROVE  /\ Least(Lookup(n)) \in TSlots /\ slots[Least(Lookup(n))].name = n
         /\ Lookup(n) = {Least(Lookup(n))}
<1>1. PICK s \in TSlots : slots[s].name = n
  BY DEF Lookup
<1>2. Lookup(n) = {s}
  BY <1>1, FileFacts, NamesAssumption DEF TmpInv, Lookup, SlotsNamed
<1>3. Least({s}) = s
  <2>1. s \in Nat
    BY TmpFsAssumption
  <2>2. \A x \in {s} : \A t \in {s} : x <= t
    BY <2>1
  <2>3. QED
    BY <2>2 DEF Least
<1>4. QED
  BY <1>1, <1>2, <1>3

\* An open of a file that is there, or of a new one.
LEMMA OpenFileStep ==
  ASSUME TmpInv, NEW n \in TNames, NEW f \in TFds, NEW c \in BOOLEAN, NEW a \in BOOLEAN, OpenFile(n, f, c, a)
  PROVE  TmpInv' /\ Store!Next
<1>0. slots \in [TSlots -> SlotStates] /\ n # Unnamed
  BY NamesAssumption DEF TmpInv, SlotsSound
<1>1. tfds[f] = Shut /\ orphan' = orphan /\ readout' = <<>>
  BY DEF OpenFile
<1>2. CASE Lookup(n) # {}
  <2> DEFINE s == Least(Lookup(n))
  <2> DEFINE u == slots'[s]
  <2>1. s \in TSlots /\ slots[s].name = n /\ Lookup(n) = {s}
    BY <1>2, LookupFacts
  <2>2. slots' = (IF c /\ ~a THEN [slots EXCEPT ![s].size = 0] ELSE slots)
    BY <1>2 DEF OpenFile
  <2>3. tfds' = [tfds EXCEPT ![f] = [slot |-> s, off |-> IF a THEN u.size ELSE 0]]
    BY <1>2 DEF OpenFile
  <2>4. \A t \in TSlots : slots[t].name = n => t = s
    BY <2>1 DEF Lookup
  <2>5. slots[s] \in SlotStates /\ Len(slots[s].data) \in 1 .. MaxSize /\ slots[s].size <= Len(slots[s].data)
    BY <1>0, <2>1 DEF TmpInv, SlotsSound
  <2> HIDE DEF s
  <2>6. u = [slots[s] EXCEPT !.size = 0] \/ u = slots[s]
    BY <1>0, <2>1, <2>2
  <2>7. /\ u \in SlotStates /\ u.name = n /\ Len(u.data) \in 1 .. MaxSize /\ u.size <= Len(u.data)
        /\ u.size = 0 \/ u = slots[s]
    <3>1. CASE u = slots[s]
      BY <2>1, <2>5, <3>1
    <3>2. CASE u = [slots[s] EXCEPT !.size = 0]
      BY <2>1, <2>5, <3>2 DEF SlotStates
    <3>3. QED
      BY <2>6, <3>1, <3>2
  <2>8. slots' = [slots EXCEPT ![s] = u]
    <3>1. CASE c /\ ~a
      BY <1>0, <2>1, <2>2, <3>1
    <3>2. CASE ~(c /\ ~a)
      BY <1>0, <2>1, <2>2, <3>2
    <3>3. QED
      BY <3>1, <3>2
  <2> DEFINE p == IF a THEN u.size ELSE 0
  <2>9. p \in {0, u.size} /\ tfds' = [tfds EXCEPT ![f] = [slot |-> s, off |-> p]]
    BY <2>3
  <2>10. slots[s].name \in {n, Unnamed}
    BY <2>1
  <2> HIDE DEF u, p
  <2>11. QED
    BY <1>1, <2>1, <2>4, <2>7, <2>8, <2>9, <2>10, OpensTo
<1>3. CASE Lookup(n) = {}
  <2> DEFINE free == {t \in TSlots : ~Taken(t)}
  <2> DEFINE s == Least(free)
  <2> DEFINE junk == [i \in 1 .. InitialCap |-> Garbage]
  <2> DEFINE u == [name |-> n, data |-> junk, size |-> 0]
  <2>1. free # {} /\ slots' = [slots EXCEPT ![s] = u]
    BY <1>3 DEF OpenFile
  <2>2. tfds' = [tfds EXCEPT ![f] = [slot |-> s, off |-> IF a THEN slots'[s].size ELSE 0]]
    BY <1>3 DEF OpenFile
  <2>3. s \in free
    <3>1. free \in SUBSET Nat
      BY TmpFsAssumption
    <3>2. \E x \in free : \A t \in free : x <= t
      BY <2>1, <3>1, LeastOf
    <3>3. QED
      BY <3>2 DEF Least
  <2>4. s \in TSlots /\ slots[s].name = Unnamed
    BY <2>3 DEF Taken
  <2>5. \A t \in TSlots : slots[t].name = n => t = s
    BY <1>3 DEF Lookup
  <2>6. InitialCap \in 1 .. MaxSize
    BY TmpFsAssumption
  <2>7. junk \in Seq(Cells) /\ Len(junk) = InitialCap
    BY <2>6 DEF Cells
  <2> HIDE DEF s, junk
  <2>8. u \in SlotStates /\ u.name = n /\ Len(u.data) \in 1 .. MaxSize /\ u.size <= Len(u.data) /\ u.size = 0
    BY <2>6, <2>7 DEF SlotStates
  <2>9. slots'[s].size = 0
    BY <1>0, <2>1, <2>4
  <2>10. tfds' = [tfds EXCEPT ![f] = [slot |-> s, off |-> 0]]
    BY <2>2, <2>9
  <2>11. slots[s].name \in {n, Unnamed} /\ 0 \in {0, u.size}
    BY <2>4
  <2> HIDE DEF u
  <2>12. QED
    BY <1>1, <2>1, <2>4, <2>5, <2>8, <2>10, <2>11, OpensTo
<1>4. QED
  BY <1>2, <1>3
\* A close.
LEMMA CloseFileStep ==
  ASSUME TmpInv, NEW f \in TFds, CloseFile(f)
  PROVE  TmpInv' /\ Store!Next
<1>1. /\ tfds' = [tfds EXCEPT ![f] = Shut] /\ orphan' = orphan \ {f} /\ readout' = <<>> /\ slots' = slots
  BY DEF CloseFile
<1>2. tfds \in [TFds -> [slot : TSlots \union {0}, off : Nat]] /\ Shut \in [slot : TSlots \union {0}, off : Nat]
  BY DEF TmpInv, FdsSound, Shut
<1>3. /\ tfds' \in [TFds -> [slot : TSlots \union {0}, off : Nat]]
      /\ tfds'[f] = Shut /\ \A g \in TFds : g # f => tfds'[g] = tfds[g]
  BY <1>1, <1>2
<1>4. FdsSound(slots', tfds', orphan')
  BY <1>1, <1>3 DEF TmpInv, FdsSound
<1>5. TmpInv'
  BY <1>1, <1>4 DEF TmpInv
<1>6. Files' = Files
  BY <1>1 DEF Files, FileIn, SlotsNamed
<1>7. Handles'[f] = NoFd /\ \A g \in TFds : g # f => Handles'[g] = Handles[g]
  BY <1>1, <1>3 DEF Handles, HandleIn
<1>8. Handles' = [g \in TFds |-> Handles'[g]] /\ Handles = [g \in TFds |-> Handles[g]]
  BY DEF Handles
<1>9. Handles' = [Handles EXCEPT ![f] = NoFd]
  BY <1>7, <1>8
<1>10. QED
  BY <1>1, <1>5, <1>6, <1>9, StoreCloses

\* An unlink: the slot of the name is free, and its descriptors are orphans.
LEMMA UnlinkFileStep ==
  ASSUME TmpInv, NEW n \in TNames, UnlinkFile(n)
  PROVE  TmpInv' /\ Store!Next
<1> DEFINE s == Least(Lookup(n))
<1>1. s \in TSlots /\ slots[s].name = n /\ Lookup(n) = {s}
  BY LookupFacts DEF UnlinkFile
<1> HIDE DEF s
<1>2. /\ slots' = [t \in TSlots |-> IF t \in {s} THEN NoEntry ELSE slots[t]]
      /\ orphan' = orphan \union {f \in TFds : tfds[f] # Shut /\ tfds[f].slot \in {s}}
      /\ tfds' = tfds /\ readout' = <<>>
  BY <1>1 DEF UnlinkFile
<1>3. slots \in [TSlots -> SlotStates] /\ NoEntry \in SlotStates /\ n # Unnamed
  BY NamesAssumption DEF TmpInv, SlotsSound, SlotStates, NoEntry
<1>4. /\ slots' \in [TSlots -> SlotStates] /\ slots'[s] = NoEntry /\ slots'[s].name = Unnamed
      /\ \A t \in TSlots : t # s => slots'[t] = slots[t] /\ slots[t].name # n
  BY <1>1, <1>2, <1>3 DEF NoEntry, Lookup
<1>5. SlotsSound(slots) /\ SlotsSound(slots')
  BY <1>4 DEF TmpInv, SlotsSound
<1>6. FdsSound(slots', tfds', orphan')
  BY <1>2, <1>4 DEF TmpInv, FdsSound
<1>7. FileIn(slots', n) = NoFile
  <2>1. SlotsNamed(slots', n) = {}
    BY <1>3, <1>4 DEF SlotsNamed
  <2>2. QED
    BY <2>1 DEF FileIn
<1>8. Files' = [Files EXCEPT ![n] = NoFile]
  <2>1. \A t \in TSlots : slots[t].name # n \/ slots'[t].name # n =>
           slots'[t] = slots[t] \/ (slots[t].name \in {n, Unnamed} /\ slots'[t].name \in {n, Unnamed})
    BY <1>1, <1>4
  <2>2. Files' = [Files EXCEPT ![n] = FileIn(slots', n)]
    BY <1>5, <2>1, FilesWith
  <2>3. QED
    BY <1>7, <2>2
<1> DEFINE after(f) == IF Handles[f] \notin {NoFd, Dead} /\ Handles[f].name = n THEN Dead ELSE Handles[f]
<1>9. \A f \in TFds : Handles'[f] = after(f)
  <2> SUFFICES ASSUME NEW f \in TFds PROVE Handles'[f] = after(f)
    OBVIOUS
  <2>1. CASE tfds[f] = Shut
    <3>1. Handles[f] = NoFd /\ Handles'[f] = NoFd
      BY <1>2, <2>1 DEF Handles, HandleIn
    <3>2. QED
      BY <3>1
  <2>2. CASE tfds[f] # Shut /\ f \in orphan
    <3>1. Handles[f] = Dead /\ Handles'[f] = Dead
      BY <1>2, <2>2 DEF Handles, HandleIn
    <3>2. QED
      BY <3>1
  <2>3. CASE tfds[f] # Shut /\ f \notin orphan
    <3> DEFINE t == tfds[f].slot
    <3>1. t \in TSlots /\ slots[t].name # Unnamed /\ tfds[f].off \in 0 .. Word
      BY <2>3, TmpFsAssumption DEF TmpInv, FdsSound
    <3>2. Handles[f] = [name |-> slots[t].name, off |-> tfds[f].off]
      BY <2>3 DEF Handles, HandleIn
    <3>3. slots[t].name \in TNames
      BY <1>5, <3>1, FileFacts
    <3>4. Handles[f] \notin {NoFd, Dead} /\ Handles[f].name = slots[t].name
      BY <3>1, <3>2, <3>3, StoreAssumption
    <3>5. CASE t = s
      <4>1. Handles'[f] = Dead
        BY <1>2, <2>3, <3>5 DEF Handles, HandleIn
      <4>2. QED
        BY <1>1, <3>4, <3>5, <4>1
    <3>6. CASE t # s
      <4>1. f \notin orphan' /\ slots'[t] = slots[t] /\ slots[t].name # n
        BY <1>2, <1>4, <2>3, <3>1, <3>6
      <4>2. Handles'[f] = Handles[f]
        BY <1>2, <2>3, <4>1 DEF Handles, HandleIn
      <4>3. QED
        BY <3>4, <4>1, <4>2
    <3>7. QED
      BY <3>5, <3>6
  <2>4. QED
    BY <2>1, <2>2, <2>3
<1>10. Handles' = [f \in TFds |-> Handles'[f]]
  BY DEF Handles
<1>11. Handles' = [f \in TFds |-> after(f)]
  BY <1>9, <1>10
<1>12. Store!Next
  BY <1>2, <1>8, <1>11, StoreUnlinks
<1>13. QED
  BY <1>5, <1>6, <1>12 DEF TmpInv

\* Nothing is open at first, and nothing is there.
LEMMA TmpStarts == ASSUME TmpInit PROVE TmpInv /\ Store!Init
<1>1. \A s \in TSlots : slots[s] = NoEntry
  BY DEF TmpInit
<1>2. SlotsSound(slots)
  BY DEF TmpInit, SlotsSound, SlotStates, NoEntry
<1>3. FdsSound(slots, tfds, orphan)
  BY DEF TmpInit, FdsSound, Shut
<1>4. \A n \in TNames : Lookup(n) = {}
  BY <1>1, NamesAssumption DEF Lookup, NoEntry
<1>5. Store!Init
  BY <1>4 DEF TmpInit, Store!Init
<1>6. QED
  BY <1>2, <1>3, <1>5 DEF TmpInv

\* Every step is one of the directory's, or none.
LEMMA TmpSteps ==
  ASSUME TmpInv, ~StaleUse, \A p \in Seeks : p < Word, [TmpNext]_tmpVars
  PROVE  TmpInv' /\ [Store!Next]_(Store!fileVars)
<1>1. CASE UNCHANGED tmpVars
  <2>1. slots' = slots /\ tfds' = tfds /\ orphan' = orphan /\ readout' = readout
    BY <1>1 DEF tmpVars
  <2>2. QED
    BY <2>1 DEF TmpInv, Store!fileVars, Lookup
<1>2. CASE Refused
  <2>1. slots' = slots /\ tfds' = tfds /\ orphan' = orphan /\ readout' = <<>>
    BY <1>2 DEF Refused
  <2>2. Files' = Files /\ Handles' = Handles
    BY <2>1 DEF Files, FileIn, SlotsNamed, Handles, HandleIn
  <2>3. QED
    BY <2>1, <2>2, StoreFails DEF TmpInv
<1>3. ASSUME NEW n \in TNames, UnlinkFile(n) PROVE TmpInv' /\ Store!Next
  BY <1>3, UnlinkFileStep
<1>4. ASSUME NEW n \in TNames, NEW f \in TFds, NEW c \in BOOLEAN, NEW a \in BOOLEAN, OpenFile(n, f, c, a)
      PROVE  TmpInv' /\ Store!Next
  BY <1>4, OpenFileStep
<1>5. ASSUME NEW f \in TFds, ReadFile(f) PROVE TmpInv' /\ Store!Next
  BY <1>5, ReadFileStep
<1>6. ASSUME NEW f \in TFds, SeekFile(f) PROVE TmpInv' /\ Store!Next
  BY <1>6, SeekFileStep
<1>7. ASSUME NEW f \in TFds, CloseFile(f) PROVE TmpInv' /\ Store!Next
  BY <1>7, CloseFileStep
<1>8. ASSUME NEW f \in TFds, NEW v \in TValues, NEW k \in 1 .. 2, WriteChunk(f, v, k) PROVE TmpInv' /\ Store!Next
  BY <1>8, WriteChunkStep
<1>9. QED
  BY <1>1, <1>2, <1>3, <1>4, <1>5, <1>6, <1>7, <1>8 DEF TmpNext

\* Through growth, truncation and slots that are used again, /tmp (tmpfs_op_open, tmpfs_write,
\* tmpfs_read, tmpfs_unlink) is a directory of files, for any number of slots, names and
\* descriptors and any limits, as long as offsets fit 32 bits and no descriptor outlives its file.
THEOREM TmpIsADirectory ==
  ASSUME ~StaleUse, \A p \in Seeks : p < Word
  PROVE  TmpSpec => ImplementsNamedFiles
<1>1. TmpInit => TmpInv /\ Store!Init
  BY TmpStarts
<1>2. TmpInv /\ [TmpNext]_tmpVars => TmpInv' /\ [Store!Next]_(Store!fileVars)
  BY TmpSteps
<1>3. QED
  BY <1>1, <1>2, PTL DEF TmpSpec, Store!Spec, ImplementsNamedFiles
=============================================================================
