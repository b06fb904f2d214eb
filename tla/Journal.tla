------------------------------ MODULE Journal ------------------------------
(***************************************************************************)
(* kernel/core/osfs2_journal.c: the write-ahead log under the OSFS-2       *)
(* block cache, one raw_write of a 4 KiB block per step.                   *)
(*                                                                         *)
(* osfs2_journal_commit writes the payloads to the journal slots, then the *)
(* header, then the destinations, then a zeroed header; every step may     *)
(* fail (virtio_blk.c reports a bad status or times out) and the machine   *)
(* may stop between any two sectors.  osfs2_journal_replay runs at mount.  *)
(*                                                                         *)
(* A block is eight sectors: a payload or destination write that is cut    *)
(* short leaves Torn, a mix of old and new sectors.  All the fields of the *)
(* header lie in its first sector, so a header write lands or does not.    *)
(* The CRC is modelled by what it decides: whether the slots hold the data *)
(* it was computed from.  txn_id is never read by the replay decision.     *)
(***************************************************************************)
EXTENDS Batches

CONSTANTS Torn,       \* contents of a block cut short, never equal to a Value
          FaultAt,    \* the steps at which an I/O error may be reported
          MaxFaults   \* bound on the I/O errors of a behaviour

Steps == {"payload", "header", "dest", "checkpoint", "replay", "rcheckpoint", "rzero"}

ASSUME JournalAssumption ==
    /\ MaxFaults \in Nat
    /\ FaultAt \subseteq Steps
    /\ Torn \notin Value

VARIABLES disk,       \* destination blocks
          jslot,      \* the journal's payload slots
          header,     \* the batch the header describes, NoBatch when zeroed
          pc,         \* the next write, "idle" between calls, "down" before mount
          k,          \* index of the next payload or destination to write
          batch,      \* arguments of the commit, or the batch being replayed
          ret,        \* what the last commit returned
          begun,      \* history: batches handed over since the last commit marker
          committed,  \* history: batch whose marker was written and whose
                      \* destinations are not all written, or NoBatch
          faults      \* I/O errors so far

vars == <<disk, jslot, header, pc, k, batch, ret, begun, committed, faults>>

-----------------------------------------------------------------------------
(* The abstract disk: what the next mount would leave on the disk is the   *)
(* destinations overlaid with the batch of a valid header.                 *)

\* compute_replay_crc(slots) = header.crc32
CrcOk == \A i \in 1..Len(header.dest) : jslot[i] = header.data[header.dest[i]]

\* header_is_committed and the CRC test of osfs2_journal_replay
Replayable == header # NoBatch /\ CrcOk

Replaying == pc \in {"down", "replay", "rcheckpoint", "rzero"}
Landed == pc \in {"dest", "checkpoint"}

Recovered ==
    IF Replayable /\ (Landed \/ Replaying \/ committed # NoBatch)
    THEN Overlay(disk, header) ELSE disk

Phase == CASE pc = "idle"  -> "idle"
           [] Landed       -> "landed"
           [] Replaying    -> "down"
           [] OTHER        -> "busy"

Abs == INSTANCE AtomicDisk
         WITH durable <- Recovered,
              cur <- IF Phase \in {"busy", "landed"} THEN batch ELSE NoBatch,
              st <- Phase
-----------------------------------------------------------------------------
Init ==
    /\ disk \in [Block -> Value]
    /\ jslot = [i \in 1..MaxBlocks |-> Torn]
    /\ header = NoBatch
    /\ pc = "idle"
    /\ k = 0
    /\ batch = NoBatch
    /\ ret = "none"
    /\ begun = {}
    /\ committed = NoBatch
    /\ faults = 0

\* One more I/O error, at a step where the configuration allows one.
Fault(step) ==
    /\ step \in FaultAt
    /\ faults < MaxFaults
    /\ faults' = faults + 1

\* osfs2_journal_commit returns r.
Finish(r) ==
    /\ pc' = "idle"
    /\ k' = 0
    /\ batch' = NoBatch
    /\ ret' = r

\* Mutant: the header is written before the payloads.
Commit_HeaderFirst(b) ==
    /\ pc = "idle"
    /\ batch' = b
    /\ k' = 1
    /\ pc' = "header"
    /\ ret' = "none"
    /\ begun' = begun \union {b}
    /\ UNCHANGED <<disk, jslot, header, committed, faults>>

(* osfs2_journal_commit(dest, data, count), with 1 <= count <= N.           *)
Commit(b) ==
    /\ pc = "idle"
    /\ batch' = b
    /\ k' = 1
    /\ pc' = "payload"
    /\ ret' = "none"
    /\ begun' = begun \union {b}
    /\ UNCHANGED <<disk, jslot, header, committed, faults>>

\* Step 1, one payload into its journal slot.
WritePayload ==
    /\ pc = "payload"
    /\ jslot' = [jslot EXCEPT ![k] = batch.data[batch.dest[k]]]
    /\ IF k < Len(batch.dest)
       THEN k' = k + 1 /\ UNCHANGED pc
       ELSE k' = 1 /\ pc' = "header"
    /\ UNCHANGED <<disk, header, batch, ret, begun, committed, faults>>

PayloadFails ==
    /\ pc = "payload"
    /\ Fault("payload")
    /\ \E c \in {jslot[k], Torn, batch.data[batch.dest[k]]} :
           jslot' = [jslot EXCEPT ![k] = c]
    /\ Finish("err")
    /\ UNCHANGED <<disk, header, begun, committed>>

\* Mutant: block_count is left zero in the header.
WriteHeader_NoCount ==
    /\ pc = "header"
    /\ header' = [batch EXCEPT !.dest = <<>>]
    /\ pc' = "dest"
    /\ k' = 1
    /\ begun' = {}
    /\ committed' = batch
    /\ UNCHANGED <<disk, jslot, batch, ret, faults>>

\* Step 2, the commit marker: magic, count, crc and dest[].
WriteHeader ==
    /\ pc = "header"
    /\ header' = batch
    /\ pc' = "dest"
    /\ k' = 1
    /\ begun' = {}
    /\ committed' = batch
    /\ UNCHANGED <<disk, jslot, batch, ret, faults>>

\* The error may be that of a later sector: the marker may be on the disk.
HeaderFails ==
    /\ pc = "header"
    /\ Fault("header")
    /\ header' \in {header, batch}
    /\ Finish("err")
    /\ UNCHANGED <<disk, jslot, begun, committed>>

\* Mutant: the checkpoint follows the first destination.
WriteDest_FirstOnly ==
    /\ pc = "dest"
    /\ disk' = [disk EXCEPT ![batch.dest[k]] = batch.data[batch.dest[k]]]
    /\ k' = 1 /\ pc' = "checkpoint" /\ committed' = NoBatch
    /\ UNCHANGED <<jslot, header, batch, ret, begun, faults>>

\* Step 3, one destination.
WriteDest ==
    /\ pc = "dest"
    /\ disk' = [disk EXCEPT ![batch.dest[k]] = batch.data[batch.dest[k]]]
    /\ IF k < Len(batch.dest)
       THEN k' = k + 1 /\ UNCHANGED <<pc, committed>>
       ELSE k' = 1 /\ pc' = "checkpoint" /\ committed' = NoBatch
    /\ UNCHANGED <<jslot, header, batch, ret, begun, faults>>

DestFails ==
    /\ pc = "dest"
    /\ Fault("dest")
    /\ \E c \in {disk[batch.dest[k]], Torn, batch.data[batch.dest[k]]} :
           disk' = [disk EXCEPT ![batch.dest[k]] = c]
    /\ Finish("err")
    /\ UNCHANGED <<jslot, header, begun, committed>>

\* Step 4, the zeroed header.
Checkpoint ==
    /\ pc = "checkpoint"
    /\ header' = NoBatch
    /\ Finish("ok")
    /\ UNCHANGED <<disk, jslot, begun, committed, faults>>

\* "Don't fail the whole commit for this."
CheckpointFails ==
    /\ pc = "checkpoint"
    /\ Fault("checkpoint")
    /\ header' \in {header, NoBatch}
    /\ Finish("ok")
    /\ UNCHANGED <<disk, jslot, begun, committed>>
-----------------------------------------------------------------------------
\* The machine stops, possibly in the middle of the block being written.
Crash ==
    /\ pc # "down"
    /\ \/ UNCHANGED <<disk, jslot>>
       \/ /\ pc = "payload"
          /\ jslot' = [jslot EXCEPT ![k] = Torn]
          /\ UNCHANGED disk
       \/ /\ pc \in {"dest", "replay"}
          /\ disk' = [disk EXCEPT ![batch.dest[k]] = Torn]
          /\ UNCHANGED jslot
    /\ pc' = "down"
    /\ k' = 0
    /\ batch' = NoBatch
    /\ ret' = "none"
    /\ begun' = {}
    /\ UNCHANGED <<header, committed, faults>>

\* osfs2_init refuses the mount; the next boot tries again.
Refuse ==
    /\ pc' = "down"
    /\ k' = 0
    /\ batch' = NoBatch

(* osfs2_journal_replay up to its first write.  A read that fails refuses   *)
(* the mount and changes nothing.                                          *)
Replay ==
    /\ pc = "down"
    /\ \/ /\ header = NoBatch
          /\ pc' = "idle"
          /\ UNCHANGED <<k, batch>>
       \/ /\ header # NoBatch /\ CrcOk
          /\ pc' = "replay"
          /\ k' = 1
          /\ batch' = header
       \/ /\ header # NoBatch /\ ~CrcOk
          /\ pc' = "rzero"
          /\ UNCHANGED <<k, batch>>
    /\ UNCHANGED <<disk, jslot, header, ret, begun, committed, faults>>

\* Mutant: the replay stops after its first destination.
ReplayDest_FirstOnly ==
    /\ pc = "replay"
    /\ disk' = [disk EXCEPT ![batch.dest[k]] = batch.data[batch.dest[k]]]
    /\ k' = 1 /\ pc' = "rcheckpoint" /\ committed' = NoBatch
    /\ UNCHANGED <<jslot, header, batch, ret, begun, faults>>

\* One destination of the replayed batch.
ReplayDest ==
    /\ pc = "replay"
    /\ disk' = [disk EXCEPT ![batch.dest[k]] = batch.data[batch.dest[k]]]
    /\ IF k < Len(batch.dest)
       THEN k' = k + 1 /\ UNCHANGED <<pc, committed>>
       ELSE k' = 1 /\ pc' = "rcheckpoint" /\ committed' = NoBatch
    /\ UNCHANGED <<jslot, header, batch, ret, begun, faults>>

ReplayDestFails ==
    /\ pc = "replay"
    /\ Fault("replay")
    /\ \E c \in {disk[batch.dest[k]], Torn, batch.data[batch.dest[k]]} :
           disk' = [disk EXCEPT ![batch.dest[k]] = c]
    /\ Refuse
    /\ UNCHANGED <<jslot, header, ret, begun, committed>>

\* The zeroed header that ends a replay or discards a batch.
ReplayCheckpoint ==
    /\ pc \in {"rcheckpoint", "rzero"}
    /\ header' = NoBatch
    /\ pc' = "idle"
    /\ k' = 0
    /\ batch' = NoBatch
    /\ UNCHANGED <<disk, jslot, ret, begun, committed, faults>>

ReplayCheckpointFails ==
    /\ pc \in {"rcheckpoint", "rzero"}
    /\ Fault(pc)
    /\ header' \in {header, NoBatch}
    /\ Refuse
    /\ UNCHANGED <<disk, jslot, ret, begun, committed>>
-----------------------------------------------------------------------------
Next ==
    \/ \E b \in Batch : Commit(b)
    \/ WritePayload \/ PayloadFails
    \/ WriteHeader \/ HeaderFails
    \/ WriteDest \/ DestFails
    \/ Checkpoint \/ CheckpointFails
    \/ Crash
    \/ Replay
    \/ ReplayDest \/ ReplayDestFails
    \/ ReplayCheckpoint \/ ReplayCheckpointFails

Spec == Init /\ [][Next]_vars
-----------------------------------------------------------------------------
TypeOK ==
    /\ disk \in [Block -> Value \union {Torn}]
    /\ jslot \in [1..MaxBlocks -> Value \union {Torn}]
    /\ header \in Batch \union {NoBatch}
    /\ pc \in Steps \union {"idle", "down"}
    /\ k \in 0..MaxBlocks
    /\ batch \in Batch \union {NoBatch}
    /\ ret \in {"none", "ok", "err"}
    /\ begun \subseteq Batch
    /\ committed \in Batch \union {NoBatch}
    /\ faults \in 0..MaxFaults

(* "From here on, the batch IS committed: a crash leaves it replayable"     *)
(* (osfs2_journal.c, after write_committed_header): during the destination *)
(* writes and from a crash to the end of the next mount, the header and    *)
(* the slots are enough to write again a batch that is not wholly on its   *)
(* destinations.                                                           *)
CommittedReplayable ==
    committed # NoBatch /\ (Landed \/ Replaying) => header = committed /\ CrcOk

(* A mounted file system never reads a block that a power cut or an I/O    *)
(* error left half written: outside the destination writes and the replay  *)
(* that repairs them, no destination block is torn.                        *)
NoTornBlock ==
    pc \in {"idle", "payload", "header", "checkpoint"} => Torn \notin Range(disk)

\* The writes of the batch in hand that are behind the current step.
SlotsWritten(n) == \A i \in 1..n : jslot[i] = batch.data[batch.dest[i]]
DestsWritten(n) == \A i \in 1..n : disk[batch.dest[i]] = batch.data[batch.dest[i]]

InHand == pc \notin {"idle", "down", "rzero"}

(* The inductive invariant behind the three above: the position inside the *)
(* protocol tells what is on the disk.  A header left over by a failed     *)
(* header or checkpoint write is harmless because its batch was never      *)
(* started on the destinations, or is all there.                           *)
ProgressInv ==
    /\ InHand <=> batch # NoBatch
    /\ InHand => k \in 1..Len(batch.dest)
    /\ pc = "payload" => SlotsWritten(k - 1)
    /\ pc = "header" => SlotsWritten(Len(batch.dest))
    /\ pc \in {"dest", "replay"} => DestsWritten(k - 1)
    /\ pc \in {"checkpoint", "rcheckpoint"} => DestsWritten(Len(batch.dest))
HeaderInv ==
    /\ pc \in {"dest", "checkpoint", "replay", "rcheckpoint"} => header = batch /\ CrcOk
    /\ pc \in {"idle", "payload", "header"} /\ header # NoBatch =>
           header \in begun \/ Overlay(disk, header) = disk
    /\ committed # NoBatch => (Landed \/ Replaying) /\ header = committed /\ CrcOk
    /\ pc \in {"checkpoint", "rcheckpoint"} => committed = NoBatch
    /\ pc = "rzero" => ~CrcOk
    /\ pc \in {"payload", "header"} => batch \in begun
    /\ Landed \/ Replaying => begun = {}
    /\ Replaying => ret = "none"
TornInv ==
    \A b \in Block : disk[b] = Torn =>
        /\ Replayable /\ b \in DOMAIN header.data
        /\ pc \in {"dest", "down", "replay"}
JournalInv == ProgressInv /\ HeaderInv /\ TornInv

(* "On success returns 0 and the destinations are durably updated"          *)
(* (osfs2_journal.h): no commit returns 0 before all its destinations hold *)
(* the data it was given, whichever writes have failed so far.             *)
OkIsDurable ==
    [][ret # "ok" /\ ret' = "ok" =>
         \A b \in DOMAIN batch.data : disk'[b] = batch.data[b]]_vars

(* All or nothing: the journal implements the atomic disk.                 *)
ImplementsAtomicDisk == Abs!Spec
=============================================================================
