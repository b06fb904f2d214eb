--------------------------- MODULE JournalProofs ---------------------------
(***************************************************************************)
(* Proofs about Journal, for any blocks, contents, number of slots and     *)
(* number of I/O errors.                                                   *)
(***************************************************************************)
EXTENDS Journal, TLAPS

\* What a batch is made of.
LEMMA BatchFacts ==
    ASSUME NEW b \in Batch
    PROVE  /\ Len(b.dest) \in 1..MaxBlocks
           /\ \A i \in 1..Len(b.dest) : /\ b.dest[i] \in DOMAIN b.data
                                        /\ b.dest[i] \in Block
                                        /\ b.data[b.dest[i]] \in Value
           /\ \A x \in DOMAIN b.data : /\ b.data[x] \in Value
                                       /\ x \in Block
                                       /\ \E i \in 1..Len(b.dest) : b.dest[i] = x
  <1>1. PICK n \in 1..MaxBlocks : b \in BatchOf(n)
    BY DEF Batch
  <1>2. PICK d \in [1..n -> Block] : b \in [dest : {d}, data : [Range(d) -> Value]]
    BY <1>1 DEF BatchOf
  <1>3. b.dest = d /\ b.data \in [Range(d) -> Value]
    BY <1>2
  <1>4. n \in Nat
    BY <1>1, BatchAssumption
  <1>5. Len(d) = n
    BY <1>2, <1>4
  <1>6. Range(d) = { d[i] : i \in 1..n }
    BY <1>2 DEF Range
  <1>7. QED
    BY <1>1, <1>2, <1>3, <1>5, <1>6
-----------------------------------------------------------------------------
(* Types and the position inside the protocol: these hold whatever fails.  *)

LEMMA InitProgress == Init => TypeOK /\ ProgressInv
  BY BatchAssumption, JournalAssumption
  DEF Init, TypeOK, ProgressInv, InHand, Steps, SlotsWritten, DestsWritten

\* The batch in hand is one, and the next write is one of its own.
LEMMA InHandFacts ==
    ASSUME TypeOK, ProgressInv, InHand
    PROVE  /\ batch \in Batch
           /\ Len(batch.dest) \in 1..MaxBlocks
           /\ k \in 1..Len(batch.dest) /\ k \in 1..MaxBlocks
           /\ batch.dest[k] \in Block
           /\ batch.data[batch.dest[k]] \in Value
  <1>1. batch \in Batch /\ k \in 1..Len(batch.dest)
    BY DEF TypeOK, ProgressInv
  <1>2. QED
    BY <1>1, BatchFacts, BatchAssumption

LEMMA NextProgress == TypeOK /\ ProgressInv /\ [Next]_vars => TypeOK' /\ ProgressInv'
  <1> SUFFICES ASSUME TypeOK, ProgressInv, [Next]_vars
               PROVE  TypeOK' /\ ProgressInv'
    OBVIOUS
  <1> USE BatchAssumption, JournalAssumption
  <1> USE DEF TypeOK, ProgressInv, InHand, SlotsWritten, DestsWritten, Steps
  <1>1. ASSUME NEW b \in Batch, Commit(b) PROVE TypeOK' /\ ProgressInv'
    BY <1>1, BatchFacts DEF Commit
  <1>2. CASE WritePayload
    BY <1>2, InHandFacts DEF WritePayload
  <1>3. CASE PayloadFails
    BY <1>3, InHandFacts DEF PayloadFails, Fault, Finish
  <1>4. CASE WriteHeader
    BY <1>4, InHandFacts DEF WriteHeader
  <1>5. CASE HeaderFails
    BY <1>5, InHandFacts DEF HeaderFails, Fault, Finish
  <1>6. CASE WriteDest
    BY <1>6, InHandFacts DEF WriteDest
  <1>7. CASE DestFails
    BY <1>7, InHandFacts DEF DestFails, Fault, Finish
  <1>8. CASE Checkpoint
    BY <1>8 DEF Checkpoint, Finish
  <1>9. CASE CheckpointFails
    BY <1>9 DEF CheckpointFails, Fault, Finish
  <1>10. CASE Crash
    BY <1>10, InHandFacts DEF Crash
  <1>11. CASE Replay
    BY <1>11, BatchFacts DEF Replay
  <1>12. CASE ReplayDest
    BY <1>12, InHandFacts DEF ReplayDest
  <1>13. CASE ReplayDestFails
    BY <1>13, InHandFacts DEF ReplayDestFails, Fault, Refuse
  <1>14. CASE ReplayCheckpoint
    BY <1>14 DEF ReplayCheckpoint
  <1>15. CASE ReplayCheckpointFails
    BY <1>15 DEF ReplayCheckpointFails, Fault, Refuse
  <1>16. CASE UNCHANGED vars
    BY <1>16 DEF vars
  <1>17. QED
    BY <1>1, <1>2, <1>3, <1>4, <1>5, <1>6, <1>7, <1>8, <1>9, <1>10, <1>11,
       <1>12, <1>13, <1>14, <1>15, <1>16 DEF Next

\* osfs2_journal.c, every step: the variables keep their types, and the
\* index of the next write stays inside the batch.
THEOREM TypeCorrect == Spec => [](TypeOK /\ ProgressInv)
  BY InitProgress, NextProgress, PTL DEF Spec

\* osfs2_journal_commit returns 0 only when every destination holds its data.
THEOREM OkMeansDurable == Spec => OkIsDurable
  <1> DEFINE Durable == \A b \in DOMAIN batch.data : disk'[b] = batch.data[b]
  <1>1. ASSUME TypeOK, ProgressInv, [Next]_vars, ret # "ok", ret' = "ok"
        PROVE  Durable
    <2>1. Checkpoint \/ CheckpointFails
      BY <1>1 DEF Next, vars, Commit, WritePayload, PayloadFails, WriteHeader, HeaderFails,
                  WriteDest, DestFails, Crash, Replay, ReplayDest, ReplayDestFails,
                  ReplayCheckpoint, ReplayCheckpointFails, Finish
    <2>2. /\ pc = "checkpoint" /\ disk' = disk /\ batch \in Batch
          /\ \A i \in 1..Len(batch.dest) : disk[batch.dest[i]] = batch.data[batch.dest[i]]
      BY <1>1, <2>1, InHandFacts
      DEF Checkpoint, CheckpointFails, InHand, ProgressInv, DestsWritten
    <2>3. QED
      BY <2>2, BatchFacts
  <1>2. TypeOK /\ ProgressInv /\ [Next]_vars => [ret # "ok" /\ ret' = "ok" => Durable]_vars
    BY <1>1
  <1>3. QED
    BY <1>2, TypeCorrect, PTL DEF Spec, OkIsDurable
-----------------------------------------------------------------------------
(* What the header and the disk hold, when no destination write of a       *)
(* commit reports an error.                                                *)

LEMMA InitJournalInv == Init => JournalInv
  BY InitProgress, BatchAssumption, JournalAssumption
  DEF Init, JournalInv, HeaderInv, TornInv, Replayable, Landed, Replaying

\* A batch whose contents are on its destinations adds nothing to the disk.
LEMMA AppliedOverlay ==
    ASSUME NEW b \in Batch, TypeOK,
           \A i \in 1..Len(b.dest) : disk[b.dest[i]] = b.data[b.dest[i]]
    PROVE  /\ Overlay(disk, b) = disk
           /\ \A x \in DOMAIN b.data : disk[x] \in Value
  <1>1. \A x \in DOMAIN b.data : disk[x] = b.data[x] /\ disk[x] \in Value
    BY BatchFacts
  <1>2. QED
    BY <1>1 DEF Overlay, TypeOK

\* One write of the batch in hand into the disk.
LEMMA DestStep ==
    ASSUME TypeOK, JournalInv, pc \in {"dest", "replay"}, NEW c \in Value \union {Torn},
           disk' = [disk EXCEPT ![batch.dest[k]] = c]
    PROVE  /\ batch = header /\ CrcOk /\ header \in Batch
           /\ \A b \in Block : disk'[b] = Torn => b \in DOMAIN header.data
           /\ c # Torn /\ k = Len(batch.dest) => \A b \in Block : disk'[b] # Torn
  <1> USE BatchAssumption, JournalAssumption
  <1>1. InHand
    BY DEF InHand
  <1>2. batch = header /\ CrcOk /\ header \in Batch
    BY <1>1, InHandFacts DEF JournalInv, HeaderInv
  <1>3. batch.dest[k] \in DOMAIN header.data /\ k \in 1..Len(batch.dest)
    BY <1>1, <1>2, InHandFacts, BatchFacts DEF JournalInv
  <1>4. \A b \in Block : disk'[b] = Torn => b \in DOMAIN header.data
    BY <1>2, <1>3 DEF TypeOK, JournalInv, TornInv
  <1>5. ASSUME c # Torn, k = Len(batch.dest), NEW b \in Block, disk'[b] = Torn PROVE FALSE
    <2>1. b # batch.dest[k] /\ disk[b] = Torn
      BY <1>5 DEF TypeOK
    <2>2. PICK i \in 1..Len(batch.dest) : batch.dest[i] = b
      BY <1>2, <1>4, <1>5, BatchFacts
    <2>3. i \in 1..(k - 1)
      BY <1>3, <1>5, <2>1, <2>2
    <2>4. disk[b] = batch.data[b]
      BY <2>2, <2>3 DEF JournalInv, ProgressInv, DestsWritten
    <2>5. QED
      BY <1>2, <2>1, <2>2, <2>4, BatchFacts
  <1>6. QED
    BY <1>2, <1>4, <1>5

LEMMA NextJournalInv ==
    ASSUME "dest" \notin FaultAt, TypeOK, JournalInv, [Next]_vars
    PROVE  HeaderInv' /\ TornInv'
  <1> USE BatchAssumption, JournalAssumption
  <1>0. HeaderInv /\ TornInv /\ ProgressInv
    BY DEF JournalInv
  <1>1. ASSUME NEW b \in Batch, Commit(b) PROVE HeaderInv' /\ TornInv'
    BY <1>0, <1>1 DEF Commit, TypeOK, HeaderInv, TornInv, Replayable, CrcOk, Landed, Replaying
  <1>2. CASE WritePayload \/ PayloadFails
    <2>1. \A b \in Block : disk'[b] # Torn
      BY <1>0, <1>2 DEF WritePayload, PayloadFails, TornInv
    <2>2. HeaderInv'
      BY <1>0, <1>2 DEF WritePayload, PayloadFails, Fault, Finish, HeaderInv, Landed, Replaying, Overlay
    <2>3. QED
      BY <2>1, <2>2 DEF TornInv
  <1>3. CASE WriteHeader
    <2>1. \A b \in Block : disk'[b] # Torn
      BY <1>0, <1>3 DEF WriteHeader, TornInv
    <2>2. batch \in Batch /\ SlotsWritten(Len(batch.dest))
      BY <1>0, <1>3, InHandFacts DEF WriteHeader, InHand, ProgressInv
    <2>3. HeaderInv'
      BY <1>0, <1>3, <2>2 DEF WriteHeader, HeaderInv, Landed, Replaying, CrcOk, SlotsWritten
    <2>4. QED
      BY <2>1, <2>3 DEF TornInv
  <1>4. CASE HeaderFails
    <2>1. \A b \in Block : disk'[b] # Torn
      BY <1>0, <1>4 DEF HeaderFails, TornInv
    <2>2. begun' = begun /\ committed' = committed /\ pc' = "idle" /\ disk' = disk /\ committed = NoBatch
      BY <1>0, <1>4 DEF HeaderFails, Finish, HeaderInv, Landed, Replaying
    <2>3. header' # NoBatch => header' \in begun' \/ Overlay(disk', header') = disk'
      BY <1>0, <1>4, <2>2 DEF HeaderFails, HeaderInv
    <2>4. HeaderInv'
      BY <2>2, <2>3 DEF HeaderInv, Landed, Replaying
    <2>5. QED
      BY <2>1, <2>4 DEF TornInv
  <1>5. CASE WriteDest
    <2>1. pc = "dest" /\ batch.data[batch.dest[k]] \in Value /\ k \in 1..Len(batch.dest)
      BY <1>0, <1>5, InHandFacts DEF WriteDest, InHand
    <2>2. header' = header /\ jslot' = jslot /\ begun' = begun /\ ret' = ret
      BY <1>5 DEF WriteDest
    <2>3. \/ k # Len(batch.dest) /\ pc' = pc /\ batch' = batch /\ committed' = committed
          \/ k = Len(batch.dest) /\ pc' = "checkpoint" /\ batch' = batch /\ committed' = NoBatch
      BY <1>5, <2>1, InHandFacts DEF WriteDest, InHand
    <2>4. /\ batch = header /\ CrcOk /\ header \in Batch
          /\ \A b \in Block : disk'[b] = Torn => b \in DOMAIN header.data
          /\ k = Len(batch.dest) => \A b \in Block : disk'[b] # Torn
      BY <1>5, <2>1, DestStep DEF WriteDest
    <2>5. HeaderInv'
      BY <1>0, <2>1, <2>2, <2>3, <2>4 DEF HeaderInv, CrcOk, Landed, Replaying
    <2>6. TornInv'
      BY <2>1, <2>2, <2>3, <2>4 DEF TornInv, Replayable, CrcOk
    <2>7. QED
      BY <2>5, <2>6
  <1>6. CASE DestFails
    BY <1>6 DEF DestFails, Fault
  <1>7. CASE Checkpoint \/ CheckpointFails
    <2>1. batch \in Batch /\ batch = header /\ DestsWritten(Len(batch.dest)) /\ pc' = "idle"
      BY <1>0, <1>7, InHandFacts DEF Checkpoint, CheckpointFails, Finish, InHand, ProgressInv, HeaderInv
    <2>2. Overlay(disk, header) = disk
      BY <2>1, AppliedOverlay DEF DestsWritten
    <2>3. (\A b \in Block : disk'[b] # Torn) /\ committed' = NoBatch
      BY <1>0, <1>7 DEF Checkpoint, CheckpointFails, TornInv, HeaderInv
    <2>4. disk' = disk /\ header' \in {header, NoBatch}
      BY <1>7 DEF Checkpoint, CheckpointFails
    <2>5. QED
      BY <2>1, <2>2, <2>3, <2>4 DEF HeaderInv, TornInv, Landed, Replaying
  <1>8. CASE Crash
    <2>1. /\ header' = header /\ committed' = committed /\ pc' = "down"
          /\ begun' = {} /\ ret' = "none"
      BY <1>8 DEF Crash
    <2>2. CASE pc = "payload" /\ jslot' = [jslot EXCEPT ![k] = Torn] /\ UNCHANGED disk
      BY <1>0, <2>1, <2>2 DEF HeaderInv, TornInv, Landed, Replaying
    <2>3. CASE pc \in {"dest", "replay"} /\ UNCHANGED jslot /\ disk' = [disk EXCEPT ![batch.dest[k]] = Torn]
      BY <1>0, <2>1, <2>3, DestStep DEF HeaderInv, TornInv, Replayable, CrcOk, Landed, Replaying
    <2>4. CASE UNCHANGED <<disk, jslot>>
      BY <1>0, <2>1, <2>4 DEF HeaderInv, TornInv, Replayable, CrcOk, Landed, Replaying
    <2>5. QED
      BY <1>8, <2>2, <2>3, <2>4 DEF Crash
  <1>9. CASE Replay
    BY <1>0, <1>9 DEF Replay, HeaderInv, TornInv, Replayable, CrcOk, Landed, Replaying, TypeOK
  <1>10. CASE ReplayDest
    <2>1. pc = "replay" /\ batch.data[batch.dest[k]] \in Value /\ k \in 1..Len(batch.dest)
      BY <1>0, <1>10, InHandFacts DEF ReplayDest, InHand
    <2>2. header' = header /\ jslot' = jslot /\ begun' = begun /\ ret' = ret
      BY <1>10 DEF ReplayDest
    <2>3. \/ k # Len(batch.dest) /\ pc' = pc /\ batch' = batch /\ committed' = committed
          \/ k = Len(batch.dest) /\ pc' = "rcheckpoint" /\ batch' = batch /\ committed' = NoBatch
      BY <1>10, <2>1, InHandFacts DEF ReplayDest, InHand
    <2>4. /\ batch = header /\ CrcOk /\ header \in Batch
          /\ \A b \in Block : disk'[b] = Torn => b \in DOMAIN header.data
          /\ k = Len(batch.dest) => \A b \in Block : disk'[b] # Torn
      BY <1>10, <2>1, DestStep DEF ReplayDest
    <2>5. HeaderInv'
      BY <1>0, <2>1, <2>2, <2>3, <2>4 DEF HeaderInv, CrcOk, Landed, Replaying
    <2>6. TornInv'
      BY <2>1, <2>2, <2>3, <2>4 DEF TornInv, Replayable, CrcOk
    <2>7. QED
      BY <2>5, <2>6
  <1>11. CASE ReplayDestFails
    <2>1. pc = "replay" /\ batch.data[batch.dest[k]] \in Value /\ batch.dest[k] \in Block
      BY <1>0, <1>11, InHandFacts DEF ReplayDestFails, InHand
    <2>2. PICK c \in Value \union {Torn} : disk' = [disk EXCEPT ![batch.dest[k]] = c]
      BY <1>11, <2>1 DEF ReplayDestFails, TypeOK
    <2>3. QED
      BY <1>0, <1>11, <2>1, <2>2, DestStep DEF ReplayDestFails, Refuse, HeaderInv, TornInv, Replayable, CrcOk, Landed, Replaying
  <1>12. CASE ReplayCheckpoint \/ ReplayCheckpointFails
    <2>1. (\A b \in Block : disk'[b] # Torn) /\ disk' = disk /\ jslot' = jslot
      BY <1>0, <1>12 DEF ReplayCheckpoint, ReplayCheckpointFails, TornInv
    <2>2. /\ committed = NoBatch /\ begun = {} /\ committed' = committed /\ begun' = begun
          /\ ret = "none" /\ ret' = ret
      BY <1>0, <1>12 DEF ReplayCheckpoint, ReplayCheckpointFails, HeaderInv, Replaying, Landed
    <2>3. pc' \in {"idle", "down"} /\ header' \in {header, NoBatch} /\ (pc' = "idle" => header' = NoBatch)
      BY <1>12 DEF ReplayCheckpoint, ReplayCheckpointFails, Refuse
    <2>4. QED
      BY <2>1, <2>2, <2>3 DEF HeaderInv, TornInv, Landed, Replaying
  <1>13. CASE UNCHANGED vars
    BY <1>0, <1>13 DEF vars, HeaderInv, TornInv, Replayable, CrcOk, Landed, Replaying
  <1>14. QED
    BY <1>1, <1>2, <1>3, <1>4, <1>5, <1>6, <1>7, <1>8, <1>9, <1>10,
       <1>11, <1>12, <1>13 DEF Next

THEOREM JournalInvariant ==
    ASSUME "dest" \notin FaultAt PROVE Spec => [](TypeOK /\ JournalInv)
  <1>1. Init => TypeOK /\ JournalInv
    BY InitProgress, InitJournalInv
  <1>2. TypeOK /\ JournalInv /\ [Next]_vars => (TypeOK /\ JournalInv)'
    BY NextProgress, NextJournalInv DEF JournalInv
  <1>3. QED
    BY <1>1, <1>2, PTL DEF Spec

THEOREM CommittedBatchSurvives ==
    ASSUME "dest" \notin FaultAt PROVE Spec => []CommittedReplayable
  <1>1. JournalInv => CommittedReplayable
    BY DEF JournalInv, HeaderInv, CommittedReplayable
  <1>2. QED
    BY <1>1, JournalInvariant, PTL

THEOREM NoTornBlockRead ==
    ASSUME "dest" \notin FaultAt PROVE Spec => []NoTornBlock
  <1>1. TypeOK /\ JournalInv => NoTornBlock
    BY DEF TypeOK, JournalInv, TornInv, NoTornBlock, Range
  <1>2. QED
    BY <1>1, JournalInvariant, PTL
-----------------------------------------------------------------------------
(* All or nothing: the proof of the refinement.                            *)

\* What the refinement mapping gives, point by point of the protocol.
PhaseAt ==
    /\ pc = "idle" => Phase = "idle"
    /\ pc \in {"payload", "header"} => Phase = "busy"
    /\ pc \in {"dest", "checkpoint"} => Phase = "landed"
    /\ pc \in {"down", "replay", "rcheckpoint", "rzero"} => Phase = "down"
RecoveredAt ==
    /\ pc \in {"idle", "payload", "header", "checkpoint", "rcheckpoint", "rzero"} =>
           Recovered = disk
    /\ pc \in {"dest", "checkpoint", "replay", "rcheckpoint"} =>
           /\ header \in Batch /\ CrcOk /\ batch = header
           /\ Recovered = Overlay(disk, header)
    /\ pc = "down" => Recovered = IF Replayable THEN Overlay(disk, header) ELSE disk

LEMMA MappingFacts == TypeOK /\ JournalInv => PhaseAt /\ RecoveredAt
  <1> SUFFICES ASSUME TypeOK, JournalInv PROVE PhaseAt /\ RecoveredAt
    OBVIOUS
  <1> USE BatchAssumption DEF JournalInv
  <1>1. pc \in {"dest", "checkpoint", "replay", "rcheckpoint"} =>
            /\ header \in Batch /\ CrcOk /\ batch = header
            /\ Recovered = Overlay(disk, header)
    BY InHandFacts DEF HeaderInv, InHand, Recovered, Replayable, Landed, Replaying
  <1>2. pc \in {"checkpoint", "rcheckpoint"} => Overlay(disk, header) = disk
    BY <1>1, AppliedOverlay DEF ProgressInv, DestsWritten
  <1>3. pc \in {"idle", "payload", "header", "rzero"} => Recovered = disk
    BY DEF HeaderInv, Recovered, Replayable, Landed, Replaying
  <1>4. pc = "down" => Recovered = IF Replayable THEN Overlay(disk, header) ELSE disk
    BY DEF Recovered, Replaying
  <1>5. PhaseAt
    BY DEF PhaseAt, TypeOK, Steps, Phase, Landed, Replaying
  <1>6. QED
    BY <1>1, <1>2, <1>3, <1>4, <1>5 DEF RecoveredAt

\* Writing into a destination of a batch does not show through its overlay.
LEMMA OverlayAbsorbs ==
    ASSUME NEW b \in Batch, NEW x \in DOMAIN b.data, NEW c,
           TypeOK, disk' = [disk EXCEPT ![x] = c]
    PROVE  Overlay(disk', b) = Overlay(disk, b)
  BY DEF TypeOK, Overlay

MappedInv == TypeOK /\ JournalInv /\ PhaseAt /\ RecoveredAt

\* Every step of the journal is a step of the atomic disk, or none.
LEMMA StepIsAtomic ==
    ASSUME "dest" \notin FaultAt, MappedInv, MappedInv', [Next]_vars
    PROVE  [Abs!Next]_(Abs!avars)
  <1> USE BatchAssumption, JournalAssumption
  <1>0. TypeOK /\ JournalInv /\ HeaderInv /\ PhaseAt /\ RecoveredAt /\ PhaseAt' /\ RecoveredAt'
    BY DEF MappedInv, JournalInv
  <1>1. ASSUME NEW b \in Batch, Commit(b) PROVE Abs!Begin(b)
    BY <1>0, <1>1 DEF Commit, PhaseAt, RecoveredAt, Abs!Begin
  <1>2. CASE WritePayload
    BY <1>0, <1>2 DEF WritePayload, PhaseAt, RecoveredAt, Abs!avars
  <1>3. ASSUME PayloadFails PROVE Abs!Return("err")
    BY <1>0, <1>3 DEF PayloadFails, Finish, PhaseAt, RecoveredAt, Abs!Return
  <1>4. ASSUME WriteHeader PROVE Abs!Land
    BY <1>0, <1>4 DEF WriteHeader, PhaseAt, RecoveredAt, Abs!Land, Abs!Overlay, Overlay
  <1>5. ASSUME HeaderFails PROVE Abs!Return("err")
    BY <1>0, <1>5 DEF HeaderFails, Finish, PhaseAt, RecoveredAt, Abs!Return
  <1>6. CASE WriteDest
    <2>1. Overlay(disk', header) = Overlay(disk, header)
      BY <1>0, <1>6, InHandFacts, BatchFacts, OverlayAbsorbs
      DEF WriteDest, RecoveredAt, JournalInv, InHand
    <2>2. QED
      BY <1>0, <1>6, <2>1 DEF WriteDest, PhaseAt, RecoveredAt, Abs!avars
  <1>7. CASE DestFails
    BY <1>7 DEF DestFails, Fault
  <1>8. ASSUME Checkpoint \/ CheckpointFails PROVE Abs!Return("ok")
    BY <1>0, <1>8 DEF Checkpoint, CheckpointFails, Finish, PhaseAt, RecoveredAt, Abs!Return
  <1>9. ASSUME Crash PROVE Abs!Crash \/ UNCHANGED Abs!avars
    <2>1. /\ pc' = "down" /\ header' = header /\ ret' = "none" /\ begun' = {}
          /\ Phase' = "down" /\ batch' = NoBatch
          /\ Recovered' = IF Replayable' THEN Overlay(disk', header) ELSE disk'
      BY <1>0, <1>9 DEF Crash, PhaseAt, RecoveredAt
    <2>2. CASE pc \in {"idle", "payload", "header"}
      <3>1. disk' = disk /\ Recovered = disk /\ Phase # "down"
        BY <1>0, <1>9, <2>2 DEF Crash, PhaseAt, RecoveredAt
      <3>2. Replayable' => header \in begun \/ Overlay(disk, header) = disk
        BY <1>0, <2>1, <2>2 DEF HeaderInv, Replayable
      <3>3. Recovered' = Recovered \/ (header \in begun /\ Recovered' = Overlay(Recovered, header))
        BY <2>1, <3>1, <3>2
      <3>4. QED
        BY <2>1, <3>1, <3>3 DEF Abs!Crash, Abs!Overlay, Overlay
    <2>3. CASE pc \in {"dest", "checkpoint", "replay", "rcheckpoint"}
      <3>1. header \in Batch /\ CrcOk /\ batch = header /\ jslot' = jslot
        BY <1>0, <1>9, <2>3 DEF Crash, RecoveredAt
      <3>2. Overlay(disk', header) = Overlay(disk, header)
        <4>1. batch.dest[k] \in DOMAIN header.data
          BY <1>0, <2>3, <3>1, InHandFacts, BatchFacts DEF JournalInv, InHand
        <4>2. QED
          BY <1>0, <1>9, <3>1, <4>1, OverlayAbsorbs DEF Crash
      <3>3. Replayable'
        BY <2>1, <3>1 DEF Replayable, CrcOk
      <3>4. Recovered' = Recovered
        BY <1>0, <2>1, <2>3, <3>2, <3>3 DEF RecoveredAt
      <3>5. CASE pc \in {"dest", "checkpoint"}
        BY <1>0, <2>1, <3>4, <3>5 DEF PhaseAt, Abs!Crash
      <3>6. CASE pc \in {"replay", "rcheckpoint"}
        BY <1>0, <1>9, <2>1, <3>4, <3>6 DEF Crash, PhaseAt, HeaderInv, Abs!avars, Replaying
      <3>7. QED
        BY <2>3, <3>5, <3>6
    <2>4. CASE pc = "rzero"
      BY <1>0, <1>9, <2>1, <2>4
      DEF Crash, PhaseAt, RecoveredAt, HeaderInv, Replaying, Replayable, CrcOk, Abs!avars
    <2>5. QED
      BY <1>0, <1>9, <2>2, <2>3, <2>4 DEF Crash, TypeOK, Steps
  <1>10. ASSUME Replay PROVE Abs!Mount \/ UNCHANGED Abs!avars
    BY <1>0, <1>10
    DEF Replay, PhaseAt, RecoveredAt, Replayable, CrcOk, Abs!Mount, Abs!avars
  <1>11. CASE ReplayDest \/ ReplayDestFails
    <2>1. PICK c : disk' = [disk EXCEPT ![batch.dest[k]] = c]
      BY <1>11 DEF ReplayDest, ReplayDestFails
    <2>2. pc = "replay" /\ header' = header /\ jslot' = jslot /\ ret' = ret /\ begun' = begun
      BY <1>11 DEF ReplayDest, ReplayDestFails
    <2>3. Overlay(disk', header) = Overlay(disk, header)
      BY <1>0, <2>1, <2>2, InHandFacts, BatchFacts, OverlayAbsorbs DEF RecoveredAt, JournalInv, InHand
    <2>4. pc' \in {"replay", "rcheckpoint", "down"}
      BY <1>11, <2>2 DEF ReplayDest, ReplayDestFails, Refuse
    <2>5. Replayable'
      BY <1>0, <2>2 DEF RecoveredAt, Replayable, CrcOk
    <2>6. Recovered' = Recovered /\ Phase' = Phase /\ Phase = "down"
      BY <1>0, <2>2, <2>3, <2>4, <2>5 DEF PhaseAt, RecoveredAt
    <2>7. QED
      BY <2>2, <2>6 DEF Abs!avars
  <1>12. ASSUME ReplayCheckpoint PROVE Abs!Mount
    BY <1>0, <1>12 DEF ReplayCheckpoint, PhaseAt, RecoveredAt, Abs!Mount
  <1>13. CASE ReplayCheckpointFails
    <2>1. /\ pc \in {"rcheckpoint", "rzero"} /\ pc' = "down" /\ header' \in {header, NoBatch}
          /\ disk' = disk /\ jslot' = jslot /\ ret' = ret /\ begun' = begun
      BY <1>13 DEF ReplayCheckpointFails, Refuse
    <2>2. Recovered' = Recovered
      BY <1>0, <2>1 DEF RecoveredAt, HeaderInv, Replayable, CrcOk
    <2>3. QED
      BY <1>0, <2>1, <2>2 DEF PhaseAt, Abs!avars
  <1>14. CASE UNCHANGED vars
    BY <1>14 DEF vars, Abs!avars, Phase, Recovered, Replayable, CrcOk, Landed, Replaying, Overlay
  <1>15. QED
    BY <1>1, <1>2, <1>3, <1>4, <1>5, <1>6, <1>7, <1>8, <1>9, <1>10,
       <1>11, <1>12, <1>13, <1>14 DEF Next, Abs!Next, Abs!Batch, Abs!BatchOf, Batch, BatchOf,
           Abs!Range, Range, Abs!IsInjective, IsInjective

\* osfs2_journal.h: a commit is all or nothing across a crash, and final once
\* it has returned 0.
THEOREM JournalIsAtomic ==
    ASSUME "dest" \notin FaultAt PROVE Spec => ImplementsAtomicDisk
  <1>1. Init => Abs!Init
    <2> SUFFICES ASSUME Init PROVE Abs!Init
      OBVIOUS
    <2>1. TypeOK /\ JournalInv
      BY InitProgress, InitJournalInv
    <2>2. QED
      BY <2>1, MappingFacts DEF Init, Abs!Init, PhaseAt, RecoveredAt
  <1>2. Spec => []MappedInv
    BY JournalInvariant, MappingFacts, PTL DEF MappedInv
  <1>3. MappedInv /\ MappedInv' /\ [Next]_vars => [Abs!Next]_(Abs!avars)
    BY StepIsAtomic
  <1>4. QED
    BY <1>1, <1>2, <1>3, PTL DEF Spec, Abs!Spec, ImplementsAtomicDisk
=============================================================================
