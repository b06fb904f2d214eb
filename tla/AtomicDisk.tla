----------------------------- MODULE AtomicDisk -----------------------------
(***************************************************************************)
(* What osfs2_journal promises its caller (kernel/core/osfs2_journal.h):   *)
(* a batch of (block, contents) pairs lands on the disk as a whole or not  *)
(* at all, whatever the moment at which the machine stops, and a batch     *)
(* whose commit returned 0 is on the disk for good.                        *)
(*                                                                         *)
(* A batch that was handed over but did not land (the commit returned -1   *)
(* or the machine stopped first) may still surface, as a whole, at the     *)
(* next mount; after any later batch has landed it may not.                *)
(***************************************************************************)
EXTENDS Batches

VARIABLES durable,  \* contents of every destination block after recovery
          begun,    \* batches handed over since the last one that landed
          cur,      \* the batch of the commit in progress, or NoBatch
          st,       \* "idle" | "busy" | "landed" | "down"
          ret       \* what the last commit returned: "none" | "ok" | "err"

avars == <<durable, begun, cur, st, ret>>

Init ==
    /\ durable \in [Block -> Value]
    /\ begun = {}
    /\ cur = NoBatch
    /\ st = "idle"
    /\ ret = "none"

Begin(b) ==
    /\ st = "idle"
    /\ begun' = begun \union {b}
    /\ cur' = b
    /\ st' = "busy"
    /\ ret' = "none"
    /\ UNCHANGED durable

\* Mutant: a batch that failed earlier can still be replayed over this one.
Land_OldReplayable ==
    /\ st = "busy"
    /\ durable' = Overlay(durable, cur)
    /\ begun' = begun \ {cur}
    /\ st' = "landed"
    /\ UNCHANGED <<cur, ret>>

Land ==
    /\ st = "busy"
    /\ durable' = Overlay(durable, cur)
    /\ begun' = {}
    /\ st' = "landed"
    /\ UNCHANGED <<cur, ret>>

Return(r) ==
    /\ st = "landed" \/ (st = "busy" /\ r = "err")
    /\ st' = "idle"
    /\ cur' = NoBatch
    /\ ret' = r
    /\ UNCHANGED <<durable, begun>>

Crash ==
    /\ st # "down"
    /\ \/ durable' = durable
       \/ \E b \in begun : durable' = Overlay(durable, b)
    /\ begun' = {}
    /\ cur' = NoBatch
    /\ st' = "down"
    /\ ret' = "none"

Mount ==
    /\ st = "down"
    /\ st' = "idle"
    /\ UNCHANGED <<durable, begun, cur, ret>>

Next ==
    \/ \E b \in Batch : Begin(b)
    \/ Land
    \/ \E r \in {"ok", "err"} : Return(r)
    \/ Crash
    \/ Mount

Spec == Init /\ [][Next]_avars
=============================================================================
