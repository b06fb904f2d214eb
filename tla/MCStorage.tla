----------------------------- MODULE MCStorage -----------------------------
(* The file systems and the devices below them: the journal (MCJournal), the metadata of the    *)
(* volume above it, and /tmp; the queues and the start of the virtio drivers, and the keyboard. *)
(* The first state picks one, and only that one moves.                                          *)
EXTENDS MCJournal, Osfs2, TmpFs, Virtio, Keyboard

CONSTANTS n1, n2

VARIABLE part

StorageInit ==
    /\ part \in {"journal", "volume", "tmpfs", "receive", "transmit", "request", "bringup", "keyboard"}
    /\ Init /\ FsInit /\ TmpInit /\ VirtioInit /\ KeyboardInit
    /\ part # "receive" => ~rx.waits
    /\ part # "request" => ~rq.spins
    /\ part # "bringup" => up.drv = "blk" /\ up.has = {}
    /\ part # "journal" => \A b \in Block : disk[b] = v1

Only(p) ==
    /\ part = p /\ UNCHANGED part
    /\ p # "journal" => UNCHANGED vars
    /\ p # "volume" => UNCHANGED fsVars
    /\ p # "tmpfs" => UNCHANGED tmpVars
    /\ p # "receive" => UNCHANGED rx
    /\ p # "transmit" => UNCHANGED tx
    /\ p # "request" => UNCHANGED rq
    /\ p # "bringup" => UNCHANGED up
    /\ p # "keyboard" => UNCHANGED keyboardVars

\* The same machine is started again.
PowerCycle == up.over /\ up' \in {u \in UpStarts : u.drv = up.drv /\ u.has = up.has}

StorageNext ==
    \/ Only("journal") /\ Next
    \/ Only("volume") /\ FsNext
    \/ Only("tmpfs") /\ TmpNext
    \/ Only("receive") /\ RxNext
    \/ Only("transmit") /\ TxNext
    \/ Only("request") /\ ReqNext
    \/ Only("bringup") /\ (UpNext \/ PowerCycle)
    \/ Only("keyboard") /\ KeyboardNext

StorageSpec == StorageInit /\ [][StorageNext]_<<part, vars, fsVars, tmpVars, virtioVars, keyboardVars>>
=============================================================================
