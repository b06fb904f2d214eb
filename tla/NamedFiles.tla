----------------------------- MODULE NamedFiles -----------------------------
(***************************************************************************)
(* What a directory of files promises: a name stands for a sequence of     *)
(* bytes, a descriptor for a name and a position in it, a write past the   *)
(* end leaves zeros in between, and whoever reads gets what was written    *)
(* there last.                                                             *)
(***************************************************************************)
EXTENDS Integers, Sequences

CONSTANTS Names, Fds, Bytes, Zero, NoFile, NoFd, Dead, Positions

VARIABLES files,    \* the contents of each name
          handles,  \* of each descriptor; Dead once its file is gone
          got       \* what the last call read

fileVars == <<files, handles, got>>

Init == files = [n \in Names |-> NoFile] /\ handles = [f \in Fds |-> NoFd] /\ got = <<>>

Usable(f) == handles[f] \notin {NoFd, Dead}
Contents(f) == files[handles[f].name]

\* The name is there afterwards, empty or as it was.
Open(n, f) ==
    /\ handles[f] = NoFd /\ got' = <<>>
    /\ \E s \in {<<>>, files[n]} \ {NoFile} :
          /\ files' = [files EXCEPT ![n] = s]
          /\ \E p \in {0, Len(s)} : handles' = [handles EXCEPT ![f] = [name |-> n, off |-> p]]

Close(f) == handles' = [handles EXCEPT ![f] = NoFd] /\ got' = <<>> /\ UNCHANGED files

\* b is written k times at the descriptor's position.
Write(f, b, k) ==
    LET s == Contents(f)
        p == handles[f].off
        end == IF p + k > Len(s) THEN p + k ELSE Len(s)
    IN  /\ Usable(f) /\ got' = <<>>
        /\ files' = [files EXCEPT ![handles[f].name] =
                       [i \in 1 .. end |-> IF i \in p + 1 .. p + k THEN b
                                           ELSE IF i <= Len(s) THEN s[i] ELSE Zero]]
        /\ handles' = [handles EXCEPT ![f].off = p + k]

Read(f) ==
    /\ Usable(f) /\ got' = SubSeq(Contents(f), handles[f].off + 1, Len(Contents(f)))
    /\ handles' = [handles EXCEPT ![f].off = @ + Len(got')]
    /\ UNCHANGED files

Seek(f) ==
    /\ Usable(f) /\ got' = <<>> /\ UNCHANGED files
    /\ \E p \in Positions : handles' = [handles EXCEPT ![f].off = p]

Unlink(n) ==
    /\ files' = [files EXCEPT ![n] = NoFile] /\ got' = <<>>
    /\ handles' = [f \in Fds |-> IF handles[f] \notin {NoFd, Dead} /\ handles[f].name = n THEN Dead
                                 ELSE handles[f]]

\* A call that fails.
Fail == got' = <<>> /\ UNCHANGED <<files, handles>>

Next ==
    \/ \E n \in Names : Unlink(n) \/ \E f \in Fds : Open(n, f)
    \/ \E f \in Fds : Close(f) \/ Read(f) \/ Seek(f) \/ \E b \in Bytes, k \in Positions : Write(f, b, k)
    \/ Fail

Spec == Init /\ [][Next]_fileVars
=============================================================================
