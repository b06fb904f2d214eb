---------------------------- MODULE ByteStreams ----------------------------
(***************************************************************************)
(* What a TCP connection promises the two programs that hold its sockets:  *)
(* a stream of bytes in each direction.  The k-th byte a host writes is    *)
(* the number k; the other host reads the bytes in order, each once, and   *)
(* reaches the end of the stream when it has read all of them and the      *)
(* writer has shut its socket down.  The only other way to an end is that  *)
(* the listener goes away before anyone has accepted the connection.       *)
(***************************************************************************)
EXTENDS Naturals, Sequences

CONSTANT Host, Peer(_),
         MaxWrite   \* bytes in one write

VARIABLES wrote,    \* how many bytes each host has written
          got,      \* what each host has read
          shut,     \* has it shut its socket down, or closed it?
          eof,      \* has it read the end of the stream?
          refused   \* was the connection refused after the handshake?

svars == <<wrote, got, shut, eof, refused>>

Init ==
    /\ wrote = [h \in Host |-> 0]
    /\ got = [h \in Host |-> <<>>]
    /\ shut = [h \in Host |-> FALSE]
    /\ eof = [h \in Host |-> FALSE]
    /\ refused = FALSE

Write(h) ==
    /\ ~shut[h]
    /\ \E n \in 1..MaxWrite : wrote' = [wrote EXCEPT ![h] = @ + n]
    /\ UNCHANGED <<got, shut, eof, refused>>

Read(h) ==
    /\ ~eof[h]
    /\ \E n \in Len(got[h]) + 1..wrote[Peer(h)] :
           got' = [got EXCEPT ![h] = [k \in 1..n |-> k]]
    /\ UNCHANGED <<wrote, shut, eof, refused>>

ReadEnd(h) ==
    /\ refused \/ (shut[Peer(h)] /\ Len(got[h]) = wrote[Peer(h)])
    /\ eof' = [eof EXCEPT ![h] = TRUE]
    /\ UNCHANGED <<wrote, got, shut, refused>>

Shut(h) ==
    /\ shut' = [shut EXCEPT ![h] = TRUE]
    /\ UNCHANGED <<wrote, got, eof, refused>>

Refuse ==
    /\ refused' = TRUE
    /\ UNCHANGED <<wrote, got, shut, eof>>

Next == Refuse \/ \E h \in Host : Write(h) \/ Read(h) \/ ReadEnd(h) \/ Shut(h)

Spec == Init /\ [][Next]_svars
=============================================================================
