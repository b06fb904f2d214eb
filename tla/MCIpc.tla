------------------------------- MODULE MCIpc -------------------------------
(***************************************************************************)
(* What processes reach each other through, on small instances, in one     *)
(* run: the descriptors and their objects, the /srv name bus, and the      *)
(* calls to file-system daemons share no state, so the first step picks    *)
(* one of them and only that one moves.                                    *)
(***************************************************************************)
EXTENDS Descriptors, Srv, Userfs

CONSTANTS p1, p2, q1, y1, u1,   \* processes, a pipe, a pty, a channel
          s1, a, b, n1, k1, k2, \* a service, two clients, its name, connections
          f1, f2                \* two mounted file systems

VARIABLE part

AllCalls == [p \in {p1, p2} |->
    {"close", "exit"} \union
    (IF p = p1 THEN {"pipe", "openpty", "open", "dup2", "fork", "spawn_pipe", "spawn_redir", "clone"}
               ELSE {})]
KernelKind == EntryKind \ {"userfs"}
AnyCall == {"connect", "accept", "read", "write"}
Symmetry == Permutations({a, b}) \union Permutations({k1, k2})

Init == /\ part \in {"descriptors", "srv", "daemons"}
        /\ DescInit /\ SrvInit /\ UfsInit

Next ==
    \/ part = "descriptors" /\ DescNext /\ UNCHANGED <<part, srvVars, ufsVars>>
    \/ part = "srv" /\ SrvNext /\ UNCHANGED <<part, descVars, ufsVars>>
    \/ part = "daemons" /\ UfsNext /\ UNCHANGED <<part, descVars, srvVars>>

Spec == Init /\ [][Next]_<<part, descVars, srvVars, ufsVars>>

\* The types and the properties of the part that moves.
TypeOK == /\ part = "descriptors" => DescTypeOK
          /\ part = "srv" => SrvTypeOK
          /\ part = "daemons" => UfsTypeOK
=============================================================================
