------------------------------- MODULE MCSrv -------------------------------
(* A small instance of Srv: one service, two clients, queues of one entry  *)
(* so that they fill up.                                                   *)
EXTENDS Srv, TLC

CONSTANTS s1, c1, c2, n1, k1, k2

OneService == {s1}
MCClient == {c1, c2}
MCName == {n1}
MCConn == {k1, k2}

AnyCall == {"connect", "accept", "read", "write"}
Uninterrupted == {}

Symmetry == Permutations(MCClient) \union Permutations(MCConn)
=============================================================================
