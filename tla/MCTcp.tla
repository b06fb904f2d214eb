------------------------------- MODULE MCTcp -------------------------------
(* TLC: rings of two bytes and segments of up to two; three bytes to the   *)
(* server, so that a window closes and a segment is taken in part, or one  *)
(* in each direction, or one on a connection whose SYN times out or whose  *)
(* sends may fail; the client's sequence numbers wrap.                     *)
EXTENDS Tcp, NetServices, TLC

CONSTANTS a, b, u, v

VARIABLE part

Scenario(c, s, E, F) ==
    [load |-> [client |-> c, server |-> s], early |-> E, fails |-> F]
MCScenarios == {Scenario(3, 0, {}, {}), Scenario(1, 1, {}, {}),
                Scenario(1, 0, {"client"}, {}),
                Scenario(1, 0, {}, {"client"}), Scenario(0, 1, {}, {"server"})}

\* TCP and the other protocols share nothing: one of them moves.
NetworkInit == part \in {"tcp", "resolver", "lease", "neighbours"} /\ Init /\ NetInit

Only(p) ==
    /\ part = p /\ UNCHANGED part
    /\ p # "tcp" => UNCHANGED vars
    /\ p = "tcp" => UNCHANGED netVars

NetworkNext ==
    \/ Only("tcp") /\ Next
    \/ Only("resolver") /\ DnsNext
    \/ Only("lease") /\ DhcpNext
    \/ Only("neighbours") /\ ArpNext

NetworkSpec == NetworkInit /\ [][NetworkNext]_<<part, vars, netVars>>

\* Threads are interchangeable, and so are names.
Symmetry == Permutations({a, b}) \union Permutations({u, v})
=============================================================================
