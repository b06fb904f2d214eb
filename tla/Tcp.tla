-------------------------------- MODULE Tcp --------------------------------
(***************************************************************************)
(* kernel/core/tcp.c: one connection from a client to a server that        *)
(* listens, both running this stack, over a network that loses and         *)
(* reorders segments.                                                      *)
(*                                                                         *)
(* A step is one call into tcp.c: a system call, tcp_handle of one         *)
(* segment, or what tcp_poll does to one connection.  The poll counter     *)
(* that stands for time is left out: the retransmission timer of a         *)
(* connection may fire at any moment at which it is armed.  A byte is its  *)
(* number in its stream, and sequence numbers wrap at Modulus for 2^32.     *)
(***************************************************************************)
EXTENDS Integers, SequencesExt, FiniteSetsExt

CONSTANTS Modulus,      \* 2^32
          BufSize,      \* TCP_BUF_SIZE, of either ring and the widest window
          Mss,          \* TCP_MSS
          TxMax,        \* TCP_TX_MAX, bytes in a segment
          ClientIss, ServerIss,      \* what fresh_isn returned
          Scenarios,    \* bound: how many bytes each program writes, the hosts
                        \* whose timer may fire during the handshake, and
                        \* those on which tcp_tx may fail
          NetCap,       \* bound: segments in flight
          NoConn

ASSUME TcpAssumption ==
    /\ {Modulus, BufSize, Mss, TxMax, NetCap} \subseteq Nat \ {0}
    /\ Scenarios \subseteq [load : [{"client", "server"} -> Nat],
                           early : SUBSET {"client", "server"},
                           fails : SUBSET {"client", "server"}]
    /\ {ClientIss, ServerIss} \subseteq 0..Modulus - 1
    /\ TxMax <= Mss /\ Mss <= BufSize /\ 2 * BufSize + 2 < Modulus

Host == {"client", "server"}
Peer(h) == IF h = "client" THEN "server" ELSE "client"
Iss(h) == IF h = "client" THEN ClientIss ELSE ServerIss

Handshake == {"SYN_SENT", "SYN_RECEIVED"}
Closing == {"FIN_WAIT_1", "LAST_ACK"}
State == Handshake \union Closing \union
         {"ESTABLISHED", "CLOSE_WAIT", "FIN_WAIT_2", "TIME_WAIT", "CLOSED"}

Seq32 == 0..Modulus - 1
Bytes == Seq(Nat \ {0})

(* struct tcp_conn *)
Conn == [state : State, una : Seq32, nxt : Seq32, wnd : 0..BufSize,
         rcvNxt : Seq32, tx : Bytes, rx : Bytes,
         finSent : BOOLEAN, finAcked : BOOLEAN, peerFin : BOOLEAN,
         reset : BOOLEAN, userClosed : BOOLEAN]

ASSUME NoConnAssumption == NoConn \notin Conn

(* Bound, of the proofs: no stream runs through all the sequence numbers.  *)
(* The network may deliver a segment after any time, as a real one may     *)
(* not; the numbers of a longer stream would mean two bytes then.          *)
ASSUME StreamsFit == \A b \in Scenarios : \A h \in Host : b.load[h] + 2 < Modulus

VARIABLES
    conn,      \* the struct tcp_conn of each host, or NoConn
    fd,        \* its socket: "none", "connecting", "open", "shut" or "closed"
    listener,  \* the server's listening socket: "none", "listening" or "closed"
    queued,    \* is the server's connection in the accept queue?
    spawned,   \* bound: the listener makes one child
    net,       \* the segments in flight
    wrote, got, eof, refused,   \* the streams, see ByteStreams
    early,     \* did the timer rewind snd_nxt during the handshake?
    failed     \* did the last tcp_drain_tx stop because a send failed?

socks == <<fd, listener, queued, spawned>>
streams == <<wrote, got, eof, refused>>
vars == <<conn, fd, listener, queued, spawned, net, wrote, got, eof, refused, early, failed>>

Init ==
    /\ conn = [h \in Host |-> NoConn]
    /\ fd = [h \in Host |-> "none"]
    /\ listener = "none"
    /\ queued = FALSE
    /\ spawned = FALSE
    /\ net = {}
    /\ wrote = [h \in Host |-> 0]
    /\ got = [h \in Host |-> <<>>]
    /\ eof = [h \in Host |-> FALSE]
    /\ refused = FALSE
    /\ early = [h \in Host |-> FALSE]
    /\ failed = [h \in Host |-> FALSE]

Plus(a, n) == (a + n) % Modulus
Minus(a, b) == (a - b) % Modulus

-----------------------------------------------------------------------------
(* Segments *)

Segment(h, c, flags, seq, data) ==
    [to |-> Peer(h), flags |-> flags, seq |-> seq, ack |-> c.rcvNxt,
     wnd |-> BufSize - Len(c.rx), data |-> data]

Ack(h, c) == Segment(h, c, {"ACK"}, c.nxt, <<>>)

(* The sends of a step, from base; a step that would overfill the network  *)
(* waits until something is lost.                                          *)
Emit(base, out) ==
    /\ Cardinality(base \union out) <= NetCap
    /\ net' = base \union out

(* Segment s arrives.  It arrives again only if it is sent again: the      *)
(* timer sends everything again at any moment.                             *)
Delivered(s, out) == Emit(net \ {s}, out)

(* tcp_drain_tx, whose sends of data fail after the first n: what is sent  *)
(* now, the connection afterwards, and whether a send failed.  What became *)
(* of the FIN is not looked at.                                            *)
Drain(h, c, n) ==
    LET off == Minus(c.nxt, c.una)
        wnd == IF c.wnd = 0 THEN 1 ELSE c.wnd
        end == Min({Len(c.tx), wnd})
        last == IF off < end THEN Min({end, off + n * TxMax}) ELSE off
        data == {Segment(h, c, {"ACK"}, Plus(c.una, i),
                         SubSeq(c.tx, i + 1, Min({i + TxMax, last}))) :
                    i \in {j \in off..last - 1 : (j - off) % TxMax = 0}}
        fin == ~c.finSent /\ c.state \in Closing /\ last >= Len(c.tx)
        nxt == Plus(c.una, last)
    IN  IF fin
        THEN [c |-> [c EXCEPT !.nxt = Plus(nxt, 1), !.finSent = TRUE],
              out |-> data \union {Segment(h, c, {"ACK", "FIN"}, nxt, <<>>)},
              failed |-> FALSE]
        ELSE [c |-> [c EXCEPT !.nxt = nxt], out |-> data, failed |-> last < end]

(* How many sends of data succeed: a full ring needs the last of these.    *)
SendCounts(h) ==
    IF \E b \in Scenarios : h \in b.fails /\ \A g \in Host : wrote[g] <= b.load[g]
    THEN { n \in 0..BufSize : n = 0 \/ (n - 1) * TxMax < BufSize }
    ELSE {BufSize}

Fresh(h, state, rcvNxt, wnd) ==
    [state |-> state, una |-> Iss(h), nxt |-> Plus(Iss(h), 1), wnd |-> wnd,
     rcvNxt |-> rcvNxt, tx |-> <<>>, rx |-> <<>>, finSent |-> FALSE,
     finAcked |-> FALSE, peerFin |-> FALSE, reset |-> FALSE, userClosed |-> FALSE]

Set(h, c) == conn' = [conn EXCEPT ![h] = c]

(* The end of a step that leaves c to tcp_drain_tx and sends out as well.  *)
DrainTx(h, c, base, out) ==
    \E n \in SendCounts(h) :
        LET d == Drain(h, c, n)
        IN  /\ Set(h, d.c)
            /\ Emit(base, d.out \union out)
            /\ failed' = [failed EXCEPT ![h] = d.failed]

\* Bound, of the steps that write or that rewind during the handshake.
WithinBounds ==
    \E b \in Scenarios : \A h \in Host :
        /\ wrote'[h] <= b.load[h]
        /\ early'[h] => h \in b.early
        /\ failed[h] => h \in b.fails

-----------------------------------------------------------------------------
(* System calls *)

Connect ==
    /\ fd["client"] = "none"
    /\ fd' = [fd EXCEPT !["client"] = "connecting"]
    /\ LET c == Fresh("client", "SYN_SENT", 0, BufSize)
       IN  Set("client", c) /\ Emit(net, {Segment("client", c, {"SYN"}, c.una, <<>>)})
    /\ UNCHANGED <<listener, queued, spawned, streams, early, failed>>

Connected ==
    /\ fd["client"] = "connecting"
    /\ conn["client"].state = "ESTABLISHED"
    /\ fd' = [fd EXCEPT !["client"] = "open"]
    /\ UNCHANGED <<conn, listener, queued, spawned, net, streams, early, failed>>

Listen ==
    /\ listener = "none"
    /\ listener' = "listening"
    /\ UNCHANGED <<conn, fd, queued, spawned, net, streams, early, failed>>

Accept ==
    /\ listener = "listening" /\ queued
    /\ queued' = FALSE
    /\ fd' = [fd EXCEPT !["server"] = "open"]
    /\ UNCHANGED <<conn, listener, spawned, net, streams, early, failed>>

(* tcp_close of the connection of h                                        *)
CloseConn(h) ==
    LET c == conn[h]
        next == CASE c.state = "ESTABLISHED" -> "FIN_WAIT_1"
                  [] c.state = "CLOSE_WAIT" -> "LAST_ACK"
                  [] OTHER -> c.state
    IN  IF c = NoConn THEN UNCHANGED <<conn, net, failed>>
        ELSE IF c.state = "CLOSED" THEN Set(h, NoConn) /\ UNCHANGED <<net, failed>>
        ELSE IF next = c.state
             THEN Set(h, [c EXCEPT !.userClosed = TRUE]) /\ UNCHANGED <<net, failed>>
             ELSE DrainTx(h, [c EXCEPT !.userClosed = TRUE, !.state = next], net, {})

(* A program shuts a socket down once.                                     *)
Shutdown(h) ==
    /\ fd[h] = "open"
    /\ CloseConn(h)
    /\ fd' = [fd EXCEPT ![h] = "shut"]
    /\ UNCHANGED <<listener, queued, spawned, streams, early>>

Close(h) ==
    /\ fd[h] \in {"open", "shut"}
    /\ CloseConn(h)
    /\ fd' = [fd EXCEPT ![h] = "closed"]
    /\ UNCHANGED <<listener, queued, spawned, streams, early>>

(* sys_socket_connect that sees CLOSED, or has polled too often without    *)
(* seeing ESTABLISHED, returns -EIO.                                       *)
ConnectFails ==
    /\ fd["client"] = "connecting"
    /\ conn["client"].state # "ESTABLISHED"
    /\ CloseConn("client")
    /\ fd' = [fd EXCEPT !["client"] = "closed"]
    /\ UNCHANGED <<listener, queued, spawned, streams, early>>

(* Once the child is accepted this touches nothing but the listener.       *)
CloseListener ==
    /\ listener = "listening" /\ fd["server"] = "none"
    /\ listener' = "closed"
    /\ queued' = FALSE
    /\ LET c == conn["server"]
       IN  IF queued
           THEN /\ Set("server", NoConn)
                /\ Emit(net, {Segment("server", c, {"RST", "ACK"}, c.nxt, <<>>)})
                /\ refused' = TRUE
           ELSE UNCHANGED <<conn, net, refused>>
    /\ UNCHANGED <<fd, spawned, wrote, got, eof, early, failed>>

Send(h) ==
    /\ fd[h] = "open" /\ conn[h] # NoConn
    /\ conn[h].state \in {"ESTABLISHED", "CLOSE_WAIT"}
    /\ \E n \in 1..BufSize - Len(conn[h].tx) :
           /\ DrainTx(h, [conn[h] EXCEPT !.tx = @ \o [k \in 1..n |-> wrote[h] + k]], net, {})
           /\ wrote' = [wrote EXCEPT ![h] = @ + n]
    /\ UNCHANGED <<socks, got, eof, refused, early>>
    /\ WithinBounds

(* tcp_recv of n bytes, with its window update.                            *)
Recv(h) ==
    /\ fd[h] \in {"open", "shut"} /\ conn[h] # NoConn
    /\ ~conn[h].reset
    /\ \E n \in 1..Len(conn[h].rx) :
           LET c == [conn[h] EXCEPT !.rx = SubSeq(@, n + 1, Len(@))]
               before == BufSize - Len(conn[h].rx)
               opens == n >= Mss \/ (before < Mss /\ before + n >= Mss)
           IN  /\ Set(h, c)
               /\ IF opens /\ c.state \in {"ESTABLISHED", "FIN_WAIT_1", "FIN_WAIT_2"}
                  THEN Emit(net, {Ack(h, c)})
                  ELSE UNCHANGED net
               /\ got' = [got EXCEPT ![h] = @ \o SubSeq(conn[h].rx, 1, n)]
    /\ UNCHANGED <<socks, wrote, eof, refused, early, failed>>

(* vfs_read that returns 0: tcp_eof also holds of a released connection.   *)
RecvEnd(h) ==
    /\ fd[h] \in {"open", "shut"}
    /\ ~eof[h]
    /\ conn[h] # NoConn => conn[h].peerFin /\ conn[h].rx = <<>>
    /\ eof' = [eof EXCEPT ![h] = TRUE]
    /\ UNCHANGED <<conn, socks, net, wrote, got, refused, early, failed>>

-----------------------------------------------------------------------------
(* tcp_handle *)

(* apply_ack                                                               *)
Acked(c, ack) ==
    LET flight == Minus(c.nxt, c.una)
        acked == Minus(ack, c.una)
        dataFlight == IF c.finSent /\ flight > Len(c.tx) THEN flight - 1 ELSE flight
    IN  IF acked = 0 \/ acked > flight THEN c
        ELSE [c EXCEPT !.tx = SubSeq(@, Min({acked, dataFlight}) + 1, Len(@)),
                       !.una = ack,
                       !.finAcked = @ \/ (c.finSent /\ ack = c.nxt)]

\* Mutant: the sequence number is not looked at.
TakeData_AnyOrder(c, s) ==
    LET n == Min({Len(s.data), BufSize - Len(c.rx)})
    IN  [c EXCEPT !.rx = @ \o SubSeq(s.data, 1, n), !.rcvNxt = Plus(@, n)]

\* Mutant: what did not fit is acknowledged with the rest.
TakeData_AcksAll(c, s) ==
    IF s.seq # c.rcvNxt THEN c
    ELSE LET n == Min({Len(s.data), BufSize - Len(c.rx)})
         IN  [c EXCEPT !.rx = @ \o SubSeq(s.data, 1, n), !.rcvNxt = Plus(@, Len(s.data))]

TakeData(c, s) ==
    IF s.seq # c.rcvNxt THEN c
    ELSE LET n == Min({Len(s.data), BufSize - Len(c.rx)})
         IN  [c EXCEPT !.rx = @ \o SubSeq(s.data, 1, n), !.rcvNxt = Plus(@, n)]

TakeFin(c, s) ==
    IF "FIN" \notin s.flags \/ Plus(s.seq, Len(s.data)) # c.rcvNxt THEN c
    ELSE [c EXCEPT !.rcvNxt = Plus(@, 1),
                   !.peerFin = TRUE,
                   !.state = CASE @ = "ESTABLISHED" -> "CLOSE_WAIT"
                               [] @ = "FIN_WAIT_2" -> "TIME_WAIT"
                               [] @ = "FIN_WAIT_1" /\ c.finAcked -> "TIME_WAIT"
                               [] @ = "FIN_WAIT_1" /\ ~c.finAcked -> "LAST_ACK"
                               [] OTHER -> @]

Settle(c) ==
    [c EXCEPT !.state = CASE @ = "FIN_WAIT_1" /\ c.finAcked -> "FIN_WAIT_2"
                          [] @ = "LAST_ACK" /\ c.finAcked -> "CLOSED"
                          [] @ = "TIME_WAIT" -> "CLOSED"
                          [] OTHER -> @]

(* A handshake segment that advertises no window is taken to mean a full   *)
(* one.                                                                    *)
FirstWindow(s) == IF s.wnd = 0 THEN BufSize ELSE s.wnd

Spawn(s) ==
    /\ s.to = "server" /\ s.flags = {"SYN"}
    /\ conn["server"] = NoConn
    /\ listener = "listening" /\ ~spawned
    /\ spawned' = TRUE
    /\ LET c == Fresh("server", "SYN_RECEIVED", Plus(s.seq, 1), FirstWindow(s))
       IN  /\ Set("server", c)
           /\ Delivered(s, {Segment("server", c, {"SYN", "ACK"}, c.una, <<>>)})
    /\ UNCHANGED <<fd, listener, queued, streams, early, failed>>

HandleReset(h, s) ==
    /\ "RST" \in s.flags
    /\ Set(h, [conn[h] EXCEPT !.reset = TRUE, !.state = "CLOSED"])
    /\ Delivered(s, {})
    /\ UNCHANGED <<socks, streams, early, failed>>

HandleSynSent(h, s) ==
    /\ conn[h].state = "SYN_SENT"
    /\ s.flags = {"SYN", "ACK"} /\ s.ack = Plus(Iss(h), 1)
    /\ LET c == [conn[h] EXCEPT !.rcvNxt = Plus(s.seq, 1), !.una = s.ack,
                                !.wnd = FirstWindow(s),
                                !.state = "ESTABLISHED"]
       IN  Set(h, c) /\ Delivered(s, {Ack(h, c)})
    /\ UNCHANGED <<socks, streams, early, failed>>

(* The last ACK of the handshake: the child is queued, or reset when the   *)
(* listener is gone.                                                       *)
HandleSynReceived(h, s) ==
    /\ conn[h].state = "SYN_RECEIVED"
    /\ "ACK" \in s.flags /\ "RST" \notin s.flags /\ s.ack = Plus(Iss(h), 1)
    /\ LET c == [conn[h] EXCEPT !.una = s.ack, !.state = "ESTABLISHED",
                                !.wnd = FirstWindow(s)]
       IN  IF listener = "listening"
           THEN /\ queued' = TRUE
                /\ Set(h, c)
                /\ Delivered(s, {})
                /\ UNCHANGED refused
           ELSE /\ refused' = TRUE
                /\ Set(h, NoConn)
                /\ Delivered(s, {Segment(h, c, {"RST", "ACK"}, c.nxt, <<>>)})
                /\ UNCHANGED queued
    /\ UNCHANGED <<fd, listener, spawned, wrote, got, eof, early, failed>>

HandleSegment(h, s) ==
    /\ conn[h].state \notin Handshake
    /\ "ACK" \in s.flags /\ "RST" \notin s.flags
    /\ LET acked == Acked([conn[h] EXCEPT !.wnd = IF s.wnd = 0 THEN 1 ELSE s.wnd], s.ack)
           c == TakeFin(TakeData(acked, s), s)
           answers == s.data # <<>> \/ "FIN" \in s.flags
       IN  DrainTx(h, Settle(c), net \ {s}, IF answers THEN {Ack(h, c)} ELSE {})
    /\ UNCHANGED <<socks, streams, early>>

Handle(s) ==
    \/ Spawn(s)
    \/ /\ conn[s.to] # NoConn
       /\ \/ HandleReset(s.to, s)
          \/ HandleSynSent(s.to, s)
          \/ HandleSynReceived(s.to, s)
          \/ HandleSegment(s.to, s)

(* What nobody handles is dropped, too.                                    *)
Lose(s) ==
    /\ net' = net \ {s}
    /\ UNCHANGED <<conn, socks, streams, early, failed>>

-----------------------------------------------------------------------------
(* tcp_poll *)

Reap(h) ==
    /\ conn[h] # NoConn
    /\ conn[h].userClosed /\ conn[h].state = "CLOSED" /\ conn[h].rx = <<>>
    /\ Set(h, NoConn)
    /\ UNCHANGED <<socks, net, streams, early, failed>>

\* Mutant: a FIN in flight is not sent again.
Rewind_KeepsFin(h) ==
    /\ conn[h] # NoConn
    /\ conn[h].state # "CLOSED" /\ conn[h].nxt # conn[h].una
    /\ DrainTx(h, [conn[h] EXCEPT !.nxt = conn[h].una], net, {})
    /\ early' = [early EXCEPT ![h] = @ \/ conn[h].state \in Handshake]
    /\ UNCHANGED <<socks, streams>>
    /\ WithinBounds

(* The timer fires with something unacknowledged, the SYN included, ...    *)
Rewind(h) ==
    /\ conn[h] # NoConn
    /\ conn[h].state # "CLOSED" /\ conn[h].nxt # conn[h].una
    /\ LET c == conn[h]
           finInFlight == c.finSent /\ Minus(c.nxt, c.una) > Len(c.tx)
       IN  DrainTx(h, [c EXCEPT !.nxt = c.una, !.finSent = @ /\ ~finInFlight], net, {})
    /\ early' = [early EXCEPT ![h] = @ \/ conn[h].state \in Handshake]
    /\ UNCHANGED <<socks, streams>>
    /\ WithinBounds

(* ... and, when that has put snd_nxt back, again for the SYN.             *)
ResendSyn(h) ==
    /\ conn[h] # NoConn
    /\ conn[h].state \in Handshake
    /\ conn[h].nxt = conn[h].una
    /\ LET flags == IF conn[h].state = "SYN_SENT" THEN {"SYN"} ELSE {"SYN", "ACK"}
       IN  Emit(net, {Segment(h, conn[h], flags, Iss(h), <<>>)})
    /\ UNCHANGED <<conn, socks, streams, early, failed>>

-----------------------------------------------------------------------------
Next ==
    \/ Connect \/ Connected \/ ConnectFails
    \/ Listen \/ Accept \/ CloseListener
    \/ \E h \in Host :
           \/ Send(h) \/ Recv(h) \/ RecvEnd(h) \/ Shutdown(h) \/ Close(h)
           \/ Reap(h) \/ Rewind(h) \/ ResendSyn(h)
    \/ \E s \in net : Handle(s) \/ Lose(s)

Spec == Init /\ [][Next]_vars

-----------------------------------------------------------------------------
TypeOK ==
    /\ \A h \in Host :
           /\ conn[h] # NoConn => Len(conn[h].tx) <= BufSize /\ Len(conn[h].rx) <= BufSize
           /\ conn[h] = NoConn \/ conn[h] \in Conn
           /\ fd[h] \in {"none", "connecting", "open", "shut", "closed"}
           /\ wrote[h] \in Nat
           /\ {eof[h], early[h], failed[h]} \subseteq BOOLEAN
    /\ listener \in {"none", "listening", "closed"}
    /\ queued => conn["server"] # NoConn
    /\ Cardinality(net) <= NetCap

(* The streams the programs see, whatever the network does.                *)
Streams == INSTANCE ByteStreams WITH
    MaxWrite <- BufSize,
    shut <- [h \in Host |-> fd[h] \in {"shut", "closed"}]

ImplementsByteStreams == Streams!Spec

(* apply_ack: a byte leaves the ring of the sender only when the receiver  *)
(* has it.                                                                 *)
AckedIsReceived ==
    \A h \in Host : LET p == Peer(h)
                    IN  conn[h] # NoConn /\ conn[p] # NoConn =>
                            wrote[h] - Len(conn[h].tx) <= Len(got[p]) + Len(conn[p].rx)

(* A FIN counts as acknowledged only when the peer has seen the end of the *)
(* stream.                                                                 *)
AckedFinIsSeen ==
    \A h \in Host : LET p == Peer(h)
                    IN  conn[h] # NoConn /\ conn[p] # NoConn /\ ~early[h] =>
                            (conn[h].finAcked => conn[p].peerFin)

(* What counts as acknowledged has arrived, bytes and FIN, whatever the    *)
(* timer has put back meanwhile.                                           *)
AcksAreTrue == TypeOK /\ AckedIsReceived /\ AckedFinIsSeen

(* tcp_poll: "Retransmit if anything's been unacked too long", for which   *)
(* something must count as in flight.  While bytes or the FIN are          *)
(* unacknowledged that is so, unless the last tcp_drain_tx was stopped by  *)
(* a send that failed, or the SYN was once retransmitted: both leave a     *)
(* connection without a timer, as the README discusses.                    *)
TimerArmed ==
    \A h \in Host :
        LET c == conn[h]
        IN  /\ c # NoConn
            /\ ~failed[h] /\ ~early[h]
            /\ c.tx # <<>> \/ (c.state \in Closing /\ ~c.finAcked)
            => c.nxt # c.una
=============================================================================
