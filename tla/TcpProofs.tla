----------------------------- MODULE TcpProofs -----------------------------
(***************************************************************************)
(* Two TCP connections over a network that loses, delays, repeats and      *)
(* reorders segments give their programs two byte streams, for rings,      *)
(* segments and sequence spaces of any size, any initial sequence numbers, *)
(* and streams that do not run through all the numbers (StreamsFit).       *)
(***************************************************************************)
EXTENDS Tcp, FiniteSetTheorems, SequenceTheorems, WellFoundedInduction, TLAPS

(***************************************************************************)
(* The numbers.                                                            *)
(***************************************************************************)
\* The number of the byte k + 1 of the stream of h, of its FIN when it wrote k bytes, of its SYN when k is -1.
SeqNo(h, k) == Plus(Iss(h) + 1, k)

(***************************************************************************)
(* A connection that sends: c is that of h, w what its program has written. *)
(***************************************************************************)
Sized(c) == c \in Conn /\ Len(c.tx) <= BufSize /\ Len(c.rx) <= BufSize

\* How many bytes have left the ring.
Freed(c, w) == w - Len(c.tx)

Ring(c, w) == Len(c.tx) <= w /\ \A i \in 1 .. Len(c.tx) : c.tx[i] = Freed(c, w) + i

\* Bytes on the way, and no FIN.
Flowing(h, c, w) ==
    /\ ~c.finSent /\ ~c.finAcked /\ c.una = SeqNo(h, Freed(c, w))
    /\ \E n \in Freed(c, w) .. w : c.nxt = SeqNo(h, n)

\* The FIN is on the way, or acknowledged.
Ending(h, c, w) == c.finSent /\ ~c.finAcked /\ c.una = SeqNo(h, Freed(c, w)) /\ c.nxt = SeqNo(h, w + 1)
Ended(h, c, w) == c.finSent /\ c.finAcked /\ c.tx = <<>> /\ c.una = SeqNo(h, w + 1) /\ c.nxt = SeqNo(h, w + 1)

\* During the handshake the timer put snd_nxt back to the SYN, and nothing was sent since.
Rewound(h, c, w) ==
    ~c.finSent /\ ~c.finAcked /\ Freed(c, w) = 0 /\ c.una = SeqNo(h, 0) /\ c.nxt = SeqNo(h, -1)

\* The FIN was sent then, with the number of the SYN; it is never sent again.
FinLost(h, c, w) ==
    /\ c.finSent /\ c.una = SeqNo(h, Freed(c, w))
    /\ \E n \in Freed(c, w) .. w : c.nxt = SeqNo(h, n)

Prompt(h, c, w) == Flowing(h, c, w) \/ Ending(h, c, w) \/ Ended(h, c, w)
Numbered(h, c, w) == Prompt(h, c, w) \/ Rewound(h, c, w) \/ FinLost(h, c, w)

\* The SYN is not acknowledged.
Greeting(h, c, w) ==
    /\ w = 0 /\ ~c.finSent /\ ~c.finAcked
    /\ c.una = SeqNo(h, -1) /\ c.nxt \in {SeqNo(h, -1), SeqNo(h, 0)}

\* The timer is armed.
Armed(c) == c.tx # <<>> \/ (c.state \in Closing /\ ~c.finAcked) => c.nxt # c.una

(***************************************************************************)
(* A connection that receives: c is that of h, whose peer p has written w   *)
(* bytes, of which the program of h has read g.                            *)
(***************************************************************************)
Count(c, g) == g + Len(c.rx)
Arrived(c, g) == IF c.peerFin THEN Count(c, g) + 1 ELSE Count(c, g)

Reading(p, c, g, w) ==
    /\ c.state # "SYN_SENT" => c.rcvNxt = SeqNo(p, Arrived(c, g))
    /\ c.state = "SYN_SENT" => Arrived(c, g) = 0
    /\ Count(c, g) <= w /\ \A i \in 1 .. Len(c.rx) : c.rx[i] = g + i
    /\ c.peerFin => Count(c, g) = w

(***************************************************************************)
(* The invariant.                                                          *)
(***************************************************************************)
Live(h) == conn[h] # NoConn
Opened(h) == Live(h) /\ conn[h].state \notin Handshake
Knows(h) == Live(h) /\ conn[h].state # "SYN_SENT"
Shut(h) == fd[h] \in {"shut", "closed"}

Flags == {"SYN", "ACK", "FIN", "RST"}
Segments == [to : Host, flags : SUBSET Flags, seq : Seq32, ack : Seq32, wnd : 0..BufSize, data : Bytes]

Types ==
    /\ \A h \in Host : /\ conn[h] = NoConn \/ Sized(conn[h])
                       /\ fd[h] \in {"none", "connecting", "open", "shut", "closed"}
                       /\ wrote[h] \in Nat /\ wrote[h] + 2 < Modulus
                       /\ got[h] \in Bytes
    /\ conn \in [Host -> Conn \union {NoConn}] /\ DOMAIN fd = Host /\ DOMAIN wrote = Host /\ DOMAIN got = Host
    /\ eof \in [Host -> BOOLEAN] /\ early \in [Host -> BOOLEAN] /\ failed \in [Host -> BOOLEAN]
    /\ listener \in {"none", "listening", "closed"}
    /\ net \subseteq Segments /\ IsFiniteSet(net) /\ Cardinality(net) <= NetCap

Sending(h) ==
    Live(h) =>
      /\ Ring(conn[h], wrote[h])
      /\ ~Opened(h) => Greeting(h, conn[h], wrote[h]) /\ (~early[h] => conn[h].nxt = SeqNo(h, 0))
      /\ Opened(h) => Numbered(h, conn[h], wrote[h]) /\ (~early[h] => Prompt(h, conn[h], wrote[h]) /\ (~failed[h] => Armed(conn[h])))

Receiving(h) ==
    /\ Len(got[h]) <= wrote[Peer(h)] /\ \A i \in 1 .. Len(got[h]) : got[h][i] = i
    /\ Live(h) => Reading(Peer(h), conn[h], Len(got[h]), wrote[Peer(h)]) /\ (conn[h].peerFin => Shut(Peer(h)))

\* Nothing but its SYN has come from h.
Quiet(h) ==
    /\ \A s \in net : /\ s.to = Peer(h) => s.data = <<>> /\ "FIN" \notin s.flags
                      /\ s.to = h /\ "ACK" \in s.flags => s.ack = SeqNo(h, 0)
    /\ Knows(Peer(h)) => Arrived(conn[Peer(h)], Len(got[Peer(h)])) = 0

\* Before h has sent anything else.
Silent(h) == Live(h) /\ (~Opened(h) \/ conn[h].nxt = SeqNo(h, -1)) => Quiet(h)

\* What left the ring of h has arrived, and so has a FIN that is acknowledged.
Agree(h) ==
    LET p == Peer(h) IN
    Live(h) /\ Live(p) => /\ Freed(conn[h], wrote[h]) <= Count(conn[p], Len(got[p]))
                          /\ conn[h].finAcked /\ ~early[h] => conn[p].peerFin

\* A segment that h sent.
Carries(s, h) ==
    /\ s.data # <<>> => /\ "FIN" \notin s.flags
                        /\ \E k \in 0 .. wrote[h] : /\ s.seq = SeqNo(h, k) /\ k + Len(s.data) <= wrote[h]
                                                  /\ \A i \in 1 .. Len(s.data) : s.data[i] = k + i
    /\ "FIN" \in s.flags => Shut(h) /\ s.seq \in {SeqNo(h, -1), SeqNo(h, wrote[h])}
    /\ "SYN" \in s.flags => s.seq = SeqNo(h, -1) /\ s.data = <<>> /\ "FIN" \notin s.flags
    /\ "RST" \in s.flags => s.to = "client" /\ refused /\ (Live("client") => Opened("client"))
    /\ "ACK" \in s.flags /\ Live(h) =>
          Knows(h) /\ \E k \in 0 .. Arrived(conn[h], Len(got[h])) : s.ack = SeqNo(Peer(h), k)

\* What the state of a connection says of its socket and of its peer.
Stated(h) ==
    LET c == conn[h] IN
    /\ c.userClosed \/ c.finSent \/ c.state \in Closing \union {"FIN_WAIT_2", "TIME_WAIT"} => Shut(h)
    /\ c.reset => refused /\ c.state = "CLOSED"
    /\ c.state = "CLOSED" => c.reset \/ (Shut(h) /\ c.peerFin)
    /\ c.state \in {"TIME_WAIT", "LAST_ACK", "CLOSE_WAIT"} => c.peerFin

Sockets ==
    /\ fd["client"] = "none" => /\ ~spawned /\ net = {} /\ ~Live("client") /\ got["client"] = <<>> /\ wrote["client"] = 0
                                /\ ~early["client"] /\ ~eof["client"]
    /\ ~spawned => /\ ~Live("server") /\ fd["server"] = "none" /\ ~queued /\ got["server"] = <<>> /\ wrote["server"] = 0
                   /\ ~early["server"] /\ ~eof["server"]
                   /\ \A s \in net : s.to = "server" /\ s.flags = {"SYN"}
                   /\ Live("client") => ~Opened("client")
    /\ queued => Opened("server") /\ fd["server"] = "none" /\ listener = "listening"
    /\ Live("server") => conn["server"].state # "SYN_SENT"
    /\ Live("client") => conn["client"].state # "SYN_RECEIVED"
    /\ Live("server") /\ ~Opened("server") => fd["server"] = "none"
    /\ Opened("server") /\ Live("client") => Opened("client")
    /\ fd["client"] = "connecting" => Live("client")

Ends(h) ==
    LET p == Peer(h) IN
    /\ ~Live(h) /\ fd[h] \in {"open", "shut"} => refused \/ (Shut(p) /\ Len(got[h]) = wrote[p])
    /\ eof[h] => fd[h] \in {"open", "shut", "closed"} /\ (Live(h) => conn[h].peerFin /\ conn[h].rx = <<>>)

Sides(h) == Sending(h) /\ Receiving(h) /\ Silent(h) /\ Agree(h) /\ Ends(h) /\ (Live(h) => Stated(h))

TcpInv == Types /\ Sockets /\ (\A h \in Host : Sides(h)) /\ \A s \in net : Carries(s, Peer(s.to))

\* The sizes of the rings, of segments and of the sequence space (tcp.h).
LEMMA Sizes ==
  /\ Modulus \in Nat /\ BufSize \in Nat /\ Mss \in Nat /\ TxMax \in Nat /\ NetCap \in Nat
  /\ Modulus > 0 /\ BufSize > 0 /\ Mss > 0 /\ TxMax > 0 /\ NetCap > 0
  /\ TxMax <= Mss /\ Mss <= BufSize /\ 2 * BufSize + 2 < Modulus
  /\ ClientIss \in 0 .. Modulus - 1 /\ ServerIss \in 0 .. Modulus - 1
BY TcpAssumption DEF TcpAssumption

\* There are two hosts, each the peer of the other.
LEMMA Hosts ==
  /\ Host = {"client", "server"} /\ "client" \in Host /\ "server" \in Host
  /\ \A h \in Host : Peer(h) \in Host /\ Peer(h) # h /\ Peer(Peer(h)) = h /\ Iss(h) \in 0 .. Modulus - 1
  /\ \A h, g \in Host : g # h => g = Peer(h)
BY Sizes DEF Host, Peer, Iss

\* Division with remainder.
LEMMA Divide ==
  ASSUME NEW x \in Int PROVE \E q \in Int, r \in 0 .. Modulus - 1 : x = Modulus * q + r /\ r = x % Modulus
<1>1. x % Modulus \in 0 .. Modulus - 1 /\ x \div Modulus \in Int /\ x = Modulus * (x \div Modulus) + (x % Modulus)
  BY Sizes
<1>2. QED
  BY <1>1

\* Only zero is a multiple of Modulus between -Modulus and Modulus.
LEMMA NoMultiple ==
  ASSUME NEW q \in Int, NEW d \in Int, d = Modulus * q, -Modulus < d, d < Modulus PROVE d = 0
BY Sizes

\* A remainder is the only one.
LEMMA OneRemainder ==
  ASSUME NEW x \in Int, NEW q \in Int, NEW r \in 0 .. Modulus - 1, x = Modulus * q + r PROVE x % Modulus = r
<1>1. PICK p \in Int, s \in 0 .. Modulus - 1 : x = Modulus * p + s /\ s = x % Modulus
  BY Divide
<1>2. r \in Int /\ s \in Int
  BY Sizes
<1>3. Modulus * (q - p) = s - r
  BY <1>1, <1>2, Sizes
<1>4. s - r = 0
  BY <1>2, <1>3, Sizes, NoMultiple
<1>5. s = r
  BY <1>2, <1>4
<1>6. QED
  BY <1>1, <1>5

\* The 32-bit sum of a sequence number and an offset is the remainder of the sum.
LEMMA AddRemainders ==
  ASSUME NEW x \in Int, NEW n \in Int PROVE ((x % Modulus) + n) % Modulus = (x + n) % Modulus
<1>1. PICK q \in Int, r \in 0 .. Modulus - 1 : x = Modulus * q + r /\ r = x % Modulus
  BY Divide
<1>2. r \in Int /\ r + n \in Int
  BY Sizes
<1>3. PICK p \in Int, s \in 0 .. Modulus - 1 : r + n = Modulus * p + s /\ s = (r + n) % Modulus
  BY <1>2, Divide
<1>4. x + n = Modulus * (q + p) + s
  BY <1>1, <1>2, <1>3, Sizes
<1>5. (x + n) % Modulus = s
  BY <1>4, OneRemainder
<1>6. QED
  BY <1>1, <1>3, <1>5

\* The 32-bit difference of two sequence numbers is the remainder of the difference.
LEMMA SubtractRemainders ==
  ASSUME NEW x \in Int, NEW y \in Int PROVE ((x % Modulus) - (y % Modulus)) % Modulus = (x - y) % Modulus
<1>1. PICK q \in Int, r \in 0 .. Modulus - 1 : x = Modulus * q + r /\ r = x % Modulus
  BY Divide
<1>2. PICK p \in Int, s \in 0 .. Modulus - 1 : y = Modulus * p + s /\ s = y % Modulus
  BY Divide
<1>3. r \in Int /\ s \in Int /\ r - s \in Int
  BY Sizes
<1>4. PICK k \in Int, t \in 0 .. Modulus - 1 : r - s = Modulus * k + t /\ t = (r - s) % Modulus
  BY <1>3, Divide
<1>5. x - y = Modulus * ((q - p) + k) + t
  BY <1>1, <1>2, <1>3, <1>4, Sizes
<1>6. (x - y) % Modulus = t
  BY <1>5, OneRemainder
<1>7. ((x % Modulus) - (y % Modulus)) % Modulus = t
  BY <1>1, <1>2, <1>4
<1>8. QED
  BY <1>6, <1>7

\* Where a number is less than one turn away, its remainder is known.
LEMMA SmallRemainder ==
  /\ \A x \in 0 .. Modulus - 1 : x % Modulus = x
  /\ \A x \in Int : -Modulus <= x /\ x < 0 => x % Modulus = x + Modulus
  /\ \A x \in Int : Modulus <= x /\ x < 2 * Modulus => x % Modulus = x - Modulus
<1>1. ASSUME NEW x \in 0 .. Modulus - 1 PROVE x % Modulus = x
  BY Sizes, OneRemainder, x = Modulus * 0 + x
<1>2. ASSUME NEW x \in Int, -Modulus <= x, x < 0 PROVE x % Modulus = x + Modulus
  <2>1. x = Modulus * (-1) + (x + Modulus) /\ x + Modulus \in 0 .. Modulus - 1
    BY <1>2, Sizes
  <2>2. QED
    BY <2>1, OneRemainder
<1>3. ASSUME NEW x \in Int, Modulus <= x, x < 2 * Modulus PROVE x % Modulus = x - Modulus
  <2>1. x = Modulus * 1 + (x - Modulus) /\ x - Modulus \in 0 .. Modulus - 1
    BY <1>3, Sizes
  <2>2. QED
    BY <2>1, OneRemainder
<1>4. QED
  BY <1>1, <1>2, <1>3

\* What the numbers of a stream are: distinct over less than Modulus bytes, and as far apart as the bytes.
LEMMA SeqNoFacts ==
  ASSUME NEW h \in Host
  PROVE  /\ \A k \in Int : SeqNo(h, k) \in Seq32
         /\ \A k, n \in Int : Plus(SeqNo(h, k), n) = SeqNo(h, k + n)
         /\ \A j, k \in Int : 0 <= j - k /\ j - k < Modulus => Minus(SeqNo(h, j), SeqNo(h, k)) = j - k
         /\ \A j, k \in Int : -Modulus <= j - k /\ j - k < 0 => Minus(SeqNo(h, j), SeqNo(h, k)) = j - k + Modulus
         /\ SeqNo(h, -1) = Iss(h) /\ SeqNo(h, 0) = Plus(Iss(h), 1)
<1>0. Iss(h) \in 0 .. Modulus - 1 /\ Iss(h) \in Int
  BY Hosts, Sizes
<1>1. ASSUME NEW k \in Int PROVE SeqNo(h, k) \in Seq32
  BY <1>0, Sizes DEF SeqNo, Plus, Seq32
<1>2. ASSUME NEW k \in Int, NEW n \in Int PROVE Plus(SeqNo(h, k), n) = SeqNo(h, k + n)
  <2>1. (((Iss(h) + 1 + k) % Modulus) + n) % Modulus = ((Iss(h) + 1 + k) + n) % Modulus
    BY <1>0, AddRemainders
  <2>2. (Iss(h) + 1 + k) + n = Iss(h) + 1 + (k + n)
    BY <1>0
  <2>3. QED
    BY <2>1, <2>2 DEF SeqNo, Plus
<1>3. ASSUME NEW j \in Int, NEW k \in Int PROVE Minus(SeqNo(h, j), SeqNo(h, k)) = (j - k) % Modulus
  <2> DEFINE x == Iss(h) + 1 + j
  <2> DEFINE y == Iss(h) + 1 + k
  <2>1. x \in Int /\ y \in Int /\ x - y = j - k
    BY <1>0
  <2>2. SeqNo(h, j) = x % Modulus /\ SeqNo(h, k) = y % Modulus
    BY DEF SeqNo, Plus
  <2> HIDE DEF x, y
  <2>3. ((x % Modulus) - (y % Modulus)) % Modulus = (x - y) % Modulus
    BY <2>1, SubtractRemainders
  <2>4. QED
    BY <2>1, <2>2, <2>3 DEF Minus
<1>4. ASSUME NEW j \in Int, NEW k \in Int, 0 <= j - k, j - k < Modulus PROVE (j - k) % Modulus = j - k
  BY <1>4, Sizes, SmallRemainder
<1>5. ASSUME NEW j \in Int, NEW k \in Int, -Modulus <= j - k, j - k < 0 PROVE (j - k) % Modulus = j - k + Modulus
  BY <1>5, Sizes, SmallRemainder
<1>6. SeqNo(h, -1) = Iss(h) /\ SeqNo(h, 0) = Plus(Iss(h), 1)
  <2>1. Iss(h) + 1 + (-1) = Iss(h) /\ Iss(h) + 1 + 0 = Iss(h) + 1
    BY <1>0
  <2>2. QED
    BY <1>0, <2>1, SmallRemainder DEF SeqNo, Plus
<1>7. QED
  BY <1>1, <1>2, <1>3, <1>4, <1>5, <1>6

\* Less than a turn apart, two places of a stream have the same number only when they are the same.
LEMMA SeqNoSame ==
  ASSUME NEW h \in Host, NEW j \in Int, NEW k \in Int, SeqNo(h, j) = SeqNo(h, k), -Modulus < j - k, j - k < Modulus
  PROVE  j = k
<1>1. CASE 0 <= j - k
  <2>1. Minus(SeqNo(h, j), SeqNo(h, k)) = j - k /\ Minus(SeqNo(h, k), SeqNo(h, k)) = 0
    BY <1>1, SeqNoFacts, Sizes
  <2>2. QED
    BY <2>1
<1>2. CASE j - k < 0
  <2>1. Minus(SeqNo(h, k), SeqNo(h, j)) = k - j /\ Minus(SeqNo(h, j), SeqNo(h, j)) = 0
    BY <1>2, SeqNoFacts, Sizes
  <2>2. QED
    BY <2>1
<1>3. QED
  BY <1>1, <1>2

\* A number is as far behind una as Minus says.
LEMMA AckFacts ==
  ASSUME NEW h \in Host, NEW k \in Int, NEW a \in Seq32
  PROVE  Minus(a, SeqNo(h, k)) \in 0 .. Modulus - 1 /\ a = SeqNo(h, k + Minus(a, SeqNo(h, k)))
<1> DEFINE u == SeqNo(h, k)
<1> DEFINE m == Minus(a, u)
<1>1. u \in Int /\ a \in Int /\ u \in 0 .. Modulus - 1
  <2>1. u \in Seq32
    BY SeqNoFacts
  <2>2. QED
    BY <2>1, Sizes DEF Seq32
<1> HIDE DEF u
<1>2. m \in 0 .. Modulus - 1
  BY <1>1, Sizes DEF Minus
<1>3. Plus(u, m) = a
  <2>1. m = (a - u) % Modulus
    BY DEF Minus
  <2>2. (m + u) % Modulus = ((a - u) + u) % Modulus
    BY <1>1, <2>1, AddRemainders
  <2>3. (a - u) + u = a /\ a \in 0 .. Modulus - 1 /\ m + u = u + m
    BY <1>1, <1>2, Sizes DEF Seq32
  <2>4. a % Modulus = a
    BY <2>3, SmallRemainder
  <2>5. QED
    BY <2>2, <2>3, <2>4 DEF Plus
<1> HIDE DEF m
<1>4. Plus(u, m) = SeqNo(h, k + m)
  <2>1. m \in Int
    BY <1>2, Sizes
  <2>2. QED
    BY <2>1, SeqNoFacts DEF u
<1>5. QED
  BY <1>2, <1>3, <1>4 DEF m, u

\* Min of a pair.
LEMMA LesserOfTwo ==
  ASSUME NEW a \in Int, NEW b \in Int PROVE Min({a, b}) = IF a <= b THEN a ELSE b
<1> DEFINE m == IF a <= b THEN a ELSE b
<1>1. m \in {a, b} /\ \A y \in {a, b} : m <= y
  OBVIOUS
<1>2. \A x \in {a, b} : (\A y \in {a, b} : x <= y) => x = m
  OBVIOUS
<1> HIDE DEF m
<1>3. Min({a, b}) = m
  BY <1>1, <1>2 DEF Min
<1>4. QED
  BY <1>3 DEF m

\* What the fields of a connection hold.
LEMMA Fields ==
  ASSUME NEW c, Sized(c)
  PROVE  /\ c \in Conn /\ c.state \in State /\ c.una \in Seq32 /\ c.nxt \in Seq32 /\ c.wnd \in 0..BufSize /\ c.rcvNxt \in Seq32
         /\ c.tx \in Bytes /\ c.rx \in Bytes /\ Len(c.tx) \in 0..BufSize /\ Len(c.rx) \in 0..BufSize
         /\ c.finSent \in BOOLEAN /\ c.finAcked \in BOOLEAN /\ c.peerFin \in BOOLEAN
<1>1. c \in Conn /\ Len(c.tx) <= BufSize /\ Len(c.rx) <= BufSize
  BY DEF Sized
<1>2. c.tx \in Bytes /\ c.rx \in Bytes
  BY <1>1 DEF Conn
<1>3. Len(c.tx) \in Nat /\ Len(c.rx) \in Nat
  BY <1>2 DEF Bytes
<1>4. QED
  BY <1>1, <1>2, <1>3, Sizes DEF Conn

\* What tcp_drain_tx may send for the connection c of h.
Sent(s, h, c, w) ==
    /\ s \in Segments /\ s.to = Peer(h) /\ s.ack = c.rcvNxt /\ s.flags \in {{"ACK"}, {"ACK", "FIN"}}
    /\ s.data # <<>> => /\ s.flags = {"ACK"}
                        /\ \E k \in 0 .. w : /\ s.seq = SeqNo(h, k) /\ k + Len(s.data) <= w
                                             /\ \A i \in 1 .. Len(s.data) : s.data[i] = k + i
    /\ "FIN" \in s.flags => c.state \in Closing /\ s.seq \in {SeqNo(h, -1), SeqNo(h, w)}

\* A segment of c: the types of what is put into it.
LEMMA SegmentFacts ==
  ASSUME NEW h \in Host, NEW c, Sized(c), NEW flags \in SUBSET Flags, NEW seq \in Seq32, NEW data \in Bytes,
         NEW s, s = Segment(h, c, flags, seq, data)
  PROVE  /\ s \in Segments /\ s.to = Peer(h) /\ s.ack = c.rcvNxt /\ s.flags = flags /\ s.seq = seq /\ s.data = data
<1>1. s = [to |-> Peer(h), flags |-> flags, seq |-> seq, ack |-> c.rcvNxt, wnd |-> BufSize - Len(c.rx), data |-> data]
  BY DEF Segment
<1>2. c.rcvNxt \in Seq32 /\ BufSize - Len(c.rx) \in 0 .. BufSize /\ Peer(h) \in Host
  BY Fields, Hosts, Sizes
<1>3. QED
  BY <1>1, <1>2 DEF Segments

DataOf(h, c, off, last) ==
    {Segment(h, c, {"ACK"}, Plus(c.una, i), SubSeq(c.tx, i + 1, Min({i + TxMax, last}))) :
        i \in {j \in off .. last - 1 : (j - off) % TxMax = 0}}

\* A data segment of drain_tx_ring carries the bytes of the stream at its number.
LEMMA DataFacts ==
  ASSUME NEW h \in Host, NEW c, Sized(c), NEW w \in Nat, Ring(c, w), c.una = SeqNo(h, Freed(c, w)),
         NEW off \in Nat, NEW last \in Nat, last <= Len(c.tx)
  PROVE  \A s \in DataOf(h, c, off, last) : Sent(s, h, c, w)
<1> DEFINE a == Freed(c, w)
<1>1. Len(c.tx) \in Nat /\ c.tx \in Seq(Nat \ {0}) /\ a \in Nat /\ a + Len(c.tx) = w /\ TxMax \in Nat /\ TxMax > 0
  BY Fields, Sizes DEF Freed, Ring, Bytes
<1>0. c.una = SeqNo(h, a) /\ \A i \in 1 .. Len(c.tx) : c.tx[i] = a + i
  BY DEF Ring
<1> HIDE DEF a
<1>2. ASSUME NEW i \in off .. last - 1,
             NEW s, s = Segment(h, c, {"ACK"}, Plus(c.una, i), SubSeq(c.tx, i + 1, Min({i + TxMax, last})))
      PROVE  Sent(s, h, c, w)
  <2>1. i \in Nat /\ i < last
    BY <1>1
  <2> DEFINE e == IF i + TxMax <= last THEN i + TxMax ELSE last
  <2> DEFINE data == SubSeq(c.tx, i + 1, e)
  <2>2. Min({i + TxMax, last}) = e /\ e \in Nat /\ i < e /\ e <= last /\ e <= Len(c.tx)
    BY <1>1, <2>1, LesserOfTwo
  <2> HIDE DEF e
  <2>3. data \in Bytes /\ Len(data) = e - i /\ \A j \in 1 .. e - i : data[j] = c.tx[i + j]
    BY <1>1, <2>1, <2>2 DEF Bytes
  <2>4. Plus(c.una, i) = SeqNo(h, a + i) /\ SeqNo(h, a + i) \in Seq32
    <3>1. a \in Int /\ i \in Int /\ a + i \in Int
      BY <1>1, <2>1
    <3>2. QED
      BY <1>0, <3>1, SeqNoFacts
  <2>5. s = Segment(h, c, {"ACK"}, SeqNo(h, a + i), data)
    BY <1>2, <2>2, <2>4
  <2> HIDE DEF data
  <2>6. s \in Segments /\ s.to = Peer(h) /\ s.ack = c.rcvNxt /\ s.flags = {"ACK"} /\ s.seq = SeqNo(h, a + i) /\ s.data = data
    <3>1. {"ACK"} \in SUBSET Flags
      BY DEF Flags
    <3>2. QED
      BY <2>3, <2>4, <2>5, <3>1, SegmentFacts
  <2>7. ASSUME NEW j \in 1 .. Len(data) PROVE data[j] = (a + i) + j
    <3>1. j \in 1 .. e - i /\ i + j \in 1 .. Len(c.tx)
      <4>1. Len(data) = e - i
        BY <2>3
      <4>2. j \in 1 .. e - i
        BY <4>1
      <4>3. QED
        BY <1>1, <2>1, <2>2, <4>2
    <3>2. c.tx[i + j] = a + (i + j)
      BY <1>0, <3>1
    <3>3. data[j] = c.tx[i + j] /\ j \in Nat
      BY <2>3, <3>1
    <3>4. QED
      BY <1>1, <2>1, <3>2, <3>3
  <2>8. a + i \in 0 .. w /\ (a + i) + Len(data) <= w
    <3>1. Len(data) = e - i
      BY <2>3
    <3>2. QED
      BY <1>1, <2>1, <2>2, <3>1
  <2>9. QED
    BY <2>6, <2>7, <2>8 DEF Sent
<1>3. QED
  BY <1>2 DEF DataOf

\* drain_tx_ring emits finitely many segments, and none when the window is full.
LEMMA DataIsFinite ==
  ASSUME NEW h, NEW c, NEW off \in Int, NEW last \in Int
  PROVE  IsFiniteSet(DataOf(h, c, off, last)) /\ (last <= off => DataOf(h, c, off, last) = {})
<1> DEFINE I == {j \in off .. last - 1 : (j - off) % TxMax = 0}
<1> DEFINE F == [i \in I |-> Segment(h, c, {"ACK"}, Plus(c.una, i), SubSeq(c.tx, i + 1, Min({i + TxMax, last})))]
<1>1. IsFiniteSet(off .. last - 1) /\ I \subseteq off .. last - 1
  BY FS_Interval
<1>2. IsFiniteSet(I)
  BY <1>1, FS_Subset
<1>3. last <= off => I = {}
  OBVIOUS
<1>4. DataOf(h, c, off, last) = {F[i] : i \in I}
  BY DEF DataOf
<1> HIDE DEF I, F
<1>5. IsFiniteSet({F[i] : i \in I})
  <2>1. F \in Surjection(I, {F[i] : i \in I})
    <3>1. F \in [I -> {F[i] : i \in I}]
      BY DEF F
    <3>2. QED
      BY <3>1 DEF Surjection
  <2>2. QED
    BY <1>2, <2>1, FS_Surjection
<1>6. I = {} => {F[i] : i \in I} = {}
  OBVIOUS
<1>7. QED
  BY <1>3, <1>4, <1>5, <1>6

\* d is c but for snd_nxt and for whether the FIN was sent.
SameButNext(d, c) ==
    /\ d.state = c.state /\ d.una = c.una /\ d.wnd = c.wnd /\ d.rcvNxt = c.rcvNxt /\ d.tx = c.tx /\ d.rx = c.rx
    /\ d.finAcked = c.finAcked /\ d.peerFin = c.peerFin /\ d.reset = c.reset /\ d.userClosed = c.userClosed

\* drain_tx_ring sets snd_nxt, and fin_sent when it sends a FIN.
LEMMA NextSet ==
  ASSUME NEW c, Sized(c), NEW n \in Seq32
  PROVE  /\ Sized([c EXCEPT !.nxt = n]) /\ SameButNext([c EXCEPT !.nxt = n], c)
         /\ [c EXCEPT !.nxt = n].nxt = n /\ [c EXCEPT !.nxt = n].finSent = c.finSent
         /\ Sized([c EXCEPT !.nxt = n, !.finSent = TRUE]) /\ SameButNext([c EXCEPT !.nxt = n, !.finSent = TRUE], c)
         /\ [c EXCEPT !.nxt = n, !.finSent = TRUE].nxt = n /\ [c EXCEPT !.nxt = n, !.finSent = TRUE].finSent
BY DEF Sized, Conn, SameButNext

\* What tcp_drain_tx does from off to last.
DrainedTo(h, c, d, u, off, last) ==
    /\ off = Minus(c.nxt, c.una) /\ off <= last /\ (last = off \/ last <= Len(c.tx)) /\ (c.tx # <<>> /\ ~d.failed => last > 0)
    /\ d.failed \in BOOLEAN /\ Sized(d.c) /\ SameButNext(d.c, c)
    /\ \/ /\ ~c.finSent /\ c.state \in Closing /\ last >= Len(c.tx)
          /\ d.c.finSent /\ d.c.nxt = SeqNo(h, u + last + 1)
          /\ d.out = DataOf(h, c, off, last) \union {Segment(h, c, {"ACK", "FIN"}, SeqNo(h, u + last), <<>>)}
       \/ /\ ~(~c.finSent /\ c.state \in Closing /\ last >= Len(c.tx))
          /\ d.c.finSent = c.finSent /\ d.c.nxt = SeqNo(h, u + last)
          /\ d.out = DataOf(h, c, off, last)

\* What drain_tx_ring does to a connection, in terms of the first and the last byte it sends.
LEMMA DrainFacts ==
  ASSUME NEW h \in Host, NEW c, Sized(c), NEW u \in Int, c.una = SeqNo(h, u),
         NEW n \in Nat, NEW d, d = Drain(h, c, n)
  PROVE  \E off, last \in Nat : DrainedTo(h, c, d, u, off, last)
<1> DEFINE off == Minus(c.nxt, c.una)
<1> DEFINE wnd == IF c.wnd = 0 THEN 1 ELSE c.wnd
<1> DEFINE end == Min({Len(c.tx), wnd})
<1> DEFINE stop == off + n * TxMax
<1> DEFINE last == IF off < end THEN Min({end, stop}) ELSE off
<1> DEFINE nxt == Plus(c.una, last)
<1> DEFINE fin == ~c.finSent /\ c.state \in Closing /\ last >= Len(c.tx)
<1> DEFINE data == DataOf(h, c, off, last)
<1> DEFINE short == last < end
<1>1. d = IF fin
          THEN [c |-> [c EXCEPT !.nxt = Plus(nxt, 1), !.finSent = TRUE],
                out |-> data \union {Segment(h, c, {"ACK", "FIN"}, nxt, <<>>)}, failed |-> FALSE]
          ELSE [c |-> [c EXCEPT !.nxt = nxt], out |-> data, failed |-> short]
  BY DEF Drain, DataOf
<1>2. off \in Nat
  BY Fields, AckFacts, Sizes
<1>3. wnd \in Nat /\ wnd > 0 /\ Len(c.tx) \in Nat /\ (c.tx # <<>> => Len(c.tx) > 0)
  <2>1. c.wnd \in 0 .. BufSize /\ Len(c.tx) \in 0 .. BufSize /\ c.tx \in Bytes
    BY Fields
  <2>2. c.tx # <<>> => Len(c.tx) > 0
    BY <2>1 DEF Bytes
  <2>3. QED
    BY <2>1, <2>2, Sizes
<1> HIDE DEF off, wnd
<1>4. end \in Nat /\ end <= Len(c.tx) /\ (c.tx # <<>> => end > 0)
  <2>1. end = IF Len(c.tx) <= wnd THEN Len(c.tx) ELSE wnd
    BY <1>3, LesserOfTwo
  <2>2. QED
    BY <1>3, <2>1
<1> HIDE DEF end
<1>5. last \in Nat /\ off <= last /\ (last = off \/ last <= Len(c.tx)) /\ (c.tx # <<>> /\ ~(last < end) => last > 0)
  <2>1. stop \in Nat /\ off <= stop
    <3>1. n * TxMax \in Nat
      BY Sizes
    <3>2. QED
      BY <1>2, <3>1
  <2> HIDE DEF stop
  <2>2. Min({end, stop}) = IF end <= stop THEN end ELSE stop
    BY <1>4, <2>1, LesserOfTwo
  <2>3. QED
    BY <1>2, <1>3, <1>4, <2>1, <2>2
<1>9. short \in BOOLEAN /\ (c.tx # <<>> /\ ~short => last > 0)
  BY <1>5
<1> HIDE DEF last, stop, short
<1>6. nxt = SeqNo(h, u + last) /\ nxt \in Seq32 /\ Plus(nxt, 1) = SeqNo(h, u + last + 1) /\ Plus(nxt, 1) \in Seq32
  <2>1. u + last \in Int /\ last \in Int /\ u + last + 1 \in Int
    BY <1>5
  <2>2. nxt = SeqNo(h, u + last)
    BY <2>1, SeqNoFacts
  <2> HIDE DEF nxt
  <2>3. Plus(nxt, 1) = SeqNo(h, u + last + 1)
    BY <2>1, <2>2, SeqNoFacts
  <2>4. QED
    BY <2>1, <2>2, <2>3, SeqNoFacts
<1> HIDE DEF nxt, data
<1>7. CASE fin
  <2>1. d.c = [c EXCEPT !.nxt = Plus(nxt, 1), !.finSent = TRUE]
        /\ d.out = data \union {Segment(h, c, {"ACK", "FIN"}, nxt, <<>>)} /\ d.failed = FALSE
    BY <1>1, <1>7
  <2>2. Sized(d.c) /\ SameButNext(d.c, c) /\ d.c.nxt = Plus(nxt, 1) /\ d.c.finSent
    <3> DEFINE m == Plus(nxt, 1)
    <3>1. m \in Seq32 /\ d.c = [c EXCEPT !.nxt = m, !.finSent = TRUE]
      BY <1>6, <2>1
    <3> HIDE DEF m
    <3>2. QED
      <4> DEFINE e == [c EXCEPT !.nxt = m, !.finSent = TRUE]
      <4>0. Sized(e) /\ SameButNext(e, c) /\ e.nxt = m /\ e.finSent /\ d.c = e
        BY <3>1, NextSet
      <4> HIDE DEF e
      <4>1. Sized(d.c) /\ SameButNext(d.c, c) /\ d.c.nxt = m /\ d.c.finSent
        BY <4>0
      <4>2. QED
        BY <4>1 DEF m
  <2>3. d.failed \in BOOLEAN /\ (c.tx # <<>> /\ ~d.failed => last > 0)
    <3>1. d.failed \in BOOLEAN
      BY <2>1, Zenon
    <3>2. c.tx # <<>> => last > 0
      BY <1>3, <1>5, <1>7
    <3>3. QED
      BY <3>1, <3>2
  <2>5. DrainedTo(h, c, d, u, off, last)
    BY <1>5, <1>6, <1>7, <2>1, <2>2, <2>3 DEF DrainedTo, off, data
  <2>4. QED
    BY <1>2, <1>5, <2>5
<1>8. CASE ~fin
  <2>1. d.c = [c EXCEPT !.nxt = nxt] /\ d.out = data /\ d.failed = short
    <3>1. d = [c |-> [c EXCEPT !.nxt = nxt], out |-> data, failed |-> short]
      BY <1>1, <1>8, Zenon
    <3>2. d.failed = short
      <4>1. PICK f : f = short
        OBVIOUS
      <4>2. d = [c |-> [c EXCEPT !.nxt = nxt], out |-> data, failed |-> f]
        BY <3>1, <4>1, Zenon
      <4>3. d.failed = f
        BY <4>2
      <4>4. QED
        BY <4>1, <4>3, Zenon
    <3>3. d.c = [c EXCEPT !.nxt = nxt] /\ d.out = data
      BY <3>1
    <3>4. QED
      BY <3>2, <3>3
  <2>2. Sized(d.c) /\ SameButNext(d.c, c) /\ d.c.nxt = nxt /\ d.c.finSent = c.finSent
    <3> DEFINE e == [c EXCEPT !.nxt = nxt]
    <3>0. nxt \in Seq32 /\ d.c = e
      BY <1>6, <2>1
    <3>1. Sized(e) /\ SameButNext(e, c) /\ e.nxt = nxt /\ e.finSent = c.finSent /\ d.c = e
      BY <3>0, NextSet
    <3> HIDE DEF e
    <3>2. QED
      BY <3>1
  <2>3. d.failed \in BOOLEAN /\ (c.tx # <<>> /\ ~d.failed => last > 0)
    BY <1>9, <2>1, Zenon
  <2>5. DrainedTo(h, c, d, u, off, last)
    BY <1>5, <1>6, <1>8, <2>1, <2>2, <2>3 DEF DrainedTo, off, data
  <2>4. QED
    BY <1>2, <1>5, <2>5
<1>10. QED
  BY <1>7, <1>8

\* A ring holds the last bytes written.
LEMMA RingFacts ==
  ASSUME NEW c, Sized(c), NEW w \in Nat, Ring(c, w)
  PROVE  /\ c.tx \in Seq(Nat \ {0}) /\ Len(c.tx) \in Nat /\ Len(c.tx) \in 0 .. BufSize /\ (c.tx = <<>> <=> Len(c.tx) = 0)
         /\ Freed(c, w) \in Nat /\ Freed(c, w) + Len(c.tx) = w
<1>1. c.tx \in Bytes /\ Len(c.tx) \in 0 .. BufSize /\ Len(c.tx) <= w
  BY Fields DEF Ring
<1>2. QED
  BY <1>1, Sizes DEF Bytes, Freed

\* snd_nxt and fin_sent are no part of what the ring and the state say.
LEMMA SameFacts ==
  ASSUME NEW c, NEW d, SameButNext(d, c), NEW w
  PROVE  /\ d.state = c.state /\ d.una = c.una /\ d.tx = c.tx /\ d.rx = c.rx /\ d.finAcked = c.finAcked /\ d.peerFin = c.peerFin
         /\ Freed(d, w) = Freed(c, w) /\ (Ring(c, w) => Ring(d, w))
BY DEF SameButNext, Freed, Ring

\* The FIN that tcp_drain_tx sends.
LEMMA FinFacts ==
  ASSUME NEW h \in Host, NEW c, Sized(c), NEW w \in Nat, NEW k \in Int, SeqNo(h, k) \in {SeqNo(h, -1), SeqNo(h, w)}, c.state \in Closing
  PROVE  Sent(Segment(h, c, {"ACK", "FIN"}, SeqNo(h, k), <<>>), h, c, w)
<1> DEFINE s == Segment(h, c, {"ACK", "FIN"}, SeqNo(h, k), <<>>)
<1>1. SeqNo(h, k) \in Seq32 /\ <<>> \in Bytes /\ {"ACK", "FIN"} \in SUBSET Flags
  BY SeqNoFacts DEF Bytes, Flags
<1>2. s \in Segments /\ s.to = Peer(h) /\ s.ack = c.rcvNxt /\ s.flags = {"ACK", "FIN"} /\ s.seq = SeqNo(h, k) /\ s.data = <<>>
  BY <1>1, SegmentFacts
<1> HIDE DEF s
<1>3. Sent(s, h, c, w)
  BY <1>2 DEF Sent
<1>4. QED
  BY <1>3 DEF s

\* No byte of the stream has the number of the SYN.
LEMMA NotTheSyn ==
  ASSUME NEW h \in Host, NEW n \in Nat, n + 1 < Modulus PROVE SeqNo(h, n) # SeqNo(h, -1)
<1>1. n \in Int /\ -1 \in Int /\ n - (-1) < Modulus /\ -Modulus < n - (-1) /\ n # -1
  BY Sizes
<1>2. QED
  BY <1>1, SeqNoSame

\* Two places of a stream have two numbers.
LEMMA Apart ==
  ASSUME NEW h \in Host, NEW n \in Nat, NEW k \in Nat, n # k, n < Modulus, k < Modulus PROVE SeqNo(h, n) # SeqNo(h, k)
<1>1. n \in Int /\ k \in Int /\ n - k < Modulus /\ -Modulus < n - k
  BY Sizes
<1>2. QED
  BY <1>1, SeqNoSame

\* What a drain of c keeps, when w bytes were written.
Drained(h, c, d, w) ==
    /\ Sized(d.c) /\ SameButNext(d.c, c) /\ Numbered(h, d.c, w)
    /\ d.failed \in BOOLEAN /\ (Prompt(h, c, w) => Prompt(h, d.c, w) /\ (~d.failed => Armed(d.c)))
    /\ IsFiniteSet(d.out) /\ \A s \in d.out : Sent(s, h, c, w)
    /\ d.c.nxt = SeqNo(h, -1) => c.nxt = SeqNo(h, -1) /\ d.out = {}
    /\ d.c.finSent => c.finSent \/ c.state \in Closing

\* drain_tx_ring on a connection with bytes on the way and no FIN.
LEMMA DrainFlowing ==
  ASSUME NEW h \in Host, NEW c, Sized(c), NEW w \in Nat, w + 2 < Modulus, Ring(c, w), Flowing(h, c, w), NEW k \in Nat, NEW d, d = Drain(h, c, k)
  PROVE  Drained(h, c, d, w)
<1> DEFINE a == Freed(c, w)
<1>1. /\ Len(c.tx) \in Nat /\ Len(c.tx) <= BufSize /\ (c.tx = <<>> <=> Len(c.tx) = 0) /\ a \in Nat /\ a + Len(c.tx) = w
  BY RingFacts
<1>2. PICK n \in a .. w : c.nxt = SeqNo(h, n)
  BY DEF Flowing
<1>3. c.una = SeqNo(h, a) /\ ~c.finSent /\ ~c.finAcked
  BY DEF Flowing
<1>4. PICK off \in Nat, last \in Nat : DrainedTo(h, c, d, a, off, last)
  <2> HIDE DEF a
  <2>1. a \in Int /\ c.una = SeqNo(h, a) /\ d = Drain(h, c, k)
    BY <1>1, <1>3
  <2>2. QED
    BY <2>1, DrainFacts, SMTT(60)
<1>5. n \in Int /\ a \in Int /\ n - a \in 0 .. Len(c.tx) /\ n - a < Modulus
  BY <1>1, <1>2, Sizes
<1>6. off = n - a
  <2>1. off = Minus(c.nxt, c.una)
    BY <1>4 DEF DrainedTo
  <2>2. QED
    BY <1>2, <1>3, <1>5, <2>1, SeqNoFacts
<1>7. off <= last /\ last <= Len(c.tx) /\ (c.tx # <<>> /\ ~d.failed => last > 0) /\ d.failed \in BOOLEAN
  BY <1>1, <1>4, <1>5, <1>6 DEF DrainedTo
<1>8. Sized(d.c) /\ SameButNext(d.c, c) /\ Freed(d.c, w) = a /\ d.c.una = SeqNo(h, a)
  <2>1. Sized(d.c) /\ SameButNext(d.c, c)
    BY <1>4 DEF DrainedTo
  <2>2. Freed(d.c, w) = a /\ d.c.una = c.una
    BY <2>1, SameFacts
  <2>3. QED
    BY <1>3, <2>1, <2>2
<1> HIDE DEF a
<1>9. IsFiniteSet(DataOf(h, c, off, last)) /\ \A s \in DataOf(h, c, off, last) : Sent(s, h, c, w)
  <2>1. off \in Int /\ last \in Int
    OBVIOUS
  <2>2. QED
    BY <1>3, <1>7, <2>1, DataIsFinite, DataFacts DEF a
<1>10. CASE ~c.finSent /\ c.state \in Closing /\ last >= Len(c.tx)
  <2>1. /\ d.c.finSent /\ d.c.nxt = SeqNo(h, a + last + 1)
        /\ d.out = DataOf(h, c, off, last) \union {Segment(h, c, {"ACK", "FIN"}, SeqNo(h, a + last), <<>>)}
    BY <1>4, <1>10 DEF DrainedTo
  <2>2. a + last = w
    BY <1>1, <1>7, <1>10
  <2>3. d.c.nxt = SeqNo(h, w + 1) /\ ~d.c.finAcked
    <3>1. d.c.finAcked = c.finAcked
      BY <1>8, SameFacts
    <3>2. QED
      BY <1>3, <2>1, <2>2, <3>1
  <2>4. Ending(h, d.c, w)
    BY <1>8, <2>1, <2>3 DEF Ending
  <2>5. IsFiniteSet(d.out) /\ \A s \in d.out : Sent(s, h, c, w)
    <3>1. Sent(Segment(h, c, {"ACK", "FIN"}, SeqNo(h, a + last), <<>>), h, c, w)
      BY <1>10, <2>2, FinFacts
    <3>2. QED
      BY <1>9, <2>1, <3>1, FS_AddElement
  <2>6. d.c.nxt # SeqNo(h, -1) /\ d.c.nxt # d.c.una
    <3>1. a \in Nat /\ a <= w
      BY <1>1
    <3>2. w + 1 \in Nat /\ w + 1 # a /\ w + 1 < Modulus /\ a < Modulus /\ w + 1 + 1 < Modulus
      BY <3>1, Sizes
    <3>3. SeqNo(h, w + 1) # SeqNo(h, -1) /\ SeqNo(h, w + 1) # SeqNo(h, a)
      BY <3>1, <3>2, NotTheSyn, Apart
    <3>4. QED
      BY <1>8, <2>3, <3>3
  <2>7. QED
    BY <1>7, <1>8, <1>10, <2>4, <2>5, <2>6 DEF Drained, Numbered, Prompt, Armed
<1>11. CASE ~(~c.finSent /\ c.state \in Closing /\ last >= Len(c.tx))
  <2>1. d.c.finSent = c.finSent /\ d.c.nxt = SeqNo(h, a + last) /\ d.out = DataOf(h, c, off, last)
    BY <1>4, <1>11 DEF DrainedTo
  <2>2. a + last \in a .. w
    BY <1>1, <1>7
  <2>3. ~d.c.finSent /\ ~d.c.finAcked /\ d.c.tx = c.tx /\ d.c.state = c.state
    BY <1>3, <1>8, <2>1, SameFacts
  <2>4. Flowing(h, d.c, w)
    BY <1>8, <2>1, <2>2, <2>3 DEF Flowing
  <2>6. d.c.nxt # SeqNo(h, -1)
    <3>1. a + last \in Nat /\ a + last + 1 < Modulus
      BY <1>1, <2>2, Sizes
    <3>2. QED
      BY <2>1, <3>1, NotTheSyn
  <2>7. ~d.failed => Armed(d.c)
    <3>1. SUFFICES ASSUME ~d.failed, d.c.tx # <<>> \/ d.c.state \in Closing PROVE d.c.nxt # d.c.una
      BY DEF Armed
    <3>2. last > 0
      <4>1. CASE c.tx # <<>>
        BY <1>7, <3>1, <4>1
      <4>2. CASE c.tx = <<>>
        BY <1>1, <1>3, <1>11, <2>3, <3>1, <4>2
      <4>3. QED
        BY <4>1, <4>2
    <3>3. a + last \in Nat /\ a \in Nat /\ a + last < Modulus /\ a < Modulus /\ a + last # a
      <4>1. Modulus \in Nat /\ a \in Nat /\ a + Len(c.tx) = w /\ Len(c.tx) \in Nat /\ last <= Len(c.tx)
        BY <1>1, <1>7, Sizes
      <4>2. QED
        BY <4>1, <3>2
    <3>4. SeqNo(h, a + last) # SeqNo(h, a)
      BY <3>3, Apart
    <3>5. QED
      BY <1>8, <2>1, <3>4
  <2>8. QED
    BY <1>7, <1>8, <1>9, <2>1, <2>3, <2>4, <2>6, <2>7 DEF Drained, Numbered, Prompt
<1>12. QED
  BY <1>10, <1>11

\* A connection with snd_nxt at u + off, of which nothing is left to send.
LEMMA DrainIdle ==
  ASSUME NEW h \in Host, NEW c, Sized(c), NEW u \in Nat, NEW off \in Nat, u + off + 1 < Modulus, Len(c.tx) <= off,
         c.finSent, c.una = SeqNo(h, u), c.nxt = SeqNo(h, u + off), NEW n \in Nat, NEW d, d = Drain(h, c, n)
  PROVE  Sized(d.c) /\ SameButNext(d.c, c) /\ d.c.finSent /\ d.c.nxt = c.nxt /\ d.out = {} /\ d.failed \in BOOLEAN
<1>0. u \in Int /\ u + off \in Int /\ off \in Int /\ Len(c.tx) \in Nat /\ off < Modulus /\ (u + off) - u = off
  BY Fields, Sizes
<1>1. PICK o \in Nat, last \in Nat : DrainedTo(h, c, d, u, o, last)
  BY <1>0, DrainFacts
<1>2. o = off
  <2>1. o = Minus(c.nxt, c.una)
    BY <1>1 DEF DrainedTo
  <2>2. Minus(SeqNo(h, u + off), SeqNo(h, u)) = off
    BY <1>0, SeqNoFacts
  <2>3. QED
    BY <2>1, <2>2
<1>3. last = off
  <2>1. o <= last /\ (last = o \/ last <= Len(c.tx))
    BY <1>1 DEF DrainedTo
  <2>2. PICK l \in Nat : l = Len(c.tx) /\ l <= off
    BY <1>0
  <2>3. QED
    BY <1>2, <2>1, <2>2
<1>4. Sized(d.c) /\ SameButNext(d.c, c) /\ d.c.finSent /\ d.c.nxt = SeqNo(h, u + last) /\ d.out = DataOf(h, c, o, last)
  BY <1>1 DEF DrainedTo
<1>5. DataOf(h, c, o, last) = {}
  BY <1>0, <1>2, <1>3, DataIsFinite
<1>6. d.failed \in BOOLEAN
  BY <1>1 DEF DrainedTo
<1>7. QED
  BY <1>3, <1>4, <1>5, <1>6, Zenon

\* drain_tx_ring on a connection whose FIN is on the way, or acknowledged: it sends nothing new.
LEMMA DrainEnding ==
  ASSUME NEW h \in Host, NEW c, Sized(c), NEW w \in Nat, w + 2 < Modulus, Ring(c, w), Ending(h, c, w) \/ Ended(h, c, w),
         NEW n \in Nat, NEW d, d = Drain(h, c, n)
  PROVE  Drained(h, c, d, w)
<1>1. /\ Len(c.tx) \in Nat /\ (c.tx = <<>> <=> Len(c.tx) = 0) /\ Freed(c, w) \in Nat /\ Freed(c, w) + Len(c.tx) = w
  BY RingFacts
<1>2. Sized(d.c) /\ SameButNext(d.c, c) /\ d.c.finSent /\ d.c.nxt = c.nxt /\ d.out = {} /\ d.failed \in BOOLEAN
  <2>1. CASE Ending(h, c, w)
    <3> DEFINE u == Freed(c, w)
    <3> DEFINE off == Len(c.tx) + 1
    <3>1. u \in Nat /\ off \in Nat /\ u + off = w + 1 /\ u + off + 1 < Modulus /\ Len(c.tx) <= off
      <4>1. Modulus \in Nat /\ u \in Nat /\ Len(c.tx) \in Nat /\ u + Len(c.tx) = w
        BY <1>1, Sizes
      <4> HIDE DEF u
      <4>2. QED
        BY <4>1
    <3>2. c.finSent /\ c.una = SeqNo(h, u) /\ c.nxt = SeqNo(h, w + 1)
      BY <2>1 DEF Ending
    <3> HIDE DEF u, off
    <3>3. QED
      BY <3>1, <3>2, DrainIdle
  <2>2. CASE Ended(h, c, w)
    <3> DEFINE u == w + 1
    <3>1. u \in Nat /\ 0 \in Nat /\ u + 0 = u /\ u + 0 + 1 < Modulus /\ Len(c.tx) <= 0
      BY <1>1, <2>2, Sizes DEF Ended
    <3>2. c.finSent /\ c.una = SeqNo(h, u) /\ c.nxt = SeqNo(h, u + 0)
      BY <2>2, <3>1 DEF Ended
    <3> HIDE DEF u
    <3>3. QED
      BY <3>1, <3>2, DrainIdle
  <2>3. QED
    BY <2>1, <2>2
<1>3. d.c.tx = c.tx /\ d.c.una = c.una /\ d.c.finAcked = c.finAcked /\ d.c.state = c.state /\ Freed(d.c, w) = Freed(c, w)
  BY <1>2, SameFacts
<1>4. (Ending(h, c, w) => Ending(h, d.c, w)) /\ (Ended(h, c, w) => Ended(h, d.c, w))
  BY <1>2, <1>3 DEF Ending, Ended
<1>5. d.c.nxt = SeqNo(h, w + 1)
  BY <1>2 DEF Ending, Ended
<1>6. d.c.nxt # SeqNo(h, -1)
  <2>1. w + 1 \in Nat /\ w + 1 + 1 < Modulus
    BY Sizes
  <2>2. QED
    BY <1>5, <2>1, NotTheSyn
<1>7. Armed(d.c)
  <2>1. CASE Ending(h, c, w)
    <3>0. Freed(c, w) \in Nat /\ Freed(c, w) <= w
      BY <1>1
    <3>1. Freed(c, w) \in Nat /\ w + 1 \in Nat /\ Freed(c, w) # w + 1 /\ w + 1 < Modulus /\ Freed(c, w) < Modulus
      BY <3>0, Sizes
    <3>2. SeqNo(h, w + 1) # SeqNo(h, Freed(c, w))
      BY <3>1, Apart
    <3>3. QED
      BY <1>3, <1>5, <2>1, <3>2 DEF Ending, Armed
  <2>2. CASE Ended(h, c, w)
    BY <1>3, <2>2 DEF Ended, Armed
  <2>3. QED
    BY <2>1, <2>2
<1>8. Prompt(h, d.c, w)
  BY <1>4 DEF Prompt
<1>9. IsFiniteSet(d.out) /\ \A s \in d.out : Sent(s, h, c, w)
  BY <1>2, FS_EmptySet
<1>10. c.finSent
  BY DEF Ending, Ended
<1>11. QED
  BY <1>2, <1>6, <1>7, <1>8, <1>9, <1>10 DEF Drained, Numbered

\* drain_tx_ring on a connection whose FIN went out with the number of the SYN: it sends data.
LEMMA DrainFinLost ==
  ASSUME NEW h \in Host, NEW c, Sized(c), NEW w \in Nat, w + 2 < Modulus, Ring(c, w), FinLost(h, c, w), ~Prompt(h, c, w),
         NEW k \in Nat, NEW d, d = Drain(h, c, k)
  PROVE  Drained(h, c, d, w)
<1> DEFINE a == Freed(c, w)
<1>1. /\ Len(c.tx) \in Nat /\ Len(c.tx) <= BufSize /\ a \in Nat /\ a + Len(c.tx) = w
  BY RingFacts
<1>2. PICK n \in a .. w : c.nxt = SeqNo(h, n)
  BY DEF FinLost
<1>3. c.una = SeqNo(h, a) /\ c.finSent
  BY DEF FinLost
<1>4. PICK off \in Nat, last \in Nat : DrainedTo(h, c, d, a, off, last)
  <2> HIDE DEF a
  <2>1. a \in Int /\ c.una = SeqNo(h, a) /\ d = Drain(h, c, k)
    BY <1>1, <1>3
  <2>2. QED
    BY <2>1, DrainFacts, SMTT(60)
<1>5. n \in Int /\ a \in Int /\ n - a \in 0 .. Len(c.tx) /\ n - a < Modulus
  BY <1>1, <1>2, Sizes
<1>6. off = n - a
  <2>1. off = Minus(c.nxt, c.una)
    BY <1>4 DEF DrainedTo
  <2>2. QED
    BY <1>2, <1>3, <1>5, <2>1, SeqNoFacts
<1>7. off <= last /\ last <= Len(c.tx)
  BY <1>1, <1>4, <1>5, <1>6 DEF DrainedTo
<1>8. Sized(d.c) /\ SameButNext(d.c, c) /\ d.c.finSent = c.finSent /\ d.c.nxt = SeqNo(h, a + last) /\ d.out = DataOf(h, c, off, last)
        /\ d.failed \in BOOLEAN
  BY <1>3, <1>4 DEF DrainedTo
<1>9. Freed(d.c, w) = a /\ d.c.una = c.una
  BY <1>8, SameFacts
<1> HIDE DEF a
<1>10. IsFiniteSet(DataOf(h, c, off, last)) /\ \A s \in DataOf(h, c, off, last) : Sent(s, h, c, w)
  <2>1. off \in Int /\ last \in Int
    OBVIOUS
  <2>2. QED
    BY <1>3, <1>7, <2>1, DataIsFinite, DataFacts DEF a
<1>11. a + last \in a .. w /\ a + last \in Nat /\ a + last + 1 < Modulus
  BY <1>1, <1>7, Sizes
<1>12. FinLost(h, d.c, w)
  BY <1>3, <1>8, <1>9, <1>11 DEF FinLost
<1>13. d.c.nxt # SeqNo(h, -1)
  BY <1>8, <1>11, NotTheSyn
<1>14. QED
  BY <1>3, <1>8, <1>10, <1>12, <1>13 DEF Drained, Numbered

\* drain_tx_ring on a connection whose snd_nxt is still that of the SYN: what it sends there is a FIN, or nothing.
LEMMA DrainRewound ==
  ASSUME NEW h \in Host, NEW c, Sized(c), NEW w \in Nat, w + 2 < Modulus, Ring(c, w), Rewound(h, c, w), ~Prompt(h, c, w),
         NEW n \in Nat, NEW d, d = Drain(h, c, n)
  PROVE  Drained(h, c, d, w)
<1>1. /\ Len(c.tx) \in Nat /\ Len(c.tx) <= BufSize /\ Len(c.tx) = w /\ Freed(c, w) = 0
  <2>1. Freed(c, w) = 0
    BY DEF Rewound
  <2>2. QED
    BY <2>1, RingFacts
<1>3. c.una = SeqNo(h, 0) /\ c.nxt = SeqNo(h, -1) /\ ~c.finSent /\ ~c.finAcked
  BY DEF Rewound
<1>4. PICK off \in Nat, last \in Nat : DrainedTo(h, c, d, 0, off, last)
  BY <1>3, DrainFacts
<1>5. off = Modulus - 1
  <2>1. off = Minus(c.nxt, c.una)
    BY <1>4 DEF DrainedTo
  <2>2. -1 \in Int /\ 0 \in Int /\ (-1) - 0 = -1 /\ -Modulus <= -1
    BY Sizes
  <2>3. Minus(SeqNo(h, -1), SeqNo(h, 0)) = (-1) - 0 + Modulus
    BY <2>2, SeqNoFacts
  <2>4. QED
    BY <1>3, <2>1, <2>3, Sizes
<1>7. last = off /\ Len(c.tx) < last
  <2>1. off <= last /\ (last = off \/ last <= Len(c.tx))
    BY <1>4 DEF DrainedTo
  <2>2. QED
    BY <1>1, <1>5, <2>1, Sizes
<1>8. Sized(d.c) /\ SameButNext(d.c, c) /\ d.failed \in BOOLEAN
  BY <1>4 DEF DrainedTo
<1>9. Freed(d.c, w) = 0 /\ d.c.una = c.una /\ d.c.finAcked = c.finAcked
  BY <1>1, <1>8, SameFacts
<1>10. DataOf(h, c, off, last) = {}
  <2>1. off \in Int /\ last \in Int /\ last <= off
    BY <1>7
  <2>2. QED
    BY <2>1, DataIsFinite
<1>11. SeqNo(h, 0 + last) = SeqNo(h, -1) /\ SeqNo(h, 0 + last + 1) = SeqNo(h, 0)
  <2>1. Iss(h) \in Int /\ Iss(h) + 1 + (0 + last) = Iss(h) + Modulus /\ Iss(h) + 1 + (0 + last + 1) = (Iss(h) + 1) + Modulus
        /\ Iss(h) + 1 + (-1) = Iss(h) /\ Iss(h) + 1 + 0 = Iss(h) + 1
    BY <1>5, <1>7, Hosts, Sizes
  <2>2. ASSUME NEW x \in Int PROVE (x + Modulus) % Modulus = x % Modulus
    <3>1. PICK q \in Int, r \in 0 .. Modulus - 1 : x = Modulus * q + r /\ r = x % Modulus
      BY Divide
    <3> DEFINE y == x + Modulus
    <3>2. y = Modulus * (q + 1) + r /\ y \in Int /\ q + 1 \in Int
      BY <3>1, Sizes
    <3> HIDE DEF y
    <3>3. y % Modulus = r
      BY <3>2, OneRemainder
    <3>4. QED
      BY <3>1, <3>3 DEF y
  <2>3. Iss(h) + 1 \in Int
    BY <2>1
  <2>4. QED
    BY <2>1, <2>2, <2>3 DEF SeqNo, Plus
<1>12. CASE c.state \in Closing
  <2>1. /\ d.c.finSent /\ d.c.nxt = SeqNo(h, 0 + last + 1)
        /\ d.out = DataOf(h, c, off, last) \union {Segment(h, c, {"ACK", "FIN"}, SeqNo(h, 0 + last), <<>>)}
    BY <1>1, <1>3, <1>4, <1>7, <1>12 DEF DrainedTo
  <2>2. Sent(Segment(h, c, {"ACK", "FIN"}, SeqNo(h, 0 + last), <<>>), h, c, w)
    <3>1. 0 + last \in Int
      OBVIOUS
    <3>2. QED
      BY <1>11, <1>12, <3>1, FinFacts
  <2>3. IsFiniteSet(d.out) /\ \A s \in d.out : Sent(s, h, c, w)
    <3>1. IsFiniteSet(DataOf(h, c, off, last))
      BY <1>10, FS_EmptySet
    <3>2. QED
      BY <1>10, <2>1, <2>2, <3>1, FS_AddElement
  <2>4. FinLost(h, d.c, w)
    <3>1. 0 \in 0 .. w
      OBVIOUS
    <3>2. QED
      BY <1>3, <1>9, <1>11, <2>1, <3>1 DEF FinLost
  <2>5. d.c.nxt # SeqNo(h, -1)
    BY <1>11, <2>1, NotTheSyn, Sizes
  <2>6. QED
    BY <1>8, <1>12, <2>3, <2>4, <2>5 DEF Drained, Numbered
<1>13. CASE c.state \notin Closing
  <2>1. d.c.finSent = c.finSent /\ d.c.nxt = SeqNo(h, 0 + last) /\ d.out = DataOf(h, c, off, last)
    BY <1>4, <1>13 DEF DrainedTo
  <2>2. Rewound(h, d.c, w)
    BY <1>3, <1>9, <1>11, <2>1 DEF Rewound
  <2>3. IsFiniteSet(d.out) /\ d.out = {}
    BY <1>10, <2>1, FS_EmptySet
  <2>4. QED
    BY <1>3, <1>8, <2>1, <2>2, <2>3 DEF Drained, Numbered
<1>14. QED
  BY <1>12, <1>13

\* drain_tx_ring keeps the numbers of a connection right, and what it sends is true.
LEMMA DrainKeeps ==
  ASSUME NEW h \in Host, NEW c, Sized(c), NEW w \in Nat, w + 2 < Modulus, Ring(c, w), Numbered(h, c, w), NEW n \in Nat, NEW d, d = Drain(h, c, n)
  PROVE  Drained(h, c, d, w)
<1>1. CASE Flowing(h, c, w)
  BY <1>1, DrainFlowing
<1>2. CASE Ending(h, c, w) \/ Ended(h, c, w)
  BY <1>2, DrainEnding
<1>3. CASE ~Prompt(h, c, w) /\ Rewound(h, c, w)
  BY <1>3, DrainRewound
<1>4. CASE ~Prompt(h, c, w) /\ FinLost(h, c, w)
  BY <1>4, DrainFinLost
<1>5. QED
  BY <1>1, <1>2, <1>3, <1>4 DEF Numbered, Prompt

\* The timer sets snd_nxt, and takes back fin_sent.
LEMMA NextAndFinSet ==
  ASSUME NEW c, Sized(c), NEW n, n \in Seq32
  PROVE  /\ \A e : e = [c EXCEPT !.nxt = n, !.finSent = TRUE] => Sized(e) /\ SameButNext(e, c) /\ e.nxt = n /\ e.finSent
         /\ \A e : e = [c EXCEPT !.nxt = n, !.finSent = FALSE] => Sized(e) /\ SameButNext(e, c) /\ e.nxt = n /\ ~e.finSent
BY DEF Sized, Conn, SameButNext

\* What tcp_poll makes of c before it drains.
Rewinding(c) ==
    [c EXCEPT !.nxt = c.una, !.finSent = @ /\ ~(c.finSent /\ Minus(c.nxt, c.una) > Len(c.tx))]

\* What tcp_timer puts back: snd_nxt, and fin_sent when the FIN is not acknowledged.
LEMMA RewindSame ==
  ASSUME NEW c, Sized(c), NEW e, e = Rewinding(c)
  PROVE  Sized(e) /\ SameButNext(e, c) /\ e.nxt = c.una /\ (e.finSent <=> c.finSent /\ ~(Minus(c.nxt, c.una) > Len(c.tx)))
<1> DEFINE b == c.finSent /\ ~(c.finSent /\ Minus(c.nxt, c.una) > Len(c.tx))
<1>1. e = [c EXCEPT !.nxt = c.una, !.finSent = b]
  BY DEF Rewinding
<1>2. b \in BOOLEAN /\ (b <=> c.finSent /\ ~(Minus(c.nxt, c.una) > Len(c.tx))) /\ c.una \in Seq32
  BY Fields
<1> HIDE DEF b
<1>3. Sized(e) /\ SameButNext(e, c) /\ e.nxt = c.una /\ (e.finSent <=> b)
  <2>1. CASE b = TRUE
    <3>1. e = [c EXCEPT !.nxt = c.una, !.finSent = TRUE]
      BY <1>1, <2>1, Zenon
    <3>2. Sized(e) /\ SameButNext(e, c) /\ e.nxt = c.una /\ e.finSent
      BY <1>2, <3>1, NextAndFinSet, Zenon
    <3>3. QED
      BY <2>1, <3>2
  <2>2. CASE b = FALSE
    <3>1. e = [c EXCEPT !.nxt = c.una, !.finSent = FALSE]
      BY <1>1, <2>2, Zenon
    <3>2. Sized(e) /\ SameButNext(e, c) /\ e.nxt = c.una /\ ~e.finSent
      BY <1>2, <3>1, NextAndFinSet, Zenon
    <3>3. QED
      BY <2>2, <3>2
  <2>3. QED
    BY <1>2, <2>1, <2>2
<1>4. QED
  BY <1>2, <1>3

\* The flight of a connection.
LEMMA FlightFacts ==
  ASSUME NEW h \in Host, NEW k \in Nat, NEW n \in Nat, k <= n, n < Modulus
  PROVE  Minus(SeqNo(h, n), SeqNo(h, k)) = n - k
<1>1. n \in Int /\ k \in Int /\ 0 <= n - k /\ n - k < Modulus
  BY Sizes
<1>2. QED
  BY <1>1, SeqNoFacts

\* tcp_timer keeps the numbers of a connection right.
LEMMA RewindKeeps ==
  ASSUME NEW h \in Host, NEW c, Sized(c), NEW w \in Nat, w + 2 < Modulus, Ring(c, w), Numbered(h, c, w), c.nxt # c.una,
         NEW e, e = Rewinding(c)
  PROVE  Numbered(h, e, w) /\ (Prompt(h, c, w) => Prompt(h, e, w)) /\ (e.finSent => c.finSent)
<1>1. /\ Len(c.tx) \in Nat /\ Freed(c, w) \in Nat /\ Freed(c, w) + Len(c.tx) = w
  BY RingFacts
<1>2. SameButNext(e, c) /\ e.nxt = c.una /\ (e.finSent <=> c.finSent /\ ~(Minus(c.nxt, c.una) > Len(c.tx)))
  BY RewindSame
<1>3. Freed(e, w) = Freed(c, w) /\ e.una = c.una /\ e.finAcked = c.finAcked
  BY <1>2, SameFacts
<1>4. e.finSent => c.finSent
  BY <1>2
<1>5. Freed(c, w) \in Freed(c, w) .. w
  BY <1>1
<1>6. CASE Flowing(h, c, w)
  <2>1. ~c.finSent /\ ~c.finAcked /\ c.una = SeqNo(h, Freed(c, w))
    BY <1>6 DEF Flowing
  <2>2. Flowing(h, e, w)
    BY <1>2, <1>3, <1>4, <1>5, <2>1 DEF Flowing
  <2>3. QED
    BY <1>4, <2>2 DEF Numbered, Prompt
<1>7. CASE Ending(h, c, w)
  <2>1. c.finSent /\ ~c.finAcked /\ c.una = SeqNo(h, Freed(c, w)) /\ c.nxt = SeqNo(h, w + 1)
    BY <1>7 DEF Ending
  <2>2. Freed(c, w) <= w + 1 /\ w + 1 \in Nat /\ w + 1 < Modulus /\ (w + 1) - Freed(c, w) > Len(c.tx)
    BY <1>1, Sizes
  <2>3. Minus(c.nxt, c.una) = (w + 1) - Freed(c, w)
    BY <1>1, <2>1, <2>2, FlightFacts
  <2>4. ~e.finSent
    BY <1>2, <2>2, <2>3
  <2>5. Flowing(h, e, w)
    BY <1>2, <1>3, <1>5, <2>1, <2>4 DEF Flowing
  <2>6. QED
    BY <1>4, <2>5 DEF Numbered, Prompt
<1>8. CASE Ended(h, c, w)
  BY <1>8 DEF Ended
<1>9. CASE ~Prompt(h, c, w) /\ Rewound(h, c, w)
  <2>1. ~c.finSent /\ ~c.finAcked /\ c.una = SeqNo(h, 0) /\ Freed(c, w) = 0
    BY <1>9 DEF Rewound
  <2>2. Flowing(h, e, w)
    BY <1>2, <1>3, <1>4, <1>5, <2>1 DEF Flowing
  <2>3. QED
    BY <1>4, <2>2 DEF Numbered, Prompt
<1>10. CASE ~Prompt(h, c, w) /\ FinLost(h, c, w)
  <2>1. c.finSent /\ c.una = SeqNo(h, Freed(c, w))
    BY <1>10 DEF FinLost
  <2>2. PICK n \in Freed(c, w) .. w : c.nxt = SeqNo(h, n)
    BY <1>10 DEF FinLost
  <2>3. Freed(c, w) <= n /\ n \in Nat /\ n < Modulus /\ ~(n - Freed(c, w) > Len(c.tx))
    BY <1>1, Sizes
  <2>4. Minus(c.nxt, c.una) = n - Freed(c, w)
    BY <1>1, <2>1, <2>2, <2>3, FlightFacts
  <2>5. e.finSent
    BY <1>2, <2>1, <2>3, <2>4
  <2>6. FinLost(h, e, w)
    BY <1>2, <1>3, <1>5, <2>1, <2>5 DEF FinLost
  <2>7. QED
    BY <1>4, <1>10, <2>6 DEF Numbered
<1>11. QED
  BY <1>6, <1>7, <1>8, <1>9, <1>10 DEF Numbered, Prompt

\* During the handshake a rewind sends nothing.
LEMMA RewindGreets ==
  ASSUME NEW h \in Host, NEW c, Sized(c), NEW w \in Nat, w + 2 < Modulus, Ring(c, w), Greeting(h, c, w), c.state \notin Closing,
         NEW n \in Nat, NEW d, d = Drain(h, Rewinding(c), n)
  PROVE  Sized(d.c) /\ SameButNext(d.c, c) /\ Greeting(h, d.c, w) /\ d.out = {} /\ d.c.finSent = c.finSent /\ d.failed \in BOOLEAN
<1> DEFINE e == Rewinding(c)
<1>1. Sized(e) /\ SameButNext(e, c) /\ e.nxt = c.una /\ (e.finSent <=> c.finSent /\ ~(Minus(c.nxt, c.una) > Len(c.tx)))
  BY RewindSame
<1> HIDE DEF e
<1>2. w = 0 /\ ~c.finSent /\ ~c.finAcked /\ c.una = SeqNo(h, -1)
  BY DEF Greeting
<1>3. Len(c.tx) = 0 /\ e.una = c.una /\ e.tx = c.tx /\ e.state = c.state
  <2>1. Len(c.tx) \in Nat /\ Len(c.tx) <= w
    BY Fields DEF Ring
  <2>2. QED
    BY <1>1, <1>2, <2>1 DEF SameButNext
<1> DEFINE u == -1
<1>40. u \in Int /\ e.una = SeqNo(h, u) /\ d = Drain(h, e, n)
  BY <1>2, <1>3 DEF e
<1> HIDE DEF u
<1>4. PICK off \in Nat, last \in Nat : DrainedTo(h, e, d, u, off, last)
  BY <1>1, <1>40, DrainFacts
<1>5. off = 0
  <2>1. off = Minus(e.nxt, e.una)
    BY <1>4 DEF DrainedTo
  <2>2. -1 \in Int /\ 0 <= (-1) - (-1) /\ (-1) - (-1) < Modulus
    BY Sizes
  <2>3. Minus(SeqNo(h, -1), SeqNo(h, -1)) = (-1) - (-1)
    BY <2>2, SeqNoFacts
  <2>4. QED
    BY <1>1, <1>2, <1>3, <2>1, <2>3
<1>6. last = 0
  <2>1. last = off \/ last <= Len(e.tx)
    BY <1>4 DEF DrainedTo
  <2>2. QED
    BY <1>3, <1>5, <2>1
<1>7. Sized(d.c) /\ SameButNext(d.c, e) /\ d.c.finSent = e.finSent /\ d.c.nxt = SeqNo(h, u + last) /\ d.out = DataOf(h, e, off, last)
      /\ d.failed \in BOOLEAN
  <2>1. e.state \notin Closing
    BY <1>3
  <2>2. QED
    BY <1>4, <2>1 DEF DrainedTo
<1>8. d.out = {}
  <2>1. off \in Int /\ last \in Int /\ last <= off
    BY <1>5, <1>6
  <2>2. QED
    BY <1>7, <2>1, DataIsFinite
<1>9. SameButNext(d.c, c)
  BY <1>1, <1>7 DEF SameButNext
<1>10. ~d.c.finSent /\ d.c.finAcked = c.finAcked /\ d.c.una = c.una
  BY <1>1, <1>2, <1>7, <1>9, SameFacts
<1>11. d.c.nxt = SeqNo(h, -1)
  BY <1>6, <1>7 DEF u
<1>12. Greeting(h, d.c, w)
  BY <1>2, <1>10, <1>11 DEF Greeting
<1>13. d.c.finSent = c.finSent
  <2>1. d.c.finSent \in BOOLEAN /\ c.finSent \in BOOLEAN
    BY <1>7, Fields
  <2>2. QED
    BY <1>2, <1>10, <2>1
<1>14. QED
  BY <1>7, <1>8, <1>9, <1>12, <1>13

\* d is c but for what an acknowledgement may change.
SameButAcked(d, c) ==
    /\ d.state = c.state /\ d.nxt = c.nxt /\ d.rcvNxt = c.rcvNxt /\ d.rx = c.rx
    /\ d.finSent = c.finSent /\ d.peerFin = c.peerFin /\ d.reset = c.reset /\ d.userClosed = c.userClosed

\* What apply_ack of ack makes of c: nothing, or it moves una by n.
AckedBy(c, ack, n, d) ==
    LET flight == Minus(c.nxt, c.una)
        dataFlight == IF c.finSent /\ flight > Len(c.tx) THEN flight - 1 ELSE flight
        k == IF n <= dataFlight THEN n ELSE dataFlight
    IN  /\ n = Minus(ack, c.una) /\ n > 0 /\ n <= flight
        /\ Sized(d) /\ SameButAcked(d, c) /\ d.una = ack
        /\ k \in Nat
        /\ k <= Len(c.tx) => /\ d.tx = SubSeq(c.tx, k + 1, Len(c.tx)) /\ Len(d.tx) = Len(c.tx) - k
                             /\ \A i \in 1 .. Len(d.tx) : d.tx[i] = c.tx[k + i]
        /\ d.finAcked <=> c.finAcked \/ (c.finSent /\ ack = c.nxt)

\* What remains of a sequence without its first elements.
LEMMA Cut ==
  ASSUME NEW s, s \in Bytes, NEW k \in Nat, k <= Len(s)
  PROVE  /\ SubSeq(s, k + 1, Len(s)) \in Bytes /\ Len(SubSeq(s, k + 1, Len(s))) = Len(s) - k
         /\ \A i \in 1 .. Len(s) - k : SubSeq(s, k + 1, Len(s))[i] = s[k + i]
BY DEF Bytes

\* An acknowledgement sets snd_una, the ring and fin_acked.
LEMMA AckSet ==
  ASSUME NEW c, Sized(c), NEW a, a \in Seq32, NEW t, t \in Bytes, Len(t) <= BufSize
  PROVE  /\ \A d : d = [c EXCEPT !.tx = t, !.una = a, !.finAcked = TRUE]
                       => Sized(d) /\ SameButAcked(d, c) /\ d.una = a /\ d.tx = t /\ d.finAcked
         /\ \A d : d = [c EXCEPT !.tx = t, !.una = a, !.finAcked = FALSE]
                       => Sized(d) /\ SameButAcked(d, c) /\ d.una = a /\ d.tx = t /\ ~d.finAcked
<1>1. ASSUME NEW d, d = [c EXCEPT !.tx = t, !.una = a, !.finAcked = TRUE]
      PROVE  Sized(d) /\ SameButAcked(d, c) /\ d.una = a /\ d.tx = t /\ d.finAcked
  BY <1>1 DEF Sized, Conn, SameButAcked
<1>2. ASSUME NEW d, d = [c EXCEPT !.tx = t, !.una = a, !.finAcked = FALSE]
      PROVE  Sized(d) /\ SameButAcked(d, c) /\ d.una = a /\ d.tx = t /\ ~d.finAcked
  BY <1>2 DEF Sized, Conn, SameButAcked
<1>3. QED
  BY <1>1, <1>2

\* An acknowledgement that changes a connection frees some bytes, and perhaps the FIN.
LEMMA AckedIs ==
  ASSUME NEW h \in Host, NEW u \in Nat, NEW c, Sized(c), c.una = SeqNo(h, u), NEW ack, ack \in Seq32, NEW d, d = Acked(c, ack), d # c
  PROVE  \E n \in Nat : AckedBy(c, ack, n, d)
<1>1. PICK flight, n : flight = Minus(c.nxt, c.una) /\ n = Minus(ack, c.una)
  OBVIOUS
<1>2. c.tx \in Bytes /\ Len(c.tx) \in Nat /\ Len(c.tx) <= BufSize /\ c.nxt \in Seq32
  BY Fields, Sizes
<1>3. flight \in Nat /\ n \in Nat
  <2>1. Minus(c.nxt, SeqNo(h, u)) \in 0 .. Modulus - 1 /\ Minus(ack, SeqNo(h, u)) \in 0 .. Modulus - 1
    BY <1>2, AckFacts
  <2>2. QED
    BY <1>1, <2>1, Sizes
<1>4. PICK m : m = IF c.finSent /\ flight > Len(c.tx) THEN flight - 1 ELSE flight
  OBVIOUS
<1>5. m \in Nat
  BY <1>2, <1>3, <1>4
<1>6. PICK k : k = IF n <= m THEN n ELSE m
  OBVIOUS
<1>7. k \in Nat /\ Min({n, m}) = k
  BY <1>3, <1>5, <1>6, LesserOfTwo
<1>8. PICK t : t = SubSeq(c.tx, k + 1, Len(c.tx))
  OBVIOUS
<1>9. k <= Len(c.tx) => t \in Bytes /\ Len(t) = Len(c.tx) - k /\ \A i \in 1 .. Len(t) : t[i] = c.tx[k + i]
  BY <1>2, <1>7, <1>8, Cut
<1>10. t \in Bytes /\ Len(t) <= BufSize
  <2>1. CASE k <= Len(c.tx)
    <3>1. t \in Bytes /\ Len(t) = Len(c.tx) - k
      BY <1>9, <2>1
    <3>2. QED
      BY <1>2, <1>7, <3>1, Sizes
  <2>2. CASE k > Len(c.tx)
    <3>1. t = <<>>
      BY <1>2, <1>7, <1>8, <2>2 DEF Bytes
    <3>2. QED
      BY <3>1, Sizes DEF Bytes
  <2>3. QED
    BY <1>2, <1>7, <2>1, <2>2
<1>11. d = IF n = 0 \/ n > flight THEN c
           ELSE [c EXCEPT !.tx = t, !.una = ack, !.finAcked = c.finAcked \/ (c.finSent /\ ack = c.nxt)]
  BY <1>1, <1>4, <1>7, <1>8 DEF Acked
<1>12. n > 0 /\ n <= flight
  BY <1>3, <1>11
<1>13. /\ Sized(d) /\ SameButAcked(d, c) /\ d.una = ack /\ d.tx = t
       /\ (d.finAcked <=> c.finAcked \/ (c.finSent /\ ack = c.nxt))
  <2>1. CASE c.finAcked \/ (c.finSent /\ ack = c.nxt)
    <3>1. d = [c EXCEPT !.tx = t, !.una = ack, !.finAcked = TRUE]
      <4>1. (c.finAcked \/ (c.finSent /\ ack = c.nxt)) = TRUE
        BY <2>1
      <4>2. d = [c EXCEPT !.tx = t, !.una = ack, !.finAcked = c.finAcked \/ (c.finSent /\ ack = c.nxt)]
        BY <1>3, <1>11, <1>12
      <4>3. QED
        BY <4>1, <4>2, Zenon
    <3>2. Sized(d) /\ SameButAcked(d, c) /\ d.una = ack /\ d.tx = t /\ d.finAcked
      BY <1>10, <3>1 DEF Sized, Conn, SameButAcked
    <3>3. QED
      BY <2>1, <3>2
  <2>2. CASE ~(c.finAcked \/ (c.finSent /\ ack = c.nxt))
    <3>1. d = [c EXCEPT !.tx = t, !.una = ack, !.finAcked = FALSE]
      <4>1. (c.finAcked \/ (c.finSent /\ ack = c.nxt)) = FALSE
        BY <2>2
      <4>2. d = [c EXCEPT !.tx = t, !.una = ack, !.finAcked = c.finAcked \/ (c.finSent /\ ack = c.nxt)]
        BY <1>3, <1>11, <1>12
      <4>3. QED
        BY <4>1, <4>2, Zenon
    <3>2. Sized(d) /\ SameButAcked(d, c) /\ d.una = ack /\ d.tx = t /\ ~d.finAcked
      BY <1>10, <3>1 DEF Sized, Conn, SameButAcked
    <3>3. QED
      BY <2>2, <3>2
  <2>3. QED
    BY <2>1, <2>2
<1>14. AckedBy(c, ack, n, d)
  BY <1>1, <1>4, <1>6, <1>7, <1>8, <1>9, <1>12, <1>13 DEF AckedBy
<1>15. QED
  BY <1>3, <1>14

\* The bytes that an acknowledgement takes out of the ring.
LEMMA RingCut ==
  ASSUME NEW c, Sized(c), NEW d, Sized(d), NEW w \in Nat, Ring(c, w), NEW k \in Nat, k <= Len(c.tx), Len(d.tx) = Len(c.tx) - k,
         \A i \in 1 .. Len(d.tx) : d.tx[i] = c.tx[k + i]
  PROVE  Ring(d, w) /\ Freed(d, w) = Freed(c, w) + k
<1>1. PICK m, l : m = Len(c.tx) /\ l = Len(d.tx)
  OBVIOUS
<1>2. m \in Nat /\ l \in Nat /\ m <= w /\ l = m - k /\ k <= m
  BY <1>1, Fields, Sizes DEF Ring
<1>3. Freed(d, w) = w - l /\ Freed(c, w) = w - m
  BY <1>1 DEF Freed
<1>4. Freed(d, w) = Freed(c, w) + k /\ l <= w
  BY <1>2, <1>3
<1>5. ASSUME NEW i \in 1 .. l PROVE d.tx[i] = Freed(d, w) + i
  <2>1. k + i \in 1 .. m /\ i \in Nat
    BY <1>2
  <2>2. d.tx[i] = c.tx[k + i]
    BY <1>1
  <2>3. c.tx[k + i] = Freed(c, w) + (k + i)
    BY <1>1, <2>1 DEF Ring
  <2>4. QED
    BY <1>2, <1>3, <1>4, <2>1, <2>2, <2>3
<1>6. QED
  BY <1>1, <1>4, <1>5 DEF Ring

\* What apply_ack keeps, and what it says of ack.
AckedKept(h, c, d, w, ack) ==
    /\ Sized(d) /\ SameButAcked(d, c) /\ Ring(d, w) /\ Numbered(h, d, w) /\ (Prompt(h, c, w) => Prompt(h, d, w))
    /\ d # c => \E m \in 0 .. w + 1 : /\ ack = SeqNo(h, m) /\ Freed(d, w) <= m
                                      /\ d.finAcked => c.finAcked \/ m = w + 1 \/ ~Prompt(h, c, w)

\* An acknowledgement of bytes on the way.
LEMMA AckedFlowing ==
  ASSUME NEW h \in Host, NEW c, Sized(c), NEW w \in Nat, w + 2 < Modulus, Ring(c, w),
         Flowing(h, c, w) \/ (~Prompt(h, c, w) /\ FinLost(h, c, w)),
         NEW ack, ack \in Seq32, NEW d, NEW n \in Nat, AckedBy(c, ack, n, d)
  PROVE  AckedKept(h, c, d, w, ack)
<1>1. /\ Len(c.tx) \in Nat /\ Freed(c, w) \in Nat /\ Freed(c, w) + Len(c.tx) = w
  BY RingFacts
<1>2. PICK a \in Nat, z \in Nat : a = Freed(c, w) /\ z = Len(c.tx) /\ a + z = w
  BY <1>1
<1>3. c.una = SeqNo(h, a)
  BY <1>2 DEF Flowing, FinLost
<1>4. PICK j \in a .. w : c.nxt = SeqNo(h, j)
  BY <1>2 DEF Flowing, FinLost
<1>5. Minus(c.nxt, c.una) = j - a
  <2>1. a <= j /\ j \in Nat /\ j < Modulus
    BY <1>2, Sizes
  <2>2. QED
    BY <1>3, <1>4, <2>1, FlightFacts
<1>6. j - a <= z
  BY <1>2
<1>7. n = Minus(ack, c.una) /\ n > 0 /\ n <= j - a
  BY <1>5 DEF AckedBy
<1>8. ack = SeqNo(h, a + n)
  <2>1. a \in Int
    BY <1>2
  <2>2. QED
    BY <1>3, <1>7, <2>1, AckFacts
<1>9. Sized(d) /\ SameButAcked(d, c) /\ d.una = ack /\ (d.finAcked <=> c.finAcked \/ (c.finSent /\ ack = c.nxt))
  BY DEF AckedBy
<1>10. Len(d.tx) = Len(c.tx) - n /\ \A i \in 1 .. Len(d.tx) : d.tx[i] = c.tx[n + i]
  <2>1. Minus(c.nxt, c.una) <= Len(c.tx) /\ n <= Minus(c.nxt, c.una) /\ n <= Len(c.tx)
    BY <1>1, <1>2, <1>5, <1>6, <1>7
  <2>2. ~(Minus(c.nxt, c.una) > Len(c.tx))
    BY <1>1, <1>2, <1>5, <1>6
  <2>3. QED
    BY <2>1, <2>2 DEF AckedBy
<1>11. Ring(d, w) /\ Freed(d, w) = a + n
  <2>1. n <= Len(c.tx)
    BY <1>2, <1>6, <1>7
  <2>2. Ring(d, w) /\ Freed(d, w) = Freed(c, w) + n
    BY <1>9, <1>10, <2>1, RingCut
  <2>3. QED
    BY <1>2, <2>2
<1>12. j \in a + n .. w /\ a + n \in 0 .. w + 1
  BY <1>2, <1>7
<1>13. d.finSent = c.finSent /\ d.nxt = c.nxt
  BY <1>9 DEF SameButAcked
<1>14. CASE Flowing(h, c, w)
  <2>1. ~c.finSent /\ ~c.finAcked
    BY <1>14 DEF Flowing
  <2>2. Flowing(h, d, w)
    BY <1>4, <1>8, <1>9, <1>11, <1>12, <1>13, <2>1 DEF Flowing
  <2>3. Prompt(h, d, w) /\ Numbered(h, d, w) /\ ~d.finAcked
    BY <1>9, <2>1, <2>2 DEF Prompt, Numbered
  <2>4. a + n <= a + n
    BY <1>2
  <2>5. QED
    BY <1>8, <1>9, <1>11, <1>12, <2>3, <2>4 DEF AckedKept
<1>15. CASE ~Prompt(h, c, w) /\ FinLost(h, c, w)
  <2>1. c.finSent
    BY <1>15 DEF FinLost
  <2>2. FinLost(h, d, w)
    BY <1>4, <1>8, <1>9, <1>11, <1>12, <1>13, <2>1 DEF FinLost
  <2>3. a + n <= a + n
    BY <1>2
  <2>4. QED
    BY <1>8, <1>9, <1>11, <1>12, <1>15, <2>2, <2>3 DEF AckedKept, Numbered
<1>16. QED
  BY <1>14, <1>15

\* An acknowledgement while the FIN is on the way.
LEMMA AckedEnding ==
  ASSUME NEW h \in Host, NEW c, Sized(c), NEW w \in Nat, w + 2 < Modulus, Ring(c, w), Ending(h, c, w),
         NEW ack, ack \in Seq32, NEW d, NEW n \in Nat, AckedBy(c, ack, n, d)
  PROVE  AckedKept(h, c, d, w, ack)
<1>1. /\ Len(c.tx) \in Nat /\ Freed(c, w) \in Nat /\ Freed(c, w) + Len(c.tx) = w
  BY RingFacts
<1>2. PICK a \in Nat, z \in Nat : a = Freed(c, w) /\ z = Len(c.tx) /\ a + z = w
  BY <1>1
<1>3. c.una = SeqNo(h, a) /\ c.nxt = SeqNo(h, w + 1) /\ c.finSent /\ ~c.finAcked
  BY <1>2 DEF Ending
<1>5. Minus(c.nxt, c.una) = z + 1
  <2>1. a <= w + 1 /\ w + 1 \in Nat /\ w + 1 < Modulus /\ (w + 1) - a = z + 1
    BY <1>2, Sizes
  <2>2. QED
    BY <1>3, <2>1, FlightFacts
<1>7. n = Minus(ack, c.una) /\ n > 0 /\ n <= z + 1
  BY <1>5 DEF AckedBy
<1>8. ack = SeqNo(h, a + n)
  <2>1. a \in Int
    BY <1>2
  <2>2. QED
    BY <1>3, <1>7, <2>1, AckFacts
<1>9. Sized(d) /\ SameButAcked(d, c) /\ d.una = ack /\ (d.finAcked <=> c.finAcked \/ (c.finSent /\ ack = c.nxt))
  BY DEF AckedBy
<1>10. PICK k \in Nat : k = IF n <= z THEN n ELSE z
  BY <1>2
<1>11. k <= Len(c.tx) /\ Len(d.tx) = Len(c.tx) - k /\ \A i \in 1 .. Len(d.tx) : d.tx[i] = c.tx[k + i]
  <2>1. Minus(c.nxt, c.una) > Len(c.tx) /\ Minus(c.nxt, c.una) - 1 = z
    BY <1>2, <1>5
  <2>2. k <= Len(c.tx)
    BY <1>2, <1>10
  <2>3. QED
    BY <1>3, <1>10, <2>1, <2>2 DEF AckedBy
<1>12. Ring(d, w) /\ Freed(d, w) = a + k
  <2>1. Ring(d, w) /\ Freed(d, w) = Freed(c, w) + k
    BY <1>9, <1>11, RingCut
  <2>2. QED
    BY <2>1, <1>2
<1>13. d.finSent = c.finSent /\ d.nxt = c.nxt
  BY <1>9 DEF SameButAcked
<1>14. CASE n = z + 1
  <2>1. a + n = w + 1 /\ k = z
    BY <1>2, <1>10, <1>14
  <2>2. d.finAcked /\ d.una = SeqNo(h, w + 1)
    BY <1>3, <1>8, <1>9, <2>1
  <2>3. d.tx = <<>>
    <3>1. Len(d.tx) = 0
      BY <1>2, <1>11, <2>1
    <3>2. QED
      BY <1>9, <1>12, <3>1, RingFacts
  <2>4. Ended(h, d, w)
    BY <1>3, <1>13, <2>2, <2>3 DEF Ended
  <2>5. w + 1 \in 0 .. w + 1 /\ a + k <= w + 1
    BY <1>2, <2>1
  <2>6. QED
    BY <1>8, <1>9, <1>12, <2>1, <2>4, <2>5 DEF AckedKept, Numbered, Prompt
<1>15. CASE n <= z
  <2>1. k = n /\ a + n \in 0 .. w + 1 /\ a + n < Modulus /\ w + 1 < Modulus /\ a + n # w + 1 /\ a + n \in Nat /\ w + 1 \in Nat
        /\ a + n <= a + n
    BY <1>2, <1>10, <1>15, Sizes
  <2>2. ack # c.nxt
    BY <1>3, <1>8, <2>1, Apart
  <2>3. Ending(h, d, w) /\ ~d.finAcked
    BY <1>3, <1>8, <1>9, <1>12, <1>13, <2>1, <2>2 DEF Ending
  <2>4. QED
    BY <1>8, <1>9, <1>12, <2>1, <2>3 DEF AckedKept, Numbered, Prompt
<1>16. QED
  BY <1>2, <1>7, <1>14, <1>15

\* An acknowledgement that is in the window frees what it names, and the numbers stay right.
LEMMA AckedKeeps ==
  ASSUME NEW h \in Host, NEW c, Sized(c), NEW w \in Nat, w + 2 < Modulus, Ring(c, w), Numbered(h, c, w),
         NEW ack, ack \in Seq32, c.nxt = SeqNo(h, -1) => ack = SeqNo(h, 0), NEW d, d = Acked(c, ack)
  PROVE  AckedKept(h, c, d, w, ack)
<1>1. CASE d = c
  BY <1>1 DEF AckedKept, SameButAcked
<1>2. CASE d # c
  <2>1. PICK u \in Nat : c.una = SeqNo(h, u)
    <3>1. Freed(c, w) \in Nat /\ w + 1 \in Nat /\ 0 \in Nat
      BY RingFacts
    <3>2. c.una \in {SeqNo(h, Freed(c, w)), SeqNo(h, w + 1), SeqNo(h, 0)}
      BY DEF Numbered, Prompt, Flowing, Ending, Ended, Rewound, FinLost
    <3>3. QED
      BY <3>1, <3>2
  <2>2. PICK n \in Nat : AckedBy(c, ack, n, d)
    BY <1>2, <2>1, AckedIs
  <2>3. CASE Flowing(h, c, w) \/ (~Prompt(h, c, w) /\ FinLost(h, c, w))
    BY <2>2, <2>3, AckedFlowing
  <2>4. CASE Ending(h, c, w)
    BY <2>2, <2>4, AckedEnding
  <2>5. CASE Ended(h, c, w)
    <3>1. c.nxt = c.una /\ c.una = SeqNo(h, w + 1)
      BY <2>5 DEF Ended
    <3>2. w + 1 \in Nat /\ w + 1 <= w + 1 /\ w + 1 < Modulus /\ (w + 1) - (w + 1) = 0
      BY Sizes
    <3>3. Minus(c.nxt, c.una) = 0
      BY <3>1, <3>2, FlightFacts
    <3>4. n > 0 /\ n <= 0
      BY <2>2, <3>3 DEF AckedBy
    <3>5. QED
      BY <3>4
  <2>6. CASE Rewound(h, c, w)
    <3>1. c.nxt = SeqNo(h, -1) /\ c.una = SeqNo(h, 0)
      BY <2>6 DEF Rewound
    <3>2. Minus(SeqNo(h, 0), SeqNo(h, 0)) = 0 - 0
      BY FlightFacts, Sizes
    <3>3. n = 0 /\ n > 0
      BY <2>2, <3>1, <3>2 DEF AckedBy
    <3>4. QED
      BY <3>3
  <2>7. QED
    BY <2>3, <2>4, <2>5, <2>6 DEF Numbered, Prompt
<1>3. QED
  BY <1>1, <1>2

\* Where the reader of a stream stands.
LEMMA ReadingFacts ==
  ASSUME NEW p \in Host, NEW c, Sized(c), NEW g \in Nat, NEW w \in Nat, Reading(p, c, g, w)
  PROVE  /\ Len(c.rx) \in Nat /\ Count(c, g) \in Nat /\ Count(c, g) = g + Len(c.rx) /\ Count(c, g) <= w
         /\ Arrived(c, g) \in Nat /\ Arrived(c, g) <= w + 1
         /\ c.peerFin => Count(c, g) = w /\ Arrived(c, g) = w + 1
         /\ ~c.peerFin => Arrived(c, g) = Count(c, g)
<1>1. Len(c.rx) \in Nat
  BY Fields, Sizes
<1>2. Count(c, g) \in Nat /\ Count(c, g) = g + Len(c.rx)
  BY <1>1 DEF Count
<1>3. Count(c, g) <= w /\ (c.peerFin => Count(c, g) = w)
  BY DEF Reading
<1>4. (c.peerFin => Arrived(c, g) = Count(c, g) + 1) /\ (~c.peerFin => Arrived(c, g) = Count(c, g))
  BY DEF Arrived
<1>5. QED
  BY <1>1, <1>2, <1>3, <1>4

\* An acknowledgement that the peer sent says only what is true.
LEMMA AckedAgrees ==
  ASSUME NEW h \in Host, NEW c, NEW w \in Nat, w + 2 < Modulus, NEW ack, NEW d, Sized(d), AckedKept(h, c, d, w, ack),
         NEW q, Sized(q), NEW g \in Nat, Reading(h, q, g, w), NEW k \in 0 .. Arrived(q, g), ack = SeqNo(h, k),
         Freed(c, w) <= Count(q, g)
  PROVE  /\ Freed(d, w) <= Count(q, g)
         /\ Prompt(h, c, w) /\ d.finAcked => c.finAcked \/ q.peerFin
<1>1. CASE d = c
  BY <1>1
<1>2. CASE d # c
  <2>1. PICK m \in 0 .. w + 1 : /\ ack = SeqNo(h, m) /\ Freed(d, w) <= m
                                /\ d.finAcked => c.finAcked \/ m = w + 1 \/ ~Prompt(h, c, w)
    BY <1>2 DEF AckedKept
  <2>2. /\ Count(q, g) \in Nat /\ Arrived(q, g) \in Nat /\ Arrived(q, g) <= w + 1
        /\ q.peerFin => Count(q, g) = w
        /\ ~q.peerFin => Arrived(q, g) = Count(q, g)
        /\ Count(q, g) <= w
    BY ReadingFacts
  <2>3. k = m
    <3>1. k \in Nat /\ m \in Nat /\ k < Modulus /\ m < Modulus
      BY <2>2, Sizes
    <3>2. QED
      BY <2>1, <3>1, Apart
  <2>4. Ring(d, w) /\ Freed(d, w) \in Nat /\ Freed(d, w) <= w
    <3>1. Ring(d, w)
      BY DEF AckedKept
    <3>2. Freed(d, w) \in Nat /\ Freed(d, w) + Len(d.tx) = w /\ Len(d.tx) \in Nat
      BY <3>1, RingFacts
    <3>3. QED
      BY <3>1, <3>2
  <2>5. Freed(d, w) <= Count(q, g)
    <3>1. CASE q.peerFin
      BY <2>2, <2>4, <3>1
    <3>2. CASE ~q.peerFin
      BY <2>1, <2>2, <2>3, <2>4, <3>2
    <3>3. QED
      BY <3>1, <3>2
  <2>6. m = w + 1 => q.peerFin
    <3>1. CASE ~q.peerFin
      BY <2>2, <2>3, <3>1
    <3>2. QED
      BY <3>1
  <2>7. QED
    BY <2>1, <2>5, <2>6
<1>3. QED
  BY <1>1, <1>2

\* What tcp_handle reads of a segment changes only the end that receives.
SameButRead(d, c) ==
    /\ d.una = c.una /\ d.nxt = c.nxt /\ d.wnd = c.wnd /\ d.tx = c.tx
    /\ d.finSent = c.finSent /\ d.finAcked = c.finAcked /\ d.reset = c.reset /\ d.userClosed = c.userClosed

\* In-order data or a FIN set rcv_nxt and the receive ring.
LEMMA ReadSet ==
  ASSUME NEW c, Sized(c), NEW a, a \in Seq32, NEW t, t \in Bytes, Len(t) <= BufSize, NEW d, d = [c EXCEPT !.rx = t, !.rcvNxt = a]
  PROVE  /\ Sized(d) /\ SameButRead(d, c) /\ d.rx = t /\ d.rcvNxt = a /\ d.peerFin = c.peerFin /\ d.state = c.state
BY DEF Sized, Conn, SameButRead

\* The bytes of a sequence with the first ones of another appended.
LEMMA Joined ==
  ASSUME NEW r, r \in Bytes, NEW s, s \in Bytes, NEW n \in Nat, n <= Len(s)
  PROVE  /\ r \o SubSeq(s, 1, n) \in Bytes /\ Len(r \o SubSeq(s, 1, n)) = Len(r) + n
         /\ \A i \in 1 .. Len(r) + n : (r \o SubSeq(s, 1, n))[i] = IF i <= Len(r) THEN r[i] ELSE s[i - Len(r)]
BY DEF Bytes

\* n bytes of s are put into the ring.
Took(c, s, n, d) ==
    /\ Sized(d) /\ SameButRead(d, c) /\ d.peerFin = c.peerFin /\ d.state = c.state
    /\ d.rcvNxt = Plus(c.rcvNxt, n) /\ Len(d.rx) = Len(c.rx) + n
    /\ \A i \in 1 .. Len(c.rx) + n : d.rx[i] = IF i <= Len(c.rx) THEN c.rx[i] ELSE s.data[i - Len(c.rx)]

\* Of a segment in order a connection takes the first bytes, as many as fit.
LEMMA TakeDataIs ==
  ASSUME NEW c, Sized(c), NEW s, s.data \in Bytes, s.seq = c.rcvNxt, NEW d, d = TakeData(c, s)
  PROVE  \E n \in 0 .. Len(s.data) : Took(c, s, n, d)
<1>1. c.rx \in Bytes /\ Len(c.rx) \in Nat /\ Len(c.rx) <= BufSize /\ Len(s.data) \in Nat /\ c.rcvNxt \in Seq32
  BY Fields, Sizes DEF Bytes
<1>19. PICK l \in Nat, r \in Nat : l = Len(s.data) /\ r = Len(c.rx) /\ r <= BufSize
  BY <1>1
<1>21. BufSize - r \in Nat
  BY <1>19, Sizes
<1>20. PICK room \in Nat : room = BufSize - r
  BY <1>21
<1>2. PICK n : n = IF l <= room THEN l ELSE room
  OBVIOUS
<1>3. n \in 0 .. Len(s.data) /\ n <= BufSize - Len(c.rx) /\ n = Min({Len(s.data), BufSize - Len(c.rx)})
  <2>0. l \in Int /\ room \in Int
    OBVIOUS
  <2>1. n = Min({l, room})
    BY <1>2, <2>0, LesserOfTwo
  <2>2. n \in 0 .. l /\ n <= room
    BY <1>2
  <2>3. QED
    BY <1>19, <1>20, <2>1, <2>2
<1>4. PICK t : t = c.rx \o SubSeq(s.data, 1, n)
  OBVIOUS
<1>5. t \in Bytes /\ Len(t) = Len(c.rx) + n
      /\ \A i \in 1 .. Len(c.rx) + n : t[i] = IF i <= Len(c.rx) THEN c.rx[i] ELSE s.data[i - Len(c.rx)]
  <2>1. n \in Nat /\ n <= Len(s.data)
    BY <1>1, <1>3
  <2>2. c.rx \in Bytes /\ s.data \in Bytes
    BY <1>1
  <2>3. /\ c.rx \o SubSeq(s.data, 1, n) \in Bytes /\ Len(c.rx \o SubSeq(s.data, 1, n)) = Len(c.rx) + n
        /\ \A i \in 1 .. Len(c.rx) + n : (c.rx \o SubSeq(s.data, 1, n))[i] = IF i <= Len(c.rx) THEN c.rx[i] ELSE s.data[i - Len(c.rx)]
    BY <2>1, <2>2, Joined, Zenon
  <2>4. QED
    BY <1>4, <2>3, Zenon
<1>6. PICK a : a = Plus(c.rcvNxt, n)
  OBVIOUS
<1>7. a \in Seq32
  <2>1. c.rcvNxt + n \in Int
    BY <1>1, <1>3, Sizes DEF Seq32
  <2>2. QED
    BY <1>6, <2>1, Sizes DEF Plus, Seq32
<1>8. d = [c EXCEPT !.rx = t, !.rcvNxt = a]
  BY <1>3, <1>4, <1>6 DEF TakeData
<1>9. Len(t) <= BufSize
  <2>1. Len(t) = r + n /\ n <= room
    BY <1>3, <1>5, <1>19, <1>20
  <2>2. r + n <= BufSize
    <3>1. n \in Int /\ n <= BufSize - r
      BY <1>3, <1>20, <2>1
    <3>2. QED
      BY <3>1, Sizes
  <2>3. QED
    BY <2>1, <2>2
<1>10. Sized(d) /\ SameButRead(d, c) /\ d.rx = t /\ d.rcvNxt = a /\ d.peerFin = c.peerFin /\ d.state = c.state
  BY <1>5, <1>7, <1>8, <1>9 DEF Sized, Conn, SameButRead
<1>11. QED
  BY <1>3, <1>5, <1>6, <1>10 DEF Took

\* What segment s says of the stream of p, of which w bytes are written.
Data(s, p, w) ==
    s.data # <<>> => /\ "FIN" \notin s.flags
                     /\ \E k \in 0 .. w : /\ s.seq = SeqNo(p, k) /\ k + Len(s.data) <= w
                                          /\ \A i \in 1 .. Len(s.data) : s.data[i] = k + i

\* What a connection takes of a true segment continues the stream it has read.
LEMMA TakeDataKeeps ==
  ASSUME NEW p \in Host, NEW c, Sized(c), NEW g \in Nat, NEW w \in Nat, w + 2 < Modulus, Reading(p, c, g, w), c.state # "SYN_SENT",
         NEW s, s.data \in Bytes, Data(s, p, w), NEW d, d = TakeData(c, s)
  PROVE  /\ Sized(d) /\ SameButRead(d, c) /\ Reading(p, d, g, w) /\ d.peerFin = c.peerFin /\ d.state = c.state
         /\ Count(c, g) <= Count(d, g) /\ Arrived(c, g) <= Arrived(d, g)
<1>0. /\ Len(c.rx) \in Nat /\ Count(c, g) \in Nat /\ Count(c, g) = g + Len(c.rx) /\ Count(c, g) <= w
      /\ Arrived(c, g) \in Nat /\ Arrived(c, g) <= w + 1
      /\ c.peerFin => Count(c, g) = w /\ Arrived(c, g) = w + 1
      /\ ~c.peerFin => Arrived(c, g) = Count(c, g)
      /\ c.rcvNxt = SeqNo(p, Arrived(c, g)) /\ \A i \in 1 .. Len(c.rx) : c.rx[i] = g + i
  BY ReadingFacts DEF Reading
<1>1. CASE d = c
  BY <1>0, <1>1 DEF SameButRead
<1>2. CASE d # c
  <2>1. s.seq = c.rcvNxt
    BY <1>2 DEF TakeData
  <2>20. PICK n \in 0 .. Len(s.data) : Took(c, s, n, d)
    BY <2>1, TakeDataIs
  <2>2. /\ n \in 0 .. Len(s.data)
        /\ Sized(d) /\ SameButRead(d, c) /\ d.peerFin = c.peerFin /\ d.state = c.state
        /\ d.rcvNxt = Plus(c.rcvNxt, n) /\ Len(d.rx) = Len(c.rx) + n
        /\ \A i \in 1 .. Len(c.rx) + n : d.rx[i] = IF i <= Len(c.rx) THEN c.rx[i] ELSE s.data[i - Len(c.rx)]
    BY <2>20 DEF Took
  <2>3. PICK m \in Nat, l \in Nat, a \in Nat : m = Len(s.data) /\ l = Len(c.rx) /\ a = Arrived(c, g)
    BY <1>0 DEF Bytes
  <2>30. n \in Nat /\ n <= m
    BY <2>2, <2>3
  <2>4. d.rcvNxt = SeqNo(p, a + n)
    <3>1. a \in Int /\ n \in Int
      BY <2>30
    <3>2. QED
      BY <1>0, <2>2, <2>3, <3>1, SeqNoFacts
  <2>5. CASE s.data = <<>>
    <3>1. n = 0
      BY <2>2, <2>5
    <3>0. Len(d.rx) = l
      BY <2>2, <2>3, <3>1
    <3>2. Count(d, g) = Count(c, g) /\ Arrived(d, g) = Arrived(c, g)
      BY <2>2, <2>3, <3>0 DEF Count, Arrived
    <3>3. d.rcvNxt = SeqNo(p, Arrived(d, g))
      BY <2>3, <2>4, <3>1, <3>2
    <3>4. ASSUME NEW i \in 1 .. Len(d.rx) PROVE d.rx[i] = g + i
      <4>1. i \in 1 .. Len(c.rx) /\ i <= Len(c.rx) /\ i \in 1 .. Len(c.rx) + n
        BY <2>3, <3>0, <3>1
      <4>2. d.rx[i] = c.rx[i]
        BY <2>2, <4>1
      <4>3. QED
        BY <1>0, <4>1, <4>2
    <3>5. Count(d, g) <= w /\ (d.peerFin => Count(d, g) = w) /\ d.state # "SYN_SENT"
      BY <1>0, <2>2, <3>2
    <3>6. Reading(p, d, g, w)
      BY <3>3, <3>4, <3>5 DEF Reading
    <3>7. Count(c, g) <= Count(d, g) /\ Arrived(c, g) <= Arrived(d, g)
      BY <1>0, <3>2
    <3>8. QED
      BY <2>2, <3>6, <3>7
  <2>6. CASE s.data # <<>>
    <3>1. PICK k \in 0 .. w : /\ s.seq = SeqNo(p, k) /\ k + m <= w
                              /\ \A i \in 1 .. m : s.data[i] = k + i
      BY <2>3, <2>6 DEF Data
    <3>2. k = a /\ k \in Nat
      <4>1. a <= w + 1
        BY <1>0, <2>3
      <4>2. k \in Nat /\ k < Modulus /\ a < Modulus
        BY <4>1, Sizes
      <4>3. SeqNo(p, k) = SeqNo(p, a)
        BY <1>0, <2>1, <2>3, <3>1
      <4>4. QED
        BY <4>2, <4>3, Apart
    <3>3. ~c.peerFin
      <4>1. c.peerFin => a = w + 1
        BY <1>0, <2>3
      <4>2. a # w + 1
        BY <3>2
      <4>3. QED
        BY <4>1, <4>2
    <3>4. Count(c, g) = k /\ g + l = k
      <4>1. Arrived(c, g) = Count(c, g) /\ Count(c, g) = g + Len(c.rx)
        BY <1>0, <3>3
      <4>2. QED
        BY <2>3, <3>2, <4>1
    <3>5. Len(d.rx) = l + n /\ ~d.peerFin
      BY <2>2, <2>3, <3>3
    <3>6. Count(d, g) = k + n /\ Arrived(d, g) = k + n /\ k + n <= w
      <4>1. Count(d, g) = g + (l + n) /\ Arrived(d, g) = g + (l + n)
        BY <3>5 DEF Count, Arrived
      <4>2. g + (l + n) = k + n /\ k + n <= w
        BY <2>30, <3>1, <3>2, <3>4
      <4>3. QED
        BY <4>1, <4>2
    <3>7. ASSUME NEW i \in 1 .. Len(d.rx) PROVE d.rx[i] = g + i
      <4>1. i \in Nat /\ i \in 1 .. l + n /\ i > 0 /\ i <= l + n
        BY <2>30, <3>5
      <4>0. d.rx[i] = IF i <= l THEN c.rx[i] ELSE s.data[i - l]
        BY <2>2, <2>3, <4>1
      <4>2. CASE i <= l
        <5>1. d.rx[i] = c.rx[i] /\ i \in 1 .. Len(c.rx)
          BY <2>3, <4>0, <4>1, <4>2
        <5>2. QED
          BY <1>0, <5>1
      <4>3. CASE i > l
        <5>1. i - l \in 1 .. m /\ ~(i <= l)
          BY <2>30, <4>1, <4>3
        <5>2. d.rx[i] = s.data[i - l]
          BY <4>0, <5>1
        <5>3. s.data[i - l] = k + (i - l)
          BY <3>1, <5>1
        <5>4. k + (i - l) = g + i
          BY <3>4, <4>1
        <5>5. QED
          BY <5>2, <5>3, <5>4
      <4>4. QED
        BY <4>1, <4>2, <4>3
    <3>8. d.rcvNxt = SeqNo(p, Arrived(d, g))
      BY <2>4, <3>2, <3>6
    <3>9. Reading(p, d, g, w)
      <4>1. d.state # "SYN_SENT"
        BY <2>2
      <4>2. QED
        BY <3>5, <3>6, <3>7, <3>8, <4>1 DEF Reading
    <3>10. Count(c, g) <= Count(d, g) /\ Arrived(c, g) <= Arrived(d, g)
      <4>1. k <= k + n
        BY <2>30, <3>2
      <4>2. QED
        BY <2>3, <3>2, <3>4, <3>6, <4>1
    <3>11. QED
      BY <2>2, <3>9, <3>10
  <2>7. QED
    BY <2>5, <2>6
<1>3. QED
  BY <1>1, <1>2

\* A FIN of the stream of p, of which w bytes are written.
Finis(s, p, w) == "FIN" \in s.flags => s.seq \in {SeqNo(p, -1), SeqNo(p, w)}

\* How the FIN of the peer moves a connection.
FinMoves(c, d) ==
    /\ c.state = "ESTABLISHED" => d.state = "CLOSE_WAIT"
    /\ c.state = "FIN_WAIT_2" => d.state = "TIME_WAIT"
    /\ c.state = "FIN_WAIT_1" => d.state \in {"TIME_WAIT", "LAST_ACK"}
    /\ c.state \notin {"ESTABLISHED", "FIN_WAIT_2", "FIN_WAIT_1"} => d.state = c.state

\* A FIN that is taken is in order, and moves the state.
LEMMA FinSet ==
  ASSUME NEW c, Sized(c), NEW s, NEW d, d = TakeFin(c, s), d # c
  PROVE  /\ "FIN" \in s.flags /\ Plus(s.seq, Len(s.data)) = c.rcvNxt
         /\ Sized(d) /\ SameButRead(d, c) /\ d.rx = c.rx /\ d.rcvNxt = Plus(c.rcvNxt, 1) /\ d.peerFin /\ FinMoves(c, d)
<1>1. PICK a : a = Plus(c.rcvNxt, 1)
  OBVIOUS
<1>2. a \in Seq32
  <2>1. c.rcvNxt + 1 \in Int
    BY Fields, Sizes DEF Seq32
  <2>2. QED
    BY <1>1, <2>1, Sizes DEF Plus, Seq32
<1>3. PICK st : st = CASE c.state = "ESTABLISHED" -> "CLOSE_WAIT"
                       [] c.state = "FIN_WAIT_2" -> "TIME_WAIT"
                       [] c.state = "FIN_WAIT_1" /\ c.finAcked -> "TIME_WAIT"
                       [] c.state = "FIN_WAIT_1" /\ ~c.finAcked -> "LAST_ACK"
                       [] OTHER -> c.state
  OBVIOUS
<1>4. "FIN" \in s.flags /\ Plus(s.seq, Len(s.data)) = c.rcvNxt
  BY DEF TakeFin
<1>5. d = [c EXCEPT !.rcvNxt = a, !.peerFin = TRUE, !.state = st]
  BY <1>1, <1>3, <1>4 DEF TakeFin
<1>6. /\ c.state = "ESTABLISHED" => st = "CLOSE_WAIT"
      /\ c.state = "FIN_WAIT_2" => st = "TIME_WAIT"
      /\ c.state = "FIN_WAIT_1" => st \in {"TIME_WAIT", "LAST_ACK"}
      /\ c.state \notin {"ESTABLISHED", "FIN_WAIT_2", "FIN_WAIT_1"} => st = c.state
  <2>1. CASE c.finAcked
    BY <1>3, <2>1
  <2>2. CASE ~c.finAcked
    BY <1>3, <2>2
  <2>3. QED
    BY <2>1, <2>2
<1>7. st \in State
  <2>1. c.state \in State
    BY Fields
  <2>2. QED
    BY <1>6, <2>1 DEF State, Closing
<1>8. Sized(d) /\ SameButRead(d, c) /\ d.rx = c.rx /\ d.rcvNxt = a /\ d.peerFin /\ d.state = st
  BY <1>2, <1>5, <1>7 DEF Sized, Conn, SameButRead
<1>9. QED
  BY <1>1, <1>4, <1>6, <1>8 DEF FinMoves

\* A connection takes a true FIN only at the end of the stream.
LEMMA TakeFinKeeps ==
  ASSUME NEW p \in Host, NEW c, Sized(c), NEW g \in Nat, NEW w \in Nat, w + 2 < Modulus, Reading(p, c, g, w), c.state \notin Handshake,
         NEW s, Data(s, p, w), Finis(s, p, w), s.seq \in Seq32, NEW d, d = TakeFin(c, s)
  PROVE  /\ Sized(d) /\ SameButRead(d, c) /\ Reading(p, d, g, w) /\ Count(d, g) = Count(c, g) /\ Arrived(c, g) <= Arrived(d, g)
         /\ c.peerFin => d.peerFin
         /\ d.peerFin => c.peerFin \/ "FIN" \in s.flags
         /\ d = c \/ (d.peerFin /\ FinMoves(c, d))
<1>0. /\ Len(c.rx) \in Nat /\ Count(c, g) \in Nat /\ Count(c, g) <= w
      /\ Arrived(c, g) \in Nat /\ Arrived(c, g) <= w + 1
      /\ c.peerFin => Count(c, g) = w /\ Arrived(c, g) = w + 1
      /\ ~c.peerFin => Arrived(c, g) = Count(c, g)
      /\ c.rcvNxt = SeqNo(p, Arrived(c, g))
  BY ReadingFacts DEF Reading, Handshake
<1>1. CASE d = c
  BY <1>0, <1>1 DEF SameButRead
<1>2. CASE d # c
  <2>1. /\ "FIN" \in s.flags /\ Plus(s.seq, Len(s.data)) = c.rcvNxt
        /\ Sized(d) /\ SameButRead(d, c) /\ d.rx = c.rx /\ d.rcvNxt = Plus(c.rcvNxt, 1) /\ d.peerFin /\ FinMoves(c, d)
    BY <1>2, FinSet
  <2>2. s.data = <<>> /\ Len(s.data) = 0
    BY <2>1 DEF Data
  <2>3. PICK a \in Nat : a = Arrived(c, g)
    BY <1>0
  <2>4. a <= w + 1 /\ a < Modulus /\ a + 1 < Modulus + 1
    BY <1>0, <2>3, Sizes
  <2>5. s.seq = SeqNo(p, a)
    <3>1. PICK q \in Seq32 : q = s.seq
      OBVIOUS
    <3>2. q \in Int /\ q \in 0 .. Modulus - 1 /\ q + 0 = q
      BY <3>1, Sizes DEF Seq32
    <3>3. Plus(q, 0) = q
      BY <3>2, SmallRemainder DEF Plus
    <3>4. QED
      BY <1>0, <2>1, <2>2, <2>3, <3>1, <3>3
  <2>6. a = w
    <3>1. SeqNo(p, a) # SeqNo(p, -1)
      <4>1. a + 1 < Modulus
        BY <2>4, Sizes
      <4>2. QED
        BY <4>1, NotTheSyn
    <3>2. SeqNo(p, a) = SeqNo(p, w)
      BY <2>1, <2>5, <3>1 DEF Finis
    <3>3. w < Modulus
      BY Sizes
    <3>4. QED
      BY <2>4, <3>2, <3>3, Apart
  <2>7. ~c.peerFin /\ Count(c, g) = w
    <3>1. c.peerFin => a = w + 1
      BY <1>0, <2>3
    <3>2. ~c.peerFin
      BY <2>6, <3>1
    <3>3. QED
      BY <1>0, <2>3, <2>6, <3>2
  <2>8. Count(d, g) = Count(c, g) /\ Arrived(d, g) = w + 1
    <3>1. Count(d, g) = Count(c, g)
      BY <2>1 DEF Count
    <3>2. QED
      BY <2>1, <2>7, <3>1 DEF Arrived
  <2>9. d.rcvNxt = SeqNo(p, w + 1)
    <3>1. w \in Int
      OBVIOUS
    <3>2. QED
      BY <1>0, <2>1, <2>3, <2>6, <3>1, SeqNoFacts
  <2>10. d.state # "SYN_SENT"
    BY <2>1 DEF FinMoves, Handshake
  <2>11. Reading(p, d, g, w)
    <3>1. \A i \in 1 .. Len(d.rx) : d.rx[i] = g + i
      BY <2>1 DEF Reading
    <3>2. QED
      BY <2>7, <2>8, <2>9, <2>10, <3>1 DEF Reading
  <2>12. Arrived(c, g) <= Arrived(d, g)
    BY <2>3, <2>4, <2>8
  <2>13. QED
    BY <2>1, <2>8, <2>11, <2>12
<1>3. QED
  BY <1>1, <1>2

\* d is c but for its state.
SameButState(d, c) ==
    /\ d.una = c.una /\ d.nxt = c.nxt /\ d.wnd = c.wnd /\ d.rcvNxt = c.rcvNxt /\ d.tx = c.tx /\ d.rx = c.rx
    /\ d.finSent = c.finSent /\ d.finAcked = c.finAcked /\ d.peerFin = c.peerFin /\ d.reset = c.reset /\ d.userClosed = c.userClosed

\* An acknowledged FIN moves the state, and nothing else.
LEMMA SettleIs ==
  ASSUME NEW c, Sized(c), NEW d, d = Settle(c)
  PROVE  /\ Sized(d) /\ SameButState(d, c)
         /\ \/ d.state = c.state
            \/ c.state = "FIN_WAIT_1" /\ d.state = "FIN_WAIT_2"
            \/ c.state \in {"LAST_ACK", "TIME_WAIT"} /\ d.state = "CLOSED"
<1>1. PICK st : st = CASE c.state = "FIN_WAIT_1" /\ c.finAcked -> "FIN_WAIT_2"
                       [] c.state = "LAST_ACK" /\ c.finAcked -> "CLOSED"
                       [] c.state = "TIME_WAIT" -> "CLOSED"
                       [] OTHER -> c.state
  OBVIOUS
<1>2. d = [c EXCEPT !.state = st]
  BY <1>1 DEF Settle
<1>3. \/ st = c.state
      \/ c.state = "FIN_WAIT_1" /\ st = "FIN_WAIT_2"
      \/ c.state \in {"LAST_ACK", "TIME_WAIT"} /\ st = "CLOSED"
  <2>1. CASE c.finAcked
    BY <1>1, <2>1
  <2>2. CASE ~c.finAcked
    BY <1>1, <2>2
  <2>3. QED
    BY <2>1, <2>2
<1>4. st \in State
  <2>1. c.state \in State
    BY Fields
  <2>2. QED
    BY <1>3, <2>1 DEF State
<1>5. Sized(d) /\ SameButState(d, c) /\ d.state = st
  BY <1>2, <1>4 DEF Sized, Conn, SameButState
<1>6. QED
  BY <1>3, <1>5

\* Only a connection whose program has shut its socket down is in these states.
Winding(c) == c.userClosed \/ c.finSent \/ c.state \in Closing \union {"FIN_WAIT_2", "TIME_WAIT"}

\* These states follow a FIN of the peer.
Sane(c) == c.state \in {"TIME_WAIT", "LAST_ACK", "CLOSE_WAIT"} => c.peerFin

\* What the state of a connection says after a step that does not reset it.
StateKept(c, d) ==
    /\ d.state \notin Handshake /\ Sane(d)
    /\ Winding(d) => Winding(c)
    /\ d.reset => c.reset
    /\ c.state = "CLOSED" => d.state = "CLOSED"
    /\ d.state = "CLOSED" => c.state = "CLOSED" \/ (Winding(c) /\ d.peerFin)
    /\ c.peerFin => d.peerFin

\* tcp_handle, once apply_ack has made a of c: TakeFin makes e, and Settle f.
LEMMA StateSteps ==
  ASSUME NEW c, c.state \notin Handshake, Sane(c), NEW a, Sized(a), a.state = c.state, a.peerFin = c.peerFin, a.finSent = c.finSent,
         a.reset = c.reset, a.userClosed = c.userClosed,
         NEW e, SameButRead(e, a), a.peerFin => e.peerFin, e = a \/ (e.peerFin /\ FinMoves(a, e)),
         NEW f, Sized(e), f = Settle(e)
  PROVE  StateKept(c, f)
<1>1. /\ Sized(f) /\ SameButState(f, e)
      /\ \/ f.state = e.state
         \/ e.state = "FIN_WAIT_1" /\ f.state = "FIN_WAIT_2"
         \/ e.state \in {"LAST_ACK", "TIME_WAIT"} /\ f.state = "CLOSED"
  BY SettleIs
<1>2. e.reset = a.reset /\ e.userClosed = a.userClosed /\ e.finSent = a.finSent
  BY DEF SameButRead
<1>3. f.reset = e.reset /\ f.userClosed = e.userClosed /\ f.finSent = e.finSent /\ f.peerFin = e.peerFin
  BY <1>1 DEF SameButState
<1>4. c.peerFin => f.peerFin
  BY <1>3
<1>5. e.state = a.state \/ (e.peerFin /\ FinMoves(a, e))
  OBVIOUS
<1>6. a.state \in State /\ e.state \in State
  BY Fields
<1>7. Sane(e) /\ e.state \notin Handshake
  <2>1. CASE e.state = a.state
    BY <2>1 DEF Sane
  <2>2. CASE e.peerFin /\ FinMoves(a, e)
    BY <2>2 DEF Sane, FinMoves, Handshake
  <2>3. QED
    BY <1>5, <2>1, <2>2
<1>8. f.state \notin Handshake
  BY <1>1, <1>7 DEF Handshake
<1>9. Sane(f)
  <2>1. CASE f.state = e.state
    BY <1>3, <1>7, <2>1 DEF Sane
  <2>2. CASE f.state # e.state
    BY <1>1, <2>2 DEF Sane
  <2>3. QED
    BY <2>1, <2>2
<1>10. e.state \in Closing \union {"FIN_WAIT_2", "TIME_WAIT"} => a.state \in Closing \union {"FIN_WAIT_2", "TIME_WAIT"}
  <2>1. CASE e.state = a.state
    BY <2>1
  <2>2. CASE FinMoves(a, e)
    BY <2>2 DEF FinMoves, Closing
  <2>3. QED
    BY <1>5, <2>1, <2>2
<1>11. f.state \in Closing \union {"FIN_WAIT_2", "TIME_WAIT"} => e.state \in Closing \union {"FIN_WAIT_2", "TIME_WAIT"}
  BY <1>1 DEF Closing
<1>12. Winding(f) => Winding(c)
  BY <1>2, <1>3, <1>10, <1>11 DEF Winding
<1>13. c.state = "CLOSED" => f.state = "CLOSED"
  <2>1. SUFFICES ASSUME c.state = "CLOSED" PROVE f.state = "CLOSED"
    OBVIOUS
  <2>2. e.state = "CLOSED"
    BY <1>5, <2>1 DEF FinMoves
  <2>3. QED
    BY <1>1, <2>2
<1>14. f.state = "CLOSED" => c.state = "CLOSED" \/ (Winding(c) /\ f.peerFin)
  <2>1. CASE f.state = e.state
    BY <1>5, <2>1 DEF FinMoves
  <2>2. CASE e.state \in {"LAST_ACK", "TIME_WAIT"}
    <3>1. e.peerFin
      BY <1>7, <2>2 DEF Sane
    <3>2. a.state \in Closing \union {"FIN_WAIT_2", "TIME_WAIT"}
      BY <1>10, <2>2 DEF Closing
    <3>3. QED
      BY <1>3, <3>1, <3>2 DEF Winding
  <2>3. CASE e.state = "FIN_WAIT_1" /\ f.state = "FIN_WAIT_2"
    BY <2>3
  <2>4. QED
    BY <1>1, <2>1, <2>2, <2>3
<1>15. f.reset => c.reset
  BY <1>2, <1>3
<1>16. QED
  BY <1>4, <1>8, <1>9, <1>12, <1>13, <1>14, <1>15 DEF StateKept

\* The modes look at the end that sends, ...
SendsAlike(d, c) ==
    d.una = c.una /\ d.nxt = c.nxt /\ d.tx = c.tx /\ d.finSent = c.finSent /\ d.finAcked = c.finAcked

\* Two connections that send alike have the same numbers.
LEMMA ModesAlike ==
  ASSUME NEW h, NEW c, NEW d, SendsAlike(d, c), NEW w
  PROVE  /\ Freed(d, w) = Freed(c, w) /\ (Ring(c, w) => Ring(d, w)) /\ (Numbered(h, c, w) => Numbered(h, d, w))
         /\ Prompt(h, c, w) <=> Prompt(h, d, w)
         /\ Greeting(h, c, w) => Greeting(h, d, w)
<1>1. Freed(d, w) = Freed(c, w)
  BY DEF SendsAlike, Freed
<1>2. Ring(c, w) => Ring(d, w)
  BY <1>1 DEF SendsAlike, Ring
<1>3. /\ Flowing(h, c, w) <=> Flowing(h, d, w)
      /\ Ending(h, c, w) <=> Ending(h, d, w)
      /\ Ended(h, c, w) <=> Ended(h, d, w)
  BY <1>1 DEF SendsAlike, Flowing, Ending, Ended
<1>4. /\ Rewound(h, c, w) <=> Rewound(h, d, w)
      /\ FinLost(h, c, w) <=> FinLost(h, d, w)
      /\ Greeting(h, c, w) <=> Greeting(h, d, w)
  BY <1>1 DEF SendsAlike, Rewound, FinLost, Greeting
<1>5. QED
  BY <1>1, <1>2, <1>3, <1>4 DEF Prompt, Numbered

\* ... and the reader of the peer's stream looks at the other.
ReadsAlike(d, c) == d.rcvNxt = c.rcvNxt /\ d.rx = c.rx /\ d.peerFin = c.peerFin

\* Two connections that read alike have read the same.
LEMMA ReadersAlike ==
  ASSUME NEW c, NEW d, ReadsAlike(d, c), NEW g
  PROVE  /\ Count(d, g) = Count(c, g) /\ Arrived(d, g) = Arrived(c, g)
         /\ \A p, w : Reading(p, c, g, w) /\ c.state # "SYN_SENT" /\ d.state # "SYN_SENT" => Reading(p, d, g, w)
<1>1. Count(d, g) = Count(c, g) /\ Arrived(d, g) = Arrived(c, g)
  BY DEF ReadsAlike, Count, Arrived
<1>2. QED
  BY <1>1 DEF ReadsAlike, Reading

\* Host h takes a step: what it does to what the other one sees.
Moves(h) ==
    LET p == Peer(h) IN
    /\ conn'[p] = conn[p] /\ fd'[p] = fd[p] /\ wrote'[p] = wrote[p] /\ got'[p] = got[p] /\ eof'[p] = eof[p] /\ early'[p] = early[p] /\ failed'[p] = failed[p]
    /\ Shut(h) => Shut(h)' /\ wrote'[h] = wrote[h]
    /\ wrote'[h] \in Nat /\ wrote[h] <= wrote'[h]
    /\ refused => refused'
    /\ Live(h)' => /\ Live(h)
                   /\ Opened(h) => Opened(h)'
                   /\ Knows(h) => Knows(h)'
                   /\ Count(conn'[h], Len(got'[h])) \in Nat /\ Count(conn[h], Len(got[h])) <= Count(conn'[h], Len(got'[h]))
                   /\ Arrived(conn'[h], Len(got'[h])) \in Nat /\ Arrived(conn[h], Len(got[h])) <= Arrived(conn'[h], Len(got'[h]))
                   /\ conn[h].peerFin => conn'[h].peerFin
                   /\ Quiet(p) /\ Knows(h)' => Arrived(conn'[h], Len(got'[h])) = 0
    /\ \A s \in net' : s \in net \/ (s.to = p /\ Carries(s, h)' /\ (Quiet(p) /\ "ACK" \in s.flags => s.ack = SeqNo(p, 0)))

\* The types, for one host.
LEMMA LiveFacts ==
  ASSUME Types, NEW h \in Host
  PROVE  /\ Live(h) => Sized(conn[h])
         /\ wrote[h] \in Nat /\ wrote[h] + 2 < Modulus /\ got[h] \in Bytes /\ Len(got[h]) \in Nat
         /\ fd[h] \in {"none", "connecting", "open", "shut", "closed"}
         /\ Peer(h) \in Host /\ Peer(h) # h /\ Peer(Peer(h)) = h
BY Hosts DEF Types, Live, Bytes

\* What has been read stays true when the peer writes more, as long as it has not ended.
LEMMA ReadingGrows ==
  ASSUME NEW p, NEW c, NEW g \in Nat, Sized(c), NEW w \in Nat, NEW v \in Nat, Reading(p, c, g, w), w <= v, c.peerFin => v = w
  PROVE  Reading(p, c, g, v)
<1>1. Count(c, g) \in Nat
  BY Fields, Sizes DEF Count
<1>2. Count(c, g) <= v
  BY <1>1 DEF Reading
<1>3. c.peerFin => Count(c, g) = v
  BY DEF Reading
<1>4. QED
  BY <1>2, <1>3 DEF Reading

\* A step of one host leaves what is said of the other true.
LEMMA PeerKeeps ==
  ASSUME Types, NEW h \in Host, Sides(Peer(h)), Sending(h), Receiving(h), Moves(h)
  PROVE  Sides(Peer(h))'
<1> DEFINE p == Peer(h)
<1>0. p \in Host /\ Peer(p) = h /\ p # h
  BY Hosts
<1>1. /\ conn'[p] = conn[p] /\ fd'[p] = fd[p] /\ wrote'[p] = wrote[p] /\ got'[p] = got[p] /\ eof'[p] = eof[p] /\ early'[p] = early[p] /\ failed'[p] = failed[p]
      /\ Shut(h) => Shut(h)' /\ wrote'[h] = wrote[h]
      /\ wrote'[h] \in Nat /\ wrote[h] <= wrote'[h]
      /\ refused => refused'
  BY DEF Moves
<1>2. /\ Live(h)' => Live(h)
      /\ Live(h)' => Count(conn'[h], Len(got'[h])) \in Nat
      /\ Live(h)' => Count(conn[h], Len(got[h])) <= Count(conn'[h], Len(got'[h]))
      /\ Live(h)' => (conn[h].peerFin => conn'[h].peerFin)
  BY DEF Moves
<1>21. Live(h)' /\ Quiet(p) /\ Knows(h)' => Arrived(conn'[h], Len(got'[h])) = 0
  BY DEF Moves
<1>3. \A s \in net' : s \in net \/ (s.to = p /\ (Quiet(p) /\ "ACK" \in s.flags => s.ack = SeqNo(p, 0)))
  BY DEF Moves
<1>4. Sending(p) /\ Receiving(p) /\ Silent(p) /\ Agree(p) /\ Ends(p) /\ (Live(p) => Stated(p))
  BY DEF Sides
<1>5. (Live(p)' <=> Live(p)) /\ (Opened(p)' <=> Opened(p)) /\ (Knows(p)' <=> Knows(p)) /\ (Shut(p)' <=> Shut(p))
  BY <1>1 DEF Live, Opened, Knows, Shut
<1>6. wrote[h] \in Nat /\ wrote[p] \in Nat /\ Len(got[p]) \in Nat /\ Len(got[h]) \in Nat
  BY <1>0, LiveFacts
<1> HIDE DEF p
<1>7. Sending(p)'
  BY <1>1, <1>4, <1>5 DEF Sending
<1>8. Receiving(p)'
  <2>1. Len(got[p]) <= wrote[h] /\ \A i \in 1 .. Len(got[p]) : got[p][i] = i
    BY <1>0, <1>4 DEF Receiving
  <2>2. Len(got[p]) <= wrote'[h]
    BY <1>1, <1>6, <2>1
  <2>3. ASSUME Live(p) PROVE Reading(h, conn[p], Len(got[p]), wrote'[h]) /\ (conn[p].peerFin => Shut(h)')
    <3>1. Reading(h, conn[p], Len(got[p]), wrote[h]) /\ (conn[p].peerFin => Shut(h))
      BY <1>0, <1>4, <2>3 DEF Receiving
    <3>2. Sized(conn[p])
      BY <1>0, <2>3, LiveFacts
    <3>3. conn[p].peerFin => wrote'[h] = wrote[h]
      BY <1>1, <3>1
    <3>4. Reading(h, conn[p], Len(got[p]), wrote'[h])
      BY <1>1, <1>6, <3>1, <3>2, <3>3, ReadingGrows
    <3>5. QED
      BY <1>1, <3>1, <3>4
  <2>4. QED
    BY <1>0, <1>1, <1>5, <2>1, <2>2, <2>3 DEF Receiving
<1>9. Silent(p)'
  <2>1. SUFFICES ASSUME Live(p)', ~Opened(p)' \/ conn'[p].nxt = SeqNo(p, -1) PROVE Quiet(p)'
    BY DEF Silent
  <2>2. Quiet(p)
    BY <1>1, <1>4, <1>5, <2>1 DEF Silent
  <2>3. ASSUME NEW s \in net' PROVE (s.to = h => s.data = <<>> /\ "FIN" \notin s.flags) /\ (s.to = p /\ "ACK" \in s.flags => s.ack = SeqNo(p, 0))
    <3>1. CASE s \in net
      BY <1>0, <2>2, <3>1 DEF Quiet
    <3>2. CASE s \notin net
      BY <1>0, <1>3, <2>2, <3>2
    <3>3. QED
      BY <3>1, <3>2
  <2>4. Knows(h)' => Arrived(conn'[h], Len(got'[h])) = 0
    <3>1. Knows(h)' => Live(h)'
      BY DEF Knows
    <3>2. QED
      BY <1>21, <2>2, <3>1
  <2>5. QED
    BY <1>0, <2>3, <2>4 DEF Quiet
<1>10. Agree(p)'
  <2>1. SUFFICES ASSUME Live(p)', Live(h)'
                 PROVE  /\ Freed(conn[p], wrote[p]) <= Count(conn'[h], Len(got'[h]))
                        /\ conn[p].finAcked /\ ~early[p] => conn'[h].peerFin
    BY <1>0, <1>1 DEF Agree
  <2>2. Live(p)
    BY <1>5, <2>1
  <2>3. Live(h)
    BY <1>2, <2>1
  <2>4. Freed(conn[p], wrote[p]) <= Count(conn[h], Len(got[h])) /\ (conn[p].finAcked /\ ~early[p] => conn[h].peerFin)
    BY <1>0, <1>4, <2>2, <2>3 DEF Agree
  <2>5. Freed(conn[p], wrote[p]) \in Nat
    <3>1. Sized(conn[p]) /\ Ring(conn[p], wrote[p])
      BY <1>0, <1>4, <2>2, LiveFacts DEF Sending
    <3>2. QED
      BY <1>6, <3>1, RingFacts
  <2>6. Count(conn[h], Len(got[h])) \in Nat
    <3>1. Sized(conn[h])
      BY <2>3, LiveFacts
    <3>2. Len(conn[h].rx) \in Nat
      BY <3>1, Fields, Sizes
    <3>3. Count(conn[h], Len(got[h])) = Len(got[h]) + Len(conn[h].rx)
      BY DEF Count
    <3>4. PICK x \in Nat, y \in Nat : x = Len(got[h]) /\ y = Len(conn[h].rx)
      BY <1>6, <3>2
    <3>5. x + y \in Nat
      OBVIOUS
    <3>6. QED
      BY <3>3, <3>4, <3>5
  <2>7. Count(conn'[h], Len(got'[h])) \in Nat /\ Count(conn[h], Len(got[h])) <= Count(conn'[h], Len(got'[h]))
    BY <1>2, <2>1
  <2>8. Freed(conn[p], wrote[p]) <= Count(conn'[h], Len(got'[h]))
    BY <2>4, <2>5, <2>6, <2>7
  <2>9. conn[p].finAcked /\ ~early[p] => conn'[h].peerFin
    BY <1>2, <2>1, <2>4
  <2>10. QED
    BY <2>8, <2>9
<1>11. Ends(p)'
  <2>1. ~Live(p) /\ fd[p] \in {"open", "shut"} => refused \/ (Shut(h) /\ Len(got[p]) = wrote[h])
    BY <1>0, <1>4 DEF Ends
  <2>2. eof[p] => fd[p] \in {"open", "shut", "closed"} /\ (Live(p) => conn[p].peerFin /\ conn[p].rx = <<>>)
    BY <1>4 DEF Ends
  <2>3. QED
    BY <1>0, <1>1, <1>5, <2>1, <2>2 DEF Ends
<1>12. Live(p)' => Stated(p)'
  BY <1>1, <1>4, <1>5 DEF Stated
<1>13. QED
  BY <1>7, <1>8, <1>9, <1>10, <1>11, <1>12 DEF Sides, p

\* A segment stays true while the streams go on.
LEMMA CarriesStay ==
  ASSUME NEW h \in Host, NEW s, Carries(s, h), wrote[h] \in Nat, wrote'[h] \in Nat, wrote[h] <= wrote'[h],
         Shut(h) => Shut(h)' /\ wrote'[h] = wrote[h], refused => refused', Live("client")' /\ Opened("client") => Opened("client")',
         Live("client")' => Live("client"),
         Live(h)' => /\ Live(h) /\ (Knows(h) => Knows(h)')
                     /\ Arrived(conn[h], Len(got[h])) \in Nat /\ Arrived(conn'[h], Len(got'[h])) \in Nat
                     /\ Arrived(conn[h], Len(got[h])) <= Arrived(conn'[h], Len(got'[h]))
  PROVE  Carries(s, h)'
<1>1. s.data # <<>> => /\ "FIN" \notin s.flags
                       /\ \E k \in 0 .. wrote'[h] : /\ s.seq = SeqNo(h, k) /\ k + Len(s.data) <= wrote'[h]
                                                     /\ \A i \in 1 .. Len(s.data) : s.data[i] = k + i
  <2>1. SUFFICES ASSUME s.data # <<>>
                 PROVE  /\ "FIN" \notin s.flags
                        /\ \E k \in 0 .. wrote'[h] : /\ s.seq = SeqNo(h, k) /\ k + Len(s.data) <= wrote'[h]
                                                      /\ \A i \in 1 .. Len(s.data) : s.data[i] = k + i
    OBVIOUS
  <2>2. "FIN" \notin s.flags
    BY <2>1 DEF Carries
  <2>3. PICK k \in 0 .. wrote[h] : /\ s.seq = SeqNo(h, k) /\ k + Len(s.data) <= wrote[h]
                                   /\ \A i \in 1 .. Len(s.data) : s.data[i] = k + i
    BY <2>1 DEF Carries
  <2>4. k \in 0 .. wrote'[h]
    OBVIOUS
  <2>5. k + Len(s.data) <= wrote'[h]
    <3>1. CASE wrote'[h] = wrote[h]
      BY <2>3, <3>1
    <3>2. CASE wrote'[h] # wrote[h]
      <4>1. PICK x : x = k + Len(s.data)
        OBVIOUS
      <4>2. x <= wrote[h]
        BY <2>3, <4>1
      <4>3. QED
        BY <4>1, <4>2
    <3>3. QED
      BY <3>1, <3>2
  <2>6. QED
    BY <2>2, <2>3, <2>4, <2>5
<1>2. "FIN" \in s.flags => Shut(h)' /\ s.seq \in {SeqNo(h, -1), SeqNo(h, wrote'[h])}
  BY DEF Carries
<1>3. "SYN" \in s.flags => s.seq = SeqNo(h, -1) /\ s.data = <<>> /\ "FIN" \notin s.flags
  BY DEF Carries
<1>4. "RST" \in s.flags => s.to = "client" /\ refused' /\ (Live("client")' => Opened("client")')
  BY DEF Carries
<1>5. "ACK" \in s.flags /\ Live(h)' => Knows(h)' /\ \E k \in 0 .. Arrived(conn'[h], Len(got'[h])) : s.ack = SeqNo(Peer(h), k)
  <2>1. SUFFICES ASSUME "ACK" \in s.flags, Live(h)'
                 PROVE  Knows(h)' /\ \E k \in 0 .. Arrived(conn'[h], Len(got'[h])) : s.ack = SeqNo(Peer(h), k)
    OBVIOUS
  <2>2. Live(h) /\ (Knows(h) => Knows(h)')
    BY <2>1
  <2>3. Knows(h) /\ \E k \in 0 .. Arrived(conn[h], Len(got[h])) : s.ack = SeqNo(Peer(h), k)
    BY <2>1, <2>2 DEF Carries
  <2>4. PICK a \in Nat, b \in Nat : a = Arrived(conn[h], Len(got[h])) /\ b = Arrived(conn'[h], Len(got'[h])) /\ a <= b
    BY <2>1
  <2>5. PICK k \in 0 .. a : s.ack = SeqNo(Peer(h), k)
    BY <2>3, <2>4
  <2>6. k \in 0 .. b
    BY <2>4
  <2>7. QED
    BY <2>2, <2>3, <2>4, <2>5, <2>6
<1>6. QED
  BY <1>1, <1>2, <1>3, <1>4, <1>5 DEF Carries

\* A live connection has read a part of what its peer wrote.
LEMMA ReaderFacts ==
  ASSUME Types, NEW h \in Host, Live(h), Receiving(h)
  PROVE  /\ Reading(Peer(h), conn[h], Len(got[h]), wrote[Peer(h)])
         /\ Count(conn[h], Len(got[h])) \in Nat /\ Count(conn[h], Len(got[h])) <= wrote[Peer(h)]
         /\ Arrived(conn[h], Len(got[h])) \in Nat /\ Arrived(conn[h], Len(got[h])) <= wrote[Peer(h)] + 1
         /\ conn[h].peerFin => Count(conn[h], Len(got[h])) = wrote[Peer(h)] /\ Shut(Peer(h))
<1>1. Sized(conn[h]) /\ Len(got[h]) \in Nat /\ wrote[Peer(h)] \in Nat /\ Peer(h) \in Host
  BY LiveFacts, Hosts
<1>2. Reading(Peer(h), conn[h], Len(got[h]), wrote[Peer(h)]) /\ (conn[h].peerFin => Shut(Peer(h)))
  BY DEF Receiving
<1>3. QED
  BY <1>1, <1>2, ReadingFacts

\* The segments that were on the way, or are sent by a step, carry the truth after it.
LEMMA NetKeeps ==
  ASSUME TcpInv, NEW h \in Host, Moves(h)
  PROVE  \A s \in net' : Carries(s, Peer(s.to))'
<1> DEFINE p == Peer(h)
<1>0. p \in Host /\ Peer(p) = h /\ p # h /\ Host = {"client", "server"}
  BY Hosts
<1>1. Types /\ Sides(h) /\ Sides(p) /\ \A s \in net : s.to \in Host /\ Carries(s, Peer(s.to))
  <2>1. \A s \in Segments : s.to \in Host
    BY DEF Segments
  <2>2. QED
    BY <1>0, <2>1 DEF TcpInv, Types
<1>2. Receiving(h) /\ Receiving(p)
  BY <1>1 DEF Sides
<1>3. wrote[h] \in Nat /\ wrote[p] \in Nat
  BY <1>0, <1>1, LiveFacts
<1>4. /\ conn'[p] = conn[p] /\ fd'[p] = fd[p] /\ wrote'[p] = wrote[p] /\ got'[p] = got[p]
      /\ Shut(h) => Shut(h)' /\ wrote'[h] = wrote[h]
      /\ wrote'[h] \in Nat /\ wrote[h] <= wrote'[h]
      /\ refused => refused'
  BY DEF Moves
<1>5. (Live(p)' <=> Live(p)) /\ (Opened(p)' <=> Opened(p)) /\ (Knows(p)' <=> Knows(p)) /\ (Shut(p)' <=> Shut(p))
  BY <1>4 DEF Live, Opened, Knows, Shut
<1>6. Live(h)' => /\ Live(h) /\ (Opened(h) => Opened(h)') /\ (Knows(h) => Knows(h)')
                  /\ Arrived(conn'[h], Len(got'[h])) \in Nat
                  /\ Arrived(conn[h], Len(got[h])) <= Arrived(conn'[h], Len(got'[h]))
  BY DEF Moves
<1>7. /\ Live(h) => Arrived(conn[h], Len(got[h])) \in Nat
      /\ Live(p) => Arrived(conn[p], Len(got[p])) \in Nat
  BY <1>0, <1>1, <1>2, ReaderFacts
<1>8. \A s \in net' : s \in net \/ (s.to = p /\ Carries(s, h)')
  BY DEF Moves
<1>9. (Live("client")' /\ Opened("client") => Opened("client")') /\ (Live("client")' => Live("client"))
  <2>1. CASE h = "client"
    BY <1>6, <2>1
  <2>2. CASE p = "client"
    BY <1>5, <2>2
  <2>3. QED
    BY <1>0, <2>1, <2>2
<1> HIDE DEF p
<1>10. ASSUME NEW s, Carries(s, h) PROVE Carries(s, h)'
  <2>1. Live(h)' => /\ Live(h) /\ (Knows(h) => Knows(h)')
                    /\ Arrived(conn[h], Len(got[h])) \in Nat /\ Arrived(conn'[h], Len(got'[h])) \in Nat
                    /\ Arrived(conn[h], Len(got[h])) <= Arrived(conn'[h], Len(got'[h]))
    BY <1>6, <1>7
  <2>2. QED
    BY <1>3, <1>4, <1>9, <1>10, <2>1, CarriesStay
<1>11. ASSUME NEW s, Carries(s, p) PROVE Carries(s, p)'
  <2>1. Arrived(conn'[p], Len(got'[p])) = Arrived(conn[p], Len(got[p]))
    BY <1>4
  <2>2. Live(p)' => /\ Live(p) /\ (Knows(p) => Knows(p)')
                    /\ Arrived(conn[p], Len(got[p])) \in Nat /\ Arrived(conn'[p], Len(got'[p])) \in Nat
                    /\ Arrived(conn[p], Len(got[p])) <= Arrived(conn'[p], Len(got'[p]))
    BY <1>5, <1>7, <2>1
  <2>3. wrote'[p] \in Nat /\ wrote[p] <= wrote'[p] /\ (Shut(p) => Shut(p)' /\ wrote'[p] = wrote[p])
    BY <1>3, <1>4, <1>5
  <2>4. QED
    BY <1>0, <1>3, <1>4, <1>9, <1>11, <2>2, <2>3, CarriesStay
<1>12. ASSUME NEW s \in net' PROVE Carries(s, Peer(s.to))'
  <2>1. CASE s \in net /\ s.to = p
    <3>1. Peer(s.to) = h
      BY <1>0, <2>1
    <3>2. Carries(s, h)
      BY <1>1, <2>1, <3>1
    <3>3. Carries(s, h)'
      BY <1>10, <3>2
    <3>4. QED
      BY <3>1, <3>3
  <2>2. CASE s \in net /\ s.to = h
    <3>1. Peer(s.to) = p
      BY <2>2 DEF p
    <3>2. Carries(s, p)
      BY <1>1, <2>2, <3>1
    <3>3. Carries(s, p)'
      BY <1>11, <3>2
    <3>4. QED
      BY <3>1, <3>3
  <2>3. CASE s \notin net
    <3>1. Peer(s.to) = h /\ Carries(s, h)'
      BY <1>0, <1>8, <2>3
    <3>2. QED
      BY <3>1
  <2>4. s \in net => s.to = p \/ s.to = h
    BY <1>1, Hosts DEF p
  <2>5. QED
    BY <2>1, <2>2, <2>3, <2>4
<1>13. QED
  BY <1>12

\* A step of a host that keeps its own side, the sockets and the types keeps the invariant.
LEMMA Assemble ==
  ASSUME TcpInv, NEW h \in Host, Moves(h), Types', Sockets', Sides(h)'
  PROVE  TcpInv'
<1>1. Types /\ Sides(h) /\ Sides(Peer(h))
  BY Hosts DEF TcpInv
<1>2. Sides(Peer(h))'
  BY <1>1, PeerKeeps DEF Sides
<1>3. \A x \in Host : Sides(x)'
  <2>1. \A x \in Host : x = h \/ x = Peer(h)
    BY Hosts
  <2>2. QED
    BY <1>2, <2>1
<1>4. \A s \in net' : Carries(s, Peer(s.to))'
  BY NetKeeps
<1>5. QED
  BY <1>3, <1>4 DEF TcpInv

\* What is left to say of h when it keeps its connection.
Turns(h) ==
    LET p == Peer(h) IN
    /\ Live(h) /\ Live(h)' /\ Sending(h)' /\ Stated(h)'
    /\ Reading(p, conn'[h], Len(got'[h]), wrote[p])
    /\ conn'[h].peerFin => conn[h].peerFin \/ Shut(p)
    /\ Len(got'[h]) <= wrote[p] /\ \A i \in 1 .. Len(got'[h]) : got'[h][i] = i
    /\ got'[h] \in Bytes /\ Sized(conn'[h]) /\ Len(got[h]) <= Len(got'[h])
    /\ ~Opened(h)' \/ conn'[h].nxt = SeqNo(h, -1) =>
          /\ ~Opened(h) \/ conn[h].nxt = SeqNo(h, -1)
          /\ \A s \in net' : s \in net \/ (s.to = p /\ s.data = <<>> /\ "FIN" \notin s.flags)
    /\ Live(p) => /\ Freed(conn'[h], wrote'[h]) <= Count(conn[p], Len(got[p]))
                  /\ conn'[h].finAcked /\ ~early'[h] => conn[p].peerFin
    /\ eof'[h] = eof[h] /\ (fd'[h] = fd[h] \/ fd'[h] \in {"shut", "closed"})

\* A step that sends, reads and moves as it should keeps the side of its host.
LEMMA TurnKeeps ==
  ASSUME TcpInv, NEW h \in Host, Moves(h), Turns(h)
  PROVE  Sides(h)'
<1> DEFINE p == Peer(h)
<1>0. p \in Host /\ Peer(p) = h /\ p # h
  BY Hosts
<1>1. Types /\ Sides(h) /\ Sides(p) /\ Receiving(h) /\ Live(h)
  BY <1>0 DEF TcpInv, Sides, Turns
<1>2. conn'[p] = conn[p] /\ fd'[p] = fd[p] /\ wrote'[p] = wrote[p] /\ got'[p] = got[p]
  BY DEF Moves
<1>3. (Live(p)' <=> Live(p)) /\ (Knows(p)' <=> Knows(p)) /\ (Shut(p)' <=> Shut(p))
  BY <1>2 DEF Live, Knows, Shut
<1>4. wrote[p] \in Nat /\ Len(got[h]) \in Nat
  BY <1>0, <1>1, LiveFacts
<1>5. Sending(h)' /\ (Live(h)' => Stated(h)')
  BY DEF Turns
<1>6. /\ Reading(p, conn'[h], Len(got'[h]), wrote[p])
      /\ conn'[h].peerFin => conn[h].peerFin \/ Shut(p)
      /\ Len(got'[h]) <= wrote[p] /\ \A i \in 1 .. Len(got'[h]) : got'[h][i] = i
      /\ got'[h] \in Bytes /\ Sized(conn'[h]) /\ Len(got[h]) <= Len(got'[h])
  BY DEF Turns
<1>7. /\ Count(conn[h], Len(got[h])) \in Nat
      /\ conn[h].peerFin => Count(conn[h], Len(got[h])) = wrote[p] /\ Shut(p)
  BY <1>1, ReaderFacts
<1> HIDE DEF p
<1>8. Receiving(h)'
  <2>1. conn'[h].peerFin => Shut(p)'
    BY <1>3, <1>6, <1>7
  <2>2. Reading(p, conn'[h], Len(got'[h]), wrote'[p])
    BY <1>2, <1>6
  <2>3. Len(got'[h]) <= wrote'[p] /\ \A i \in 1 .. Len(got'[h]) : got'[h][i] = i
    BY <1>2, <1>6
  <2>4. QED
    BY <2>1, <2>2, <2>3 DEF Receiving, p
<1>9. Silent(h)'
  <2>1. SUFFICES ASSUME ~Opened(h)' \/ conn'[h].nxt = SeqNo(h, -1) PROVE Quiet(h)'
    BY DEF Silent
  <2>2. /\ ~Opened(h) \/ conn[h].nxt = SeqNo(h, -1)
        /\ \A s \in net' : s \in net \/ (s.to = p /\ s.data = <<>> /\ "FIN" \notin s.flags)
    BY <2>1 DEF Turns, p
  <2>3. Quiet(h)
    BY <1>1, <2>2 DEF Sides, Silent
  <2>4. ASSUME NEW s \in net' PROVE (s.to = p => s.data = <<>> /\ "FIN" \notin s.flags) /\ (s.to = h /\ "ACK" \in s.flags => s.ack = SeqNo(h, 0))
    <3>1. CASE s \in net
      BY <2>3, <3>1 DEF Quiet, p
    <3>2. CASE s \notin net
      BY <1>0, <2>2, <3>2
    <3>3. QED
      BY <3>1, <3>2
  <2>5. Knows(p)' => Arrived(conn'[p], Len(got'[p])) = 0
    BY <1>2, <1>3, <2>3 DEF Quiet, p
  <2>6. QED
    BY <2>4, <2>5 DEF Quiet, p
<1>10. Agree(h)'
  <2>1. SUFFICES ASSUME Live(p)'
                 PROVE  /\ Freed(conn'[h], wrote'[h]) <= Count(conn[p], Len(got[p]))
                        /\ conn'[h].finAcked /\ ~early'[h] => conn[p].peerFin
    BY <1>2 DEF Agree, p
  <2>2. QED
    BY <1>3, <2>1 DEF Turns, p
<1>11. Ends(h)'
  <2>1. Live(h)' /\ eof'[h] = eof[h] /\ (fd'[h] = fd[h] \/ fd'[h] \in {"shut", "closed"})
    BY DEF Turns
  <2>2. eof[h] => fd[h] \in {"open", "shut", "closed"} /\ conn[h].peerFin /\ conn[h].rx = <<>>
    BY <1>1 DEF Sides, Ends
  <2>3. ASSUME eof[h] PROVE conn'[h].peerFin /\ conn'[h].rx = <<>>
    <3>1. conn'[h].peerFin
      BY <2>1, <2>2, <2>3 DEF Moves
    <3>2. Count(conn'[h], Len(got'[h])) = wrote[p]
      BY <1>6, <3>1 DEF Reading
    <3>3. Count(conn[h], Len(got[h])) = wrote[p] /\ Len(conn[h].rx) = 0
      BY <1>7, <2>2, <2>3
    <3>4. Len(got'[h]) + Len(conn'[h].rx) = wrote[p] /\ Len(got[h]) + 0 = wrote[p]
      BY <3>2, <3>3 DEF Count
    <3>5. conn'[h].rx \in Bytes /\ Len(conn'[h].rx) \in Nat /\ Len(got'[h]) \in Nat
      BY <1>6, Fields, Sizes DEF Bytes
    <3>6. Len(conn'[h].rx) = 0
      <4>1. PICK x \in Nat, y \in Nat, z \in Nat : x = Len(got'[h]) /\ y = Len(conn'[h].rx) /\ z = Len(got[h])
        BY <1>4, <3>5
      <4>2. x + y = wrote[p] /\ z + 0 = wrote[p] /\ z <= x
        BY <1>6, <3>4, <4>1
      <4>3. y = 0
        BY <4>2
      <4>4. QED
        BY <4>1, <4>3
    <3>7. QED
      BY <3>1, <3>5, <3>6 DEF Bytes
  <2>4. eof'[h] => fd'[h] \in {"open", "shut", "closed"} /\ conn'[h].peerFin /\ conn'[h].rx = <<>>
    BY <2>1, <2>2, <2>3
  <2>5. QED
    BY <2>1, <2>4 DEF Ends
<1>12. QED
  BY <1>5, <1>8, <1>9, <1>10, <1>11 DEF Sides

\* The bookkeeping of a step: Set and Emit.
LEMMA SetFacts ==
  ASSUME Types, NEW h \in Host, NEW c, Set(h, c)
  PROVE  /\ conn'[h] = c /\ conn'[Peer(h)] = conn[Peer(h)]
         /\ c = NoConn \/ Sized(c) => conn' \in [Host -> Conn \union {NoConn}] /\ \A x \in Host : conn'[x] = NoConn \/ Sized(conn'[x])
<1>1. conn' = [conn EXCEPT ![h] = c] /\ conn \in [Host -> Conn \union {NoConn}] /\ \A x \in Host : conn[x] = NoConn \/ Sized(conn[x])
  BY DEF Set, Types
<1>2. conn'[h] = c /\ \A x \in Host : x # h => conn'[x] = conn[x]
  BY <1>1
<1>3. conn'[Peer(h)] = conn[Peer(h)]
  BY <1>2, Hosts
<1>4. ASSUME c = NoConn \/ Sized(c) PROVE conn' \in [Host -> Conn \union {NoConn}] /\ \A x \in Host : conn'[x] = NoConn \/ Sized(conn'[x])
  <2>1. c \in Conn \union {NoConn}
    BY <1>4 DEF Sized
  <2>2. QED
    BY <1>1, <1>2, <1>4, <2>1
<1>5. QED
  BY <1>2, <1>3, <1>4

\* A connection is not the absence of one.
LEMMA SizedIsLive ==
  ASSUME NEW c, Sized(c) PROVE c # NoConn
BY NoConnAssumption DEF Sized

\* What the network holds after a host has sent: at most NetCap segments, old ones or sent ones.
LEMMA EmitFacts ==
  ASSUME Types, NEW base, base \subseteq net, NEW out, out \subseteq Segments, IsFiniteSet(out), Emit(base, out)
  PROVE  /\ net' \subseteq Segments /\ IsFiniteSet(net') /\ Cardinality(net') <= NetCap
         /\ \A s \in net' : s \in net \/ s \in out
<1>1. net \subseteq Segments /\ IsFiniteSet(net)
  BY DEF Types
<1>2. IsFiniteSet(base)
  BY <1>1, FS_Subset
<1>3. IsFiniteSet(base \union out)
  BY <1>2, FS_Union
<1>4. net' = base \union out /\ Cardinality(base \union out) <= NetCap
  BY DEF Emit
<1>5. QED
  BY <1>1, <1>3, <1>4

\* The sockets, when h keeps its connection.
Wired(h) ==
    /\ Live(h) /\ Live(h)' /\ listener' = listener /\ spawned' = spawned
    /\ fd'[h] = fd[h] \/ (fd[h] \in {"connecting", "open", "shut"} /\ fd'[h] \in {"shut", "closed"}) \/ (fd[h] = "connecting" /\ fd'[h] = "open")
    /\ conn'[h].state \in Handshake => conn'[h].state = conn[h].state
    /\ Opened(h)' => Opened(h) \/ (h = "client" /\ spawned) \/ (h = "server" /\ (Live("client") => Opened("client")))
    /\ queued' => queued \/ (h = "server" /\ Opened(h)' /\ fd[h] = "none" /\ listener = "listening")
    /\ ~spawned => \A s \in net' : s \in net \/ (s.to = "server" /\ s.flags = {"SYN"})

\* A step of a live connection that keeps its place between the sockets keeps Sockets.
LEMMA SocketsTurn ==
  ASSUME TcpInv, NEW h \in Host, Moves(h), Wired(h)
  PROVE  Sockets'
<1>0. Host = {"client", "server"} /\ Peer("client") = "server" /\ Peer("server") = "client"
  BY DEF Host, Peer
<1>1. Sockets
  BY DEF TcpInv
<1>2. /\ conn'[Peer(h)] = conn[Peer(h)] /\ fd'[Peer(h)] = fd[Peer(h)] /\ wrote'[Peer(h)] = wrote[Peer(h)] /\ got'[Peer(h)] = got[Peer(h)]
      /\ eof'[Peer(h)] = eof[Peer(h)] /\ early'[Peer(h)] = early[Peer(h)] /\ failed'[Peer(h)] = failed[Peer(h)]
  BY DEF Moves
<1>3. (Live(Peer(h))' <=> Live(Peer(h))) /\ (Opened(Peer(h))' <=> Opened(Peer(h)))
  BY <1>2 DEF Live, Opened
<1>4. Opened(h) => Opened(h)'
  BY DEF Moves, Wired
<1>5. Live(h) /\ Live(h)' /\ listener' = listener /\ spawned' = spawned
  BY DEF Wired
<1>6. /\ fd'[h] = fd[h] \/ (fd[h] \in {"connecting", "open", "shut"} /\ fd'[h] \in {"shut", "closed"}) \/ (fd[h] = "connecting" /\ fd'[h] = "open")
      /\ conn'[h].state \in Handshake => conn'[h].state = conn[h].state
  BY DEF Wired
<1>7. Opened(h)' => Opened(h) \/ (h = "client" /\ spawned) \/ (h = "server" /\ (Live("client") => Opened("client")))
  BY DEF Wired
<1>8. queued' => queued \/ (h = "server" /\ Opened(h)' /\ fd[h] = "none" /\ listener = "listening")
  BY DEF Wired
<1>9. ~spawned => \A s \in net' : s \in net \/ (s.to = "server" /\ s.flags = {"SYN"})
  BY DEF Wired
<1>10. spawned \/ h = "client"
  <2>1. Live("server") => spawned
    BY <1>1 DEF Sockets
  <2>2. QED
    BY <1>0, <1>5, <2>1
<1>11. fd[h] = "none" => fd'[h] = "none"
  BY <1>6
<1>12. fd'["client"] # "none"
  <2>1. fd["client"] # "none"
    BY <1>1, <1>5, <1>10 DEF Sockets
  <2>2. CASE h = "client"
    BY <1>6, <2>1, <2>2
  <2>3. CASE h = "server"
    BY <1>0, <1>2, <2>1, <2>3
  <2>4. QED
    BY <1>0, <2>2, <2>3
<1>13. ~spawned' => /\ ~Live("server")' /\ fd'["server"] = "none" /\ ~queued' /\ got'["server"] = <<>> /\ wrote'["server"] = 0
                    /\ ~early'["server"] /\ ~eof'["server"]
                    /\ \A s \in net' : s.to = "server" /\ s.flags = {"SYN"}
                    /\ Live("client")' => ~Opened("client")'
  <2>1. SUFFICES ASSUME ~spawned
                 PROVE  /\ ~Live("server")' /\ fd'["server"] = "none" /\ ~queued' /\ got'["server"] = <<>> /\ wrote'["server"] = 0
                        /\ ~early'["server"] /\ ~eof'["server"]
                        /\ \A s \in net' : s.to = "server" /\ s.flags = {"SYN"}
                        /\ ~Opened("client")'
    BY <1>5
  <2>2. h = "client" /\ Peer(h) = "server"
    BY <1>0, <1>10, <2>1
  <2>3. /\ ~Live("server") /\ fd["server"] = "none" /\ ~queued /\ got["server"] = <<>> /\ wrote["server"] = 0
        /\ ~early["server"] /\ ~eof["server"]
        /\ \A s \in net : s.to = "server" /\ s.flags = {"SYN"}
        /\ ~Opened("client")
    BY <1>1, <1>5, <2>1, <2>2 DEF Sockets
  <2>4. ~Live("server")' /\ ~queued' /\ ~Opened("client")'
    BY <1>3, <1>7, <1>8, <2>1, <2>2, <2>3
  <2>5. \A s \in net' : s.to = "server" /\ s.flags = {"SYN"}
    BY <1>9, <2>1, <2>3
  <2>6. QED
    BY <1>2, <2>2, <2>3, <2>4, <2>5
<1>14. queued' => Opened("server")' /\ fd'["server"] = "none" /\ listener' = "listening"
  <2>1. CASE queued
    <3>1. Opened("server") /\ fd["server"] = "none" /\ listener = "listening"
      BY <1>1, <2>1 DEF Sockets
    <3>2. CASE h = "server"
      BY <1>4, <1>5, <1>11, <3>1, <3>2
    <3>3. CASE h = "client"
      BY <1>0, <1>2, <1>3, <1>5, <3>1, <3>3
    <3>4. QED
      BY <1>0, <3>2, <3>3
  <2>2. CASE ~queued
    BY <1>5, <1>8, <1>11, <2>2
  <2>3. QED
    BY <2>1, <2>2
<1>15. (Live("server")' => conn'["server"].state # "SYN_SENT") /\ (Live("client")' => conn'["client"].state # "SYN_RECEIVED")
  <2>1. (Live("server") => conn["server"].state # "SYN_SENT") /\ (Live("client") => conn["client"].state # "SYN_RECEIVED")
    BY <1>1 DEF Sockets
  <2>2. CASE h = "server"
    BY <1>0, <1>2, <1>3, <1>5, <1>6, <2>1, <2>2 DEF Handshake
  <2>3. CASE h = "client"
    BY <1>0, <1>2, <1>3, <1>5, <1>6, <2>1, <2>3 DEF Handshake
  <2>4. QED
    BY <1>0, <2>2, <2>3
<1>16. Live("server")' /\ ~Opened("server")' => fd'["server"] = "none"
  <2>1. Live("server") /\ ~Opened("server") => fd["server"] = "none"
    BY <1>1 DEF Sockets
  <2>2. CASE h = "server"
    BY <1>4, <1>5, <1>11, <2>1, <2>2
  <2>3. CASE h = "client"
    BY <1>0, <1>2, <1>3, <2>1, <2>3
  <2>4. QED
    BY <1>0, <2>2, <2>3
<1>17. Opened("server")' /\ Live("client")' => Opened("client")'
  <2>1. Opened("server") /\ Live("client") => Opened("client")
    BY <1>1 DEF Sockets
  <2>2. CASE h = "server"
    BY <1>0, <1>3, <1>7, <2>1, <2>2
  <2>3. CASE h = "client"
    BY <1>0, <1>3, <1>4, <1>5, <2>1, <2>3
  <2>4. QED
    BY <1>0, <2>2, <2>3
<1>18. fd'["client"] = "connecting" => Live("client")'
  <2>1. fd["client"] = "connecting" => Live("client")
    BY <1>1 DEF Sockets
  <2>2. CASE h = "client"
    BY <1>5, <2>2
  <2>3. CASE h = "server"
    BY <1>0, <1>2, <1>3, <2>1, <2>3
  <2>4. QED
    BY <1>0, <2>2, <2>3
<1>19. QED
  BY <1>12, <1>13, <1>14, <1>15, <1>16, <1>17, <1>18 DEF Sockets

\* The types after a step that changes one host.
LEMMA TypesNext ==
  ASSUME Types, conn' \in [Host -> Conn \union {NoConn}], \A x \in Host : conn'[x] = NoConn \/ Sized(conn'[x]),
         net' \subseteq Segments, IsFiniteSet(net'), Cardinality(net') <= NetCap,
         NEW h \in Host, fd' = fd \/ \E f \in {"none", "connecting", "open", "shut", "closed"} : fd' = [fd EXCEPT ![h] = f],
         wrote' = wrote \/ \E n \in Nat : wrote' = [wrote EXCEPT ![h] = n] /\ n + 2 < Modulus,
         got' = got \/ \E q \in Bytes : got' = [got EXCEPT ![h] = q],
         eof' = eof \/ eof' = [eof EXCEPT ![h] = TRUE],
         early' = early \/ early' = [early EXCEPT ![h] = TRUE],
         failed' = failed \/ \E f \in BOOLEAN : failed' = [failed EXCEPT ![h] = f],
         listener' \in {"none", "listening", "closed"}
  PROVE  Types'
<1>1. DOMAIN fd = Host /\ DOMAIN wrote = Host /\ DOMAIN got = Host /\ eof \in [Host -> BOOLEAN] /\ early \in [Host -> BOOLEAN]
      /\ failed \in [Host -> BOOLEAN]
      /\ \A x \in Host : /\ fd[x] \in {"none", "connecting", "open", "shut", "closed"}
                         /\ wrote[x] \in Nat /\ wrote[x] + 2 < Modulus /\ got[x] \in Bytes
  BY DEF Types
<1>2. DOMAIN fd' = Host /\ \A x \in Host : fd'[x] \in {"none", "connecting", "open", "shut", "closed"}
  <2>1. CASE fd' = fd
    BY <1>1, <2>1
  <2>2. CASE fd' # fd
    <3>1. PICK f \in {"none", "connecting", "open", "shut", "closed"} : fd' = [fd EXCEPT ![h] = f]
      BY <2>2
    <3>2. \A x \in Host : fd'[x] = f \/ fd'[x] = fd[x]
      BY <1>1, <3>1
    <3>3. QED
      BY <1>1, <3>1, <3>2
  <2>3. QED
    BY <2>1, <2>2
<1>3. DOMAIN wrote' = Host /\ \A x \in Host : wrote'[x] \in Nat /\ wrote'[x] + 2 < Modulus
  <2>1. CASE wrote' = wrote
    BY <1>1, <2>1
  <2>2. CASE wrote' # wrote
    <3>1. PICK n \in Nat : wrote' = [wrote EXCEPT ![h] = n] /\ n + 2 < Modulus
      BY <2>2
    <3>2. \A x \in Host : wrote'[x] = n \/ wrote'[x] = wrote[x]
      BY <1>1, <3>1
    <3>3. QED
      BY <1>1, <3>1, <3>2
  <2>3. QED
    BY <2>1, <2>2
<1>4. DOMAIN got' = Host /\ \A x \in Host : got'[x] \in Bytes
  <2>1. CASE got' = got
    BY <1>1, <2>1
  <2>2. CASE got' # got
    <3>1. PICK q \in Bytes : got' = [got EXCEPT ![h] = q]
      BY <2>2
    <3>2. \A x \in Host : got'[x] = q \/ got'[x] = got[x]
      BY <1>1, <3>1
    <3>3. QED
      BY <1>1, <3>1, <3>2
  <2>3. QED
    BY <2>1, <2>2
<1>5. eof' \in [Host -> BOOLEAN]
  BY <1>1
<1>6. early' \in [Host -> BOOLEAN]
  BY <1>1
<1>7. failed' \in [Host -> BOOLEAN]
  BY <1>1
<1>8. QED
  BY <1>2, <1>3, <1>4, <1>5, <1>6, <1>7 DEF Types

\* A step of h with which it keeps its connection: its surroundings, ...
Frame(h) ==
    LET p == Peer(h) IN
    /\ conn'[p] = conn[p] /\ fd'[p] = fd[p] /\ wrote'[p] = wrote[p] /\ got'[p] = got[p] /\ early'[p] = early[p] /\ failed'[p] = failed[p]
    /\ listener' = listener /\ spawned' = spawned /\ eof' = eof /\ (refused => refused')
    /\ Live(h) /\ Live(h)' /\ Sized(conn'[h])
    /\ fd'[h] = fd[h] \/ (fd[h] \in {"connecting", "open", "shut"} /\ fd'[h] \in {"shut", "closed"})
    /\ conn'[h].state \in Handshake => conn'[h].state = conn[h].state
    /\ Opened(h)' => Opened(h) \/ (h = "client" /\ spawned) \/ (h = "server" /\ (Live("client") => Opened("client")))
    /\ queued' => queued \/ (h = "server" /\ Opened(h)' /\ fd[h] = "none" /\ listener = "listening")
    /\ wrote'[h] \in Nat /\ wrote[h] <= wrote'[h] /\ (Shut(h) => wrote'[h] = wrote[h])

\* ... its sending, ...
Sends(h) ==
    LET p == Peer(h) IN
    /\ Sending(h)'
    /\ ~Opened(h)' \/ conn'[h].nxt = SeqNo(h, -1) => ~Opened(h) \/ conn[h].nxt = SeqNo(h, -1)
    /\ Live(p) => /\ Freed(conn'[h], wrote'[h]) <= Count(conn[p], Len(got[p]))
                  /\ conn'[h].finAcked /\ ~early'[h] => conn[p].peerFin

\* ... its reading, ...
Reads(h) ==
    LET p == Peer(h) IN
    /\ Reading(p, conn'[h], Len(got'[h]), wrote[p])
    /\ conn'[h].peerFin => conn[h].peerFin \/ Shut(p)
    /\ conn[h].peerFin => conn'[h].peerFin
    /\ got'[h] \in Bytes /\ Len(got[h]) <= Len(got'[h])
    /\ Len(got'[h]) <= wrote[p] /\ \A i \in 1 .. Len(got'[h]) : got'[h][i] = i
    /\ Count(conn[h], Len(got[h])) <= Count(conn'[h], Len(got'[h]))
    /\ Arrived(conn[h], Len(got[h])) <= Arrived(conn'[h], Len(got'[h]))
    /\ Quiet(p) /\ Knows(h)' => Arrived(conn'[h], Len(got'[h])) = 0

\* ... and what it says.
Says(h, s) ==
    /\ s.to = Peer(h) /\ "RST" \notin s.flags /\ Data(s, h, wrote'[h])
    /\ "FIN" \in s.flags => Shut(h)' /\ s.seq \in {SeqNo(h, -1), SeqNo(h, wrote'[h])}
    /\ "SYN" \in s.flags => s.seq = SeqNo(h, -1) /\ s.data = <<>> /\ "FIN" \notin s.flags
    /\ "ACK" \in s.flags => Knows(h)' /\ s.ack = conn'[h].rcvNxt
    /\ ~Opened(h)' \/ conn'[h].nxt = SeqNo(h, -1) => s.data = <<>> /\ "FIN" \notin s.flags
    /\ ~spawned => s.to = "server" /\ s.flags = {"SYN"}

\* A segment made from the fields of a connection carries the truth.
LEMMA SaysCarries ==
  ASSUME NEW h \in Host, NEW s, Says(h, s), Live(h)', NEW a \in Nat, a = Arrived(conn'[h], Len(got'[h])),
         Knows(h)' => conn'[h].rcvNxt = SeqNo(Peer(h), a), Quiet(Peer(h)) /\ Knows(h)' => a = 0
  PROVE  Carries(s, h)' /\ (Quiet(Peer(h)) /\ "ACK" \in s.flags => s.ack = SeqNo(Peer(h), 0))
<1>1. s.data # <<>> => /\ "FIN" \notin s.flags
                       /\ \E k \in 0 .. wrote'[h] : /\ s.seq = SeqNo(h, k) /\ k + Len(s.data) <= wrote'[h]
                                                     /\ \A i \in 1 .. Len(s.data) : s.data[i] = k + i
  BY DEF Says, Data
<1>2. /\ "FIN" \in s.flags => Shut(h)' /\ s.seq \in {SeqNo(h, -1), SeqNo(h, wrote'[h])}
      /\ "SYN" \in s.flags => s.seq = SeqNo(h, -1) /\ s.data = <<>> /\ "FIN" \notin s.flags
      /\ "RST" \notin s.flags
      /\ "ACK" \in s.flags => Knows(h)' /\ s.ack = conn'[h].rcvNxt
  BY DEF Says
<1>3. "ACK" \in s.flags => Knows(h)' /\ \E k \in 0 .. Arrived(conn'[h], Len(got'[h])) : s.ack = SeqNo(Peer(h), k)
  BY <1>2
<1>4. Carries(s, h)'
  BY <1>1, <1>2, <1>3 DEF Carries
<1>5. QED
  BY <1>2, <1>4

\* A step of a live connection is a step of its host.
LEMMA LiveMoves ==
  ASSUME TcpInv, NEW h \in Host, Frame(h), Sends(h), Reads(h), Stated(h)', \A s \in net' : s \in net \/ Says(h, s)
  PROVE  Moves(h) /\ Turns(h) /\ Wired(h)
<1> DEFINE p == Peer(h)
           d == conn'[h]
           g == Len(got'[h])
<1>0. p \in Host /\ Peer(p) = h /\ p # h
  BY Hosts
<1>1. Types /\ Live(h) /\ Live(h)' /\ Sized(d)
  BY DEF TcpInv, Frame
<1>2. wrote[p] \in Nat /\ Len(got[h]) \in Nat /\ wrote[h] \in Nat
  BY <1>0, <1>1, LiveFacts
<1>3. Reading(p, d, g, wrote[p]) /\ got'[h] \in Bytes
  BY DEF Reads
<1>4. g \in Nat
  BY <1>3 DEF Bytes
<1> HIDE DEF p, d, g
<1>5. Count(d, g) \in Nat /\ Arrived(d, g) \in Nat
  BY <1>0, <1>1, <1>2, <1>3, <1>4, ReadingFacts
<1>6. Knows(h)' => d.rcvNxt = SeqNo(p, Arrived(d, g))
  BY <1>3 DEF Reading, Knows, d
<1>7. Quiet(p) /\ Knows(h)' => Arrived(d, g) = 0
  BY DEF Reads, p, d, g
<1>8. \A s \in net' : s \in net \/ (s.to = p /\ Carries(s, h)' /\ (Quiet(p) /\ "ACK" \in s.flags => s.ack = SeqNo(p, 0)))
  <2>1. SUFFICES ASSUME NEW s \in net', s \notin net
                 PROVE  s.to = p /\ Carries(s, h)' /\ (Quiet(p) /\ "ACK" \in s.flags => s.ack = SeqNo(p, 0))
    OBVIOUS
  <2>2. Says(h, s)
    BY <2>1
  <2>3. PICK a \in Nat : a = Arrived(d, g)
    BY <1>5
  <2>4. (Knows(h)' => d.rcvNxt = SeqNo(p, a)) /\ (Quiet(p) /\ Knows(h)' => a = 0)
    BY <1>6, <1>7, <2>3
  <2>5. Carries(s, h)' /\ (Quiet(p) /\ "ACK" \in s.flags => s.ack = SeqNo(p, 0))
    BY <1>1, <2>2, <2>3, <2>4, SaysCarries DEF p, d, g
  <2>6. s.to = p
    BY <2>2 DEF Says, p
  <2>7. QED
    BY <2>5, <2>6
<1>9. /\ conn'[p] = conn[p] /\ fd'[p] = fd[p] /\ wrote'[p] = wrote[p] /\ got'[p] = got[p] /\ eof' = eof /\ early'[p] = early[p] /\ failed'[p] = failed[p]
      /\ wrote'[h] \in Nat /\ wrote[h] <= wrote'[h] /\ (refused => refused')
      /\ Shut(h) => wrote'[h] = wrote[h]
  BY DEF Frame, p
<1>10. Shut(h) => Shut(h)'
  BY DEF Frame, Shut
<1>11. (Opened(h) => Opened(h)') /\ (Knows(h) => Knows(h)')
  <2>1. conn'[h].state \in Handshake => conn'[h].state = conn[h].state
    BY DEF Frame
  <2>2. QED
    BY <1>1, <2>1 DEF Opened, Knows, Live, Handshake
<1>12. /\ Count(conn[h], Len(got[h])) <= Count(d, g) /\ Arrived(conn[h], Len(got[h])) <= Arrived(d, g)
       /\ conn[h].peerFin => d.peerFin
  BY DEF Reads, d, g
<1>13. Moves(h)
  BY <1>1, <1>5, <1>7, <1>8, <1>9, <1>10, <1>11, <1>12 DEF Moves, p, d, g
<1>14. fd'[h] = fd[h] \/ (fd[h] \in {"connecting", "open", "shut"} /\ fd'[h] \in {"shut", "closed"})
  BY DEF Frame
<1>15. Turns(h)
  <2>1. ASSUME ~Opened(h)' \/ conn'[h].nxt = SeqNo(h, -1)
        PROVE  /\ ~Opened(h) \/ conn[h].nxt = SeqNo(h, -1)
               /\ \A s \in net' : s \in net \/ (s.to = p /\ s.data = <<>> /\ "FIN" \notin s.flags)
    BY <2>1 DEF Sends, Says, p
  <2>2. /\ Sending(h)' /\ Live(p) => /\ Freed(conn'[h], wrote'[h]) <= Count(conn[p], Len(got[p]))
                                     /\ conn'[h].finAcked /\ ~early'[h] => conn[p].peerFin
    BY DEF Sends, p
  <2>21. Sending(h)'
    BY DEF Sends
  <2>3. /\ conn'[h].peerFin => conn[h].peerFin \/ Shut(p)
        /\ g <= wrote[p] /\ \A i \in 1 .. g : got'[h][i] = i
        /\ Len(got[h]) <= g
    BY DEF Reads, p, g
  <2>4. eof'[h] = eof[h] /\ (fd'[h] = fd[h] \/ fd'[h] \in {"shut", "closed"})
    BY <1>9, <1>14
  <2>5. QED
    BY <1>1, <1>3, <2>1, <2>2, <2>21, <2>3, <2>4 DEF Turns, p, g, d
<1>16. Wired(h)
  <2>1. ~spawned => \A s \in net' : s \in net \/ (s.to = "server" /\ s.flags = {"SYN"})
    BY DEF Says
  <2>2. /\ listener' = listener /\ spawned' = spawned
        /\ conn'[h].state \in Handshake => conn'[h].state = conn[h].state
        /\ Opened(h)' => Opened(h) \/ (h = "client" /\ spawned) \/ (h = "server" /\ (Live("client") => Opened("client")))
        /\ queued' => queued \/ (h = "server" /\ Opened(h)' /\ fd[h] = "none" /\ listener = "listening")
    BY DEF Frame
  <2>3. QED
    BY <1>1, <1>14, <2>1, <2>2 DEF Wired
<1>17. QED
  BY <1>13, <1>15, <1>16

\* A step of a live connection that sends, reads, says and moves as it should keeps the invariant.
LEMMA LiveTurn ==
  ASSUME TcpInv, NEW h \in Host, Types', Frame(h), Sends(h), Reads(h), Stated(h)', \A s \in net' : s \in net \/ Says(h, s)
  PROVE  TcpInv'
<1>1. Moves(h) /\ Turns(h) /\ Wired(h)
  BY LiveMoves
<1>2. Sides(h)' /\ Sockets'
  BY <1>1, TurnKeeps, SocketsTurn
<1>3. QED
  BY <1>1, <1>2, Assemble

\* A connection is past its handshake only after the SYN reached the listener.
LEMMA OpenedSpawned ==
  ASSUME TcpInv, NEW h \in Host, Opened(h) PROVE spawned
BY Hosts DEF TcpInv, Sockets, Opened

\* A step that leaves the reading end alone.
LEMMA ReadsStill ==
  ASSUME TcpInv, NEW h \in Host, Live(h), ReadsAlike(conn'[h], conn[h]), got'[h] = got[h], Live(h)' => Live(h),
         conn[h].state = "SYN_SENT" <=> conn'[h].state = "SYN_SENT"
  PROVE  Reads(h)
<1> DEFINE p == Peer(h)
<1>1. Types /\ Receiving(h)
  BY DEF TcpInv, Sides
<1>2. Len(got[h]) <= wrote[p] /\ \A i \in 1 .. Len(got[h]) : got[h][i] = i
  BY <1>1 DEF Receiving
<1>3. got[h] \in Bytes /\ Len(got[h]) \in Nat
  BY <1>1, LiveFacts
<1>4. /\ Reading(p, conn[h], Len(got[h]), wrote[p])
      /\ Count(conn[h], Len(got[h])) \in Nat /\ Arrived(conn[h], Len(got[h])) \in Nat
  BY <1>1, ReaderFacts
<1>5. /\ Count(conn'[h], Len(got[h])) = Count(conn[h], Len(got[h])) /\ Arrived(conn'[h], Len(got[h])) = Arrived(conn[h], Len(got[h]))
  BY ReadersAlike
<1> HIDE DEF p
<1>6. Reading(p, conn'[h], Len(got[h]), wrote[p])
  BY <1>4, <1>5 DEF Reading, ReadsAlike
<1>7. conn'[h].peerFin = conn[h].peerFin
  BY DEF ReadsAlike
<1>8. Knows(h)' => Knows(h)
  BY DEF Knows, Live
<1>9. Quiet(p) /\ Knows(h)' => Arrived(conn'[h], Len(got[h])) = 0
  BY <1>5, <1>8, Hosts DEF Quiet, p
<1>10. QED
  BY <1>2, <1>3, <1>4, <1>5, <1>6, <1>7, <1>9 DEF Reads, p

\* A step that leaves the sending end alone.
LEMMA SendsStill ==
  ASSUME TcpInv, NEW h \in Host, Live(h), SendsAlike(conn'[h], conn[h]), wrote'[h] = wrote[h], early'[h] = early[h], failed'[h] = failed[h],
         Opened(h)' <=> Opened(h), conn'[h].state \in Closing => conn[h].state \in Closing
  PROVE  Sends(h)
<1> DEFINE p == Peer(h)
<1>1. Sending(h) /\ Agree(h)
  BY DEF TcpInv, Sides
<1>2. /\ Ring(conn[h], wrote[h])
      /\ ~Opened(h) => Greeting(h, conn[h], wrote[h]) /\ (~early[h] => conn[h].nxt = SeqNo(h, 0))
      /\ Opened(h) => Numbered(h, conn[h], wrote[h]) /\ (~early[h] => Prompt(h, conn[h], wrote[h]) /\ (~failed[h] => Armed(conn[h])))
  BY <1>1 DEF Sending
<1>3. /\ Freed(conn'[h], wrote[h]) = Freed(conn[h], wrote[h]) /\ (Ring(conn[h], wrote[h]) => Ring(conn'[h], wrote[h]))
      /\ (Numbered(h, conn[h], wrote[h]) => Numbered(h, conn'[h], wrote[h]))
      /\ Prompt(h, conn[h], wrote[h]) <=> Prompt(h, conn'[h], wrote[h])
      /\ Greeting(h, conn[h], wrote[h]) => Greeting(h, conn'[h], wrote[h])
  BY ModesAlike
<1>4. Armed(conn[h]) => Armed(conn'[h])
  BY DEF Armed, SendsAlike
<1>5. conn'[h].nxt = conn[h].nxt /\ conn'[h].finAcked = conn[h].finAcked
  BY DEF SendsAlike
<1>6. Sending(h)'
  BY <1>2, <1>3, <1>4, <1>5 DEF Sending
<1>7. Live(p) => /\ Freed(conn[h], wrote[h]) <= Count(conn[p], Len(got[p]))
                 /\ conn[h].finAcked /\ ~early[h] => conn[p].peerFin
  BY <1>1 DEF Agree
<1>8. QED
  BY <1>3, <1>5, <1>6, <1>7 DEF Sends

\* A step that ends in tcp_drain_tx, of the connection b.
LEMMA DrainTurn ==
  ASSUME TcpInv, NEW h \in Host, Opened(h), NEW b, Sized(b), NEW w, w = wrote'[h], w \in Nat, w + 2 < Modulus, Ring(b, w),
         Numbered(h, b, w), ~early'[h] => Prompt(h, b, w), b.state \notin Handshake, b.state \in Closing => Shut(h)',
         Live(Peer(h)) => /\ Freed(b, w) <= Count(conn[Peer(h)], Len(got[Peer(h)]))
                          /\ b.finAcked /\ ~early'[h] => conn[Peer(h)].peerFin,
         b.nxt = SeqNo(h, -1) => conn[h].nxt = SeqNo(h, -1),
         NEW n \in Nat, NEW r, r = Drain(h, b, n), conn'[h] = r.c, failed'[h] = r.failed
  PROVE  /\ Sends(h) /\ Live(h)' /\ Sized(r.c) /\ SameButNext(r.c, b) /\ r.failed \in BOOLEAN
         /\ IsFiniteSet(r.out) /\ r.out \subseteq Segments /\ (\A s \in r.out : Says(h, s))
         /\ r.c.finSent => b.finSent \/ b.state \in Closing
<1> DEFINE p == Peer(h)
<1>1. Drained(h, b, r, w)
  BY DrainKeeps
<1>2. Sized(r.c) /\ SameButNext(r.c, b) /\ Numbered(h, r.c, w) /\ r.failed \in BOOLEAN
      /\ (Prompt(h, b, w) => Prompt(h, r.c, w) /\ (~r.failed => Armed(r.c)))
  BY <1>1 DEF Drained
<1>3. IsFiniteSet(r.out) /\ \A s \in r.out : Sent(s, h, b, w)
  BY <1>1 DEF Drained
<1>4. /\ r.c.nxt = SeqNo(h, -1) => b.nxt = SeqNo(h, -1) /\ r.out = {}
      /\ r.c.finSent => b.finSent \/ b.state \in Closing
  BY <1>1 DEF Drained
<1>5. /\ r.c.state = b.state /\ r.c.finAcked = b.finAcked /\ r.c.rcvNxt = b.rcvNxt
      /\ Freed(r.c, w) = Freed(b, w) /\ Ring(r.c, w)
  BY <1>2, SameFacts DEF SameButNext
<1>6. Opened(h)' /\ Live(h)'
  <2>1. conn'[h] # NoConn
    BY <1>2, SizedIsLive
  <2>2. conn'[h].state \notin Handshake
    BY <1>5
  <2>3. QED
    BY <2>1, <2>2 DEF Opened, Live
<1>7. Sending(h)'
  BY <1>2, <1>5, <1>6 DEF Sending
<1>8. Sends(h)
  BY <1>4, <1>5, <1>6, <1>7 DEF Sends
<1>9. spawned
  BY OpenedSpawned
<1>10. Knows(h)'
  BY <1>6 DEF Knows, Opened, Handshake
<1>11. ASSUME NEW s \in r.out PROVE s \in Segments /\ Says(h, s)
  <2>1. /\ s \in Segments /\ s.to = p /\ s.ack = b.rcvNxt /\ s.flags \in {{"ACK"}, {"ACK", "FIN"}}
        /\ s.data # <<>> => /\ s.flags = {"ACK"}
                            /\ \E k \in 0 .. w : /\ s.seq = SeqNo(h, k) /\ k + Len(s.data) <= w
                                                 /\ \A i \in 1 .. Len(s.data) : s.data[i] = k + i
        /\ "FIN" \in s.flags => b.state \in Closing /\ s.seq \in {SeqNo(h, -1), SeqNo(h, w)}
    BY <1>3 DEF Sent
  <2>2. Data(s, h, wrote'[h])
    BY <2>1 DEF Data
  <2>3. "RST" \notin s.flags /\ "SYN" \notin s.flags
    BY <2>1
  <2>4. "FIN" \in s.flags => Shut(h)' /\ s.seq \in {SeqNo(h, -1), SeqNo(h, wrote'[h])}
    BY <2>1
  <2>5. s.ack = conn'[h].rcvNxt
    BY <1>5, <2>1
  <2>6. ~(~Opened(h)' \/ conn'[h].nxt = SeqNo(h, -1))
    BY <1>4, <1>6
  <2>7. QED
    BY <1>9, <1>10, <2>1, <2>2, <2>3, <2>4, <2>5, <2>6 DEF Says
<1>12. QED
  BY <1>2, <1>3, <1>4, <1>6, <1>8, <1>11

\* What a step that ends in tcp_drain_tx does, with n sends that succeed.
Drains(h, b, base, out, n, r) ==
    /\ n \in Nat /\ r = Drain(h, b, n) /\ Set(h, r.c) /\ Emit(base, r.out \union out)
    /\ failed' = [failed EXCEPT ![h] = r.failed]

\* Some number of sends succeeds.
LEMMA DrainSteps ==
  ASSUME NEW h \in Host, NEW b, NEW base, NEW out, DrainTx(h, b, base, out)
  PROVE  \E n, r : Drains(h, b, base, out, n, r)
<1>1. PICK n \in SendCounts(h) : /\ Set(h, Drain(h, b, n).c) /\ Emit(base, Drain(h, b, n).out \union out)
                                /\ failed' = [failed EXCEPT ![h] = Drain(h, b, n).failed]
  BY DEF DrainTx
<1>2. n \in Nat
  BY Sizes DEF SendCounts
<1>3. QED
  BY <1>1, <1>2 DEF Drains

\* tcp_drain_tx of h says nothing of the other host.
LEMMA FailedSet ==
  ASSUME Types, NEW h \in Host, NEW f, failed' = [failed EXCEPT ![h] = f]
  PROVE  failed'[h] = f /\ failed'[Peer(h)] = failed[Peer(h)]
BY Hosts DEF Types

\* The bookkeeping of a step of h that sends out.
LEMMA SetTypes ==
  ASSUME Types, NEW h \in Host, NEW d, Set(h, d), d = NoConn \/ Sized(d),
         NEW base, base \subseteq net, NEW out, out \subseteq Segments, IsFiniteSet(out), Emit(base, out),
         fd' = fd \/ \E f \in {"none", "connecting", "open", "shut", "closed"} : fd' = [fd EXCEPT ![h] = f],
         wrote' = wrote \/ \E n \in Nat : wrote' = [wrote EXCEPT ![h] = n] /\ n + 2 < Modulus,
         got' = got \/ \E q \in Bytes : got' = [got EXCEPT ![h] = q],
         eof' = eof, early' = early \/ early' = [early EXCEPT ![h] = TRUE],
         failed' = failed \/ \E f \in BOOLEAN : failed' = [failed EXCEPT ![h] = f], listener' \in {"none", "listening", "closed"}
  PROVE  /\ Types' /\ conn'[h] = d /\ conn'[Peer(h)] = conn[Peer(h)]
         /\ \A s \in net' : s \in net \/ s \in out
         /\ Host \subseteq DOMAIN fd /\ Host \subseteq DOMAIN got /\ Host \subseteq DOMAIN wrote /\ Host \subseteq DOMAIN early
         /\ Peer(h) \in Host /\ Peer(h) # h
<1>1. /\ conn'[h] = d /\ conn'[Peer(h)] = conn[Peer(h)]
      /\ conn' \in [Host -> Conn \union {NoConn}] /\ \A x \in Host : conn'[x] = NoConn \/ Sized(conn'[x])
  BY SetFacts
<1>2. /\ net' \subseteq Segments /\ IsFiniteSet(net') /\ Cardinality(net') <= NetCap
      /\ \A s \in net' : s \in net \/ s \in out
  BY EmitFacts
<1>3. Types'
  BY <1>1, <1>2, TypesNext
<1>4. Host \subseteq DOMAIN fd /\ Host \subseteq DOMAIN got /\ Host \subseteq DOMAIN wrote /\ Host \subseteq DOMAIN early
  BY DEF Types
<1>5. QED
  BY <1>1, <1>2, <1>3, <1>4, Hosts

\* The invariant, for one host.
LEMMA InvFacts ==
  ASSUME TcpInv, NEW h \in Host
  PROVE  /\ Types /\ Sockets /\ Sides(h) /\ Sides(Peer(h)) /\ Sending(h) /\ Receiving(h) /\ Silent(h) /\ Agree(h) /\ Ends(h)
         /\ Live(h) => Stated(h) /\ Sized(conn[h])
         /\ \A s \in net : s \in Segments /\ Carries(s, Peer(s.to))
<1>1. Types /\ Sockets /\ Sides(h) /\ Sides(Peer(h)) /\ \A s \in net : Carries(s, Peer(s.to))
  BY Hosts DEF TcpInv
<1>2. \A s \in net : s \in Segments
  BY <1>1 DEF Types
<1>3. Live(h) => Sized(conn[h])
  BY <1>1, LiveFacts
<1>4. QED
  BY <1>1, <1>2, <1>3 DEF Sides

\* An RST sets reset and the state.
LEMMA ResetSet ==
  ASSUME NEW c, Sized(c), NEW d, d = [c EXCEPT !.reset = TRUE, !.state = "CLOSED"]
  PROVE  /\ Sized(d) /\ SendsAlike(d, c) /\ ReadsAlike(d, c) /\ d.state = "CLOSED" /\ d.reset
         /\ d.userClosed = c.userClosed /\ d.finSent = c.finSent
BY DEF Sized, Conn, State, SendsAlike, ReadsAlike

\* A host takes an RST.
LEMMA ResetStep ==
  ASSUME TcpInv, NEW h \in Host, Live(h), NEW s \in net, s.to = h, HandleReset(h, s)
  PROVE  TcpInv'
<1>1. /\ "RST" \in s.flags /\ Emit(net \ {s}, {})
      /\ UNCHANGED <<fd, listener, queued, spawned, wrote, got, eof, refused, early, failed>>
  BY DEF HandleReset, Delivered, socks, streams
<1>2. PICK d : d = [conn[h] EXCEPT !.reset = TRUE, !.state = "CLOSED"]
  OBVIOUS
<1>3. Set(h, d)
  BY <1>2 DEF HandleReset
<1>4. Types /\ Stated(h) /\ Sized(conn[h]) /\ Carries(s, Peer(h))
  BY InvFacts
<1>5. /\ Sized(d) /\ SendsAlike(d, conn[h]) /\ ReadsAlike(d, conn[h]) /\ d.state = "CLOSED" /\ d.reset
      /\ d.userClosed = conn[h].userClosed /\ d.finSent = conn[h].finSent
  BY <1>2, <1>4, ResetSet
<1>6. refused /\ Opened(h)
  BY <1>1, <1>4 DEF Carries
<1>7. /\ Types' /\ conn'[h] = d /\ conn'[Peer(h)] = conn[Peer(h)]
      /\ \A x \in net' : x \in net
  <2>1. {} \subseteq Segments /\ IsFiniteSet({}) /\ net \ {s} \subseteq net
    BY FS_EmptySet
  <2>2. listener' \in {"none", "listening", "closed"}
    BY <1>1, <1>4 DEF Types
  <2>3. fd' = fd /\ wrote' = wrote /\ got' = got /\ eof' = eof /\ early' = early /\ failed' = failed
    BY <1>1
  <2>4. PICK base, out : base = net \ {s} /\ out = {}
    OBVIOUS
  <2>5. base \subseteq net /\ out \subseteq Segments /\ IsFiniteSet(out) /\ Emit(base, out)
    BY <1>1, <2>1, <2>4
  <2>6. Types' /\ conn'[h] = d /\ conn'[Peer(h)] = conn[Peer(h)] /\ \A x \in net' : x \in net \/ x \in out
    BY <1>3, <1>4, <1>5, <2>2, <2>3, <2>5, SetTypes
  <2>7. QED
    BY <2>4, <2>6
<1>8. Live(h)' /\ Opened(h)'
  BY <1>5, <1>7, SizedIsLive DEF Live, Opened, Handshake
<1>9. Frame(h)
  <2>1. wrote[h] \in Nat
    BY <1>4, LiveFacts
  <2>2. QED
    BY <1>1, <1>5, <1>6, <1>7, <1>8, <2>1 DEF Frame, Handshake
<1>10. Sends(h)
  BY <1>1, <1>5, <1>6, <1>7, <1>8, SendsStill DEF Closing
<1>11. Reads(h)
  <2>1. conn[h].state # "SYN_SENT" /\ conn'[h].state # "SYN_SENT"
    BY <1>5, <1>6, <1>7 DEF Opened, Handshake
  <2>2. QED
    BY <1>1, <1>5, <1>7, <2>1, ReadsStill
<1>12. Stated(h)'
  BY <1>1, <1>4, <1>5, <1>6, <1>7 DEF Stated, Shut, Closing
<1>13. QED
  BY <1>7, <1>9, <1>10, <1>11, <1>12, LiveTurn

SameButRx(d, c) ==
    d.rcvNxt = c.rcvNxt /\ d.state = c.state /\ d.peerFin = c.peerFin /\ d.reset = c.reset /\ d.userClosed = c.userClosed

\* recv takes bytes from the receive ring.
LEMMA RxSet ==
  ASSUME NEW c, Sized(c), NEW t, t \in Bytes, Len(t) <= BufSize
  PROVE  \A d : d = [c EXCEPT !.rx = t] =>
            Sized(d) /\ SendsAlike(d, c) /\ d.rx = t /\ SameButRx(d, c)
BY DEF Sized, Conn, SendsAlike, SameButRx

\* What is left of the ring, and what the program has read, when it takes n bytes.
IsCut(t, s, n) == t \in Bytes /\ Len(t) = Len(s) - n /\ \A i \in 1 .. Len(t) : t[i] = s[n + i]
IsJoined(r, q, s, n) ==
    r \in Bytes /\ Len(r) = Len(q) + n /\ \A i \in 1 .. Len(r) : r[i] = IF i <= Len(q) THEN q[i] ELSE s[i - Len(q)]
Counting(q) == q \in Bytes /\ \A i \in 1 .. Len(q) : q[i] = i

\* The program takes n bytes from the ring.
LEMMA ReadCut ==
  ASSUME NEW p, NEW c, Sized(c), NEW q, Counting(q), NEW w \in Nat, Reading(p, c, Len(q), w),
         NEW n \in Nat, n <= Len(c.rx), NEW t, IsCut(t, c.rx, n), NEW r, IsJoined(r, q, c.rx, n)
  PROVE  \A d : d = [c EXCEPT !.rx = t] =>
            /\ Sized(d) /\ SendsAlike(d, c) /\ SameButRx(d, c)
            /\ Counting(r) /\ Len(q) <= Len(r) /\ Len(r) <= w
            /\ Count(d, Len(r)) = Count(c, Len(q)) /\ Arrived(d, Len(r)) = Arrived(c, Len(q)) /\ Reading(p, d, Len(r), w)
<1>0. SUFFICES ASSUME NEW d, d = [c EXCEPT !.rx = t]
      PROVE  /\ Sized(d) /\ SendsAlike(d, c) /\ SameButRx(d, c)
         /\ Counting(r) /\ Len(q) <= Len(r) /\ Len(r) <= w
         /\ Count(d, Len(r)) = Count(c, Len(q)) /\ Arrived(d, Len(r)) = Arrived(c, Len(q)) /\ Reading(p, d, Len(r), w)
  OBVIOUS
<1>1. c.rx \in Bytes /\ Len(c.rx) \in 0 .. BufSize
  BY Fields
<1>2. PICK x \in Nat, g \in Nat : x = Len(c.rx) /\ g = Len(q) /\ x <= BufSize
  <2>1. Len(q) \in Nat
    BY DEF Bytes, Counting
  <2>2. Len(c.rx) \in Nat /\ Len(c.rx) <= BufSize
    BY <1>1, Sizes
  <2>3. QED
    BY <2>1, <2>2
<1>3. PICK y \in Nat, z \in Nat : y + n = x /\ z = g + n /\ g <= z /\ y <= BufSize /\ z + y = g + x
  <2>1. n <= x
    BY <1>2
  <2>2. PICK y \in Nat : y + n = x /\ y <= x
    <3>1. x - n \in Nat /\ (x - n) + n = x /\ x - n <= x
      BY <2>1
    <3>2. QED
      BY <3>1
  <2>3. PICK z \in Nat : z = g + n /\ g <= z
    OBVIOUS
  <2>4. BufSize \in Nat /\ x <= BufSize
    BY <1>2, Sizes
  <2>5. y <= BufSize
    BY <2>2, <2>4
  <2>6. z + y = g + x
    BY <2>2, <2>3
  <2>7. QED
    BY <2>2, <2>3, <2>5, <2>6
<1>5. t \in Bytes /\ Len(t) = y /\ \A i \in 1 .. y : t[i] = c.rx[n + i]
  <2>1. n <= Len(c.rx) /\ x - n = y
    BY <1>2, <1>3
  <2>2. t \in Bytes /\ Len(t) = x - n /\ \A i \in 1 .. x - n : t[i] = c.rx[n + i]
    BY <1>2, <2>1 DEF IsCut
  <2>3. QED
    BY <2>1, <2>2
<1>6. Len(t) <= BufSize
  BY <1>3, <1>5
<1>8. /\ Sized(d) /\ SendsAlike(d, c) /\ SameButRx(d, c) /\ d.rx = t
  <2>1. t \in Bytes /\ Len(t) <= BufSize
    BY <1>5, <1>6
  <2>2. QED
    BY <1>0, <2>1, RxSet
<1>9. /\ r \in Bytes /\ Len(r) = z
      /\ \A i \in 1 .. z : r[i] = IF i <= g THEN q[i] ELSE c.rx[i - g]
  <2>1. /\ r \in Bytes /\ Len(r) = Len(q) + n
        /\ \A i \in 1 .. Len(q) + n : r[i] = IF i <= Len(q) THEN q[i] ELSE c.rx[i - Len(q)]
    BY DEF IsJoined
  <2>2. QED
    BY <1>2, <1>3, <2>1
<1>10. /\ g + x <= w /\ \A i \in 1 .. x : c.rx[i] = g + i
       /\ c.peerFin => g + x = w
  BY <1>2 DEF Reading, Count
<1>11. \A i \in 1 .. Len(r) : r[i] = i
  <2>1. SUFFICES ASSUME NEW i \in 1 .. z PROVE r[i] = i
    BY <1>9
  <2>2. CASE i <= g
    BY <1>2, <1>9, <2>2 DEF Counting
  <2>3. CASE ~(i <= g)
    <3>1. PICK j \in 1 .. x : j = i - g /\ g + j = i
      <4>0. i \in Nat /\ i <= g + n /\ ~(i <= g) /\ n <= x
        BY <1>2, <1>3, <2>3
      <4>1. PICK j \in Nat : j = i - g /\ g + j = i
        <5>1. i - g \in Nat /\ g + (i - g) = i
          BY <4>0
        <5>2. QED
          BY <5>1
      <4>2. 1 <= j /\ j <= x
        BY <4>0, <4>1
      <4>3. QED
        BY <4>1, <4>2
    <3>2. c.rx[j] = g + j
      BY <1>10
    <3>3. r[i] = c.rx[j]
      BY <1>9, <2>3, <3>1
    <3>4. QED
      BY <3>1, <3>2, <3>3
  <2>4. QED
    BY <2>2, <2>3
<1>12. Len(d.rx) = y /\ Len(r) = z
  BY <1>5, <1>8, <1>9
<1>13. Count(d, Len(r)) = g + x /\ Count(c, Len(q)) = g + x
  BY <1>2, <1>3, <1>12 DEF Count
<1>14. Arrived(d, Len(r)) = Arrived(c, Len(q))
  BY <1>8, <1>13 DEF Arrived, SameButRx
<1>15. \A i \in 1 .. Len(d.rx) : d.rx[i] = Len(r) + i
  <2>1. SUFFICES ASSUME NEW i \in 1 .. y PROVE t[i] = z + i
    BY <1>8, <1>12
  <2>2. PICK j \in 1 .. x : j = n + i /\ g + j = z + i
    <3>1. PICK j \in Nat : j = n + i
      OBVIOUS
    <3>0. i \in Nat /\ 1 <= i /\ i <= y /\ y + n = x
      BY <1>3
    <3>2. 1 <= j /\ j <= x
      BY <3>0, <3>1
    <3>3. g + j = z + i
      BY <1>3, <3>1
    <3>4. QED
      BY <3>1, <3>2, <3>3
  <2>3. c.rx[j] = g + j
    BY <1>10
  <2>4. t[i] = c.rx[j]
    BY <1>5, <2>2
  <2>5. QED
    BY <2>2, <2>3, <2>4
<1>16. Reading(p, d, Len(r), w)
  <2>1. d.state # "SYN_SENT" => d.rcvNxt = SeqNo(p, Arrived(d, Len(r)))
    BY <1>8, <1>14 DEF Reading, SameButRx
  <2>2. d.state = "SYN_SENT" => Arrived(d, Len(r)) = 0
    BY <1>8, <1>14 DEF Reading, SameButRx
  <2>3. Count(d, Len(r)) <= w /\ (d.peerFin => Count(d, Len(r)) = w)
    BY <1>8, <1>10, <1>13 DEF SameButRx
  <2>4. QED
    BY <1>15, <2>1, <2>2, <2>3 DEF Reading
<1>17. Len(q) <= Len(r) /\ Len(r) <= w
  <2>1. z <= w
    BY <1>3, <1>10
  <2>2. QED
    BY <1>2, <1>3, <1>12, <2>1
<1>18. QED
  BY <1>8, <1>9, <1>11, <1>13, <1>14, <1>16, <1>17 DEF Counting

\* An ACK says what its sender knows.
LEMMA AckSays ==
  ASSUME NEW h \in Host, spawned, Knows(h)', NEW c, Sized(c), c.rcvNxt = conn'[h].rcvNxt
  PROVE  Ack(h, c) \in Segments /\ Says(h, Ack(h, c))
<1>1. c.nxt \in Seq32 /\ {"ACK"} \in SUBSET Flags /\ <<>> \in Bytes
  BY Fields DEF Flags, Bytes
<1>2. PICK s : s = Segment(h, c, {"ACK"}, c.nxt, <<>>)
  OBVIOUS
<1>3. s \in Segments /\ s.to = Peer(h) /\ s.ack = c.rcvNxt /\ s.flags = {"ACK"} /\ s.data = <<>>
  BY <1>1, <1>2, SegmentFacts
<1>5. Says(h, s)
  BY <1>3 DEF Says, Data
<1>6. QED
  BY <1>2, <1>3, <1>5 DEF Ack

\* A step that sends nothing emits the empty set.
LEMMA StillEmits == ASSUME Types, net' = net PROVE Emit(net, {})
<1>1. net \union {} = net
  OBVIOUS
<1>2. QED
  BY <1>1 DEF Types, Emit

\* The program of a host reads bytes.
LEMMA ReadStep ==
  ASSUME TcpInv, NEW h \in Host, Recv(h)
  PROVE  TcpInv'
<1>1. /\ fd[h] \in {"open", "shut"} /\ conn[h] # NoConn /\ ~conn[h].reset
      /\ UNCHANGED <<fd, listener, queued, spawned, wrote, eof, refused, early, failed>>
  BY DEF Recv, socks
<1>20. PICK n \in 1 .. Len(conn[h].rx) : \E c :
        /\ c = [conn[h] EXCEPT !.rx = SubSeq(conn[h].rx, n + 1, Len(conn[h].rx))]
        /\ Set(h, c)
        /\ net' = net \/ (c.state \in {"ESTABLISHED", "FIN_WAIT_1", "FIN_WAIT_2"} /\ Emit(net, {Ack(h, c)}))
        /\ got' = [got EXCEPT ![h] = @ \o SubSeq(conn[h].rx, 1, n)]
  BY DEF Recv
<1>2. PICK c :
        /\ c = [conn[h] EXCEPT !.rx = SubSeq(conn[h].rx, n + 1, Len(conn[h].rx))]
        /\ Set(h, c)
        /\ net' = net \/ (c.state \in {"ESTABLISHED", "FIN_WAIT_1", "FIN_WAIT_2"} /\ Emit(net, {Ack(h, c)}))
        /\ got' = [got EXCEPT ![h] = @ \o SubSeq(conn[h].rx, 1, n)]
  BY <1>20
<1>3. Types /\ Stated(h) /\ Sized(conn[h]) /\ Receiving(h) /\ Live(h)
  BY <1>1, InvFacts DEF Live
<1>40. PICK r, t : r = got[h] \o SubSeq(conn[h].rx, 1, n) /\ t = SubSeq(conn[h].rx, n + 1, Len(conn[h].rx))
  OBVIOUS
<1>5. got[h] \in Bytes /\ Reading(Peer(h), conn[h], Len(got[h]), wrote[Peer(h)]) /\ (\A i \in 1 .. Len(got[h]) : got[h][i] = i)
      /\ wrote[Peer(h)] \in Nat
  BY <1>3, LiveFacts, Hosts DEF Receiving
<1>50. c = [conn[h] EXCEPT !.rx = t]
  BY <1>2, <1>40
<1>51. n \in Nat /\ n <= Len(conn[h].rx)
  <2>1. Len(conn[h].rx) \in Nat
    BY <1>3, Fields, Sizes
  <2>2. QED
    BY <2>1
<1>4. IsCut(t, conn[h].rx, n) /\ IsJoined(r, got[h], conn[h].rx, n)
  <2>1. conn[h].rx \in Bytes
    BY <1>3, Fields
  <2>2. t \in Bytes /\ Len(t) = Len(conn[h].rx) - n /\ \A i \in 1 .. Len(conn[h].rx) - n : t[i] = conn[h].rx[n + i]
    BY <1>40, <1>51, <2>1, Cut
  <2>3. /\ r \in Bytes /\ Len(r) = Len(got[h]) + n
        /\ \A i \in 1 .. Len(got[h]) + n : r[i] = IF i <= Len(got[h]) THEN got[h][i] ELSE conn[h].rx[i - Len(got[h])]
    <3>1. r = got[h] \o SubSeq(conn[h].rx, 1, n) /\ got[h] \in Bytes
      BY <1>40, <1>5
    <3>2. QED
      BY <1>51, <2>1, <3>1, Joined
  <2>4. QED
    BY <2>2, <2>3 DEF IsCut, IsJoined
<1>6. /\ Sized(c) /\ SendsAlike(c, conn[h]) /\ SameButRx(c, conn[h])
      /\ Counting(r) /\ Len(got[h]) <= Len(r) /\ Len(r) <= wrote[Peer(h)]
      /\ Count(c, Len(r)) = Count(conn[h], Len(got[h])) /\ Arrived(c, Len(r)) = Arrived(conn[h], Len(got[h]))
      /\ Reading(Peer(h), c, Len(r), wrote[Peer(h)])
  <2>1. PICK p, q, w, e : p = Peer(h) /\ q = got[h] /\ w = wrote[p] /\ e = conn[h]
    OBVIOUS
  <2>2. Sized(e) /\ Counting(q) /\ w \in Nat /\ Reading(p, e, Len(q), w)
    BY <1>3, <1>5, <2>1 DEF Counting
  <2>3. n \in Nat /\ n <= Len(e.rx) /\ IsCut(t, e.rx, n) /\ IsJoined(r, q, e.rx, n)
    BY <1>4, <1>51, <2>1
  <2>4. c = [e EXCEPT !.rx = t]
    BY <1>50, <2>1
  <2>5. c = [e EXCEPT !.rx = t] =>
        /\ Sized(c) /\ SendsAlike(c, e) /\ SameButRx(c, e)
        /\ Counting(r) /\ Len(q) <= Len(r) /\ Len(r) <= w
        /\ Count(c, Len(r)) = Count(e, Len(q)) /\ Arrived(c, Len(r)) = Arrived(e, Len(q)) /\ Reading(p, c, Len(r), w)
    BY <2>2, <2>3, ReadCut
  <2>7. /\ Sized(c) /\ SendsAlike(c, e) /\ SameButRx(c, e)
        /\ Counting(r) /\ Len(q) <= Len(r) /\ Len(r) <= w
        /\ Count(c, Len(r)) = Count(e, Len(q)) /\ Arrived(c, Len(r)) = Arrived(e, Len(q)) /\ Reading(p, c, Len(r), w)
    BY <2>4, <2>5
  <2>6. QED
    BY <2>1, <2>7
<1>61. /\ c.rcvNxt = conn[h].rcvNxt /\ c.state = conn[h].state /\ c.peerFin = conn[h].peerFin
       /\ c.reset = conn[h].reset /\ c.userClosed = conn[h].userClosed
  BY <1>6 DEF SameButRx
<1>62. r \in Bytes /\ \A i \in 1 .. Len(r) : r[i] = i
  BY <1>6 DEF Counting
<1>7. got' = [got EXCEPT ![h] = r]
  BY <1>2, <1>40
<1>8. PICK out : out \in {{}, {Ack(h, c)}} /\ Emit(net, out) /\ (out # {} => c.state \in {"ESTABLISHED", "FIN_WAIT_1", "FIN_WAIT_2"})
  BY <1>2, <1>3, StillEmits
<1>9. conn'[h] = c
  BY <1>2, <1>3, SetFacts
<1>10. Live(h)' /\ (Opened(h)' <=> Opened(h))
  BY <1>3, <1>6, <1>61, <1>62, <1>9, SizedIsLive DEF Live, Opened
<1>11. \A s \in out : s \in Segments /\ Says(h, s)
  <2>1. SUFFICES ASSUME out = {Ack(h, c)}, c.state \in {"ESTABLISHED", "FIN_WAIT_1", "FIN_WAIT_2"} PROVE Ack(h, c) \in Segments /\ Says(h, Ack(h, c))
    BY <1>8
  <2>2. Opened(h) /\ Knows(h)' 
    BY <1>3, <1>6, <1>61, <1>62, <1>9, <1>10, <2>1 DEF Opened, Knows, Handshake
  <2>3. QED
    BY <1>6, <1>61, <1>62, <1>9, <2>2, OpenedSpawned, AckSays
<1>12. /\ Types' /\ conn'[h] = c /\ conn'[Peer(h)] = conn[Peer(h)] /\ got'[h] = r
       /\ got'[Peer(h)] = got[Peer(h)]
       /\ \A s \in net' : s \in net \/ s \in out
  <2>1. out \subseteq Segments /\ IsFiniteSet(out) /\ net \subseteq net
    <3>1. IsFiniteSet({}) /\ IsFiniteSet({Ack(h, c)})
      BY FS_EmptySet, FS_Singleton
    <3>2. IsFiniteSet(out)
      BY <1>8, <3>1
    <3>3. QED
      BY <1>11, <3>2
  <2>2. listener' \in {"none", "listening", "closed"}
    BY <1>1, <1>3 DEF Types
  <2>3. fd' = fd /\ wrote' = wrote /\ eof' = eof /\ early' = early /\ failed' = failed
    BY <1>1
  <2>4. /\ Types' /\ conn'[h] = c /\ conn'[Peer(h)] = conn[Peer(h)] /\ (\A s \in net' : s \in net \/ s \in out)
        /\ Host \subseteq DOMAIN got /\ Peer(h) \in Host /\ Peer(h) # h
    BY <1>2, <1>3, <1>6, <1>61, <1>62, <1>7, <1>8, <2>1, <2>2, <2>3, SetTypes
  <2>5. QED
    BY <1>7, <2>4
<1>13. Frame(h)
  <2>1. wrote[h] \in Nat
    BY <1>3, LiveFacts
  <2>2. QED
    BY <1>1, <1>3, <1>6, <1>61, <1>62, <1>10, <1>12, <2>1 DEF Frame
<1>14. Sends(h)
  BY <1>1, <1>3, <1>6, <1>61, <1>62, <1>10, <1>12, SendsStill
<1>15. Reads(h)
  <2>1. Count(conn[h], Len(got[h])) \in Nat /\ Arrived(conn[h], Len(got[h])) \in Nat
    BY <1>3, ReaderFacts
  <2>2. Quiet(Peer(h)) /\ Knows(h)' => Arrived(c, Len(r)) = 0
    <3>1. Knows(h)' => Knows(h)
      BY <1>3, <1>6, <1>61, <1>62, <1>12 DEF Knows, Live
    <3>2. QED
      BY <1>6, <1>61, <1>62, <3>1, Hosts DEF Quiet
  <2>3. QED
    BY <1>6, <1>61, <1>62, <1>12, <2>1, <2>2 DEF Reads
<1>16. Stated(h)'
  BY <1>1, <1>3, <1>6, <1>61, <1>62, <1>12 DEF Stated, Shut, Closing, SendsAlike
<1>17. QED
  BY <1>11, <1>12, <1>13, <1>14, <1>15, <1>16, LiveTurn

\* snd_nxt is no part of what a connection reads.
LEMMA NextAlike ==
  ASSUME NEW c, NEW d, SameButNext(d, c)
  PROVE  ReadsAlike(d, c) /\ d.state = c.state /\ (d.state \in Handshake <=> c.state \in Handshake)
BY DEF SameButNext, ReadsAlike

\* A step that changes snd_nxt leaves what the state says true.
LEMMA StatedStill ==
  ASSUME NEW h \in Host, Stated(h), SameButNext(conn'[h], conn[h]), conn'[h].finSent => conn[h].finSent \/ conn[h].state \in Closing,
         fd'[h] = fd[h], fd'[Peer(h)] = fd[Peer(h)], refused' = refused
  PROVE  Stated(h)'
BY DEF Stated, Shut, SameButNext

\* tcp_poll, of a connection whose handshake is over: back to the first byte that is not acknowledged.
LEMMA UnaIsAByte ==
  ASSUME NEW h \in Host, NEW c, Sized(c), NEW w \in Nat, w + 2 < Modulus, Ring(c, w), Numbered(h, c, w)
  PROVE  c.una # SeqNo(h, -1)
<1>1. Freed(c, w) \in Nat /\ Freed(c, w) + Len(c.tx) = w /\ Len(c.tx) \in Nat
  BY RingFacts
<1>2. \E u \in Nat : u + 1 < Modulus /\ c.una = SeqNo(h, u)
  <2>1. PICK f \in Nat, l \in Nat : f = Freed(c, w) /\ f + l = w
    BY <1>1
  <2>2. f + 1 < Modulus /\ (w + 1) + 1 < Modulus /\ w + 1 \in Nat
    BY <2>1, Sizes
  <2>3. c.una = SeqNo(h, f) \/ c.una = SeqNo(h, w + 1)
    BY <2>1 DEF Numbered, Prompt, Flowing, Ending, Ended, Rewound, FinLost
  <2>4. QED
    BY <2>2, <2>3
<1>3. QED
  BY <1>2, NotTheSyn

\* The timer of a connection past its handshake fires.
LEMMA RewindOpened ==
  ASSUME TcpInv, NEW h \in Host, Opened(h), Rewind(h)
  PROVE  TcpInv'
<1>1. /\ conn[h] # NoConn /\ conn[h].nxt # conn[h].una
      /\ UNCHANGED <<fd, listener, queued, spawned, wrote, got, eof, refused>>
      /\ early' = [early EXCEPT ![h] = @ \/ conn[h].state \in Handshake]
  BY DEF Rewind, socks, streams
<1>2. PICK c, b : c = conn[h] /\ b = Rewinding(c)
  OBVIOUS
<1>29. PICK o : o = {}
  OBVIOUS
<1>30. DrainTx(h, b, net, o)
  BY <1>2, <1>29 DEF Rewind, Rewinding
<1>31. PICK n, r : Drains(h, b, net, o, n, r)
  BY <1>30, DrainSteps
<1>32. /\ n \in Nat /\ r = Drain(h, b, n) /\ Set(h, r.c) /\ Emit(net, r.out \union o)
       /\ failed' = [failed EXCEPT ![h] = r.failed]
  BY <1>31 DEF Drains
<1>3. Set(h, r.c) /\ Emit(net, r.out)
  <2>1. r.out \union o = r.out
    BY <1>29
  <2>2. QED
    BY <1>32, <2>1
<1>33. failed'[h] = r.failed /\ failed'[Peer(h)] = failed[Peer(h)]
  <2>1. Types
    BY InvFacts
  <2>2. QED
    BY <1>32, <2>1, FailedSet
<1>4. Types /\ Stated(h) /\ Sized(c) /\ Live(h) /\ Sending(h) /\ Agree(h) /\ Live(h)
  BY <1>1, <1>2, InvFacts DEF Live
<1>5. early' = early
  <2>1. early \in [Host -> BOOLEAN] /\ conn[h].state \notin Handshake
    BY <1>4 DEF Types, Opened
  <2>2. [early EXCEPT ![h] = early[h] \/ FALSE] = early
    <3>1. CASE early[h] = TRUE
      BY <2>1, <3>1
    <3>2. CASE early[h] = FALSE
      BY <2>1, <3>2
    <3>3. QED
      BY <2>1, <3>1, <3>2
  <2>3. QED
    BY <1>1, <2>1, <2>2
<1>6. PICK w \in Nat : w = wrote[h] /\ w + 2 < Modulus
  BY <1>4, LiveFacts
<1>7. Ring(c, w) /\ Numbered(h, c, w) /\ (~early[h] => Prompt(h, c, w))
  BY <1>2, <1>4, <1>6 DEF Sending
<1>8. Sized(b) /\ SameButNext(b, c) /\ b.nxt = c.una
  BY <1>2, <1>4, RewindSame
<1>9. Numbered(h, b, w) /\ (Prompt(h, c, w) => Prompt(h, b, w)) /\ (b.finSent => c.finSent)
  BY <1>1, <1>2, <1>4, <1>6, <1>7, RewindKeeps
<1>10. /\ b.state = c.state /\ b.finAcked = c.finAcked /\ Freed(b, w) = Freed(c, w) /\ Ring(b, w)
  BY <1>7, <1>8, SameFacts
<1>11. b.state \notin Handshake /\ (b.state \in Closing => Shut(h)')
  BY <1>1, <1>2, <1>4, <1>10 DEF Opened, Stated, Shut
<1>12. b.nxt # SeqNo(h, -1)
  BY <1>4, <1>6, <1>7, <1>8, UnaIsAByte
<1>13. Live(Peer(h)) => /\ Freed(b, w) <= Count(conn[Peer(h)], Len(got[Peer(h)]))
                        /\ b.finAcked /\ ~early'[h] => conn[Peer(h)].peerFin
  BY <1>2, <1>4, <1>5, <1>6, <1>10 DEF Agree
<1>14. conn'[h] = r.c
  BY <1>3, <1>4, SetFacts
<1>15. /\ Sends(h) /\ Live(h)' /\ Sized(r.c) /\ SameButNext(r.c, b) /\ r.failed \in BOOLEAN
       /\ IsFiniteSet(r.out) /\ r.out \subseteq Segments /\ (\A s \in r.out : Says(h, s))
       /\ r.c.finSent => b.finSent \/ b.state \in Closing
  <2>1. w = wrote'[h]
    BY <1>1, <1>6
  <2>2. ~early'[h] => Prompt(h, b, w)
    BY <1>5, <1>7, <1>9
  <2>3. QED
    BY <1>6, <1>8, <1>9, <1>10, <1>11, <1>12, <1>13, <1>14, <1>32, <1>33, <2>1, <2>2, DrainTurn
<1>16. /\ Types' /\ conn'[Peer(h)] = conn[Peer(h)] /\ \A s \in net' : s \in net \/ s \in r.out
  <2>1. listener' \in {"none", "listening", "closed"} /\ net \subseteq net
    BY <1>1, <1>4 DEF Types
  <2>2. fd' = fd /\ wrote' = wrote /\ got' = got /\ eof' = eof
    BY <1>1
  <2>3. QED
    BY <1>3, <1>4, <1>5, <1>15, <1>32, <2>1, <2>2, SetTypes
<1>17. SameButNext(r.c, c) /\ (r.c.finSent => c.finSent \/ c.state \in Closing)
  BY <1>8, <1>9, <1>10, <1>15 DEF SameButNext
<1>18. ReadsAlike(conn'[h], conn[h]) /\ conn'[h].state = conn[h].state
  BY <1>2, <1>14, <1>17, NextAlike
<1>19. Frame(h)
  BY <1>1, <1>4, <1>5, <1>6, <1>14, <1>15, <1>16, <1>18, <1>33 DEF Frame
<1>20. Reads(h)
  BY <1>1, <1>4, <1>18, ReadsStill
<1>21. Stated(h)'
  BY <1>1, <1>2, <1>4, <1>14, <1>17, StatedStill
<1>22. QED
  BY <1>15, <1>16, <1>19, <1>20, <1>21, LiveTurn

\* tcp_poll during the handshake: snd_nxt goes back to the SYN, ...
LEMMA RewindHandshake ==
  ASSUME TcpInv, NEW h \in Host, ~Opened(h), Rewind(h)
  PROVE  TcpInv'
<1>1. /\ conn[h] # NoConn
      /\ UNCHANGED <<fd, listener, queued, spawned, wrote, got, eof, refused>>
      /\ early' = [early EXCEPT ![h] = @ \/ conn[h].state \in Handshake]
  BY DEF Rewind, socks, streams
<1>2. PICK c : c = conn[h]
  OBVIOUS
<1>29. PICK o : o = {}
  OBVIOUS
<1>30. DrainTx(h, Rewinding(c), net, o)
  BY <1>2, <1>29 DEF Rewind, Rewinding
<1>31. PICK n, r : Drains(h, Rewinding(c), net, o, n, r)
  BY <1>30, DrainSteps
<1>32. /\ n \in Nat /\ r = Drain(h, Rewinding(c), n) /\ Set(h, r.c) /\ Emit(net, r.out \union o)
       /\ failed' = [failed EXCEPT ![h] = r.failed]
  BY <1>31 DEF Drains
<1>3. Set(h, r.c) /\ Emit(net, r.out)
  <2>1. r.out \union o = r.out
    BY <1>29
  <2>2. QED
    BY <1>32, <2>1
<1>4. Types /\ Stated(h) /\ Sized(c) /\ Live(h) /\ Sending(h) /\ Agree(h)
  BY <1>1, <1>2, InvFacts DEF Live
<1>5. c.state \in Handshake /\ c.state \notin Closing
  BY <1>2, <1>4 DEF Opened, Handshake, Closing
<1>6. early' = [early EXCEPT ![h] = TRUE] /\ early'[h]
  <2>1. early \in [Host -> BOOLEAN]
    BY <1>4 DEF Types
  <2>2. early' = [early EXCEPT ![h] = TRUE]
    BY <1>1, <1>2, <1>5
  <2>3. QED
    BY <2>1, <2>2
<1>7. PICK w \in Nat : w = wrote[h] /\ w + 2 < Modulus
  BY <1>4, LiveFacts
<1>8. Ring(c, w) /\ Greeting(h, c, w)
  BY <1>2, <1>4, <1>7 DEF Sending
<1>9. /\ Sized(r.c) /\ SameButNext(r.c, c) /\ Greeting(h, r.c, w) /\ r.out = {} /\ r.c.finSent = c.finSent
      /\ r.failed \in BOOLEAN
  BY <1>4, <1>5, <1>7, <1>8, <1>32, RewindGreets
<1>10. r.c.state = c.state /\ r.c.finAcked = c.finAcked /\ Freed(r.c, w) = Freed(c, w) /\ Ring(r.c, w)
  BY <1>8, <1>9, SameFacts
<1>11. /\ Types' /\ conn'[h] = r.c /\ conn'[Peer(h)] = conn[Peer(h)] /\ (\A s \in net' : s \in net)
       /\ early'[Peer(h)] = early[Peer(h)] /\ failed'[Peer(h)] = failed[Peer(h)]
  <2>1. listener' \in {"none", "listening", "closed"} /\ net \subseteq net /\ r.out \subseteq Segments /\ IsFiniteSet(r.out)
    BY <1>1, <1>4, <1>9, FS_EmptySet DEF Types
  <2>2. fd' = fd /\ wrote' = wrote /\ got' = got /\ eof' = eof
    BY <1>1
  <2>3. /\ Types' /\ conn'[h] = r.c /\ conn'[Peer(h)] = conn[Peer(h)] /\ (\A s \in net' : s \in net \/ s \in r.out)
        /\ Peer(h) \in Host /\ Peer(h) # h
    BY <1>3, <1>4, <1>6, <1>9, <1>32, <2>1, <2>2, SetTypes
  <2>5. failed'[Peer(h)] = failed[Peer(h)]
    BY <1>4, <1>32, FailedSet
  <2>4. QED
    BY <1>1, <1>4, <1>9, <2>3, <2>5 DEF Types
<1>12. Live(h)' /\ ~Opened(h)'
  BY <1>5, <1>9, <1>10, <1>11, SizedIsLive DEF Live, Opened
<1>13. SameButNext(conn'[h], conn[h]) /\ (conn'[h].finSent => conn[h].finSent)
  BY <1>2, <1>9, <1>11
<1>14. ReadsAlike(conn'[h], conn[h]) /\ conn'[h].state = conn[h].state
  BY <1>13, NextAlike
<1>15. Frame(h)
  BY <1>1, <1>4, <1>7, <1>9, <1>11, <1>12, <1>14 DEF Frame
<1>16. Sends(h)
  <2>1. Sending(h)'
    BY <1>1, <1>6, <1>7, <1>9, <1>10, <1>11, <1>12 DEF Sending
  <2>2. Live(Peer(h)) => Freed(c, w) <= Count(conn[Peer(h)], Len(got[Peer(h)]))
    BY <1>2, <1>4, <1>7 DEF Agree
  <2>3. QED
    BY <1>1, <1>6, <1>7, <1>10, <1>11, <2>1, <2>2 DEF Sends
<1>17. Reads(h)
  BY <1>1, <1>4, <1>14, ReadsStill
<1>18. Stated(h)'
  BY <1>1, <1>4, <1>11, <1>13, StatedStill
<1>19. QED
  BY <1>11, <1>15, <1>16, <1>17, <1>18, LiveTurn

\* ... and the SYN is sent again.
LEMMA SynSays ==
  ASSUME TcpInv, NEW h \in Host, Live(h), conn[h].state \in Handshake, conn' = conn,
         NEW s, s = Segment(h, conn[h], IF conn[h].state = "SYN_SENT" THEN {"SYN"} ELSE {"SYN", "ACK"}, Iss(h), <<>>)
  PROVE  s \in Segments /\ Says(h, s)
<1>1. PICK c, flags : c = conn[h] /\ flags = IF c.state = "SYN_SENT" THEN {"SYN"} ELSE {"SYN", "ACK"}
  OBVIOUS
<1>2. Sized(c) /\ Sockets
  BY <1>1, InvFacts
<1>3. flags \in SUBSET Flags /\ Iss(h) \in Seq32 /\ <<>> \in Bytes
  BY <1>1, Hosts DEF Flags, Bytes, Seq32
<1>4. s \in Segments /\ s.to = Peer(h) /\ s.ack = c.rcvNxt /\ s.flags = flags /\ s.seq = Iss(h) /\ s.data = <<>>
  <2>1. s = Segment(h, c, flags, Iss(h), <<>>)
    BY <1>1
  <2>2. QED
    BY <1>2, <1>3, <2>1, SegmentFacts
<1>5. s.seq = SeqNo(h, -1)
  BY <1>4, SeqNoFacts
<1>6. "ACK" \in s.flags => Knows(h)' /\ s.ack = conn'[h].rcvNxt
  BY <1>1, <1>4 DEF Knows, Live
<1>7. ~spawned => s.to = "server" /\ s.flags = {"SYN"}
  <2>1. SUFFICES ASSUME ~spawned PROVE s.to = "server" /\ s.flags = {"SYN"}
    OBVIOUS
  <2>2. h = "client"
    BY <1>2, <2>1, Hosts DEF Sockets
  <2>3. c.state = "SYN_SENT"
    BY <1>1, <1>2, <2>2 DEF Sockets, Handshake
  <2>4. QED
    BY <1>1, <1>4, <2>2, <2>3 DEF Peer
<1>8. "RST" \notin s.flags /\ "FIN" \notin s.flags
  BY <1>1, <1>4
<1>9. QED
  BY <1>4, <1>5, <1>6, <1>7, <1>8 DEF Says, Data

\* The timer of a connection in its handshake fires: the SYN is sent again, by tcp_timer or drain_tx_ring.
LEMMA ResendStep ==
  ASSUME TcpInv, NEW h \in Host, ResendSyn(h)
  PROVE  TcpInv'
<1>1. /\ conn[h] # NoConn /\ conn[h].state \in Handshake
      /\ UNCHANGED <<conn, fd, listener, queued, spawned, wrote, got, eof, refused, early, failed>>
  BY DEF ResendSyn, socks, streams
<1>2. PICK s : s = Segment(h, conn[h], IF conn[h].state = "SYN_SENT" THEN {"SYN"} ELSE {"SYN", "ACK"}, Iss(h), <<>>)
  OBVIOUS
<1>3. Emit(net, {s})
  BY <1>2 DEF ResendSyn
<1>4. Types /\ Stated(h) /\ Sized(conn[h]) /\ Live(h)
  BY <1>1, InvFacts DEF Live
<1>5. s \in Segments /\ Says(h, s)
  BY <1>1, <1>2, <1>4, SynSays
<1>6. Set(h, conn[h])
  BY <1>1, <1>4 DEF Types, Set
<1>7. Types' /\ \A x \in net' : x \in net \/ x = s
  <2>1. listener' \in {"none", "listening", "closed"} /\ net \subseteq net /\ {s} \subseteq Segments /\ IsFiniteSet({s})
    BY <1>1, <1>4, <1>5, FS_Singleton DEF Types
  <2>2. fd' = fd /\ wrote' = wrote /\ got' = got /\ eof' = eof /\ early' = early /\ failed' = failed
    BY <1>1
  <2>3. Types' /\ \A x \in net' : x \in net \/ x \in {s}
    BY <1>3, <1>4, <1>6, <2>1, <2>2, SetTypes
  <2>4. QED
    BY <2>3
<1>8. Live(h)' /\ (Opened(h)' <=> Opened(h))
  BY <1>1, <1>4 DEF Live, Opened
<1>9. Frame(h)
  <2>1. wrote[h] \in Nat
    BY <1>4, LiveFacts
  <2>2. QED
    BY <1>1, <1>4, <1>8, <2>1 DEF Frame
<1>10. Sends(h)
  BY <1>1, <1>4, <1>8, SendsStill DEF SendsAlike
<1>11. Reads(h)
  BY <1>1, <1>4, ReadsStill DEF ReadsAlike
<1>12. Stated(h)'
  BY <1>1, <1>4 DEF Stated, Shut
<1>13. QED
  BY <1>5, <1>7, <1>9, <1>10, <1>11, <1>12, LiveTurn

\* tcp_close: what it does to the connection before tcp_drain_tx.
ClosedBy(c, d, state) ==
    /\ Sized(d) /\ SendsAlike(d, c) /\ ReadsAlike(d, c) /\ d.state = state /\ d.reset = c.reset /\ d.finSent = c.finSent
    /\ d.userClosed

\* close and shutdown set user_closed and the state.
LEMMA UserClosedSet ==
  ASSUME NEW c, Sized(c), NEW state, state \in State
  PROVE  /\ \A d : d = [c EXCEPT !.userClosed = TRUE, !.state = state] => ClosedBy(c, d, state)
         /\ \A d : d = [c EXCEPT !.userClosed = TRUE] => ClosedBy(c, d, c.state)
BY DEF Sized, Conn, SendsAlike, ReadsAlike, ClosedBy

Closes(h) ==
    /\ fd[h] \in {"connecting", "open", "shut"} /\ \E f \in {"shut", "closed"} : fd' = [fd EXCEPT ![h] = f]
    /\ UNCHANGED <<listener, queued, spawned, wrote, got, eof, refused, early>>

\* What close and shutdown leave alone.
LEMMA ClosesFacts ==
  ASSUME Types, NEW h \in Host, Closes(h)
  PROVE  /\ fd'[h] \in {"shut", "closed"} /\ fd[h] \in {"connecting", "open", "shut"} /\ fd'[Peer(h)] = fd[Peer(h)]
         /\ \E f \in {"none", "connecting", "open", "shut", "closed"} : fd' = [fd EXCEPT ![h] = f]
         /\ listener' = listener /\ queued' = queued /\ spawned' = spawned /\ wrote' = wrote /\ got' = got /\ eof' = eof
         /\ refused' = refused /\ early' = early
         /\ listener' \in {"none", "listening", "closed"}
<1>1. PICK f \in {"shut", "closed"} : fd' = [fd EXCEPT ![h] = f]
  BY DEF Closes
<1>2. h \in DOMAIN fd /\ Peer(h) \in DOMAIN fd /\ Peer(h) # h
  BY Hosts DEF Types
<1>3. fd'[h] = f /\ fd'[Peer(h)] = fd[Peer(h)]
  BY <1>1, <1>2
<1>4. \E x \in {"none", "connecting", "open", "shut", "closed"} : fd' = [fd EXCEPT ![h] = x]
  BY <1>1
<1>5. listener' = listener /\ listener \in {"none", "listening", "closed"}
  BY DEF Types, Closes
<1>6. QED
  BY <1>3, <1>4, <1>5 DEF Closes

\* With nothing to send: the user has closed before, or the handshake goes on, or it all has been said.
LEMMA CloseQuietly ==
  ASSUME TcpInv, NEW h \in Host, Live(h), conn[h].state \notin {"CLOSED", "ESTABLISHED", "CLOSE_WAIT"}, CloseConn(h), Closes(h)
  PROVE  TcpInv'
<1>1. PICK c, d : c = conn[h] /\ d = [c EXCEPT !.userClosed = TRUE]
  OBVIOUS
<1>2. Types /\ Stated(h) /\ Sized(c) /\ conn[h] # NoConn
  BY <1>1, InvFacts DEF Live
<1>3. c.state \notin {"CLOSED", "ESTABLISHED", "CLOSE_WAIT"}
  BY <1>1
<1>40. Set(h, d) /\ net' = net /\ failed' = failed
  BY <1>1, <1>2, <1>3 DEF CloseConn
<1>4. Set(h, d) /\ Emit(net, {})
  BY <1>2, <1>40 DEF Emit, Types
<1>5. ClosedBy(c, d, c.state)
  BY <1>1, <1>2, UserClosedSet, Fields
<1>6. /\ fd'[h] \in {"shut", "closed"} /\ fd[h] \in {"connecting", "open", "shut"} /\ fd'[Peer(h)] = fd[Peer(h)]
      /\ \E f \in {"none", "connecting", "open", "shut", "closed"} : fd' = [fd EXCEPT ![h] = f]
      /\ listener' = listener /\ queued' = queued /\ spawned' = spawned /\ wrote' = wrote /\ got' = got /\ eof' = eof
      /\ refused' = refused /\ early' = early
      /\ listener' \in {"none", "listening", "closed"}
  BY <1>2, ClosesFacts
<1>7. Sized(d) /\ SendsAlike(d, c) /\ ReadsAlike(d, c) /\ d.state = c.state /\ d.reset = c.reset
  BY <1>5 DEF ClosedBy
<1>8. Types' /\ conn'[h] = d /\ conn'[Peer(h)] = conn[Peer(h)] /\ \A s \in net' : s \in net
  <2>1. {} \subseteq Segments /\ IsFiniteSet({}) /\ net \subseteq net
    BY FS_EmptySet
  <2>2. PICK out : out = {}
    OBVIOUS
  <2>3. Types' /\ conn'[h] = d /\ conn'[Peer(h)] = conn[Peer(h)] /\ \A s \in net' : s \in net \/ s \in out
    BY <1>2, <1>4, <1>6, <1>7, <1>40, <2>1, <2>2, SetTypes
  <2>4. QED
    BY <2>2, <2>3
<1>9. Live(h)' /\ (Opened(h)' <=> Opened(h)) /\ conn'[h].state = conn[h].state
  BY <1>1, <1>2, <1>7, <1>8, SizedIsLive DEF Live, Opened
<1>10. Frame(h)
  <2>1. wrote[h] \in Nat
    BY <1>2, LiveFacts
  <2>2. QED
    BY <1>1, <1>2, <1>6, <1>7, <1>8, <1>9, <1>40, <2>1 DEF Frame
<1>11. Sends(h)
  BY <1>1, <1>6, <1>7, <1>8, <1>9, <1>40, SendsStill
<1>12. Reads(h)
  BY <1>1, <1>6, <1>7, <1>8, <1>9, ReadsStill
<1>13. Stated(h)'
  <2>1. conn'[h].reset = conn[h].reset /\ conn'[h].peerFin = conn[h].peerFin /\ conn'[h].state = conn[h].state
    BY <1>1, <1>7, <1>8 DEF ReadsAlike
  <2>2. Shut(h)'
    BY <1>6 DEF Shut
  <2>3. conn[h].reset => FALSE
    BY <1>2 DEF Stated
  <2>4. conn[h].state \in {"TIME_WAIT", "LAST_ACK", "CLOSE_WAIT"} => conn[h].peerFin
    BY <1>2 DEF Stated
  <2>5. QED
    BY <2>1, <2>2, <2>3, <2>4 DEF Stated
<1>14. QED
  BY <1>8, <1>10, <1>11, <1>12, <1>13, LiveTurn

\* With a FIN to send.
LEMMA CloseSends ==
  ASSUME TcpInv, NEW h \in Host, Live(h), conn[h].state \in {"ESTABLISHED", "CLOSE_WAIT"}, CloseConn(h), Closes(h)
  PROVE  TcpInv'
<1>1. PICK c, next, b : /\ c = conn[h] /\ next = IF c.state = "ESTABLISHED" THEN "FIN_WAIT_1" ELSE "LAST_ACK"
                        /\ b = [c EXCEPT !.userClosed = TRUE, !.state = next]
  OBVIOUS
<1>2. Types /\ Stated(h) /\ Sized(c) /\ conn[h] # NoConn /\ Sending(h) /\ Agree(h)
  BY <1>1, InvFacts DEF Live
<1>3. c.state \in {"ESTABLISHED", "CLOSE_WAIT"} /\ next \in Closing /\ next \in State /\ next # c.state
  BY <1>1 DEF Closing, State
<1>29. PICK o : o = {}
  OBVIOUS
<1>30. DrainTx(h, b, net, o)
  <2>1. (CASE c.state = "ESTABLISHED" -> "FIN_WAIT_1" [] c.state = "CLOSE_WAIT" -> "LAST_ACK" [] OTHER -> c.state) = next
    BY <1>1, <1>3
  <2>2. QED
    BY <1>1, <1>2, <1>3, <1>29, <2>1 DEF CloseConn
<1>31. PICK k, r : Drains(h, b, net, o, k, r)
  BY <1>30, DrainSteps
<1>32. /\ k \in Nat /\ r = Drain(h, b, k) /\ Set(h, r.c) /\ Emit(net, r.out \union o)
       /\ failed' = [failed EXCEPT ![h] = r.failed]
  BY <1>31 DEF Drains
<1>33. failed'[h] = r.failed /\ failed'[Peer(h)] = failed[Peer(h)]
  <2>1. Types
    BY InvFacts
  <2>2. QED
    BY <1>32, <2>1, FailedSet
<1>4. Set(h, r.c) /\ Emit(net, r.out)
  <2>1. r.out \union o = r.out
    BY <1>29
  <2>2. QED
    BY <1>32, <2>1
<1>5. ClosedBy(c, b, next)
  BY <1>1, <1>2, <1>3, UserClosedSet
<1>6. /\ fd'[h] \in {"shut", "closed"} /\ fd[h] \in {"connecting", "open", "shut"} /\ fd'[Peer(h)] = fd[Peer(h)]
      /\ \E f \in {"none", "connecting", "open", "shut", "closed"} : fd' = [fd EXCEPT ![h] = f]
      /\ listener' = listener /\ queued' = queued /\ spawned' = spawned /\ wrote' = wrote /\ got' = got /\ eof' = eof
      /\ refused' = refused /\ early' = early
      /\ listener' \in {"none", "listening", "closed"}
  BY <1>2, ClosesFacts
<1>7. Sized(b) /\ SendsAlike(b, c) /\ ReadsAlike(b, c) /\ b.state = next /\ b.reset = c.reset
  BY <1>5 DEF ClosedBy
<1>8. Opened(h)
  BY <1>1, <1>3 DEF Opened, Handshake
<1>9. PICK w \in Nat : w = wrote[h] /\ w + 2 < Modulus
  BY <1>2, LiveFacts
<1>10. Ring(c, w) /\ Numbered(h, c, w) /\ (~early[h] => Prompt(h, c, w))
  BY <1>1, <1>2, <1>8, <1>9 DEF Sending
<1>11. Ring(b, w) /\ Numbered(h, b, w) /\ (~early[h] => Prompt(h, b, w)) /\ Freed(b, w) = Freed(c, w)
  BY <1>7, <1>10, ModesAlike
<1>12. b.nxt = c.nxt /\ b.finAcked = c.finAcked /\ b.finSent = c.finSent
  BY <1>7 DEF SendsAlike
<1>13. Live(Peer(h)) => /\ Freed(b, w) <= Count(conn[Peer(h)], Len(got[Peer(h)]))
                        /\ b.finAcked /\ ~early'[h] => conn[Peer(h)].peerFin
  BY <1>1, <1>2, <1>6, <1>9, <1>11, <1>12 DEF Agree
<1>14. conn'[h] = r.c
  BY <1>2, <1>4, SetFacts
<1>15. /\ Sends(h) /\ Live(h)' /\ Sized(r.c) /\ SameButNext(r.c, b) /\ r.failed \in BOOLEAN
       /\ IsFiniteSet(r.out) /\ r.out \subseteq Segments /\ (\A s \in r.out : Says(h, s))
  <2>1. w = wrote'[h] /\ (~early'[h] => Prompt(h, b, w))
    BY <1>6, <1>9, <1>11
  <2>2. Shut(h)' /\ b.state \notin Handshake
    BY <1>3, <1>6, <1>7 DEF Shut, Closing, Handshake
  <2>3. b.nxt = SeqNo(h, -1) => conn[h].nxt = SeqNo(h, -1)
    BY <1>1, <1>12
  <2>4. b.state \in Closing => Shut(h)'
    BY <2>2
  <2>5. w \in Nat /\ w + 2 < Modulus /\ Ring(b, w) /\ Numbered(h, b, w) /\ Sized(b) /\ r = Drain(h, b, k)
    BY <1>7, <1>9, <1>11, <1>32
  <2>6. QED
    BY <1>8, <1>13, <1>14, <1>32, <1>33, <2>1, <2>2, <2>3, <2>4, <2>5, DrainTurn
<1>16. Types' /\ conn'[Peer(h)] = conn[Peer(h)] /\ \A s \in net' : s \in net \/ s \in r.out
  <2>1. net \subseteq net
    OBVIOUS
  <2>2. QED
    BY <1>2, <1>4, <1>6, <1>15, <1>32, <2>1, SetTypes
<1>17. /\ r.c.state = next /\ r.c.reset = c.reset /\ r.c.peerFin = c.peerFin /\ ReadsAlike(r.c, c)
  BY <1>7, <1>15 DEF SameButNext, ReadsAlike
<1>18. Frame(h)
  BY <1>1, <1>3, <1>6, <1>8, <1>9, <1>14, <1>15, <1>16, <1>17, <1>33 DEF Frame, Closing, Handshake
<1>19. Reads(h)
  BY <1>1, <1>3, <1>6, <1>14, <1>17, ReadsStill DEF Closing
<1>20. Stated(h)'
  <2>1. Shut(h)'
    BY <1>6 DEF Shut
  <2>2. c.reset => FALSE
    BY <1>1, <1>2, <1>3 DEF Stated
  <2>3. r.c.state = "LAST_ACK" => c.peerFin
    BY <1>1, <1>2, <1>3, <1>17 DEF Stated
  <2>4. r.c.state \in {"FIN_WAIT_1", "LAST_ACK"}
    BY <1>1, <1>17
  <2>5. QED
    BY <1>14, <1>17, <2>1, <2>2, <2>3, <2>4 DEF Stated
<1>21. QED
  BY <1>15, <1>16, <1>18, <1>19, <1>20, LiveTurn

SameButTx(d, c) ==
    /\ d.state = c.state /\ d.una = c.una /\ d.nxt = c.nxt /\ d.finSent = c.finSent /\ d.finAcked = c.finAcked
    /\ d.reset = c.reset /\ d.userClosed = c.userClosed /\ ReadsAlike(d, c)

\* send appends to the transmit ring.
LEMMA TxSet ==
  ASSUME NEW c, Sized(c), NEW t, t \in Bytes, Len(t) <= BufSize
  PROVE  \A d : d = [c EXCEPT !.tx = t] => Sized(d) /\ SameButTx(d, c) /\ d.tx = t
BY DEF Sized, Conn, ReadsAlike, SameButTx

\* The bytes that tcp_send adds.
Added(t, s, w, n) ==
    t \in Bytes /\ Len(t) = Len(s) + n /\ \A i \in 1 .. Len(t) : t[i] = IF i <= Len(s) THEN s[i] ELSE w + (i - Len(s))

\* What send appends continues the stream.
LEMMA AddedIs ==
  ASSUME NEW s, s \in Bytes, NEW w \in Nat, NEW n \in Nat, NEW t, t = s \o [k \in 1 .. n |-> w + k]
  PROVE  Added(t, s, w, n)
<1>1. PICK a : a = [k \in 1 .. n |-> w + k]
  OBVIOUS
<1>2. a \in Seq(Nat \ {0}) /\ Len(a) = n /\ \A k \in 1 .. n : a[k] = w + k
  <2>1. \A k \in 1 .. n : w + k \in Nat \ {0}
    OBVIOUS
  <2>2. a \in [1 .. n -> Nat \ {0}]
    BY <1>1, <2>1
  <2>3. QED
    BY <1>1, <2>2
<1>3. t = s \o a
  BY <1>1
<1>4. s \in Seq(Nat \ {0})
  BY DEF Bytes
<1>5. s \o a \in Seq(Nat \ {0}) /\ Len(s \o a) = Len(s) + n
  <2>1. s \o a \in Seq(Nat \ {0}) /\ Len(s \o a) = Len(s) + Len(a)
    BY <1>2, <1>4, ConcatProperties
  <2>2. QED
    BY <1>2, <2>1
<1>6. \A i \in 1 .. Len(s) + n : (s \o a)[i] = IF i <= Len(s) THEN s[i] ELSE a[i - Len(s)]
  BY <1>2, <1>4
<1>7. \A i \in 1 .. Len(s) + n : (s \o a)[i] = IF i <= Len(s) THEN s[i] ELSE w + (i - Len(s))
  <2>1. SUFFICES ASSUME NEW i \in 1 .. Len(s) + n, ~(i <= Len(s)) PROVE a[i - Len(s)] = w + (i - Len(s))
    BY <1>6
  <2>2. PICK l \in Nat : l = Len(s)
    BY <1>4
  <2>3. i - l \in 1 .. n
    BY <2>1, <2>2
  <2>4. QED
    BY <1>2, <2>2, <2>3
<1>8. QED
  BY <1>3, <1>5, <1>7 DEF Added, Bytes

\* An index of the ring, counted from the other end.
LEMMA Shift == \A f, l, i, w \in Int : f + l = w => w + (i - l) = f + i
OBVIOUS

\* The numbers of a connection stay right when its program writes more.
LEMMA RingGrows ==
  ASSUME NEW h \in Host, NEW c, Sized(c), NEW w \in Nat, Ring(c, w), Numbered(h, c, w), ~c.finSent, NEW n \in Nat,
         NEW d, Sized(d), SameButTx(d, c), Added(d.tx, c.tx, w, n), NEW v \in Nat, v = w + n
  PROVE  /\ Ring(d, v) /\ Freed(d, v) = Freed(c, w) /\ Numbered(h, d, v) /\ (Prompt(h, c, w) => Prompt(h, d, v))
<1>1. PICK f \in Nat, l \in Nat : f = Freed(c, w) /\ l = Len(c.tx) /\ f + l = w
  BY RingFacts
<1>2. Len(d.tx) = l + n /\ \A i \in 1 .. l + n : d.tx[i] = IF i <= l THEN c.tx[i] ELSE w + (i - l)
  BY <1>1 DEF Added
<1>3. Freed(d, v) = f
  <2>0. v = w + n /\ f + l = w
    BY <1>1
  <2>1. v - (l + n) = f
    BY <2>0
  <2>2. QED
    BY <1>2, <2>1 DEF Freed
<1>4. Ring(d, v)
  <2>1. l + n <= v
    BY <1>1
  <2>2. \A i \in 1 .. l : c.tx[i] = f + i
    BY <1>1 DEF Ring
  <2>3. ASSUME NEW i \in 1 .. l + n PROVE d.tx[i] = f + i
    <3>1. CASE i <= l
      BY <1>2, <2>2, <3>1
    <3>2. CASE ~(i <= l)
      <4>0. i \in Int /\ f \in Int /\ l \in Int /\ w \in Int /\ f + l = w
        BY <1>1
      <4>1. w + (i - l) = f + i
        BY <4>0, Shift
      <4>2. QED
        BY <1>2, <3>2, <4>1
    <3>3. QED
      BY <3>1, <3>2
  <2>4. QED
    BY <1>2, <1>3, <2>1, <2>3 DEF Ring
<1>5. d.una = c.una /\ d.nxt = c.nxt /\ d.finSent = c.finSent /\ d.finAcked = c.finAcked
  BY DEF SameButTx
<1>6. Flowing(h, c, w) => Flowing(h, d, v)
  <2>1. SUFFICES ASSUME Flowing(h, c, w) PROVE Flowing(h, d, v)
    OBVIOUS
  <2>2. ~c.finSent /\ ~c.finAcked /\ c.una = SeqNo(h, f) /\ \E k \in f .. w : c.nxt = SeqNo(h, k)
    BY <1>1, <2>1 DEF Flowing
  <2>3. PICK k \in f .. w : c.nxt = SeqNo(h, k)
    BY <2>2
  <2>4. k \in f .. v
    OBVIOUS
  <2>5. QED
    BY <1>3, <1>5, <2>2, <2>3, <2>4 DEF Flowing
<1>7. Rewound(h, c, w) => Rewound(h, d, v)
  BY <1>1, <1>3, <1>5 DEF Rewound
<1>8. ~Ending(h, c, w) /\ ~Ended(h, c, w) /\ ~FinLost(h, c, w)
  BY DEF Ending, Ended, FinLost
<1>9. QED
  BY <1>1, <1>3, <1>4, <1>6, <1>7, <1>8 DEF Numbered, Prompt

\* The program of a host writes bytes.
LEMMA SendStep ==
  ASSUME TcpInv, NEW h \in Host, Send(h)
  PROVE  TcpInv'
<1>1. /\ fd[h] = "open" /\ conn[h] # NoConn /\ conn[h].state \in {"ESTABLISHED", "CLOSE_WAIT"}
      /\ UNCHANGED <<fd, listener, queued, spawned, got, eof, refused, early>> /\ WithinBounds
  BY DEF Send, socks
<1>2. Types /\ Stated(h) /\ Sized(conn[h]) /\ Live(h) /\ Sending(h) /\ Agree(h)
  BY <1>1, InvFacts DEF Live
<1>3. PICK n \in 1 .. BufSize - Len(conn[h].tx) :
         /\ DrainTx(h, [conn[h] EXCEPT !.tx = @ \o [j \in 1..n |-> wrote[h] + j]], net, {})
         /\ wrote' = [wrote EXCEPT ![h] = @ + n]
  BY DEF Send
<1>4. PICK c, w, t, b : /\ c = conn[h] /\ w = wrote[h] /\ t = c.tx \o [j \in 1..n |-> w + j]
                        /\ b = [c EXCEPT !.tx = t]
  OBVIOUS
<1>29. PICK o : o = {}
  OBVIOUS
<1>30. DrainTx(h, b, net, o)
  BY <1>3, <1>4, <1>29
<1>31. PICK k, r : Drains(h, b, net, o, k, r)
  BY <1>30, DrainSteps
<1>32. /\ k \in Nat /\ r = Drain(h, b, k) /\ Set(h, r.c) /\ Emit(net, r.out \union o)
       /\ failed' = [failed EXCEPT ![h] = r.failed]
  BY <1>31 DEF Drains
<1>33. failed'[h] = r.failed /\ failed'[Peer(h)] = failed[Peer(h)]
  <2>1. Types
    BY InvFacts
  <2>2. QED
    BY <1>32, <2>1, FailedSet
<1>5. Set(h, r.c) /\ Emit(net, r.out) /\ wrote' = [wrote EXCEPT ![h] = w + n]
  <2>1. r.out \union o = r.out
    BY <1>29
  <2>2. wrote' = [wrote EXCEPT ![h] = w + n]
    BY <1>3, <1>4
  <2>3. QED
    BY <1>32, <2>1, <2>2
<1>6. Sized(c) /\ w \in Nat /\ w + 2 < Modulus /\ c.tx \in Bytes
  BY <1>2, <1>4, LiveFacts, Fields
<1>7. n \in Nat /\ Len(c.tx) \in Nat /\ Len(c.tx) + n <= BufSize
  <2>1. Len(c.tx) \in Nat /\ BufSize \in Nat
    BY <1>6, Fields, Sizes
  <2>2. PICK l \in Nat : l = Len(c.tx)
    BY <2>1
  <2>3. n \in 1 .. BufSize - l
    BY <1>4, <2>2
  <2>4. n \in Nat /\ l + n <= BufSize
    BY <2>1, <2>3
  <2>5. QED
    BY <2>2, <2>4
<1>8. Added(t, c.tx, w, n)
  BY <1>4, <1>6, <1>7, AddedIs
<1>9. Sized(b) /\ SameButTx(b, c) /\ b.tx = t
  <2>1. t \in Bytes /\ Len(t) <= BufSize
    BY <1>7, <1>8 DEF Added
  <2>2. b = [c EXCEPT !.tx = t]
    BY <1>4
  <2>3. QED
    BY <1>6, <2>1, <2>2, TxSet, Zenon
<1>10. PICK v \in Nat : v = w + n /\ v = wrote'[h] /\ w <= v
  <2>1. w + n \in Nat /\ w <= w + n
    BY <1>6, <1>7
  <2>2. wrote'[h] = w + n
    BY <1>2, <1>5 DEF Types
  <2>3. QED
    BY <2>1, <2>2
<1>11. v + 2 < Modulus
  <2>1. PICK x \in Scenarios : wrote'[h] <= x.load[h]
    BY <1>1 DEF WithinBounds
  <2>2. x.load[h] + 2 < Modulus
    BY <2>1, StreamsFit
  <2>3. x.load[h] \in Nat
    BY <2>1, TcpAssumption DEF Host
  <2>4. Modulus \in Nat /\ v <= x.load[h]
    BY <1>10, <2>1, Sizes
  <2>5. QED
    BY <2>2, <2>3, <2>4
<1>12. ~Shut(h) /\ ~c.finSent /\ c.state \notin Closing /\ Opened(h)
  BY <1>1, <1>2, <1>4 DEF Shut, Stated, Closing, Handshake, Opened
<1>13. Ring(c, w) /\ Numbered(h, c, w) /\ (~early[h] => Prompt(h, c, w))
  BY <1>2, <1>4, <1>12 DEF Sending
<1>14. Ring(b, v) /\ Freed(b, v) = Freed(c, w) /\ Numbered(h, b, v) /\ (Prompt(h, c, w) => Prompt(h, b, v))
  BY <1>6, <1>7, <1>8, <1>9, <1>10, <1>12, <1>13, RingGrows
<1>15. b.nxt = c.nxt /\ b.finAcked = c.finAcked /\ b.state = c.state /\ b.finSent = c.finSent /\ ReadsAlike(b, c)
       /\ b.reset = c.reset /\ b.userClosed = c.userClosed
  BY <1>9 DEF SameButTx
<1>16. conn'[h] = r.c
  BY <1>2, <1>5, SetFacts
<1>17. /\ Sends(h) /\ Live(h)' /\ Sized(r.c) /\ SameButNext(r.c, b) /\ r.failed \in BOOLEAN
       /\ IsFiniteSet(r.out) /\ r.out \subseteq Segments /\ (\A s \in r.out : Says(h, s))
       /\ r.c.finSent => b.finSent \/ b.state \in Closing
  <2>1. ~early'[h] => Prompt(h, b, v)
    BY <1>1, <1>13, <1>14
  <2>2. b.state \notin Handshake /\ (b.state \in Closing => Shut(h)')
    BY <1>12, <1>15, <1>4 DEF Opened
  <2>3. b.nxt = SeqNo(h, -1) => conn[h].nxt = SeqNo(h, -1)
    BY <1>4, <1>15
  <2>4. Live(Peer(h)) => /\ Freed(b, v) <= Count(conn[Peer(h)], Len(got[Peer(h)]))
                         /\ b.finAcked /\ ~early'[h] => conn[Peer(h)].peerFin
    BY <1>1, <1>2, <1>4, <1>14, <1>15 DEF Agree
  <2>5. r = Drain(h, b, k) /\ v = wrote'[h] /\ Sized(b) /\ Ring(b, v) /\ Numbered(h, b, v)
    BY <1>9, <1>10, <1>14, <1>32
  <2>6. QED
    BY <1>11, <1>12, <1>16, <1>32, <1>33, <2>1, <2>2, <2>3, <2>4, <2>5, DrainTurn
<1>18. /\ Types' /\ conn'[Peer(h)] = conn[Peer(h)] /\ (\A s \in net' : s \in net \/ s \in r.out)
       /\ wrote'[Peer(h)] = wrote[Peer(h)]
  <2>1. listener' \in {"none", "listening", "closed"} /\ net \subseteq net
    BY <1>1, <1>2 DEF Types
  <2>2. fd' = fd /\ got' = got /\ eof' = eof /\ early' = early
    BY <1>1
  <2>3. wrote' = [wrote EXCEPT ![h] = v] /\ v + 2 < Modulus
    BY <1>5, <1>10, <1>11
  <2>4. \E x \in Nat : wrote' = [wrote EXCEPT ![h] = x] /\ x + 2 < Modulus
    BY <2>3
  <2>5. /\ Types' /\ conn'[Peer(h)] = conn[Peer(h)] /\ (\A s \in net' : s \in net \/ s \in r.out)
        /\ Host \subseteq DOMAIN wrote /\ Peer(h) \in Host /\ Peer(h) # h
    BY <1>2, <1>5, <1>17, <1>32, <2>1, <2>2, <2>4, SetTypes
  <2>6. QED
    BY <1>5, <2>5
<1>19. r.c.state = c.state /\ ReadsAlike(r.c, c) /\ (r.c.finSent => c.finSent \/ c.state \in Closing)
       /\ r.c.reset = c.reset /\ r.c.userClosed = c.userClosed /\ r.c.peerFin = c.peerFin
  BY <1>15, <1>17 DEF SameButNext, ReadsAlike
<1>20. Frame(h)
  BY <1>1, <1>2, <1>4, <1>6, <1>10, <1>12, <1>16, <1>17, <1>18, <1>19, <1>33 DEF Frame
<1>21. Reads(h)
  BY <1>1, <1>2, <1>4, <1>16, <1>19, ReadsStill
<1>22. Stated(h)'
  <2>1. ~r.c.finSent /\ r.c.state \in {"ESTABLISHED", "CLOSE_WAIT"}
    BY <1>1, <1>4, <1>12, <1>19
  <2>2. ~c.userClosed /\ ~c.reset /\ (c.state = "CLOSE_WAIT" => c.peerFin)
    BY <1>1, <1>2, <1>4, <1>12 DEF Stated
  <2>3. QED
    BY <1>16, <1>19, <2>1, <2>2 DEF Stated, Closing
<1>23. QED
  BY <1>17, <1>18, <1>20, <1>21, <1>22, LiveTurn

\* The end of the handshake: nothing has been sent but the SYN, and now it is acknowledged.
Greets(a, c, d) ==
    /\ d.state = "ESTABLISHED" /\ d.una = a /\ d.nxt = c.nxt /\ d.tx = c.tx /\ d.finSent = c.finSent /\ d.finAcked = c.finAcked
    /\ d.rx = c.rx /\ d.peerFin = c.peerFin /\ d.reset = c.reset /\ d.userClosed = c.userClosed

Greeted(h, c, d) == Greets(SeqNo(h, 0), c, d)

AnswersSyn(c, n, a, w) == [c EXCEPT !.rcvNxt = n, !.una = a, !.wnd = w, !.state = "ESTABLISHED"]
TakesAck(c, a, w) == [c EXCEPT !.una = a, !.state = "ESTABLISHED", !.wnd = w]

\* The SYN is acknowledged: the connection is ESTABLISHED.
LEMMA GreetSet ==
  ASSUME NEW c, Sized(c), NEW a, a \in Seq32, NEW w, w \in 0 .. BufSize, NEW n, n \in Seq32
  PROVE  /\ Sized(AnswersSyn(c, n, a, w)) /\ Greets(a, c, AnswersSyn(c, n, a, w)) /\ AnswersSyn(c, n, a, w).rcvNxt = n
         /\ Sized(TakesAck(c, a, w)) /\ Greets(a, c, TakesAck(c, a, w)) /\ TakesAck(c, a, w).rcvNxt = c.rcvNxt
<1>1. c \in Conn /\ "ESTABLISHED" \in State
  BY DEF Sized, State
<1>2. ASSUME NEW d, d = [c EXCEPT !.rcvNxt = n, !.una = a, !.wnd = w, !.state = "ESTABLISHED"] PROVE Sized(d) /\ Greets(a, c, d) /\ d.rcvNxt = n
  <2>1. d \in Conn
    BY <1>1, <1>2 DEF Conn
  <2>2. Greets(a, c, d) /\ d.rcvNxt = n
    BY <1>1, <1>2 DEF Conn, Greets
  <2>3. QED
    BY <2>1, <2>2 DEF Sized, Greets
<1>3. ASSUME NEW d, d = [c EXCEPT !.una = a, !.state = "ESTABLISHED", !.wnd = w] PROVE Sized(d) /\ Greets(a, c, d) /\ d.rcvNxt = c.rcvNxt
  <2>1. d \in Conn
    BY <1>1, <1>3 DEF Conn
  <2>2. Greets(a, c, d) /\ d.rcvNxt = c.rcvNxt
    BY <1>1, <1>3 DEF Conn, Greets
  <2>3. QED
    BY <2>1, <2>2 DEF Sized, Greets
<1>4. QED
  BY <1>2, <1>3, Zenon DEF AnswersSyn, TakesAck

\* The numbers of a connection are right when its handshake ends.
LEMMA GreetingEnds ==
  ASSUME NEW h \in Host, NEW c, Sized(c), NEW w \in Nat, Ring(c, w), Greeting(h, c, w), NEW d, Greeted(h, c, d)
  PROVE  /\ Ring(d, w) /\ Numbered(h, d, w) /\ Freed(d, w) = 0 /\ ~d.finAcked
         /\ c.nxt = SeqNo(h, 0) => Prompt(h, d, w) /\ Armed(d)
<1>1. w = 0 /\ ~c.finSent /\ ~c.finAcked /\ c.nxt \in {SeqNo(h, -1), SeqNo(h, 0)}
  BY DEF Greeting
<1>2. Freed(c, w) = 0 /\ c.tx = <<>>
  BY <1>1, RingFacts
<1>3. Freed(d, w) = 0 /\ Ring(d, w) /\ d.tx = <<>>
  BY <1>2 DEF Greeted, Greets, Freed, Ring
<1>4. ~d.finSent /\ ~d.finAcked /\ d.una = SeqNo(h, 0) /\ d.nxt = c.nxt /\ d.state = "ESTABLISHED"
  BY <1>1 DEF Greeted, Greets
<1>5. c.nxt = SeqNo(h, 0) => Flowing(h, d, w)
  BY <1>1, <1>3, <1>4 DEF Flowing
<1>6. c.nxt = SeqNo(h, -1) => Rewound(h, d, w)
  BY <1>1, <1>3, <1>4 DEF Rewound
<1>7. Armed(d)
  BY <1>3, <1>4 DEF Armed, Closing
<1>8. QED
  BY <1>1, <1>3, <1>4, <1>5, <1>6, <1>7 DEF Prompt, Numbered

\* A step that ends the handshake of a host keeps its sending side.
LEMMA GreetedSends ==
  ASSUME TcpInv, NEW h \in Host, Live(h), ~Opened(h), Greeted(h, conn[h], conn'[h]), Live(h)', wrote' = wrote, early' = early, failed' = failed
  PROVE  Sends(h) /\ Opened(h)' /\ (Stated(h) /\ fd' = fd /\ refused' = refused => Stated(h)')
<1>1. Types /\ Stated(h) /\ Sized(conn[h]) /\ Sending(h)
  BY InvFacts
<1>2. PICK c, d, w : c = conn[h] /\ d = conn'[h] /\ w = wrote[h]
  OBVIOUS
<1>21. w \in Nat
  BY <1>1, <1>2, LiveFacts
<1>3. Ring(c, w) /\ Greeting(h, c, w) /\ (~early[h] => c.nxt = SeqNo(h, 0))
  BY <1>1, <1>2 DEF Sending
<1>4. /\ Ring(d, w) /\ Numbered(h, d, w) /\ Freed(d, w) = 0 /\ ~d.finAcked
      /\ c.nxt = SeqNo(h, 0) => Prompt(h, d, w) /\ Armed(d)
  BY <1>1, <1>2, <1>21, <1>3, GreetingEnds
<1>5. Opened(h)'
  BY DEF Opened, Greeted, Greets, Handshake
<1>6. Sending(h)'
  BY <1>2, <1>3, <1>4, <1>5 DEF Sending
<1>7. Live(Peer(h)) => 0 <= Count(conn[Peer(h)], Len(got[Peer(h)]))
  <2>1. SUFFICES ASSUME Live(Peer(h)) PROVE 0 <= Count(conn[Peer(h)], Len(got[Peer(h)]))
    OBVIOUS
  <2>2. Peer(h) \in Host /\ Receiving(Peer(h))
    BY Hosts, InvFacts DEF Sides
  <2>3. Count(conn[Peer(h)], Len(got[Peer(h)])) \in Nat
    BY <1>1, <2>1, <2>2, ReaderFacts
  <2>4. QED
    BY <2>3
<1>8. Sends(h)
  BY <1>2, <1>4, <1>6, <1>7 DEF Sends
<1>9. ASSUME fd' = fd, refused' = refused PROVE Stated(h)'
  <2>1. d.state = "ESTABLISHED" /\ d.reset = c.reset /\ d.userClosed = c.userClosed /\ d.finSent = c.finSent
    BY <1>2 DEF Greeted, Greets
  <2>2. ~c.reset
    BY <1>1, <1>2 DEF Stated, Opened, Handshake
  <2>3. c.userClosed \/ c.finSent => Shut(h)
    BY <1>1, <1>2 DEF Stated
  <2>4. QED
    BY <1>2, <1>9, <2>1, <2>2, <2>3 DEF Stated, Closing, Shut
<1>10. QED
  BY <1>5, <1>8, <1>9

\* The window taken from the first acknowledgement is no larger than a ring.
LEMMA FirstWindowFits == ASSUME NEW s \in Segments PROVE FirstWindow(s) \in 0 .. BufSize
BY Sizes DEF FirstWindow, Segments

\* tcp_handle in SYN_SENT.
LEMMA SynSentStep ==
  ASSUME TcpInv, NEW h \in Host, Live(h), NEW s \in net, s.to = h, HandleSynSent(h, s)
  PROVE  TcpInv'
<1>1. /\ conn[h].state = "SYN_SENT" /\ s.flags = {"SYN", "ACK"} /\ s.ack = Plus(Iss(h), 1)
      /\ UNCHANGED <<fd, listener, queued, spawned, wrote, got, eof, refused, early, failed>>
  BY DEF HandleSynSent, socks, streams
<1>2. PICK p, n, a, c : /\ p = Peer(h) /\ n = Plus(s.seq, 1) /\ a = s.ack
                        /\ c = [conn[h] EXCEPT !.rcvNxt = n, !.una = a, !.wnd = FirstWindow(s), !.state = "ESTABLISHED"]
  OBVIOUS
<1>3. Set(h, c) /\ Emit(net \ {s}, {Ack(h, c)})
  BY <1>2 DEF HandleSynSent, Delivered
<1>4. Types /\ Sockets /\ Sized(conn[h]) /\ Stated(h) /\ Receiving(h) /\ Carries(s, p) /\ s \in Segments /\ p \in Host
  BY <1>2, Hosts, InvFacts
<1>5. a = SeqNo(h, 0) /\ n = SeqNo(p, 0) /\ a \in Seq32 /\ n \in Seq32
  <2>1. s.seq = SeqNo(p, -1)
    BY <1>1, <1>4 DEF Carries
  <2>2. Plus(SeqNo(p, -1), 1) = SeqNo(p, 0)
    BY <1>4, SeqNoFacts
  <2>3. a = SeqNo(h, 0)
    BY <1>1, <1>2, SeqNoFacts
  <2>4. SeqNo(h, 0) \in Seq32 /\ SeqNo(p, 0) \in Seq32
    BY <1>4, SeqNoFacts
  <2>5. QED
    BY <1>2, <2>1, <2>2, <2>3, <2>4
<1>6. Sized(c) /\ Greeted(h, conn[h], c) /\ c.rcvNxt = n
  <2>1. PICK w, e : w = FirstWindow(s) /\ e = conn[h]
    OBVIOUS
  <2>2. w \in 0 .. BufSize /\ Sized(e)
    BY <1>4, <2>1, FirstWindowFits
  <2>3. c = AnswersSyn(e, n, a, w)
    BY <1>2, <2>1 DEF AnswersSyn
  <2>4. Sized(c) /\ Greets(a, e, c) /\ c.rcvNxt = n
    BY <1>5, <2>2, <2>3, GreetSet
  <2>5. QED
    BY <1>5, <2>1, <2>4 DEF Greeted
<1>7. h = "client" /\ spawned /\ ~Opened(h)
  BY <1>1, <1>4, Hosts DEF Sockets, Opened, Handshake
<1>8. conn'[h] = c
  BY <1>3, <1>4, SetFacts
<1>9. Live(h)' /\ Knows(h)'
  BY <1>6, <1>8, SizedIsLive DEF Live, Knows, Greeted, Greets
<1>10. Ack(h, c) \in Segments /\ Says(h, Ack(h, c))
  BY <1>6, <1>7, <1>8, <1>9, AckSays
<1>11. Types' /\ conn'[Peer(h)] = conn[Peer(h)] /\ \A x \in net' : x \in net \/ x = Ack(h, c)
  <2>1. {Ack(h, c)} \subseteq Segments /\ IsFiniteSet({Ack(h, c)})
    BY <1>10, FS_Singleton
  <2>2. PICK base, out : base = net \ {s} /\ out = {Ack(h, c)}
    OBVIOUS
  <2>3. listener' \in {"none", "listening", "closed"} /\ base \subseteq net
    BY <1>1, <1>4, <2>2 DEF Types
  <2>4. fd' = fd /\ wrote' = wrote /\ got' = got /\ eof' = eof /\ early' = early /\ failed' = failed
    BY <1>1
  <2>5. Emit(base, out) /\ out \subseteq Segments /\ IsFiniteSet(out)
    BY <1>3, <2>1, <2>2
  <2>6. Types' /\ conn'[Peer(h)] = conn[Peer(h)] /\ \A x \in net' : x \in net \/ x \in out
    BY <1>3, <1>4, <1>6, <2>3, <2>4, <2>5, SetTypes
  <2>7. QED
    BY <2>2, <2>6
<1>12. Sends(h) /\ Opened(h)' /\ Stated(h)'
  BY <1>1, <1>4, <1>6, <1>7, <1>8, <1>9, GreetedSends
<1>13. Frame(h)
  <2>1. wrote[h] \in Nat
    BY <1>4, LiveFacts
  <2>2. conn'[h].state \notin Handshake
    BY <1>6, <1>8 DEF Greeted, Greets, Handshake
  <2>3. QED
    BY <1>1, <1>6, <1>7, <1>8, <1>9, <1>11, <2>1, <2>2 DEF Frame
<1>14. Reads(h)
  <2>1. Reading(p, conn[h], Len(got[h]), wrote[p]) /\ Len(got[h]) <= wrote[p] /\ \A i \in 1 .. Len(got[h]) : got[h][i] = i
    BY <1>2, <1>4 DEF Receiving
  <2>2. got[h] \in Bytes /\ Len(got[h]) \in Nat
    BY <1>4, LiveFacts
  <2>3. c.rx = conn[h].rx /\ c.peerFin = conn[h].peerFin /\ c.state = "ESTABLISHED"
    BY <1>6 DEF Greeted, Greets
  <2>4. Count(c, Len(got[h])) = Count(conn[h], Len(got[h])) /\ Arrived(c, Len(got[h])) = Arrived(conn[h], Len(got[h]))
    BY <2>3 DEF Count, Arrived
  <2>5. Arrived(conn[h], Len(got[h])) = 0 /\ Count(conn[h], Len(got[h])) \in Nat
    BY <1>1, <1>4, <2>1, ReaderFacts DEF Reading
  <2>6. Reading(p, c, Len(got[h]), wrote[p])
    BY <1>5, <1>6, <2>1, <2>3, <2>4, <2>5 DEF Reading
  <2>7. got'[h] = got[h]
    BY <1>1
  <2>8. QED
    BY <1>2, <1>8, <2>1, <2>2, <2>3, <2>4, <2>5, <2>6, <2>7 DEF Reads
<1>15. QED
  BY <1>10, <1>11, <1>12, <1>13, <1>14, LiveTurn

\* tcp_handle in SYN_RECEIVED, with somebody listening.
LEMMA QueueStep ==
  ASSUME TcpInv, NEW h \in Host, Live(h), NEW s \in net, s.to = h, HandleSynReceived(h, s), listener = "listening"
  PROVE  TcpInv'
<1>1. /\ conn[h].state = "SYN_RECEIVED" /\ "ACK" \in s.flags /\ s.ack = Plus(Iss(h), 1)
      /\ UNCHANGED <<fd, listener, spawned, wrote, got, eof, refused, early, failed>>
  BY DEF HandleSynReceived
<1>2. PICK p, a, c : /\ p = Peer(h) /\ a = s.ack
                     /\ c = [conn[h] EXCEPT !.una = a, !.state = "ESTABLISHED", !.wnd = FirstWindow(s)]
  OBVIOUS
<1>3. Set(h, c) /\ Emit(net \ {s}, {})
  BY <1>2 DEF HandleSynReceived, Delivered
<1>4. Types /\ Sockets /\ Sized(conn[h]) /\ Stated(h) /\ Carries(s, p) /\ s \in Segments /\ p \in Host
  BY <1>2, Hosts, InvFacts
<1>5. a = SeqNo(h, 0) /\ a \in Seq32
  BY <1>1, <1>2, SeqNoFacts
<1>6. Sized(c) /\ Greeted(h, conn[h], c) /\ c.rcvNxt = conn[h].rcvNxt
  <2>1. PICK w, e : w = FirstWindow(s) /\ e = conn[h]
    OBVIOUS
  <2>2. w \in 0 .. BufSize /\ Sized(e)
    BY <1>4, <2>1, FirstWindowFits
  <2>3. c = TakesAck(e, a, w)
    BY <1>2, <2>1 DEF TakesAck
  <2>4. Sized(c) /\ Greets(a, e, c) /\ c.rcvNxt = e.rcvNxt
    BY <1>5, <2>2, <2>3, GreetSet
  <2>5. QED
    BY <1>5, <2>1, <2>4 DEF Greeted
<1>7. h = "server" /\ p = "client" /\ ~Opened(h) /\ fd[h] = "none"
  BY <1>1, <1>2, <1>4, Hosts DEF Sockets, Opened, Handshake, Peer
<1>8. Live("client") => Opened("client")
  <2>1. Live("client") => Knows("client")
    BY <1>1, <1>4, <1>7 DEF Carries
  <2>2. Live("client") => conn["client"].state # "SYN_RECEIVED"
    BY <1>4 DEF Sockets
  <2>3. QED
    BY <2>1, <2>2 DEF Knows, Opened, Handshake
<1>9. Types' /\ conn'[h] = c /\ conn'[Peer(h)] = conn[Peer(h)] /\ \A x \in net' : x \in net
  <2>1. PICK base, out : base = net \ {s} /\ out = {}
    OBVIOUS
  <2>2. listener' \in {"none", "listening", "closed"} /\ base \subseteq net /\ out \subseteq Segments /\ IsFiniteSet(out) /\ Emit(base, out)
    BY <1>1, <1>3, <1>4, <2>1, FS_EmptySet DEF Types
  <2>3. fd' = fd /\ wrote' = wrote /\ got' = got /\ eof' = eof /\ early' = early /\ failed' = failed
    BY <1>1
  <2>4. Types' /\ conn'[h] = c /\ conn'[Peer(h)] = conn[Peer(h)] /\ \A x \in net' : x \in net \/ x \in out
    BY <1>3, <1>4, <1>6, <2>2, <2>3, SetTypes
  <2>5. QED
    BY <2>1, <2>4
<1>10. Live(h)'
  BY <1>6, <1>9, SizedIsLive DEF Live
<1>11. Sends(h) /\ Opened(h)' /\ Stated(h)'
  BY <1>1, <1>4, <1>6, <1>7, <1>9, <1>10, GreetedSends
<1>12. Frame(h)
  <2>1. wrote[h] \in Nat
    BY <1>4, LiveFacts
  <2>2. conn'[h].state \notin Handshake
    BY <1>6, <1>9 DEF Greeted, Greets, Handshake
  <2>3. QED
    BY <1>1, <1>6, <1>7, <1>8, <1>9, <1>10, <1>11, <2>1, <2>2 DEF Frame
<1>13. Reads(h)
  <2>1. ReadsAlike(conn'[h], conn[h]) /\ conn'[h].state = "ESTABLISHED"
    BY <1>6, <1>9 DEF ReadsAlike, Greeted, Greets
  <2>2. QED
    BY <1>1, <2>1, ReadsStill
<1>14. QED
  BY <1>9, <1>11, <1>12, <1>13, LiveTurn

\* tcp_handle of a connection whose handshake is over.  b is the connection with the window that the segment s advertises.
Updated(c, b) ==
    /\ Sized(b) /\ SendsAlike(b, c) /\ ReadsAlike(b, c) /\ b.state = c.state /\ b.reset = c.reset /\ b.userClosed = c.userClosed

\* apply_ack.
LEMMA ReceivesAck ==
  ASSUME TcpInv, NEW h \in Host, Opened(h), NEW s \in net, s.to = h, "ACK" \in s.flags, NEW b, Updated(conn[h], b),
         NEW a, a = Acked(b, s.ack), NEW w, w = wrote[h]
  PROVE  /\ Sized(a) /\ SameButAcked(a, b) /\ Ring(a, w) /\ Numbered(h, a, w) /\ (~early[h] => Prompt(h, a, w))
         /\ Live(Peer(h)) => /\ Freed(a, w) <= Count(conn[Peer(h)], Len(got[Peer(h)]))
                             /\ a.finAcked /\ ~early[h] => conn[Peer(h)].peerFin
<1>1. PICK p, c, q, g : p = Peer(h) /\ c = conn[h] /\ q = conn[p] /\ g = Len(got[p])
  OBVIOUS
<1>2. Live(h)
  BY DEF Opened
<1>3. /\ Types /\ Sending(h) /\ Silent(h) /\ Agree(h) /\ Sized(c) /\ Carries(s, p) /\ s \in Segments
      /\ p \in Host /\ Peer(p) = h /\ Receiving(p)
  BY <1>1, <1>2, InvFacts, Hosts DEF Sides
<1>4. w \in Nat /\ w + 2 < Modulus /\ g \in Nat
  BY <1>1, <1>3, LiveFacts
<1>5. Ring(c, w) /\ Numbered(h, c, w) /\ (~early[h] => Prompt(h, c, w))
  BY <1>1, <1>2, <1>3 DEF Sending
<1>6. Sized(b) /\ SendsAlike(b, c)
  BY <1>1 DEF Updated
<1>7. Ring(b, w) /\ Numbered(h, b, w) /\ (Prompt(h, c, w) <=> Prompt(h, b, w)) /\ Freed(b, w) = Freed(c, w)
  BY <1>5, <1>6, ModesAlike
<1>8. b.nxt = SeqNo(h, -1) => s.ack = SeqNo(h, 0)
  <2>1. SUFFICES ASSUME b.nxt = SeqNo(h, -1) PROVE s.ack = SeqNo(h, 0)
    OBVIOUS
  <2>2. Quiet(h)
    BY <1>1, <1>2, <1>3, <1>6, <2>1 DEF Silent, SendsAlike
  <2>3. QED
    BY <2>2 DEF Quiet
<1>9. s.ack \in Seq32
  BY <1>3 DEF Segments
<1>10. AckedKept(h, b, a, w, s.ack)
  BY <1>4, <1>6, <1>7, <1>8, <1>9, AckedKeeps
<1>11. Sized(a) /\ SameButAcked(a, b) /\ Ring(a, w) /\ Numbered(h, a, w) /\ (Prompt(h, b, w) => Prompt(h, a, w))
  BY <1>10 DEF AckedKept
<1>12. ASSUME Live(p) PROVE Freed(a, w) <= Count(q, g) /\ (a.finAcked /\ ~early[h] => q.peerFin)
  <2>1. Sized(q) /\ Reading(h, q, g, w)
    BY <1>1, <1>3, <1>12, LiveFacts, ReaderFacts
  <2>2. PICK k \in 0 .. Arrived(q, g) : s.ack = SeqNo(h, k)
    BY <1>1, <1>3, <1>12 DEF Carries
  <2>3. Freed(c, w) <= Count(q, g) /\ (c.finAcked /\ ~early[h] => q.peerFin)
    BY <1>1, <1>2, <1>3, <1>12 DEF Agree
  <2>4. Freed(b, w) <= Count(q, g)
    BY <1>7, <2>3
  <2>5. /\ Freed(a, w) <= Count(q, g)
        /\ Prompt(h, b, w) /\ a.finAcked => b.finAcked \/ q.peerFin
    BY <1>4, <1>10, <1>11, <2>1, <2>2, <2>4, AckedAgrees
  <2>6. b.finAcked = c.finAcked
    BY <1>6 DEF SendsAlike
  <2>7. QED
    BY <1>5, <1>7, <2>3, <2>5, <2>6
<1>13. QED
  BY <1>1, <1>5, <1>7, <1>11, <1>12

\* The data and the FIN.
LEMMA ReceivesData ==
  ASSUME TcpInv, NEW h \in Host, Opened(h), NEW s \in net, s.to = h, NEW a, Sized(a), ReadsAlike(a, conn[h]), a.state = conn[h].state,
         NEW t, t = TakeData(a, s), NEW e, e = TakeFin(t, s), NEW p, p = Peer(h), NEW g, g = Len(got[h]), NEW v, v = wrote[p]
  PROVE  /\ Sized(t) /\ SameButRead(t, a) /\ t.state = a.state /\ t.peerFin = a.peerFin
         /\ Sized(e) /\ SameButRead(e, t) /\ (t.peerFin => e.peerFin) /\ (e = t \/ (e.peerFin /\ FinMoves(t, e)))
         /\ Reading(p, e, g, v) /\ (e.peerFin => conn[h].peerFin \/ Shut(p))
         /\ Count(conn[h], g) <= Count(e, g) /\ Arrived(conn[h], g) <= Arrived(e, g)
         /\ Quiet(p) => Arrived(e, g) = 0
<1>1. PICK c : c = conn[h]
  OBVIOUS
<1>2. Live(h) /\ c.state \notin Handshake /\ Knows(h)
  BY <1>1 DEF Opened, Knows, Handshake
<1>3. Types /\ Receiving(h) /\ Carries(s, p) /\ s \in Segments /\ p \in Host /\ Peer(p) = h
  BY InvFacts, Hosts
<1>4. v \in Nat /\ v + 2 < Modulus /\ g \in Nat
  BY <1>3, LiveFacts
<1>5. Reading(p, c, g, v)
  BY <1>1, <1>2, <1>3 DEF Receiving
<1>6. a.state \notin Handshake /\ a.state # "SYN_SENT" /\ c.state # "SYN_SENT"
  BY <1>1, <1>2 DEF Handshake
<1>7. Reading(p, a, g, v) /\ Count(a, g) = Count(c, g) /\ Arrived(a, g) = Arrived(c, g)
  BY <1>1, <1>5, <1>6, ReadersAlike
<1>8. Data(s, p, v) /\ Finis(s, p, v) /\ ("FIN" \in s.flags => Shut(p))
  BY <1>3 DEF Carries, Data, Finis
<1>9. s.data \in Bytes /\ s.seq \in Seq32
  BY <1>3 DEF Segments
<1>10. /\ Sized(t) /\ SameButRead(t, a) /\ Reading(p, t, g, v) /\ t.peerFin = a.peerFin /\ t.state = a.state
       /\ Count(a, g) <= Count(t, g) /\ Arrived(a, g) <= Arrived(t, g)
  BY <1>3, <1>4, <1>6, <1>7, <1>8, <1>9, TakeDataKeeps
<1>11. t.state \notin Handshake
  BY <1>6, <1>10
<1>12. /\ Sized(e) /\ SameButRead(e, t) /\ Reading(p, e, g, v) /\ Count(e, g) = Count(t, g) /\ Arrived(t, g) <= Arrived(e, g)
       /\ t.peerFin => e.peerFin
       /\ e.peerFin => t.peerFin \/ "FIN" \in s.flags
       /\ e = t \/ (e.peerFin /\ FinMoves(t, e))
  BY <1>3, <1>4, <1>8, <1>9, <1>10, <1>11, TakeFinKeeps
<1>13. Arrived(c, g) \in Nat /\ Arrived(t, g) \in Nat /\ Arrived(e, g) \in Nat
  BY <1>3, <1>4, <1>7, <1>10, <1>12, ReadingFacts
<1>14. e.peerFin => conn[h].peerFin \/ Shut(p)
  BY <1>8, <1>10, <1>12 DEF ReadsAlike
<1>15. Quiet(p) => Arrived(e, g) = 0
  <2>1. SUFFICES ASSUME Quiet(p) PROVE Arrived(e, g) = 0
    OBVIOUS
  <2>2. s.data = <<>> /\ "FIN" \notin s.flags /\ Arrived(c, g) = 0
    BY <1>1, <1>2, <1>3, <2>1 DEF Quiet
  <2>3. e = t
    BY <2>2 DEF TakeFin
  <2>4. Len(t.rx) = Len(a.rx)
    <3>1. CASE s.seq = a.rcvNxt
      <4>1. PICK n \in 0 .. Len(s.data) : Took(a, s, n, t)
        BY <1>9, <3>1, TakeDataIs
      <4>2. n = 0
        BY <2>2
      <4>3. Len(t.rx) = Len(a.rx) + 0 /\ Len(a.rx) \in Nat
        BY <4>1, <4>2, Fields, Sizes DEF Took
      <4>4. QED
        BY <4>3
    <3>2. CASE s.seq # a.rcvNxt
      BY <3>2 DEF TakeData
    <3>3. QED
      BY <3>1, <3>2
  <2>5. Arrived(t, g) = Arrived(a, g)
    BY <1>10, <2>4 DEF Arrived, Count
  <2>6. QED
    BY <1>7, <2>2, <2>3, <2>5
<1>16. Count(conn[h], g) <= Count(e, g) /\ Arrived(conn[h], g) <= Arrived(e, g)
  <2>1. Count(c, g) <= Count(e, g)
    BY <1>7, <1>10, <1>12
  <2>2. PICK x \in Nat, y \in Nat, z \in Nat : x = Arrived(c, g) /\ y = Arrived(t, g) /\ z = Arrived(e, g)
    BY <1>13
  <2>3. x <= y /\ y <= z
    BY <1>7, <1>10, <1>12, <2>2
  <2>4. x <= z
    BY <2>3
  <2>5. QED
    BY <1>1, <2>1, <2>2, <2>4
<1>17. QED
  BY <1>10, <1>12, <1>14, <1>15, <1>16

\* A segment sets the send window.
LEMMA WindowSet ==
  ASSUME NEW c, Sized(c), NEW x, x \in 0 .. BufSize
  PROVE  \A b : b = [c EXCEPT !.wnd = x] => Updated(c, b)
BY DEF Sized, Conn, Updated, SendsAlike, ReadsAlike

\* The connection c after a segment: a is what apply_ack makes of it, e what the data and the FIN make of a, and f what is settled.
LEMMA StatesOfSegment ==
  ASSUME NEW c, c.state \notin Handshake, Sane(c), NEW b, Updated(c, b), NEW a, SameButAcked(a, b),
         NEW t, Sized(t), SameButRead(t, a), t.state = a.state, t.peerFin = a.peerFin,
         NEW e, Sized(e), SameButRead(e, t), t.peerFin => e.peerFin, e = t \/ (e.peerFin /\ FinMoves(t, e)),
         NEW f, f = Settle(e)
  PROVE  /\ StateKept(c, f) /\ Sized(f) /\ SendsAlike(f, a) /\ f.nxt = c.nxt /\ f.reset = c.reset
         /\ ReadsAlike(a, c) /\ a.state = c.state /\ ReadsAlike(f, e) /\ f.finSent = c.finSent
<1>1. /\ b.state = c.state /\ b.reset = c.reset /\ b.userClosed = c.userClosed /\ b.nxt = c.nxt /\ b.finSent = c.finSent
      /\ b.rcvNxt = c.rcvNxt /\ b.rx = c.rx /\ b.peerFin = c.peerFin
  BY DEF Updated, SendsAlike, ReadsAlike
<1>2. /\ a.state = c.state /\ a.reset = c.reset /\ a.userClosed = c.userClosed /\ a.nxt = c.nxt /\ a.finSent = c.finSent
      /\ a.rcvNxt = c.rcvNxt /\ a.rx = c.rx /\ a.peerFin = c.peerFin
  BY <1>1 DEF SameButAcked
<1>3. /\ t.state = c.state /\ t.reset = c.reset /\ t.userClosed = c.userClosed /\ t.finSent = c.finSent /\ t.peerFin = c.peerFin
      /\ SendsAlike(t, a)
  BY <1>2 DEF SameButRead, SendsAlike
<1>4. SendsAlike(e, a) /\ e.reset = c.reset
  BY <1>3 DEF SameButRead, SendsAlike
<1>5. Sized(f) /\ SameButState(f, e)
  BY SettleIs
<1>6. SendsAlike(f, a) /\ f.reset = c.reset /\ ReadsAlike(f, e)
  BY <1>4, <1>5 DEF SameButState, SendsAlike, ReadsAlike
<1>7. StateKept(c, f)
  BY <1>3, StateSteps
<1>8. f.nxt = c.nxt /\ f.finSent = c.finSent
  BY <1>2, <1>6 DEF SendsAlike
<1>9. QED
  BY <1>2, <1>5, <1>6, <1>7, <1>8 DEF ReadsAlike

\* What the state says of the socket, after the step.
LEMMA StatedAfter ==
  ASSUME NEW h \in Host, Stated(h), NEW f, StateKept(conn[h], f), f.reset = conn[h].reset, SameButNext(conn'[h], f),
         conn'[h].finSent => f.finSent \/ f.state \in Closing, fd'[h] = fd[h], refused' = refused
  PROVE  Stated(h)'
<1>1. PICK c, d : c = conn[h] /\ d = conn'[h]
  OBVIOUS
<1>2. /\ d.state = f.state /\ d.reset = c.reset /\ d.peerFin = f.peerFin /\ d.userClosed = f.userClosed
  BY <1>1 DEF SameButNext
<1>3. Shut(h)' <=> Shut(h)
  BY DEF Shut
<1>4. Winding(d) => Winding(f)
  BY <1>1, <1>2 DEF Winding
<1>5. Winding(c) => Shut(h)
  BY <1>1 DEF Stated, Winding
<1>6. Winding(f) => Winding(c)
  BY <1>1 DEF StateKept
<1>7. Winding(d) => Shut(h)'
  BY <1>3, <1>4, <1>5, <1>6
<1>8. d.reset => refused' /\ d.state = "CLOSED"
  BY <1>1, <1>2 DEF Stated, StateKept
<1>9. d.state = "CLOSED" => d.reset \/ (Shut(h)' /\ d.peerFin)
  <2>1. f.state = "CLOSED" => c.state = "CLOSED" \/ (Winding(c) /\ f.peerFin)
    BY <1>1 DEF StateKept
  <2>2. c.state = "CLOSED" => c.reset \/ (Shut(h) /\ f.peerFin)
    BY <1>1 DEF Stated, StateKept
  <2>3. QED
    BY <1>2, <1>3, <1>5, <2>1, <2>2
<1>10. d.state \in {"TIME_WAIT", "LAST_ACK", "CLOSE_WAIT"} => d.peerFin
  BY <1>1, <1>2 DEF StateKept, Sane
<1>11. QED
  BY <1>1, <1>7, <1>8, <1>9, <1>10 DEF Stated, Winding

\* What tcp_handle sends: what tcp_drain_tx sends, and an ACK of what arrived.
Answer(r, s, h, e) == r.out \union (IF s.data # <<>> \/ "FIN" \in s.flags THEN {Ack(h, e)} ELSE {})

\* A host handles a segment that is no RST and no SYN of a handshake.
LEMMA SegmentStep ==
  ASSUME TcpInv, NEW h \in Host, Live(h), NEW s \in net, s.to = h, HandleSegment(h, s)
  PROVE  TcpInv'
<1>1. /\ conn[h].state \notin Handshake /\ "ACK" \in s.flags
      /\ UNCHANGED <<fd, listener, queued, spawned, wrote, got, eof, refused, early>>
  BY DEF HandleSegment, socks, streams
<1>2. PICK x : x = IF s.wnd = 0 THEN 1 ELSE s.wnd
  OBVIOUS
<1>3. PICK b : b = [conn[h] EXCEPT !.wnd = x]
  OBVIOUS
<1>4. PICK a : a = Acked(b, s.ack)
  OBVIOUS
<1>5. PICK t : t = TakeData(a, s)
  OBVIOUS
<1>6. PICK e : e = TakeFin(t, s)
  OBVIOUS
<1>7. PICK f : f = Settle(e)
  OBVIOUS
<1>8. PICK o : o = IF s.data # <<>> \/ "FIN" \in s.flags THEN {Ack(h, e)} ELSE {}
  OBVIOUS
<1>30. DrainTx(h, f, net \ {s}, o)
  BY <1>2, <1>3, <1>4, <1>5, <1>6, <1>7, <1>8 DEF HandleSegment
<1>31. PICK k, r : Drains(h, f, net \ {s}, o, k, r)
  BY <1>30, DrainSteps
<1>32. /\ k \in Nat /\ r = Drain(h, f, k) /\ Set(h, r.c) /\ Emit(net \ {s}, r.out \union o)
       /\ failed' = [failed EXCEPT ![h] = r.failed]
  BY <1>31 DEF Drains
<1>33. failed'[h] = r.failed /\ failed'[Peer(h)] = failed[Peer(h)]
  <2>1. Types
    BY InvFacts
  <2>2. QED
    BY <1>32, <2>1, FailedSet
<1>9. Set(h, r.c) /\ Emit(net \ {s}, Answer(r, s, h, e))
  <2>1. Answer(r, s, h, e) = r.out \union o
    BY <1>8 DEF Answer
  <2>2. QED
    BY <1>32, <2>1
<1>10. PICK c, p, g, w, v : c = conn[h] /\ p = Peer(h) /\ g = Len(got[h]) /\ w = wrote[h] /\ v = wrote[p]
  OBVIOUS
<1>11. Types /\ Stated(h) /\ Sized(c) /\ s \in Segments /\ Receiving(h) /\ Opened(h)
  BY <1>1, <1>10, InvFacts DEF Opened
<1>12. w \in Nat /\ w + 2 < Modulus /\ g \in Nat /\ got[h] \in Bytes
  BY <1>10, <1>11, LiveFacts
<1>13. Updated(c, b)
  <2>1. x \in 0 .. BufSize
    BY <1>2, <1>11, Sizes DEF Segments
  <2>2. b = [c EXCEPT !.wnd = x]
    BY <1>3, <1>10
  <2>3. QED
    BY <1>11, <2>1, <2>2, WindowSet
<1>14. /\ Sized(a) /\ SameButAcked(a, b) /\ Ring(a, w) /\ Numbered(h, a, w) /\ (~early[h] => Prompt(h, a, w))
       /\ Live(p) => /\ Freed(a, w) <= Count(conn[p], Len(got[p]))
                     /\ a.finAcked /\ ~early[h] => conn[p].peerFin
  <2>1. Updated(conn[h], b)
    BY <1>10, <1>13
  <2>2. QED
    BY <1>1, <1>4, <1>10, <1>11, <2>1, ReceivesAck
<1>15. ReadsAlike(a, c) /\ a.state = c.state
  BY <1>13, <1>14 DEF Updated, SameButAcked, ReadsAlike
<1>16. /\ Sized(t) /\ SameButRead(t, a) /\ t.state = a.state /\ t.peerFin = a.peerFin
       /\ Sized(e) /\ SameButRead(e, t) /\ (t.peerFin => e.peerFin) /\ (e = t \/ (e.peerFin /\ FinMoves(t, e)))
       /\ Reading(p, e, g, v) /\ (e.peerFin => conn[h].peerFin \/ Shut(p))
       /\ Count(conn[h], g) <= Count(e, g) /\ Arrived(conn[h], g) <= Arrived(e, g)
       /\ Quiet(p) => Arrived(e, g) = 0
  <2>1. ReadsAlike(a, conn[h]) /\ a.state = conn[h].state
    BY <1>10, <1>15
  <2>2. QED
    BY <1>5, <1>6, <1>10, <1>11, <1>14, <2>1, ReceivesData
<1>17. /\ StateKept(c, f) /\ Sized(f) /\ SendsAlike(f, a) /\ f.nxt = c.nxt /\ f.reset = c.reset
       /\ ReadsAlike(f, e) /\ f.finSent = c.finSent
  <2>1. Sane(c) /\ c.state \notin Handshake
    BY <1>1, <1>10, <1>11 DEF Sane, Stated
  <2>2. QED
    BY <1>7, <1>13, <1>14, <1>16, <2>1, StatesOfSegment
<1>18. /\ Ring(f, w) /\ Numbered(h, f, w) /\ (~early[h] => Prompt(h, f, w)) /\ Freed(f, w) = Freed(a, w)
       /\ f.finAcked = a.finAcked
  <2>1. SendsAlike(f, a)
    BY <1>17
  <2>2. f.finAcked = a.finAcked
    BY <1>17 DEF SendsAlike
  <2>3. QED
    BY <1>14, <2>1, <2>2, ModesAlike
<1>19. f.state \notin Handshake /\ (f.state \in Closing => Shut(h))
  <2>1. Winding(c) => Shut(h)
    BY <1>10, <1>11 DEF Winding, Stated
  <2>2. Winding(f) => Winding(c)
    BY <1>17 DEF StateKept
  <2>3. f.state \notin Handshake
    BY <1>17 DEF StateKept
  <2>4. f.state \in Closing => Winding(f)
    BY DEF Winding
  <2>5. QED
    BY <2>1, <2>2, <2>3, <2>4
<1>20. conn'[h] = r.c
  BY <1>9, <1>11, SetFacts
<1>21. wrote' = wrote /\ got' = got /\ early' = early /\ fd' = fd
  BY <1>1
<1>22. /\ Sends(h) /\ Live(h)' /\ Sized(r.c) /\ SameButNext(r.c, f) /\ r.failed \in BOOLEAN
       /\ IsFiniteSet(r.out) /\ r.out \subseteq Segments /\ (\A y \in r.out : Says(h, y))
       /\ r.c.finSent => f.finSent \/ f.state \in Closing
  <2>1. w = wrote'[h] /\ (~early'[h] => Prompt(h, f, w)) /\ (Shut(h) => Shut(h)')
    BY <1>10, <1>18, <1>21 DEF Shut
  <2>2. Live(Peer(h)) => /\ Freed(f, w) <= Count(conn[Peer(h)], Len(got[Peer(h)]))
                         /\ f.finAcked /\ ~early'[h] => conn[Peer(h)].peerFin
    BY <1>10, <1>14, <1>18, <1>21
  <2>3. f.nxt = SeqNo(h, -1) => conn[h].nxt = SeqNo(h, -1)
    BY <1>10, <1>17
  <2>4. f.state \in Closing => Shut(h)'
    BY <1>19, <2>1
  <2>5. w \in Nat /\ w + 2 < Modulus /\ Opened(h) /\ Sized(f) /\ Ring(f, w) /\ Numbered(h, f, w) /\ f.state \notin Handshake
    BY <1>11, <1>12, <1>17, <1>18, <1>19
  <2>6. QED
    BY <1>20, <1>32, <1>33, <2>1, <2>2, <2>3, <2>4, <2>5, DrainTurn
<1>23. /\ ReadsAlike(r.c, e) /\ r.c.state = f.state
  BY <1>17, <1>22 DEF SameButNext, ReadsAlike
<1>24. Opened(h)' /\ Knows(h)' /\ conn'[h].state \notin Handshake
  BY <1>19, <1>20, <1>22, <1>23 DEF Opened, Knows, Live, Handshake
<1>25. Ack(h, e) \in Segments /\ Says(h, Ack(h, e))
  <2>1. spawned /\ e.rcvNxt = conn'[h].rcvNxt /\ Sized(e)
    BY <1>11, <1>16, <1>20, <1>23, OpenedSpawned DEF ReadsAlike
  <2>2. QED
    BY <1>24, <2>1, AckSays
<1>26. /\ Answer(r, s, h, e) \subseteq Segments /\ IsFiniteSet(Answer(r, s, h, e))
       /\ \A y \in Answer(r, s, h, e) : Says(h, y)
  <2>1. CASE s.data # <<>> \/ "FIN" \in s.flags
    <3>1. Answer(r, s, h, e) = r.out \union {Ack(h, e)}
      BY <2>1 DEF Answer
    <3>2. IsFiniteSet(r.out \union {Ack(h, e)})
      BY <1>22, FS_Singleton, FS_Union
    <3>3. QED
      BY <1>22, <1>25, <3>1, <3>2
  <2>2. CASE ~(s.data # <<>> \/ "FIN" \in s.flags)
    <3>1. Answer(r, s, h, e) = r.out
      BY <2>2 DEF Answer
    <3>2. QED
      BY <1>22, <3>1
  <2>3. QED
    BY <2>1, <2>2
<1>27. Types' /\ conn'[Peer(h)] = conn[Peer(h)] /\ \A y \in net' : y \in net \/ Says(h, y)
  <2>1. PICK base, out : base = net \ {s} /\ out = Answer(r, s, h, e)
    OBVIOUS
  <2>2. listener' \in {"none", "listening", "closed"} /\ base \subseteq net /\ Emit(base, out)
    BY <1>1, <1>9, <1>11, <2>1 DEF Types
  <2>3. fd' = fd /\ wrote' = wrote /\ got' = got /\ eof' = eof /\ early' = early /\ Set(h, r.c) /\ Sized(r.c)
    BY <1>1, <1>9, <1>22
  <2>4. out \subseteq Segments /\ IsFiniteSet(out) /\ \A y \in out : Says(h, y)
    BY <1>26, <2>1
  <2>5. Types' /\ conn'[h] = r.c /\ conn'[Peer(h)] = conn[Peer(h)] /\ \A y \in net' : y \in net \/ y \in out
    BY <1>11, <1>22, <1>32, <2>2, <2>3, <2>4, SetTypes
  <2>6. QED
    BY <2>4, <2>5
<1>28. Frame(h)
  <2>1. wrote[h] \in Nat
    BY <1>10, <1>12
  <2>2. QED
    BY <1>1, <1>11, <1>20, <1>22, <1>24, <1>27, <1>33, <2>1 DEF Frame
<1>29. Stated(h)'
  <2>1. StateKept(conn[h], f) /\ f.reset = conn[h].reset /\ SameButNext(conn'[h], f) /\ (conn'[h].finSent => f.finSent \/ f.state \in Closing)
    BY <1>10, <1>17, <1>20, <1>22
  <2>2. fd'[h] = fd[h] /\ refused' = refused
    BY <1>1
  <2>3. QED
    BY <1>11, <2>1, <2>2, StatedAfter
<1>40. Reads(h)
  <2>1. Count(r.c, g) = Count(e, g) /\ Arrived(r.c, g) = Arrived(e, g) /\ r.c.peerFin = e.peerFin
    BY <1>23, ReadersAlike DEF ReadsAlike
  <2>2. Reading(p, r.c, g, v)
    <3>1. e.state # "SYN_SENT" /\ r.c.state # "SYN_SENT"
      <4>1. f.state # "SYN_SENT" /\ SameButState(f, e)
        BY <1>7, <1>16, <1>19, SettleIs DEF Handshake
      <4>2. e.state = "SYN_SENT" => f.state = "SYN_SENT"
        BY <1>7, <1>16, SettleIs
      <4>3. QED
        BY <1>23, <4>1, <4>2
    <3>2. QED
      BY <1>16, <1>23, <3>1, ReadersAlike
  <2>3. Len(got[h]) <= wrote[p] /\ \A i \in 1 .. Len(got[h]) : got[h][i] = i
    BY <1>10, <1>11 DEF Receiving
  <2>4. c.peerFin => r.c.peerFin
    BY <1>17, <1>22 DEF StateKept, SameButNext
  <2>5. got'[h] = got[h] /\ g <= g
    BY <1>12, <1>21
  <2>6. QED
    BY <1>10, <1>12, <1>16, <1>20, <2>1, <2>2, <2>3, <2>4, <2>5 DEF Reads
<1>41. QED
  BY <1>22, <1>27, <1>28, <1>29, <1>40, LiveTurn

\* The reset that a connection sends when nobody will accept it.
Refusal(h, s) ==
    /\ h = "server" /\ s.to = Peer(h) /\ s.flags = {"RST", "ACK"} /\ s.data = <<>> /\ refused'
    /\ Live("client") => Opened("client")
    /\ Knows(h) /\ s.ack = conn[h].rcvNxt

\* A step with which h loses its connection.
Leaves(h) ==
    LET p == Peer(h) IN
    /\ conn'[p] = conn[p] /\ fd'[p] = fd[p] /\ wrote' = wrote /\ got' = got /\ eof' = eof /\ early' = early /\ failed' = failed
    /\ Live(h) /\ ~Live(h)' /\ spawned /\ spawned' = spawned /\ (refused => refused')
    /\ fd'[h] = fd[h] \/ (fd[h] \in {"connecting", "open", "shut"} /\ fd'[h] \in {"shut", "closed"})
    /\ h = "client" => fd'[h] # "connecting"
    /\ queued' => h = "client" /\ queued /\ listener' = listener
    /\ fd'[h] \in {"open", "shut"} => refused' \/ (Shut(p) /\ Len(got[h]) = wrote[p])
    /\ \A s \in net' : s \in net \/ Refusal(h, s)

\* A host whose connection goes away keeps its side.
LEMMA LeavesMoves ==
  ASSUME TcpInv, NEW h \in Host, Leaves(h)
  PROVE  Moves(h) /\ Sides(h)'
<1>1. PICK p : p = Peer(h)
  OBVIOUS
<1>2. Types /\ Receiving(h) /\ Ends(h) /\ p \in Host /\ Peer(p) = h
  BY <1>1, InvFacts, Hosts
<1>3. wrote[h] \in Nat
  BY <1>2, LiveFacts
<1>4. /\ conn'[p] = conn[p] /\ fd'[p] = fd[p] /\ wrote' = wrote /\ got' = got /\ eof' = eof /\ early' = early /\ failed' = failed
      /\ Live(h) /\ ~Live(h)' /\ (refused => refused')
      /\ fd'[h] = fd[h] \/ (fd[h] \in {"connecting", "open", "shut"} /\ fd'[h] \in {"shut", "closed"})
      /\ fd'[h] \in {"open", "shut"} => refused' \/ (Shut(p) /\ Len(got[h]) = wrote[p])
      /\ \A s \in net' : s \in net \/ Refusal(h, s)
  BY <1>1 DEF Leaves
<1>5. (Shut(h) => Shut(h)') /\ (Shut(p) <=> Shut(p)')
  BY <1>4 DEF Shut
<1>6. ASSUME NEW s \in net', Refusal(h, s)
      PROVE  s.to = p /\ Carries(s, h)' /\ (Quiet(p) /\ "ACK" \in s.flags => s.ack = SeqNo(p, 0))
  <2>1. /\ h = "server" /\ s.to = p /\ s.flags = {"RST", "ACK"} /\ s.data = <<>> /\ refused'
        /\ Live("client") => Opened("client")
        /\ Knows(h) /\ s.ack = conn[h].rcvNxt
    BY <1>1, <1>6 DEF Refusal
  <2>2. p = "client"
    BY <1>1, <2>1 DEF Peer
  <2>3. Live("client")' => Opened("client")'
    BY <1>4, <2>1, <2>2 DEF Live, Opened
  <2>4. Carries(s, h)'
    BY <1>4, <2>1, <2>2, <2>3 DEF Carries
  <2>5. conn[h].rcvNxt = SeqNo(p, Arrived(conn[h], Len(got[h])))
    BY <1>1, <1>2, <2>1 DEF Receiving, Reading, Knows
  <2>6. Quiet(p) => Arrived(conn[h], Len(got[h])) = 0
    BY <1>2, <2>1 DEF Quiet
  <2>7. QED
    BY <2>1, <2>4, <2>5, <2>6
<1>7. Moves(h)
  BY <1>1, <1>3, <1>4, <1>5, <1>6 DEF Moves
<1>8. Receiving(h)'
  BY <1>1, <1>2, <1>4 DEF Receiving
<1>9. Ends(h)'
  <2>1. eof[h] => fd[h] \in {"open", "shut", "closed"}
    BY <1>2 DEF Ends
  <2>2. eof'[h] => fd'[h] \in {"open", "shut", "closed"}
    BY <1>4, <2>1
  <2>3. QED
    BY <1>1, <1>4, <1>5, <2>2 DEF Ends
<1>10. QED
  BY <1>4, <1>7, <1>8, <1>9 DEF Sides, Sending, Silent, Agree

\* A connection goes away.
LEMMA LeaveTurn ==
  ASSUME TcpInv, NEW h \in Host, Types', Leaves(h)
  PROVE  TcpInv'
<1>1. Host = {"client", "server"} /\ Peer("client") = "server" /\ Peer("server") = "client"
  BY DEF Host, Peer
<1>2. Sockets
  BY DEF TcpInv
<1>3. /\ conn'[Peer(h)] = conn[Peer(h)] /\ fd'[Peer(h)] = fd[Peer(h)]
      /\ Live(h) /\ ~Live(h)' /\ spawned /\ spawned' = spawned
      /\ fd'[h] = fd[h] \/ (fd[h] \in {"connecting", "open", "shut"} /\ fd'[h] \in {"shut", "closed"})
      /\ h = "client" => fd'[h] # "connecting"
      /\ queued' => h = "client" /\ queued /\ listener' = listener
  BY DEF Leaves
<1>4. (Live(Peer(h))' <=> Live(Peer(h))) /\ (Opened(Peer(h))' <=> Opened(Peer(h))) /\ ~Opened(h)'
  BY <1>3 DEF Live, Opened
<1>5. fd["client"] # "none"
  BY <1>2, <1>3 DEF Sockets
<1>6. fd'["client"] # "none"
  BY <1>1, <1>3, <1>5
<1>7. queued' => Opened("server")' /\ fd'["server"] = "none" /\ listener' = "listening"
  BY <1>1, <1>2, <1>3, <1>4 DEF Sockets
<1>8. (Live("server")' => conn'["server"].state # "SYN_SENT") /\ (Live("client")' => conn'["client"].state # "SYN_RECEIVED")
  BY <1>1, <1>2, <1>3, <1>4 DEF Sockets
<1>9. Live("server")' /\ ~Opened("server")' => fd'["server"] = "none"
  BY <1>1, <1>2, <1>3, <1>4 DEF Sockets
<1>10. ~(Opened("server")' /\ Live("client")')
  BY <1>1, <1>3, <1>4
<1>11. fd'["client"] = "connecting" => Live("client")'
  BY <1>1, <1>2, <1>3, <1>4 DEF Sockets
<1>12. Sockets'
  BY <1>3, <1>6, <1>7, <1>8, <1>9, <1>10, <1>11 DEF Sockets
<1>13. QED
  BY <1>12, LeavesMoves, Assemble

\* tcp_poll releases a connection.
LEMMA ReapStep ==
  ASSUME TcpInv, NEW h \in Host, Reap(h)
  PROVE  TcpInv'
<1>1. /\ conn[h] # NoConn /\ conn[h].userClosed /\ conn[h].state = "CLOSED" /\ conn[h].rx = <<>> /\ Set(h, NoConn)
      /\ UNCHANGED <<net, fd, listener, queued, spawned, wrote, got, eof, refused, early, failed>>
  BY DEF Reap, socks, streams
<1>2. PICK p : p = Peer(h)
  OBVIOUS
<1>3. Types /\ Sockets /\ Stated(h) /\ Receiving(h) /\ Live(h) /\ Opened(h)
  BY <1>1, InvFacts DEF Live, Opened, Handshake
<1>4. Types' /\ conn'[h] = NoConn /\ conn'[p] = conn[p]
  <2>1. PICK base, out : base = net /\ out = {}
    OBVIOUS
  <2>2. Emit(base, out) /\ base \subseteq net /\ out \subseteq Segments /\ IsFiniteSet(out)
    BY <1>1, <1>3, <2>1, StillEmits, FS_EmptySet
  <2>3. listener' \in {"none", "listening", "closed"} /\ fd' = fd /\ wrote' = wrote /\ got' = got /\ eof' = eof /\ early' = early /\ failed' = failed
    BY <1>1, <1>3 DEF Types
  <2>4. QED
    BY <1>1, <1>2, <1>3, <2>2, <2>3, SetTypes
<1>5. spawned
  BY <1>3, OpenedSpawned
<1>6. Shut(h)
  BY <1>1, <1>3 DEF Stated
<1>7. fd[h] # "connecting" /\ (h = "server" => ~queued)
  BY <1>3, <1>6 DEF Shut, Sockets
<1>8. refused \/ (Shut(p) /\ Len(got[h]) = wrote[p])
  <2>1. SUFFICES ASSUME ~refused PROVE Shut(p) /\ Len(got[h]) = wrote[p]
    OBVIOUS
  <2>2. conn[h].peerFin
    BY <1>1, <1>3, <2>1 DEF Stated
  <2>3. Shut(p) /\ Count(conn[h], Len(got[h])) = wrote[p]
    BY <1>2, <1>3, <2>2 DEF Receiving, Reading
  <2>4. Len(got[h]) \in Nat /\ Len(conn[h].rx) = 0
    BY <1>1, <1>3, LiveFacts
  <2>5. QED
    BY <2>3, <2>4 DEF Count
<1>9. Leaves(h)
  <2>1. queued' => h = "client" /\ queued /\ listener' = listener
    BY <1>1, <1>7, Hosts
  <2>2. QED
    BY <1>1, <1>2, <1>3, <1>4, <1>5, <1>7, <1>8, <2>1 DEF Leaves, Live
<1>10. QED
  BY <1>4, <1>9, LeaveTurn

\* tcp_close of a connection that is over.
LEMMA CloseLeaves ==
  ASSUME TcpInv, NEW h \in Host, Live(h), conn[h].state = "CLOSED", CloseConn(h), Closes(h), fd'[h] = "shut" => ~Shut(h)
  PROVE  TcpInv'
<1>1. PICK p : p = Peer(h)
  OBVIOUS
<1>2. Types /\ Sockets /\ Stated(h) /\ Opened(h) /\ conn[h] # NoConn
  BY InvFacts DEF Opened, Handshake, Live
<1>3. Set(h, NoConn) /\ net' = net /\ failed' = failed
  BY <1>2 DEF CloseConn
<1>4. /\ fd'[h] \in {"shut", "closed"} /\ fd[h] \in {"connecting", "open", "shut"} /\ fd'[p] = fd[p]
      /\ \E f \in {"none", "connecting", "open", "shut", "closed"} : fd' = [fd EXCEPT ![h] = f]
      /\ listener' = listener /\ queued' = queued /\ spawned' = spawned /\ wrote' = wrote /\ got' = got /\ eof' = eof
      /\ refused' = refused /\ early' = early
      /\ listener' \in {"none", "listening", "closed"}
  BY <1>1, <1>2, ClosesFacts
<1>5. Types' /\ conn'[h] = NoConn /\ conn'[p] = conn[p]
  <2>1. PICK base, out : base = net /\ out = {}
    OBVIOUS
  <2>2. Emit(base, out) /\ base \subseteq net /\ out \subseteq Segments /\ IsFiniteSet(out)
    BY <1>2, <1>3, <2>1, StillEmits, FS_EmptySet
  <2>3. QED
    BY <1>1, <1>2, <1>3, <1>4, <2>2, SetTypes
<1>6. fd'[h] = "shut" => refused
  BY <1>2 DEF Stated
<1>7. Leaves(h)
  <2>1. queued' => h = "client" /\ queued /\ listener' = listener
    BY <1>2, <1>4, Hosts DEF Sockets
  <2>2. spawned
    BY <1>2, OpenedSpawned
  <2>3. QED
    BY <1>1, <1>3, <1>4, <1>5, <1>6, <2>1, <2>2 DEF Leaves, Live
<1>8. QED
  BY <1>5, <1>7, LeaveTurn

\* A connection that nobody will accept is reset.
LEMMA RefuseStep ==
  ASSUME TcpInv, Live("server"), Live("client") => Opened("client"), spawned' = spawned,
         NEW base, base \subseteq net, Emit(base, {Segment("server", conn["server"], {"RST", "ACK"}, conn["server"].nxt, <<>>)}),
         Set("server", NoConn), refused', ~queued', fd["server"] = "none",
         UNCHANGED <<fd, wrote, got, eof, early, failed>>, listener' \in {"none", "listening", "closed"}
  PROVE  TcpInv'
<1>1. PICK c, s : c = conn["server"] /\ s = Segment("server", c, {"RST", "ACK"}, c.nxt, <<>>)
  OBVIOUS
<1>2. Types /\ Sockets /\ Sized(c) /\ "server" \in Host
  BY <1>1, InvFacts DEF Host
<1>3. spawned /\ Knows("server")
  BY <1>2 DEF Sockets, Knows
<1>4. s \in Segments /\ s.to = Peer("server") /\ s.flags = {"RST", "ACK"} /\ s.data = <<>> /\ s.ack = c.rcvNxt
  <2>1. {"RST", "ACK"} \in SUBSET Flags /\ c.nxt \in Seq32 /\ <<>> \in Bytes
    BY <1>2, Fields DEF Flags, Bytes
  <2>2. QED
    BY <1>1, <1>2, <2>1, SegmentFacts
<1>5. Refusal("server", s)
  BY <1>1, <1>3, <1>4 DEF Refusal
<1>6. /\ Types' /\ conn'["server"] = NoConn /\ conn'[Peer("server")] = conn[Peer("server")]
      /\ \A x \in net' : x \in net \/ x = s
  <2>1. PICK out : out = {s}
    OBVIOUS
  <2>2. Emit(base, out) /\ out \subseteq Segments /\ IsFiniteSet(out)
    BY <1>1, <1>4, <2>1, FS_Singleton
  <2>3. fd' = fd /\ wrote' = wrote /\ got' = got /\ eof' = eof /\ early' = early /\ failed' = failed
    OBVIOUS
  <2>4. Types' /\ conn'["server"] = NoConn /\ conn'[Peer("server")] = conn[Peer("server")] /\ \A x \in net' : x \in net \/ x \in out
    BY <1>2, <2>2, <2>3, SetTypes
  <2>5. QED
    BY <2>1, <2>4
<1>7. Leaves("server")
  BY <1>2, <1>3, <1>5, <1>6 DEF Leaves, Live
<1>8. QED
  BY <1>2, <1>6, <1>7, LeaveTurn

\* The last ACK of the handshake, with nobody listening.
LEMMA LateStep ==
  ASSUME TcpInv, NEW h \in Host, Live(h), NEW s \in net, s.to = h, HandleSynReceived(h, s), listener # "listening"
  PROVE  TcpInv'
<1>1. /\ conn[h].state = "SYN_RECEIVED" /\ "ACK" \in s.flags /\ refused' /\ Set(h, NoConn)
      /\ Emit(net \ {s}, {Segment(h, conn[h], {"RST", "ACK"}, conn[h].nxt, <<>>)})
      /\ UNCHANGED <<queued, fd, listener, spawned, wrote, got, eof, early, failed>>
  <2>1. PICK c : c = [conn[h] EXCEPT !.una = s.ack, !.state = "ESTABLISHED", !.wnd = FirstWindow(s)]
    OBVIOUS
  <2>2. Delivered(s, {Segment(h, c, {"RST", "ACK"}, c.nxt, <<>>)})
    BY <2>1 DEF HandleSynReceived
  <2>3. c.rcvNxt = conn[h].rcvNxt /\ c.rx = conn[h].rx /\ c.nxt = conn[h].nxt
    <3>1. Sized(conn[h])
      BY InvFacts
    <3>2. QED
      BY <2>1, <3>1 DEF Sized, Conn
  <2>4. Segment(h, c, {"RST", "ACK"}, c.nxt, <<>>) = Segment(h, conn[h], {"RST", "ACK"}, conn[h].nxt, <<>>)
    BY <2>3 DEF Segment
  <2>5. Emit(net \ {s}, {Segment(h, conn[h], {"RST", "ACK"}, conn[h].nxt, <<>>)})
    BY <2>2, <2>4 DEF Delivered
  <2>6. QED
    BY <2>5 DEF HandleSynReceived
<1>2. Types /\ Sockets /\ Carries(s, Peer(h))
  BY InvFacts
<1>3. h = "server" /\ Peer(h) = "client" /\ ~Opened(h) /\ fd[h] = "none" /\ ~queued
  BY <1>1, <1>2, Hosts DEF Sockets, Opened, Handshake, Peer
<1>4. Live("client") => Opened("client")
  <2>1. Live("client") => Knows("client")
    BY <1>1, <1>2, <1>3 DEF Carries
  <2>2. Live("client") => conn["client"].state # "SYN_RECEIVED"
    BY <1>2 DEF Sockets
  <2>3. QED
    BY <2>1, <2>2 DEF Knows, Opened, Handshake
<1>5. PICK base : base = net \ {s}
  OBVIOUS
<1>6. base \subseteq net /\ Emit(base, {Segment("server", conn["server"], {"RST", "ACK"}, conn["server"].nxt, <<>>)})
  BY <1>1, <1>3, <1>5
<1>7. listener' \in {"none", "listening", "closed"} /\ Set("server", NoConn) /\ Live("server") /\ ~queued'
  BY <1>1, <1>2, <1>3 DEF Types
<1>8. QED
  BY <1>1, <1>3, <1>4, <1>6, <1>7, RefuseStep

\* The listening socket is closed with a connection that nobody has accepted.
LEMMA CloseListenerQueued ==
  ASSUME TcpInv, CloseListener, queued
  PROVE  TcpInv'
<1>1. /\ fd["server"] = "none" /\ listener' = "closed" /\ ~queued' /\ refused'
      /\ Set("server", NoConn) /\ Emit(net, {Segment("server", conn["server"], {"RST", "ACK"}, conn["server"].nxt, <<>>)})
      /\ UNCHANGED <<fd, spawned, wrote, got, eof, early, failed>>
  BY DEF CloseListener
<1>2. Sockets
  BY DEF TcpInv
<1>3. Live("server") /\ (Live("client") => Opened("client"))
  BY <1>2 DEF Sockets, Opened
<1>4. QED
  BY <1>1, <1>3, RefuseStep

\* A step that leaves the connections alone: a system call of h about its socket, or a segment that is lost.
Idles(h) ==
    LET p == Peer(h) IN
    /\ conn' = conn /\ wrote' = wrote /\ got' = got /\ early' = early /\ failed' = failed /\ (refused => refused') /\ net' \subseteq net
    /\ fd'[p] = fd[p] /\ eof'[p] = eof[p] /\ (Shut(h) => Shut(h)')

\* The types after a step that changes no connection.
LEMMA IdleTypes ==
  ASSUME Types, conn' = conn, net' \subseteq net, wrote' = wrote, got' = got, early' = early, failed' = failed,
         NEW h \in Host, fd' = fd \/ \E f \in {"none", "connecting", "open", "shut", "closed"} : fd' = [fd EXCEPT ![h] = f],
         eof' = eof \/ eof' = [eof EXCEPT ![h] = TRUE],
         listener' \in {"none", "listening", "closed"}
  PROVE  Types'
<1>1. conn' \in [Host -> Conn \union {NoConn}] /\ \A x \in Host : conn'[x] = NoConn \/ Sized(conn'[x])
  BY DEF Types
<1>2. net' \subseteq Segments /\ IsFiniteSet(net') /\ Cardinality(net') <= NetCap
  <2>1. net \subseteq Segments /\ IsFiniteSet(net) /\ Cardinality(net) <= NetCap
    BY DEF Types
  <2>2. IsFiniteSet(net') /\ Cardinality(net') <= Cardinality(net)
    BY <2>1, FS_Subset
  <2>3. Cardinality(net) \in Nat /\ Cardinality(net') \in Nat /\ NetCap \in Nat
    BY <2>1, <2>2, FS_CardinalityType, TcpAssumption
  <2>4. QED
    BY <2>1, <2>2, <2>3
<1>3. QED
  BY <1>1, <1>2, TypesNext

\* A step that changes no connection keeps the invariant.
LEMMA IdleTurn ==
  ASSUME TcpInv, NEW h \in Host, Types', Sockets', Idles(h), Ends(h)'
  PROVE  TcpInv'
<1>1. PICK p : p = Peer(h)
  OBVIOUS
<1>2. Types /\ Sides(h) /\ Sending(h) /\ Receiving(h) /\ Silent(h) /\ Agree(h) /\ (Live(h) => Stated(h)) /\ p \in Host /\ Peer(p) = h
  BY <1>1, InvFacts, Hosts
<1>3. /\ conn' = conn /\ wrote' = wrote /\ got' = got /\ early' = early /\ failed' = failed /\ (refused => refused') /\ net' \subseteq net
      /\ fd'[p] = fd[p] /\ eof'[p] = eof[p] /\ (Shut(h) => Shut(h)')
  BY <1>1 DEF Idles
<1>4. \A x \in Host : (Live(x)' <=> Live(x)) /\ (Opened(x)' <=> Opened(x)) /\ (Knows(x)' <=> Knows(x)) /\ (Shut(p)' <=> Shut(p))
  BY <1>3 DEF Live, Opened, Knows, Shut
<1>5. Quiet(p) /\ Knows(h) => Arrived(conn[h], Len(got[h])) = 0
  BY <1>2 DEF Quiet
<1>6. Live(h) => Count(conn[h], Len(got[h])) \in Nat /\ Arrived(conn[h], Len(got[h])) \in Nat
  BY <1>2, ReaderFacts
<1>7. wrote[h] \in Nat
  BY <1>2, LiveFacts
<1>8. Moves(h)
  BY <1>1, <1>3, <1>4, <1>5, <1>6, <1>7 DEF Moves
<1>9. Sending(h)'
  BY <1>2, <1>3, <1>4 DEF Sending
<1>10. Receiving(h)'
  BY <1>1, <1>2, <1>3, <1>4 DEF Receiving
<1>11. Silent(h)'
  <2>1. Quiet(h) => Quiet(h)'
    BY <1>1, <1>2, <1>3, <1>4 DEF Quiet
  <2>2. QED
    BY <1>2, <1>3, <1>4, <2>1 DEF Silent
<1>12. Agree(h)'
  BY <1>1, <1>2, <1>3, <1>4 DEF Agree
<1>13. Live(h)' => Stated(h)'
  BY <1>2, <1>3, <1>4 DEF Stated
<1>14. Sides(h)'
  BY <1>9, <1>10, <1>11, <1>12, <1>13 DEF Sides
<1>15. QED
  BY <1>8, <1>14, Assemble

\* Nothing happens, but that segments may be lost.
LEMMA StutterStep ==
  ASSUME TcpInv, net' \subseteq net, UNCHANGED <<conn, fd, listener, queued, spawned, wrote, got, eof, refused, early, failed>>
  PROVE  TcpInv'
<1>1. PICK h \in Host : TRUE
  BY Hosts
<1>2. Types /\ Sockets /\ Ends(h) /\ (listener \in {"none", "listening", "closed"})
  BY InvFacts DEF Types
<1>3. Types'
  BY <1>2, IdleTypes
<1>4. Sockets'
  <2>1. \A x \in Host : (Live(x)' <=> Live(x)) /\ (Opened(x)' <=> Opened(x))
    BY DEF Live, Opened
  <2>2. QED
    BY <1>2, <2>1, Hosts DEF Sockets
<1>5. Ends(h)'
  BY <1>2 DEF Ends, Shut, Live
<1>6. Idles(h)
  BY DEF Idles, Shut
<1>7. QED
  BY <1>3, <1>4, <1>5, <1>6, IdleTurn

\* A segment is lost.
LEMMA LoseStep ==
  ASSUME TcpInv, NEW s \in net, Lose(s)
  PROVE  TcpInv'
<1>1. net' \subseteq net /\ UNCHANGED <<conn, fd, listener, queued, spawned, wrote, got, eof, refused, early, failed>>
  BY DEF Lose, socks, streams
<1>2. QED
  BY <1>1, StutterStep

\* The reader sees the end of the stream.
LEMMA EndStep ==
  ASSUME TcpInv, NEW h \in Host, RecvEnd(h)
  PROVE  TcpInv'
<1>1. /\ fd[h] \in {"open", "shut"}
      /\ conn[h] # NoConn => conn[h].peerFin /\ conn[h].rx = <<>>
      /\ eof' = [eof EXCEPT ![h] = TRUE]
      /\ UNCHANGED <<conn, net, fd, listener, queued, spawned, wrote, got, refused, early, failed>>
  BY DEF RecvEnd, socks
<1>2. Types /\ Sockets /\ Ends(h) /\ (listener \in {"none", "listening", "closed"}) /\ eof \in [Host -> BOOLEAN]
  BY InvFacts DEF Types
<1>3. Types'
  BY <1>1, <1>2, IdleTypes
<1>4. eof'[h] /\ \A x \in Host : x # h => eof'[x] = eof[x]
  BY <1>1, <1>2
<1>5. \A x \in Host : (Live(x)' <=> Live(x)) /\ (Opened(x)' <=> Opened(x))
  BY <1>1 DEF Live, Opened
<1>6. Sockets'
  <2>1. fd["client"] = "none" => h # "client"
    BY <1>1
  <2>2. ~spawned => h # "server"
    BY <1>1, <1>2 DEF Sockets
  <2>3. QED
    BY <1>1, <1>2, <1>4, <1>5, <2>1, <2>2, Hosts DEF Sockets
<1>7. Ends(h)'
  BY <1>1, <1>2 DEF Ends, Shut, Live
<1>8. Idles(h)
  BY <1>1, <1>4, Hosts DEF Idles, Shut
<1>9. QED
  BY <1>3, <1>6, <1>7, <1>8, IdleTurn

\* connect returns.
LEMMA ConnectedStep ==
  ASSUME TcpInv, Connected
  PROVE  TcpInv'
<1>1. /\ fd["client"] = "connecting" /\ conn["client"].state = "ESTABLISHED" /\ fd' = [fd EXCEPT !["client"] = "open"]
      /\ UNCHANGED <<conn, listener, queued, spawned, net, wrote, got, eof, refused, early, failed>>
  BY DEF Connected, streams
<1>2. PICK h \in Host : h = "client"
  BY Hosts
<1>3. Types /\ Sockets /\ Ends(h) /\ (listener \in {"none", "listening", "closed"}) /\ DOMAIN fd = Host
  BY InvFacts DEF Types
<1>4. Types'
  BY <1>1, <1>2, <1>3, IdleTypes
<1>5. fd'[h] = "open" /\ \A x \in Host : x # h => fd'[x] = fd[x]
  BY <1>1, <1>2, <1>3
<1>6. \A x \in Host : (Live(x)' <=> Live(x)) /\ (Opened(x)' <=> Opened(x))
  BY <1>1 DEF Live, Opened
<1>7. Sockets'
  BY <1>1, <1>2, <1>3, <1>5, <1>6, Hosts DEF Sockets
<1>8. Live(h)
  BY <1>1, <1>2, <1>3 DEF Sockets
<1>9. Ends(h)'
  BY <1>1, <1>2, <1>3, <1>5, <1>6, <1>8 DEF Ends
<1>10. Idles(h)
  BY <1>1, <1>2, <1>5, Hosts DEF Idles, Shut
<1>11. QED
  BY <1>4, <1>7, <1>9, <1>10, IdleTurn

\* accept returns.
LEMMA AcceptStep ==
  ASSUME TcpInv, Accept
  PROVE  TcpInv'
<1>1. /\ listener = "listening" /\ queued /\ ~queued' /\ fd' = [fd EXCEPT !["server"] = "open"]
      /\ UNCHANGED <<conn, listener, spawned, net, wrote, got, eof, refused, early, failed>>
  BY DEF Accept, streams
<1>2. PICK h \in Host : h = "server"
  BY Hosts
<1>3. Types /\ Sockets /\ Ends(h) /\ (listener \in {"none", "listening", "closed"}) /\ DOMAIN fd = Host
  BY InvFacts DEF Types
<1>4. Types'
  BY <1>1, <1>2, <1>3, IdleTypes
<1>5. fd'[h] = "open" /\ \A x \in Host : x # h => fd'[x] = fd[x]
  BY <1>1, <1>2, <1>3
<1>6. \A x \in Host : (Live(x)' <=> Live(x)) /\ (Opened(x)' <=> Opened(x))
  BY <1>1 DEF Live, Opened
<1>7. Opened(h) /\ fd[h] = "none"
  BY <1>1, <1>2, <1>3 DEF Sockets
<1>8. spawned
  BY <1>7, OpenedSpawned
<1>9. Sockets'
  BY <1>1, <1>2, <1>3, <1>5, <1>6, <1>7, <1>8, Hosts DEF Sockets
<1>10. Ends(h)'
  BY <1>1, <1>2, <1>3, <1>5, <1>6, <1>7 DEF Ends, Opened
<1>11. Idles(h)
  BY <1>1, <1>2, <1>5, <1>7, Hosts DEF Idles, Shut
<1>12. QED
  BY <1>4, <1>9, <1>10, <1>11, IdleTurn

\* The listening socket appears, or is closed before there is a connection to accept, or after.
LEMMA ListenerStep ==
  ASSUME TcpInv, Listen \/ (CloseListener /\ ~queued)
  PROVE  TcpInv'
<1>1. /\ listener' \in {"listening", "closed"} /\ (~queued' \/ (listener = "none" /\ queued' = queued))
      /\ UNCHANGED <<conn, fd, spawned, net, wrote, got, eof, refused, early, failed>>
  BY DEF Listen, CloseListener, streams
<1>2. PICK h \in Host : h = "server"
  BY Hosts
<1>3. Types /\ Sockets /\ Ends(h) /\ listener' \in {"none", "listening", "closed"}
  BY InvFacts DEF Types, Listen, CloseListener
<1>4. Types'
  BY <1>1, <1>2, <1>3, IdleTypes
<1>5. \A x \in Host : (Live(x)' <=> Live(x)) /\ (Opened(x)' <=> Opened(x))
  BY <1>1 DEF Live, Opened
<1>6. ~queued'
  BY <1>1, <1>3 DEF Sockets
<1>7. Sockets'
  BY <1>1, <1>2, <1>3, <1>5, <1>6, Hosts DEF Sockets
<1>8. Ends(h)'
  BY <1>1, <1>3 DEF Ends, Shut, Live
<1>9. Idles(h)
  BY <1>1 DEF Idles, Shut
<1>10. QED
  BY <1>4, <1>7, <1>8, <1>9, IdleTurn

\* tcp_close of a socket whose connection is released.
LEMMA CloseIdle ==
  ASSUME TcpInv, NEW h \in Host, ~Live(h), CloseConn(h), Closes(h), fd'[h] = "shut" => fd[h] = "open"
  PROVE  TcpInv'
<1>1. PICK p : p = Peer(h)
  OBVIOUS
<1>2. Types /\ Sockets /\ Ends(h) /\ p \in Host
  BY <1>1, InvFacts, Hosts
<1>3. conn' = conn /\ net' = net /\ failed' = failed
  BY DEF CloseConn, Live
<1>4. /\ fd'[h] \in {"shut", "closed"} /\ fd[h] \in {"connecting", "open", "shut"} /\ fd'[p] = fd[p]
      /\ \E f \in {"none", "connecting", "open", "shut", "closed"} : fd' = [fd EXCEPT ![h] = f]
      /\ listener' = listener /\ queued' = queued /\ spawned' = spawned /\ wrote' = wrote /\ got' = got /\ eof' = eof
      /\ refused' = refused /\ early' = early
      /\ listener' \in {"none", "listening", "closed"}
  BY <1>1, <1>2, ClosesFacts
<1>5. Types'
  BY <1>2, <1>3, <1>4, IdleTypes
<1>6. \A x \in Host : (Live(x)' <=> Live(x)) /\ (Opened(x)' <=> Opened(x))
  BY <1>3 DEF Live, Opened
<1>7. Sockets'
  BY <1>1, <1>2, <1>3, <1>4, <1>6, Hosts DEF Sockets
<1>8. Ends(h)'
  <2>1. /\ fd'[h] = "shut" => refused \/ (Shut(p) /\ Len(got[h]) = wrote[p])
        /\ Shut(p)' <=> Shut(p)
    BY <1>1, <1>2, <1>4 DEF Ends, Shut
  <2>2. eof'[h] => fd'[h] \in {"open", "shut", "closed"}
    BY <1>4
  <2>3. QED
    BY <1>1, <1>3, <1>4, <1>6, <2>1, <2>2 DEF Ends
<1>9. Idles(h)
  BY <1>1, <1>3, <1>4 DEF Idles, Shut
<1>10. QED
  BY <1>5, <1>7, <1>8, <1>9, IdleTurn

\* A connection that has sent its SYN and nothing else.
IsFresh(h, c, state, r) ==
    /\ Sized(c) /\ c.state = state /\ c.una = SeqNo(h, -1) /\ c.nxt = SeqNo(h, 0) /\ c.rcvNxt = r /\ c.tx = <<>> /\ c.rx = <<>>
    /\ ~c.finSent /\ ~c.finAcked /\ ~c.peerFin /\ ~c.reset /\ ~c.userClosed

\* A new connection has its SYN out, and nothing in its rings.
LEMMA FreshIs ==
  ASSUME NEW h \in Host, NEW state \in Handshake, NEW r \in Seq32, NEW x \in 0 .. BufSize
  PROVE  IsFresh(h, Fresh(h, state, r, x), state, r)
<1>1. PICK a, n : a = Iss(h) /\ n = Plus(Iss(h), 1)
  OBVIOUS
<1>2. a \in Seq32 /\ n \in Seq32 /\ a = SeqNo(h, -1) /\ n = SeqNo(h, 0)
  <2>1. SeqNo(h, -1) = Iss(h) /\ SeqNo(h, 0) = Plus(Iss(h), 1)
    BY SeqNoFacts
  <2>2. SeqNo(h, -1) \in Seq32 /\ SeqNo(h, 0) \in Seq32
    BY SeqNoFacts
  <2>3. QED
    BY <1>1, <2>1, <2>2
<1>3. PICK c : c = Fresh(h, state, r, x)
  OBVIOUS
<1>4. c = [state |-> state, una |-> a, nxt |-> n, wnd |-> x, rcvNxt |-> r, tx |-> <<>>, rx |-> <<>>, finSent |-> FALSE,
           finAcked |-> FALSE, peerFin |-> FALSE, reset |-> FALSE, userClosed |-> FALSE]
  BY <1>1, <1>3 DEF Fresh
<1>5. state \in State /\ <<>> \in Bytes
  BY DEF State, Handshake, Bytes
<1>6. c \in Conn
  BY <1>2, <1>4, <1>5 DEF Conn
<1>7. Len(c.tx) = 0 /\ Len(c.rx) = 0 /\ 0 <= BufSize
  BY <1>4, Sizes
<1>8. Sized(c)
  BY <1>6, <1>7 DEF Sized
<1>9. QED
  BY <1>2, <1>3, <1>4, <1>8 DEF IsFresh

\* It has nothing in its rings, and nothing that has arrived.
LEMMA FreshSays ==
  ASSUME NEW h \in Host, NEW c, NEW state \in Handshake, NEW r, IsFresh(h, c, state, r), NEW v \in Nat,
         state = "SYN_RECEIVED" => r = SeqNo(Peer(h), 0)
  PROVE  /\ Ring(c, 0) /\ Greeting(h, c, 0) /\ Freed(c, 0) = 0 /\ Count(c, 0) = 0 /\ Arrived(c, 0) = 0
         /\ Reading(Peer(h), c, 0, v)
<1>1. /\ c.state = state /\ c.una = SeqNo(h, -1) /\ c.nxt = SeqNo(h, 0) /\ c.rcvNxt = r /\ Len(c.tx) = 0 /\ Len(c.rx) = 0
      /\ ~c.finSent /\ ~c.finAcked /\ ~c.peerFin
  BY DEF IsFresh
<1>2. Freed(c, 0) = 0 /\ Count(c, 0) = 0 /\ Arrived(c, 0) = 0
  BY <1>1 DEF Freed, Count, Arrived
<1>3. Ring(c, 0) /\ Greeting(h, c, 0)
  BY <1>1 DEF Ring, Greeting
<1>4. Reading(Peer(h), c, 0, v)
  BY <1>1, <1>2 DEF Reading, Handshake
<1>5. QED
  BY <1>2, <1>3, <1>4

\* connect sends its SYN.
LEMMA ConnectStep ==
  ASSUME TcpInv, Connect
  PROVE  TcpInv'
<1>1. PICK h \in Host, p \in Host : h = "client" /\ p = "server" /\ p = Peer(h) /\ h = Peer(p)
  BY Hosts DEF Peer
<1>2. PICK c, s : c = Fresh("client", "SYN_SENT", 0, BufSize) /\ s = Segment("client", c, {"SYN"}, c.una, <<>>)
  OBVIOUS
<1>3. /\ fd[h] = "none" /\ fd' = [fd EXCEPT ![h] = "connecting"] /\ Set(h, c) /\ Emit(net, {s})
      /\ UNCHANGED <<listener, queued, spawned, wrote, got, eof, refused, early, failed>>
  BY <1>1, <1>2 DEF Connect, streams
<1>4. Types /\ Sockets /\ DOMAIN fd = Host /\ listener \in {"none", "listening", "closed"}
  BY <1>1, InvFacts DEF Types
<1>5. /\ ~spawned /\ net = {} /\ got[h] = <<>> /\ wrote[h] = 0 /\ ~eof[h]
      /\ ~Live(p) /\ fd[p] = "none" /\ ~queued /\ got[p] = <<>> /\ wrote[p] = 0 /\ ~eof[p] /\ ~early[p]
  BY <1>1, <1>3, <1>4 DEF Sockets
<1>6. IsFresh(h, c, "SYN_SENT", 0)
  <2>1. 0 \in Seq32 /\ BufSize \in 0 .. BufSize /\ "SYN_SENT" \in Handshake
    BY Sizes DEF Seq32, Handshake
  <2>2. QED
    BY <1>1, <1>2, <2>1, FreshIs
<1>7. Sized(c) /\ c.state = "SYN_SENT" /\ c.una = SeqNo(h, -1) /\ c.nxt = SeqNo(h, 0)
      /\ ~c.finSent /\ ~c.finAcked /\ ~c.peerFin /\ ~c.reset /\ ~c.userClosed /\ c.rx = <<>>
  BY <1>6 DEF IsFresh
<1>8. s \in Segments /\ s.to = p /\ s.flags = {"SYN"} /\ s.seq = SeqNo(h, -1) /\ s.data = <<>>
  <2>1. {"SYN"} \in SUBSET Flags /\ c.una \in Seq32 /\ <<>> \in Bytes
    BY <1>7, Fields DEF Flags, Bytes
  <2>2. QED
    BY <1>1, <1>2, <1>7, <2>1, SegmentFacts
<1>9. /\ Types' /\ conn'[h] = c /\ conn'[p] = conn[p] /\ net' = {s}
  <2>1. PICK out : out = {s}
    OBVIOUS
  <2>2. Emit(net, out) /\ out \subseteq Segments /\ IsFiniteSet(out) /\ net \subseteq net
    BY <1>3, <1>8, <2>1, FS_Singleton
  <2>3. /\ wrote' = wrote /\ got' = got /\ eof' = eof /\ early' = early /\ listener' \in {"none", "listening", "closed"}
        /\ \E f \in {"none", "connecting", "open", "shut", "closed"} : fd' = [fd EXCEPT ![h] = f]
    BY <1>3, <1>4
  <2>4. Types' /\ conn'[h] = c /\ conn'[p] = conn[p]
    BY <1>1, <1>3, <1>4, <1>7, <2>2, <2>3, SetTypes
  <2>5. net' = {s}
    BY <1>3, <1>5 DEF Emit
  <2>6. QED
    BY <2>4, <2>5
<1>10. fd'[h] = "connecting" /\ fd'[p] = "none"
  BY <1>1, <1>3, <1>4, <1>5
<1>11. Live(h)' /\ ~Opened(h)' /\ ~Knows(h)' /\ ~Live(p)'
  BY <1>5, <1>7, <1>9, SizedIsLive DEF Live, Opened, Knows, Handshake
<1>12. /\ Ring(c, 0) /\ Greeting(h, c, 0) /\ Reading(p, c, 0, 0) /\ Len(got[h]) = 0
  <2>1. "SYN_SENT" \in Handshake /\ 0 \in Nat
    BY DEF Handshake
  <2>2. QED
    BY <1>1, <1>5, <1>6, <2>1, FreshSays
<1>13. Sides(h)'
  <2>1. Sending(h)'
    BY <1>3, <1>5, <1>7, <1>9, <1>11, <1>12 DEF Sending
  <2>2. Receiving(h)'
    BY <1>1, <1>3, <1>5, <1>7, <1>9, <1>12 DEF Receiving
  <2>3. Silent(h)'
    BY <1>1, <1>8, <1>9, <1>11 DEF Silent, Quiet, Knows, Live
  <2>4. Agree(h)'
    BY <1>1, <1>11 DEF Agree
  <2>5. Ends(h)'
    BY <1>3, <1>5, <1>11 DEF Ends
  <2>6. Stated(h)'
    BY <1>7, <1>9 DEF Stated, Closing
  <2>7. QED
    BY <2>1, <2>2, <2>3, <2>4, <2>5, <2>6 DEF Sides
<1>14. Sides(p)'
  <2>1. ~Live(p)' /\ got'[p] = <<>> /\ wrote'[h] \in Nat /\ fd'[p] = "none" /\ ~eof'[p]
    BY <1>3, <1>5, <1>10, <1>11
  <2>2. Len(got'[p]) = 0
    BY <2>1
  <2>3. Receiving(p)'
    BY <1>1, <2>1, <2>2 DEF Receiving
  <2>4. Ends(p)'
    BY <2>1 DEF Ends
  <2>5. QED
    BY <2>1, <2>3, <2>4 DEF Sides, Sending, Silent, Agree
<1>15. \A x \in net' : Carries(x, Peer(x.to))'
  <2>1. Carries(s, h)'
    BY <1>8 DEF Carries
  <2>2. QED
    BY <1>1, <1>8, <1>9, <2>1
<1>16. Sockets'
  BY <1>1, <1>3, <1>5, <1>7, <1>8, <1>9, <1>10, <1>11 DEF Sockets, Opened
<1>17. QED
  BY <1>1, <1>9, <1>13, <1>14, <1>15, <1>16, Hosts DEF TcpInv

\* A SYN makes a connection in SYN_RECEIVED.
LEMMA SpawnStep ==
  ASSUME TcpInv, NEW y \in net, Spawn(y)
  PROVE  TcpInv'
<1>1. PICK h \in Host, p \in Host : h = "server" /\ p = "client" /\ p = Peer(h) /\ h = Peer(p) /\ p # h
  BY Hosts DEF Peer
<1>2. PICK n, c : n = Plus(y.seq, 1) /\ c = Fresh("server", "SYN_RECEIVED", n, FirstWindow(y))
  OBVIOUS
<1>3. PICK s : s = Segment("server", c, {"SYN", "ACK"}, c.una, <<>>)
  OBVIOUS
<1>4. /\ y.to = h /\ y.flags = {"SYN"} /\ conn[h] = NoConn /\ ~spawned /\ spawned' /\ Set(h, c) /\ Emit(net \ {y}, {s})
      /\ UNCHANGED <<fd, listener, queued, wrote, got, eof, refused, early, failed>>
  BY <1>1, <1>2, <1>3 DEF Spawn, Delivered, streams
<1>5. /\ Types /\ Sockets /\ Sides(p) /\ listener \in {"none", "listening", "closed"} /\ Carries(y, p) /\ y \in Segments
      /\ Sending(p) /\ Receiving(p) /\ Silent(p) /\ Agree(p) /\ Ends(p) /\ (Live(p) => Stated(p))
      /\ \A x \in net : x \in Segments /\ Carries(x, Peer(x.to))
  BY <1>1, <1>4, InvFacts DEF Types
<1>6. /\ fd[h] = "none" /\ ~queued /\ got[h] = <<>> /\ wrote[h] = 0 /\ ~early[h] /\ ~eof[h] /\ ~Live(h)
      /\ \A x \in net : x.to = h /\ x.flags = {"SYN"}
      /\ Live(p) => ~Opened(p)
      /\ fd[p] # "none"
      /\ Live(p) => conn[p].state # "SYN_RECEIVED"
      /\ fd[p] = "connecting" => Live(p)
  BY <1>1, <1>4, <1>5 DEF Sockets
<1>7. Live(p) => conn[p].state = "SYN_SENT" /\ ~Knows(p)
  BY <1>6 DEF Opened, Knows, Handshake
<1>8. wrote[p] \in Nat /\ Len(got[h]) = 0
  BY <1>5, <1>6, LiveFacts
<1>9. n = SeqNo(p, 0) /\ n \in Seq32
  <2>1. y.seq = SeqNo(p, -1)
    BY <1>4, <1>5 DEF Carries
  <2>2. Plus(SeqNo(p, -1), 1) = SeqNo(p, 0) /\ SeqNo(p, 0) \in Seq32
    BY SeqNoFacts
  <2>3. QED
    BY <1>2, <2>1, <2>2
<1>10. IsFresh(h, c, "SYN_RECEIVED", n)
  <2>1. FirstWindow(y) \in 0 .. BufSize /\ "SYN_RECEIVED" \in Handshake
    BY <1>5, FirstWindowFits DEF Handshake
  <2>2. QED
    BY <1>1, <1>2, <1>9, <2>1, FreshIs
<1>11. /\ Sized(c) /\ c.state = "SYN_RECEIVED" /\ c.una = SeqNo(h, -1) /\ c.nxt = SeqNo(h, 0) /\ c.rcvNxt = n
       /\ ~c.finSent /\ ~c.finAcked /\ ~c.peerFin /\ ~c.reset /\ ~c.userClosed /\ c.rx = <<>>
  BY <1>10 DEF IsFresh
<1>12. /\ Ring(c, 0) /\ Greeting(h, c, 0) /\ Freed(c, 0) = 0 /\ Count(c, 0) = 0 /\ Arrived(c, 0) = 0
       /\ Reading(p, c, 0, wrote[p])
  <2>1. "SYN_RECEIVED" \in Handshake
    BY DEF Handshake
  <2>2. QED
    BY <1>1, <1>8, <1>9, <1>10, <2>1, FreshSays
<1>13. s \in Segments /\ s.to = p /\ s.flags = {"SYN", "ACK"} /\ s.seq = SeqNo(h, -1) /\ s.data = <<>> /\ s.ack = SeqNo(p, 0)
  <2>1. {"SYN", "ACK"} \in SUBSET Flags /\ c.una \in Seq32 /\ <<>> \in Bytes
    BY <1>11, Fields DEF Flags, Bytes
  <2>2. QED
    BY <1>1, <1>3, <1>9, <1>11, <2>1, SegmentFacts
<1>14. /\ Types' /\ conn'[h] = c /\ conn'[p] = conn[p] /\ \A x \in net' : x \in net \/ x = s
  <2>1. PICK base, out : base = net \ {y} /\ out = {s}
    OBVIOUS
  <2>2. Emit(base, out) /\ base \subseteq net /\ out \subseteq Segments /\ IsFiniteSet(out)
    BY <1>4, <1>13, <2>1, FS_Singleton
  <2>3. fd' = fd /\ wrote' = wrote /\ got' = got /\ eof' = eof /\ early' = early /\ failed' = failed /\ listener' \in {"none", "listening", "closed"}
    BY <1>4, <1>5
  <2>4. Types' /\ conn'[h] = c /\ conn'[p] = conn[p] /\ \A x \in net' : x \in net \/ x \in out
    BY <1>1, <1>4, <1>5, <1>11, <2>2, <2>3, SetTypes
  <2>5. QED
    BY <2>1, <2>4
<1>15. /\ Live(h)' /\ ~Opened(h)' /\ Knows(h)'
       /\ Live(p)' <=> Live(p)
       /\ Opened(p)' <=> Opened(p)
       /\ Knows(p)' <=> Knows(p)
  BY <1>11, <1>14, SizedIsLive DEF Live, Opened, Knows, Handshake
<1>16. fd' = fd /\ wrote' = wrote /\ got' = got /\ eof' = eof /\ early' = early /\ failed' = failed /\ refused' = refused
  BY <1>4
<1>17. \A x \in net' : \/ x.to = h /\ x.flags = {"SYN"} /\ x.data = <<>> /\ x.seq = SeqNo(p, -1)
                       \/ x = s
  BY <1>1, <1>5, <1>6, <1>14 DEF Carries
<1>18. Sides(h)'
  <2>1. Sending(h)'
    BY <1>6, <1>11, <1>12, <1>14, <1>15, <1>16 DEF Sending
  <2>2. Receiving(h)'
    BY <1>1, <1>8, <1>11, <1>12, <1>14, <1>16 DEF Receiving
  <2>3. Silent(h)'
    <3>1. Quiet(h)'
      BY <1>1, <1>7, <1>13, <1>15, <1>17 DEF Quiet, Knows, Live
    <3>2. QED
      BY <3>1 DEF Silent
  <2>4. Agree(h)'
    <3>1. Live(p) => Count(conn[p], Len(got[p])) \in Nat
      BY <1>5, ReaderFacts
    <3>2. QED
      BY <1>1, <1>6, <1>11, <1>12, <1>14, <1>15, <1>16, <3>1 DEF Agree
  <2>5. Ends(h)'
    BY <1>6, <1>15, <1>16 DEF Ends
  <2>6. Stated(h)'
    BY <1>11, <1>14 DEF Stated, Closing
  <2>7. QED
    BY <2>1, <2>2, <2>3, <2>4, <2>5, <2>6 DEF Sides
<1>19. Sides(p)'
  <2>1. Sending(p)'
    BY <1>5, <1>14, <1>15, <1>16 DEF Sending
  <2>2. Receiving(p)'
    BY <1>1, <1>5, <1>14, <1>15, <1>16 DEF Receiving, Shut
  <2>3. Silent(p)'
    <3>1. SUFFICES ASSUME Live(p) PROVE Quiet(p)'
      BY <1>15 DEF Silent
    <3>2. Arrived(conn'[h], Len(got'[h])) = 0
      BY <1>8, <1>12, <1>14, <1>16
    <3>3. QED
      BY <1>1, <1>13, <1>17, <3>2 DEF Quiet
  <2>4. Agree(p)'
    <3>1. SUFFICES ASSUME Live(p) PROVE Freed(conn[p], wrote[p]) = 0 /\ ~conn[p].finAcked
      BY <1>1, <1>8, <1>12, <1>14, <1>15, <1>16 DEF Agree
    <3>2. Ring(conn[p], wrote[p]) /\ wrote[p] = 0 /\ ~conn[p].finAcked
      BY <1>5, <1>6, <3>1 DEF Sending, Greeting
    <3>3. Len(conn[p].tx) \in Nat
      BY <1>5, <3>1, LiveFacts, Fields, Sizes
    <3>4. Len(conn[p].tx) = 0
      BY <3>2, <3>3 DEF Ring
    <3>5. QED
      BY <3>2, <3>4 DEF Freed
  <2>5. Ends(p)'
    BY <1>1, <1>5, <1>14, <1>15, <1>16 DEF Ends, Shut
  <2>6. Live(p)' => Stated(p)'
    BY <1>5, <1>14, <1>15, <1>16 DEF Stated, Shut
  <2>7. QED
    BY <2>1, <2>2, <2>3, <2>4, <2>5, <2>6 DEF Sides
<1>20. \A x \in net' : Carries(x, Peer(x.to))'
  <2>1. Carries(s, h)'
    <3>1. Arrived(conn'[h], Len(got'[h])) = 0
      BY <1>8, <1>12, <1>14, <1>16
    <3>2. 0 \in 0 .. Arrived(conn'[h], Len(got'[h]))
      BY <3>1
    <3>3. QED
      BY <1>1, <1>13, <1>15, <3>2 DEF Carries
  <2>2. ASSUME NEW x \in net', x # s PROVE x.to = h /\ Carries(x, p)'
    <3>1. x.to = h /\ x.flags = {"SYN"} /\ x.data = <<>> /\ x.seq = SeqNo(p, -1)
      BY <1>17, <2>2
    <3>2. QED
      BY <3>1 DEF Carries
  <2>3. QED
    BY <1>1, <1>13, <2>1, <2>2
<1>21. Sockets'
  <2>1. conn'[p] = conn[p]
    BY <1>14
  <2>2. QED
    BY <1>1, <1>4, <1>6, <1>11, <1>14, <1>15, <1>16, <2>1 DEF Sockets
<1>22. QED
  BY <1>1, <1>14, <1>18, <1>19, <1>20, <1>21, Hosts DEF TcpInv

\* tcp_close with the system call that makes it.
LEMMA CloseStep ==
  ASSUME TcpInv, NEW h \in Host, CloseConn(h), Closes(h), fd'[h] = "shut" => fd[h] = "open"
  PROVE  TcpInv'
<1>1. CASE ~Live(h)
  BY <1>1, CloseIdle
<1>2. CASE Live(h) /\ conn[h].state = "CLOSED"
  <2>1. fd'[h] = "shut" => ~Shut(h)
    BY DEF Shut
  <2>2. QED
    BY <1>2, <2>1, CloseLeaves
<1>3. CASE Live(h) /\ conn[h].state \in {"ESTABLISHED", "CLOSE_WAIT"}
  BY <1>3, CloseSends
<1>4. CASE Live(h) /\ conn[h].state \notin {"CLOSED", "ESTABLISHED", "CLOSE_WAIT"}
  BY <1>4, CloseQuietly
<1>5. QED
  BY <1>1, <1>2, <1>3, <1>4

\* The three calls that close.
LEMMA ClosingCalls ==
  ASSUME TcpInv, NEW h \in Host, Shutdown(h) \/ Close(h) \/ (h = "client" /\ ConnectFails)
  PROVE  CloseConn(h) /\ Closes(h) /\ (fd'[h] = "shut" => fd[h] = "open")
<1>1. h \in DOMAIN fd
  BY DEF TcpInv, Types
<1>2. CASE Shutdown(h)
  BY <1>1, <1>2 DEF Shutdown, Closes, streams
<1>3. CASE Close(h)
  <2>1. fd' = [fd EXCEPT ![h] = "closed"] /\ fd[h] \in {"open", "shut"}
    BY <1>3 DEF Close
  <2>2. fd'[h] = "closed"
    BY <1>1, <2>1
  <2>3. QED
    BY <1>3, <2>1, <2>2 DEF Close, Closes, streams
<1>4. CASE h = "client" /\ ConnectFails
  <2>1. fd' = [fd EXCEPT ![h] = "closed"] /\ fd[h] = "connecting"
    BY <1>4 DEF ConnectFails
  <2>2. fd'[h] = "closed"
    BY <1>1, <2>1
  <2>3. QED
    BY <1>4, <2>1, <2>2 DEF ConnectFails, Closes, streams
<1>5. QED
  BY <1>2, <1>3, <1>4

\* A segment arrives.
LEMMA HandleStep ==
  ASSUME TcpInv, NEW s \in net, Handle(s)
  PROVE  TcpInv'
<1>1. CASE Spawn(s)
  BY <1>1, SpawnStep
<1>2. CASE ~Spawn(s)
  <2>1. PICK h \in Host : h = s.to
    BY InvFacts DEF Segments, Host
  <2>2. conn[h] # NoConn /\ (HandleReset(h, s) \/ HandleSynSent(h, s) \/ HandleSynReceived(h, s) \/ HandleSegment(h, s))
    BY <1>2, <2>1 DEF Handle
  <2>3. Live(h)
    BY <2>2 DEF Live
  <2>4. CASE HandleReset(h, s)
    BY <2>1, <2>3, <2>4, ResetStep
  <2>5. CASE HandleSynSent(h, s)
    BY <2>1, <2>3, <2>5, SynSentStep
  <2>6. CASE HandleSynReceived(h, s)
    BY <2>1, <2>3, <2>6, QueueStep, LateStep
  <2>7. CASE HandleSegment(h, s)
    BY <2>1, <2>3, <2>7, SegmentStep
  <2>8. QED
    BY <2>2, <2>4, <2>5, <2>6, <2>7
<1>3. QED
  BY <1>1, <1>2

\* Every step keeps the invariant.
LEMMA TcpNext == ASSUME TcpInv, Next PROVE TcpInv'
<1>1. CASE Connect
  BY <1>1, ConnectStep
<1>2. CASE Connected
  BY <1>2, ConnectedStep
<1>3. CASE ConnectFails
  <2>1. PICK h \in Host : h = "client"
    BY Hosts
  <2>2. QED
    BY <1>3, <2>1, ClosingCalls, CloseStep
<1>4. CASE Listen
  BY <1>4, ListenerStep
<1>5. CASE Accept
  BY <1>5, AcceptStep
<1>6. CASE CloseListener
  BY <1>6, ListenerStep, CloseListenerQueued
<1>7. ASSUME NEW h \in Host, Send(h) PROVE TcpInv'
  BY <1>7, SendStep
<1>8. ASSUME NEW h \in Host, Recv(h) PROVE TcpInv'
  BY <1>8, ReadStep
<1>9. ASSUME NEW h \in Host, RecvEnd(h) PROVE TcpInv'
  BY <1>9, EndStep
<1>10. ASSUME NEW h \in Host, Shutdown(h) \/ Close(h) PROVE TcpInv'
  BY <1>10, ClosingCalls, CloseStep
<1>11. ASSUME NEW h \in Host, Reap(h) PROVE TcpInv'
  BY <1>11, ReapStep
<1>12. ASSUME NEW h \in Host, Rewind(h) PROVE TcpInv'
  BY <1>12, RewindOpened, RewindHandshake
<1>13. ASSUME NEW h \in Host, ResendSyn(h) PROVE TcpInv'
  BY <1>13, ResendStep
<1>14. ASSUME NEW s \in net, Handle(s) PROVE TcpInv'
  BY <1>14, HandleStep
<1>15. ASSUME NEW s \in net, Lose(s) PROVE TcpInv'
  BY <1>15, LoseStep
<1>16. QED
  BY <1>1, <1>2, <1>3, <1>4, <1>5, <1>6, <1>7, <1>8, <1>9, <1>10, <1>11, <1>12, <1>13, <1>14, <1>15 DEF Next

\* The invariant holds before anybody connects.
LEMMA TcpInit == ASSUME Init PROVE TcpInv
<1>1. /\ conn = [h \in Host |-> NoConn] /\ fd = [h \in Host |-> "none"] /\ listener = "none" /\ ~queued /\ ~spawned /\ net = {}
      /\ wrote = [h \in Host |-> 0] /\ got = [h \in Host |-> <<>>] /\ eof = [h \in Host |-> FALSE] /\ early = [h \in Host |-> FALSE]
      /\ failed = [h \in Host |-> FALSE]
  BY DEF Init
<1>2. \A h \in Host : /\ ~Live(h) /\ ~Opened(h) /\ fd[h] = "none" /\ wrote[h] = 0 /\ got[h] = <<>> /\ Len(got[h]) = 0
                      /\ ~eof[h] /\ ~early[h] /\ conn[h] = NoConn
  BY <1>1 DEF Live, Opened
<1>3. Types
  <2>1. <<>> \in Bytes /\ 0 + 2 < Modulus
    BY Sizes DEF Bytes
  <2>2. IsFiniteSet(net) /\ Cardinality(net) <= NetCap
    <3>1. Cardinality({}) = 0 /\ IsFiniteSet({}) /\ 0 <= NetCap
      BY FS_EmptySet, TcpAssumption
    <3>2. QED
      BY <1>1, <3>1
  <2>3. conn \in [Host -> Conn \union {NoConn}] /\ DOMAIN fd = Host /\ DOMAIN wrote = Host /\ DOMAIN got = Host
    BY <1>1
  <2>4. eof \in [Host -> BOOLEAN] /\ early \in [Host -> BOOLEAN] /\ failed \in [Host -> BOOLEAN]
    BY <1>1
  <2>5. QED
    BY <1>1, <1>2, <2>1, <2>2, <2>3, <2>4 DEF Types
<1>4. Sockets
  BY <1>1, <1>2, Hosts DEF Sockets
<1>5. ASSUME NEW h \in Host PROVE Sides(h)
  <2>1. Receiving(h) /\ Ends(h)
    BY <1>2, <1>5, Hosts DEF Receiving, Ends
  <2>2. QED
    BY <1>2, <2>1 DEF Sides, Sending, Silent, Agree
<1>6. QED
  BY <1>1, <1>3, <1>4, <1>5 DEF TcpInv

\* The invariant holds always: whatever is lost, delayed, repeated or reordered, a segment carries bytes its sender
\* wrote, at their numbers, a connection has read a part of what its peer wrote, and sends the rest (tcp.c).
THEOREM TcpSafe == Spec => []TcpInv
<1>1. Init => TcpInv
  BY TcpInit
<1>2. TcpInv /\ [Next]_vars => TcpInv'
  <2>1. SUFFICES ASSUME TcpInv, [Next]_vars PROVE TcpInv'
    OBVIOUS
  <2>2. CASE Next
    BY <2>1, <2>2, TcpNext
  <2>3. CASE UNCHANGED vars
    BY <2>1, <2>3, StutterStep DEF vars
  <2>4. QED
    BY <2>1, <2>2, <2>3
<1>3. QED
  BY <1>1, <1>2, PTL DEF Spec

\* The types of the invariant give those of the model.
LEMMA TypesImply == ASSUME TcpInv PROVE TypeOK
<1>1. Types /\ Sockets
  BY DEF TcpInv
<1>2. ASSUME NEW h \in Host
      PROVE  /\ conn[h] # NoConn => Len(conn[h].tx) <= BufSize /\ Len(conn[h].rx) <= BufSize
             /\ conn[h] = NoConn \/ conn[h] \in Conn
             /\ fd[h] \in {"none", "connecting", "open", "shut", "closed"}
             /\ wrote[h] \in Nat
  BY <1>1 DEF Types, Sized
<1>3. \A h \in Host : {eof[h], early[h], failed[h]} \subseteq BOOLEAN
  BY <1>1 DEF Types
<1>4. queued => conn["server"] # NoConn
  BY <1>1 DEF Sockets, Opened, Live
<1>5. QED
  BY <1>1, <1>2, <1>3, <1>4 DEF TypeOK, Types

\* What a program gave to send and the peer acknowledged is in the peer's ring or in the hands of its program, and so is
\* the FIN: tcp_input frees nothing that did not arrive.
THEOREM AcknowledgementsAreTrue == Spec => []AcksAreTrue
<1>1. TcpInv => AcksAreTrue
  <2>1. SUFFICES ASSUME TcpInv PROVE AcksAreTrue
    OBVIOUS
  <2>2. \A h \in Host : Agree(h)
    BY <2>1, InvFacts
  <2>3. AckedIsReceived
    BY <2>2 DEF AckedIsReceived, Agree, Live, Freed, Count
  <2>4. AckedFinIsSeen
    BY <2>2 DEF AckedFinIsSeen, Agree, Live
  <2>5. QED
    BY <2>1, <2>3, <2>4, TypesImply DEF AcksAreTrue
<1>2. QED
  BY <1>1, TcpSafe, PTL

\* A connection with unacknowledged data or an unacknowledged FIN has snd_nxt past snd_una, the condition under which
\* tcp_poll sends again, unless its timer fired during the handshake or its last tcp_drain_tx was stopped by a send
\* that failed.
THEOREM TimerStaysArmed == Spec => []TimerArmed
<1>1. TcpInv => TimerArmed
  <2>1. SUFFICES ASSUME TcpInv, NEW h \in Host, NEW c, c = conn[h], c # NoConn, ~failed[h], ~early[h],
                        c.tx # <<>> \/ (c.state \in Closing /\ ~c.finAcked)
                 PROVE  c.nxt # c.una
    BY DEF TimerArmed
  <2>2. Sending(h) /\ Live(h) /\ Types
    BY <2>1, InvFacts DEF Live
  <2>3. CASE Opened(h)
    BY <2>1, <2>2, <2>3 DEF Sending, Armed
  <2>4. CASE ~Opened(h)
    <3>1. Ring(c, wrote[h]) /\ wrote[h] = 0 /\ c.state \notin Closing
      BY <2>1, <2>2, <2>4 DEF Sending, Greeting, Opened, Handshake, Closing
    <3>2. Sized(c)
      BY <2>1, <2>2, LiveFacts
    <3>3. c.tx \in Bytes /\ Len(c.tx) \in Nat
      BY <3>2, Fields, Sizes
    <3>4. Len(c.tx) = 0
      BY <3>1, <3>3 DEF Ring
    <3>5. c.tx = <<>>
      BY <3>3, <3>4, EmptySeq DEF Bytes
    <3>6. QED
      BY <2>1, <3>1, <3>5
  <2>5. QED
    BY <2>3, <2>4
<1>2. QED
  BY <1>1, TcpSafe, PTL

-----------------------------------------------------------------------------
\* The streams the programs see.

\* A step that gives and takes no byte and closes nothing is a stutter of the streams.
LEMMA StreamsStill ==
  ASSUME UNCHANGED <<wrote, got, eof, refused>>, \A h \in Host : Shut(h)' <=> Shut(h)
  PROVE  UNCHANGED Streams!svars
<1>1. [h \in Host |-> fd[h] \in {"shut", "closed"}]' = [h \in Host |-> fd[h] \in {"shut", "closed"}]
  BY DEF Shut
<1>2. QED
  BY <1>1 DEF Streams!svars

\* close and shutdown end a stream, as a connect that fails does.
LEMMA StreamShut ==
  ASSUME TcpInv, NEW h \in Host, Shutdown(h) \/ Close(h) \/ (h = "client" /\ ConnectFails)
  PROVE  Streams!Shut(h)
<1>1. Closes(h) /\ Types
  BY ClosingCalls DEF TcpInv
<1>2. /\ fd'[h] \in {"shut", "closed"} /\ fd'[Peer(h)] = fd[Peer(h)]
      /\ wrote' = wrote /\ got' = got /\ eof' = eof /\ refused' = refused
  BY <1>1, ClosesFacts
<1>3. [x \in Host |-> fd[x] \in {"shut", "closed"}]' = [[x \in Host |-> fd[x] \in {"shut", "closed"}] EXCEPT ![h] = TRUE]
  <2>1. PICK a, b : a = [x \in Host |-> fd[x] \in {"shut", "closed"}] /\ b = [x \in Host |-> fd'[x] \in {"shut", "closed"}]
    OBVIOUS
  <2>2. a \in [Host -> BOOLEAN] /\ b \in [Host -> BOOLEAN]
    BY <2>1
  <2>3. b[h] = TRUE /\ \A x \in Host : x # h => b[x] = a[x]
    <3>1. b[h] = TRUE
      BY <1>2, <2>1
    <3>2. ASSUME NEW x \in Host, x # h PROVE b[x] = a[x]
      <4>1. fd'[x] = fd[x]
        BY <1>2, <3>2, Hosts
      <4>2. QED
        BY <2>1, <4>1
    <3>3. QED
      BY <3>1, <3>2
  <2>4. [a EXCEPT ![h] = TRUE] \in [Host -> BOOLEAN]
    BY <2>2
  <2>5. \A x \in Host : b[x] = [a EXCEPT ![h] = TRUE][x]
    BY <2>2, <2>3, Zenon
  <2>6. b = [a EXCEPT ![h] = TRUE]
    BY <2>2, <2>4, <2>5, Zenon
  <2>7. QED
    BY <2>1, <2>6
<1>4. QED
  BY <1>2, <1>3 DEF Streams!Shut

\* send writes to a stream.
LEMMA StreamWrite == ASSUME TcpInv, NEW h \in Host, Send(h) PROVE Streams!Write(h)
<1>1. /\ fd[h] = "open" /\ conn[h] # NoConn /\ UNCHANGED <<fd, got, eof, refused>>
      /\ \E n \in 1..BufSize - Len(conn[h].tx) : wrote' = [wrote EXCEPT ![h] = @ + n]
  BY DEF Send, socks
<1>2. Sized(conn[h])
  BY <1>1, InvFacts DEF Live
<1>3. \A n \in 1..BufSize - Len(conn[h].tx) : n \in 1..BufSize
  <2>1. Len(conn[h].tx) \in Nat /\ BufSize \in Nat
    BY <1>2, Fields, Sizes
  <2>2. QED
    BY <2>1
<1>4. \E n \in 1..BufSize : wrote' = [wrote EXCEPT ![h] = @ + n]
  BY <1>1, <1>3
<1>5. ~[x \in Host |-> fd[x] \in {"shut", "closed"}][h]
  BY <1>1
<1>6. [x \in Host |-> fd[x] \in {"shut", "closed"}]' = [x \in Host |-> fd[x] \in {"shut", "closed"}]
  BY <1>1
<1>7. QED
  BY <1>1, <1>4, <1>5, <1>6 DEF Streams!Write

\* recv reads the next bytes of a stream.
LEMMA StreamRead == ASSUME TcpInv, TcpInv', NEW h \in Host, Recv(h) PROVE Streams!Read(h)
<1>1. /\ fd[h] \in {"open", "shut"} /\ conn[h] # NoConn /\ UNCHANGED <<fd, wrote, eof, refused>>
  BY DEF Recv, socks
<1>2. PICK n \in 1..Len(conn[h].rx) : got' = [got EXCEPT ![h] = @ \o SubSeq(conn[h].rx, 1, n)]
  BY DEF Recv
<1>3. Types /\ Ends(h) /\ Sized(conn[h]) /\ Types' /\ Receiving(h)' /\ DOMAIN got = Host /\ got[h] \in Bytes /\ Live(h)
  <2>1. Types /\ Ends(h) /\ Sized(conn[h]) /\ Live(h)
    BY <1>1, InvFacts DEF Live
  <2>2. Types' /\ Receiving(h)'
    BY DEF TcpInv, Sides
  <2>3. QED
    BY <2>1, <2>2 DEF Types
<1>4. conn[h].rx \in Bytes /\ Len(conn[h].rx) \in Nat /\ n \in Nat /\ 1 <= n /\ n <= Len(conn[h].rx)
  <2>1. conn[h].rx \in Bytes /\ Len(conn[h].rx) \in 0 .. BufSize
    BY <1>3, Fields
  <2>2. PICK l \in Nat : l = Len(conn[h].rx)
    BY <2>1
  <2>3. n \in 1 .. l
    BY <1>2, <2>2
  <2>4. QED
    BY <2>1, <2>2, <2>3
<1>5. ~eof[h]
  <2>1. conn[h].rx # <<>>
    BY <1>4
  <2>2. QED
    BY <1>3, <2>1 DEF Ends
<1>6. PICK q : q = got[h] \o SubSeq(conn[h].rx, 1, n)
  OBVIOUS
<1>7. q \in Bytes /\ Len(q) = Len(got[h]) + n
  BY <1>3, <1>4, <1>6, Joined
<1>8. got' = [got EXCEPT ![h] = q] /\ got'[h] = q
  BY <1>2, <1>3, <1>6
<1>9. Len(q) <= wrote'[Peer(h)] /\ \A i \in 1..Len(q) : q[i] = i
  BY <1>3, <1>8 DEF Receiving
<1>10. q = [k \in 1..Len(q) |-> k]
  BY <1>7, <1>9 DEF Bytes
<1>11. Len(q) \in Len(got[h]) + 1..wrote[Peer(h)]
  <2>1. Len(got[h]) \in Nat /\ wrote[Peer(h)] \in Nat /\ wrote' = wrote
    BY <1>1, <1>3, LiveFacts, Hosts
  <2>2. QED
    BY <1>4, <1>7, <1>9, <2>1
<1>12. \E m \in Len(got[h]) + 1..wrote[Peer(h)] : got' = [got EXCEPT ![h] = [k \in 1..m |-> k]]
  <2>1. PICK m : m = Len(q)
    OBVIOUS
  <2>2. q = [k \in 1..m |-> k] /\ m \in Len(got[h]) + 1..wrote[Peer(h)]
    BY <1>10, <1>11, <2>1
  <2>3. QED
    BY <1>8, <2>2
<1>13. [x \in Host |-> fd[x] \in {"shut", "closed"}]' = [x \in Host |-> fd[x] \in {"shut", "closed"}]
  BY <1>1
<1>14. QED
  BY <1>1, <1>5, <1>12, <1>13 DEF Streams!Read

\* recv returns 0 at the end of the stream of the peer, when all of it was read.
LEMMA StreamEnd == ASSUME TcpInv, NEW h \in Host, RecvEnd(h) PROVE Streams!ReadEnd(h)
<1>1. /\ fd[h] \in {"open", "shut"}
      /\ conn[h] # NoConn => conn[h].peerFin /\ conn[h].rx = <<>>
      /\ eof' = [eof EXCEPT ![h] = TRUE] /\ UNCHANGED <<fd, wrote, got, refused>>
  BY DEF RecvEnd, socks
<1>2. Types /\ Ends(h) /\ Receiving(h) /\ Peer(h) \in Host
  BY InvFacts, Hosts
<1>3. refused \/ (Shut(Peer(h)) /\ Len(got[h]) = wrote[Peer(h)])
  <2>1. CASE ~Live(h)
    BY <1>1, <1>2, <2>1 DEF Ends
  <2>2. CASE Live(h)
    <3>1. Shut(Peer(h)) /\ Count(conn[h], Len(got[h])) = wrote[Peer(h)] /\ Len(conn[h].rx) = 0
      BY <1>1, <1>2, <2>2 DEF Receiving, Reading, Live
    <3>2. Len(got[h]) \in Nat
      BY <1>2, LiveFacts
    <3>3. QED
      BY <3>1, <3>2 DEF Count
  <2>3. QED
    BY <2>1, <2>2
<1>4. refused \/ ([x \in Host |-> fd[x] \in {"shut", "closed"}][Peer(h)] /\ Len(got[h]) = wrote[Peer(h)])
  BY <1>2, <1>3 DEF Shut
<1>5. [x \in Host |-> fd[x] \in {"shut", "closed"}]' = [x \in Host |-> fd[x] \in {"shut", "closed"}]
  BY <1>1
<1>6. QED
  BY <1>1, <1>4, <1>5 DEF Streams!ReadEnd

\* What the programs see of the other steps: nothing, or a connection that is refused.
LEMMA QuietSteps ==
  ASSUME TcpInv,
         \/ Connect \/ Connected \/ Listen \/ Accept \/ (CloseListener /\ ~queued)
         \/ \E h \in Host : Reap(h) \/ Rewind(h) \/ ResendSyn(h)
         \/ \E s \in net : Lose(s) \/ Spawn(s) \/ \E h \in Host : HandleReset(h, s) \/ HandleSynSent(h, s) \/ HandleSegment(h, s)
         \/ \E s \in net, h \in Host : HandleSynReceived(h, s) /\ listener = "listening"
  PROVE  UNCHANGED Streams!svars
<1>1. Types /\ Sockets /\ DOMAIN fd = Host
  BY DEF TcpInv, Types
<1>2. UNCHANGED <<wrote, got, eof, refused>>
  <2>1. CASE Connect \/ Connected \/ Listen \/ Accept \/ (CloseListener /\ ~queued)
    BY <2>1 DEF Connect, Connected, Listen, Accept, CloseListener, streams
  <2>2. CASE \E h \in Host : Reap(h) \/ Rewind(h) \/ ResendSyn(h)
    BY <2>2 DEF Reap, Rewind, ResendSyn, streams
  <2>3. ASSUME NEW s \in net, Lose(s) \/ Spawn(s) PROVE UNCHANGED <<wrote, got, eof, refused>>
    BY <2>3 DEF Lose, Spawn, streams
  <2>4. ASSUME NEW s \in net, NEW h \in Host, HandleReset(h, s) \/ HandleSynSent(h, s) PROVE UNCHANGED <<wrote, got, eof, refused>>
    BY <2>4 DEF HandleReset, HandleSynSent, streams
  <2>5. ASSUME NEW s \in net, NEW h \in Host, HandleSegment(h, s) PROVE UNCHANGED <<wrote, got, eof, refused>>
    BY <2>5 DEF HandleSegment, streams
  <2>6. ASSUME NEW s \in net, NEW h \in Host, HandleSynReceived(h, s), listener = "listening"
        PROVE  UNCHANGED <<wrote, got, eof, refused>>
    BY <2>6 DEF HandleSynReceived, streams
  <2>7. QED
    BY <2>1, <2>2, <2>3, <2>4, <2>5, <2>6
<1>3. \/ fd' = fd
      \/ fd["client"] \in {"none", "connecting"} /\ fd' = [fd EXCEPT !["client"] = "connecting"]
      \/ fd["client"] \in {"none", "connecting"} /\ fd' = [fd EXCEPT !["client"] = "open"]
      \/ fd["server"] = "none" /\ fd' = [fd EXCEPT !["server"] = "open"]
  <2>1. Accept => fd["server"] = "none"
    BY <1>1 DEF Accept, Sockets
  <2>2. QED
    BY <2>1 DEF Connect, Connected, Listen, Accept, CloseListener, Reap, Rewind, ResendSyn, Lose, Spawn, HandleReset, HandleSynSent,
                HandleSegment, HandleSynReceived, socks
<1>4. \A h \in Host : Shut(h)' <=> Shut(h)
  BY <1>1, <1>3, Hosts DEF Shut
<1>5. QED
  BY <1>2, <1>4, StreamsStill

\* A listener that goes away refuses the connection.
LEMMA StreamRefuse ==
  ASSUME TcpInv, (CloseListener /\ queued) \/ \E s \in net, h \in Host : HandleSynReceived(h, s) /\ listener # "listening"
  PROVE  Streams!Refuse
<1>1. refused' = TRUE /\ UNCHANGED <<fd, wrote, got, eof>>
  BY DEF CloseListener, HandleSynReceived
<1>2. [x \in Host |-> fd[x] \in {"shut", "closed"}]' = [x \in Host |-> fd[x] \in {"shut", "closed"}]
  BY <1>1
<1>3. QED
  BY <1>1, <1>2 DEF Streams!Refuse

\* Every step is a step of the two streams, or a stutter.
LEMMA StreamStep == ASSUME TcpInv, TcpInv', [Next]_vars PROVE [Streams!Next]_(Streams!svars)
<1> DEFINE Goal == Streams!Next \/ UNCHANGED Streams!svars
<1>1. ASSUME Connect \/ Connected \/ Listen \/ Accept PROVE Goal
  BY <1>1, QuietSteps
<1>2. ASSUME CloseListener PROVE Goal
  <2>1. CASE queued
    BY <1>2, <2>1, StreamRefuse DEF Streams!Next
  <2>2. CASE ~queued
    BY <1>2, <2>2, QuietSteps
  <2>3. QED
    BY <2>1, <2>2
<1>11. ASSUME NEW h \in Host, Reap(h) \/ Rewind(h) \/ ResendSyn(h) PROVE Goal
  BY <1>11, QuietSteps
<1>12. ASSUME NEW s \in net, \/ Lose(s) \/ Spawn(s)
                            \/ \E h \in Host : HandleReset(h, s) \/ HandleSynSent(h, s) \/ HandleSegment(h, s)
       PROVE  Goal
  BY <1>12, QuietSteps
<1>13. ASSUME NEW s \in net, NEW h \in Host, HandleSynReceived(h, s) PROVE Goal
  <2>1. CASE listener # "listening"
    BY <1>13, <2>1, StreamRefuse DEF Streams!Next
  <2>2. CASE listener = "listening"
    BY <1>13, <2>2, QuietSteps
  <2>3. QED
    BY <2>1, <2>2
<1>14. ASSUME ConnectFails PROVE Goal
  <2>1. PICK h \in Host : h = "client"
    BY Hosts
  <2>2. Streams!Shut(h)
    BY <1>14, <2>1, StreamShut
  <2>3. QED
    BY <2>2 DEF Streams!Next
<1>3. ASSUME NEW h \in Host, Shutdown(h) \/ Close(h) PROVE Goal
  <2>1. Streams!Shut(h)
    BY <1>3, StreamShut
  <2>2. QED
    BY <2>1 DEF Streams!Next
<1>4. ASSUME NEW h \in Host, Send(h) PROVE Goal
  <2>1. Streams!Write(h)
    BY <1>4, StreamWrite
  <2>2. QED
    BY <2>1 DEF Streams!Next
<1>5. ASSUME NEW h \in Host, Recv(h) PROVE Goal
  <2>1. Streams!Read(h)
    BY <1>5, StreamRead
  <2>2. QED
    BY <2>1 DEF Streams!Next
<1>6. ASSUME NEW h \in Host, RecvEnd(h) PROVE Goal
  <2>1. Streams!ReadEnd(h)
    BY <1>6, StreamEnd
  <2>2. QED
    BY <2>1 DEF Streams!Next
<1>7. ASSUME UNCHANGED vars PROVE Goal
  BY <1>7, StreamsStill DEF vars, Shut
<1> HIDE DEF Goal
<1>8. ASSUME NEW s \in net, Handle(s) PROVE Goal
  <2>1. CASE Spawn(s)
    BY <1>12, <2>1
  <2>2. CASE ~Spawn(s)
    <3>1. PICK h \in Host : HandleReset(h, s) \/ HandleSynSent(h, s) \/ HandleSynReceived(h, s) \/ HandleSegment(h, s)
      <4>1. s.to \in Host
        BY InvFacts, Hosts DEF Segments
      <4>2. QED
        BY <1>8, <2>2, <4>1 DEF Handle
    <3>2. CASE HandleReset(h, s) \/ HandleSynSent(h, s) \/ HandleSegment(h, s)
      BY <1>12, <3>2
    <3>3. CASE HandleSynReceived(h, s)
      BY <1>13, <3>3
    <3>4. QED
      BY <3>1, <3>2, <3>3
  <2>3. QED
    BY <2>1, <2>2
<1>9. ASSUME Next PROVE Goal
  <2>1. ASSUME NEW h \in Host, Send(h) \/ Recv(h) \/ RecvEnd(h) \/ Shutdown(h) \/ Close(h) PROVE Goal
    BY <1>3, <1>4, <1>5, <1>6, <2>1
  <2>2. ASSUME NEW h \in Host,
               Send(h) \/ Recv(h) \/ RecvEnd(h) \/ Shutdown(h) \/ Close(h) \/ Reap(h) \/ Rewind(h) \/ ResendSyn(h)
        PROVE  Goal
    BY <1>11, <2>1, <2>2
  <2>3. ASSUME NEW s \in net, Handle(s) \/ Lose(s) PROVE Goal
    BY <1>8, <1>12, <2>3
  <2>4. ASSUME Connect \/ Connected \/ ConnectFails \/ Listen \/ Accept \/ CloseListener PROVE Goal
    BY <1>1, <1>2, <1>14, <2>4
  <2>5. QED
    BY <1>9, <2>2, <2>3, <2>4 DEF Next
<1>10. QED
  BY <1>7, <1>9 DEF Goal

\* TCP implements two byte streams: what a program reads is what the other wrote, in order and without a gap, and it
\* sees the end only after all of it, whatever the network loses, delays, repeats or reorders.
THEOREM TcpImplementsByteStreams == Spec => ImplementsByteStreams
<1>1. Init => Streams!Init
  <2>1. SUFFICES ASSUME Init PROVE Streams!Init
    OBVIOUS
  <2>2. \A h \in Host : fd[h] = "none"
    BY <2>1 DEF Init
  <2>3. \A h \in Host : (fd[h] \in {"shut", "closed"}) = FALSE
    BY <2>2
  <2>5. [h \in Host |-> fd[h] \in {"shut", "closed"}] = [h \in Host |-> FALSE]
    BY <2>3, Zenon
  <2>6. QED
    BY <2>1, <2>5 DEF Init, Streams!Init
<1>2. TcpInv /\ TcpInv' /\ [Next]_vars => [Streams!Next]_(Streams!svars)
  BY StreamStep
<1>3. QED
  BY <1>1, <1>2, TcpSafe, PTL DEF Spec, Streams!Spec, ImplementsByteStreams
=============================================================================
