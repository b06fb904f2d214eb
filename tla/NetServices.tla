---------------------------- MODULE NetServices ----------------------------
(***************************************************************************)
(* The protocols beside TCP that the kernel itself speaks: the resolver    *)
(* (core/dns.c) over the table of UDP ports (core/udp.c), the lease of the *)
(* boot (core/dhcp.c) and the table of neighbours (core/net.c).  A datagram *)
(* on the way may come late, twice, in any order or never; any thread that *)
(* calls net_poll delivers it.  A resolver gives up the CPU at yield()     *)
(* only.                                                                   *)
(***************************************************************************)
EXTENDS Integers, Sequences, FiniteSets, FiniteSetsExt

CONSTANTS Resolvers,  \* threads in sys_resolve
          Hosts,      \* the names asked for
          Ports, Xids,  \* what pick_port and pick_xid return
          BindCap,    \* UDP_BIND_CAP
          Servers,    \* DHCP servers that answer
          Ips, Macs,  \* of the neighbours heard
          ArpCap      \* ARP_CACHE_CAP

ASSUME NetAssumption == /\ BindCap \in Nat /\ ArpCap \in Nat \ {0} /\ Servers \subseteq Nat \ {0}
                        /\ Ports \subseteq Nat \ {0}   \* pick_port: 49152 and up

VARIABLES
    asking,   \* what each thread asks for, its port and its transaction id; NoQuery
    overlap,  \* history: the threads whose query met another one's
    answer,   \* history: what each thread's last query returned
    slot,     \* g_pending, g_xid and g_resp
    ports,    \* the ports bound to dns_rx
    replies,  \* what the server sent
    dhcp,     \* where dhcp_acquire is, g_state, and what g_offered_* and g_have_router were filled from
    lease,    \* the configuration of the interface
    late,     \* history: a packet came between the ACK and the lease
    arp,      \* g_arp, as a sequence
    heard     \* history: the last address heard of each neighbour

dnsVars == <<asking, overlap, answer, slot, ports, replies>>
dhcpVars == <<dhcp, lease, late>>
arpVars == <<arp, heard>>
netVars == <<dnsVars, dhcpVars, arpVars>>

NoQuery == [host |-> "", port |-> 0, xid |-> 0]
NoReply == [host |-> "", port |-> 0, xid |-> 0, ok |-> FALSE]
Failed  == [asked |-> "", got |-> ""]
NoLease == [ip |-> 0, router |-> <<"none", 0>>]

NetInit ==
    /\ asking = [t \in Resolvers |-> NoQuery] /\ overlap = {} /\ answer = [t \in Resolvers |-> Failed]
    /\ slot = [pending |-> FALSE, xid |-> 0, resp |-> NoReply]
    /\ ports = {} /\ replies = {}
    /\ dhcp = [pc |-> "boot", state |-> "INIT", ip |-> 0, router |-> 0, type |-> ""]
    /\ lease = NoLease /\ late = FALSE
    /\ arp = <<>> /\ heard = [i \in Ips |-> 0]

(***************************************************************************)
(* The resolver.                                                           *)
(***************************************************************************)
Busy == {t \in Resolvers : asking[t] # NoQuery}

\* dns_resolve up to its loop.  pick_port and pick_xid read the cycle counter: the pair is not
\* that of a reply which is still on the way.
Resolve(t, host, p, x) ==
    LET query == [host |-> host, port |-> p, xid |-> x]
    IN  /\ t \notin Busy
        /\ \A r \in replies : <<r.port, r.xid>> # <<p, x>>
        /\ p \in ports \/ Cardinality(ports) < BindCap
        /\ ports' = ports \union {p}
        /\ slot' = [pending |-> TRUE, xid |-> x, resp |-> NoReply]
        /\ asking' = [asking EXCEPT ![t] = query]
        /\ answer' = [answer EXCEPT ![t] = Failed]
        /\ overlap' = IF Busy = {} THEN overlap \ {t} ELSE overlap \union Busy \union {t}
        /\ \E ok \in BOOLEAN :
              replies' = replies \union {[host |-> host, port |-> p, xid |-> x, ok |-> ok]}
        /\ UNCHANGED <<dhcpVars, arpVars>>

\* udp_bind finds no room, or udp_send fails: the slot and the port are given back.
ResolveFails(t, p, x) ==
    /\ t \notin Busy
    /\ answer' = [answer EXCEPT ![t] = Failed]
    /\ IF p \notin ports /\ Cardinality(ports) >= BindCap
       THEN UNCHANGED <<slot, ports, overlap>>
       ELSE /\ slot' = [pending |-> FALSE, xid |-> x, resp |-> NoReply]
            /\ ports' = ports \ {p} /\ overlap' = overlap \union Busy
    /\ UNCHANGED <<asking, replies, dhcpVars, arpVars>>

\* Mutant: any answer at the port is taken.
DnsRx_AnyXid(r) == IF slot.pending THEN [slot EXCEPT !.pending = FALSE, !.resp = r] ELSE slot

\* dns_rx: an answer nobody waits for, or to another query, is dropped.
DnsRx(r) ==
    IF slot.pending /\ r.xid = slot.xid THEN [slot EXCEPT !.pending = FALSE, !.resp = r] ELSE slot

\* udp_handle: the callback of the port, when it is bound.
Datagram(r) ==
    /\ r \in replies
    /\ slot' = IF r.port \in ports THEN DnsRx(r) ELSE slot
    /\ \/ replies' = replies \ {r}
       \/ UNCHANGED replies
    /\ UNCHANGED <<asking, overlap, answer, ports, dhcpVars, arpVars>>

\* The network forgets a reply.
Drop(r) ==
    /\ r \in replies /\ replies' = replies \ {r}
    /\ UNCHANGED <<asking, overlap, answer, slot, ports, dhcpVars, arpVars>>

\* The loop ends when the slot is answered or after three seconds; parse_answer wants an A record.
Resolved(t) ==
    /\ t \in Busy
    /\ ports' = ports \ {asking[t].port}
    /\ slot' = [slot EXCEPT !.pending = FALSE]
    /\ answer' = [answer EXCEPT ![t] = IF slot.pending \/ ~slot.resp.ok THEN Failed
                                       ELSE [asked |-> asking[t].host, got |-> slot.resp.host]]
    /\ asking' = [asking EXCEPT ![t] = NoQuery]
    /\ UNCHANGED <<overlap, replies, dhcpVars, arpVars>>

DnsNext ==
    \/ \E t \in Resolvers, p \in Ports, x \in Xids :
          ResolveFails(t, p, x) \/ \E h \in Hosts : Resolve(t, h, p, x)
    \/ \E r \in replies : Datagram(r) \/ Drop(r)
    \/ \E t \in Resolvers : Resolved(t)

(***************************************************************************)
(* The lease.                                                              *)
(***************************************************************************)
\* parse_options forgets the packet before.
Parsed(ip, router, type) ==
    [dhcp EXCEPT !.ip = ip, !.router = router, !.type = type]

\* dhcp_rx, of a packet with or without a router: what it says is stored whatever the state is.
DhcpRx(s, type, router) ==
    LET told == Parsed(s, IF router THEN s ELSE 0, type)
    IN  /\ dhcp.pc \in {"discover", "request"}
        /\ late' = (late \/ dhcp.state = "BOUND")
        /\ dhcp' = CASE type = "OFFER" /\ dhcp.state = "INIT" -> [told EXCEPT !.state = "OFFERED"]
                     [] type = "ACK" /\ dhcp.state = "OFFERED" -> [told EXCEPT !.state = "BOUND"]
                     [] OTHER -> told
        /\ UNCHANGED <<lease, dnsVars, arpVars>>

Discover ==
    /\ dhcp.pc = "boot" /\ dhcp' = [dhcp EXCEPT !.pc = "discover"]
    /\ UNCHANGED <<lease, late, dnsVars, arpVars>>

\* The REQUEST is sent when an offer is there; anything else ends the attempt.
Request ==
    /\ dhcp.pc = "discover"
    /\ dhcp' = [dhcp EXCEPT !.pc = IF dhcp.state = "OFFERED" THEN "request" ELSE "gave up"]
    /\ UNCHANGED <<lease, late, dnsVars, arpVars>>

\* The loop after the REQUEST ends: a lease without a router gets one made from its address.
Acquire ==
    /\ dhcp.pc = "request"
    /\ IF dhcp.state = "BOUND"
       THEN /\ dhcp' = [dhcp EXCEPT !.pc = "done"]
            /\ lease' = [ip |-> dhcp.ip,
                         router |-> IF dhcp.router = 0 THEN <<"made", dhcp.ip>> ELSE <<"told", dhcp.router>>]
       ELSE dhcp' = [dhcp EXCEPT !.pc = "gave up"] /\ UNCHANGED lease
    /\ UNCHANGED <<late, dnsVars, arpVars>>

DhcpNext ==
    \/ Discover \/ Request \/ Acquire
    \/ \E s \in Servers, type \in {"OFFER", "ACK", "NAK"}, router \in BOOLEAN : DhcpRx(s, type, router)

(***************************************************************************)
(* The neighbours.                                                         *)
(***************************************************************************)
\* arp_insert: in place, in the first free entry, or in place of the first one.
ArpInsert(ip, mac) ==
    LET known == {i \in DOMAIN arp : arp[i].ip = ip}
        entry == [ip |-> ip, mac |-> mac]
    IN  /\ arp' = CASE known # {} -> [arp EXCEPT ![Min(known)] = entry]
                    [] known = {} /\ Len(arp) < ArpCap -> Append(arp, entry)
                    [] OTHER -> [arp EXCEPT ![1] = entry]
        /\ heard' = [heard EXCEPT ![ip] = mac]
        /\ UNCHANGED <<dnsVars, dhcpVars>>

ArpNext == \E ip \in Ips, mac \in Macs : ArpInsert(ip, mac)

NetNext == DnsNext \/ DhcpNext \/ ArpNext

NetSpec == NetInit /\ [][NetNext]_netVars

(***************************************************************************)
(* Properties.                                                             *)
(***************************************************************************)
\* dns.c: "callbacks for stale ports / xids are dropped": an address that is returned belongs to
\* the name that was asked for, whatever late answers come, when no other query was under way.
AnswerIsMine == \A t \in Resolvers \ overlap : answer[t].asked = answer[t].got

\* However queries end, and also when they meet, the slot and the ports are free after the last.
NothingBoundIdle == Busy = {} => ports = {} /\ ~slot.pending

\* The lease is of one packet, also when servers answer in turns: its router is not the one
\* another server told; and it is what an ACK said, unless one more packet came before it was
\* applied.
LeaseIsOnePacket ==
    lease # NoLease => lease.router[2] = lease.ip /\ (dhcp.type = "ACK" \/ late)

\* An address is in the table once, with what its owner said last.
NeighboursAreCurrent ==
    /\ Len(arp) <= ArpCap
    /\ \A i, j \in DOMAIN arp : arp[i].ip = arp[j].ip => i = j
    /\ \A i \in DOMAIN arp : arp[i].mac = heard[arp[i].ip]

NetServicesSound == AnswerIsMine /\ NothingBoundIdle /\ LeaseIsOnePacket /\ NeighboursAreCurrent
=============================================================================
