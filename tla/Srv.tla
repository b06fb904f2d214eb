-------------------------------- MODULE Srv --------------------------------
(***************************************************************************)
(* kernel/core/srv.c: the /srv name bus.  A service binds a name and       *)
(* accepts; a client connects to the name; the two then exchange datagrams *)
(* over a queue in each direction.                                         *)
(*                                                                         *)
(* A step is what a call does between two points where it may block in     *)
(* thread_block_on: srv.c counts on calls that do not interleave anywhere  *)
(* else ("cooperative scheduler").  A blocked thread is in `asleep' until  *)
(* thread_wake_blocked of its token or a signal wakes it, and then goes    *)
(* round its loop again.                                                   *)
(***************************************************************************)
EXTENDS Naturals, SequencesExt

CONSTANTS Client, Service,  \* the threads
          Name,             \* the paths under /srv
          SrvConn,             \* the struct srv_conn of one execution
          MaxListeners,     \* SRV_MAX_LISTENERS
          MaxPending,       \* SRV_PENDING_MAX
          MaxMsgs,          \* SRV_QUEUE_MSGS
          MaxSends,         \* bound: datagrams in each direction of a connection
          Interrupted,      \* the calls during which signals arrive
          Hasty,            \* may others act before a client woken in srv_connect has run?
          Unset

ASSUME SrvAssumption ==
    /\ Client \cap Service = {}
    /\ Unset \notin Name /\ Unset \notin 1..MaxListeners /\ Unset \notin SrvConn \X {"client", "service"}
    /\ {MaxListeners, MaxPending, MaxMsgs, MaxSends} \subseteq Nat \ {0}
    /\ Interrupted \subseteq {"connect", "accept", "read", "write"}
    /\ Hasty \in BOOLEAN

Party == Client \union Service
Slot == 1..MaxListeners
Side == {"client", "service"}
OtherSide(side) == IF side = "client" THEN "service" ELSE "client"
Endpoint == SrvConn \X Side

VARIABLES
    listen,   \* g_listeners: the name (Unset when not in use) and the pending queue
    lfd,      \* the slot behind the listen descriptor of each service, or Unset
    holds,    \* the connection ends each thread has a descriptor of
    life,     \* each struct srv_conn: "unborn", "live" or "freed"
    open,     \* client_open and service_open
    queue,    \* what each side has yet to read
    sent,     \* how many datagrams were sent to each side
    op,       \* the blocking call each thread is in
    asleep,   \* the threads that are BLOCKED
    sig       \* the threads with a pending signal

conns == <<life, open, queue, sent>>
srvVars == <<listen, lfd, holds, life, open, queue, sent, op, asleep, sig>>

NoCall == [call |-> "none", slot |-> Unset, end |-> Unset]

SrvInit ==
    /\ listen = [i \in Slot |-> [name |-> Unset, pending |-> <<>>]]
    /\ lfd = [s \in Service |-> Unset]
    /\ holds = [t \in Party |-> {}]
    /\ life = [k \in SrvConn |-> "unborn"]
    /\ open = [e \in Endpoint |-> FALSE]
    /\ queue = [e \in Endpoint |-> <<>>]
    /\ sent = [e \in Endpoint |-> 0]
    /\ op = [t \in Party |-> NoCall]
    /\ asleep = {}
    /\ sig = {}

-----------------------------------------------------------------------------
\* Who is blocked on a listener, and on a connection.
OnListener(i) == { t \in asleep : op[t].call = "accept" /\ op[t].slot = i }
OnConn(k) == { t \in asleep : op[t].call \in {"connect", "read", "write"} /\ op[t].end[1] = k }

Bound(n) == { i \in Slot : listen[i].name = n }

\* Is the client of k inside srv_connect, and has it yet to run there?
Connecting(k) == \E c \in Client : op[c].call = "connect" /\ op[c].end = <<k, "client">>
Stirring == { c \in Client \ asleep : op[c].call = "connect" }

\* Nothing happens to k, or to slot i, before its client has run (see Hasty).
Undisturbed(k) == Hasty \/ \A c \in Stirring : op[c].end[1] # k
Unhurried(i) == Hasty \/ \A c \in Stirring : op[c].slot # i \/ open[<<op[c].end[1], "service">>]

\* t returns from its call; a signal that arrived is delivered on the way.
Returns(t) == op' = [op EXCEPT ![t] = NoCall] /\ sig' = sig \ {t}

\* Party t may go on with the given call.
Begins(t) == op[t] = NoCall
Resumes(t, call) == op[t].call = call /\ t \notin asleep

\* t blocks, after the threads of W were woken.
Blocks(t, o, W) ==
    /\ op' = [op EXCEPT ![t] = o]
    /\ asleep' = (asleep \ W) \union {t}
    /\ UNCHANGED sig

\* srv_bind: the first free slot, unless the name is taken.
Bind(s, n) ==
    /\ Begins(s) /\ lfd[s] = Unset
    /\ Bound(n) = {}
    /\ \E i \in Bound(Unset) :
           /\ Unhurried(i)
           /\ \A j \in Bound(Unset) : i <= j
           /\ listen' = [listen EXCEPT ![i] = [name |-> n, pending |-> <<>>]]
           /\ lfd' = [lfd EXCEPT ![s] = i]
    /\ UNCHANGED <<holds, conns, op, asleep, sig>>

\* srv_unref_listen: the clients in the queue are turned away.
Unbind(s) ==
    /\ Begins(s) /\ lfd[s] # Unset
    /\ Unhurried(lfd[s])
    /\ LET waiting == Range(listen[lfd[s]].pending)
       IN  asleep' = asleep \ UNION ({ OnConn(k) : k \in waiting } \union
                                     IF waiting = {} THEN {} ELSE {OnListener(lfd[s])})
    /\ listen' = [listen EXCEPT ![lfd[s]] = [name |-> Unset, pending |-> <<>>]]
    /\ lfd' = [lfd EXCEPT ![s] = Unset]
    /\ UNCHANGED <<holds, conns, op, sig>>

\* srv_accept takes the head of the queue and wakes its client.
Take(s, i) ==
    LET k == Head(listen[i].pending)
    IN  /\ Undisturbed(k)
        /\ listen' = [listen EXCEPT ![i].pending = Tail(@)]
        /\ asleep' = asleep \ OnConn(k)
        /\ \/ /\ open' = [open EXCEPT ![<<k, "service">>] = TRUE]
              /\ holds' = [holds EXCEPT ![s] = @ \union {<<k, "service">>}]
           \/ Hasty /\ UNCHANGED <<open, holds>>  \* sys_srv_accept: -EMFILE
        /\ Returns(s)

AcceptLoop(s, i) ==
    IF listen[i].pending # <<>>
    THEN Take(s, i)
    ELSE /\ Blocks(s, [call |-> "accept", slot |-> i, end |-> Unset], {})
         /\ UNCHANGED <<listen, holds, open>>

Accept(s) ==
    /\ Begins(s) /\ lfd[s] # Unset
    /\ AcceptLoop(s, lfd[s])
    /\ UNCHANGED <<lfd, life, queue, sent>>

\* Woken: a signal (-EINTR) and a listener that has gone (-EBADF) first.
AcceptWoken(s) ==
    /\ Resumes(s, "accept")
    /\ IF s \in sig \/ listen[op[s].slot].name = Unset
       THEN Returns(s) /\ UNCHANGED <<listen, holds, open, asleep>>
       ELSE AcceptLoop(s, op[s].slot)
    /\ UNCHANGED <<lfd, life, queue, sent>>

\* srv_connect: a connection is queued and its client blocks on it.
Connect(c, n) ==
    /\ Begins(c)
    /\ \E i \in Bound(n), k \in SrvConn :
           /\ Len(listen[i].pending) < MaxPending
           /\ life[k] = "unborn"
           /\ life' = [life EXCEPT ![k] = "live"]
           /\ open' = [open EXCEPT ![<<k, "client">>] = TRUE]
           /\ listen' = [listen EXCEPT ![i].pending = Append(@, k)]
           /\ Blocks(c, [call |-> "connect", slot |-> i, end |-> <<k, "client">>], OnListener(i))
    /\ UNCHANGED <<lfd, holds, queue, sent>>

\* The queue q with the connection k taken out.
Unlinked(q, k) ==
    LET n == CHOOSE n \in DOMAIN q : q[n] = k
    IN  [m \in 1 .. Len(q) - 1 |-> q[IF m < n THEN m ELSE m + 1]]

\* Woken by a signal: the client leaves the queue if it is still in it, and
\* is forgotten by the service (nobody is woken) if it is not.
Detach(c, k, i) ==
    /\ open' = [open EXCEPT ![<<k, "client">>] = FALSE]
    /\ IF ~open[<<k, "service">>] /\ Contains(listen[i].pending, k)
       THEN /\ listen' = [listen EXCEPT ![i].pending = Unlinked(@, k)]
            /\ life' = [life EXCEPT ![k] = "freed"]
       ELSE UNCHANGED <<listen, life>>
    /\ Returns(c)
    /\ UNCHANGED <<asleep, holds>>

\* The rest of srv_connect, from thread_block_on to the head of the loop.
ConnectWoken(c) ==
    /\ Resumes(c, "connect")
    /\ LET k == op[c].end[1]
           i == op[c].slot
       IN  IF c \in sig THEN Detach(c, k, i)
           ELSE IF open[<<k, "service">>]
           THEN /\ holds' = [holds EXCEPT ![c] = @ \union {<<k, "client">>}]
                /\ Returns(c)
                /\ UNCHANGED <<listen, life, open, asleep>>
           ELSE IF listen[i].name = Unset
           THEN /\ open' = [open EXCEPT ![<<k, "client">>] = FALSE]
                /\ life' = [life EXCEPT ![k] = "freed"]
                /\ Returns(c)
                /\ UNCHANGED <<listen, holds, asleep>>
           ELSE Blocks(c, op[c], {}) /\ UNCHANGED <<listen, life, open, holds>>
    /\ UNCHANGED <<lfd, queue, sent>>

-----------------------------------------------------------------------------
\* srv_unref_conn: the peer is woken, the second close frees the connection.
CloseConn(t, e) ==
    /\ Begins(t) /\ e \in holds[t]
    /\ Undisturbed(e[1])
    /\ holds' = [holds EXCEPT ![t] = @ \ {e}]
    /\ open' = [open EXCEPT ![e] = FALSE]
    /\ asleep' = asleep \ OnConn(e[1])
    /\ IF open[<<e[1], OtherSide(e[2])>>]
       THEN UNCHANGED <<life, queue>>
       ELSE /\ life' = [life EXCEPT ![e[1]] = "freed"]
            /\ queue' = [f \in Endpoint |-> IF f[1] = e[1] THEN <<>> ELSE queue[f]]
    /\ UNCHANGED <<listen, lfd, sent, op, sig>>

\* The loop of srv_read: a datagram, the end of file, or wait.
ReadLoop(t, e) ==
    IF queue[e] # <<>>
    THEN /\ queue' = [queue EXCEPT ![e] = Tail(@)]
         /\ asleep' = asleep \ OnConn(e[1])
         /\ Returns(t)
    ELSE /\ UNCHANGED queue
         /\ IF ~open[<<e[1], OtherSide(e[2])>>]
            THEN Returns(t) /\ UNCHANGED asleep
            ELSE Blocks(t, [call |-> "read", slot |-> Unset, end |-> e], {})

\* Mutant: a full queue takes one datagram more, and its reader is not woken.
WriteLoop_NoWake(t, e) ==
    LET peer == <<e[1], OtherSide(e[2])>>
    IN  IF ~open[peer]
        THEN Returns(t) /\ UNCHANGED <<queue, sent, asleep>>
        ELSE IF Len(queue[peer]) < MaxMsgs
        THEN /\ queue' = [queue EXCEPT ![peer] = Append(@, sent[peer] + 1)]
             /\ sent' = [sent EXCEPT ![peer] = @ + 1]
             /\ Returns(t) /\ UNCHANGED asleep
        ELSE /\ Blocks(t, [call |-> "write", slot |-> Unset, end |-> e], {})
             /\ UNCHANGED <<queue, sent>>

\* Mutant: a full queue makes room by dropping what is at its end.
WriteLoop_Drops(t, e) ==
    LET peer == <<e[1], OtherSide(e[2])>>
    IN  IF ~open[peer]
        THEN Returns(t) /\ UNCHANGED <<queue, sent, asleep>>
        ELSE /\ queue' = [queue EXCEPT ![peer] =
                             Append(IF Len(@) < MaxMsgs THEN @ ELSE Front(@), sent[peer] + 1)]
             /\ sent' = [sent EXCEPT ![peer] = @ + 1]
             /\ asleep' = asleep \ OnConn(e[1])
             /\ Returns(t)

\* The loop of srv_write: -EPIPE, a datagram queued, or wait.
WriteLoop(t, e) ==
    LET peer == <<e[1], OtherSide(e[2])>>
    IN  IF ~open[peer]
        THEN Returns(t) /\ UNCHANGED <<queue, sent, asleep>>
        ELSE IF Len(queue[peer]) < MaxMsgs
        THEN /\ queue' = [queue EXCEPT ![peer] = Append(@, sent[peer] + 1)]
             /\ sent' = [sent EXCEPT ![peer] = @ + 1]
             /\ asleep' = asleep \ OnConn(e[1])
             /\ Returns(t)
        ELSE /\ Blocks(t, [call |-> "write", slot |-> Unset, end |-> e], {})
             /\ UNCHANGED <<queue, sent>>

Read(t, e) ==
    /\ Begins(t) /\ e \in holds[t]
    /\ ReadLoop(t, e)
    /\ UNCHANGED <<listen, lfd, holds, life, open, sent>>

Write(t, e) ==
    /\ Begins(t) /\ e \in holds[t]
    /\ sent[<<e[1], OtherSide(e[2])>>] < MaxSends
    /\ WriteLoop(t, e)
    /\ UNCHANGED <<listen, lfd, holds, life, open>>

\* Woken: a signal first, then the loop.
ReadWoken(t) ==
    /\ Resumes(t, "read")
    /\ IF t \in sig THEN Returns(t) /\ UNCHANGED <<queue, asleep>>
       ELSE ReadLoop(t, op[t].end)
    /\ UNCHANGED <<listen, lfd, holds, life, open, sent>>

WriteWoken(t) ==
    /\ Resumes(t, "write")
    /\ IF t \in sig THEN Returns(t) /\ UNCHANGED <<queue, sent, asleep>>
       ELSE WriteLoop(t, op[t].end)
    /\ UNCHANGED <<listen, lfd, holds, life, open>>

\* thread_signal_pid wakes a blocked thread.
Interrupt(t) ==
    /\ op[t].call \in Interrupted
    /\ Hasty \/ t \notin Stirring
    /\ sig' = sig \union {t}
    /\ asleep' = asleep \ {t}
    /\ UNCHANGED <<listen, lfd, holds, conns, op>>

SrvNext ==
    \/ \E s \in Service : Unbind(s) \/ Accept(s) \/ AcceptWoken(s) \/ \E n \in Name : Bind(s, n)
    \/ \E c \in Client : ConnectWoken(c) \/ \E n \in Name : Connect(c, n)
    \/ \E t \in Party : ReadWoken(t) \/ WriteWoken(t) \/ Interrupt(t)
    \/ \E t \in Party, e \in Endpoint : Read(t, e) \/ Write(t, e) \/ CloseConn(t, e)

SrvSpec == SrvInit /\ [][SrvNext]_srvVars
-----------------------------------------------------------------------------
SrvTypeOK ==
    /\ \A i \in Slot : /\ listen[i].name \in Name \union {Unset}
                       /\ listen[i].pending \in Seq(SrvConn)
                       /\ Len(listen[i].pending) <= MaxPending
    /\ lfd \in [Service -> Slot \union {Unset}]
    /\ holds \in [Party -> SUBSET Endpoint]
    /\ life \in [SrvConn -> {"unborn", "live", "freed"}]
    /\ open \in [Endpoint -> BOOLEAN]
    /\ \A e \in Endpoint : queue[e] \in Seq(1..MaxSends) /\ Len(queue[e]) <= MaxMsgs
    /\ sent \in [Endpoint -> 0..MaxSends]
    /\ asleep \subseteq Party /\ sig \subseteq Party

(* srv.h, "Blocking discipline": whoever is blocked still has to wait, or  *)
(* the wakeup was lost and the thread sleeps until a signal comes.         *)
Justified(t) ==
    LET e == op[t].end
        peer == <<e[1], OtherSide(e[2])>>
    IN  CASE op[t].call = "accept" ->
                 listen[op[t].slot].name # Unset /\ listen[op[t].slot].pending = <<>>
          [] op[t].call = "connect" -> Contains(listen[op[t].slot].pending, e[1])
          [] op[t].call = "read" -> queue[e] = <<>> /\ open[peer]
          [] op[t].call = "write" -> Len(queue[peer]) = MaxMsgs /\ open[peer]
          [] OTHER -> FALSE

WaitIsJustified == \A t \in asleep : Justified(t)

(* srv.h: "Both endpoints hold one refcount; close on either side drops a  *)
(* ref, last close kfree's": an end is open while somebody can use it, and *)
(* a connection lives while one of its ends is open.                       *)
OpenIsHeld ==
    \A k \in SrvConn :
        /\ life[k] = "live" <=> \E side \in Side : open[<<k, side>>]
        /\ open[<<k, "service">>] <=> \E s \in Service : <<k, "service">> \in holds[s]
        /\ open[<<k, "client">>] <=>
               Connecting(k) \/ \E c \in Client : <<k, "client">> \in holds[c]

(* Nobody sleeps for nothing, and nothing is open that nobody can close.   *)
BusIsSound == WaitIsJustified /\ OpenIsHeld

(* srv.h: the other side's "next read returns 0 (EOF) after draining       *)
(* whatever was already queued": what was sent leaves the queue in order,  *)
(* by being read, or with the connection.                                  *)
DrainedInOrder ==
    [][\A e \in Endpoint :
          queue[e] # <<>> /\ queue'[e] # queue[e] =>
              \/ queue'[e] = Tail(queue[e])
              \/ queue'[e] = Append(queue[e], sent[e] + 1)
              \/ life'[e[1]] = "freed" /\ ~open'[e]]_srvVars
=============================================================================
