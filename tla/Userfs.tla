------------------------------ MODULE Userfs ------------------------------
(***************************************************************************)
(* File systems served by daemons (kernel/core/userfs.c, the mount calls   *)
(* of kernel/core/syscall.c, userspace/libfs/userfs.c).                    *)
(*                                                                         *)
(* A call of a client is one request and one reply over the two pipes of   *)
(* the mount's channel, one call at a time, with a deadline.  A client may *)
(* be signalled, a daemon may be slow, die, or leave its loop and unmount; *)
(* init starts it again.  Every request is distinct; what is in it and in  *)
(* its reply is left out, and so are the descriptors that a process        *)
(* inherits (Descriptors.tla).                                             *)
(*                                                                         *)
(* The mount table is compacted when a mount goes, and a daemon knows its  *)
(* mount by its index: the model follows the index, to whatever mount it   *)
(* leads.  A channel that is freed under a call in progress is the end of  *)
(* the checked behaviour (wild).                                           *)
(***************************************************************************)
EXTENDS Integers, Sequences, FiniteSets

CONSTANTS Callers,   \* threads of clients
          Systems,   \* the file systems, each with its daemon
          NoOne,     \* no caller
          MaxTag     \* bound: requests per channel

ASSUME UserfsAssumption == NoOne \notin Callers \union Systems /\ MaxTag \in Nat

VARIABLES table,   \* g_mounts, the user part of it: a sequence of file systems
          chan,    \* per file system: its channel
          daemon,  \* per file system: where its daemon is, and the mount id it was given
          call,    \* per caller: where it is in userfs_call, for which file system and request
          wild     \* history: a channel was freed while a call was using it

ufsVars == <<table, chan, daemon, call, wild>>

NoChan == [alive |-> FALSE, inFlight |-> NoOne, tag |-> 0, fds |-> 0, req |-> <<>>, rsp |-> <<>>]
Idle   == [pc |-> "idle", fs |-> NoOne, tag |-> 0, opens |-> FALSE]

UfsInit ==
    /\ table = <<>>
    /\ chan = [f \in Systems |-> NoChan]
    /\ daemon = [f \in Systems |-> [st |-> "off", mid |-> 0]]
    /\ call = [c \in Callers |-> Idle]
    /\ wild = FALSE

Mounted(f) == \E i \in 1 .. Len(table) : table[i] = f
Serving(f) == daemon[f].st = "serving"
Users(f) == {c \in Callers : call[c].fs = f}

\* sys_mount: -EEXIST while the prefix is in the table, its daemon alive or not.
Mount(f) ==
    /\ daemon[f].st = "off" /\ ~Mounted(f)
    /\ table' = Append(table, f)
    /\ chan' = [chan EXCEPT ![f] = [NoChan EXCEPT !.alive = TRUE]]
    /\ daemon' = [daemon EXCEPT ![f] = [st |-> "serving", mid |-> Len(table) + 1]]
    /\ UNCHANGED <<call, wild>>

(***************************************************************************)
(* userfs_call.                                                            *)
(***************************************************************************)
\* Releasing in_flight wakes every caller that waits for it.
Woken(f) == [c \in Callers |-> IF call[c].fs = f /\ call[c].pc = "blocked"
                                  THEN [call[c] EXCEPT !.pc = "woken"] ELSE call[c]]

\* From the end of the wait to the request in the pipe; the daemon's end of the pipe is closed
\* when it is gone.  (A request always fits: no other one is in the pipe of a live channel.)
Send(c, f, opens) ==
    LET ch == chan[f]
        t  == ch.tag + 1
    IN  IF ch.alive /\ Serving(f)
        THEN /\ chan' = [chan EXCEPT ![f].inFlight = c, ![f].tag = t, ![f].req = Append(@, t)]
             /\ call' = [call EXCEPT ![c] = [pc |-> "sent", fs |-> f, tag |-> t, opens |-> opens]]
        ELSE /\ chan' = [chan EXCEPT ![f].alive = FALSE]
             /\ call' = [Woken(f) EXCEPT ![c] = Idle]

Begin(c, f, opens) ==
    /\ call[c] = Idle /\ Mounted(f) /\ chan[f].alive /\ chan[f].tag < MaxTag
    /\ IF chan[f].inFlight = NoOne THEN Send(c, f, opens)
       ELSE /\ call' = [call EXCEPT ![c] = [pc |-> "blocked", fs |-> f, tag |-> 0, opens |-> opens]]
            /\ UNCHANGED chan
    /\ UNCHANGED <<table, daemon, wild>>

\* A woken caller tests in_flight again, and a channel that died meanwhile is left alone.
Retry(c) ==
    LET f == call[c].fs
    IN  /\ call[c].pc = "woken" /\ (chan[f].alive => chan[f].tag < MaxTag)
        /\ IF chan[f].inFlight = NoOne THEN Send(c, f, call[c].opens)
           ELSE call' = [call EXCEPT ![c].pc = "blocked"] /\ UNCHANGED chan
        /\ UNCHANGED <<table, daemon, wild>>

\* The reply is there: another request's is the death of the channel.  The descriptor of an
\* open is counted after the call.
Receive(c) ==
    LET f == call[c].fs
        ok == Head(chan[f].rsp) = call[c].tag
    IN  /\ call[c].pc = "sent" /\ chan[f].rsp # <<>>
        /\ chan' = [chan EXCEPT ![f].rsp = Tail(@), ![f].inFlight = NoOne,
                                ![f].alive = @ /\ ok,
                                ![f].fds = IF ok /\ call[c].opens THEN @ + 1 ELSE @]
        /\ call' = [Woken(f) EXCEPT ![c] = Idle]
        /\ UNCHANGED <<table, daemon, wild>>

\* Mutant: the channel stays in use after a call that gave up.
GiveUp_KeepsChannel(c) ==
    LET f == call[c].fs
    IN  /\ call[c].pc = "sent" /\ chan[f].rsp = <<>>
        /\ chan' = [chan EXCEPT ![f].inFlight = NoOne]
        /\ call' = [Woken(f) EXCEPT ![c] = Idle]
        /\ UNCHANGED <<table, daemon, wild>>

\* No reply yet: the deadline passes, a signal ends the read of the pipe, or the daemon's end
\* is closed.  Whichever it is, the channel is dead from now on.
GiveUp(c) ==
    LET f == call[c].fs
    IN  /\ call[c].pc = "sent" /\ chan[f].rsp = <<>>
        /\ chan' = [chan EXCEPT ![f].inFlight = NoOne, ![f].alive = FALSE]
        /\ call' = [Woken(f) EXCEPT ![c] = Idle]
        /\ UNCHANGED <<table, daemon, wild>>

\* userfs_op_close, with the call it makes to the daemon left out.
Close(f) ==
    /\ chan[f].fds > 0 /\ chan' = [chan EXCEPT ![f].fds = @ - 1]
    /\ UNCHANGED <<table, daemon, call, wild>>

(***************************************************************************)
(* The daemon.                                                             *)
(***************************************************************************)
Serve(f) ==
    /\ Serving(f) /\ chan[f].req # <<>>
    /\ chan' = [chan EXCEPT ![f].req = Tail(@), ![f].rsp = Append(@, Head(chan[f].req))]
    /\ UNCHANGED <<table, daemon, call, wild>>

Die(f) ==
    /\ Serving(f)
    /\ daemon' = [daemon EXCEPT ![f].st = "off"]
    /\ UNCHANGED <<table, chan, call, wild>>

\* sys_umount(mid): refused for an index past the table and while descriptors are open.
Umount(m) ==
    IF m > Len(table) \/ (m <= Len(table) /\ chan[table[m]].fds > 0) THEN UNCHANGED <<table, chan, wild>>
    ELSE /\ table' = [i \in 1 .. Len(table) - 1 |-> IF i < m THEN table[i] ELSE table[i + 1]]
         /\ chan' = [chan EXCEPT ![table[m]] = NoChan]
         /\ wild' = (wild \/ Users(table[m]) # {})

\* userfs_serve returns, because a read of the request pipe was interrupted or the pipe ended
\* (somebody unmounted it), and the daemon unmounts what it takes for its mount and exits.
Leave(f) ==
    /\ Serving(f)
    /\ Umount(daemon[f].mid)
    /\ daemon' = [daemon EXCEPT ![f].st = "off"]
    /\ UNCHANGED call

UfsNext ==
    /\ ~wild
    /\ \/ \E f \in Systems : \/ Mount(f) \/ Close(f) \/ Serve(f) \/ Die(f) \/ Leave(f)
                             \/ \E c \in Callers, opens \in BOOLEAN : Begin(c, f, opens)
       \/ \E c \in Callers : Retry(c) \/ Receive(c) \/ GiveUp(c)

UfsSpec == UfsInit /\ [][UfsNext]_ufsVars

(***************************************************************************)
(* Properties.                                                             *)
(***************************************************************************)
UfsTypeOK ==
    /\ \A f \in Systems : chan[f].inFlight \in Callers \union {NoOne} /\ chan[f].tag \in 0 .. MaxTag
                          /\ daemon[f].st \in {"off", "serving"} /\ daemon[f].mid \in Nat
    /\ \A c \in Callers : call[c].pc \in {"idle", "blocked", "woken", "sent"}
    /\ \A i, j \in 1 .. Len(table) : i # j => table[i] # table[j]

\* The two pipes of a live channel never hold anything but the one request, or its reply, of
\* the one call that owns the channel, however calls before it ended: no caller is given the
\* answer to a question that another one asked and gave up waiting for.
ChannelAligned ==
    \A f \in Systems : chan[f].alive =>
        LET c == chan[f].inFlight
        IN  IF c = NoOne THEN chan[f].req = <<>> /\ chan[f].rsp = <<>>
            ELSE /\ call[c].pc = "sent" /\ call[c].fs = f
                 /\ chan[f].req \o chan[f].rsp = <<call[c].tag>>

\* Nobody waits for a channel that nobody uses: the caller in flight exists, and the others
\* are blocked only as long as it has not released the channel.
CallersAreServed ==
    ~wild => \A c \in Callers :
        /\ call[c].pc = "blocked" => chan[call[c].fs].inFlight # NoOne
        /\ call[c].pc = "sent" <=> (call[c].fs # NoOne /\ chan[call[c].fs].inFlight = c)

\* A caller gets its own answer, or an error, and never waits for nothing.
CallsSound == ChannelAligned /\ CallersAreServed
=============================================================================
