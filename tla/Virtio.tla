------------------------------- MODULE Virtio -------------------------------
(***************************************************************************)
(* The drivers of the seven virtio devices (kernel/device/virtio_*.c): how *)
(* a device is brought up, and what the drivers keep in the rings they     *)
(* share with it.  Three kinds of queue are enough for all of them:        *)
(*                                                                         *)
(*   receive   all buffers are with the device; the driver polls, handles  *)
(*             a buffer and gives it back (net RX, keyboard, tablet)       *)
(*   transmit  buffers go out round-robin, as long as one is free (net TX) *)
(*   request   one request at a time in fixed buffers; the driver waits    *)
(*             for its completion (blk, gpu, snd control and play, rng)    *)
(*                                                                         *)
(* The device runs between any two steps of a driver.  Indices wrap at     *)
(* Wrap (2^16 in the code), a multiple of the queue size Q.                *)
(***************************************************************************)
EXTENDS Integers, Sequences

CONSTANTS Q, Wrap, Sectors, Data, Slots, MaxDevs

\* The machine has 32 slots for virtio devices (VIRTIO_MMIO_SLOTS).
ASSUME QueueAssumption ==
    /\ Q \in Nat \ {0} /\ Wrap \in Nat /\ Wrap > Q /\ Wrap % Q = 0
    /\ Sectors # {} /\ Data # {} /\ Slots \subseteq 0 .. 31

VARIABLES rx, tx, rq, up
virtioVars == <<rx, tx, rq, up>>

Places == 0 .. Q - 1
After(i, k) == (i + k) % Wrap
Ahead(i, j) == (i - j + Wrap) % Wrap
Between(from, to) == {After(from, k) : k \in 0 .. Ahead(to, from) - 1}

(***************************************************************************)
(* The receive queue.  A frame is known by the position at which the       *)
(* device put it into the used ring.  A device that finds no buffer keeps  *)
(* its frames until the next kick (net); a keyboard or a tablet drops them.*)
(***************************************************************************)
RxStarts ==
    [avail : {Q % Wrap}, ring : {[p \in Places |-> p]}, taken : {0},
     used : {0}, uring : {[p \in Places |-> 0]}, seen : {0}, buf : {[p \in Places |-> 0]},
     pc : {"loop"}, got : {0}, processed : {FALSE}, waits : BOOLEAN, dry : {FALSE}]

RxDeliver ==
    /\ ~rx.dry /\ rx.taken # rx.avail
    /\ LET d == rx.ring[rx.taken % Q] IN
       rx' = [rx EXCEPT !.taken = After(@, 1), !.buf[d] = rx.used,
                        !.uring[rx.used % Q] = d, !.used = After(@, 1)]

RxDry ==
    /\ rx.waits /\ ~rx.dry /\ rx.taken = rx.avail
    /\ rx' = [rx EXCEPT !.dry = TRUE]

\* The callback, or handle_event, reads the buffer in place.
RxHandle ==
    /\ rx.pc = "loop" /\ rx.seen # rx.used
    /\ rx' = [rx EXCEPT !.got = rx.buf[rx.uring[rx.seen % Q]], !.pc = "recycle"]

RxPublish(r, d) == [r EXCEPT !.ring[r.avail % Q] = d, !.avail = After(@, 1)]

RxRecycle ==
    /\ rx.pc = "recycle"
    /\ rx' = [RxPublish(rx, rx.uring[rx.seen % Q])
                EXCEPT !.seen = After(@, 1), !.processed = TRUE, !.pc = "loop"]

RxLeave ==
    /\ rx.pc = "loop" /\ rx.seen = rx.used /\ rx.processed
    /\ rx' = [rx EXCEPT !.pc = "kick"]

RxKick ==
    /\ rx.pc = "kick"
    /\ rx' = [rx EXCEPT !.pc = "loop", !.processed = FALSE, !.dry = FALSE]

RxNext == RxDeliver \/ RxDry \/ RxHandle \/ RxRecycle \/ RxLeave \/ RxKick

(***************************************************************************)
(* The transmit queue.  A frame is known by the index it was published at. *)
(***************************************************************************)
TxStarts ==
    {[avail |-> 0, ring |-> [p \in Places |-> 0], taken |-> 0, used |-> 0, seen |-> 0,
      buf |-> [p \in Places |-> 0]]}

\* Mutant: one frame more than there are buffers.
TxSend_OneMore ==
    LET p == tx.avail % Q
        r == [tx EXCEPT !.seen = tx.used]
    IN  tx' = IF Ahead(r.avail, r.seen) > Q THEN r
              ELSE [r EXCEPT !.buf[p] = r.avail, !.ring[p] = p, !.avail = After(@, 1)]

\* Reap, then drop the frame (-1) if Q are in flight.
TxSend ==
    LET p == tx.avail % Q
        r == [tx EXCEPT !.seen = tx.used]
    IN  tx' = IF Ahead(r.avail, r.seen) >= Q THEN r
              ELSE [r EXCEPT !.buf[p] = r.avail, !.ring[p] = p, !.avail = After(@, 1)]

TxTake == tx.taken # tx.avail /\ tx' = [tx EXCEPT !.taken = After(@, 1)]
TxComplete == tx.used # tx.taken /\ tx' = [tx EXCEPT !.used = After(@, 1)]

TxNext == TxSend \/ TxTake \/ TxComplete

(***************************************************************************)
(* The request queue, with a device that keeps one value per sector.  What *)
(* a request says and gets lies in buffers of the page that every request  *)
(* uses.  blk and gpu spin until used.idx IS the next index, snd and rng   *)
(* yield until it is not the last one; both give up after a time.          *)
(***************************************************************************)
Ops == [write : BOOLEAN, sector : Sectors, data : Data]

ReqStarts ==
    LET s == CHOOSE s \in Sectors : TRUE
        d == CHOOSE d \in Data : TRUE
        none == [write |-> FALSE, sector |-> s, data |-> d]
    IN  [pc : {"idle"}, op : {none}, avail : {0}, taken : {0},
         used : {0}, seen : {0}, disk : {[x \in Sectors |-> d]}, cur : {none}, spins : BOOLEAN,
         page : {[write |-> FALSE, sector |-> s, data |-> d, ok |-> FALSE]}, ok : {FALSE}, late : {FALSE}]

ReqSubmit ==
    \E op \in Ops :
       /\ rq.pc = "idle"
       /\ ~op.write => op.data = rq.page.data  \* a read leaves the data buffer as it was
       /\ rq' = [rq EXCEPT !.op = op, !.avail = After(@, 1), !.pc = "wait", !.ok = FALSE,
                           !.page = [write |-> op.write, sector |-> op.sector, data |-> op.data, ok |-> FALSE]]

\* The device takes the header when it takes the request, the data when it serves it.
ReqTake ==
    /\ rq.taken = rq.used /\ rq.taken # rq.avail
    /\ rq' = [rq EXCEPT !.taken = After(@, 1),
                        !.cur = [write |-> rq.page.write, sector |-> rq.page.sector, data |-> rq.page.data]]

ReqServe ==
    /\ rq.taken # rq.used
    /\ \/ rq' = [rq EXCEPT !.used = After(@, 1), !.page.ok = FALSE]
       \/ /\ rq.cur.write
          /\ rq' = [rq EXCEPT !.used = After(@, 1), !.page.ok = TRUE, !.disk[rq.cur.sector] = rq.page.data]
       \/ /\ ~rq.cur.write
          /\ rq' = [rq EXCEPT !.used = After(@, 1), !.page.ok = TRUE, !.page.data = rq.disk[rq.cur.sector]]

Completed == IF rq.spins THEN rq.used = After(rq.seen, 1) ELSE rq.used # rq.seen

ReqDone ==
    /\ rq.pc = "wait" /\ Completed
    /\ rq' = [rq EXCEPT !.pc = "idle", !.seen = After(@, 1), !.ok = rq.page.ok, !.op.data = rq.page.data]

\* The caller gets an error, the request stays with the device and seen stays behind.
ReqTimeout ==
    /\ rq.pc = "wait" /\ ~Completed
    /\ rq' = [rq EXCEPT !.pc = "idle", !.late = TRUE]

ReqNext == ReqSubmit \/ ReqTake \/ ReqServe \/ ReqDone \/ ReqTimeout

(***************************************************************************)
(* Bringing a driver up: what it does to a device, in the order of its     *)
(* init_device.  "features", "queues" and the like may fail.               *)
(***************************************************************************)
BlkUp == <<"features", "accept", "memory", "queues", "config", "go">>
GpuUp == <<"features", "accept", "memory", "queues", "go", "ask">>
NetUp == <<"features", "accept", "config", "memory", "queues", "post", "go", "kick">>
InputUp == <<"features", "accept", "memory", "queues", "post", "kick", "go">>
TabletUp == <<"features", "accept", "config", "memory", "queues", "post", "kick", "go">>
SndUp == <<"features", "accept", "config", "memory", "queues", "go", "ask">>
RngUp == <<"features", "accept", "memory", "queues", "go">>

Plan == [blk |-> BlkUp, gpu |-> GpuUp, net |-> NetUp, input |-> InputUp,
         tablet |-> TabletUp, snd |-> SndUp, rng |-> RngUp]

Drivers == DOMAIN Plan
Reset == [status |-> {"ack", "driver"}, queues |-> FALSE, posted |-> FALSE]

UpStarts ==
    [drv : Drivers, has : SUBSET Slots, left : {Slots}, slot : {0}, todo : {<<>>},
     at : {[s \in Slots |-> [status |-> {}, queues |-> FALSE, posted |-> FALSE]]},
     devs : {<<>>}, over : {FALSE}]

\* virtio_blk_init walks the slots downwards and takes up to MaxDevs, the others take the first.
Candidate == IF up.drv = "blk" THEN CHOOSE s \in up.left : \A t \in up.left : t <= s
                               ELSE CHOOSE s \in up.left : \A t \in up.left : s <= t

UpProbe ==
    /\ up.todo = <<>> /\ ~up.over
    /\ IF up.left = {} \/ Len(up.devs) = MaxDevs THEN up' = [up EXCEPT !.over = TRUE]
       ELSE LET s == Candidate IN
            up' = IF s \notin up.has THEN [up EXCEPT !.left = @ \ {s}]
                  ELSE [up EXCEPT !.left = @ \ {s}, !.slot = s, !.todo = Plan[up.drv], !.at[s] = Reset]

Effect(d, step) ==
    CASE step = "accept" -> [d EXCEPT !.status = @ \union {"features_ok"}]
      [] step = "queues" -> [d EXCEPT !.queues = TRUE]
      [] step = "post"   -> [d EXCEPT !.posted = TRUE]
      [] step = "go"     -> [d EXCEPT !.status = @ \union {"driver_ok"}]
      [] OTHER           -> d

UpStep ==
    /\ up.todo # <<>>
    /\ LET rest == Tail(up.todo)
           done == rest = <<>>
       IN  up' = [up EXCEPT !.todo = rest, !.at[up.slot] = Effect(@, Head(up.todo)),
                            !.devs = IF done THEN Append(@, up.slot) ELSE @,
                            !.over = done /\ up.drv # "blk"]

\* net and snd leave the status as it is when a queue fails, gpu and snd when the device
\* answers with an error; mmio_base is not cleared by any of them.
CanFail(step) == step \notin {"post", "go", "kick"} /\ (step = "config" => up.drv = "snd")

UpFail ==
    /\ up.todo # <<>> /\ CanFail(Head(up.todo))
    /\ LET quiet == Head(up.todo) = "ask" \/ (Head(up.todo) = "queues" /\ up.drv \in {"net", "snd"}) IN
       up' = [up EXCEPT !.todo = <<>>, !.over = up.drv # "blk",
                        !.at[up.slot].status = IF quiet THEN @ ELSE {"failed"}]

UpNext == UpProbe \/ UpStep \/ UpFail

VirtioInit == rx \in RxStarts /\ tx \in TxStarts /\ rq \in ReqStarts /\ up \in UpStarts
VirtioSpec == VirtioInit /\ [][RxNext]_rx /\ [][TxNext]_tx /\ [][ReqNext]_rq /\ [][UpNext]_up

(***************************************************************************)
(* Properties.                                                             *)
(***************************************************************************)
Free == {rx.ring[i % Q] : i \in Between(rx.taken, rx.avail)}
Full == {rx.uring[i % Q] : i \in Between(rx.seen, rx.used)}

\* A buffer is with the device or with the driver, never with both or lost; the frames the driver
\* has still to handle are in its buffers, in the order of their arrival, and a device that
\* stopped for want of buffers will be kicked (virtio_net_drain_rx, virtio_input_poll).
RxSound ==
    /\ Free \intersect Full = {} /\ Free \union Full = Places
    /\ Ahead(rx.avail, rx.taken) + Ahead(rx.used, rx.seen) = Q
    /\ \A i \in Between(rx.seen, rx.used) : rx.buf[rx.uring[i % Q]] = i
    /\ rx.pc = "recycle" => rx.got = rx.seen
    /\ rx.dry => rx.seen # rx.used \/ rx.processed

\* No frame is overwritten before the device is done with it, however far it lags behind.
TxSound ==
    /\ Ahead(tx.avail, tx.used) <= Q
    /\ \A i \in Between(tx.used, tx.avail) : tx.buf[tx.ring[i % Q]] = i

\* Until a request times out the device is a register: a request that returns 0 has been served,
\* and a read returns what was last written (do_request).
RequestSound ==
    (rq.pc = "idle" /\ rq.ok /\ ~rq.late) => rq.disk[rq.op.sector] = rq.op.data

\* What a driver calls ready can be used: the handshake is complete and the queues, with their
\* buffers for the drivers that receive, were there before; the disks are numbered from the
\* highest slot down.
BringUpSound ==
    /\ \A i \in 1 .. Len(up.devs) : LET d == up.at[up.devs[i]] IN
          d.status = {"ack", "driver", "features_ok", "driver_ok"} /\ d.queues
          /\ (up.drv \in {"net", "input", "tablet"} => d.posted)
    /\ \A s \in Slots : "driver_ok" \in up.at[s].status => "features_ok" \in up.at[s].status /\ up.at[s].queues
    /\ \A i, j \in 1 .. Len(up.devs) : i < j => up.devs[i] > up.devs[j]
    /\ up.drv # "blk" => Len(up.devs) <= 1

DevicesSound == RxSound /\ TxSound /\ RequestSound /\ BringUpSound
=============================================================================
