------------------------------ MODULE Windows ------------------------------
(***************************************************************************)
(* The window server wsd (userspace/wsd/wsd.c), its clients                *)
(* (userspace/libgui/wmclient.c) and the kernel's table of input shadows   *)
(* (WmKernel), composed.                                                   *)
(*                                                                         *)
(* wsd runs one worker thread per connection and one thread that polls the *)
(* pointer; everything below that touches the window table runs under      *)
(* g_wsd_lock and is one action.  A client makes a window in several       *)
(* calls, to the server and to the kernel in turn, and may exit between    *)
(* any two of them: its shadows go at once, its connection later, its      *)
(* windows when the worker has seen the connection end.                    *)
(*                                                                         *)
(* Geometry is abstracted to cells: a window covers the cells of its       *)
(* place, and any part of the window may be what is under the pointer.     *)
(* Events carry no coordinates; MOUSE_MOVE, titles and pixels are left     *)
(* out, and so is the capacity of the event rings.                         *)
(***************************************************************************)
EXTENDS WmKernel, Functions

CONSTANTS Kind,      \* the kind of window each client makes
          Fds,       \* the descriptors accept may return
          Slots,     \* 1 .. WM_MAX_WINDOWS of the server
          Cells,     \* the scanout
          Places,    \* the sets of cells a window of each kind may cover
          MaxIds     \* bound: window ids handed out

\* Descriptor 0 is the server's standard input.
ASSUME WindowsAssumption ==
    /\ Slots \subseteq Nat \ {0} /\ IsFiniteSet(Slots)
    /\ Fds \subseteq Nat \ {0} /\ IsFiniteSet(Fds) /\ MaxIds \in Nat
    /\ Kind \in [Clients -> Kinds]
    /\ \A kind \in {"app"} \union {Kind[c] : c \in Clients} : Places[kind] \subseteq SUBSET Cells

VARIABLES cl,      \* per client: how far it is in its calls, its window id and its shadow
          conn,    \* per descriptor: the connection, its request, whether the client closed
          win,     \* g_windows
          z,       \* g_z_order, bottom to top
          nextId,  \* g_next_win_id
          screen,  \* what the scanout shows in a cell: a slot, or 0 for the wallpaper
          grab,    \* g_drag_slot or g_resize_slot, of which at most one is set; 0 for none
          astray   \* history: a call of the server reached another window's shadow

windowsVars == <<kern, cl, conn, win, z, nextId, screen, grab, astray>>
clientVars == <<cl, conn>>

FreeWin == [id |-> 0, fd |-> 0, kind |-> "app", kid |-> -1, hidden |-> FALSE, place |-> {}]
NoReq == [op |-> "none", id |-> 0, kid |-> -1]
FreeConn == [client |-> NoClient, req |-> NoReq, eof |-> FALSE, st |-> "free"]
OffClient == [st |-> "off", id |-> 0, kid |-> -1, fd |-> 0]

WindowsInit ==
    /\ kern = KInit
    /\ cl = [c \in Clients |-> OffClient]
    /\ conn = [f \in Fds |-> FreeConn]
    /\ win = [s \in Slots |-> FreeWin]
    /\ z = <<>>
    /\ nextId = 1
    /\ screen = [x \in Cells |-> 0]
    /\ grab = 0
    /\ astray = FALSE

(***************************************************************************)
(* The server's stack and screen.                                          *)
(***************************************************************************)
Used(s) == s \in Slots /\ win[s].id # 0

\* z_push: pinned windows go to the bottom, the others to the top.
ZPush(w, q, s) == IF w[s].kind = "wall" THEN <<s>> \o q ELSE Append(q, s)

\* z_raise: a pinned window, or one already on top, stays where it is.
ZRaise(s) == IF win[s].kind = "wall" \/ s \notin Range(z) THEN z ELSE Append(Without(z, {s}), s)

\* What the painter's walk over the stack leaves in a cell, and hit_test_topmost finds there.
Shown(w, q, x) ==
    LET over == {i \in DOMAIN q : w[q[i]].id # 0 /\ ~w[q[i]].hidden /\ x \in w[q[i]].place}
    IN  IF over = {} THEN 0 ELSE q[Max(over)]

\* wsd_compose_all, and compose_rect for some cells only.
ComposeAll(w, q) == [x \in Cells |-> Shown(w, q, x)]
ComposeRect(w, q, xs) == [x \in Cells |-> IF x \in xs THEN Shown(w, q, x) ELSE screen[x]]

(***************************************************************************)
(* Calls of the server into the kernel.  A shadow is named by its slot, so *)
(* a call can reach the shadow of another window: the one the slot was     *)
(* given to since the window was bound.                                    *)
(***************************************************************************)
Reaching(w, s) ==
    astray' = (astray \/ (InUse(kern, w[s].kid) /\ kern.win[w[s].kid].for # w[s].id))

(***************************************************************************)
(* Clients.                                                                *)
(***************************************************************************)
Quiet(c) == cl[c].fd # 0 /\ conn[cl[c].fd].req = NoReq
ServerUnchanged == UNCHANGED <<win, z, nextId, screen>>

\* wm_connect, the accept loop and the HELLO that gives the connection its session: the
\* accepted connection gets the lowest free descriptor.
Connect(c) ==
    LET free == {f \in Fds : conn[f].st = "free"}
    IN  /\ cl[c].st = "off" /\ free # {}
        /\ cl' = [cl EXCEPT ![c] = [OffClient EXCEPT !.st = "idle", !.fd = Min(free)]]
        /\ conn' = [conn EXCEPT ![Min(free)] = [FreeConn EXCEPT !.client = c, !.st = "served"]]
        /\ UNCHANGED <<kern, astray, grab>> /\ ServerUnchanged

\* The requests that make and unmake a window; the client may exit before they are handled.
Request(c, op, st) ==
    /\ Quiet(c) /\ cl[c].st = st
    /\ conn' = [conn EXCEPT ![cl[c].fd].req = [op |-> op, id |-> cl[c].id, kid |-> cl[c].kid]]
    /\ UNCHANGED <<kern, cl, astray, grab>> /\ ServerUnchanged

SendCreate(c)  == nextId <= MaxIds /\ Request(c, "create", "idle")
SendBind(c)    == Request(c, "bind", "shadowed")
SendDestroy(c) == Request(c, "destroy", "undone")

\* gui_create_window_ex: when the kernel's table is full the window gets no input.
MakeShadow(c) ==
    /\ Quiet(c) /\ cl[c].st = "made"
    /\ LET free == FreeKSlots(kern)
       IN  IF free = {} THEN kern' = kern /\ cl' = [cl EXCEPT ![c].st = "up"]
           ELSE /\ kern' = CreateWindow(kern, Min(free), c, cl[c].id, Kind[c])
                /\ cl' = [cl EXCEPT ![c].st = "shadowed", ![c].kid = Min(free)]
    /\ UNCHANGED <<conn, astray, grab>> /\ ServerUnchanged

\* wm_destroy_window destroys the shadow first and then asks the server; wm_create_window does
\* the second half only, when the frame buffer cannot be mapped.
DropShadow(c) ==
    /\ Quiet(c) /\ cl[c].st \in {"made", "up"}
    /\ kern' = IF cl[c].kid < 0 THEN kern ELSE Destroy(kern, {cl[c].kid})
    /\ cl' = [cl EXCEPT ![c].st = "undone", ![c].kid = -1]
    /\ UNCHANGED <<conn, astray, grab>> /\ ServerUnchanged

\* thread_exit: wm_destroy_owner first, then vfs_close_all.
ExitShadows(c) ==
    /\ cl[c].st \notin {"off", "exiting"}
    /\ kern' = Destroy(kern, {k \in KSlots : kern.win[k].owner = c})
    /\ cl' = [cl EXCEPT ![c].st = "exiting"]
    /\ UNCHANGED <<conn, astray, grab>> /\ ServerUnchanged

ExitClose(c) ==
    /\ cl[c].st = "exiting"
    /\ conn' = [conn EXCEPT ![cl[c].fd].eof = TRUE]
    /\ cl' = [cl EXCEPT ![c] = OffClient]
    /\ UNCHANGED <<kern, astray, grab>> /\ ServerUnchanged

(***************************************************************************)
(* The workers.  A handler answers before it unlocks; the answer, when the *)
(* client still waits for it, moves the client on.                         *)
(***************************************************************************)
Handles(f, op) == conn[f].st = "served" /\ conn[f].req.op = op
Done(f) == conn' = [conn EXCEPT ![f].req = NoReq]
Waiting(f) == cl[conn[f].client].fd = f /\ cl[conn[f].client].st # "exiting"
Answer(f, st, id, kid) ==
    cl' = IF Waiting(f) THEN [cl EXCEPT ![conn[f].client].st = st, ![conn[f].client].id = id,
                                        ![conn[f].client].kid = kid] ELSE cl

\* find_window and the test that the window is the connection's own (a client names only a
\* window it made and has not destroyed, so it is always found).
OwnWin(f) == {s \in Slots : Used(s) /\ win[s].fd = f /\ win[s].id = conn[f].req.id}

\* create_window_impl: the first free slot and a fresh id; WM_ERR_FULL when there is no slot.
HandleCreate(f) ==
    LET free == {s \in Slots : ~Used(s)}
    IN  /\ Handles(f, "create") /\ nextId <= MaxIds /\ Done(f)
        /\ IF free = {} THEN UNCHANGED <<cl, win, z, nextId, screen>>
           ELSE LET kind == Kind[conn[f].client]
                IN  \E p \in Places[kind] :
                   /\ win' = [win EXCEPT ![Min(free)] =
                                [FreeWin EXCEPT !.id = nextId, !.fd = f, !.place = p, !.kind = kind]]
                   /\ z' = ZPush(win', z, Min(free))
                   /\ nextId' = nextId + 1
                   /\ screen' = ComposeAll(win', z')
                   /\ Answer(f, "made", nextId, -1)
        /\ UNCHANGED <<kern, astray, grab>>

\* Mutant: the shadow is routed, but only the server's stack is changed.
HandleBind_NoRaise(f) ==
    /\ Handles(f, "bind") /\ Done(f)
    /\ \E s \in OwnWin(f) :
          LET k == conn[f].req.kid
          IN  /\ win' = [win EXCEPT ![s].kid = k]
              /\ z' = ZRaise(s)
              /\ kern' = SetPassthrough(kern, k)
              /\ screen' = ComposeAll(win', z')
              /\ Reaching(win', s)
              /\ Answer(f, "up", conn[f].req.id, k)
    /\ UNCHANGED <<nextId, grab>>

\* handle_bind_kernel: the shadow is routed by the server from here on, and comes to the top.
HandleBind(f) ==
    /\ Handles(f, "bind") /\ Done(f)
    /\ \E s \in OwnWin(f) :
          LET k == conn[f].req.kid
          IN  /\ win' = [win EXCEPT ![s].kid = k]
              /\ z' = ZRaise(s)
              /\ kern' = Raise(SetPassthrough(kern, k), k)
              /\ screen' = ComposeAll(win', z')
              /\ Reaching(win', s)
              /\ Answer(f, "up", conn[f].req.id, k)
    /\ UNCHANGED <<nextId, grab>>

\* Mutant: the window goes, its picture stays.
DropWins_NoCompose(ss) ==
    /\ win' = [s \in Slots |-> IF s \in ss THEN FreeWin ELSE win[s]]
    /\ z' = Without(z, ss)
    /\ UNCHANGED screen

\* The slot of a destroyed window is free at once; the pointer's grab on it is not dropped.
DropWins(ss) ==
    /\ win' = [s \in Slots |-> IF s \in ss THEN FreeWin ELSE win[s]]
    /\ z' = Without(z, ss)
    /\ screen' = ComposeAll(win', z')

HandleDestroy(f) ==
    /\ Handles(f, "destroy") /\ Done(f)
    /\ \E s \in OwnWin(f) : DropWins({s})
    /\ Answer(f, "idle", 0, -1)
    /\ UNCHANGED <<kern, nextId, astray, grab>>

\* The requests that leave the client where it was are sent and handled in one step.
Asks(f) == conn[f].st = "served" /\ Waiting(f) /\ conn[f].req = NoReq
OwnedBy(f) == {s \in Slots : Used(s) /\ win[s].fd = f}

HandleMove(f) ==
    /\ Asks(f)
    /\ \E s \in OwnedBy(f) : \E p \in Places[win[s].kind] : win' = [win EXCEPT ![s].place = p]
    /\ screen' = ComposeAll(win', z)
    /\ UNCHANGED <<kern, clientVars, z, nextId, astray, grab>>

\* handle_damage repaints the window's rectangle, every window that reaches into it included.
HandleDamage(f) ==
    /\ Asks(f)
    /\ \E s \in OwnedBy(f) : screen' = ComposeRect(win, z, win[s].place)
    /\ UNCHANGED <<kern, clientVars, win, z, nextId, astray, grab>>

\* handle_restore and handle_minimize: any client (the task bar) names any window; pinned ones
\* are left alone.
HandleRestore ==
    /\ \E f \in Fds : Asks(f)
    /\ \E s \in Slots :
          LET k == win[s].kid
              shown == IF win[s].hidden THEN SetMinimized(kern, k, FALSE) ELSE kern
          IN  /\ Used(s) /\ win[s].kind # "wall"
              /\ win' = [win EXCEPT ![s].hidden = FALSE]
              /\ z' = ZRaise(s)
              /\ kern' = Raise(shown, k)
              /\ screen' = ComposeAll(win', z')
              /\ Reaching(win, s)
    /\ UNCHANGED <<clientVars, nextId, grab>>

Hide(s) ==
    /\ win' = [win EXCEPT ![s].hidden = TRUE]
    /\ kern' = SetMinimized(kern, win[s].kid, TRUE)
    /\ screen' = ComposeAll(win', z)
    /\ Reaching(win, s)

HandleMinimize ==
    /\ \E f \in Fds : Asks(f)
    /\ \E s \in Slots : Used(s) /\ win[s].kind # "wall" /\ ~win[s].hidden /\ Hide(s)
    /\ UNCHANGED <<clientVars, z, nextId, grab>>

\* Mutant: the descriptor is closed before the windows are collected.
CloseFd_First(f) ==
    /\ conn[f].st = "served" /\ conn[f].eof
    /\ conn' = [conn EXCEPT ![f] = FreeConn]
    /\ UNCHANGED <<kern, cl, astray, grab>> /\ ServerUnchanged

\* conn_thread after the end of the stream: gc_conn_windows under the lock, then close, and
\* only then can accept hand the descriptor out again.
Collect(f) ==
    /\ conn[f].st = "served" /\ conn[f].eof /\ conn[f].req = NoReq
    /\ DropWins({s \in Slots : Used(s) /\ win[s].fd = f})
    /\ conn' = [conn EXCEPT ![f].st = "collected"]
    /\ UNCHANGED <<kern, cl, nextId, astray, grab>>

CloseFd(f) ==
    /\ conn[f].st = "collected"
    /\ conn' = [conn EXCEPT ![f] = FreeConn]
    /\ UNCHANGED <<kern, cl, astray, grab>> /\ ServerUnchanged

\* wm_pointer_button: only a shadow the server does not route yet is raised by the kernel.
KernelPress ==
    /\ \E k \in Hittable(kern) : kern' = PressOn(kern, k)
    /\ UNCHANGED <<clientVars, grab, astray>> /\ ServerUnchanged

(***************************************************************************)
(* poller_tick.  The poller samples the button, so that any alternation of *)
(* presses and releases may be what it sees; a release that ends no drag   *)
(* changes nothing here, and presses that start none may follow each other.*)
(***************************************************************************)
PollUnchanged == UNCHANGED <<clientVars, nextId>>

\* Raising in both stacks; the kernel is not told when the server's stack did not change.
RaiseBoth(s, always) ==
    /\ z' = ZRaise(s)
    /\ IF always \/ z' # z
       THEN kern' = Raise(kern, win[s].kid) /\ Reaching(win, s)
       ELSE UNCHANGED <<kern, astray>>

\* A press on what the walk over the stack finds at a point: on the title bar or the resize
\* grip of a decorated window, on one of its two buttons, or on a body.
Decorated(s) == win[s].kind = "app"

PressFrame(s) ==
    /\ Decorated(s) /\ grab' = s
    /\ RaiseBoth(s, FALSE)
    /\ screen' = ComposeAll(win, z') /\ UNCHANGED win

\* GUI_EVENT_CLOSE is put in the shadow's ring.
PressClose(s) ==
    /\ Decorated(s)
    /\ UNCHANGED <<kern, win, z, screen, grab, astray>>

PressMinimize(s) ==
    /\ Decorated(s) /\ Hide(s)
    /\ UNCHANGED <<z, grab>>

\* A press on a body goes to the application, which is raised and focused even when it is on
\* top already; the wallpaper takes no presses.
PressBody(s) ==
    /\ IF win[s].kind = "wall" THEN UNCHANGED <<kern, z, screen, grab, astray>>
       ELSE RaiseBoth(s, TRUE) /\ screen' = ComposeAll(win, z') /\ grab' = grab
    /\ UNCHANGED win

PollPress ==
    /\ grab = 0
    /\ \E s \in {Shown(win, z, x) : x \in Cells} :
          IF s = 0 THEN UNCHANGED <<kern, win, z, screen, grab, astray>>
          ELSE PressFrame(s) \/ PressClose(s) \/ PressMinimize(s) \/ PressBody(s)
    /\ PollUnchanged

\* While the button is held the window of the grabbed slot follows the pointer, if the slot
\* still (or again) holds a window that can; gui_move_window moves the shadow along.
PollDrag ==
    /\ grab # 0
    /\ IF Used(grab) /\ Decorated(grab)
       THEN /\ \E p \in Places["app"] : win' = [win EXCEPT ![grab].place = p]
            /\ screen' = ComposeAll(win', z)
            /\ Reaching(win, grab) /\ grab' = grab
       ELSE grab' = 0 /\ UNCHANGED <<win, screen, astray>>
    /\ UNCHANGED <<kern, z>> /\ PollUnchanged

PollRelease ==
    /\ grab # 0 /\ grab' = 0
    /\ screen' = ComposeAll(win, z)
    /\ UNCHANGED <<kern, win, z, astray>> /\ PollUnchanged

\* cursor_move_only, when nothing else is to do, repaints what the cursor leaves and what it
\* enters.
PollMove ==
    /\ grab = 0
    /\ \E x \in Cells : screen' = ComposeRect(win, z, {x})
    /\ UNCHANGED <<kern, win, z, astray, grab>> /\ PollUnchanged

ClientStep(c) == \/ Connect(c) \/ SendCreate(c) \/ SendBind(c) \/ SendDestroy(c)
                 \/ MakeShadow(c) \/ DropShadow(c) \/ ExitShadows(c) \/ ExitClose(c)
WorkerStep(f) == \/ HandleCreate(f) \/ HandleBind(f) \/ HandleDestroy(f)
                 \/ HandleMove(f) \/ HandleDamage(f) \/ Collect(f) \/ CloseFd(f)
PollerStep == PollPress \/ PollDrag \/ PollRelease \/ PollMove

WindowsNext ==
    \/ \E c \in Clients : ClientStep(c)
    \/ \E f \in Fds : WorkerStep(f)
    \/ HandleRestore \/ HandleMinimize \/ KernelPress \/ PollerStep

WindowsSpec == WindowsInit /\ [][WindowsNext]_windowsVars

(***************************************************************************)
(* Properties.                                                             *)
(***************************************************************************)
WindowsTypeOK ==
    /\ \A k \in KSlots : kern.win[k].owner \in Clients \union {NoClient}
                         /\ kern.win[k].kind \in Kinds /\ kern.down[k] \subseteq Keys
    /\ kern.focus \in KSlots \union {-1} /\ (kern.focus # -1 => InUse(kern, kern.focus))
    /\ ToSet(kern.z) = {k \in KSlots : InUse(kern, k)} /\ Len(kern.z) = Cardinality(ToSet(kern.z))
    /\ \A c \in Clients : cl[c].st \in {"off", "idle", "made", "shadowed", "up", "undone", "exiting"}
    /\ \A f \in Fds : conn[f].client \in Clients \union {NoClient}
    /\ \A s \in Slots : win[s].kid \in KSlots \union {-1} /\ win[s].place \subseteq Cells
    /\ screen \in [Cells -> Slots \union {0}]
    /\ grab \in Slots \union {0}

\* The server's stack holds every window in use once and nothing else, and nothing ever comes
\* below a pinned window (z_push, z_raise, z_remove and the slots they are called for).
ZOrderExact ==
    /\ ToSet(z) = {s \in Slots : Used(s)} /\ Len(z) = Cardinality(ToSet(z))
    /\ \A i, j \in 1 .. Len(z) : i < j /\ win[z[j]].kind = "wall" => win[z[i]].kind = "wall"

\* Whatever changed the stack, a window's place or its visibility has repainted the screen:
\* every cell shows the highest visible window that covers it, or the wallpaper.
ScreenIsCurrent == screen = ComposeAll(win, z)

\* The two stacks agree: of two windows whose shadows are their own and which can be raised,
\* the one above in the server's stack has its shadow above in the kernel's.  Only a call that
\* reached another window's shadow can break this.
Bound(s) == win[s].kind = "app" /\ win[s].kid >= 0 /\ InUse(kern, win[s].kid)
            /\ kern.win[win[s].kid].for = win[s].id
Above(q, a, b) == \E i, j \in 1 .. Len(q) : i > j /\ q[i] = a /\ q[j] = b
StacksAgree ==
    /\ WindowsTypeOK
    /\ ~astray =>
           \A s, t \in Slots : Bound(s) /\ Bound(t) /\ Above(z, s, t)
                                 => Above(kern.z, win[s].kid, win[t].kid)

\* A connection owns windows only of the program it was accepted from, although descriptors
\* are handed out again: no client inherits the windows of the one before it.
WindowsAreOwn ==
    \A s \in Slots : Used(s) =>
        /\ conn[win[s].fd].st = "served"
        /\ \A k \in KSlots : InUse(kern, k) /\ kern.win[k].for = win[s].id
                                => kern.win[k].owner = conn[win[s].fd].client
=============================================================================
