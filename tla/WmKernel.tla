------------------------------ MODULE WmKernel ------------------------------
(***************************************************************************)
(* The kernel's half of the window system (kernel/core/wm.c): the table of *)
(* windows, their stacking order, the keyboard focus and the table of keys *)
(* held down.  Since the compositor moved to user space a window of this   *)
(* table is the "input shadow" of a window of the server (Windows.tla).    *)
(*                                                                         *)
(* The state is one record and every system call a function from records   *)
(* to records, so that a handler of the server, which makes several of     *)
(* these calls, composes them in the order the code makes them.            *)
(*                                                                         *)
(*   win     the table: who owns a slot, for which window of the server    *)
(*           the owner made it (a fact about the owner, never read here),  *)
(*           its kind, whether it is minimized, and input_passthrough      *)
(*   z       the slots in use from the bottom to the top: the order of the *)
(*           z numbers, of which no two are equal                          *)
(*   focus   g_focus_id, -1 for none                                       *)
(*   held    g_keys_held                                                   *)
(*   queued  the events in each window's ring that its owner has not       *)
(*           polled, of which there is room for RingCap                    *)
(*   down    history: the keys whose press was put in the window's event   *)
(*           ring and whose release was not                                *)
(*   phantom history: a release was put in the ring of a window that never *)
(*           saw the press                                                 *)
(*   lost    history: a full ring has dropped an event                     *)
(*                                                                         *)
(* Only key events are put in the rings here.  A key is what the parser of *)
(* escape sequences makes of the bytes of the terminal.                    *)
(***************************************************************************)
EXTENDS Integers, Sequences, FiniteSets, FiniteSetsExt, SequencesExt

CONSTANTS Clients,   \* the programs that open windows
          NoClient,  \* the owner of a free slot
          KSlots,    \* 0 .. WM_MAX_WINDOWS - 1
          Keys,      \* the keys of the keyboard
          RingCap    \* WM_EVENT_QUEUE_CAP - 1

ASSUME WmAssumption == /\ KSlots \subseteq Nat /\ IsFiniteSet(KSlots)
                       /\ IsFiniteSet(Keys) /\ RingCap \in Nat
                       /\ NoClient \notin Clients

VARIABLE kern

Kinds == {"app", "bar", "wall"}   \* plain, ALWAYS_ON_TOP, PIN_TO_BOTTOM

FreeShadow == [owner |-> NoClient, for |-> 0, kind |-> "app", min |-> FALSE, pass |-> FALSE]

KInit == [win |-> [k \in KSlots |-> FreeShadow], z |-> <<>>, focus |-> -1,
          held |-> {}, queued |-> [k \in KSlots |-> 0], down |-> [k \in KSlots |-> {}],
          phantom |-> FALSE, lost |-> FALSE]

\* A stack that the elements of S have left.
Without(q, S) ==
    LET kept == {i \in DOMAIN q : q[i] \notin S}
        rank(i) == Cardinality({j \in kept : j <= i})
    IN  [n \in 1 .. Cardinality(kept) |-> q[CHOOSE i \in kept : rank(i) = n]]

InUse(K, k) == k \in KSlots /\ K.win[k].owner # NoClient

\* synthesize_releases_to: the window the focus leaves is sent a release of every key held.
SynthesizeReleases(K, k) ==
    IF K.queued[k] + Cardinality(K.held) > RingCap
    THEN [K EXCEPT !.held = {}, !.queued[k] = RingCap, !.lost = TRUE]
    ELSE [K EXCEPT !.held = {}, !.queued[k] = @ + Cardinality(K.held),
                   !.down[k] = @ \ K.held, !.phantom = @ \/ ~(K.held \subseteq K.down[k])]

\* Mutant: the keys held stay down in the window the focus leaves.
SetFocus_Silent(K, k) == [K EXCEPT !.focus = k]

SetFocus(K, k) ==
    IF k = K.focus THEN K
    ELSE [(IF InUse(K, K.focus) THEN SynthesizeReleases(K, K.focus) ELSE K) EXCEPT !.focus = k]

\* topmost_id: the window of the highest z, minimized or pinned ones included.
Topmost(K) == IF K.z = <<>> THEN -1 ELSE Last(K.z)

Lift(K, k) == IF K.win[k].kind = "bar" THEN K ELSE [K EXCEPT !.z = Append(Without(@, {k}), k)]

FreeKSlots(K) == {k \in KSlots : ~InUse(K, k)}

\* wm_create_window_ex takes the first free slot; -ENOSPC when there is none (the caller's
\* guard).  input_passthrough keeps what the slot's previous window left there.
CreateWindow(K, k, c, id, kind) ==
    LET made == [K EXCEPT !.win[k] = [owner |-> c, for |-> id, kind |-> kind,
                                      min |-> FALSE, pass |-> @.pass],
                          !.z = Append(@, k), !.queued[k] = 0, !.down[k] = {}]
    IN  IF kind = "app" THEN SetFocus(made, k) ELSE made

\* wm_destroy_window, and wm_destroy_owner for the windows ks of a client that exits.
Destroy(K, ks) ==
    LET gone == [K EXCEPT !.win = [k \in KSlots |->
                                     IF k \in ks THEN [FreeShadow EXCEPT !.pass = K.win[k].pass]
                                                 ELSE K.win[k]],
                          !.z = Without(@, ks),
                          !.down = [k \in KSlots |-> IF k \in ks THEN {} ELSE K.down[k]]]
    IN  IF K.focus \in ks THEN [gone EXCEPT !.held = {}, !.focus = Topmost(gone)] ELSE gone

\* wm_raise_window: un-minimizes, raises and takes the focus; any process may call it.
Raise(K, k) ==
    IF ~InUse(K, k) THEN K
    ELSE SetFocus(Lift([K EXCEPT !.win[k].min = FALSE], k), k)

\* wm_set_minimized: hiding the focused window hands the focus to the highest window that is
\* neither minimized nor pinned to the bottom; showing a window raises and focuses it.
SetMinimized(K, k, on) ==
    LET hide == [K EXCEPT !.win[k].min = TRUE]
        rest == {i \in DOMAIN K.z : ~hide.win[K.z[i]].min /\ hide.win[K.z[i]].kind # "wall"}
    IN  IF ~InUse(K, k) \/ K.win[k].kind = "wall" \/ K.win[k].min = on THEN K
        ELSE IF ~on THEN SetFocus(Lift([K EXCEPT !.win[k].min = FALSE], k), k)
        ELSE IF K.focus = k THEN SetFocus(hide, IF rest = {} THEN -1 ELSE K.z[Max(rest)])
        ELSE hide

SetPassthrough(K, k) == IF InUse(K, k) THEN [K EXCEPT !.win[k].pass = TRUE] ELSE K

\* hit_test: what the kernel itself finds under the pointer (it skips pinned, minimized and
\* server-routed windows); a press there raises the window and focuses it.
Hittable(K) == {k \in KSlots : /\ InUse(K, k) /\ ~K.win[k].min /\ ~K.win[k].pass
                               /\ K.win[k].kind # "wall"}

PressOn(K, k) == SetFocus(Lift(K, k), k)

\* deliver_key and wm_keyboard_release: a key goes to the focused window and is held even when
\* the ring drops it; only a key that is held can be released.
KeyDown(K, key) ==
    LET f == K.focus
    IN  IF ~InUse(K, f) THEN K
        ELSE IF K.queued[f] = RingCap THEN [K EXCEPT !.held = @ \union {key}, !.lost = TRUE]
        ELSE [K EXCEPT !.held = @ \union {key}, !.queued[f] = @ + 1, !.down[f] = @ \union {key}]

KeyUp(K, key) ==
    LET f == K.focus
        up == [K EXCEPT !.held = @ \ {key}]
    IN  IF f < 0 \/ key \notin K.held THEN K
        ELSE IF ~InUse(K, f) THEN up
        ELSE IF K.queued[f] = RingCap THEN [up EXCEPT !.lost = TRUE]
        ELSE [up EXCEPT !.queued[f] = @ + 1, !.down[f] = @ \ {key},
                        !.phantom = @ \/ key \notin K.down[f]]

\* wm_poll_event takes the oldest event of the first window of the caller that has one.
PollEvent(K, c) ==
    LET full == {k \in KSlots : K.win[k].owner = c /\ K.queued[k] > 0}
    IN  IF c = NoClient \/ full = {} THEN K ELSE [K EXCEPT !.queued[Min(full)] = @ - 1]
=============================================================================
