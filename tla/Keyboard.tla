------------------------------ MODULE Keyboard ------------------------------
(***************************************************************************)
(* A key on its way to the focused window: the events of the keyboard, the *)
(* two rings of its driver (kernel/device/virtio_input.c; bytes as a       *)
(* terminal would send them, and releases), and the window manager, which  *)
(* makes keys of the bytes again (kernel/core/wm.c).  Every sys_yield      *)
(* pumps both rings dry (syscall.c); a reader of the console takes a byte  *)
(* at a time (console_in.c).  The driver looks at the device each time a   *)
(* ring is asked, so events may come in between any two bytes.             *)
(***************************************************************************)
EXTENDS Integers, Sequences, FiniteSets, SequencesExt

CONSTANTS
    KbdCap,    \* bytes in g_kbd_ring
    RelCap,    \* codes in g_rel_ring
    MaxTyped,  \* bound: presses and repeats
    MaxEvents  \* bound: events between two looks at the device (it has as many buffers)

ASSUME KeyboardAssumption ==
    KbdCap \in Nat /\ RelCap \in Nat /\ MaxTyped \in Nat /\ MaxEvents \in Nat

VARIABLES
    keysDown,  \* physically
    events,    \* of the device, not yet seen by the driver
    drv,       \* the driver: shift, the rings; history: a ring was full, a poll for releases saw events
    csi,       \* g_csi_state, with the ESC [ that it stands for
    kheld,     \* g_keys_held
    shown,     \* what the window was sent
    pump,      \* where pump_input_into_wm is
    typed      \* the keys that were pressed, as the window should see them

keyboardVars == <<keysDown, events, drv, csi, kheld, shown, pump, typed>>

Letter == "a"
AllKeys == {Letter, "up", "esc"}

\* code_to_gui_release, and the codes of wm.h
Code(k) == CASE k = Letter -> "a" [] k = "up" -> "UP" [] k = "esc" -> "ESC"

\* translate_key
Bytes(k, shift) ==
    CASE k = Letter /\ shift -> <<"A">>
      [] k = "up"            -> <<"ESC", "[", "up">>
      [] OTHER               -> <<Code(k)>>

KeyboardInit ==
    /\ keysDown = {} /\ events = <<>> /\ csi = 0 /\ kheld = {} /\ shown = <<>> /\ typed = <<>>
    /\ pump = "idle"
    /\ drv = [shift |-> FALSE, ring |-> <<>>, rel |-> <<>>, full |-> FALSE, late |-> FALSE]

(***************************************************************************)
(* The user.                                                               *)
(***************************************************************************)
Happens(e) == Len(events) < MaxEvents /\ events' = Append(events, e) /\ UNCHANGED <<drv, csi, kheld, shown, pump>>

ShiftDown == "shift" \in keysDown

\* A press, or the repeat of one.
Press(k) ==
    /\ Len(typed) < MaxTyped /\ Happens([op |-> "press", key |-> k])
    /\ keysDown' = keysDown \union {k}
    /\ typed' = Append(typed, IF k = Letter /\ ShiftDown THEN "A" ELSE Code(k))

Release(k) ==
    /\ k \in keysDown /\ Happens([op |-> "release", key |-> k])
    /\ keysDown' = keysDown \ {k} /\ UNCHANGED typed

ShiftKey ==
    /\ Len(typed) < MaxTyped
    /\ Happens([op |-> IF ShiftDown THEN "unshift" ELSE "shift", key |-> "shift"])
    /\ keysDown' = IF ShiftDown THEN keysDown \ {"shift"} ELSE keysDown \union {"shift"}
    /\ UNCHANGED typed

(***************************************************************************)
(* The driver: virtio_input_poll takes all events there are.               *)
(***************************************************************************)
\* A byte that finds the ring full is dropped, the next may fit again.
Pushed(d, b) ==
    IF Len(d.ring) = KbdCap THEN [d EXCEPT !.full = TRUE] ELSE [d EXCEPT !.ring = Append(@, b)]

HandleEvent(d, e) ==
    CASE e.op = "shift"   -> [d EXCEPT !.shift = TRUE]
      [] e.op = "unshift" -> [d EXCEPT !.shift = FALSE]
      [] e.op = "press"   -> FoldLeft(Pushed, d, Bytes(e.key, d.shift))
      [] e.op = "release" -> IF Len(d.rel) = RelCap THEN [d EXCEPT !.full = TRUE]
                             ELSE [d EXCEPT !.rel = Append(@, Code(e.key))]

Polled == FoldLeft(HandleEvent, drv, events)

(***************************************************************************)
(* The window manager.                                                     *)
(***************************************************************************)
\* deliver_key, for each of ks
Delivered(ks) ==
    /\ shown' = shown \o [i \in 1 .. Len(ks) |-> [type |-> "KEY", key |-> ks[i]]]
    /\ kheld' = kheld \union ToSet(ks)

\* wm_keyboard_byte
KeyboardByte(b) ==
    \/ csi = 0 /\ b = "ESC" /\ csi' = 1 /\ Delivered(<<>>)
    \/ csi = 0 /\ b # "ESC" /\ csi' = 0 /\ Delivered(<<b>>)
    \/ csi = 1 /\ b = "[" /\ csi' = 2 /\ Delivered(<<>>)
    \/ csi = 1 /\ b = "ESC" /\ csi' = 1 /\ Delivered(<<"ESC">>)
    \/ csi = 1 /\ b \notin {"[", "ESC"} /\ csi' = 0 /\ Delivered(<<"ESC", b>>)
    \/ csi = 2 /\ csi' = 0 /\ Delivered(IF b = "up" THEN <<"UP">> ELSE <<>>)

\* virtio_input_try_getc
TakeByte ==
    /\ events' = <<>> /\ Polled.ring # <<>>
    /\ drv' = [Polled EXCEPT !.ring = Tail(@)]
    /\ KeyboardByte(Head(Polled.ring))
    /\ UNCHANGED <<keysDown, pump, typed>>

ConsoleByte == pump = "idle" /\ TakeByte

PumpStarts ==
    /\ pump = "idle" /\ pump' = "keys"
    /\ UNCHANGED <<keysDown, events, drv, csi, kheld, shown, typed>>

PumpByte == pump = "keys" /\ TakeByte

\* Mutant: an escape at the end of a batch waits for the next byte.
PumpFlush_Never ==
    /\ pump = "keys" /\ Polled.ring = <<>> /\ pump' = "releases"
    /\ events' = <<>> /\ drv' = Polled
    /\ UNCHANGED <<keysDown, csi, kheld, shown, typed>>

\* No byte is left: wm_flush_pending_keys.
PumpFlush ==
    /\ pump = "keys" /\ Polled.ring = <<>> /\ pump' = "releases"
    /\ events' = <<>> /\ drv' = Polled /\ csi' = 0
    /\ Delivered(IF csi = 0 THEN <<>> ELSE <<"ESC">>)
    /\ UNCHANGED <<keysDown, typed>>

\* virtio_input_try_get_release and wm_keyboard_release
PumpRelease ==
    /\ pump = "releases" /\ events' = <<>> /\ Polled.rel # <<>>
    /\ drv' = [Polled EXCEPT !.rel = Tail(@), !.late = @ \/ events # <<>>]
    /\ LET k == Head(Polled.rel) IN
       /\ kheld' = kheld \ {k}
       /\ shown' = IF k \in kheld THEN Append(shown, [type |-> "KEY_UP", key |-> k]) ELSE shown
    /\ UNCHANGED <<keysDown, csi, pump, typed>>

PumpEnds ==
    /\ pump = "releases" /\ events' = <<>> /\ Polled.rel = <<>>
    /\ drv' = [Polled EXCEPT !.late = @ \/ events # <<>>] /\ pump' = "idle"
    /\ UNCHANGED <<keysDown, csi, kheld, shown, typed>>

KeyboardNext ==
    \/ \E k \in AllKeys : Press(k) \/ Release(k)
    \/ ShiftKey \/ ConsoleByte \/ PumpStarts \/ PumpByte \/ PumpFlush \/ PumpRelease \/ PumpEnds

(***************************************************************************)
(* Properties.                                                             *)
(***************************************************************************)
Idle == pump = "idle" /\ events = <<>> /\ drv.ring = <<>> /\ drv.rel = <<>> /\ csi = 0

KeysShown == LET keys == SelectSeq(shown, LAMBDA e : e.type = "KEY")
             IN  [i \in 1 .. Len(keys) |-> keys[i].key]

\* What is typed arrives, in its order and as the key it was, through the bytes and back: an arrow
\* is never taken for an escape and two letters, nor an escape for the beginning of an arrow
\* (translate_key, wm_keyboard_byte, wm_flush_pending_keys).
TypedArrives == ~drv.full => /\ IsPrefix(KeysShown, typed)
                             /\ Idle => KeysShown = typed

\* When nothing is on its way no key is held down for the window that the user has let go, and the
\* window was told so (wm_keyboard_release: "pair UP with DOWN").  Not so after a letter typed with
\* shift, whose release names the letter without it, nor when a press and its release came in
\* while the releases were pumped: then the release goes first.
NoStuckKey ==
    Idle /\ ~drv.full /\ ~drv.late /\ "A" \notin ToSet(typed) =>
        /\ kheld \subseteq {Code(k) : k \in keysDown \ {"shift"}}
        /\ \A i \in 1 .. Len(shown) :
              shown[i].key \notin kheld =>
                  \E j \in i .. Len(shown) : shown[j] = [type |-> "KEY_UP", key |-> shown[i].key]

KeysSound == TypedArrives /\ NoStuckKey
=============================================================================
