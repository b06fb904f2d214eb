------------------------------ MODULE WmFocus ------------------------------
(***************************************************************************)
(* The keyboard focus of the kernel's window table.                        *)
(*                                                                         *)
(* Windows.tla composes the table with the server that drives it.  Here    *)
(* the calls of WmKernel come in any order from anybody, as the system     *)
(* call interface allows (raise and minimize check no owner), between key  *)
(* presses and releases: what is checked holds whatever the server does.   *)
(***************************************************************************)
EXTENDS WmKernel

Create == \E c \in Clients, kind \in Kinds :
    FreeKSlots(kern) # {} /\ kern' = CreateWindow(kern, Min(FreeKSlots(kern)), c, 0, kind)
DestroyOne == \E k \in KSlots : InUse(kern, k) /\ kern' = Destroy(kern, {k})
DestroyOwner == \E c \in Clients : kern' = Destroy(kern, {k \in KSlots : kern.win[k].owner = c})
RaiseAny == \E k \in KSlots : kern' = Raise(kern, k)
Minimize == \E k \in KSlots, on \in BOOLEAN : kern' = SetMinimized(kern, k, on)
Press == \E k \in Hittable(kern) : kern' = PressOn(kern, k)
Route == \E k \in KSlots : kern' = SetPassthrough(kern, k)
Down == \E key \in Keys : kern' = KeyDown(kern, key)
Up == \E key \in Keys : kern' = KeyUp(kern, key)
Poll == \E c \in Clients : kern' = PollEvent(kern, c)

FocusNext == \/ Create \/ DestroyOne \/ DestroyOwner \/ RaiseAny \/ Minimize \/ Press
             \/ Route \/ Down \/ Up \/ Poll

FocusSpec == kern = KInit /\ [][FocusNext]_kern

(***************************************************************************)
(* Properties.                                                             *)
(***************************************************************************)
\* As long as no ring has dropped an event, no window is left with a key down when the keyboard
\* goes to another, and none is sent the release of a key whose press another window saw: the
\* focused window has seen exactly the presses of the keys held (set_focus, deliver_key,
\* wm_keyboard_release, synthesize_releases_to and the reuse of slots).
KeysPaired ==
    kern.lost \/ /\ ~kern.phantom
                 /\ \A k \in KSlots : kern.down[k] = IF k = kern.focus THEN kern.held ELSE {}

\* The focus never stays behind on a slot whose window is gone, where keys would be swallowed.
FocusIsInUse == kern.focus # -1 => InUse(kern, kern.focus)

\* Keys go where the user sees them go.
FocusSound == KeysPaired /\ FocusIsInUse
=============================================================================
