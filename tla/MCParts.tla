------------------------------ MODULE MCParts ------------------------------
(***************************************************************************)
(* What runs above the system calls: the window server over the kernel's   *)
(* windows, the kernel's windows alone, the frame buffers; the browser and *)
(* the users of a lock, two programs of several threads; the shell and     *)
(* init with their children; a terminal window.                            *)
(* The first state picks a part and only that part moves.                  *)
(***************************************************************************)
EXTENDS Windows, WmFocus, WinFb, Browser, Mutex, Jobs, Terminal

CONSTANTS a, b, desktop, m1, m2, u, v, wsd

VARIABLE part

KindDef == (a :> "app") @@ (b :> "app") @@ (desktop :> "wall")
PlacesDef == ("app" :> {{1}, {1, 2}}) @@ ("wall" :> {{1, 2}})

\* Applications are interchangeable, and so are urls.
Symmetry == Permutations({a, b}) \union Permutations({u, v})

serverVars == <<cl, conn, win, z, nextId, screen, grab, astray>>

Init == /\ part \in {"windows", "focus", "frames", "browser", "lock", "jobs", "terminal"}
        /\ WindowsInit /\ FbInit /\ BrowserInit /\ MutexInit /\ JobsInit /\ TerminalInit
        /\ part # "browser" => Threaded /\ page = Min(Pages) /\ url = u

Only(p) ==
    /\ part = p /\ UNCHANGED part
    /\ p \notin {"windows", "focus"} => UNCHANGED windowsVars
    /\ p # "frames" => UNCHANGED fbVars
    /\ p # "browser" => UNCHANGED browserVars
    /\ p # "lock" => UNCHANGED mutexVars
    /\ p # "jobs" => UNCHANGED jobsVars
    /\ p # "terminal" => UNCHANGED terminalVars

Next ==
    \/ Only("windows") /\ WindowsNext
    \/ Only("focus") /\ FocusNext /\ UNCHANGED serverVars
    \/ Only("frames") /\ FbNext
    \/ Only("browser") /\ BrowserNext
    \/ Only("lock") /\ MutexNext
    \/ Only("jobs") /\ JobsNext
    \/ Only("terminal") /\ TerminalNext

Spec ==
    Init /\ [][Next]_<<part, windowsVars, fbVars, browserVars, mutexVars, jobsVars, terminalVars>>
=============================================================================
