------------------------------ MODULE Terminal ------------------------------
(***************************************************************************)
(* A terminal window: gui_term (userspace/gui_term) holds the master of a  *)
(* pty (kernel/core/pty.c), the shell and the command it runs the slave.   *)
(* A pty is two pipes (kernel/core/pipe.c) and the pid that Ctrl-C goes to.*)
(* Whoever finds a pipe full or empty sleeps on it, readers and writers on *)
(* the same token, until a wakeup makes it look again.                     *)
(*                                                                         *)
(* gui_term alternates between the events of its window, which it writes   *)
(* to the master byte by byte, and the output of the shell, which it reads *)
(* only when no event is left.                                             *)
(***************************************************************************)
EXTENDS Integers, Sequences, SequencesExt

CONSTANTS Cap,      \* PIPE_BUF_SIZE
          PasteMax  \* bound: bytes of a paste (CLIP_DATA_MAX in the code)

ASSUME TerminalAssumption == Cap \in Nat \ {0} /\ PasteMax \in Nat

VARIABLES
    m2s,     \* what was typed and not read: "key" or "enter"
    s2m,     \* how many bytes of output wait
    open,    \* the master is open
    term,    \* where gui_term is, and what it has still to write
    shell,   \* where the shell is, where it goes after its output, and a pending SIGINT
    cmd,     \* the command: where it is, in the background, a pending SIGINT
    fore,    \* fg_pid is the command
    asleep   \* of each actor: the pipe it is blocked on, "woken" in the same call, or "no"

terminalVars == <<m2s, s2m, open, term, shell, cmd, fore, asleep>>

Actors == {"term", "sh", "cmd"}
Running == {"run", "reading", "writing"}
SlaveOpen(s, c) == s.pc # "dead" \/ c.pc \in Running

\* What a window event gives gui_term to write: Ctrl-C, or a key or a paste.
Inputs == {<<"int">>} \union (BoundedSeq({"key", "enter"}, PasteMax) \ {<<>>})

TerminalInit ==
    /\ m2s = <<>> /\ s2m = 0 /\ open = TRUE /\ fore = FALSE
    /\ term = [pc |-> "poll", out |-> <<>>]
    /\ shell = [pc |-> "echo", next |-> "read", sig |-> FALSE]
    /\ cmd = [pc |-> "none", bg |-> FALSE, sig |-> FALSE]
    /\ asleep = [a \in Actors |-> "no"]

\* thread_wake_blocked
Wake(pipe) == [a \in Actors |-> IF asleep[a] = pipe THEN "woken" ELSE asleep[a]]
WakeAll == [a \in Actors |-> IF asleep[a] \in {"m2s", "s2m"} THEN "woken" ELSE asleep[a]]
Signalled(a) == [asleep EXCEPT ![a] = IF @ = "no" THEN "no" ELSE "woken"]
Awake(a) == asleep[a] \in {"no", "woken"}
Sleep(a, pipe) ==
    /\ asleep' = [asleep EXCEPT ![a] = pipe]
    /\ UNCHANGED <<m2s, s2m, open, term, shell, cmd, fore>>

(***************************************************************************)
(* gui_term.                                                               *)
(***************************************************************************)
Event ==
    /\ term.pc = "poll" /\ \E s \in Inputs : term' = [pc |-> "write", out |-> s]
    /\ UNCHANGED <<m2s, s2m, open, shell, cmd, fore, asleep>>

\* One byte through pty_master_write.  Ctrl-C is a signal for the foreground command, or nothing.
WriteByte ==
    /\ term.pc = "write" /\ Awake("term")
    /\ LET rest == [term EXCEPT !.out = Tail(@)] IN
       \/ /\ term.out = <<>> /\ term' = [term EXCEPT !.pc = "poll"]
          /\ UNCHANGED <<m2s, s2m, open, shell, cmd, fore, asleep>>
       \/ /\ term.out # <<>> /\ Head(term.out) = "int" /\ term' = rest
          /\ IF fore /\ cmd.pc \in Running
             THEN /\ cmd' = [cmd EXCEPT !.sig = TRUE] /\ asleep' = Signalled("cmd")
             ELSE UNCHANGED <<cmd, asleep>>
          /\ UNCHANGED <<m2s, s2m, open, shell, fore>>
       \/ /\ term.out # <<>> /\ Head(term.out) # "int"
          /\ \/ /\ ~SlaveOpen(shell, cmd) /\ term' = [term EXCEPT !.out = <<>>]
                /\ asleep' = [asleep EXCEPT !["term"] = "no"] /\ UNCHANGED <<m2s, s2m, open, shell, cmd, fore>>
             \/ SlaveOpen(shell, cmd) /\ Len(m2s) = Cap /\ Sleep("term", "m2s")
             \/ /\ SlaveOpen(shell, cmd) /\ Len(m2s) < Cap
                /\ m2s' = Append(m2s, Head(term.out)) /\ term' = rest /\ asleep' = [Wake("m2s") EXCEPT !["term"] = "no"]
                /\ UNCHANGED <<s2m, open, shell, cmd, fore>>

\* No event is left: read until the pipe is empty, then see whether the shell has exited.
Drain ==
    /\ term.pc \in {"poll", "drain"}
    /\ IF s2m > 0
       THEN s2m' = 0 /\ term' = [term EXCEPT !.pc = "drain"] /\ asleep' = Wake("s2m") /\ UNCHANGED open
       ELSE /\ term' = [term EXCEPT !.pc = IF shell.pc = "dead" THEN "gone" ELSE "poll"]
            /\ open' = (shell.pc # "dead")
            /\ asleep' = IF shell.pc = "dead" THEN WakeAll ELSE asleep
            /\ UNCHANGED s2m
    /\ UNCHANGED <<m2s, shell, cmd, fore>>

\* GUI_EVENT_CLOSE: kill, close, waitpid.
Kill ==
    /\ term.pc = "poll" /\ term' = [term EXCEPT !.pc = "killed"]
    /\ shell' = [shell EXCEPT !.sig = TRUE] /\ asleep' = Signalled("sh")
    /\ UNCHANGED <<m2s, s2m, open, cmd, fore>>

\* Mutant: closing the pipes wakes nobody; the signal alone has to end the shell.
CloseMaster_Quietly ==
    /\ term.pc = "killed" /\ term' = [term EXCEPT !.pc = "closing"]
    /\ open' = FALSE
    /\ UNCHANGED <<m2s, s2m, shell, cmd, fore, asleep>>

CloseMaster ==
    /\ term.pc = "killed" /\ term' = [term EXCEPT !.pc = "closing"]
    /\ open' = FALSE /\ asleep' = WakeAll
    /\ UNCHANGED <<m2s, s2m, shell, cmd, fore>>

Reap ==
    /\ term.pc = "closing" /\ shell.pc = "dead" /\ term' = [term EXCEPT !.pc = "gone"]
    /\ UNCHANGED <<m2s, s2m, open, shell, cmd, fore, asleep>>

(***************************************************************************)
(* The shell.  A pending SIGINT ends it when a system call returns; a      *)
(* write that finds no room does not look at it.                           *)
(***************************************************************************)
ShGo(pc, next) ==
    /\ shell' = IF shell.sig THEN [shell EXCEPT !.pc = "dead"] ELSE [shell EXCEPT !.pc = pc, !.next = next]

\* The last slave that goes closes its ends: gui_term is woken.
Closing(s, c, woken) == IF SlaveOpen(s, c) THEN woken ELSE WakeAll
Returned(a, woken) == [woken EXCEPT ![a] = "no"]

\* pipe_read_until looks for a signal when it was woken, not before it sleeps.
Interrupted(a, actor) == asleep[a] = "woken" /\ actor.sig

ShRead ==
    /\ shell.pc = "read" /\ Awake("sh") /\ UNCHANGED <<s2m, open, term, cmd, fore>>
    /\ \/ /\ m2s # <<>> /\ m2s' = Tail(m2s)
          /\ \/ ShGo("echo", IF Head(m2s) = "enter" THEN "line" ELSE "read")
             \/ Head(m2s) = "key" /\ ShGo("read", "read")  \* nothing to echo, or the line is full
          /\ asleep' = Returned("sh", Closing(shell', cmd, Wake("m2s")))
       \/ /\ m2s = <<>> /\ (~open \/ Interrupted("sh", shell))  \* read_line_raw reads on, at the end of the file too
          /\ ShGo("read", "read") /\ asleep' = Returned("sh", Closing(shell', cmd, asleep)) /\ UNCHANGED m2s
       \/ m2s = <<>> /\ open /\ ~Interrupted("sh", shell) /\ asleep' = [asleep EXCEPT !["sh"] = "m2s"] /\ UNCHANGED <<m2s, shell>>

ShEcho ==
    /\ shell.pc = "echo" /\ Awake("sh") /\ UNCHANGED <<m2s, open, term, cmd, fore>>
    /\ \/ ~open /\ ShGo(shell.next, "read") /\ asleep' = Returned("sh", Closing(shell', cmd, asleep)) /\ UNCHANGED s2m
       \/ open /\ s2m = Cap /\ asleep' = [asleep EXCEPT !["sh"] = "s2m"] /\ UNCHANGED <<s2m, shell>>
       \/ /\ open /\ s2m < Cap /\ s2m' = s2m + 1
          /\ ShGo(shell.next, "read") /\ asleep' = Returned("sh", Closing(shell', cmd, Wake("s2m")))

\* A line: nothing to wait for, a command, or `exit`.  A background command stays unreaped.
ShLine ==
    /\ shell.pc = "line" /\ UNCHANGED <<m2s, s2m, open, term, fore>>
    /\ \/ ShGo("echo", "read") /\ asleep' = Closing(shell', cmd, asleep) /\ UNCHANGED cmd
       \/ \E bg \in BOOLEAN :
             /\ cmd.pc = "none" /\ cmd' = [pc |-> "run", bg |-> bg, sig |-> FALSE]
             /\ IF bg THEN ShGo("echo", "read") ELSE ShGo("spawned", "read")
             /\ UNCHANGED asleep
       \/ /\ shell' = [shell EXCEPT !.pc = "dead"] /\ asleep' = Closing(shell', cmd, asleep) /\ UNCHANGED cmd

ShForeground ==
    /\ shell.pc = "spawned" /\ fore' = TRUE /\ ShGo("wait", "read")
    /\ asleep' = Closing(shell', cmd, asleep) /\ UNCHANGED <<m2s, s2m, open, term, cmd>>

\* wait() is not ended by a signal.
ShWait ==
    /\ shell.pc = "wait" /\ cmd.pc = "zombie" /\ cmd' = [cmd EXCEPT !.pc = "none", !.sig = FALSE]
    /\ ShGo("done", "read") /\ asleep' = Closing(shell', cmd', asleep)
    /\ UNCHANGED <<m2s, s2m, open, term, fore>>

ShDone ==
    /\ shell.pc = "done" /\ fore' = FALSE /\ ShGo("echo", "read")
    /\ asleep' = Closing(shell', cmd, asleep) /\ UNCHANGED <<m2s, s2m, open, term, cmd>>

(***************************************************************************)
(* The command: reads, writes, ends.                                       *)
(***************************************************************************)
CmdCalls ==
    /\ cmd.pc = "run" /\ ~cmd.sig /\ \E pc \in {"reading", "writing"} : cmd' = [cmd EXCEPT !.pc = pc]
    /\ UNCHANGED <<m2s, s2m, open, term, shell, fore, asleep>>

CmdEnds ==
    /\ cmd.pc = "run" /\ cmd' = [cmd EXCEPT !.pc = "zombie"]
    /\ asleep' = Closing(shell, cmd', asleep) /\ UNCHANGED <<m2s, s2m, open, term, shell, fore>>

CmdReads ==
    /\ cmd.pc = "reading" /\ Awake("cmd")
    /\ \/ /\ m2s # <<>> /\ m2s' = Tail(m2s) /\ cmd' = [cmd EXCEPT !.pc = "run"] /\ asleep' = Returned("cmd", Wake("m2s"))
          /\ UNCHANGED <<s2m, open, term, shell, fore>>
       \/ /\ m2s = <<>> /\ (~open \/ Interrupted("cmd", cmd)) /\ cmd' = [cmd EXCEPT !.pc = "run"]
          /\ asleep' = Returned("cmd", asleep) /\ UNCHANGED <<m2s, s2m, open, term, shell, fore>>
       \/ m2s = <<>> /\ open /\ ~Interrupted("cmd", cmd) /\ Sleep("cmd", "m2s")

CmdWrites ==
    /\ cmd.pc = "writing" /\ Awake("cmd")
    /\ \/ /\ ~open /\ cmd' = [cmd EXCEPT !.pc = "run"] /\ asleep' = Returned("cmd", asleep)
          /\ UNCHANGED <<m2s, s2m, open, term, shell, fore>>
       \/ open /\ s2m = Cap /\ Sleep("cmd", "s2m")
       \/ /\ open /\ s2m < Cap /\ s2m' = s2m + 1 /\ cmd' = [cmd EXCEPT !.pc = "run"] /\ asleep' = Returned("cmd", Wake("s2m"))
          /\ UNCHANGED <<m2s, open, term, shell, fore>>

TerminalNext ==
    \/ Event \/ WriteByte \/ Drain \/ Kill \/ CloseMaster \/ Reap
    \/ ShRead \/ ShEcho \/ ShLine \/ ShForeground \/ ShWait \/ ShDone
    \/ CmdCalls \/ CmdEnds \/ CmdReads \/ CmdWrites

TerminalSpec == TerminalInit /\ [][TerminalNext]_terminalVars

(***************************************************************************)
(* Properties.                                                             *)
(***************************************************************************)
\* Which states the three programs and the two rings can be in; neither ring overflows.
TerminalTypeOK ==
    /\ m2s \in Seq({"key", "enter"}) /\ Len(m2s) <= Cap
    /\ s2m \in 0 .. Cap
    /\ open \in BOOLEAN /\ fore \in BOOLEAN
    /\ term \in [pc : {"poll", "write", "drain", "killed", "closing", "gone"}, out : Seq({"key", "enter", "int"})]
    /\ shell \in [pc : {"echo", "read", "line", "spawned", "wait", "done", "dead"},
                  next : {"read", "line"}, sig : BOOLEAN]
    /\ cmd \in [pc : Running \union {"none", "zombie"}, bg : BOOLEAN, sig : BOOLEAN]
    /\ asleep \in [Actors -> {"no", "woken", "m2s", "s2m"}]

\* Nobody sleeps on a pipe that has what he waits for, or will never have it because the other
\* side is closed: every read, write and close wakes all it could concern (pipe_read_until,
\* pipe_write_until, pipe_unref).
SleepIsJustified ==
    \A a \in Actors :
       /\ asleep[a] = "m2s" => IF a = "term" THEN Len(m2s) = Cap /\ SlaveOpen(shell, cmd)
                               ELSE m2s = <<>> /\ open
       /\ asleep[a] = "s2m" => s2m = Cap /\ open

\* A window that is being closed does not wait for a shell that will not end: the shell reads on at
\* the end of its input, and only the signal ends it; and no shell is left when the window is gone.
CloseEnds ==
    /\ term.pc = "closing" => shell.sig \/ shell.pc = "dead"
    /\ term.pc = "gone" => shell.pc = "dead"

\* Ctrl-C is for the command the shell waits for, never for one in the background.
InterruptIsForeground == fore => ~cmd.bg /\ shell.pc \in {"wait", "done", "dead"}

TerminalSound == TerminalTypeOK /\ SleepIsJustified /\ CloseEnds /\ InterruptIsForeground

\* gui_term.c:431 says of a paste into a full pty that it parks the caller and "resolves in a few
\* schedule ticks": whoever could make room must not sleep itself on output that only gui_term
\* reads.
PasteResolves ==
    ~ /\ asleep["term"] = "m2s"
      /\ asleep["sh"] = "s2m" \/ (shell.pc = "wait" /\ asleep["cmd"] = "s2m")
      /\ asleep["cmd"] = "s2m" \/ cmd.pc \notin Running
=============================================================================
