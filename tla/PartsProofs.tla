----------------------------- MODULE PartsProofs -----------------------------
(***************************************************************************)
(* The small parts of the system are sound: the lock of user               *)
(* space for any number of threads, a terminal window for pipes of any     *)
(* size and pastes of any length, the shell and init for any number of     *)
(* commands, children and daemons, the two threads of the browser for any  *)
(* number of pages, requests and clicks and a history of any capacity, a   *)
(* shared frame buffer for any number of clients, entries and generations, *)
(* the allocators of the kernel and of a program for heaps of any size,    *)
(* the resolver, the lease and the neighbours for any threads, names,      *)
(* servers and tables of any size.                                         *)
(***************************************************************************)
EXTENDS Mutex, Terminal, Jobs, Browser, WinFb, Heaps, NetServices, FiniteSetTheorems, SequenceTheorems, WellFoundedInduction, TLAPS

(***************************************************************************)
(* The lock.                                                               *)
(***************************************************************************)
\* MutexSound with the types is inductive: what a sleeper waits for is known from the word
\* (Exclusive) at the step that puts it to sleep.
MutexInv == MutexTypeOK /\ MutexSound

\* The lock starts free.
LEMMA MutexStarts == MutexInit => MutexInv
BY DEF MutexInit, MutexInv, MutexTypeOK, MutexSound, Exclusive, SleepersAreWoken, Points

\* Every step of mutex_lock and mutex_unlock keeps the lock sound.
LEMMA MutexKeeps == MutexInv /\ [MutexNext]_mutexVars => MutexInv'
<1> SUFFICES ASSUME MutexInv, [MutexNext]_mutexVars PROVE MutexInv'
  OBVIOUS
<1> USE DEF MutexInv, MutexTypeOK, MutexSound, Exclusive, SleepersAreWoken, Points, Step
<1>1. CASE UNCHANGED mutexVars
  BY <1>1 DEF mutexVars
<1>2. ASSUME NEW t \in Lockers, Want(t) PROVE MutexInv'
  BY <1>2 DEF Want
<1>3. ASSUME NEW t \in Lockers, CmpXchg(t) PROVE MutexInv'
  <2>1. CASE word = 0 /\ Step(t, "lock", "in") /\ word' = 1
    <3>1. \A u \in Lockers : place'[u] = "in" <=> u = t
      BY <2>1
    <3>2. QED
      BY <2>1, <3>1
  <2>2. CASE word = 1 /\ Step(t, "lock", "wait") /\ UNCHANGED word
    BY <2>2
  <2>3. QED
    BY <1>3, <2>1, <2>2 DEF CmpXchg
<1>4. ASSUME NEW t \in Lockers, FutexSleep(t) PROVE MutexInv'
  BY <1>4 DEF FutexSleep
<1>5. ASSUME NEW t \in Lockers, Spurious(t) PROVE MutexInv'
  BY <1>5 DEF Spurious
<1>6. ASSUME NEW t \in Lockers, Unlock(t) PROVE MutexInv'
  <2>1. \A u \in Lockers : place'[u] # "in"
    BY <1>6 DEF Unlock
  <2>2. QED
    BY <1>6, <2>1 DEF Unlock
<1>7. ASSUME NEW t \in Lockers, FutexWake(t) PROVE MutexInv'
  <2>1. \A u \in Lockers : place'[u] = "in" <=> place[u] = "in"
    BY <1>7 DEF FutexWake
  <2>2. \A u \in Lockers : place'[u] # "asleep"
    BY <1>7 DEF FutexWake
  <2>3. MutexTypeOK'
    BY <1>7 DEF FutexWake
  <2>4. QED
    BY <1>7, <2>1, <2>2, <2>3 DEF FutexWake
<1>8. QED
  BY <1>1, <1>2, <1>3, <1>4, <1>5, <1>6, <1>7 DEF MutexNext

\* For every set of threads: one at a time inside, and no thread asleep on a lock that nobody
\* will wake it from.
THEOREM LockIsSound == MutexSpec => []MutexSound
<1>1. MutexInv => MutexSound
  BY DEF MutexInv
<1>2. QED
  BY MutexStarts, MutexKeeps, <1>1, PTL DEF MutexSpec

(***************************************************************************)
(* A terminal window.                                                      *)
(***************************************************************************)
\* What makes CloseEnds and InterruptIsForeground inductive: the signal is on its way before the
\* master is closed, and between the spawn and the wait the command is not in the background.
ClosingIsSignalled == term.pc = "killed" => shell.sig \/ shell.pc = "dead"
WaitsForForeground == shell.pc \in {"spawned", "wait", "done"} => ~cmd.bg

TerminalInv == TerminalSound /\ ClosingIsSignalled /\ WaitsForForeground

\* The shell is about to write its prompt.
LEMMA TerminalStarts == TerminalInit => TerminalInv
<1> SUFFICES ASSUME TerminalInit PROVE TerminalInv
  OBVIOUS
<1> USE DEF TerminalInit, Actors, Running
<1>1. TerminalTypeOK
  <2>1. m2s \in Seq({"key", "enter"}) /\ Len(m2s) <= Cap /\ s2m \in 0 .. Cap
    BY TerminalAssumption
  <2>2. term \in [pc : {"poll", "write", "drain", "killed", "closing", "gone"}, out : Seq({"key", "enter", "int"})]
    OBVIOUS
  <2>3. QED
    BY <2>1, <2>2 DEF TerminalTypeOK
<1>2. SleepIsJustified
  BY DEF SleepIsJustified
<1>3. CloseEnds /\ InterruptIsForeground /\ ClosingIsSignalled /\ WaitsForForeground
  BY DEF CloseEnds, InterruptIsForeground, ClosingIsSignalled, WaitsForForeground
<1>4. QED
  BY <1>1, <1>2, <1>3 DEF TerminalInv, TerminalSound

\* Every step of gui_term, the shell and the command keeps the terminal sound.
LEMMA TerminalKeeps == TerminalInv /\ [TerminalNext]_terminalVars => TerminalInv'
<1> SUFFICES ASSUME TerminalInv, [TerminalNext]_terminalVars PROVE TerminalInv'
  OBVIOUS
<1> USE TerminalAssumption
    DEF TerminalInv, TerminalSound, TerminalTypeOK, SleepIsJustified, CloseEnds, InterruptIsForeground,
        ClosingIsSignalled, WaitsForForeground, Running, Actors, SlaveOpen, Awake, Wake, WakeAll
<1>1. CASE UNCHANGED terminalVars
  BY <1>1 DEF terminalVars
<1>2. CASE Event
  <2>1. \A s \in Inputs : s \in Seq({"key", "enter", "int"})
    <3>1. ASSUME NEW s \in BoundedSeq({"key", "enter"}, PasteMax) PROVE s \in Seq({"key", "enter"})
      <4>1. PICK m \in 0 .. PasteMax : s \in [1 .. m -> {"key", "enter"}]
        BY <3>1 DEF BoundedSeq, SeqOf
      <4>2. m \in Nat
        OBVIOUS
      <4>3. QED
        BY <4>1, <4>2, SeqDef
    <3>2. <<"int">> \in Seq({"key", "enter", "int"})
      OBVIOUS
    <3>3. \A s \in Seq({"key", "enter"}) : s \in Seq({"key", "enter", "int"})
      OBVIOUS
    <3>4. QED
      BY <3>1, <3>2, <3>3 DEF Inputs
  <2>2. QED
    <3>1. PICK s \in Inputs : term' = [pc |-> "write", out |-> s]
      BY <1>2 DEF Event
    <3>2. term' \in [pc : {"poll", "write", "drain", "killed", "closing", "gone"}, out : Seq({"key", "enter", "int"})]
      BY <2>1, <3>1
    <3>3. QED
      BY <1>2, <3>1, <3>2 DEF Event
<1>3. CASE WriteByte
  <2> DEFINE rest == [term EXCEPT !.out = Tail(@)]
  <2>0. term.pc = "write" /\ (term.out # <<>> => rest \in [pc : {"write"}, out : Seq({"key", "enter", "int"})])
    BY <1>3, HeadTailProperties DEF WriteByte
  <2>1. CASE term.out = <<>>
    BY <1>3, <2>1 DEF WriteByte
  <2>2. CASE term.out # <<>> /\ Head(term.out) = "int"
    <3>1. /\ term' = rest /\ UNCHANGED <<m2s, s2m, open, shell, fore>>
          /\ \/ cmd' = [cmd EXCEPT !.sig = TRUE] /\ asleep' = Signalled("cmd")
             \/ UNCHANGED <<cmd, asleep>>
      BY <1>3, <2>2 DEF WriteByte
    <3>2. \A a \in Actors : asleep'[a] = asleep[a] \/ asleep'[a] = "woken"
      BY <3>1 DEF Signalled
    <3>3. asleep' \in [Actors -> {"no", "woken", "m2s", "s2m"}]
      BY <3>1 DEF Signalled
    <3>4. QED
      BY ZenonT(60), <2>0, <2>2, <3>1, <3>2, <3>3
  <2>3. CASE term.out # <<>> /\ Head(term.out) # "int"
    <3>0. Head(term.out) \in {"key", "enter"}
      BY <2>3, HeadTailProperties
    <3>1. CASE /\ ~SlaveOpen(shell, cmd) /\ term' = [term EXCEPT !.out = <<>>]
               /\ asleep' = [asleep EXCEPT !["term"] = "no"] /\ UNCHANGED <<m2s, s2m, open, shell, cmd, fore>>
      <4>1. term' \in [pc : {"write"}, out : Seq({"key", "enter", "int"})]
        <5>1. <<>> \in Seq({"key", "enter", "int"})
          OBVIOUS
        <5>2. QED
          BY <2>0, <3>1, <5>1
      <4>2. /\ asleep' \in [Actors -> {"no", "woken", "m2s", "s2m"}]
            /\ \A a \in Actors : asleep'[a] \in {"no", asleep[a]}
        BY <3>1
      <4>3. asleep'["term"] = "no" /\ UNCHANGED <<m2s, s2m, open, shell, cmd, fore>>
        BY <3>1
      <4>4. QED
        BY <2>0, <4>1, <4>2, <4>3
    <3>2. CASE SlaveOpen(shell, cmd) /\ Len(m2s) = Cap /\ Sleep("term", "m2s")
      <4>1. UNCHANGED term /\ UNCHANGED <<m2s, s2m, open, shell, cmd, fore>> /\ asleep' = [asleep EXCEPT !["term"] = "m2s"]
        BY <3>2 DEF Sleep
      <4>2. QED
        BY <3>2, <4>1
    <3>3. CASE /\ SlaveOpen(shell, cmd) /\ Len(m2s) < Cap /\ m2s' = Append(m2s, Head(term.out)) /\ term' = rest
               /\ asleep' = [Wake("m2s") EXCEPT !["term"] = "no"] /\ UNCHANGED <<s2m, open, shell, cmd, fore>>
      <4>1. m2s' \in Seq({"key", "enter"}) /\ Len(m2s') <= Cap
        BY <3>0, <3>3, AppendProperties
      <4>2. asleep' \in [Actors -> {"no", "woken", "s2m"}] /\ \A a \in Actors : asleep'[a] = "s2m" => asleep[a] = "s2m"
        BY <3>3
      <4>3. QED
        BY <2>0, <2>3, <3>3, <4>1, <4>2
    <3>4. QED
      BY <1>3, <2>3, <3>1, <3>2, <3>3 DEF WriteByte
  <2>4. QED
    BY <2>1, <2>2, <2>3
<1>4. CASE Drain
  <2>1. CASE s2m > 0
    BY <1>4, <2>1 DEF Drain
  <2>2. CASE ~(s2m > 0) /\ shell.pc = "dead"
    BY <1>4, <2>2 DEF Drain
  <2>3. CASE ~(s2m > 0) /\ shell.pc # "dead"
    BY <1>4, <2>3 DEF Drain
  <2>4. QED
    BY <2>1, <2>2, <2>3
<1>5. CASE Kill
  BY <1>5 DEF Kill, Signalled
<1>6. CASE CloseMaster
  BY ZenonT(60), <1>6 DEF CloseMaster
<1>7. CASE Reap
  BY <1>7 DEF Reap
<1>8. CASE ShRead
  <2>0. shell.pc = "read" /\ UNCHANGED <<s2m, open, term, cmd, fore>>
    BY <1>8 DEF ShRead
  <2>1. CASE /\ m2s # <<>> /\ m2s' = Tail(m2s)
             /\ \/ ShGo("echo", IF Head(m2s) = "enter" THEN "line" ELSE "read")
                \/ Head(m2s) = "key" /\ ShGo("read", "read")
             /\ asleep' = Returned("sh", Closing(shell', cmd, Wake("m2s")))
    <3>1. m2s' \in Seq({"key", "enter"}) /\ Len(m2s') <= Cap
      BY <2>1, HeadTailProperties
    <3>2. PICK pc \in {"echo", "read"}, next \in {"read", "line"} : ShGo(pc, next)
      BY <2>1
    <3>3. asleep' \in [Actors -> {"no", "woken", "s2m"}] /\ \A a \in Actors : asleep'[a] = "s2m" => asleep[a] = "s2m"
      BY <2>1 DEF Returned, Closing
    <3>4. QED
      <4>1. /\ shell' \in [pc : {"echo", "read", "dead"}, next : {"read", "line"}, sig : BOOLEAN]
            /\ shell'.sig = shell.sig
        BY <3>2 DEF ShGo
      <4>2. ~fore' /\ UNCHANGED <<s2m, open, term, cmd, fore>>
        BY <2>0
      <4>3. TerminalTypeOK'
        BY <3>1, <3>3, <4>1, <4>2
      <4>4. SleepIsJustified'
        BY <3>3, <4>2
      <4>5. QED
        BY <2>0, <4>1, <4>2, <4>3, <4>4
  <2>2. CASE /\ ShGo("read", "read") /\ asleep' = Returned("sh", Closing(shell', cmd, asleep)) /\ UNCHANGED m2s
    BY ZenonT(60), <2>0, <2>2 DEF ShGo, Closing, Returned
  <2>3. CASE m2s = <<>> /\ open /\ asleep' = [asleep EXCEPT !["sh"] = "m2s"] /\ UNCHANGED <<m2s, shell>>
    BY <2>0, <2>3
  <2>4. QED
    BY <1>8, <2>1, <2>2, <2>3 DEF ShRead
<1>9. CASE ShEcho
  <2>0. shell.pc = "echo" /\ UNCHANGED <<m2s, open, term, cmd, fore>>
    BY <1>9 DEF ShEcho
  <2>1. CASE ShGo(shell.next, "read") /\ asleep' = Returned("sh", Closing(shell', cmd, asleep)) /\ UNCHANGED s2m
    BY ZenonT(60), <2>0, <2>1 DEF ShGo, Closing, Returned
  <2>2. CASE open /\ s2m = Cap /\ asleep' = [asleep EXCEPT !["sh"] = "s2m"] /\ UNCHANGED <<s2m, shell>>
    BY <2>0, <2>2
  <2>3. CASE /\ s2m < Cap /\ s2m' = s2m + 1 /\ ShGo(shell.next, "read")
             /\ asleep' = Returned("sh", Closing(shell', cmd, Wake("s2m")))
    <3>1. s2m' \in 0 .. Cap
      BY <2>3
    <3>2. asleep' \in [Actors -> {"no", "woken", "m2s"}] /\ \A a \in Actors : asleep'[a] = "m2s" => asleep[a] = "m2s"
      BY <2>3 DEF Returned, Closing
    <3>3. ~SlaveOpen(shell', cmd') => \A a \in Actors : asleep'[a] \in {"no", "woken"}
      BY <2>0, <2>3 DEF Returned, Closing
    <3>4. QED
      <4>1. /\ shell' \in [pc : {"read", "line", "dead"}, next : {"read", "line"}, sig : BOOLEAN]
            /\ shell'.sig = shell.sig
        BY <2>3 DEF ShGo
      <4>2. ~fore' /\ UNCHANGED <<m2s, open, term, cmd, fore>>
        BY <2>0
      <4>3. TerminalTypeOK'
        BY <3>1, <3>2, <4>1, <4>2
      <4>4. SleepIsJustified'
        BY <3>2, <3>3, <4>2
      <4>5. QED
        BY <2>0, <4>1, <4>2, <4>3, <4>4
  <2>4. QED
    BY <1>9, <2>1, <2>2, <2>3 DEF ShEcho
<1>10. CASE ShLine
  <2>1. CASE ShGo("echo", "read") /\ asleep' = Closing(shell', cmd, asleep) /\ UNCHANGED cmd
    BY ZenonT(60), <1>10, <2>1 DEF ShLine, ShGo, Closing
  <2>2. ASSUME NEW bg \in BOOLEAN, cmd.pc = "none", cmd' = [pc |-> "run", bg |-> bg, sig |-> FALSE],
               IF bg THEN ShGo("echo", "read") ELSE ShGo("spawned", "read"), UNCHANGED asleep
        PROVE  TerminalInv'
    BY ZenonT(60), <1>10, <2>2 DEF ShLine, ShGo
  <2>3. CASE /\ shell' = [shell EXCEPT !.pc = "dead"]
             /\ asleep' = Closing(shell', cmd, asleep) /\ UNCHANGED cmd
    BY <1>10, <2>3 DEF ShLine, Closing
  <2>4. QED
    BY <1>10, <2>1, <2>2, <2>3 DEF ShLine
<1>11. CASE ShForeground
  BY <1>11 DEF ShForeground, ShGo, Closing
<1>12. CASE ShWait
  BY <1>12 DEF ShWait, ShGo, Closing
<1>13. CASE ShDone
  BY <1>13 DEF ShDone, ShGo, Closing
<1>14. CASE CmdCalls
  <2>1. PICK pc \in {"reading", "writing"} : cmd' = [cmd EXCEPT !.pc = pc]
    BY <1>14 DEF CmdCalls
  <2>2. cmd.pc = "run" /\ UNCHANGED <<m2s, s2m, open, term, shell, fore, asleep>>
    BY <1>14 DEF CmdCalls
  <2>3. /\ cmd' \in [pc : {"reading", "writing"}, bg : BOOLEAN, sig : BOOLEAN]
        /\ cmd'.bg = cmd.bg
    BY <2>1
  <2>4. QED
    BY SMTT(40), <2>2, <2>3
<1>15. CASE CmdEnds
  BY <1>15 DEF CmdEnds, Closing
<1>16. CASE CmdReads
  <2>0. cmd.pc = "reading" /\ UNCHANGED <<s2m, open, term, shell, fore>>
    BY <1>16 DEF CmdReads, Sleep
  <2>1. CASE /\ m2s # <<>> /\ m2s' = Tail(m2s) /\ cmd' = [cmd EXCEPT !.pc = "run"] /\ asleep' = Returned("cmd", Wake("m2s"))
    <3>1. m2s' \in Seq({"key", "enter"}) /\ Len(m2s') <= Cap
      BY <2>1, HeadTailProperties
    <3>2. asleep' \in [Actors -> {"no", "woken", "s2m"}] /\ \A a \in Actors : asleep'[a] = "s2m" => asleep[a] = "s2m"
      BY <2>1 DEF Returned
    <3>3. cmd' \in [pc : {"run"}, bg : BOOLEAN, sig : BOOLEAN] /\ cmd'.bg = cmd.bg
      BY <2>1
    <3>4. QED
      BY <2>0, <3>1, <3>2, <3>3
  <2>2. CASE cmd' = [cmd EXCEPT !.pc = "run"] /\ asleep' = Returned("cmd", asleep) /\ UNCHANGED m2s
    BY ZenonT(60), <2>0, <2>2 DEF Returned
  <2>3. CASE m2s = <<>> /\ open /\ asleep' = [asleep EXCEPT !["cmd"] = "m2s"] /\ UNCHANGED <<m2s, cmd>>
    BY <2>0, <2>3
  <2>4. QED
    BY <1>16, <2>1, <2>2, <2>3 DEF CmdReads, Sleep
<1>17. CASE CmdWrites
  BY <1>17 DEF CmdWrites, Returned, Sleep
<1>18. QED
  BY <1>1, <1>2, <1>3, <1>4, <1>5, <1>6, <1>7, <1>8, <1>9, <1>10, <1>11, <1>12, <1>13, <1>14, <1>15, <1>16, <1>17
     DEF TerminalNext

\* For pipes of any size and pastes of any length: nobody sleeps for what is there or cannot come,
\* a window that closes has told its shell, and Ctrl-C goes to the command in the foreground.
THEOREM TerminalIsSound == TerminalSpec => []TerminalSound
<1>1. TerminalInv => TerminalSound
  BY DEF TerminalInv
<1>2. QED
  BY TerminalStarts, TerminalKeeps, <1>1, PTL DEF TerminalSpec

(***************************************************************************)
(* The shell and init.                                                     *)
(***************************************************************************)
KidType == [st : {"running", "exited", "reaped"}, code : Int]
InstState == {"running", "exited", "reaped"}

\* The fields of sh, of which one is a set and one is counted with.
ShellFields(s) == DOMAIN s = {"pc", "left", "stages", "mine", "failed", "bg", "waits", "last"}

JobsTypes ==
    /\ ShellFields(sh) /\ sh.mine \subseteq Nat /\ sh.waits \in Int
    /\ kids \in Seq(KidType) /\ fg \in Nat /\ status \in Int
    /\ sup \in [Daemons -> Nat] /\ insts \in [Daemons -> Seq(InstState)]

\* The children that are still there to be waited for.
Unreaped(c) == {t \in DOMAIN c : c[t].st # "reaped"}

\* The stages that were spawned are children, one of them the newest.
MineAreKids ==
    /\ sh.mine \subseteq DOMAIN kids
    /\ sh.mine # {} => \E t \in sh.mine : \A k \in sh.mine : k <= t

\* Without background jobs the shell waits for exactly the stages that are still there.
WaitsAreExact ==
    /\ sh.pc = "wait" => sh.mine # {}
    /\ ~mixed => /\ sh.pc \in {"spawn", "wait"} => Unreaped(kids) \subseteq sh.mine
                 /\ sh.pc = "spawn" => sh.mine \subseteq Unreaped(kids)
                 /\ sh.pc = "wait" => sh.waits = Cardinality(Unreaped(kids))

JobsInv == JobsTypes /\ JobsSound /\ MineAreKids /\ WaitsAreExact

LEMMA UnreapedAreFinite ==
  ASSUME NEW c \in Seq(KidType)
  PROVE  IsFiniteSet(Unreaped(c)) /\ Cardinality(Unreaped(c)) \in Nat
<1>1. Len(c) \in Nat /\ Unreaped(c) \subseteq 1 .. Len(c)
  BY DEF Unreaped
<1>2. IsFiniteSet(1 .. Len(c))
  BY <1>1, FS_Interval
<1>3. QED
  BY <1>1, <1>2, FS_Subset, FS_CardinalityType

LEMMA JobsStart == JobsInit => JobsInv
<1> SUFFICES ASSUME JobsInit PROVE JobsInv
  OBVIOUS
<1> USE DEF JobsInit, AtPrompt
<1>1. JobsTypes
  <2>1. <<"running">> \in Seq(InstState) /\ <<>> \in Seq(KidType)
    BY DEF InstState
  <2>2. ShellFields(sh) /\ sh.mine \subseteq Nat /\ sh.waits \in Int
    BY DEF ShellFields
  <2>3. kids \in Seq(KidType) /\ fg \in Nat /\ status \in Int
    BY <2>1
  <2>4. sup \in [Daemons -> Nat] /\ insts \in [Daemons -> Seq(InstState)]
    BY <2>1
  <2>5. QED
    BY <2>2, <2>3, <2>4 DEF JobsTypes
<1>2. PromptIsIdle /\ ForegroundIsMine /\ MineAreKids /\ WaitsAreExact
  BY DEF PromptIsIdle, ForegroundIsMine, MineAreKids, WaitsAreExact
<1>3. DaemonsAreKept
  BY DEF DaemonsAreKept
<1>4. QED
  BY <1>1, <1>2, <1>3 DEF JobsInv, JobsSound


LEMMA CommandKeeps ==
  ASSUME JobsInv, NEW n \in 1 .. MaxStages, NEW bg \in BOOLEAN, Command(n, bg)
  PROVE  JobsInv'
<1> USE DEF JobsInv, JobsSound
<1>1. /\ sh.pc = "prompt"
      /\ sh' = [AtPrompt EXCEPT !.pc = "spawn", !.left = n, !.stages = n, !.bg = bg /\ n = 1]
      /\ UNCHANGED <<kids, fg, status, mixed, sup, insts, init>>
  BY DEF Command, initVars
<1>2. /\ ShellFields(sh') /\ sh'.pc = "spawn" /\ sh'.mine = {} /\ sh'.waits \in Int
  BY <1>1, JobsAssumption DEF AtPrompt, ShellFields
<1>3. JobsTypes'
  BY <1>1, <1>2 DEF JobsTypes
<1>4. PromptIsIdle' /\ ForegroundIsMine' /\ MineAreKids'
  BY <1>1, <1>2 DEF PromptIsIdle, ForegroundIsMine, MineAreKids
<1>5. WaitsAreExact'
  <2>1. ~mixed => Unreaped(kids) = {}
    BY <1>1 DEF PromptIsIdle, Unreaped
  <2>2. QED
    BY <1>1, <1>2, <2>1 DEF WaitsAreExact
<1>6. DaemonsAreKept'
  BY <1>1 DEF DaemonsAreKept
<1>7. QED
  BY <1>3, <1>4, <1>5, <1>6

LEMMA SpawnStageKeeps ==
  ASSUME JobsInv, SpawnStage
  PROVE  JobsInv'
<1> USE DEF JobsInv, JobsSound
<1>1. sh.pc = "spawn" /\ fg = 0 /\ UNCHANGED <<fg, status, mixed, sup, insts, init>>
  BY DEF SpawnStage, initVars, ForegroundIsMine
<1>2. DaemonsAreKept'
  BY <1>1 DEF DaemonsAreKept
<1>3. CASE /\ kids' = Append(kids, [st |-> "running", code |-> 0])
           /\ sh' = [sh EXCEPT !.left = @ - 1, !.mine = @ \union {Len(kids')}]
  <2> DEFINE k == [st |-> "running", code |-> 0]
  <2> DEFINE l == Len(kids) + 1
  <2>1. k \in KidType /\ k.st = "running"
    BY DEF KidType
  <2> HIDE DEF k
  <2>2. /\ kids' \in Seq(KidType) /\ Len(kids') = l /\ l \in Nat /\ Len(kids) \in Nat
        /\ DOMAIN kids = 1 .. Len(kids) /\ DOMAIN kids' = 1 .. l
        /\ kids'[l] = k /\ \A t \in DOMAIN kids : kids'[t] = kids[t]
    BY <1>3, <2>1 DEF JobsTypes, k
  <2>3. /\ ShellFields(sh') /\ sh'.pc = "spawn" /\ sh'.mine \subseteq Nat /\ sh'.waits \in Int
        /\ sh'.mine = sh.mine \union {l}
    BY <1>1, <1>3, <2>2 DEF JobsTypes, ShellFields
  <2>4. JobsTypes'
    BY <1>1, <2>2, <2>3 DEF JobsTypes
  <2>5. PromptIsIdle' /\ ForegroundIsMine'
    BY <1>1, <2>3 DEF PromptIsIdle, ForegroundIsMine
  <2>6. MineAreKids'
    BY <2>2, <2>3 DEF MineAreKids
  <2>7. Unreaped(kids') = Unreaped(kids) \union {l}
    BY <2>1, <2>2 DEF Unreaped
  <2>8. WaitsAreExact'
    BY <1>1, <2>3, <2>7 DEF WaitsAreExact
  <2>9. QED
    BY <1>2, <2>4, <2>5, <2>6, <2>8
<1>4. CASE sh' = [sh EXCEPT !.left = @ - 1, !.failed = TRUE] /\ UNCHANGED kids
  <2>1. /\ ShellFields(sh') /\ sh'.pc = "spawn" /\ sh'.mine \subseteq Nat /\ sh'.waits \in Int
        /\ sh'.mine = sh.mine
    BY <1>1, <1>4 DEF JobsTypes, ShellFields
  <2>2. JobsTypes'
    BY <1>1, <1>4, <2>1 DEF JobsTypes
  <2>3. PromptIsIdle' /\ ForegroundIsMine' /\ MineAreKids' /\ WaitsAreExact'
    BY <1>1, <1>4, <2>1 DEF PromptIsIdle, ForegroundIsMine, MineAreKids, WaitsAreExact
  <2>4. QED
    BY <1>2, <2>2, <2>3
<1>5. QED
  BY <1>3, <1>4 DEF SpawnStage

LEMMA SettleKeeps ==
  ASSUME JobsInv, Settle
  PROVE  JobsInv'
<1> USE DEF JobsInv, JobsSound
<1>1. sh.pc = "spawn" /\ fg = 0 /\ UNCHANGED <<kids, sup, insts, init>>
  BY DEF Settle, initVars, ForegroundIsMine
<1>2. DaemonsAreKept'
  BY <1>1 DEF DaemonsAreKept
<1>3. CASE sh.mine = {} \/ sh.bg
  <2>1. /\ sh' = [AtPrompt EXCEPT !.mine = sh.mine, !.bg = sh.bg]
        /\ status' = IF sh.mine = {} THEN NotFound ELSE 0
        /\ mixed' = (mixed \/ sh.mine # {}) /\ UNCHANGED fg
    BY <1>3 DEF Settle
  <2>2. /\ ShellFields(sh') /\ sh'.pc = "prompt" /\ sh'.mine \subseteq Nat /\ sh'.waits \in Int
        /\ sh'.mine = sh.mine
    BY <2>1 DEF JobsTypes, AtPrompt, ShellFields
  <2>3. JobsTypes'
    BY <1>1, <2>1, <2>2 DEF JobsTypes, NotFound
  <2>4. ~mixed' => sh.mine = {} /\ Unreaped(kids) = {}
    BY <1>1, <2>1 DEF WaitsAreExact
  <2>5. PromptIsIdle'
    BY <1>1, <2>2, <2>4 DEF PromptIsIdle, Unreaped
  <2>6. ForegroundIsMine' /\ MineAreKids' /\ WaitsAreExact'
    BY <1>1, <2>1, <2>2 DEF ForegroundIsMine, MineAreKids, WaitsAreExact
  <2>7. QED
    BY <1>2, <2>3, <2>5, <2>6
<1>4. CASE ~(sh.mine = {} \/ sh.bg)
  <2>1. /\ sh' = [sh EXCEPT !.pc = "wait", !.waits = Waits(sh.mine)]
        /\ fg' = Newest(sh.mine) /\ UNCHANGED <<status, mixed>>
    BY <1>4 DEF Settle
  <2>2. kids \in Seq(KidType) /\ sh.mine \subseteq DOMAIN kids /\ sh.mine \subseteq Nat
    BY DEF JobsTypes, MineAreKids
  <2>3. Newest(sh.mine) \in sh.mine
    <3>1. \E t \in sh.mine : \A u \in sh.mine : u <= t
      BY <1>4 DEF MineAreKids
    <3>2. QED
      BY <3>1 DEF Newest
  <2>4. Cardinality(sh.mine) \in Nat
    <3>1. IsFiniteSet(1 .. Len(kids)) /\ sh.mine \subseteq 1 .. Len(kids)
      BY <2>2, FS_Interval
    <3>2. QED
      BY <3>1, FS_Subset, FS_CardinalityType
  <2>5. /\ ShellFields(sh') /\ sh'.pc = "wait" /\ sh'.mine \subseteq Nat /\ sh'.waits \in Int
        /\ sh'.mine = sh.mine /\ sh'.waits = Cardinality(sh.mine)
    BY <2>1, <2>4 DEF JobsTypes, Waits, ShellFields
  <2>6. JobsTypes'
    BY <1>1, <2>1, <2>2, <2>3, <2>5 DEF JobsTypes
  <2>7. PromptIsIdle' /\ ForegroundIsMine' /\ MineAreKids'
    BY <1>1, <2>1, <2>3, <2>5 DEF PromptIsIdle, ForegroundIsMine, MineAreKids
  <2>8. WaitsAreExact'
    <3>1. ~mixed => Unreaped(kids) = sh.mine
      BY <1>1 DEF WaitsAreExact
    <3>2. QED
      BY <1>1, <1>4, <2>1, <2>5, <3>1 DEF WaitsAreExact
  <2>9. QED
    BY <1>2, <2>6, <2>7, <2>8
<1>5. QED
  BY <1>3, <1>4

LEMMA WaitOneKeeps ==
  ASSUME JobsInv, NEW t \in DOMAIN kids, WaitOne(t)
  PROVE  JobsInv'
<1> USE DEF JobsInv, JobsSound
<1>1. /\ sh.pc = "wait" /\ kids[t].st = "exited" /\ fg \in sh.mine
      /\ kids' = [kids EXCEPT ![t] = [kids[t] EXCEPT !.st = "reaped"]]
      /\ UNCHANGED <<mixed, sup, insts, init>>
  BY DEF WaitOne, initVars, ForegroundIsMine
<1>2. DaemonsAreKept'
  BY <1>1 DEF DaemonsAreKept
<1>3. kids \in Seq(KidType) /\ kids[t] \in KidType
  BY DEF JobsTypes
<1>4. /\ kids' \in Seq(KidType) /\ DOMAIN kids' = DOMAIN kids
      /\ kids'[t].st = "reaped" /\ kids'[t].code = kids[t].code
      /\ \A k \in DOMAIN kids : k # t => kids'[k] = kids[k]
  <2>1. [kids[t] EXCEPT !.st = "reaped"] \in KidType
    BY <1>3 DEF KidType
  <2>2. QED
    BY <1>1, <1>3, <2>1 DEF KidType
<1>5. Unreaped(kids') = Unreaped(kids) \ {t} /\ t \in Unreaped(kids)
  BY <1>1, <1>4 DEF Unreaped
<1>6. /\ IsFiniteSet(Unreaped(kids)) /\ Cardinality(Unreaped(kids)) \in Nat
      /\ Cardinality(Unreaped(kids')) = Cardinality(Unreaped(kids)) - 1
      /\ IsFiniteSet(Unreaped(kids')) /\ Cardinality(Unreaped(kids')) \in Nat
  <2>1. IsFiniteSet(Unreaped(kids)) /\ Cardinality(Unreaped(kids)) \in Nat
    BY <1>3, UnreapedAreFinite
  <2>2. IsFiniteSet(Unreaped(kids')) /\ Cardinality(Unreaped(kids')) \in Nat
    BY <1>4, UnreapedAreFinite
  <2>3. Cardinality(Unreaped(kids) \ {t}) = Cardinality(Unreaped(kids)) - 1
    BY <1>5, <2>1, FS_RemoveElement
  <2>4. QED
    BY <1>5, <2>1, <2>2, <2>3
<1>7. kids[t].code \in Int /\ sh.waits \in Int
  BY <1>3 DEF KidType, JobsTypes
<1>8. CASE sh.waits > 1
  <2>1. sh' = [sh EXCEPT !.waits = sh.waits - 1, !.last = kids[t].code] /\ UNCHANGED <<fg, status>>
    BY <1>8 DEF WaitOne
  <2>2. /\ ShellFields(sh') /\ sh'.pc = "wait" /\ sh'.mine \subseteq Nat /\ sh'.waits \in Int
        /\ sh'.mine = sh.mine /\ sh'.waits = sh.waits - 1
    BY <1>1, <1>7, <2>1 DEF JobsTypes, ShellFields
  <2>3. JobsTypes'
    BY <1>1, <1>4, <2>1, <2>2 DEF JobsTypes
  <2>4. PromptIsIdle' /\ ForegroundIsMine' /\ MineAreKids'
    BY <1>1, <1>4, <2>1, <2>2 DEF PromptIsIdle, ForegroundIsMine, MineAreKids
  <2>5. WaitsAreExact'
    BY <1>1, <1>5, <1>6, <2>1, <2>2 DEF WaitsAreExact
  <2>6. QED
    BY <1>2, <2>3, <2>4, <2>5
<1>9. CASE ~(sh.waits > 1)
  <2>1. /\ sh' = [sh EXCEPT !.pc = "prompt", !.waits = 0, !.last = kids[t].code]
        /\ fg' = 0 /\ status' = IF sh.failed THEN NotFound ELSE kids[t].code
    BY <1>9 DEF WaitOne
  <2>2. /\ ShellFields(sh') /\ sh'.pc = "prompt" /\ sh'.mine \subseteq Nat /\ sh'.waits \in Int
        /\ sh'.mine = sh.mine
    BY <1>1, <1>7, <2>1 DEF JobsTypes, ShellFields
  <2>3. JobsTypes'
    BY <1>1, <1>4, <1>7, <2>1, <2>2 DEF JobsTypes, NotFound
  <2>4. ForegroundIsMine' /\ MineAreKids' /\ WaitsAreExact'
    BY <1>1, <1>4, <2>1, <2>2 DEF ForegroundIsMine, MineAreKids, WaitsAreExact
  <2>5. PromptIsIdle'
    <3> SUFFICES ASSUME ~mixed
                 PROVE  /\ \A k \in DOMAIN kids : kids'[k].st = "reaped"
                        /\ status' \in {NotFound} \union {kids'[k].code : k \in sh.mine}
      BY <1>1, <1>4, <2>2 DEF PromptIsIdle
    <3>1. sh.waits = Cardinality(Unreaped(kids)) /\ Unreaped(kids) \subseteq sh.mine
      BY <1>1 DEF WaitsAreExact
    <3>2. Cardinality(Unreaped(kids')) = 0
      BY <1>6, <1>7, <1>9, <3>1
    <3>3. Unreaped(kids') = {}
      BY <1>6, <3>2, FS_EmptySet
    <3>4. \A k \in DOMAIN kids : kids'[k].st = "reaped"
      BY <1>4, <3>3 DEF Unreaped
    <3>5. t \in sh.mine
      BY <1>5, <3>1
    <3>6. status' \in {NotFound, kids'[t].code}
      BY <1>4, <2>1
    <3>7. QED
      BY <3>4, <3>5, <3>6
  <2>6. QED
    BY <1>2, <2>3, <2>4, <2>5
<1>10. QED
  BY <1>8, <1>9

LEMMA ExitsKeeps ==
  ASSUME JobsInv, NEW t \in DOMAIN kids, NEW code \in Int, Exits(t, code)
  PROVE  JobsInv'
<1> USE DEF JobsInv, JobsSound
<1>1. /\ kids[t].st = "running" /\ kids' = [kids EXCEPT ![t] = [st |-> "exited", code |-> code]]
      /\ UNCHANGED <<sh, fg, status, mixed, sup, insts, init>>
  BY DEF Exits, initVars
<1>2. kids \in Seq(KidType) /\ [st |-> "exited", code |-> code] \in KidType
  BY DEF JobsTypes, KidType
<1>3. /\ kids' \in Seq(KidType) /\ DOMAIN kids' = DOMAIN kids /\ kids'[t].st = "exited"
      /\ \A k \in DOMAIN kids : k # t => kids'[k] = kids[k]
  BY <1>1, <1>2
<1>4. Unreaped(kids') = Unreaped(kids)
  BY <1>1, <1>3 DEF Unreaped
<1>5. JobsTypes'
  BY <1>1, <1>3 DEF JobsTypes
<1>6. PromptIsIdle'
  BY <1>1 DEF PromptIsIdle
<1>7. ForegroundIsMine' /\ MineAreKids' /\ WaitsAreExact' /\ DaemonsAreKept'
  BY <1>1, <1>3, <1>4 DEF ForegroundIsMine, MineAreKids, WaitsAreExact, DaemonsAreKept
<1>8. QED
  BY <1>5, <1>6, <1>7

LEMMA CtrlCKeeps == ASSUME JobsInv, CtrlC PROVE JobsInv'
<1>1. fg \in DOMAIN kids
  BY DEF JobsInv, JobsSound, ForegroundIsMine, MineAreKids, CtrlC
<1>2. QED
  BY <1>1, ExitsKeeps DEF CtrlC

LEMMA ShellExitsKeeps == ASSUME JobsInv, ShellExits PROVE JobsInv'
<1> USE DEF JobsInv, JobsSound
<1>1. /\ sh.pc = "prompt" /\ sh' = [AtPrompt EXCEPT !.pc = "gone"]
      /\ kids' = [t \in DOMAIN kids |->
                     IF kids[t].st = "exited" THEN [kids[t] EXCEPT !.st = "reaped"] ELSE kids[t]]
      /\ UNCHANGED <<fg, status, mixed, sup, insts, init>>
  BY DEF ShellExits, initVars
<1>2. ShellFields(sh') /\ sh'.pc = "gone" /\ sh'.mine = {} /\ sh'.waits \in Int
  BY <1>1 DEF AtPrompt, ShellFields
<1>3. kids' \in Seq(KidType)
  <2>1. \A t \in DOMAIN kids : kids'[t] \in KidType
    <3> TAKE t \in DOMAIN kids
    <3>1. kids[t] \in KidType
      BY DEF JobsTypes
    <3>2. [kids[t] EXCEPT !.st = "reaped"] \in KidType
      BY <3>1 DEF KidType
    <3>3. QED
      BY <1>1, <3>1, <3>2
  <2>2. DOMAIN kids = 1 .. Len(kids) /\ Len(kids) \in Nat
    BY DEF JobsTypes
  <2>3. kids' \in [1 .. Len(kids) -> KidType]
    BY <1>1, <2>1, <2>2
  <2>4. QED
    BY <2>2, <2>3, SeqDef
<1>4. JobsTypes'
  BY <1>1, <1>2, <1>3 DEF JobsTypes
<1>5. PromptIsIdle' /\ ForegroundIsMine' /\ MineAreKids' /\ WaitsAreExact' /\ DaemonsAreKept'
  BY <1>1, <1>2 DEF PromptIsIdle, ForegroundIsMine, MineAreKids, WaitsAreExact, DaemonsAreKept
<1>6. QED
  BY <1>4, <1>5

\* What the shell's part of the invariant says does not change when only a daemon does.
LEMMA DaemonsOnly ==
  ASSUME JobsInv, UNCHANGED shellVars, sup' \in [Daemons -> Nat], insts' \in [Daemons -> Seq(InstState)],
         DaemonsAreKept'
  PROVE  JobsInv'
<1>1. UNCHANGED <<sh, kids, fg, status, mixed>>
  BY DEF shellVars
<1>2. JobsTypes'
  BY <1>1 DEF JobsInv, JobsTypes
<1>3. PromptIsIdle' /\ ForegroundIsMine' /\ MineAreKids' /\ WaitsAreExact'
  BY <1>1 DEF JobsInv, JobsSound, PromptIsIdle, ForegroundIsMine, MineAreKids, WaitsAreExact
<1>4. QED
  BY <1>2, <1>3 DEF JobsInv, JobsSound

LEMMA ReplaceOne ==
  ASSUME NEW S, NEW s \in Seq(S), NEW i \in Nat, NEW x \in S
  PROVE  [s EXCEPT ![i] = x] \in Seq(S) /\ Len([s EXCEPT ![i] = x]) = Len(s)
<1>1. Len(s) \in Nat /\ s \in [1 .. Len(s) -> S]
  OBVIOUS
<1>2. [s EXCEPT ![i] = x] \in [1 .. Len(s) -> S]
  BY <1>1
<1>3. [s EXCEPT ![i] = x] \in Seq(S)
  BY <1>1, <1>2, SeqDef
<1>4. QED
  BY <1>1, <1>2, <1>3

LEMMA DiesKeeps == ASSUME JobsInv, NEW d \in Daemons, Dies(d) PROVE JobsInv'
<1>1. /\ sup[d] # 0 /\ insts[d][sup[d]] = "running"
      /\ insts' = [insts EXCEPT ![d] = [insts[d] EXCEPT ![sup[d]] = "exited"]]
      /\ sup' = sup /\ UNCHANGED shellVars
  BY DEF Dies
<1>2. sup \in [Daemons -> Nat] /\ insts \in [Daemons -> Seq(InstState)] /\ DaemonsAreKept
  BY DEF JobsInv, JobsTypes, JobsSound
<1>3. [insts[d] EXCEPT ![sup[d]] = "exited"] \in Seq(InstState)
  BY <1>2, ReplaceOne DEF InstState
<1>4. insts' \in [Daemons -> Seq(InstState)] /\ \A e \in Daemons : e # d => insts'[e] = insts[e]
  BY <1>1, <1>2, <1>3
<1>5. DaemonsAreKept'
  <2>1. insts'[d] = [insts[d] EXCEPT ![sup[d]] = "exited"]
    BY <1>1, <1>2
  <2>2. QED
    BY <1>1, <1>2, <1>4, <2>1 DEF DaemonsAreKept
<1>6. QED
  BY <1>1, <1>2, <1>4, <1>5, DaemonsOnly

LEMMA RespawnKeeps == ASSUME JobsInv, NEW d \in Daemons, Respawn(d) PROVE JobsInv'
<1> DEFINE old == [insts[d] EXCEPT ![sup[d]] = "reaped"]
<1>1. sup[d] # 0 /\ insts[d][sup[d]] = "exited" /\ UNCHANGED shellVars
  BY DEF Respawn
<1>2. /\ sup \in [Daemons -> Nat] /\ insts \in [Daemons -> Seq(InstState)] /\ DaemonsAreKept
      /\ insts[d] \in Seq(InstState)
  BY DEF JobsInv, JobsTypes, JobsSound
<1>3. old \in Seq(InstState) /\ Len(old) = Len(insts[d]) /\ Len(old) \in Nat
  <2>1. "reaped" \in InstState /\ sup[d] \in Nat
    BY <1>2 DEF InstState
  <2>2. old \in Seq(InstState) /\ Len(old) = Len(insts[d])
    BY <1>2, <2>1, ReplaceOne
  <2>3. QED
    BY <1>2, <2>2
<1>4. \A i \in DOMAIN old : old[i] = "reaped"
  BY <1>2 DEF DaemonsAreKept
<1> HIDE DEF old
<1>5. CASE insts' = [insts EXCEPT ![d] = Append(old, "running")] /\ sup' = [sup EXCEPT ![d] = Len(insts[d]) + 1]
  <2> DEFINE new == Append(old, "running")
  <2> DEFINE n == Len(insts[d]) + 1
  <2>1. /\ new \in Seq(InstState) /\ Len(new) = n /\ n \in Nat /\ n # 0 /\ new[n] = "running"
        /\ \A i \in DOMAIN new : i # n => new[i] = "reaped"
    BY <1>3, <1>4 DEF InstState
  <2> HIDE DEF new, n
  <2>2. /\ insts' \in [Daemons -> Seq(InstState)] /\ insts'[d] = new /\ sup' \in [Daemons -> Nat] /\ sup'[d] = n
        /\ \A e \in Daemons : e # d => insts'[e] = insts[e] /\ sup'[e] = sup[e]
    BY <1>2, <1>5, <2>1 DEF new, n
  <2>3. DaemonsAreKept'
    BY <1>2, <2>1, <2>2 DEF DaemonsAreKept
  <2>4. QED
    BY <1>1, <2>2, <2>3, DaemonsOnly
<1>6. CASE insts' = [insts EXCEPT ![d] = old] /\ sup' = [sup EXCEPT ![d] = 0]
  <2>1. /\ insts' \in [Daemons -> Seq(InstState)] /\ insts'[d] = old /\ sup' \in [Daemons -> Nat] /\ sup'[d] = 0
        /\ \A e \in Daemons : e # d => insts'[e] = insts[e] /\ sup'[e] = sup[e]
    BY <1>2, <1>3, <1>6
  <2>2. DaemonsAreKept'
    BY <1>2, <1>4, <2>1 DEF DaemonsAreKept
  <2>3. QED
    BY <1>1, <2>1, <2>2, DaemonsOnly
<1>7. QED
  BY <1>5, <1>6 DEF Respawn, Respawned, old

LEMMA JobsKeep == JobsInv /\ [JobsNext]_jobsVars => JobsInv'
<1> SUFFICES ASSUME JobsInv, [JobsNext]_jobsVars PROVE JobsInv'
  OBVIOUS
<1>1. ASSUME NEW n \in 1 .. MaxStages, NEW bg \in BOOLEAN, Command(n, bg) PROVE JobsInv'
  BY <1>1, CommandKeeps
<1>2. CASE SpawnStage \/ Settle \/ CtrlC \/ ShellExits
  BY <1>2, SpawnStageKeeps, SettleKeeps, CtrlCKeeps, ShellExitsKeeps
<1>3. ASSUME NEW t \in DOMAIN kids, WaitOne(t) PROVE JobsInv'
  BY <1>3, WaitOneKeeps
<1>4. ASSUME NEW t \in DOMAIN kids, NEW code \in {0, 1}, Exits(t, code) PROVE JobsInv'
  BY <1>4, ExitsKeeps
<1>5. ASSUME NEW d \in Daemons, Dies(d) \/ Respawn(d) PROVE JobsInv'
  BY <1>5, DiesKeeps, RespawnKeeps
<1>6. CASE InitExits \/ UNCHANGED jobsVars
  <2>1. UNCHANGED <<sh, kids, fg, status, mixed, sup, insts>>
    BY <1>6 DEF InitExits, shellVars, jobsVars
  <2>2. JobsTypes' /\ DaemonsAreKept'
    BY <2>1 DEF JobsInv, JobsSound, JobsTypes, DaemonsAreKept
  <2>3. QED
    BY <2>1, <2>2, DaemonsOnly DEF shellVars, JobsTypes
<1>7. QED
  BY <1>1, <1>2, <1>3, <1>4, <1>5, <1>6 DEF JobsNext, ShellNext

\* For every number of children and stages and any daemons: without a background job the prompt
\* comes back when every stage has been reaped, Ctrl-C has a stage of the command the shell waits
\* for and nobody else as its target, and no daemon runs twice or dies unnoticed.
THEOREM JobsAreSound == JobsSpec => []JobsSound
<1>1. JobsInv => JobsSound
  BY DEF JobsInv
<1>2. QED
  BY JobsStart, JobsKeep, <1>1, PTL DEF JobsSpec

(***************************************************************************)
(* The two threads of the browser.                                         *)
(***************************************************************************)
GuiPlaces == {"loop", "absorb", "wait", "sleep", "asleep", "drain", "absorbMore", "last", "absorbLast",
              "swap", "shut", "join", "end", "gone"}
ParserPlaces == {"test", "sleep", "asleep", "snap", "layout", "publish", "wake", "gone", "none"}
AnyPage  == Pages \union {NoPage}
AnyWidth == Widths \union {Narrow, 0}

GuiType == [pc : GuiPlaces, done : Nat, next : AnyPage, url : Urls \union {NoUrl},
            move : {-1, 0, 1, 2}]
ParserType == [pc : ParserPlaces, last : Nat, page : AnyPage, width : AnyWidth, dom : Nat,
               ok : BOOLEAN]

BrowserTypes ==
    /\ gui \in GuiType /\ parser \in ParserType
    /\ req \in Nat /\ done \in Nat /\ consumed \in Nat
    /\ order \in [page : AnyPage, width : AnyWidth]
    /\ result \in [page : AnyPage, width : AnyWidth, dom : Nat]
    /\ stop \in BOOLEAN /\ crossed \in BOOLEAN
    /\ page \in Pages /\ width \in AnyWidth /\ dom \in Nat
    /\ live \subseteq Pages
    /\ url \in Urls /\ hist \in Seq(Urls) /\ at \in Nat

Working == parser.pc \in {"layout", "publish"}

\* The three counters, and last_seq: a request is taken, laid out, published, absorbed, in that order.
SeqInv ==
    /\ consumed <= done /\ done <= req
    /\ IF Working THEN done < parser.last /\ parser.last <= req ELSE parser.last = done
    /\ parser.pc = "snap" => done < req
    /\ parser.pc = "asleep" => parser.last = req
    /\ result # NoResult => consumed < done
    /\ gui.pc \in {"absorb", "absorbMore", "absorbLast"} => gui.done <= done

\* Where one thread is says where the other one can be.
ThreadsInv ==
    /\ stop => done < req
    /\ stop => parser.pc \in {"test", "sleep", "wake", "gone"} /\ gui.pc \in {"join", "gone"}
    /\ parser.pc = "gone" => stop
    /\ parser.pc = "none" => req = 0 /\ gui.pc \in {"loop", "absorb", "swap", "end", "gone"}
    /\ gui.pc = "end" => parser.pc = "none"
    /\ gui.pc = "join" => stop
    /\ gui.pc = "gone" => parser.pc \in {"gone", "none"}

\* What the GUI thread waits for is under way, and over when it goes on.
WaitInv ==
    /\ gui.pc \in {"sleep", "asleep"} => gui.done < req
    /\ gui.pc = "asleep" => gui.done = done \/ parser.pc = "wake"
    /\ gui.pc \in {"last", "absorbLast", "swap", "shut"} => req = done
    /\ gui.pc \in {"swap", "shut", "join", "end", "gone"} => result = NoResult

\* Everything that is under way is for the page on the screen.
PageInv ==
    /\ gui.pc # "gone" => page \in live
    /\ gui.next # NoPage => gui.next \in live /\ gui.next # page
    /\ done < req /\ ~stop => order.page = page /\ order.width = width
    /\ Working => parser.page = page
    /\ result # NoResult => result.page = page

\* The last request is for the last width, and what comes of it shows the DOM as it is.
LayoutInv ==
    /\ Working /\ parser.last = req => parser.width = width
    /\ parser.pc = "publish" /\ parser.last = req /\ parser.ok /\ ~crossed => parser.dom = dom
    /\ result # NoResult /\ req = done /\ ~crossed => result.width = width /\ result.dom = dom
    /\ result = NoResult /\ req = done /\ parser.ok /\ ~crossed =>
          shown = [width |-> width, dom |-> dom]

\* A page that is being loaded knows its place in the history.
HistInv ==
    /\ at \in 1 .. Len(hist) /\ Len(hist) <= HistCap /\ hist[at] = url
    /\ gui.next # NoPage =>
          /\ gui.url \in Urls
          /\ gui.move = 2 => gui.url = url
          /\ gui.move \in {-1, 1} => at + gui.move \in 1 .. Len(hist) /\ hist[at + gui.move] = gui.url

BrowserInv == BrowserTypes /\ SeqInv /\ ThreadsInv /\ WaitInv /\ PageInv /\ LayoutInv /\ HistInv

Numbers == req \in Nat /\ done \in Nat /\ consumed \in Nat /\ parser.last \in Nat /\ gui.done \in Nat

LEMMA NoResultFacts == NoResult \in [page : AnyPage, width : AnyWidth, dom : Nat]
BY DEF NoResult, AnyPage, AnyWidth

LEMMA HistPushFacts ==
  ASSUME NEW h \in Seq(Urls), NEW i \in 1 .. Len(h), Len(h) <= HistCap, NEW u \in Urls
  PROVE  /\ HistPush(h, i, u) \in Seq(Urls)
         /\ Len(HistPush(h, i, u)) \in 1 .. HistCap
         /\ HistPush(h, i, u)[Len(HistPush(h, i, u))] = u
<1> USE BrowserAssumption
<1>1. SubSeq(h, 1, i) \in Seq(Urls) /\ Len(SubSeq(h, 1, i)) = i
  BY SubSeqProperties
<1>2. CASE i >= HistCap
  <2>0. SubSeq(h, 1, i) # <<>>
    BY <1>1, <1>2
  <2>1. Tail(SubSeq(h, 1, i)) \in Seq(Urls) /\ Len(Tail(SubSeq(h, 1, i))) = i - 1
    BY <2>0, HeadTailProperties
  <2>2. HistPush(h, i, u) = Append(Tail(SubSeq(h, 1, i)), u)
    BY <1>2 DEF HistPush
  <2>3. QED
    BY <2>1, <2>2, <1>2
<1>3. CASE ~(i >= HistCap)
  <2>1. HistPush(h, i, u) = Append(SubSeq(h, 1, i), u)
    BY <1>3 DEF HistPush
  <2>2. QED
    BY <1>1, <1>3, <2>1
<1>4. QED
  BY <1>2, <1>3

LEMMA BrowserStarts == BrowserInit => BrowserInv
<1> SUFFICES ASSUME BrowserInit PROVE BrowserInv
  OBVIOUS
<1> USE BrowserAssumption, NoPageAssumption
<1>1. PICK pc \in {"test", "none"} :
        parser = [pc |-> pc, last |-> 0, page |-> NoPage, width |-> 0, dom |-> 0, ok |-> TRUE]
  BY DEF BrowserInit
<1>2. PICK p \in Pages, u \in Urls : page = p /\ live = {p} /\ url = u /\ hist = <<u>>
  BY DEF BrowserInit
<1>3. /\ gui = AtLoop /\ req = 0 /\ done = 0 /\ consumed = 0 /\ stop = FALSE /\ crossed = FALSE
      /\ order = [page |-> NoPage, width |-> 0] /\ result = NoResult
      /\ at = 1 /\ width = Narrow /\ dom = 0 /\ shown = [width |-> Narrow, dom |-> 0]
  BY DEF BrowserInit
<1>4. BrowserTypes
  <2>1. gui \in GuiType
    BY <1>3 DEF GuiType, AtLoop, GuiPlaces, AnyPage
  <2>2. parser \in ParserType
    BY <1>1 DEF ParserType, ParserPlaces, AnyPage, AnyWidth
  <2>3. order \in [page : AnyPage, width : AnyWidth] /\ width \in AnyWidth
    BY <1>3 DEF AnyPage, AnyWidth
  <2>4. hist \in Seq(Urls)
    BY <1>2
  <2>5. QED
    BY <1>2, <1>3, <2>1, <2>2, <2>3, <2>4, NoResultFacts DEF BrowserTypes, ParserType
<1>5. SeqInv /\ ThreadsInv /\ WaitInv
  BY <1>1, <1>3 DEF SeqInv, ThreadsInv, WaitInv, Working, AtLoop
<1>6. PageInv /\ LayoutInv
  BY <1>1, <1>2, <1>3 DEF PageInv, LayoutInv, Working, AtLoop
<1>7. HistInv
  BY <1>2, <1>3 DEF HistInv, AtLoop
<1>8. QED
  BY <1>4, <1>5, <1>6, <1>7 DEF BrowserInv

LEMMA AbsorbKeeps ==
  ASSUME BrowserInv, NEW pc, NEW then,
         \/ (pc = "loop" /\ then = "absorb")
         \/ (pc = "last" /\ then = "absorbLast")
         \/ (pc = "drain" /\ then = "absorbMore"),
         Absorb(pc, then)
  PROVE  BrowserInv'
<1> USE BrowserAssumption, NoPageAssumption DEF BrowserInv
<1>1. /\ UNCHANGED <<parser, req, done, consumed, order, result, stop, page, width, dom, shown, live,
                     url, hist, at, crossed>>
      /\ gui.pc = pc
  BY DEF Absorb, pageVars
<1>2. /\ gui'.pc = then
      /\ gui'.done = done /\ gui'.next = gui.next /\ gui'.url = gui.url /\ gui'.move = gui.move
  BY DEF Absorb, GuiType, ParserType, GuiPlaces
<1>3. gui' \in GuiType
  BY DEF Absorb, BrowserTypes, GuiType, ParserType, GuiPlaces
<1>4. Numbers
  BY DEF BrowserTypes, GuiType, ParserType, Numbers
<1>5. BrowserTypes'
  BY <1>1, <1>2, <1>4, <1>3 DEF BrowserTypes
<1>6. SeqInv'
  BY <1>1, <1>2, <1>4 DEF Numbers, SeqInv, ThreadsInv, WaitInv, Working
<1>7. ThreadsInv'
  BY <1>1, <1>2, <1>4 DEF ThreadsInv, WaitInv, Working
<1>8. WaitInv'
  BY <1>1, <1>2, <1>4 DEF ThreadsInv, WaitInv, Working
<1>9. PageInv'
  BY <1>1, <1>2, <1>4 DEF PageInv, SeqInv, ThreadsInv, WaitInv, Working
<1>10. LayoutInv'
  BY <1>1, <1>2, <1>4 DEF LayoutInv, SeqInv, ThreadsInv, WaitInv, Working
<1>11. HistInv'
  BY <1>1, <1>2 DEF HistInv
<1>12. QED
  BY <1>5, <1>6, <1>7, <1>8, <1>9, <1>10, <1>11

LEMMA TakeKeeps ==
  ASSUME BrowserInv, NEW pc, NEW then,
         \/ (pc = "absorb" /\ then = "loop")
         \/ (pc = "absorbLast" /\ then = "swap")
         \/ (pc = "absorbMore" /\ then = "wait"),
         Take(pc, then)
  PROVE  BrowserInv'
<1> USE BrowserAssumption, NoPageAssumption DEF BrowserInv
<1>1. /\ UNCHANGED <<parser, req, done, order, stop, page, width, dom, live, url, hist, at, crossed>>
      /\ gui.pc = pc
      /\ consumed' = gui.done
      /\ result' = NoResult
  BY DEF Take
<1>2. shown' = IF result = NoResult THEN shown ELSE [width |-> result.width, dom |-> result.dom]
  BY DEF Take
<1>3. /\ gui'.pc = then
      /\ gui'.done = 0 /\ gui'.next = gui.next /\ gui'.url = gui.url /\ gui'.move = gui.move
  BY DEF Take, GuiType, ParserType, GuiPlaces
<1>4. gui' \in GuiType
  BY DEF Take, BrowserTypes, GuiType, ParserType, GuiPlaces
<1>5. Numbers
  BY DEF BrowserTypes, GuiType, ParserType, Numbers
<1>6. BrowserTypes'
  BY <1>1, <1>2, <1>3, <1>5, <1>4, NoResultFacts DEF BrowserTypes, Numbers
<1>7. SeqInv'
  BY <1>1, <1>2, <1>3, <1>5 DEF SeqInv, ThreadsInv, WaitInv, Working
<1>8. ThreadsInv'
  BY <1>1, <1>2, <1>3, <1>5 DEF ThreadsInv, WaitInv, Working
<1>9. WaitInv'
  BY <1>1, <1>2, <1>3, <1>5 DEF ThreadsInv, WaitInv, Working
<1>10. PageInv'
  BY <1>1, <1>2, <1>3, <1>5 DEF PageInv, SeqInv, ThreadsInv, WaitInv, Working
<1>11. LayoutInv'
  BY <1>1, <1>2, <1>3, <1>5 DEF LayoutInv, SeqInv, ThreadsInv, WaitInv, Working
<1>12. HistInv'
  BY <1>1, <1>2, <1>3 DEF HistInv
<1>13. QED
  BY <1>6, <1>7, <1>8, <1>9, <1>10, <1>11, <1>12

LEMMA NothingNewKeeps ==
  ASSUME BrowserInv, NEW pc, NEW then,
         \/ (pc = "last" /\ then = "swap")
         \/ (pc = "drain" /\ then = "wait"),
         NothingNew(pc, then)
  PROVE  BrowserInv'
<1> USE BrowserAssumption, NoPageAssumption DEF BrowserInv
<1>1. /\ UNCHANGED <<parser, req, done, consumed, order, result, stop, page, width, dom, shown, live,
                     url, hist, at, crossed>>
      /\ gui.pc = pc
      /\ done = consumed
  BY DEF NothingNew, pageVars
<1>2. /\ gui'.pc = then
      /\ gui'.done = gui.done /\ gui'.next = gui.next /\ gui'.url = gui.url /\ gui'.move = gui.move
  BY DEF NothingNew, GuiType, ParserType, GuiPlaces
<1>3. gui' \in GuiType
  BY DEF NothingNew, BrowserTypes, GuiType, ParserType, GuiPlaces
<1>4. Numbers
  BY DEF BrowserTypes, GuiType, ParserType, Numbers
<1>5. BrowserTypes'
  BY <1>1, <1>2, <1>4, <1>3 DEF BrowserTypes
<1>6. SeqInv'
  BY <1>1, <1>2, <1>4 DEF SeqInv, ThreadsInv, WaitInv, Working
<1>7. ThreadsInv'
  BY <1>1, <1>2, <1>4 DEF ThreadsInv, WaitInv, Working
<1>8. WaitInv'
  BY <1>1, <1>2, <1>4 DEF Numbers, SeqInv, ThreadsInv, WaitInv, Working
<1>9. PageInv'
  BY <1>1, <1>2, <1>4 DEF PageInv, SeqInv, ThreadsInv, WaitInv, Working
<1>10. LayoutInv'
  BY <1>1, <1>2, <1>4 DEF LayoutInv, SeqInv, ThreadsInv, WaitInv, Working
<1>11. HistInv'
  BY <1>1, <1>2 DEF HistInv
<1>12. QED
  BY <1>5, <1>6, <1>7, <1>8, <1>9, <1>10, <1>11

LEMMA WaitIdleKeeps ==
  ASSUME BrowserInv, WaitIdle
  PROVE  BrowserInv'
<1> USE BrowserAssumption, NoPageAssumption DEF BrowserInv
<1>1. /\ UNCHANGED <<parser, req, done, consumed, order, result, stop, page, width, dom, shown, live,
                     url, hist, at, crossed>>
      /\ gui.pc = "wait"
  BY DEF WaitIdle, pageVars
<1>2. /\ gui'.pc = IF req = done THEN "last" ELSE "sleep"
      /\ gui'.done = done /\ gui'.next = gui.next /\ gui'.url = gui.url /\ gui'.move = gui.move
  BY DEF WaitIdle, GuiType, ParserType, GuiPlaces
<1>3. gui' \in GuiType
  BY DEF WaitIdle, BrowserTypes, GuiType, ParserType, GuiPlaces
<1>4. Numbers
  BY DEF BrowserTypes, GuiType, ParserType, Numbers
<1>5. BrowserTypes'
  BY <1>1, <1>2, <1>4, <1>3 DEF BrowserTypes
<1>6. SeqInv'
  BY <1>1, <1>2, <1>4 DEF SeqInv, ThreadsInv, WaitInv, Working
<1>7. ThreadsInv'
  BY <1>1, <1>2, <1>4 DEF ThreadsInv, WaitInv, Working
<1>8. WaitInv'
  BY <1>1, <1>2, <1>4 DEF Numbers, SeqInv, ThreadsInv, WaitInv, Working
<1>9. PageInv'
  BY <1>1, <1>2, <1>4 DEF PageInv, SeqInv, ThreadsInv, WaitInv, Working
<1>10. LayoutInv'
  BY <1>1, <1>2, <1>4 DEF LayoutInv, SeqInv, ThreadsInv, WaitInv, Working
<1>11. HistInv'
  BY <1>1, <1>2 DEF HistInv
<1>12. QED
  BY <1>5, <1>6, <1>7, <1>8, <1>9, <1>10, <1>11

LEMMA GuiSleepKeeps ==
  ASSUME BrowserInv, GuiSleep
  PROVE  BrowserInv'
<1> USE BrowserAssumption, NoPageAssumption DEF BrowserInv
<1>1. /\ UNCHANGED <<parser, req, done, consumed, order, result, stop, page, width, dom, shown, live,
                     url, hist, at, crossed>>
      /\ gui.pc = "sleep"
  BY DEF GuiSleep, pageVars
<1>2. /\ gui'.pc = IF done = gui.done THEN "asleep" ELSE "drain"
      /\ gui'.done = gui.done /\ gui'.next = gui.next /\ gui'.url = gui.url /\ gui'.move = gui.move
  BY DEF GuiSleep, GuiType, ParserType, GuiPlaces
<1>3. gui' \in GuiType
  BY DEF GuiSleep, BrowserTypes, GuiType, ParserType, GuiPlaces
<1>4. Numbers
  BY DEF BrowserTypes, GuiType, ParserType, Numbers
<1>5. BrowserTypes'
  BY <1>1, <1>2, <1>4, <1>3 DEF BrowserTypes
<1>6. SeqInv'
  BY <1>1, <1>2, <1>4 DEF SeqInv, ThreadsInv, WaitInv, Working
<1>7. ThreadsInv'
  BY <1>1, <1>2, <1>4 DEF ThreadsInv, WaitInv, Working
<1>8. WaitInv'
  BY <1>1, <1>2, <1>4 DEF ThreadsInv, WaitInv, Working
<1>9. PageInv'
  BY <1>1, <1>2, <1>4 DEF PageInv, SeqInv, ThreadsInv, WaitInv, Working
<1>10. LayoutInv'
  BY <1>1, <1>2, <1>4 DEF LayoutInv, SeqInv, ThreadsInv, WaitInv, Working
<1>11. HistInv'
  BY <1>1, <1>2 DEF HistInv
<1>12. QED
  BY <1>5, <1>6, <1>7, <1>8, <1>9, <1>10, <1>11

LEMMA CloseWindowKeeps ==
  ASSUME BrowserInv, CloseWindow
  PROVE  BrowserInv'
<1> USE BrowserAssumption, NoPageAssumption DEF BrowserInv
<1>1. /\ UNCHANGED <<parser, req, done, consumed, order, result, stop, page, width, dom, shown, live,
                     url, hist, at, crossed>>
      /\ gui.pc = "loop"
  BY DEF CloseWindow, pageVars
<1>2. /\ gui'.pc = IF parser.pc # "none" THEN "wait" ELSE "swap"
      /\ gui'.done = 0 /\ gui'.next = NoPage /\ gui'.url = NoUrl /\ gui'.move = 0
  BY DEF CloseWindow, GuiType, ParserType, GuiPlaces, AtLoop, Threaded, AnyPage
<1>3. gui' \in GuiType
  BY DEF CloseWindow, GuiType, ParserType, GuiPlaces, AtLoop, Threaded, AnyPage
<1>4. Numbers
  BY DEF BrowserTypes, GuiType, ParserType, Numbers
<1>5. BrowserTypes'
  BY <1>1, <1>2, <1>4, <1>3 DEF BrowserTypes
<1>6. SeqInv'
  BY <1>1, <1>2, <1>4 DEF SeqInv, ThreadsInv, WaitInv, Working
<1>7. ThreadsInv'
  BY <1>1, <1>2, <1>4 DEF ThreadsInv, WaitInv, Working
<1>8. WaitInv'
  <2>1. parser.pc = "none" => req = done /\ result = NoResult
    BY <1>1, <1>2, <1>4 DEF ThreadsInv, SeqInv, Numbers
  <2>2. QED
    BY <2>1, <1>1, <1>2, <1>4 DEF WaitInv
<1>9. PageInv'
  BY <1>1, <1>2, <1>4 DEF PageInv, SeqInv, ThreadsInv, WaitInv, Working
<1>10. LayoutInv'
  BY <1>1, <1>2, <1>4 DEF LayoutInv, SeqInv, ThreadsInv, WaitInv, Working
<1>11. HistInv'
  BY <1>1, <1>2 DEF HistInv
<1>12. QED
  BY <1>5, <1>6, <1>7, <1>8, <1>9, <1>10, <1>11

LEMMA ClickKeeps ==
  ASSUME BrowserInv, Click
  PROVE  BrowserInv'
<1> USE BrowserAssumption, NoPageAssumption DEF BrowserInv
<1>1. /\ UNCHANGED <<gui, parser, req, done, consumed, order, result, stop, page, width, live, url,
                     hist, at>>
  BY DEF Click
<1>2. /\ dom' = dom + 1 /\ shown' = [width |-> width, dom |-> dom']
      /\ crossed' = (crossed \/ req # done \/ result # NoResult)
  BY DEF Click
<1>3. Numbers
  BY DEF BrowserTypes, GuiType, ParserType, Numbers
<1>4. BrowserTypes'
  <2>1. dom' \in Nat
    BY <1>1, <1>2, <1>3 DEF BrowserTypes, ParserType
  <2>2. crossed' \in BOOLEAN
    BY <1>1, <1>2, <1>3
  <2>3. QED
    BY <2>1, <2>2, <1>1 DEF BrowserTypes, ParserType
<1>5. SeqInv'
  BY <1>1, <1>2, <1>3 DEF SeqInv, ThreadsInv, WaitInv, Working
<1>6. ThreadsInv'
  BY <1>1, <1>2, <1>3 DEF ThreadsInv, WaitInv, Working
<1>7. WaitInv'
  BY <1>1, <1>2, <1>3 DEF ThreadsInv, WaitInv, Working
<1>8. PageInv'
  BY <1>1, <1>2, <1>3 DEF PageInv, SeqInv, ThreadsInv, WaitInv, Working
<1>9. LayoutInv'
  <2>1. ~crossed' => ~crossed /\ req = done /\ result = NoResult
    BY <1>1, <1>2, <1>3
  <2>2. Working /\ parser.last = req => req # done
    BY <1>3 DEF SeqInv, Numbers
  <2>3. QED
    BY <2>1, <2>2, <1>1, <1>2, <1>3 DEF LayoutInv, Working
<1>10. HistInv'
  BY <1>1, <1>2 DEF HistInv
<1>11. QED
  BY <1>4, <1>5, <1>6, <1>7, <1>8, <1>9, <1>10

LEMMA ResizeKeeps ==
  ASSUME BrowserInv, NEW w \in Widths, ResizeView(w)
  PROVE  BrowserInv'
<1> USE BrowserAssumption, NoPageAssumption DEF BrowserInv
<1>1. /\ UNCHANGED <<gui, done, consumed, result, stop, page, dom, live, url, hist, at, crossed>>
      /\ width' = w
      /\ gui.pc = "loop"
  BY DEF ResizeView
<1>2. /\ parser.pc # "none" => order' = [page |-> page, width |-> w] /\ req' = req + 1 /\ shown' = shown
      /\ parser.pc = "none" => order' = order /\ req' = req /\ shown' = [width |-> w, dom |-> dom]
  BY DEF ResizeView, Threaded
<1>3. /\ parser'.pc = IF parser.pc = "asleep" THEN "test" ELSE parser.pc
      /\ parser'.last = parser.last /\ parser'.page = parser.page /\ parser'.width = parser.width
      /\ parser'.dom = parser.dom /\ parser'.ok = parser.ok
  BY DEF ResizeView, Threaded, Roused, BrowserTypes, GuiType, ParserType, ParserPlaces
<1>4. parser' \in ParserType
  BY DEF ResizeView, Roused, BrowserTypes, GuiType, ParserType, ParserPlaces
<1>5. Numbers
  BY DEF BrowserTypes, GuiType, ParserType, Numbers
<1>6. BrowserTypes'
  <2>1. width' \in AnyWidth /\ req' \in Nat
    BY <1>1, <1>2, <1>3, <1>5, <1>4 DEF AnyWidth, Numbers
  <2>2. order' \in [page : AnyPage, width : AnyWidth]
    BY <1>1, <1>2, <1>3, <1>5, <1>4, <2>1 DEF BrowserTypes, ParserType, AnyPage
  <2>3. QED
    BY <2>1, <2>2, <1>1, <1>2, <1>3, <1>5, <1>4 DEF BrowserTypes
<1>7. SeqInv'
  BY <1>1, <1>2, <1>3, <1>5 DEF Numbers, SeqInv, ThreadsInv, WaitInv, Working
<1>8. ThreadsInv'
  BY <1>1, <1>2, <1>3, <1>5 DEF ThreadsInv, WaitInv, Working
<1>9. WaitInv'
  BY <1>1, <1>2, <1>3, <1>5 DEF ThreadsInv, WaitInv, Working
<1>10. PageInv'
  BY <1>1, <1>2, <1>3, <1>5 DEF Numbers, PageInv, SeqInv, ThreadsInv, WaitInv, Working
<1>11. LayoutInv'
  BY <1>1, <1>2, <1>3, <1>5 DEF Numbers, LayoutInv, SeqInv, ThreadsInv, WaitInv, Working
<1>12. HistInv'
  BY <1>1, <1>2, <1>3 DEF HistInv
<1>13. QED
  BY <1>6, <1>7, <1>8, <1>9, <1>10, <1>11, <1>12

LEMMA LoadKeeps ==
  ASSUME BrowserInv, NEW u \in Urls, NEW move \in {-1, 0, 1, 2}, Load(u, move),
         move = 2 => u = url, move \in {-1, 1} => at + move \in 1 .. Len(hist) /\ hist[at + move] = u
  PROVE  BrowserInv'
<1> USE BrowserAssumption, NoPageAssumption DEF BrowserInv
<1>1. PICK p \in Pages \ live :
        /\ live' = live \union {p}
        /\ gui' = [AtLoop EXCEPT !.pc = IF Threaded THEN "wait" ELSE "swap",
                                 !.next = p, !.url = u, !.move = move]
  BY DEF Load
<1>2. /\ UNCHANGED <<parser, req, done, consumed, order, result, stop, page, width, dom, shown, url,
                     hist, at, crossed>>
      /\ gui.pc = "loop"
  BY DEF Load
<1>3. /\ gui'.pc = IF parser.pc # "none" THEN "wait" ELSE "swap"
      /\ gui'.done = 0 /\ gui'.next = p /\ gui'.url = u /\ gui'.move = move
  BY <1>1 DEF Threaded, AtLoop, GuiPlaces, AnyPage
<1>4. gui' \in GuiType
  BY <1>1 DEF GuiType, Threaded, AtLoop, GuiPlaces, AnyPage
<1>5. Numbers
  BY DEF BrowserTypes, GuiType, ParserType, Numbers
<1>6. BrowserTypes'
  BY <1>1, <1>2, <1>3, <1>5, <1>4 DEF BrowserTypes
<1>7. SeqInv'
  BY <1>1, <1>2, <1>3, <1>5 DEF SeqInv, ThreadsInv, WaitInv, Working
<1>8. ThreadsInv'
  BY <1>1, <1>2, <1>3, <1>5 DEF ThreadsInv, WaitInv, Working
<1>9. WaitInv'
  BY <1>1, <1>2, <1>3, <1>5 DEF Numbers, SeqInv, ThreadsInv, WaitInv, Working
<1>10. PageInv'
  BY <1>1, <1>2, <1>3, <1>5 DEF PageInv, SeqInv, ThreadsInv, WaitInv, Working
<1>11. LayoutInv'
  BY <1>1, <1>2, <1>3, <1>5 DEF LayoutInv, SeqInv, ThreadsInv, WaitInv, Working
<1>12. HistInv'
  BY <1>2, <1>3 DEF HistInv
<1>13. QED
  BY <1>6, <1>7, <1>8, <1>9, <1>10, <1>11, <1>12

LEMMA SwapKeeps ==
  ASSUME BrowserInv, Swap
  PROVE  BrowserInv'
<1> USE BrowserAssumption, NoPageAssumption DEF BrowserInv
<1>1. /\ UNCHANGED <<parser, req, done, consumed, order, result, stop, width>>
      /\ gui.pc = "swap"
      /\ gui.next \in AnyPage
  BY DEF Swap, BrowserTypes, GuiType, ParserType, pageVars
<1>2. gui.next = NoPage =>
         /\ gui'.pc = IF parser.pc # "none" THEN "shut" ELSE "end"
         /\ gui'.done = gui.done /\ gui'.next = NoPage
         /\ UNCHANGED <<live, page, url, dom, shown, crossed, hist, at>>
  BY DEF Swap, pageVars, Threaded, BrowserTypes, GuiType, ParserType
<1>3. gui.next # NoPage =>
         /\ gui'.pc = "loop" /\ gui'.done = 0 /\ gui'.next = NoPage
         /\ live' = live \ {page} /\ page' = gui.next /\ url' = gui.url
         /\ dom' = 0 /\ shown' = [width |-> width, dom |-> 0] /\ crossed' = FALSE
  BY DEF Swap, AtLoop
<1>4. gui.next # NoPage =>
         /\ hist' = IF gui.move = 0 THEN HistPush(hist, at, gui.url) ELSE hist
         /\ gui.move = 0 => at' = Len(hist')
         /\ gui.move = 2 => at' = at
         /\ gui.move \in {-1, 1} => at' = at + gui.move
  BY DEF Swap
<1>5. gui' \in GuiType
  <2>1. CASE gui.next = NoPage
    BY SMTT(40), <2>1 DEF Swap, BrowserTypes, GuiType, ParserType, GuiPlaces
  <2>2. CASE gui.next # NoPage
    BY <2>2 DEF Swap, AtLoop, GuiType, GuiPlaces, AnyPage
  <2>3. QED
    BY <2>1, <2>2
<1>6. Numbers
  BY DEF BrowserTypes, GuiType, ParserType, Numbers
<1>7. BrowserTypes'
  <2>1. CASE gui.next = NoPage
    BY <2>1, <1>1, <1>2, <1>3, <1>4, <1>6, <1>5 DEF BrowserTypes, ParserType
  <2>2. CASE gui.next # NoPage
    <3>1. /\ page' \in Pages /\ live' \subseteq Pages /\ url' \in Urls
          /\ dom' \in Nat /\ crossed' \in BOOLEAN
      BY <2>2, <1>1, <1>2, <1>3, <1>4, <1>6, <1>5 DEF BrowserTypes, GuiType, ParserType, AnyPage, HistInv
    <3>2. hist' \in Seq(Urls)
      <4>1. gui.url \in Urls /\ hist \in Seq(Urls) /\ at \in 1 .. Len(hist) /\ Len(hist) <= HistCap
        BY <2>2 DEF BrowserTypes, ParserType, HistInv
      <4>2. HistPush(hist, at, gui.url) \in Seq(Urls)
        BY <4>1, HistPushFacts
      <4>3. hist' = IF gui.move = 0 THEN HistPush(hist, at, gui.url) ELSE hist
        BY <2>2, <1>1, <1>2, <1>3, <1>4, <1>6, <1>5
      <4>4. QED
        BY <4>1, <4>2, <4>3
    <3>3. at' \in Nat
      BY <2>2, <1>1, <1>2, <1>3, <1>4, <1>6, <1>5, <3>2 DEF BrowserTypes, GuiType, ParserType, HistInv
    <3>4. QED
      BY <3>1, <3>2, <3>3, <1>1, <1>2, <1>3, <1>4, <1>6, <1>5 DEF BrowserTypes, ParserType
  <2>3. QED
    BY <2>1, <2>2
<1>8. SeqInv'
  BY <1>1, <1>2, <1>3, <1>4, <1>6 DEF SeqInv, ThreadsInv, WaitInv, Working
<1>9. ThreadsInv'
  BY <1>1, <1>2, <1>3, <1>4, <1>6 DEF ThreadsInv, WaitInv, Working
<1>10. WaitInv'
  BY <1>1, <1>2, <1>3, <1>4, <1>6 DEF ThreadsInv, WaitInv, Working
<1>11. PageInv'
  BY <1>1, <1>2, <1>3, <1>4, <1>6 DEF Numbers, PageInv, SeqInv, ThreadsInv, WaitInv, Working
<1>12. LayoutInv'
  BY <1>1, <1>2, <1>3, <1>4, <1>6 DEF Numbers, LayoutInv, SeqInv, ThreadsInv, WaitInv, Working
<1>13. HistInv'
  <2>1. CASE gui.next = NoPage
    BY <2>1, <1>1, <1>2, <1>3, <1>4 DEF HistInv
  <2>2. CASE gui.next # NoPage /\ gui.move = 0
    <3>1. gui.url \in Urls /\ hist \in Seq(Urls)
      BY <2>2 DEF BrowserTypes, ParserType, HistInv
    <3>2. hist' = HistPush(hist, at, gui.url) /\ at' = Len(hist') /\ url' = gui.url /\ gui'.next = NoPage
      BY <2>2, <1>1, <1>2, <1>3, <1>4
    <3>3. at' \in 1 .. Len(hist') /\ Len(hist') <= HistCap /\ hist'[at'] = url'
      <4>1. at \in 1 .. Len(hist) /\ Len(hist) <= HistCap
        BY DEF HistInv
      <4>2. /\ Len(HistPush(hist, at, gui.url)) \in 1 .. HistCap
            /\ HistPush(hist, at, gui.url)[Len(HistPush(hist, at, gui.url))] = gui.url
        BY <3>1, <4>1, HistPushFacts
      <4>3. QED
        BY <3>2, <4>2, BrowserAssumption
    <3>4. QED
      BY <3>2, <3>3 DEF HistInv
  <2>3. CASE gui.next # NoPage /\ gui.move # 0
    <3>1. hist' = hist /\ url' = gui.url /\ gui'.next = NoPage /\ gui.move \in {-1, 1, 2}
      BY <2>3, <1>1, <1>2, <1>3, <1>4 DEF BrowserTypes, GuiType, ParserType
    <3>2. at' = IF gui.move = 2 THEN at ELSE at + gui.move
      <4>1. gui.next # NoPage
        BY <2>3
      <4>2. QED
        BY <1>4, <3>1, <4>1
    <3>3. at' \in 1 .. Len(hist) /\ hist[at'] = url'
      BY <2>3, <3>1, <3>2 DEF HistInv
    <3>4. QED
      BY <3>1, <3>3 DEF HistInv
  <2>4. QED
    BY <2>1, <2>2, <2>3
<1>14. QED
  BY <1>7, <1>8, <1>9, <1>10, <1>11, <1>12, <1>13

LEMMA ShutKeeps ==
  ASSUME BrowserInv, Shut
  PROVE  BrowserInv'
<1> USE BrowserAssumption, NoPageAssumption DEF BrowserInv
<1>1. /\ UNCHANGED <<done, consumed, order, result, page, width, dom, shown, live, url, hist, at,
                     crossed>>
      /\ gui.pc = "shut"
      /\ stop' = TRUE
      /\ req' = req + 1
  BY DEF Shut, pageVars
<1>2. /\ gui'.pc = "join"
      /\ gui'.done = gui.done /\ gui'.next = gui.next /\ gui'.url = gui.url /\ gui'.move = gui.move
  BY DEF Shut, GuiType, ParserType, GuiPlaces
<1>3. /\ parser'.pc = IF parser.pc = "asleep" THEN "test" ELSE parser.pc
      /\ parser'.last = parser.last /\ parser'.page = parser.page /\ parser'.width = parser.width
      /\ parser'.dom = parser.dom /\ parser'.ok = parser.ok
  BY DEF Shut, Roused, BrowserTypes, GuiType, ParserType, ParserPlaces
<1>4. gui' \in GuiType
  BY DEF Shut, BrowserTypes, GuiType, ParserType, GuiPlaces
<1>5. parser' \in ParserType
  BY DEF Shut, Roused, BrowserTypes, GuiType, ParserType, ParserPlaces
<1>6. Numbers
  BY DEF BrowserTypes, GuiType, ParserType, Numbers
<1>7. BrowserTypes'
  <2>1. req' \in Nat /\ stop' \in BOOLEAN
    BY <1>1, <1>2, <1>3, <1>6, <1>4, <1>5 DEF Numbers
  <2>2. QED
    BY <2>1, <1>1, <1>2, <1>3, <1>6, <1>4, <1>5 DEF BrowserTypes
<1>8. SeqInv'
  BY <1>1, <1>2, <1>3, <1>6 DEF Numbers, SeqInv, ThreadsInv, WaitInv, Working
<1>9. ThreadsInv'
  <2>1. parser.pc \in {"test", "sleep", "asleep", "wake"}
    BY <1>1, <1>2, <1>3, <1>6 DEF BrowserTypes, GuiType, ParserType, ParserPlaces, SeqInv, ThreadsInv,
       WaitInv, Working, Numbers
  <2>2. QED
    BY <2>1, <1>1, <1>2, <1>3, <1>6 DEF ThreadsInv, SeqInv, Numbers
<1>10. WaitInv'
  BY <1>1, <1>2, <1>3, <1>6 DEF ThreadsInv, WaitInv, Working
<1>11. PageInv'
  BY <1>1, <1>2, <1>3, <1>6 DEF PageInv, SeqInv, ThreadsInv, WaitInv, Working
<1>12. LayoutInv'
  BY <1>1, <1>2, <1>3, <1>6 DEF Numbers, LayoutInv, SeqInv, ThreadsInv, WaitInv, Working
<1>13. HistInv'
  BY <1>1, <1>2, <1>3 DEF HistInv
<1>14. QED
  BY <1>7, <1>8, <1>9, <1>10, <1>11, <1>12, <1>13

LEMMA EndKeeps ==
  ASSUME BrowserInv, End
  PROVE  BrowserInv'
<1> USE BrowserAssumption, NoPageAssumption DEF BrowserInv
<1>1. /\ UNCHANGED <<parser, req, done, consumed, order, stop, page, width, dom, shown, url, hist, at,
                     crossed>>
      /\ (gui.pc = "end" \/ (gui.pc = "join" /\ parser.pc = "gone"))
  BY DEF End
<1>2. live' = live \ {page} /\ result' = NoResult
  BY DEF End
<1>3. /\ gui'.pc = "gone"
      /\ gui'.done = gui.done /\ gui'.next = gui.next /\ gui'.url = gui.url /\ gui'.move = gui.move
  BY DEF End, GuiType, ParserType, GuiPlaces
<1>4. gui' \in GuiType
  BY DEF End, BrowserTypes, GuiType, ParserType, GuiPlaces
<1>5. Numbers
  BY DEF BrowserTypes, GuiType, ParserType, Numbers
<1>6. BrowserTypes'
  <2>1. live' \subseteq Pages
    BY <1>1, <1>2, <1>3, <1>5, <1>4, NoResultFacts DEF BrowserTypes, ParserType
  <2>2. QED
    BY <2>1, <1>1, <1>2, <1>3, <1>5, <1>4, NoResultFacts DEF BrowserTypes
<1>7. SeqInv'
  BY <1>1, <1>2, <1>3, <1>5 DEF SeqInv, ThreadsInv, WaitInv, Working
<1>8. ThreadsInv'
  BY <1>1, <1>2, <1>3, <1>5 DEF ThreadsInv, WaitInv, Working
<1>9. WaitInv'
  BY <1>1, <1>2, <1>3, <1>5 DEF ThreadsInv, WaitInv, Working
<1>10. PageInv'
  BY <1>1, <1>2, <1>3, <1>5 DEF PageInv, SeqInv, ThreadsInv, WaitInv, Working
<1>11. LayoutInv'
  BY <1>1, <1>2, <1>3, <1>5 DEF LayoutInv, SeqInv, ThreadsInv, WaitInv, Working
<1>12. HistInv'
  BY <1>1, <1>2, <1>3 DEF HistInv
<1>13. QED
  BY <1>6, <1>7, <1>8, <1>9, <1>10, <1>11, <1>12

LEMMA TestKeeps ==
  ASSUME BrowserInv, Test
  PROVE  BrowserInv'
<1> USE BrowserAssumption, NoPageAssumption DEF BrowserInv
<1>1. /\ UNCHANGED <<gui, req, done, consumed, order, result, stop, page, width, dom, shown, live, url,
                     hist, at, crossed>>
      /\ parser.pc = "test"
  BY DEF Test, GuiOnly, pageVars
<1>2. /\ parser'.pc = IF stop THEN "gone" ELSE IF req = parser.last THEN "sleep" ELSE "snap"
      /\ parser'.last = parser.last /\ parser'.page = parser.page /\ parser'.width = parser.width
      /\ parser'.dom = parser.dom /\ parser'.ok = parser.ok
  BY DEF Test, GuiType, ParserType, ParserPlaces
<1>3. parser' \in ParserType
  BY DEF Test, BrowserTypes, GuiType, ParserType, ParserPlaces
<1>4. Numbers
  BY DEF BrowserTypes, GuiType, ParserType, Numbers
<1>5. BrowserTypes'
  BY <1>1, <1>2, <1>4, <1>3 DEF BrowserTypes
<1>6. SeqInv'
  BY <1>1, <1>2, <1>4 DEF Numbers, SeqInv, ThreadsInv, WaitInv, Working
<1>7. ThreadsInv'
  BY <1>1, <1>2, <1>4 DEF ThreadsInv, WaitInv, Working
<1>8. WaitInv'
  BY <1>1, <1>2, <1>4 DEF ThreadsInv, WaitInv, Working
<1>9. PageInv'
  BY <1>1, <1>2, <1>4 DEF PageInv, SeqInv, ThreadsInv, WaitInv, Working
<1>10. LayoutInv'
  BY <1>1, <1>2, <1>4 DEF LayoutInv, SeqInv, ThreadsInv, WaitInv, Working
<1>11. HistInv'
  BY <1>1, <1>2 DEF HistInv
<1>12. QED
  BY <1>5, <1>6, <1>7, <1>8, <1>9, <1>10, <1>11

LEMMA ParserSleepKeeps ==
  ASSUME BrowserInv, ParserSleep
  PROVE  BrowserInv'
<1> USE BrowserAssumption, NoPageAssumption DEF BrowserInv
<1>1. /\ UNCHANGED <<gui, req, done, consumed, order, result, stop, page, width, dom, shown, live, url,
                     hist, at, crossed>>
      /\ parser.pc = "sleep"
  BY DEF ParserSleep, GuiOnly, pageVars
<1>2. /\ parser'.pc = IF req = parser.last THEN "asleep" ELSE "test"
      /\ parser'.last = parser.last /\ parser'.page = parser.page /\ parser'.width = parser.width
      /\ parser'.dom = parser.dom /\ parser'.ok = parser.ok
  BY DEF ParserSleep, GuiType, ParserType, ParserPlaces
<1>3. parser' \in ParserType
  BY DEF ParserSleep, BrowserTypes, GuiType, ParserType, ParserPlaces
<1>4. Numbers
  BY DEF BrowserTypes, GuiType, ParserType, Numbers
<1>5. BrowserTypes'
  BY <1>1, <1>2, <1>4, <1>3 DEF BrowserTypes
<1>6. SeqInv'
  BY <1>1, <1>2, <1>4 DEF SeqInv, ThreadsInv, WaitInv, Working
<1>7. ThreadsInv'
  BY <1>1, <1>2, <1>4 DEF Numbers, SeqInv, ThreadsInv, WaitInv, Working
<1>8. WaitInv'
  BY <1>1, <1>2, <1>4 DEF ThreadsInv, WaitInv, Working
<1>9. PageInv'
  BY <1>1, <1>2, <1>4 DEF PageInv, SeqInv, ThreadsInv, WaitInv, Working
<1>10. LayoutInv'
  BY <1>1, <1>2, <1>4 DEF LayoutInv, SeqInv, ThreadsInv, WaitInv, Working
<1>11. HistInv'
  BY <1>1, <1>2 DEF HistInv
<1>12. QED
  BY <1>5, <1>6, <1>7, <1>8, <1>9, <1>10, <1>11

LEMMA SnapKeeps ==
  ASSUME BrowserInv, Snap
  PROVE  BrowserInv'
<1> USE BrowserAssumption, NoPageAssumption DEF BrowserInv
<1>1. /\ UNCHANGED <<gui, req, done, consumed, order, result, stop, page, width, dom, shown, live, url,
                     hist, at, crossed>>
      /\ parser.pc = "snap"
  BY DEF Snap, GuiOnly, pageVars
<1>2. /\ parser'.pc = "layout"
      /\ parser'.last = req /\ parser'.page = order.page /\ parser'.width = order.width
      /\ parser'.dom = parser.dom /\ parser'.ok = parser.ok
  BY DEF Snap, GuiType, ParserType, ParserPlaces
<1>3. parser' \in ParserType
  BY DEF Snap, BrowserTypes, GuiType, ParserType, ParserPlaces
<1>4. Numbers
  BY DEF BrowserTypes, GuiType, ParserType, Numbers
<1>5. BrowserTypes'
  BY <1>1, <1>2, <1>4, <1>3 DEF BrowserTypes
<1>6. SeqInv'
  BY <1>1, <1>2, <1>4 DEF Numbers, SeqInv, ThreadsInv, WaitInv, Working
<1>7. ThreadsInv'
  BY <1>1, <1>2, <1>4 DEF ThreadsInv, WaitInv, Working
<1>8. WaitInv'
  BY <1>1, <1>2, <1>4 DEF ThreadsInv, WaitInv, Working
<1>9. PageInv'
  BY <1>1, <1>2, <1>4 DEF PageInv, SeqInv, ThreadsInv, WaitInv, Working
<1>10. LayoutInv'
  BY <1>1, <1>2, <1>4 DEF PageInv, LayoutInv, SeqInv, ThreadsInv, WaitInv, Working
<1>11. HistInv'
  BY <1>1, <1>2 DEF HistInv
<1>12. QED
  BY <1>5, <1>6, <1>7, <1>8, <1>9, <1>10, <1>11

LEMMA LayoutKeeps ==
  ASSUME BrowserInv, Layout
  PROVE  BrowserInv'
<1> USE BrowserAssumption, NoPageAssumption DEF BrowserInv
<1>1. /\ UNCHANGED <<gui, req, done, consumed, order, result, stop, page, width, dom, shown, live, url,
                     hist, at, crossed>>
      /\ parser.pc = "layout"
  BY DEF Layout, GuiOnly, pageVars
<1>2. PICK ok \in BOOLEAN : parser' = [parser EXCEPT !.pc = "publish", !.ok = ok, !.dom = dom]
  BY DEF Layout
<1>3. /\ parser'.pc = "publish"
      /\ parser'.last = parser.last /\ parser'.page = parser.page /\ parser'.width = parser.width
      /\ parser'.dom = dom /\ parser'.ok = ok
  BY <1>2 DEF ParserType, ParserPlaces
<1>4. parser' \in ParserType
  BY <1>2 DEF BrowserTypes, ParserType, ParserPlaces
<1>5. Numbers
  BY DEF BrowserTypes, GuiType, ParserType, Numbers
<1>6. BrowserTypes'
  BY <1>1, <1>2, <1>3, <1>5, <1>4 DEF BrowserTypes
<1>7. SeqInv'
  BY <1>1, <1>2, <1>3, <1>5 DEF SeqInv, ThreadsInv, WaitInv, Working
<1>8. ThreadsInv'
  BY <1>1, <1>2, <1>3, <1>5 DEF ThreadsInv, WaitInv, Working
<1>9. WaitInv'
  BY <1>1, <1>2, <1>3, <1>5 DEF ThreadsInv, WaitInv, Working
<1>10. PageInv'
  BY <1>1, <1>2, <1>3, <1>5 DEF PageInv, SeqInv, ThreadsInv, WaitInv, Working
<1>11. LayoutInv'
  BY <1>1, <1>2, <1>3, <1>5 DEF Numbers, LayoutInv, SeqInv, ThreadsInv, WaitInv, Working
<1>12. HistInv'
  BY <1>1, <1>2, <1>3 DEF HistInv
<1>13. QED
  BY <1>6, <1>7, <1>8, <1>9, <1>10, <1>11, <1>12

LEMMA PublishKeeps ==
  ASSUME BrowserInv, Publish
  PROVE  BrowserInv'
<1> USE BrowserAssumption, NoPageAssumption DEF BrowserInv
<1>1. /\ UNCHANGED <<gui, req, consumed, order, stop, page, width, dom, shown, live, url, hist, at,
                     crossed>>
      /\ parser.pc = "publish"
      /\ done' = parser.last
  BY DEF Publish, GuiOnly, pageVars
<1>2. /\ parser.ok => /\ result'.page = parser.page
                      /\ result'.width = parser.width /\ result'.dom = parser.dom
      /\ ~parser.ok => result' = NoResult
      /\ result' \in [page : AnyPage, width : AnyWidth, dom : Nat]
  BY DEF Publish, NoResult, BrowserTypes, GuiType, ParserType, AnyPage, AnyWidth
<1>3. /\ parser'.pc = "wake"
      /\ parser'.last = parser.last /\ parser'.page = NoPage /\ parser'.width = 0
      /\ parser'.dom = 0 /\ parser'.ok = parser.ok
  BY DEF Publish, GuiType, ParserType, ParserPlaces, AnyPage, AnyWidth
<1>4. parser' \in ParserType
  BY DEF Publish, BrowserTypes, GuiType, ParserType, ParserPlaces, AnyPage, AnyWidth
<1>5. Numbers
  BY DEF BrowserTypes, GuiType, ParserType, Numbers
<1>6. BrowserTypes'
  BY <1>1, <1>2, <1>3, <1>5, <1>4 DEF BrowserTypes, Numbers
<1>7. SeqInv'
  BY <1>1, <1>2, <1>3, <1>5 DEF Numbers, SeqInv, ThreadsInv, WaitInv, Working
<1>8. ThreadsInv'
  BY <1>1, <1>2, <1>3, <1>5 DEF ThreadsInv, WaitInv, Working
<1>9. WaitInv'
  BY <1>1, <1>2, <1>3, <1>5 DEF Numbers, SeqInv, ThreadsInv, WaitInv, Working
<1>10. PageInv'
  BY <1>1, <1>2, <1>3, <1>5 DEF Numbers, PageInv, SeqInv, ThreadsInv, WaitInv, Working
<1>11. LayoutInv'
  <2>1. parser.ok => result' # NoResult
    BY <1>1, <1>2, <1>3, <1>5 DEF PageInv, BrowserTypes, GuiType, ParserType, NoResult, Working
  <2>2. parser.ok /\ parser.last = req /\ ~crossed => result'.width = width /\ result'.dom = dom
    BY <1>1, <1>2, <1>3, <1>5 DEF LayoutInv, Working
  <2>3. QED
    BY <2>1, <2>2, <1>1, <1>2, <1>3, <1>5 DEF LayoutInv, Working, BrowserTypes, GuiType, ParserType
<1>12. HistInv'
  BY <1>1, <1>2, <1>3 DEF HistInv
<1>13. QED
  BY <1>6, <1>7, <1>8, <1>9, <1>10, <1>11, <1>12

LEMMA WakeGuiKeeps ==
  ASSUME BrowserInv, WakeGui
  PROVE  BrowserInv'
<1> USE BrowserAssumption, NoPageAssumption DEF BrowserInv
<1>1. /\ UNCHANGED <<req, done, consumed, order, result, stop, page, width, dom, shown, live, url, hist,
                     at, crossed>>
      /\ parser.pc = "wake"
  BY DEF WakeGui, GuiOnly, pageVars
<1>2. /\ gui'.pc = IF gui.pc = "asleep" THEN "drain" ELSE gui.pc
      /\ gui'.done = gui.done /\ gui'.next = gui.next /\ gui'.url = gui.url /\ gui'.move = gui.move
  BY DEF WakeGui, GuiType, ParserType, GuiPlaces
<1>3. /\ parser'.pc = "test"
      /\ parser'.last = parser.last /\ parser'.page = parser.page /\ parser'.width = parser.width
      /\ parser'.dom = parser.dom /\ parser'.ok = parser.ok
  BY DEF WakeGui, GuiType, ParserType, ParserPlaces
<1>4. gui' \in GuiType
  BY DEF WakeGui, BrowserTypes, GuiType, ParserType, GuiPlaces
<1>5. parser' \in ParserType
  BY DEF WakeGui, BrowserTypes, GuiType, ParserType, ParserPlaces
<1>6. Numbers
  BY DEF BrowserTypes, GuiType, ParserType, Numbers
<1>7. BrowserTypes'
  BY <1>1, <1>2, <1>3, <1>6, <1>4, <1>5 DEF BrowserTypes
<1>8. SeqInv'
  BY <1>1, <1>2, <1>3, <1>6 DEF SeqInv, ThreadsInv, WaitInv, Working
<1>9. ThreadsInv'
  BY <1>1, <1>2, <1>3, <1>6 DEF ThreadsInv, WaitInv, Working
<1>10. WaitInv'
  BY <1>1, <1>2, <1>3, <1>6 DEF ThreadsInv, WaitInv, Working
<1>11. PageInv'
  BY <1>1, <1>2, <1>3, <1>6 DEF PageInv, SeqInv, ThreadsInv, WaitInv, Working
<1>12. LayoutInv'
  BY <1>1, <1>2, <1>3, <1>6 DEF LayoutInv, SeqInv, ThreadsInv, WaitInv, Working
<1>13. HistInv'
  BY <1>1, <1>2, <1>3 DEF HistInv
<1>14. QED
  BY <1>7, <1>8, <1>9, <1>10, <1>11, <1>12, <1>13

LEMMA BrowserKeeps == BrowserInv /\ [BrowserNext]_browserVars => BrowserInv'
<1> SUFFICES ASSUME BrowserInv, [BrowserNext]_browserVars PROVE BrowserInv'
  OBVIOUS
<1>1. CASE \E w \in Widths : ResizeView(w)
  BY <1>1, ResizeKeeps
<1>2. CASE Click \/ CloseWindow
  BY <1>2, ClickKeeps, CloseWindowKeeps
<1>3. CASE Navigate
  <2>1. PICK u \in Urls : Load(u, 0)
    BY <1>3 DEF Navigate
  <2>2. QED
    BY <2>1, LoadKeeps
<1>4. ASSUME NEW move \in {-1, 1}, Go(move) PROVE BrowserInv'
  <2>1. at + move \in 1 .. Len(hist) /\ Load(hist[at + move], move)
    BY <1>4 DEF Go
  <2>2. hist[at + move] \in Urls
    BY <2>1 DEF BrowserInv, BrowserTypes, GuiType, ParserType
  <2>3. QED
    BY <2>1, <2>2, LoadKeeps
<1>5. CASE Reload
  <2>1. url \in Urls
    BY DEF BrowserInv, BrowserTypes, GuiType, ParserType
  <2>2. QED
    BY <1>5, <2>1, LoadKeeps DEF Reload
<1>6. CASE Absorb("loop", "absorb") \/ Absorb("last", "absorbLast") \/ Absorb("drain", "absorbMore")
  BY <1>6, AbsorbKeeps
<1>7. CASE Take("absorb", "loop") \/ Take("absorbLast", "swap") \/ Take("absorbMore", "wait")
  BY <1>7, TakeKeeps
<1>8. CASE NothingNew("last", "swap") \/ NothingNew("drain", "wait")
  BY <1>8, NothingNewKeeps
<1>9. CASE WaitIdle \/ GuiSleep \/ Swap \/ Shut \/ End
  BY <1>9, WaitIdleKeeps, GuiSleepKeeps, SwapKeeps, ShutKeeps, EndKeeps
<1>10. CASE ParserStep
  BY <1>10, TestKeeps, ParserSleepKeeps, SnapKeeps, LayoutKeeps, PublishKeeps, WakeGuiKeeps
     DEF ParserStep
<1>11. CASE UNCHANGED browserVars
  <2>1. BrowserTypes' /\ SeqInv' /\ ThreadsInv'
    BY <1>11 DEF browserVars, BrowserInv, BrowserTypes, GuiType, ParserType, SeqInv, ThreadsInv, Working
  <2>2. WaitInv' /\ PageInv' /\ LayoutInv' /\ HistInv'
    BY <1>11 DEF browserVars, BrowserInv, WaitInv, PageInv, LayoutInv, HistInv, Working
  <2>3. QED
    BY <2>1, <2>2 DEF BrowserInv
<1>12. QED
  BY <1>1, <1>2, <1>3, <1>4, <1>5, <1>6, <1>7, <1>8, <1>9, <1>10, <1>11 DEF BrowserNext, GuiStep

LEMMA BrowserInvSuffices == BrowserInv => BrowserSound
<1> SUFFICES ASSUME BrowserInv PROVE BrowserSound
  OBVIOUS
<1> USE NoPageAssumption DEF BrowserInv
<1>1. Numbers /\ page \in Pages
  BY DEF BrowserTypes, GuiType, ParserType, Numbers
<1>2. gui.pc # "gone" => page \in live
  BY DEF PageInv
<1>3. Working => gui.pc # "gone"
  BY DEF Working, ThreadsInv
<1>4. result # NoResult => gui.pc # "gone"
  BY DEF WaitInv
<1>5. ParserOwnsPage
  BY <1>2, <1>3, <1>4 DEF ParserOwnsPage, PageInv, Working
<1>6. LayoutIsLatest
  <2>1. done = consumed => result = NoResult
    BY <1>1 DEF SeqInv, Numbers
  <2>2. QED
    BY <2>1 DEF LayoutIsLatest, LayoutInv
<1>7. NobodySleepsOn
  <2>1. gui.pc = "asleep" /\ parser.pc # "wake" => req # done /\ parser.pc # "gone"
    BY <1>1 DEF WaitInv, ThreadsInv, Numbers
  <2>2. parser.pc = "asleep" => req = parser.last /\ parser.last = done /\ ~stop
    BY <1>1 DEF SeqInv, ThreadsInv, Working
  <2>3. QED
    BY <2>1, <2>2 DEF NobodySleepsOn
<1>8. HistoryIsHere
  BY DEF HistoryIsHere, HistInv
<1>9. QED
  BY <1>5, <1>6, <1>7, <1>8 DEF BrowserSound

\* For any number of pages, requests and clicks: the parser thread only ever lays out a page that is
\* there, no resize is lost, neither thread sleeps on the other, and the history points at the page
\* on the screen (parser_wait_idle, parser_absorb_completion, navigate_to, hist_push).
THEOREM BrowserIsSound == BrowserSpec => []BrowserSound
<1>1. QED
  BY BrowserStarts, BrowserKeeps, BrowserInvSuffices, PTL DEF BrowserSpec

(***************************************************************************)
(* The shared frame buffer.                                                *)
(***************************************************************************)
\* The clients that still have generation g mapped.
Users(g) == {p \in Mappers : maps[p].used /\ maps[p].gen = g}

Entry == [used : BOOLEAN, shows : Runs \union {0}, gen : Gens \union {-1}]

FbTypes ==
    /\ run \in Runs \union {0}
    /\ maps \in [Mappers -> Entry]
    /\ stale \in [Gens -> [run : Runs \union {0}, refs : Nat]]
    /\ installed \in [Mappers \union {Server} -> SUBSET Runs]
    /\ allocated \subseteq Runs
    /\ forced \subseteq Mappers /\ ownerVa \in BOOLEAN

\* An entry of the table that is free is empty, and the table is not overrun.
EntriesSound ==
    /\ \A p \in Mappers : ~maps[p].used => maps[p].shows = 0 /\ maps[p].gen = -1
    /\ Cardinality(UsedMaps) <= MaxMaps
    /\ run = 0 => UsedMaps = {}

\* A generation counts its clients, who see its run.
GensCount ==
    \A g \in Gens :
        /\ stale[g].refs = Cardinality(Users(g)) /\ (stale[g].run # 0 <=> Users(g) # {})
        /\ \A p \in Users(g) : maps[p].shows = stale[g].run

\* Every run is the current one or of one generation.
RunsApart ==
    /\ \A g \in Gens : stale[g].run # 0 => stale[g].run # run
    /\ \A g, h \in Gens : stale[g].run # 0 /\ stale[g].run = stale[h].run => g = h
    /\ allocated = ({run} \union {stale[g].run : g \in Gens}) \ {0}

\* A page table maps what the entry says, and a current entry shows the current run.
ViewsSound ==
    /\ \A p \in Mappers : installed[p] = {maps[p].shows} \ {0}
    /\ \A p \in Current : maps[p].shows = run

FbInv == FbTypes /\ EntriesSound /\ GensCount /\ RunsApart /\ ViewsSound /\ NeverForced

\* A set of numbers that is not empty has a least element.
LEMMA LeastExists ==
  ASSUME NEW S \in SUBSET Nat, IsFiniteSet(S), S # {}
  PROVE  Min(S) \in S /\ \A n \in S : Min(S) <= n
<1> DEFINE Below(n) == { m \in S : m <= n }
<1> DEFINE T == { Below(n) : n \in S }
<1> DEFINE R == StrictSubsetOrdering(S)
<1>1. IsWellFoundedOn(R, FiniteSubsetsOf(S))
  BY FS_StrictSubsetOrderingWellFounded
<1>2. T \subseteq FiniteSubsetsOf(S)
  BY FS_Subset DEF FiniteSubsetsOf
<1>3. T # {}
  OBVIOUS
<1>4. PICK x \in T : \A y \in T : ~(<<y, x>> \in R)
  <2> HIDE DEF R, T
  <2>1. QED 
    BY <1>1, <1>2, <1>3, WFMin
<1>5. PICK k \in S : x = Below(k)
  OBVIOUS
<1>6. ASSUME NEW n \in S PROVE k <= n
  <2> SUFFICES ASSUME n < k PROVE FALSE
    OBVIOUS
  <2>1. Below(n) \subseteq Below(k) /\ Below(n) # Below(k) /\ Below(n) \in SUBSET S /\ Below(k) \in SUBSET S
    <3>1. k \in Nat /\ n \in Nat /\ \A m \in S : m \in Nat
      OBVIOUS
    <3>2. k \in Below(k) /\ k \notin Below(n)
      BY <3>1
    <3>3. ASSUME NEW m \in Below(n) PROVE m \in Below(k)
      <4>1. m \in S /\ m \in Nat /\ m <= n
        BY <3>1
      <4>2. m <= k
        BY <3>1, <4>1
      <4>3. QED
        BY <4>1, <4>2
    <3>4. Below(n) \in SUBSET S /\ Below(k) \in SUBSET S
      OBVIOUS
    <3>5. QED
      BY <3>2, <3>3, <3>4
  <2>2. <<Below(n), Below(k)>> \in R
    <3> HIDE DEF Below
    <3>1. QED 
      BY <2>1 DEF StrictSubsetOrdering
  <2>3. Below(n) \in T
    OBVIOUS
  <2>4. QED
    BY <2>2, <2>3, <1>4, <1>5
<1>7. QED
  BY <1>6 DEF Min

\* The generations and the clients are finitely many.
LEMMA FbCounts ==
  ASSUME FbTypes
  PROVE  /\ IsFiniteSet(UsedMaps) /\ Cardinality(UsedMaps) \in Nat
         /\ IsFiniteSet(Current) /\ Cardinality(Current) \in Nat /\ Cardinality(Current) <= Cardinality(UsedMaps)
         /\ \A g \in Gens : /\ IsFiniteSet(Users(g)) /\ Cardinality(Users(g)) \in Nat
                             /\ Cardinality(Users(g)) <= Cardinality(UsedMaps)
         /\ IsFiniteSet(Runs) /\ Cardinality(Runs) = MaxStale + 2
         /\ IsFiniteSet(Gens \union {-1}) /\ Cardinality(Gens \union {-1}) = MaxStale + 1
         /\ Gens \subseteq Nat /\ IsFiniteSet(Gens) /\ 0 \in Gens
<1>1. IsFiniteSet(Mappers) /\ MaxStale \in Nat \ {0}
  BY FbAssumption DEF FbAssumption
<1>2. UsedMaps \in SUBSET Mappers /\ Current \in SUBSET UsedMaps /\ \A g \in Gens : Users(g) \in SUBSET UsedMaps
  BY DEF UsedMaps, Current, Users
<1>3. IsFiniteSet(UsedMaps) /\ Cardinality(UsedMaps) \in Nat
  BY <1>1, <1>2, FS_Subset, FS_CardinalityType
<1>4. ASSUME NEW S \in SUBSET UsedMaps
      PROVE  IsFiniteSet(S) /\ Cardinality(S) \in Nat /\ Cardinality(S) <= Cardinality(UsedMaps)
  BY <1>3, FS_Subset, FS_CardinalityType
<1>5. IsFiniteSet(Runs) /\ Cardinality(Runs) = MaxStale + 2
  <2>1. MaxStale + 2 \in Int /\ ~(1 > MaxStale + 2)
    BY <1>1
  <2>2. QED
    BY <1>1, <2>1, FS_Interval DEF Runs
<1>6. IsFiniteSet(Gens \union {-1}) /\ Cardinality(Gens \union {-1}) = MaxStale + 1
  <2>1. Gens \union {-1} = -1 .. MaxStale - 1
    BY <1>1 DEF Gens
  <2>2. MaxStale - 1 \in Int /\ -1 \in Int /\ ~(-1 > MaxStale - 1)
    BY <1>1
  <2>3. /\ IsFiniteSet(-1 .. MaxStale - 1)
        /\ Cardinality(-1 .. MaxStale - 1) = IF -1 > MaxStale - 1 THEN 0 ELSE (MaxStale - 1) - (-1) + 1
    BY <2>2, FS_Interval
  <2>4. (MaxStale - 1) - (-1) + 1 = MaxStale + 1
    BY <1>1
  <2>5. QED
    BY <2>1, <2>2, <2>3, <2>4
<1>7. Gens \subseteq Nat /\ IsFiniteSet(Gens) /\ 0 \in Gens
  <2>1. Gens \subseteq Nat /\ 0 \in Gens /\ Gens \in SUBSET (Gens \union {-1})
    BY <1>1 DEF Gens
  <2>2. QED
    BY <1>6, <2>1, FS_Subset
<1>8. QED
  BY <1>2, <1>3, <1>4, <1>5, <1>6, <1>7

\* There is always a run of pages that is free: the generations and the current run leave one.
LEMMA RunIsFree == ASSUME FbTypes, RunsApart PROVE FreeRun \in Runs \ allocated
<1>1. Runs \ allocated # {}
  <2> SUFFICES ASSUME Runs \subseteq allocated PROVE FALSE
    OBVIOUS
  <2> DEFINE Own(r) == IF r = run THEN -1 ELSE CHOOSE g \in Gens : stale[g].run = r
  <2> DEFINE f == [r \in Runs |-> Own(r)]
  <2>1. ASSUME NEW r \in Runs, r # run PROVE Own(r) \in Gens /\ stale[Own(r)].run = r
    <3>1. \E g \in Gens : stale[g].run = r
      BY <2>1 DEF RunsApart
    <3>2. QED
      BY <2>1, <3>1
  <2>2. \A r \in Runs : f[r] \in Gens \union {-1}
    BY <2>1
  <2>3. f \in [Runs -> Gens \union {-1}]
    BY <2>2
  <2>4. \E x, y \in Runs : x # y /\ f[x] = f[y]
    <3>1. Cardinality(Gens \union {-1}) < Cardinality(Runs)
      BY FbCounts, FbAssumption DEF FbAssumption
    <3> HIDE DEF f
    <3>2. QED
      BY <2>3, <3>1, FbCounts, FS_PigeonHole
  <2> HIDE DEF Own
  <2>5. PICK x \in Runs, y \in Runs : x # y /\ Own(x) = Own(y)
    BY <2>4
  <2>6. -1 \notin Gens
    BY FbCounts
  <2>7. QED
    <3>1. CASE x # run /\ y # run
      BY <2>1, <2>5, <3>1
    <3>2. CASE x = run \/ y = run
      BY <2>1, <2>5, <2>6, <3>2 DEF Own
    <3>3. QED
      BY <3>1, <3>2
<1>2. Runs \ allocated \in SUBSET Nat /\ IsFiniteSet(Runs \ allocated)
  <2>1. Runs \ allocated \in SUBSET Runs /\ Runs \subseteq Nat
    BY FbAssumption DEF Runs, FbAssumption
  <2>2. QED
    BY <2>1, FbCounts, FS_Subset
<1>3. QED
  BY <1>1, <1>2, LeastExists DEF FreeRun

\* stale_gen_alloc takes a generation in use only when there is no other.
LEMMA GenIsThere ==
  ASSUME FbTypes
  PROVE  GenFor \in Gens /\ (stale[GenFor].run # 0 => \A g \in Gens : stale[g].run # 0)
<1> DEFINE unused == {g \in Gens : stale[g].run = 0}
<1> DEFINE fewest == {g \in Gens : \A h \in Gens : stale[g].refs <= stale[h].refs}
<1>1. ASSUME NEW S \in SUBSET Gens, S # {} PROVE Min(S) \in S
  <2>1. S \in SUBSET Nat /\ IsFiniteSet(S)
    BY FbCounts, FS_Subset
  <2>2. QED
    BY <1>1, <2>1, LeastExists
<1>2. fewest # {}
  <2> DEFINE counts == {stale[g].refs : g \in Gens}
  <2> DEFINE f == [g \in Gens |-> stale[g].refs]
  <2>1. counts \in SUBSET Nat /\ counts # {} /\ \A g \in Gens : stale[g].refs \in counts
    BY FbCounts DEF FbTypes
  <2>2. IsFiniteSet(counts)
    <3>1. f \in Surjection(Gens, counts)
      BY DEF Surjection
    <3> HIDE DEF f, counts
    <3>2. QED
      BY <3>1, FbCounts, FS_Surjection
  <2>3. Min(counts) \in counts /\ \A n \in counts : Min(counts) <= n
    <3> HIDE DEF counts
    <3>1. QED
      BY <2>1, <2>2, LeastExists
  <2>4. PICK g \in Gens : Min(counts) = stale[g].refs
    BY <2>3
  <2> HIDE DEF counts
  <2>5. g \in fewest
    BY <2>1, <2>3, <2>4
  <2>6. QED
    BY <2>5
<1>3. GenFor = IF unused # {} THEN Min(unused) ELSE Min(fewest)
  BY DEF GenFor
<1>4. QED
  BY <1>1, <1>2, <1>3

\* A client that leaves a generation takes its reference along, and the last one the run.
LEMMA LeavesGeneration ==
  ASSUME FbInv, NEW p \in Mappers, NEW x \in Entry, x.gen = -1, run' = run,
         maps' = [maps EXCEPT ![p] = x],
         stale' = IF maps[p].gen >= 0 THEN Unref(stale, maps[p].gen) ELSE stale,
         allocated' = allocated \ Freed(stale, maps[p].gen)
  PROVE  /\ maps' \in [Mappers -> Entry]
         /\ stale' \in [Gens -> [run : Runs \union {0}, refs : Nat]]
         /\ allocated' \subseteq Runs
         /\ GensCount' /\ RunsApart'
<1>0. PICK g : g = maps[p].gen
  OBVIOUS
<1>1. FbTypes /\ EntriesSound /\ GensCount /\ RunsApart
  BY DEF FbInv
<1>2. /\ maps \in [Mappers -> Entry] /\ g \in Gens \union {-1} /\ Gens \subseteq Nat
      /\ stale \in [Gens -> [run : Runs \union {0}, refs : Nat]] /\ allocated \subseteq Runs
  BY <1>0, <1>1, FbCounts DEF FbTypes, Entry
<1>3. maps' \in [Mappers -> Entry] /\ allocated' \subseteq Runs
  BY <1>2 DEF Freed
<1>4. ASSUME NEW h \in Gens PROVE Users(h)' = Users(h) \ {p}
  BY <1>0, <1>2, <1>4 DEF Users
<1>5. ASSUME NEW h \in Gens, h # g PROVE Users(h)' = Users(h)
  BY <1>0, <1>4, <1>5 DEF Users
<1>6. ASSUME NEW h \in Gens, NEW q \in Users(h)' PROVE maps'[q] = maps[q] /\ q \in Users(h)
  BY <1>2, <1>4 DEF Users
<1>7. CASE g = -1
  <2>1. stale' = stale /\ allocated' = allocated
    BY <1>0, <1>7 DEF Freed
  <2>2. GensCount'
    <3>1. ASSUME NEW h \in Gens PROVE Users(h)' = Users(h)
      BY <1>2, <1>5, <1>7
    <3>2. QED
      BY <1>1, <1>6, <2>1, <3>1 DEF GensCount
  <2>3. RunsApart'
    BY <1>1, <2>1 DEF RunsApart
  <2>4. QED
    BY <1>2, <1>3, <2>1, <2>2, <2>3
<1>8. CASE g \in Gens
  <2>1. p \in Users(g) /\ g >= 0
    BY <1>0, <1>1, <1>2, <1>8 DEF EntriesSound, Users
  <2>2. /\ Cardinality(Users(g)') = stale[g].refs - 1 /\ stale[g].refs \in Nat /\ stale[g].run # 0
        /\ IsFiniteSet(Users(g)') /\ Cardinality(Users(g)') \in Nat
    <3>1. IsFiniteSet(Users(g)) /\ stale[g].refs = Cardinality(Users(g)) /\ stale[g].run # 0
      BY <1>1, <1>8, <2>1, FbCounts DEF GensCount
    <3>2. Users(g)' = Users(g) \ {p}
      BY <1>4, <1>8
    <3>3. QED
      BY <2>1, <3>1, <3>2, FS_RemoveElement, FS_CardinalityType
  <2>3. Users(g)' = {} <=> stale[g].refs <= 1
    <3>1. Users(g)' = {} <=> Cardinality(Users(g)') = 0
      BY <2>2, FS_EmptySet
    <3>2. QED
      BY <2>2, <3>1
  <2>4. /\ stale'[g].refs = Cardinality(Users(g)') /\ stale'[g].run \in {0, stale[g].run}
        /\ stale'[g].run # 0 <=> Users(g)' # {}
        /\ stale' \in [Gens -> [run : Runs \union {0}, refs : Nat]]
        /\ \A h \in Gens : h # g => stale'[h] = stale[h]
    <3>1. CASE stale[g].refs <= 1
      <4>1. stale' = [stale EXCEPT ![g] =NoGen] /\ stale[g].refs = 1
        BY <1>0, <2>1, <2>2, <3>1 DEF Unref
      <4>2. QED
        BY <1>2, <1>8, <2>2, <2>3, <3>1, <4>1 DEF NoGen
    <3>2. CASE stale[g].refs > 1
      <4>1. stale' = [stale EXCEPT ![g].refs = @ - 1] /\ stale[g].refs - 1 \in Nat
        BY <1>0, <2>1, <2>2, <3>2 DEF Unref
      <4>2. QED
        BY <1>2, <1>8, <2>2, <2>3, <3>2, <4>1
    <3>3. QED
      BY <2>2, <3>1, <3>2
  <2>5. GensCount'
    <3>1. ASSUME NEW h \in Gens
          PROVE  /\ stale'[h].refs = Cardinality(Users(h)') /\ (stale'[h].run # 0 <=> Users(h)' # {})
      <4>1. CASE h = g
        BY <2>4, <4>1
      <4>2. CASE h # g
        <5>1. Users(h)' = Users(h) /\ stale'[h] = stale[h]
          BY <1>5, <2>4, <4>2
        <5>2. stale[h].refs = Cardinality(Users(h)) /\ (stale[h].run # 0 <=> Users(h) # {})
          BY <1>1 DEF GensCount
        <5>3. QED
          BY <5>1, <5>2
      <4>3. QED
        BY <4>1, <4>2
    <3>2. ASSUME NEW h \in Gens, NEW q \in Users(h)' PROVE maps'[q].shows = stale'[h].run
      <4>1. maps'[q].shows = stale[h].run
        BY <1>1, <1>6, <3>2 DEF GensCount
      <4>2. stale'[h].run = stale[h].run
        <5>1. Users(h)' # {}
          BY <3>2
        <5>2. CASE h = g
          BY <2>2, <2>4, <5>1, <5>2
        <5>3. CASE h # g
          BY <2>4, <5>3
        <5>4. QED
          BY <5>2, <5>3
      <4>3. QED
        BY <4>1, <4>2
    <3>3. QED
      BY <3>1, <3>2 DEF GensCount
  <2>6. RunsApart'
    <3>1. allocated' = IF stale'[g].run = 0 THEN allocated \ {stale[g].run} ELSE allocated
      BY <1>0, <2>1, <2>3, <2>4 DEF Freed
    <3>2. \A h \in Gens : stale'[h].run \in {0, stale[h].run}
      BY <1>2, <2>4
    <3>3. /\ \A h \in Gens : stale'[h].run # 0 => stale'[h].run # run'
          /\ \A h, k \in Gens : stale'[h].run # 0 /\ stale'[h].run = stale'[k].run => h = k
      BY <1>1, <3>2 DEF RunsApart
    <3>4. allocated = ({run} \union {stale[h].run : h \in Gens}) \ {0}
      BY <1>1 DEF RunsApart
    <3>5. \A h \in Gens : h # g => stale'[h].run = stale[h].run /\ stale[h].run # stale[g].run
      BY <1>1, <1>8, <2>2, <2>4 DEF RunsApart
    <3>6. stale[g].run # run
      BY <1>1, <1>8, <2>2 DEF RunsApart
    <3>7. allocated' = ({run'} \union {stale'[h].run : h \in Gens}) \ {0}
      <4>1. CASE stale'[g].run = 0
        BY <1>8, <3>1, <3>4, <3>5, <3>6, <4>1
      <4>2. CASE stale'[g].run # 0
        <5>1. \A h \in Gens : stale'[h].run = stale[h].run
          BY <2>4, <3>5, <4>2
        <5>2. QED
          BY <3>1, <3>4, <4>2, <5>1
      <4>3. QED
        BY <4>1, <4>2
    <3>8. QED
      BY <3>3, <3>7 DEF RunsApart
  <2>7. QED
    BY <1>3, <2>4, <2>5, <2>6
<1>9. QED
  BY <1>2, <1>7, <1>8

\* With no more entries than generations, a generation is unused while a client is current.
LEMMA OneIsUnused ==
  ASSUME FbInv, Current # {}, MaxMaps <= MaxStale
  PROVE  stale[GenFor].run = 0
<1>1. FbTypes /\ EntriesSound /\ GensCount
  BY DEF FbInv
<1> SUFFICES ASSUME \A g \in Gens : stale[g].run # 0 PROVE FALSE
  BY <1>1, GenIsThere
<1> DEFINE Of(g) == IF g = -1 THEN CHOOSE p \in Current : TRUE ELSE CHOOSE p \in Users(g) : TRUE
<1> DEFINE f == [g \in Gens \union {-1} |-> Of(g)]
<1>2. ASSUME NEW g \in Gens \union {-1} PROVE Of(g) \in UsedMaps /\ maps[Of(g)].gen = g
  <2>1. CASE g = -1
    <3>1. Of(g) \in Current
      BY <2>1
    <3>2. \A p \in Current : p \in UsedMaps /\ maps[p].gen = -1
      BY <1>1, FbCounts DEF FbTypes, Entry, Current, UsedMaps
    <3>3. QED
      BY <2>1, <3>1, <3>2
  <2>2. CASE g \in Gens
    <3>1. g # -1 /\ Users(g) # {}
      BY <1>1, <2>2, FbCounts DEF GensCount
    <3>2. Of(g) \in Users(g)
      BY <3>1
    <3> HIDE DEF Of
    <3>3. QED
      BY <3>2 DEF Users, UsedMaps
  <2>3. QED
    BY <2>1, <2>2
<1> HIDE DEF Of
<1>3. f \in [Gens \union {-1} -> UsedMaps]
  BY <1>2
<1>4. Cardinality(UsedMaps) < Cardinality(Gens \union {-1})
  <2>1. Cardinality(UsedMaps) <= MaxMaps /\ Cardinality(UsedMaps) \in Nat
    BY <1>1, FbCounts DEF EntriesSound
  <2>2. Cardinality(Gens \union {-1}) = MaxStale + 1
    BY <1>1, FbCounts
  <2>3. QED
    BY <2>1, <2>2, FbAssumption DEF FbAssumption
<1>5. \E x, y \in Gens \union {-1} : x # y /\ f[x] = f[y]
  <2> HIDE DEF f
  <2>1. QED
    BY <1>1, <1>3, <1>4, FbCounts, FS_PigeonHole
<1>6. QED
  BY <1>2, <1>5

LEMMA FbStarts == FbInit => FbInv
<1> SUFFICES ASSUME FbInit PROVE FbInv
  OBVIOUS
<1>1. FbTypes
  BY DEF FbInit, FbTypes, Entry, NoMap, NoGen
<1>2. UsedMaps = {} /\ Current = {} /\ (\A g \in Gens : Users(g) = {}) /\ \A g \in Gens : stale[g] = NoGen
  BY DEF FbInit, UsedMaps, Current, Users, NoMap
<1>3. Cardinality({}) = 0
  BY FS_EmptySet
<1>4. EntriesSound /\ GensCount
  <2>1. Cardinality(UsedMaps) = 0 /\ \A g \in Gens : Cardinality(Users(g)) = 0
    BY <1>2, <1>3
  <2>2. EntriesSound
    BY <1>2, <2>1, FbAssumption DEF FbAssumption, FbInit, EntriesSound, NoMap
  <2>3. GensCount
    BY <1>2, <2>1 DEF FbInit, GensCount, NoGen
  <2>4. QED
    BY <2>2, <2>3
<1>5. RunsApart
  BY <1>2 DEF FbInit, RunsApart, NoGen
<1>6. ViewsSound /\ NeverForced
  BY <1>2 DEF FbInit, ViewsSound, NeverForced, NoMap
<1>7. QED
  BY <1>1, <1>4, <1>5, <1>6 DEF FbInv

LEMMA AllocKeeps == ASSUME FbInv, Alloc PROVE FbInv'
<1>1. FbTypes /\ EntriesSound /\ GensCount /\ RunsApart /\ ViewsSound /\ NeverForced
  BY DEF FbInv
<1>2. run = 0 /\ run' = FreeRun /\ FreeRun \in Runs \ allocated /\ FreeRun # 0
  BY <1>1, RunIsFree DEF Alloc, Runs
<1>3. UsedMaps = {} /\ Current = {} /\ \A g \in Gens : Users(g) = {}
  BY <1>1, <1>2 DEF EntriesSound, UsedMaps, Current, Users
<1>4. \A g \in Gens : stale[g].run = 0
  BY <1>1, <1>3 DEF GensCount
<1>5. maps' = maps /\ stale' = stale /\ forced' = forced /\ UsedMaps' = UsedMaps /\ Current' = Current
  BY DEF Alloc, UsedMaps, Current
<1>6. \A g \in Gens : Users(g)' = Users(g)
  BY <1>5 DEF Users
<1>7. FbTypes'
  BY <1>1, <1>2, <1>5 DEF FbTypes, Alloc
<1>8. EntriesSound' /\ GensCount' /\ NeverForced'
  BY <1>1, <1>2, <1>5, <1>6 DEF EntriesSound, GensCount, NeverForced
<1>9. RunsApart'
  BY <1>1, <1>2, <1>4, <1>5 DEF RunsApart, Alloc
<1>10. ViewsSound'
  BY <1>1, <1>3, <1>5, FbAssumption DEF ViewsSound, Alloc, FbTypes, FbAssumption
<1>11. QED
  BY <1>7, <1>8, <1>9, <1>10 DEF FbInv

LEMMA MapNewKeeps == ASSUME FbInv, NEW p \in Mappers, MapNew(p) PROVE FbInv'
<1>1. FbTypes /\ EntriesSound /\ GensCount /\ RunsApart /\ ViewsSound /\ NeverForced
  BY DEF FbInv
<1>2. /\ run # 0 /\ run' = run /\ stale' = stale /\ allocated' = allocated /\ forced' = forced /\ ownerVa' = ownerVa
      /\ maps' = [maps EXCEPT ![p] = [used |-> TRUE, shows |-> run, gen |-> -1]] /\ ~maps[p].used
      /\ installed' = [installed EXCEPT ![p] = @ \union {run}] /\ Cardinality(UsedMaps) < MaxMaps
      /\ maps \in [Mappers -> Entry] /\ run \in Runs /\ installed \in [Mappers \union {Server} -> SUBSET Runs]
  BY <1>1 DEF MapNew, FbTypes
<1>3. /\ maps'[p] = [used |-> TRUE, shows |-> run, gen |-> -1]
      /\ \A q \in Mappers : q # p => maps'[q] = maps[q] /\ installed'[q] = installed[q]
  BY <1>2
<1>4. FbTypes'
  <2>1. maps' \in [Mappers -> Entry]
    BY <1>2 DEF Entry
  <2>2. installed' \in [Mappers \union {Server} -> SUBSET Runs]
    BY <1>2
  <2>3. QED
    BY <1>1, <1>2, <2>1, <2>2 DEF FbTypes
<1>5. UsedMaps' = UsedMaps \union {p} /\ p \notin UsedMaps /\ Current' \subseteq Current \union {p}
  BY <1>2, <1>3 DEF UsedMaps, Current
<1>6. EntriesSound'
  <2>1. Cardinality(UsedMaps') = Cardinality(UsedMaps) + 1 /\ Cardinality(UsedMaps) \in Nat
    BY <1>1, <1>5, FbCounts, FS_AddElement
  <2>2. Cardinality(UsedMaps') <= MaxMaps
    BY <1>2, <2>1, FbAssumption DEF FbAssumption
  <2>3. QED
    BY <1>1, <1>2, <1>3, <2>2 DEF EntriesSound
<1>7. ASSUME NEW g \in Gens PROVE Users(g)' = Users(g) /\ \A q \in Users(g) : maps'[q] = maps[q]
  <2>1. g # -1
    BY <1>1, FbCounts
  <2>2. QED
    BY <1>2, <1>3, <2>1 DEF Users
<1>8. GensCount' /\ RunsApart' /\ NeverForced'
  <2>1. GensCount'
    BY <1>1, <1>2, <1>7 DEF GensCount
  <2>2. QED
    BY <1>1, <1>2, <2>1 DEF RunsApart, NeverForced
<1>9. ViewsSound'
  <2>1. installed'[p] = {maps'[p].shows} \ {0}
    BY <1>1, <1>2, <1>3 DEF ViewsSound, EntriesSound
  <2>2. QED
    BY <1>1, <1>2, <1>3, <1>5, <2>1 DEF ViewsSound
<1>10. QED
  BY <1>4, <1>6, <1>8, <1>9 DEF FbInv

LEMMA RefreshKeeps == ASSUME FbInv, NEW p \in Mappers, Refresh(p) PROVE FbInv'
<1>1. FbTypes /\ EntriesSound /\ GensCount /\ RunsApart /\ ViewsSound /\ NeverForced
  BY DEF FbInv
<1>2. PICK ok \in BOOLEAN :
        /\ maps' = [maps EXCEPT ![p] = IF ok THEN [maps[p] EXCEPT !.shows = run, !.gen = -1] ELSE NoMap]
        /\ installed' = [installed EXCEPT ![p] = (@ \ {maps[p].shows}) \union (IF ok THEN {run} ELSE {})]
  BY DEF Refresh
<1>3. /\ run # 0 /\ run' = run /\ forced' = forced /\ ownerVa' = ownerVa /\ maps[p].used
      /\ stale' = IF maps[p].gen >= 0 THEN Unref(stale, maps[p].gen) ELSE stale
      /\ allocated' = allocated \ Freed(stale, maps[p].gen)
      /\ maps \in [Mappers -> Entry] /\ run \in Runs /\ installed \in [Mappers \union {Server} -> SUBSET Runs]
  BY <1>1 DEF Refresh, FbTypes
<1>4. PICK x \in Entry : /\ maps' = [maps EXCEPT ![p] = x] /\ x.gen = -1 /\ x.shows \in {0, run}
                         /\ (x.shows = 0 <=> ~x.used)
                         /\ installed' = [installed EXCEPT ![p] = (@ \ {maps[p].shows}) \union ({x.shows} \ {0})]
  <2>1. CASE ok
    <3> DEFINE x == [maps[p] EXCEPT !.shows = run, !.gen = -1]
    <3>1. x \in Entry /\ x.gen = -1 /\ x.shows = run /\ x.used
      BY <1>3 DEF Entry
    <3>2. {run} \ {0} = {run}
      BY <1>3
    <3> HIDE DEF x
    <3>3. maps' = [maps EXCEPT ![p] = x]
      BY <1>2, <2>1 DEF x
    <3>4. installed' = [installed EXCEPT ![p] = (@ \ {maps[p].shows}) \union ({x.shows} \ {0})]
      BY <1>2, <2>1, <3>1, <3>2
    <3>5. QED
      BY <1>3, <3>1, <3>3, <3>4
  <2>2. CASE ~ok
    <3>1. NoMap \in Entry /\ NoMap.gen = -1 /\ NoMap.shows = 0 /\ ~NoMap.used
      BY DEF NoMap, Entry
    <3>2. {} = {0} \ {0}
      OBVIOUS
    <3>3. QED
      BY <1>2, <2>2, <3>1, <3>2
  <2>3. QED
    BY <2>1, <2>2
<1>5. /\ maps' \in [Mappers -> Entry] /\ stale' \in [Gens -> [run : Runs \union {0}, refs : Nat]]
      /\ allocated' \subseteq Runs /\ GensCount' /\ RunsApart'
  BY <1>3, <1>4, LeavesGeneration
<1>6. FbTypes'
  <2>1. installed' \in [Mappers \union {Server} -> SUBSET Runs]
    <3>1. {x.shows} \ {0} \subseteq Runs
      BY <1>3, <1>4
    <3>2. QED
      BY <1>3, <1>4, <3>1
  <2>2. QED
    BY <1>1, <1>3, <1>5, <2>1 DEF FbTypes
<1>7. /\ maps'[p] = x /\ \A q \in Mappers : q # p => maps'[q] = maps[q] /\ installed'[q] = installed[q]
      /\ installed'[p] = (installed[p] \ {maps[p].shows}) \union ({x.shows} \ {0})
  BY <1>3, <1>4
<1>8. EntriesSound'
  <2>1. UsedMaps' \in SUBSET UsedMaps
    BY <1>3, <1>7 DEF UsedMaps
  <2>2. Cardinality(UsedMaps') <= Cardinality(UsedMaps) /\ Cardinality(UsedMaps') \in Nat
    BY <1>1, <2>1, FbCounts, FS_Subset, FS_CardinalityType
  <2>3. Cardinality(UsedMaps') <= MaxMaps
    BY <1>1, <2>2, FbCounts, FbAssumption DEF EntriesSound, FbAssumption
  <2>4. QED
    BY <1>1, <1>3, <1>4, <1>7, <2>3 DEF EntriesSound
<1>9. ViewsSound'
  <2>1. installed'[p] = {maps'[p].shows} \ {0}
    BY <1>1, <1>7 DEF ViewsSound
  <2>2. \A q \in Current' : q # p => q \in Current
    BY <1>7 DEF Current
  <2>3. p \in Current' => maps'[p].shows = run'
    BY <1>3, <1>4, <1>7 DEF Current
  <2>4. QED
    BY <1>1, <1>3, <1>7, <2>1, <2>2, <2>3 DEF ViewsSound, Current
<1>10. QED
  BY <1>1, <1>3, <1>5, <1>6, <1>8, <1>9 DEF FbInv, NeverForced

LEMMA MapperExitKeeps == ASSUME FbInv, NEW p \in Mappers, MapperExit(p) PROVE FbInv'
<1>1. FbTypes /\ EntriesSound /\ GensCount /\ RunsApart /\ ViewsSound /\ NeverForced
  BY DEF FbInv
<1>2. /\ run' = run /\ forced' = forced /\ ownerVa' = ownerVa /\ maps' = [maps EXCEPT ![p] = NoMap]
      /\ stale' = IF maps[p].gen >= 0 THEN Unref(stale, maps[p].gen) ELSE stale
      /\ allocated' = allocated \ Freed(stale, maps[p].gen) /\ installed' = [installed EXCEPT ![p] = {}]
      /\ maps \in [Mappers -> Entry] /\ installed \in [Mappers \union {Server} -> SUBSET Runs]
  BY <1>1 DEF MapperExit, FbTypes
<1>3. NoMap \in Entry /\ NoMap.gen = -1 /\ NoMap.shows = 0 /\ ~NoMap.used
  BY DEF NoMap, Entry
<1>4. /\ maps' \in [Mappers -> Entry] /\ stale' \in [Gens -> [run : Runs \union {0}, refs : Nat]]
      /\ allocated' \subseteq Runs /\ GensCount' /\ RunsApart'
  BY <1>2, <1>3, LeavesGeneration
<1>5. installed' \in [Mappers \union {Server} -> SUBSET Runs]
  BY <1>2
<1>6. FbTypes'
  BY <1>1, <1>2, <1>4, <1>5 DEF FbTypes
<1>7. /\ maps'[p] = NoMap /\ \A q \in Mappers : q # p => maps'[q] = maps[q] /\ installed'[q] = installed[q]
      /\ installed'[p] = {}
  BY <1>2
<1>8. EntriesSound'
  <2>1. UsedMaps' \in SUBSET UsedMaps
    BY <1>3, <1>7 DEF UsedMaps
  <2>2. Cardinality(UsedMaps') <= Cardinality(UsedMaps) /\ Cardinality(UsedMaps') \in Nat
    BY <1>1, <2>1, FbCounts, FS_Subset, FS_CardinalityType
  <2>3. Cardinality(UsedMaps') <= MaxMaps
    BY <1>1, <2>2, FbCounts, FbAssumption DEF EntriesSound, FbAssumption
  <2>4. QED
    BY <1>1, <1>2, <1>3, <1>7, <2>1, <2>3 DEF EntriesSound
<1>9. ViewsSound'
  <2>1. \A q \in Current' : q # p /\ q \in Current
    BY <1>3, <1>7 DEF Current
  <2>2. QED
    BY <1>1, <1>2, <1>3, <1>7, <2>1 DEF ViewsSound, Current
<1>10. QED
  BY <1>1, <1>2, <1>4, <1>6, <1>8, <1>9 DEF FbInv, NeverForced

LEMMA DestroyedKeeps == ASSUME FbInv, NEW skip \in BOOLEAN, Destroyed(skip) PROVE FbInv'
<1>1. FbTypes /\ EntriesSound /\ GensCount /\ RunsApart /\ ViewsSound /\ NeverForced
  BY DEF FbInv
<1>2. /\ run' = 0 /\ ownerVa' = FALSE /\ maps' = [q \in Mappers |-> NoMap] /\ stale' = [g \in Gens |-> NoGen]
      /\ allocated' = allocated \ ({run} \union {stale[g].run : g \in Gens}) /\ forced' = forced
  BY DEF Destroyed
<1>3. allocated' = {}
  BY <1>1, <1>2 DEF RunsApart
<1>4. UsedMaps' = {} /\ Current' = {} /\ \A g \in Gens : Users(g)' = {}
  BY <1>2 DEF UsedMaps, Current, Users, NoMap
<1>5. Cardinality({}) = 0
  BY FS_EmptySet
<1>6. EntriesSound' /\ GensCount'
  <2>1. Cardinality(UsedMaps') = 0 /\ \A g \in Gens : Cardinality(Users(g)') = 0
    BY <1>4, <1>5
  <2>2. EntriesSound'
    BY <1>2, <1>4, <2>1, FbAssumption DEF FbAssumption, EntriesSound, NoMap
  <2>3. GensCount'
    BY <1>2, <1>4, <2>1 DEF GensCount, NoGen
  <2>4. QED
    BY <2>2, <2>3
<1>7. RunsApart'
  BY <1>2, <1>3 DEF RunsApart, NoGen
<1>8. DOMAIN installed = Mappers \union {Server} /\ installed \in [Mappers \union {Server} -> SUBSET Runs]
  BY <1>1 DEF FbTypes
<1>9. installed' \in [Mappers \union {Server} -> SUBSET Runs]
  BY <1>8 DEF Destroyed
<1>10. FbTypes'
  BY <1>1, <1>2, <1>3, <1>9 DEF FbTypes, NoMap, NoGen, Entry
<1>11. ViewsSound'
  <2>1. ASSUME NEW q \in Mappers PROVE installed'[q] = {}
    <3>1. q # Server /\ q \in DOMAIN installed
      BY <1>8, FbAssumption DEF FbAssumption
    <3>2. installed'[q] = IF maps[q].used THEN installed[q] \ {maps[q].shows} ELSE installed[q]
      BY <3>1 DEF Destroyed
    <3>3. installed[q] = {maps[q].shows} \ {0} /\ (~maps[q].used => maps[q].shows = 0)
      BY <1>1 DEF ViewsSound, EntriesSound
    <3>4. QED
      BY <3>2, <3>3
  <2>2. QED
    BY <1>2, <1>4, <2>1 DEF ViewsSound, NoMap
<1>12. QED
  BY <1>1, <1>2, <1>6, <1>7, <1>10, <1>11 DEF FbInv, NeverForced

\* A resize that no client has to follow: the old run goes at once.
LEMMA ResizeAloneKeeps == ASSUME FbInv, Resize, Current = {} PROVE FbInv'
<1>1. FbTypes /\ EntriesSound /\ GensCount /\ RunsApart /\ ViewsSound /\ NeverForced
  BY DEF FbInv
<1>2. /\ run # 0 /\ run' = FreeRun /\ stale' = stale /\ allocated' = (allocated \ {run}) \union {FreeRun}
      /\ ownerVa' \in BOOLEAN /\ forced' = forced
      /\ maps' = [p \in Mappers |-> IF p \in {} THEN [maps[p] EXCEPT !.gen = GenFor]
                                    ELSE IF p \in {} THEN [maps[p] EXCEPT !.shows = 0, !.gen = -1] ELSE maps[p]]
      /\ installed' = [p \in DOMAIN installed |->
                         IF p = Server THEN IF ownerVa' THEN {FreeRun} ELSE {}
                         ELSE IF p \in {} THEN installed[p] \ {maps[p].shows} ELSE installed[p]]
  BY DEF Resize
<1>3. FreeRun \in Runs \ allocated /\ FreeRun # 0
  BY <1>1, RunIsFree DEF Runs
<1>4. DOMAIN installed = Mappers \union {Server} /\ installed \in [Mappers \union {Server} -> SUBSET Runs]
  BY <1>1 DEF FbTypes
<1>5. maps' = maps
  BY <1>1, <1>2 DEF FbTypes
<1>6. UsedMaps' = UsedMaps /\ Current' = {} /\ \A g \in Gens : Users(g)' = Users(g)
  BY <1>5 DEF UsedMaps, Current, Users
<1>7. installed' \in [Mappers \union {Server} -> SUBSET Runs] /\ \A p \in Mappers : installed'[p] = installed[p]
  BY <1>2, <1>3, <1>4, FbAssumption DEF FbAssumption
<1>8. FbTypes'
  BY <1>1, <1>2, <1>3, <1>5, <1>7 DEF FbTypes
<1>9. EntriesSound' /\ GensCount'
  BY <1>1, <1>2, <1>3, <1>5, <1>6 DEF EntriesSound, GensCount
<1>10. RunsApart'
  <2>1. allocated = ({run} \union {stale[g].run : g \in Gens}) \ {0}
    BY <1>1 DEF RunsApart
  <2>2. \A g \in Gens : stale[g].run # 0 => stale[g].run # run /\ stale[g].run # FreeRun
    BY <1>1, <1>3, <2>1 DEF RunsApart
  <2>3. allocated' = ({FreeRun} \union {stale[g].run : g \in Gens}) \ {0}
    BY <1>2, <1>3, <2>1, <2>2
  <2>4. QED
    BY <1>1, <1>2, <2>2, <2>3 DEF RunsApart
<1>11. ViewsSound' /\ NeverForced'
  BY <1>1, <1>2, <1>5, <1>6, <1>7 DEF ViewsSound, NeverForced
<1>12. QED
  BY <1>8, <1>9, <1>10, <1>11 DEF FbInv

\* A resize parks the old run in a generation, for as many clients as had it; those of the
\* generation it recycles lose their page.
LEMMA ResizeParksKeeps == ASSUME FbInv, Resize, Current # {} PROVE FbInv'
<1>0. PICK g \in Gens : g = GenFor
  BY GenIsThere DEF FbInv
<1> DEFINE taken == {p \in Mappers : maps[p].used /\ maps[p].gen = g}
<1>1. FbTypes /\ EntriesSound /\ GensCount /\ RunsApart /\ ViewsSound /\ NeverForced
  BY DEF FbInv
<1>2. /\ run # 0 /\ run' = FreeRun
      /\ stale' = [stale EXCEPT ![g] = [run |-> run, refs |-> Cardinality(Current)]]
      /\ allocated' = (allocated \ ({stale[g].run} \ {0})) \union {FreeRun}
      /\ ownerVa' \in BOOLEAN /\ forced' = forced \union taken
      /\ maps' = [p \in Mappers |-> IF p \in Current THEN [maps[p] EXCEPT !.gen = g]
                                    ELSE IF p \in taken THEN [maps[p] EXCEPT !.shows = 0, !.gen = -1] ELSE maps[p]]
      /\ installed' = [p \in DOMAIN installed |->
                         IF p = Server THEN IF ownerVa' THEN {FreeRun} ELSE {}
                         ELSE IF p \in taken THEN installed[p] \ {maps[p].shows} ELSE installed[p]]
  BY <1>0 DEF Resize
<1>3. FreeRun \in Runs \ allocated /\ FreeRun # 0
  BY <1>1, RunIsFree DEF Runs
<1>4. /\ DOMAIN installed = Mappers \union {Server} /\ installed \in [Mappers \union {Server} -> SUBSET Runs]
      /\ maps \in [Mappers -> Entry] /\ stale \in [Gens -> [run : Runs \union {0}, refs : Nat]] /\ run \in Runs
      /\ Gens \subseteq Nat
  BY <1>1, <1>2, FbCounts DEF FbTypes
<1>5. taken = Users(g) /\ taken \subseteq Mappers
  BY DEF Users
<1> HIDE DEF taken
<1>6. ASSUME NEW p \in Current
      PROVE  /\ p \in Mappers /\ p \notin taken /\ maps[p].shows = run /\ maps[p].used
             /\ maps'[p].used /\ maps'[p].shows = run /\ maps'[p].gen = g /\ maps'[p] \in Entry
  <2>1. p \in Mappers /\ maps[p].used /\ maps[p].gen < 0 /\ maps[p].shows = run
    BY <1>1 DEF Current, ViewsSound
  <2>2. p \notin taken
    BY <1>4, <1>5, <2>1 DEF Users
  <2>3. maps'[p] = [maps[p] EXCEPT !.gen = g] /\ maps[p] \in Entry
    BY <1>2, <1>4, <2>1
  <2>4. QED
    BY <2>1, <2>2, <2>3 DEF Entry
<1>7. ASSUME NEW p \in taken
      PROVE  /\ p \in Mappers /\ p \notin Current /\ maps[p].used /\ maps'[p].used
             /\ maps'[p].shows = 0 /\ maps'[p].gen = -1 /\ maps'[p] \in Entry
  <2>1. p \in Mappers /\ p \notin Current /\ maps[p].used
    BY <1>5, <1>6 DEF Users
  <2>2. maps'[p] = [maps[p] EXCEPT !.shows = 0, !.gen = -1] /\ maps[p] \in Entry
    BY <1>2, <1>4, <2>1
  <2>3. QED
    BY <2>1, <2>2 DEF Entry
<1>8. ASSUME NEW p \in Mappers, p \notin Current, p \notin taken PROVE maps'[p] = maps[p]
  BY <1>2, <1>8
<1>9. maps' \in [Mappers -> Entry]
  <2>1. \A p \in Mappers : maps'[p] \in Entry
    BY <1>4, <1>6, <1>7, <1>8
  <2>2. QED
    BY <1>2, <2>1
<1>10. UsedMaps' = UsedMaps
  <2>1. \A p \in Mappers : maps'[p].used <=> maps[p].used
    BY <1>6, <1>7, <1>8
  <2>2. QED
    BY <2>1 DEF UsedMaps
<1>11. Users(g)' = Current
  <2>1. \A p \in Mappers : p \in Current <=> maps'[p].used /\ maps'[p].gen = g
    <3>1. ASSUME NEW p \in Mappers, p \notin Current, p \notin taken PROVE ~(maps'[p].used /\ maps'[p].gen = g)
      BY <1>5, <1>8, <3>1 DEF Users
    <3>2. g # -1
      BY <1>4
    <3>3. QED
      BY <1>6, <1>7, <3>1, <3>2
  <2>2. Current \subseteq Mappers
    BY DEF Current
  <2>3. QED
    BY <2>1, <2>2 DEF Users
<1>12. ASSUME NEW h \in Gens, h # g PROVE Users(h)' = Users(h)
  <2>1. ASSUME NEW p \in Mappers PROVE (maps'[p].used /\ maps'[p].gen = h) <=> (maps[p].used /\ maps[p].gen = h)
    <3>1. h # -1
      BY <1>4
    <3>2. CASE p \in Current
      <4>1. maps[p].gen < 0 /\ ~(h < 0)
        BY <1>4, <3>2 DEF Current
      <4>2. QED
        BY <1>6, <1>12, <3>2, <4>1
    <3>3. CASE p \in taken
      <4>1. maps[p].gen = g
        BY <1>5, <3>3 DEF Users
      <4>2. QED
        BY <1>7, <1>12, <3>1, <3>3, <4>1
    <3>4. CASE p \notin Current /\ p \notin taken
      BY <1>8, <3>4
    <3>5. QED
      BY <3>2, <3>3, <3>4
  <2>2. QED
    BY <2>1 DEF Users
<1>13. Current' = {}
  <2>1. \A p \in Mappers : ~(maps'[p].used /\ maps'[p].gen < 0 /\ maps'[p].shows # 0)
    <3>1. ASSUME NEW p \in Mappers, p \notin Current, p \notin taken
          PROVE  ~(maps'[p].used /\ maps'[p].gen < 0 /\ maps'[p].shows # 0)
      BY <1>8, <3>1 DEF Current
    <3>2. ~(g < 0)
      BY <1>4
    <3>3. QED
      BY <1>6, <1>7, <3>1, <3>2
  <2>2. QED
    BY <2>1 DEF Current
<1>14. Cardinality(Current) \in Nat
  BY <1>1, FbCounts
<1>15. stale' \in [Gens -> [run : Runs \union {0}, refs : Nat]] /\ stale'[g] = [run |-> run, refs |-> Cardinality(Current)]
       /\ \A h \in Gens : h # g => stale'[h] = stale[h]
  BY <1>2, <1>4, <1>14
<1>16. installed' \in [Mappers \union {Server} -> SUBSET Runs]
       /\ \A p \in Mappers : installed'[p] = IF p \in taken THEN installed[p] \ {maps[p].shows} ELSE installed[p]
  BY <1>2, <1>3, <1>4, FbAssumption DEF FbAssumption
<1>17. FbTypes'
  <2>1. run' \in Runs \union {0} /\ allocated' \subseteq Runs
    BY <1>1, <1>2, <1>3 DEF FbTypes
  <2>2. forced' \subseteq Mappers
    BY <1>1, <1>2, <1>5 DEF FbTypes
  <2>3. QED
    BY <1>2, <1>9, <1>15, <1>16, <2>1, <2>2 DEF FbTypes
<1>18. EntriesSound'
  <2>1. \A p \in Mappers : ~maps'[p].used => maps'[p].shows = 0 /\ maps'[p].gen = -1
    BY <1>1, <1>6, <1>7, <1>8 DEF EntriesSound
  <2>2. QED
    BY <1>1, <1>2, <1>3, <1>10, <2>1 DEF EntriesSound
<1>19. GensCount'
  <2>1. ASSUME NEW h \in Gens
        PROVE  stale'[h].refs = Cardinality(Users(h)') /\ (stale'[h].run # 0 <=> Users(h)' # {})
    <3>1. CASE h = g
      BY <1>2, <1>11, <1>15, <3>1
    <3>2. CASE h # g
      <4>1. Users(h)' = Users(h) /\ stale'[h] = stale[h]
        BY <1>12, <1>15, <3>2
      <4>2. stale[h].refs = Cardinality(Users(h)) /\ (stale[h].run # 0 <=> Users(h) # {})
        BY <1>1 DEF GensCount
      <4>3. QED
        BY <4>1, <4>2
    <3>3. QED
      BY <3>1, <3>2
  <2>2. ASSUME NEW h \in Gens, NEW p \in Users(h)' PROVE maps'[p].shows = stale'[h].run
    <3>1. CASE h = g
      BY <1>6, <1>11, <1>15, <2>2, <3>1
    <3>2. CASE h # g
      <4>1. p \in Users(h) /\ stale'[h] = stale[h]
        BY <1>12, <1>15, <2>2, <3>2
      <4>2. p \in Mappers /\ maps[p].gen = h /\ h \in Nat
        BY <1>4, <4>1 DEF Users
      <4>3. p \notin Current
        BY <4>2 DEF Current
      <4>4. p \notin taken
        BY <1>5, <3>2, <4>2 DEF Users
      <4>5. QED
        BY <1>1, <1>8, <4>1, <4>2, <4>3, <4>4 DEF GensCount
    <3>3. QED
      BY <3>1, <3>2
  <2>3. QED
    BY <2>1, <2>2 DEF GensCount
<1>20. RunsApart'
  <2>1. allocated = ({run} \union {stale[h].run : h \in Gens}) \ {0}
    BY <1>1 DEF RunsApart
  <2>2. \A h \in Gens : stale[h].run # 0 => stale[h].run # run /\ stale[h].run # FreeRun
    BY <1>1, <1>3, <2>1 DEF RunsApart
  <2>3. run # FreeRun
    BY <1>2, <1>3, <2>1
  <2>4. \A h \in Gens : stale'[h].run # 0 => stale'[h].run # run'
    BY <1>2, <1>15, <2>2, <2>3
  <2>5. \A h, k \in Gens : stale'[h].run # 0 /\ stale'[h].run = stale'[k].run => h = k
    BY <1>1, <1>15, <2>2 DEF RunsApart
  <2>6. allocated' = ({run'} \union {stale'[h].run : h \in Gens}) \ {0}
    <3>1. ASSUME NEW r PROVE r \in allocated' <=> r \in ({run'} \union {stale'[h].run : h \in Gens}) \ {0}
      <4>1. CASE r = FreeRun \/ r = 0
        <5>1. 0 \notin allocated
          BY <2>1
        <5>2. QED
          BY <1>2, <1>3, <4>1, <5>1
      <4>2. CASE r # FreeRun /\ r # 0
        <5>1. r \in allocated' <=> r \in allocated /\ r # stale[g].run
          BY <1>2, <4>2
        <5>2. r \in ({run'} \union {stale'[h].run : h \in Gens}) \ {0} <=> \E h \in Gens : r = stale'[h].run
          BY <1>2, <4>2
        <5>3. r \in allocated <=> r = run \/ \E h \in Gens : r = stale[h].run
          BY <2>1, <4>2
        <5>4. ASSUME r \in allocated, r # stale[g].run PROVE \E h \in Gens : r = stale'[h].run
          <6>1. CASE r = run
            BY <1>15, <6>1
          <6>2. CASE r # run
            BY <1>15, <5>3, <5>4, <6>2
          <6>3. QED
            BY <6>1, <6>2
        <5>5. ASSUME NEW h \in Gens, r = stale'[h].run PROVE r \in allocated /\ r # stale[g].run
          <6>1. CASE h = g
            BY <1>15, <2>2, <4>2, <5>3, <5>5, <6>1
          <6>2. CASE h # g
            <7>1. r = stale[h].run
              BY <1>15, <5>5, <6>2
            <7>2. stale[h].run # stale[g].run
              BY <1>1, <4>2, <6>2, <7>1 DEF RunsApart
            <7>3. QED
              BY <5>3, <7>1, <7>2
          <6>3. QED
            BY <6>1, <6>2
        <5>6. QED
          BY <5>1, <5>2, <5>4, <5>5
      <4>3. QED
        BY <4>1, <4>2
    <3>2. QED
      BY <3>1
  <2>7. QED
    BY <2>4, <2>5, <2>6 DEF RunsApart
<1>21. ViewsSound'
  <2>1. ASSUME NEW p \in Mappers PROVE installed'[p] = {maps'[p].shows} \ {0}
    <3>1. installed[p] = {maps[p].shows} \ {0}
      BY <1>1 DEF ViewsSound
    <3>2. CASE p \in taken
      BY <1>7, <1>16, <3>1, <3>2
    <3>3. CASE p \notin taken
      <4>1. maps'[p].shows = maps[p].shows
        BY <1>6, <1>8, <3>3
      <4>2. QED
        BY <1>16, <3>1, <3>3, <4>1
    <3>4. QED
      BY <3>2, <3>3
  <2>2. QED
    BY <1>13, <2>1 DEF ViewsSound
<1>22. NeverForced'
  <2>1. SUFFICES ASSUME MaxMaps <= MaxStale PROVE forced' = {}
    BY DEF NeverForced
  <2>2. stale[g].run = 0
    BY <1>0, <2>1, OneIsUnused
  <2>3. taken = {}
    BY <1>1, <1>5, <2>2 DEF GensCount
  <2>4. QED
    BY <1>1, <1>2, <2>1, <2>3 DEF NeverForced
<1>23. QED
  BY <1>17, <1>18, <1>19, <1>20, <1>21, <1>22 DEF FbInv

LEMMA FbKeeps == FbInv /\ [FbNext]_fbVars => FbInv'
<1> SUFFICES ASSUME FbInv, [FbNext]_fbVars PROVE FbInv'
  OBVIOUS
<1>1. CASE UNCHANGED fbVars
  <2>1. FbTypes' /\ EntriesSound' /\ RunsApart'
    BY <1>1 DEF fbVars, FbInv, FbTypes, EntriesSound, RunsApart, UsedMaps
  <2>2. GensCount' /\ ViewsSound' /\ NeverForced'
    BY <1>1 DEF fbVars, FbInv, GensCount, ViewsSound, NeverForced, Users, Current
  <2>3. QED
    BY <2>1, <2>2 DEF FbInv
<1>2. CASE Alloc
  BY <1>2, AllocKeeps
<1>3. CASE Resize
  BY <1>3, ResizeAloneKeeps, ResizeParksKeeps
<1>4. CASE FreeFb \/ OwnerExit
  BY <1>4, DestroyedKeeps DEF FreeFb, OwnerExit
<1>5. ASSUME NEW p \in Mappers, MapNew(p) \/ Refresh(p) \/ MapperExit(p) PROVE FbInv'
  BY <1>5, MapNewKeeps, RefreshKeeps, MapperExitKeeps
<1>6. QED
  BY <1>1, <1>2, <1>3, <1>4, <1>5 DEF FbNext

LEMMA FbInvSuffices == FbInv => FrameBuffersSound
<1> SUFFICES ASSUME FbInv PROVE FrameBuffersSound
  OBVIOUS
<1>1. FbTypes /\ EntriesSound /\ GensCount /\ RunsApart /\ ViewsSound /\ NeverForced
  BY DEF FbInv
<1>2. FbTypeOK
  <2>1. \A p \in Mappers : maps[p].used \in BOOLEAN /\ maps[p].shows \in Runs \union {0}
                           /\ maps[p].gen \in Gens \union {-1}
    BY <1>1 DEF FbTypes, Entry
  <2>2. ASSUME NEW g \in Gens PROVE stale[g].run \in Runs \union {0} /\ stale[g].refs \in 0 .. MaxMaps
    <3>1. /\ stale[g].refs = Cardinality(Users(g)) /\ Cardinality(Users(g)) \in Nat /\ Cardinality(UsedMaps) \in Nat
          /\ Cardinality(Users(g)) <= Cardinality(UsedMaps) /\ Cardinality(UsedMaps) <= MaxMaps /\ MaxMaps \in Nat
      BY <1>1, FbCounts, FbAssumption DEF GensCount, EntriesSound, FbAssumption
    <3>2. stale[g].run \in Runs \union {0}
      BY <1>1 DEF FbTypes
    <3>3. QED
      BY <3>1, <3>2
  <2>3. QED
    BY <1>1, <2>1, <2>2 DEF FbTypeOK, FbTypes
<1>3. GenerationsExact
  <2>1. \A g \in Gens : Users(g) = {p \in Mappers : maps[p].used /\ maps[p].gen = g}
    BY DEF Users
  <2>2. allocated = ({run} \union {stale[g].run : g \in Gens}) \ {0}
    BY <1>1 DEF RunsApart
  <2>3. (\A p \in Mappers : installed[p] = {maps[p].shows} \ {0}) /\ \A p \in Current : maps[p].shows = run
    BY <1>1 DEF ViewsSound
  <2>4. ASSUME NEW g \in Gens
        PROVE  LET users == {p \in Mappers : maps[p].used /\ maps[p].gen = g}
               IN  /\ stale[g].refs = Cardinality(users) /\ (stale[g].run # 0) = (users # {})
                   /\ \A p \in users : maps[p].shows = stale[g].run
    BY <1>1, <2>1 DEF GensCount
  <2>5. QED
    BY <2>2, <2>3, <2>4 DEF GenerationsExact
<1>4. QED
  BY <1>1, <1>2, <1>3 DEF FrameBuffersSound

\* sys_win_fb_alloc, _map, _resize, _free and win_fb_release_pid: for any number of clients and
\* any two limits, a page table maps what the kernel's entry says, a generation counts exactly
\* the clients that still draw on it, no page is kept or given back too early, and no client is
\* forced off its page while there are at least as many generations as entries.
THEOREM FrameBuffersAreSound == FbSpec => []FrameBuffersSound
<1>1. FbInit => FbInv
  BY FbStarts
<1>2. FbInv /\ [FbNext]_fbVars => FbInv'
  BY FbKeeps
<1>3. FbInv => FrameBuffersSound
  BY FbInvSuffices
<1>4. QED
  BY <1>1, <1>2, <1>3, PTL DEF FbSpec

(***************************************************************************)
(* The two heaps.                                                          *)
(***************************************************************************)
Addr == 0 .. HeapSize - 1

Header == [size : Nat, used : BOOLEAN, prev : Nat]

\* B are the blocks of the headers h: one after the other from 0 to the end.
Chain(h, B) ==
    /\ B \subseteq Addr /\ 0 \in B
    /\ \A p \in B : h[p].size >= MinBlock /\ (p + h[p].size \in B \/ p + h[p].size = HeapSize)
    /\ \A p, q \in B : p < q => p + h[p].size <= q

\* What was once written does not reach beyond the heap, in a header that is no longer one either.
Fit(h) == \A p \in Addr : p + h[p].size <= HeapSize

PrevExact(h, B) ==
    /\ h[0].prev = 0
    /\ \A p \in B : p + h[p].size \in B => h[p + h[p].size].prev = h[p].size

HeapSound(h, B) == h \in [Addr -> Header] /\ Chain(h, B) /\ Fit(h) /\ PrevExact(h, B)

\* Of two neighbours one is in use, but for those of x.
Apart(h, B, x) ==
    \A p \in B : p + h[p].size \in B =>
        h[p].used \/ h[p + h[p].size].used \/ p \in x \/ p + h[p].size \in x

Held(h, B) == {[at |-> p, size |-> h[p].size] : p \in {q \in B : h[q].used}}

TagInv ==
    LET B == BlocksOf(tag)
    IN  HeapSound(tag, B) /\ Apart(tag, B, {}) /\ kheld = Held(tag, B)

Block == [at : Nat, size : Nat \ {0}]

Distinct(l) == \A i, j \in DOMAIN l : i # j => l[i] # l[j]

\* The units up to e are shared out between the list l and the program's blocks H.
Shared(l, H, e) ==
    /\ l \in Seq(Block) /\ H \subseteq Block /\ e \in Nat
    /\ Tiles(H \union Range(l), e) /\ Range(l) \intersect H = {} /\ Distinct(l)

ListInv == Shared(list, uheld, top)

HeapsInv == TagInv /\ ListInv

\* A set of numbers up to n has a greatest element.
LEMMA GreatestExists ==
  ASSUME NEW n \in Nat, NEW S \in SUBSET (0 .. n), S # {}
  PROVE  \E g \in S : \A m \in S : m <= g
<1> DEFINE T == {n - m : m \in S}
<1>1. T \in SUBSET (0 .. n) /\ T # {}
  <2>1. \A m \in 0 .. n : n - m \in 0 .. n
    OBVIOUS
  <2>2. QED
    BY <2>1
<1>2. IsFiniteSet(0 .. n)
  BY FS_Interval
<1>3. IsFiniteSet(T) /\ T \in SUBSET Nat
  BY <1>1, <1>2, FS_Subset
<1>4. Min(T) \in T /\ \A k \in T : Min(T) <= k
  <2> HIDE DEF T
  <2>1. QED
    BY <1>1, <1>3, LeastExists
<1>5. PICK g \in S : Min(T) = n - g
  BY <1>4
<1>6. ASSUME NEW m \in S PROVE m <= g
  <2>1. n - g <= n - m
    BY <1>4, <1>5
  <2>2. m \in Nat /\ g \in Nat
    OBVIOUS
  <2>3. QED
    BY <2>1, <2>2
<1>7. QED
  BY <1>6

\* What a walk along the sizes of h has met from each address on (blk_next).
Walk(h, from) ==
    from = [p \in 0 .. HeapSize |-> IF p >= HeapSize \/ h[p].size = 0 THEN {} ELSE {p} \union from[p + h[p].size]]

LEMMA WalkExists == ASSUME NEW h \in [Addr -> Header], Fit(h) PROVE \E f : Walk(h, f)
<1> DEFINE Stop(p) == p >= HeapSize \/ h[p].size = 0
<1> DEFINE Nx(p) == p + h[p].size
<1> DEFINE Closed(S) == \A r \in S : Stop(Nx(r)) \/ Nx(r) \in S
<1> DEFINE Cl(p) == {q \in Addr : \A S \in SUBSET Addr : Closed(S) /\ p \in S => q \in S}
<1> DEFINE f == [p \in 0 .. HeapSize |-> IF Stop(p) THEN {} ELSE Cl(p)]
<1>1. HeapSize \in Nat
  BY HeapsAssumption DEF HeapsAssumption
<1>2. \A p \in Addr : Nx(p) \in 0 .. HeapSize /\ (~Stop(Nx(p)) => Nx(p) \in Addr)
  BY <1>1 DEF Fit, Addr, Header
<1>3. \A p \in 0 .. HeapSize : ~Stop(p) => p \in Addr
  BY <1>1 DEF Addr
<1> HIDE DEF Stop, Nx
<1>4. ASSUME NEW p \in Addr PROVE Cl(p) \in SUBSET Addr /\ Closed(Cl(p)) /\ p \in Cl(p)
  <2>1. Cl(p) \in SUBSET Addr /\ p \in Cl(p)
    OBVIOUS
  <2>2. ASSUME NEW r \in Cl(p), ~Stop(Nx(r)) PROVE Nx(r) \in Cl(p)
    <3>1. r \in Addr /\ Nx(r) \in Addr
      BY <1>2, <2>2
    <3>2. ASSUME NEW S \in SUBSET Addr, Closed(S), p \in S PROVE Nx(r) \in S
      <4>1. r \in S
        BY <3>2
      <4>2. QED
        BY <2>2, <3>2, <4>1
    <3>3. QED
      BY <3>1, <3>2
  <2>3. QED
    BY <2>1, <2>2
<1>5. ASSUME NEW p \in Addr, NEW S \in SUBSET Addr, Closed(S), p \in S PROVE Cl(p) \subseteq S
  BY <1>5
<1>6. ASSUME NEW p \in 0 .. HeapSize, ~Stop(p) PROVE Cl(p) = {p} \union f[Nx(p)]
  <2>1. p \in Addr /\ Nx(p) \in 0 .. HeapSize
    BY <1>2, <1>3, <1>6
  <2>2. CASE Stop(Nx(p))
    <3>1. f[Nx(p)] = {}
      BY <2>1, <2>2
    <3>2. Closed({p}) /\ {p} \in SUBSET Addr
      BY <2>1, <2>2
    <3> HIDE DEF Cl, Closed, f
    <3>3. QED
      BY <1>4, <1>5, <2>1, <3>1, <3>2
  <2>3. CASE ~Stop(Nx(p))
    <3>1. f[Nx(p)] = Cl(Nx(p)) /\ Nx(p) \in Addr
      BY <1>2, <2>1, <2>3
    <3>2. Closed({p} \union Cl(Nx(p)))
      <4> HIDE DEF Cl
      <4>1. Closed(Cl(Nx(p))) /\ Nx(p) \in Cl(Nx(p))
        BY <1>4, <3>1
      <4>2. QED
        BY <4>1
    <3>3. Nx(p) \in Cl(p)
      <4> HIDE DEF Cl
      <4>1. Closed(Cl(p)) /\ p \in Cl(p)
        BY <1>4, <2>1
      <4>2. QED
        BY <2>3, <4>1
    <3> HIDE DEF Cl, Closed, f
    <3>4. Cl(Nx(p)) \subseteq Cl(p)
      BY <1>4, <1>5, <2>1, <3>1, <3>3
    <3>5. Cl(p) \subseteq {p} \union Cl(Nx(p))
      <4>1. {p} \union Cl(Nx(p)) \in SUBSET Addr
        BY <1>4, <2>1, <3>1
      <4>2. QED
        BY <1>5, <2>1, <3>2, <4>1
    <3>6. QED
      BY <1>4, <2>1, <3>1, <3>4, <3>5
  <2>4. QED
    BY <2>2, <2>3
<1>7. f = [p \in 0 .. HeapSize |-> IF p >= HeapSize \/ h[p].size = 0 THEN {} ELSE {p} \union f[p + h[p].size]]
  <2>1. ASSUME NEW p \in 0 .. HeapSize
        PROVE  (IF Stop(p) THEN {} ELSE Cl(p)) = IF Stop(p) THEN {} ELSE {p} \union f[Nx(p)]
    <3> HIDE DEF f, Cl
    <3>1. QED
      BY <1>6
  <2>2. f = [p \in 0 .. HeapSize |-> IF Stop(p) THEN {} ELSE {p} \union f[Nx(p)]]
    <3> DEFINE g == [p \in 0 .. HeapSize |-> IF Stop(p) THEN {} ELSE {p} \union f[Nx(p)]]
    <3>1. \A p \in 0 .. HeapSize : f[p] = g[p]
      <4>1. \A p \in 0 .. HeapSize : f[p] = IF Stop(p) THEN {} ELSE Cl(p)
        OBVIOUS
      <4> HIDE DEF f, Cl
      <4>2. \A p \in 0 .. HeapSize : g[p] = IF Stop(p) THEN {} ELSE {p} \union f[Nx(p)]
        OBVIOUS
      <4> HIDE DEF g
      <4>3. QED
        BY <2>1, <4>1, <4>2
    <3>2. DOMAIN f = 0 .. HeapSize /\ DOMAIN g = 0 .. HeapSize
      OBVIOUS
    <3>3. f = [p \in DOMAIN f |-> f[p]] /\ g = [p \in DOMAIN g |-> g[p]]
      OBVIOUS
    <3>4. f = g
      <4> HIDE DEF f, g
      <4>1. QED
        BY <3>1, <3>2, <3>3
    <3>5. QED
      BY <3>4
  <2> HIDE DEF f
  <2>3. QED
    BY <2>2 DEF Stop, Nx
<1> HIDE DEF f
<1>8. QED
  BY <1>7 DEF Walk

\* The walk from the start of the heap finds the blocks, and no others.
LEMMA BlocksAre ==
  ASSUME NEW h \in [Addr -> Header], NEW B, Fit(h), Chain(h, B)
  PROVE  BlocksOf(h) = B
<1>1. PICK f : Walk(h, f) /\ BlocksOf(h) = f[0]
  <2>1. \E f : Walk(h, f)
    BY WalkExists
  <2>2. QED
    BY <2>1 DEF Walk, BlocksOf
<1>2. HeapSize \in Nat /\ B \subseteq 0 .. HeapSize /\ B \subseteq Nat
  BY HeapsAssumption DEF HeapsAssumption, Chain, Addr
<1>3. ASSUME NEW p \in B
      PROVE  h[p].size \in Nat /\ h[p].size >= 2 /\ p < HeapSize
             /\ f[p] = {p} \union f[p + h[p].size] /\ (p + h[p].size = HeapSize => f[p + h[p].size] = {})
  <2>1. h[p].size \in Nat /\ h[p].size >= 2 /\ p < HeapSize /\ p \in 0 .. HeapSize
    BY <1>2 DEF Chain, Addr, Header, MinBlock
  <2>2. f[p] = {p} \union f[p + h[p].size]
    <3>1. f[p] = IF p >= HeapSize \/ h[p].size = 0 THEN {} ELSE {p} \union f[p + h[p].size]
      BY <1>1, <2>1 DEF Walk
    <3>2. ~(p >= HeapSize \/ h[p].size = 0)
      BY <1>2, <2>1
    <3>3. QED
      BY <3>1, <3>2
  <2>3. f[HeapSize] = {}
    BY <1>1, <1>2 DEF Walk
  <2>4. QED
    BY <2>1, <2>2, <2>3
<1>4. \A p \in B : f[p] = {q \in B : q >= p}
  <2> DEFINE bad == {p \in B : f[p] # {q \in B : q >= p}}
  <2>1. SUFFICES ASSUME bad # {} PROVE FALSE
    OBVIOUS
  <2>2. PICK p \in bad : \A m \in bad : m <= p
    <3>1. bad \in SUBSET (0 .. HeapSize)
      BY <1>2
    <3> HIDE DEF bad
    <3>2. QED
      BY <1>2, <2>1, <3>1, GreatestExists
  <2>3. p \in B /\ f[p] # {q \in B : q >= p}
    OBVIOUS
  <2>4. \A q \in B : q >= p <=> q = p \/ q >= p + h[p].size
    <3>1. \A q \in B : p < q => p + h[p].size <= q
      BY <2>3 DEF Chain
    <3>2. p \in Nat /\ h[p].size \in Nat /\ h[p].size >= 2 /\ \A q \in B : q \in Nat
      BY <1>2, <1>3, <2>3
    <3>3. QED
      BY <3>1, <3>2
  <2>5. CASE p + h[p].size = HeapSize
    <3>1. f[p] = {p}
      BY <1>3, <2>3, <2>5
    <3>2. \A q \in B : q < HeapSize /\ q \in Nat
      BY <1>2, <1>3
    <3>3. {q \in B : q >= p} = {p}
      <4>1. ASSUME NEW q \in B, q >= HeapSize PROVE FALSE
        BY <1>2, <3>2, <4>1
      <4>2. \A q \in B : q >= p <=> q = p
        BY <2>4, <2>5, <4>1
      <4>3. QED
        BY <2>3, <4>2
    <3>4. QED
      BY <2>3, <3>1, <3>3
  <2>6. CASE p + h[p].size \in B
    <3>1. p + h[p].size \notin bad
      BY <1>2, <1>3, <2>2, <2>3
    <3>2. f[p + h[p].size] = {q \in B : q >= p + h[p].size}
      BY <2>6, <3>1
    <3>3. f[p] = {p} \union {q \in B : q >= p + h[p].size}
      BY <1>3, <2>3, <3>2
    <3>4. QED
      BY <2>3, <2>4, <3>3
  <2>7. QED
    BY <2>3, <2>5, <2>6 DEF Chain
<1>5. 0 \in B
  BY DEF Chain
<1>6. {q \in B : q >= 0} = B
  <2>1. \A q \in B : q >= 0
    BY <1>2
  <2>2. QED
    BY <2>1
<1>7. QED
  BY <1>1, <1>4, <1>5, <1>6

\* The numbers of a block.
LEMMA BlockNumbers ==
  ASSUME NEW h \in [Addr -> Header], NEW B, Chain(h, B)
  PROVE  /\ HeapSize \in Nat /\ 0 \in B
         /\ \A p \in B : /\ p \in Addr /\ p \in Nat /\ p < HeapSize /\ h[p].size \in Nat /\ h[p].size >= 2
                         /\ p + h[p].size \in B \/ p + h[p].size = HeapSize
         /\ \A p, q \in B : p < q => p + h[p].size <= q
         /\ \A p, q \in B : p + h[p].size = q + h[q].size => p = q
<1>1. HeapSize \in Nat /\ B \subseteq Addr /\ 0 \in B
  BY HeapsAssumption DEF HeapsAssumption, Chain
<1>2. ASSUME NEW p \in B
      PROVE  /\ p \in Addr /\ p \in Nat /\ p < HeapSize /\ h[p].size \in Nat /\ h[p].size >= 2
             /\ p + h[p].size \in B \/ p + h[p].size = HeapSize
  <2>1. p \in Addr /\ p \in Nat /\ p < HeapSize
    BY <1>1 DEF Addr
  <2>2. h[p].size \in Nat
    BY <2>1 DEF Header
  <2>3. QED
    BY <2>1, <2>2 DEF Chain, MinBlock
<1>3. \A p, q \in B : p < q => p + h[p].size <= q
  BY DEF Chain
<1>4. ASSUME NEW p \in B, NEW q \in B, p + h[p].size = q + h[q].size, p # q PROVE FALSE
  <2>1. p < q \/ q < p
    BY <1>2, <1>4
  <2>2. QED
    BY <1>2, <1>3, <1>4, <2>1
<1>5. QED
  BY <1>1, <1>2, <1>3, <1>4

\* Before a block other than the first there is one.
LEMMA BlockBefore ==
  ASSUME NEW h \in [Addr -> Header], NEW B, Chain(h, B), NEW p \in B, p # 0
  PROVE  \E b \in B : b + h[b].size = p
<1> DEFINE lower == {b \in B : b < p}
<1>1. lower \in SUBSET (0 .. HeapSize) /\ lower # {} /\ HeapSize \in Nat
  BY BlockNumbers
<1>2. PICK b \in lower : \A m \in lower : m <= b
  <2> HIDE DEF lower
  <2>1. QED
    BY <1>1, GreatestExists
<1>3. b \in B /\ b \in Nat /\ p \in Nat /\ p < HeapSize /\ b + h[b].size <= p /\ h[b].size \in Nat /\ h[b].size >= 2
      /\ (b + h[b].size \in B \/ b + h[b].size = HeapSize) /\ HeapSize \in Nat
  BY BlockNumbers
<1>4. CASE b + h[b].size < p
  <2>1. b + h[b].size \in lower
    BY <1>3, <1>4
  <2> HIDE DEF lower
  <2>2. b + h[b].size <= b
    BY <1>2, <2>1
  <2>3. QED
    BY <1>3, <2>2
<1>5. QED
  BY <1>3, <1>4

\* The blocks of a chain cover the heap, each unit once.
LEMMA ChainTiles ==
  ASSUME NEW h \in [Addr -> Header], NEW B, Chain(h, B)
  PROVE  Tiles({[at |-> p, size |-> h[p].size] : p \in B}, HeapSize)
<1> DEFINE S == {[at |-> p, size |-> h[p].size] : p \in B}
<1>1. ASSUME NEW b \in S PROVE b.at \in B /\ b = [at |-> b.at, size |-> h[b.at].size] /\ b.size = h[b.at].size
  OBVIOUS
<1>2. ASSUME NEW p \in B PROVE Units([at |-> p, size |-> h[p].size]) = p .. p + h[p].size - 1
  BY DEF Units
<1>3. UNION {Units(b) : b \in S} \subseteq 0 .. HeapSize - 1
  <2>1. ASSUME NEW p \in B PROVE p .. p + h[p].size - 1 \subseteq 0 .. HeapSize - 1
    <3>1. p \in Nat /\ h[p].size \in Nat /\ HeapSize \in Nat /\ p + h[p].size <= HeapSize
      <4>1. p + h[p].size \in B => p + h[p].size < HeapSize
        BY BlockNumbers
      <4>2. QED
        BY <4>1, BlockNumbers
    <3>2. QED
      BY <3>1
  <2>2. QED
    BY <1>2, <2>1
<1>4. ASSUME NEW u \in 0 .. HeapSize - 1 PROVE \E b \in S : u \in Units(b)
  <2> DEFINE lower == {p \in B : p <= u}
  <2>1. lower \in SUBSET (0 .. HeapSize) /\ lower # {} /\ HeapSize \in Nat
    BY BlockNumbers
  <2>2. PICK p \in lower : \A m \in lower : m <= p
    <3> HIDE DEF lower
    <3>1. QED
      BY <2>1, GreatestExists
  <2>3. p \in B /\ p \in Nat /\ p <= u /\ h[p].size \in Nat /\ h[p].size >= 2
        /\ (p + h[p].size \in B \/ p + h[p].size = HeapSize)
    BY BlockNumbers
  <2>4. CASE p + h[p].size <= u
    <3>1. p + h[p].size \in lower
      BY <2>1, <2>3, <2>4
    <3> HIDE DEF lower
    <3>2. p + h[p].size <= p
      BY <2>2, <3>1
    <3>3. QED
      BY <2>3, <3>2
  <2>5. CASE u < p + h[p].size
    <3>1. u \in p .. p + h[p].size - 1
      BY <2>1, <2>3, <2>5
    <3>2. QED
      BY <1>2, <2>3, <3>1
  <2>6. QED
    BY <2>1, <2>3, <2>4, <2>5
<1>5. ASSUME NEW b \in S, NEW c \in S, b # c PROVE Units(b) \intersect Units(c) = {}
  <2>1. b.at \in B /\ c.at \in B /\ b.at # c.at /\ b.size = h[b.at].size /\ c.size = h[c.at].size
    BY <1>1, <1>5
  <2> HIDE DEF S
  <2>2. /\ b.at \in Nat /\ c.at \in Nat /\ b.size \in Nat /\ c.size \in Nat
        /\ b.at < c.at => b.at + b.size <= c.at
        /\ c.at < b.at => c.at + c.size <= b.at
    BY <2>1, BlockNumbers
  <2>3. QED
    BY <2>1, <2>2 DEF Units
<1>6. QED
  BY <1>3, <1>4, <1>5 DEF Tiles

\* k is h but for the size of p and what the block after it is told.
Wrote(h, k, p, s) ==
    /\ k \in [Addr -> Header]
    /\ k[p].size = s /\ k[p].prev = h[p].prev
    /\ \A q \in Addr : q # p =>
          /\ k[q].size = h[q].size /\ (k[q].used <=> h[q].used)
          /\ k[q].prev = IF q = p + s THEN s ELSE h[q].prev

\* That is what Sized writes.
LEMMA SizedFacts ==
  ASSUME NEW h \in [Addr -> Header], NEW p \in Addr, NEW s \in Nat \ {0}, NEW k,
         k = Sized(h, p, s, TRUE) \/ k = Sized(h, p, s, FALSE)
  PROVE  /\ Wrote(h, k, p, s)
         /\ k = Sized(h, p, s, TRUE) => k[p].used
         /\ k = Sized(h, p, s, FALSE) => ~k[p].used
<1>1. DOMAIN h = Addr /\ \A q \in Addr : h[q] \in Header
  OBVIOUS
<1>2. /\ k = Sized(h, p, s, TRUE) =>
            k = [q \in Addr |-> IF q = p THEN [h[p] EXCEPT !.size = s, !.used = TRUE]
                              ELSE IF q = p + s THEN [h[q] EXCEPT !.prev = s] ELSE h[q]]
      /\ k = Sized(h, p, s, FALSE) =>
            k = [q \in Addr |-> IF q = p THEN [h[p] EXCEPT !.size = s, !.used = FALSE]
                              ELSE IF q = p + s THEN [h[q] EXCEPT !.prev = s] ELSE h[q]]
  BY <1>1 DEF Sized
<1>3. /\ k = Sized(h, p, s, TRUE) => k[p] = [h[p] EXCEPT !.size = s, !.used = TRUE]
      /\ k = Sized(h, p, s, FALSE) => k[p] = [h[p] EXCEPT !.size = s, !.used = FALSE]
  BY <1>2
<1>4. /\ k = Sized(h, p, s, TRUE) => k[p] \in Header /\ k[p].size = s /\ k[p].used /\ k[p].prev = h[p].prev
      /\ k = Sized(h, p, s, FALSE) => k[p] \in Header /\ k[p].size = s /\ ~k[p].used /\ k[p].prev = h[p].prev
  <2>1. ASSUME k[p] = [h[p] EXCEPT !.size = s, !.used = TRUE]
        PROVE  k[p] \in Header /\ k[p].size = s /\ k[p].used /\ k[p].prev = h[p].prev
    BY <1>1, <2>1 DEF Header
  <2>2. ASSUME k[p] = [h[p] EXCEPT !.size = s, !.used = FALSE]
        PROVE  k[p] \in Header /\ k[p].size = s /\ ~k[p].used /\ k[p].prev = h[p].prev
    BY <1>1, <2>2 DEF Header
  <2>3. QED
    BY <1>3, <2>1, <2>2
<1>5. ASSUME NEW q \in Addr, q # p
      PROVE  /\ k[q] \in Header /\ k[q].size = h[q].size /\ k[q].used = h[q].used
             /\ k[q].prev = IF q = p + s THEN s ELSE h[q].prev
  <2>1. CASE q = p + s
    <3>1. k[q] = [h[q] EXCEPT !.prev = s]
      BY <1>2, <1>5, <2>1
    <3>2. QED
      BY <1>1, <2>1, <3>1 DEF Header
  <2>2. CASE q # p + s
    <3>1. k[q] = h[q]
      BY <1>2, <1>5, <2>2
    <3>2. QED
      BY <1>1, <2>2, <3>1
  <2>3. QED
    BY <2>1, <2>2
<1>6. k \in [Addr -> Header]
  <2>1. \A q \in Addr : k[q] \in Header
    BY <1>4, <1>5
  <2>2. k = [q \in Addr |-> k[q]]
    BY <1>2
  <2>3. QED
    BY <2>1, <2>2
<1>7. QED
  BY <1>3, <1>4, <1>5, <1>6 DEF Wrote

\* Two neighbours made one are a block, the others stay.
Joined(h, B, k, p, n) ==
    /\ HeapSound(k, B \ {n}) /\ p # n
    /\ k[p].size = h[p].size + h[n].size /\ ~k[p].used
    /\ \A q \in B : q # p => k[q].size = h[q].size /\ (k[q].used <=> h[q].used)

LEMMA JoinKeeps ==
  ASSUME NEW h, NEW B, HeapSound(h, B), NEW p \in B, NEW n \in B, n = p + h[p].size,
         NEW k, k = Sized(h, p, h[p].size + h[n].size, FALSE)
  PROVE  Joined(h, B, k, p, n)
<1> DEFINE s == h[p].size + h[n].size
<1>1. h \in [Addr -> Header] /\ Chain(h, B) /\ Fit(h) /\ PrevExact(h, B)
  BY DEF HeapSound
<1>0. /\ HeapSize \in Nat /\ 0 \in B
      /\ \A q \in B : /\ q \in Addr /\ q \in Nat /\ q < HeapSize /\ h[q].size \in Nat /\ h[q].size >= 2
                      /\ q + h[q].size \in B \/ q + h[q].size = HeapSize
      /\ \A q, r \in B : q < r => q + h[q].size <= r
      /\ \A q, r \in B : q + h[q].size = r + h[r].size => q = r
  BY <1>1, BlockNumbers
<1>2. /\ p \in Nat /\ n \in Nat /\ h[p].size \in Nat /\ h[n].size \in Nat /\ h[p].size >= 2 /\ h[n].size >= 2
      /\ p \in Addr /\ n \in Addr /\ p < n /\ HeapSize \in Nat
  BY <1>0
<1>3. s \in Nat \ {0} /\ p + s = n + h[n].size /\ n < p + s
  BY <1>2
<1> HIDE DEF s
<1>4. k = Sized(h, p, s, FALSE)
  BY DEF s
<1>5. /\ k \in [Addr -> Header] /\ k[p].size = s /\ ~k[p].used /\ k[p].prev = h[p].prev
      /\ \A q \in Addr : q # p => /\ k[q].size = h[q].size /\ (k[q].used <=> h[q].used)
                               /\ k[q].prev = IF q = p + s THEN s ELSE h[q].prev
  <2>1. p \in Addr /\ s \in Nat \ {0} /\ h \in [Addr -> Header]
    BY <1>1, <1>2, <1>3
  <2>2. Wrote(h, k, p, s) /\ ~k[p].used
    BY <1>4, <2>1, SizedFacts
  <2>3. QED
    BY <2>1, <2>2 DEF Wrote
<1>6. \A q \in B : q # p => k[q].size = h[q].size /\ (k[q].used <=> h[q].used)
  BY <1>0, <1>5
<1>7. ASSUME NEW q \in B, q # n, q # p
      PROVE  /\ q \in Nat /\ q \in Addr /\ k[q].size = h[q].size /\ q + h[q].size # n /\ q + h[q].size # n + h[n].size
             /\ q + h[q].size \in B \/ q + h[q].size = HeapSize
             /\ h[q].size \in Nat /\ h[q].size >= 2
  <2>1. /\ q \in Nat /\ q \in Addr /\ k[q].size = h[q].size /\ h[q].size \in Nat /\ h[q].size >= 2
        /\ q + h[q].size \in B \/ q + h[q].size = HeapSize
    BY <1>0, <1>6, <1>7
  <2>2. q + h[q].size # n /\ q + h[q].size # n + h[n].size
    BY <1>0, <1>7
  <2>3. QED
    BY <2>1, <2>2
<1>8. Chain(k, B \ {n})
  <2>1. B \ {n} \subseteq Addr /\ 0 \in B \ {n}
    <3>1. 0 # n
      BY <1>2
    <3>2. B \subseteq Addr /\ 0 \in B
      BY <1>0
    <3>3. QED
      BY <3>1, <3>2
  <2>2. ASSUME NEW q \in B \ {n}
        PROVE  k[q].size >= MinBlock /\ (q + k[q].size \in B \ {n} \/ q + k[q].size = HeapSize)
    <3>1. CASE q = p
      <4>1. n + h[n].size \in B \/ n + h[n].size = HeapSize
        BY <1>0
      <4>2. n + h[n].size # n /\ s >= 2
        BY <1>2, <1>3
      <4>3. QED
        BY <1>3, <1>5, <3>1, <4>1, <4>2 DEF MinBlock
    <3>2. CASE q # p
      BY <1>7, <3>2 DEF MinBlock
    <3>3. QED
      BY <3>1, <3>2
  <2>3. ASSUME NEW q \in B \ {n}, NEW r \in B \ {n}, q < r PROVE q + k[q].size <= r
    <3>1. CASE q = p
      <4>1. n <= r /\ r # n /\ r \in Nat
        BY <1>1, <2>3, <3>1, BlockNumbers
      <4>2. n < r
        BY <1>2, <4>1
      <4>3. n + h[n].size <= r
        BY <1>1, <4>2, BlockNumbers
      <4>4. QED
        BY <1>3, <1>5, <3>1, <4>3
    <3>2. CASE q # p
      BY <1>1, <1>7, <2>3, <3>2, BlockNumbers
    <3>3. QED
      BY <3>1, <3>2
  <2>4. QED
    BY <2>1, <2>2, <2>3 DEF Chain
<1>9. Fit(k)
  <2>1. p + s <= HeapSize
    BY <1>1, <1>2, <1>3 DEF Fit
  <2>2. QED
    BY <1>1, <1>5, <2>1 DEF Fit
<1>10. PrevExact(k, B \ {n})
  <2>1. k[0].prev = 0
    <3>1. 0 \in Addr /\ 0 # p + s
      BY <1>1, <1>2, <1>3, BlockNumbers
    <3>2. QED
      BY <1>1, <1>5, <3>1 DEF PrevExact
  <2>2. ASSUME NEW q \in B \ {n}, q + k[q].size \in B \ {n} PROVE k[q + k[q].size].prev = k[q].size
    <3>1. CASE q = p
      <4>1. p + s \in Addr /\ p + s # p
        <5>1. p + s # p
          BY <1>2, <1>3
        <5>2. p + s \in B
          BY <1>5, <2>2, <3>1
        <5>3. QED
          BY <1>0, <5>1, <5>2
      <4>2. QED
        BY <1>5, <3>1, <4>1
    <3>2. CASE q # p
      <4>1. q + h[q].size \in B /\ q + h[q].size \in Addr /\ q + h[q].size # p + s
        BY <1>1, <1>3, <1>7, <2>2, <3>2 DEF Chain
      <4>2. k[q + h[q].size].prev = h[q + h[q].size].prev
        BY <1>5, <4>1
      <4>3. QED
        BY <1>1, <1>7, <3>2, <4>1, <4>2 DEF PrevExact
    <3>3. QED
      BY <3>1, <3>2
  <2>3. QED
    BY <2>1, <2>2 DEF PrevExact
<1>11. HeapSound(k, B \ {n}) /\ p # n
  <2>1. p # n
    BY <1>2
  <2>2. k \in [Addr -> Header]
    BY <1>5
  <2>3. QED
    BY <2>1, <2>2, <1>8, <1>9, <1>10 DEF HeapSound
<1>12. k[p].size = h[p].size + h[n].size
  BY <1>5 DEF s
<1>13. QED
  BY <1>5, <1>6, <1>11, <1>12 DEF Joined

\* A block cut in two is two blocks, the others stay.
CutInTwo(h, B, k, p, need, t) ==
    /\ HeapSound(k, B \union {t}) /\ t \notin B
    /\ k[p].size = need /\ k[p].used /\ k[t].size = h[p].size - need /\ ~k[t].used
    /\ \A q \in B : q # p => k[q].size = h[q].size /\ (k[q].used <=> h[q].used)

LEMMA CutKeeps ==
  ASSUME NEW h, NEW B, HeapSound(h, B), NEW p \in B, NEW need \in Nat, need >= 2, h[p].size - need >= 2,
         NEW t, t = p + need,
         NEW k, k = Sized(Sized(h, p, need, TRUE), t, h[p].size - need, FALSE)
  PROVE  CutInTwo(h, B, k, p, need, t)
<1> DEFINE left == h[p].size - need
<1> DEFINE g == Sized(h, p, need, TRUE)
<1>1. h \in [Addr -> Header] /\ Chain(h, B) /\ Fit(h) /\ PrevExact(h, B)
  BY DEF HeapSound
<1>0. /\ HeapSize \in Nat /\ 0 \in B
      /\ \A q \in B : /\ q \in Addr /\ q \in Nat /\ q < HeapSize /\ h[q].size \in Nat /\ h[q].size >= 2
                      /\ q + h[q].size \in B \/ q + h[q].size = HeapSize
      /\ \A q, r \in B : q < r => q + h[q].size <= r
      /\ \A q, r \in B : q + h[q].size = r + h[r].size => q = r
  BY <1>1, BlockNumbers
<1>2. /\ p \in Nat /\ p \in Addr /\ h[p].size \in Nat /\ HeapSize \in Nat /\ p + h[p].size <= HeapSize
  BY <1>0, <1>1 DEF Fit
<1>3. /\ left \in Nat \ {0} /\ need \in Nat \ {0} /\ t \in Nat /\ t \in Addr /\ p < t
      /\ t + left = p + h[p].size /\ t < p + h[p].size
  BY <1>2 DEF Addr
<1> HIDE DEF left, g
<1>4. k = Sized(g, t, left, FALSE)
  BY DEF left, g
<1>5. /\ g \in [Addr -> Header] /\ g[p].size = need /\ g[p].used /\ g[p].prev = h[p].prev
      /\ \A q \in Addr : q # p => /\ g[q].size = h[q].size /\ (g[q].used <=> h[q].used)
                               /\ g[q].prev = IF q = p + need THEN need ELSE h[q].prev
  <2>1. p \in Addr /\ need \in Nat \ {0} /\ h \in [Addr -> Header] /\ g = Sized(h, p, need, TRUE)
    BY <1>1, <1>2, <1>3 DEF g
  <2>2. Wrote(h, g, p, need) /\ g[p].used
    BY <1>3, <2>1, SizedFacts
  <2>3. QED
    BY <2>1, <2>2 DEF Wrote
<1>6. /\ k \in [Addr -> Header] /\ k[t].size = left /\ ~k[t].used /\ k[t].prev = g[t].prev
      /\ \A q \in Addr : q # t => /\ k[q].size = g[q].size /\ (k[q].used <=> g[q].used)
                               /\ k[q].prev = IF q = t + left THEN left ELSE g[q].prev
  <2>1. t \in Addr /\ left \in Nat \ {0} /\ g \in [Addr -> Header]
    BY <1>3, <1>5
  <2>2. Wrote(g, k, t, left) /\ ~k[t].used
    BY <1>4, <2>1, SizedFacts
  <2>3. QED
    BY <2>1, <2>2 DEF Wrote
<1>7. t \notin B
  BY <1>0, <1>2, <1>3
<1>8. /\ k[p].size = need /\ k[p].used /\ k[p].prev = h[p].prev
      /\ k[t].size = left /\ ~k[t].used /\ k[t].prev = need
  <2>1. p # t /\ p # t + left
    BY <1>2, <1>3
  <2>2. /\ k[p].size = g[p].size /\ (k[p].used <=> g[p].used) /\ k[p].prev = g[p].prev
    BY <1>2, <1>6, <2>1
  <2>3. g[t].prev = need
    BY <1>3, <1>5, <2>1
  <2>4. k[p].size = need /\ k[p].prev = h[p].prev
    BY <1>5, <2>2
  <2>5. k[p].used
    BY <1>5, <2>2
  <2>6. k[t].size = left /\ ~k[t].used /\ k[t].prev = need
    BY <1>6, <2>3
  <2>7. QED
    BY <2>4, <2>5, <2>6
<1>9. ASSUME NEW q \in B, q # p
      PROVE  /\ q \in Nat /\ q \in Addr /\ q # t /\ k[q].size = h[q].size /\ (k[q].used <=> h[q].used)
             /\ q + h[q].size # t /\ q + h[q].size # t + left
             /\ q + h[q].size \in B \/ q + h[q].size = HeapSize
             /\ h[q].size \in Nat /\ h[q].size >= 2
  <2>1. /\ q \in Nat /\ q \in Addr /\ q + h[q].size # p + h[p].size /\ h[q].size \in Nat /\ h[q].size >= 2
        /\ q + h[q].size \in B \/ q + h[q].size = HeapSize
    BY <1>0, <1>9
  <2>2. q # t /\ q + h[q].size # t
    BY <1>0, <1>2, <1>3, <1>7, <2>1
  <2>3. k[q].size = h[q].size /\ (k[q].used <=> h[q].used)
    <3>1. k[q].size = g[q].size /\ (k[q].used <=> g[q].used)
      BY <1>6, <2>1, <2>2
    <3>2. g[q].size = h[q].size /\ (g[q].used <=> h[q].used)
      BY <1>5, <1>9, <2>1
    <3>3. QED
      BY <3>1, <3>2
  <2>4. QED
    BY <1>3, <2>1, <2>2, <2>3
<1>10. ASSUME NEW q \in Addr, q # t, q # p, q # t + left PROVE k[q].prev = h[q].prev
  <2>1. k[q].prev = g[q].prev
    BY <1>6, <1>10
  <2>2. g[q].prev = h[q].prev
    BY <1>5, <1>10
  <2>3. QED
    BY <2>1, <2>2
<1>11. Chain(k, B \union {t})
  <2>1. B \union {t} \subseteq Addr /\ 0 \in B \union {t}
    BY <1>1, <1>3 DEF Chain
  <2>2. ASSUME NEW q \in B \union {t}
        PROVE  k[q].size >= MinBlock /\ (q + k[q].size \in B \union {t} \/ q + k[q].size = HeapSize)
    <3>1. CASE q = p
      BY <1>8, <3>1 DEF MinBlock
    <3>2. CASE q = t
      <4>1. p + h[p].size \in B \/ p + h[p].size = HeapSize
        BY <1>0
      <4>2. left >= 2
        BY DEF left
      <4>3. q + k[q].size = p + h[p].size /\ k[q].size = left
        BY <1>3, <1>8, <3>2
      <4>4. k[q].size >= MinBlock
        BY <4>2, <4>3 DEF MinBlock
      <4>5. QED
        BY <4>1, <4>3, <4>4
    <3>3. CASE q # p /\ q # t
      BY <1>9, <3>3 DEF MinBlock
    <3>4. QED
      BY <3>1, <3>2, <3>3
  <2>3. ASSUME NEW q \in B \union {t}, NEW r \in B \union {t}, q < r PROVE q + k[q].size <= r
    <3>1. \A x, y \in B : x < y => x + h[x].size <= y
      BY <1>0
    <3>2. \A x \in B : x \in Nat
      BY <1>0
    <3>3. CASE q = p
      <4>1. r = t \/ (r \in B /\ p + h[p].size <= r)
        BY <2>3, <3>1, <3>3
      <4>2. q + k[q].size = t
        BY <1>8, <3>3
      <4>3. t < p + h[p].size /\ t \in Nat /\ p + h[p].size \in Nat
        BY <1>2, <1>3
      <4>4. t <= r
        BY <3>2, <4>1, <4>3
      <4>5. QED
        BY <4>2, <4>4
    <3>4. CASE q = t
      <4>1. r \in B /\ p < r
        <5>1. r \in B
          BY <1>3, <2>3, <3>4
        <5>2. r \in Nat /\ p < t /\ t < r
          BY <1>3, <2>3, <3>2, <3>4, <5>1
        <5>3. QED
          BY <1>2, <1>3, <5>1, <5>2
      <4>2. p + h[p].size <= r
        BY <3>1, <4>1
      <4>3. QED
        BY <1>3, <1>8, <3>4, <4>2
    <3>5. CASE q # p /\ q # t
      <4>1. q \in B /\ q \in Nat /\ k[q].size = h[q].size /\ h[q].size \in Nat
        BY <1>9, <3>5
      <4>2. CASE r = t
        <5>1. q < p \/ p < q
          BY <1>2, <3>5, <4>1
        <5>2. CASE p < q
          <6>1. p + h[p].size <= q
            BY <3>1, <4>1, <5>2
          <6>2. QED
            <7>1. q < t /\ t < p + h[p].size
              BY <1>3, <2>3, <4>2
            <7>2. p + h[p].size \in Nat /\ t \in Nat
              BY <1>2, <1>3
            <7>3. QED
              BY <4>1, <6>1, <7>1, <7>2
        <5>3. CASE q < p
          <6>1. q + h[q].size <= p
            BY <3>1, <4>1, <5>3
          <6>2. p < t /\ p \in Nat /\ t \in Nat
            BY <1>2, <1>3
          <6>3. q + h[q].size <= t
            BY <4>1, <6>1, <6>2
          <6>4. QED
            BY <4>1, <4>2, <6>3
        <5>4. QED
          BY <5>1, <5>2, <5>3
      <4>3. CASE r \in B
        BY <2>3, <3>1, <4>1, <4>3
      <4>4. QED
        BY <4>2, <4>3
    <3>6. QED
      BY <3>3, <3>4, <3>5
  <2>4. QED
    BY <2>1, <2>2, <2>3 DEF Chain
<1>12. Fit(k)
  <2>1. p + need <= HeapSize /\ t + left <= HeapSize
    BY <1>2, <1>3
  <2>2. ASSUME NEW q \in Addr, q # p, q # t PROVE q + k[q].size <= HeapSize
    <3>1. k[q].size = g[q].size
      BY <1>6, <2>2
    <3>2. g[q].size = h[q].size
      BY <1>5, <2>2
    <3>3. QED
      BY <1>1, <3>1, <3>2 DEF Fit
  <2>3. QED
    BY <1>8, <2>1, <2>2 DEF Fit
<1>13. PrevExact(k, B \union {t})
  <2>1. k[0].prev = 0
    <3>1. 0 \in Addr /\ 0 # t /\ 0 # t + left
      BY <1>1, <1>2, <1>3, BlockNumbers
    <3>2. QED
      BY <1>1, <1>8, <1>10, <3>1 DEF PrevExact
  <2>2. ASSUME NEW q \in B \union {t}, q + k[q].size \in B \union {t} PROVE k[q + k[q].size].prev = k[q].size
    <3>1. CASE q = p
      BY <1>8, <3>1
    <3>2. CASE q = t
      <4>1. t + left \in B \union {t} /\ t + left # t
        <5>1. t + left # t
          BY <1>3
        <5>2. k[t].size = left
          BY <1>8
        <5>3. QED
          BY <2>2, <3>2, <5>1, <5>2
      <4>2. t + left \in Addr
        BY <1>1, <4>1 DEF Chain
      <4>3. q + k[q].size = t + left /\ k[q].size = left
        BY <1>8, <3>2
      <4>4. k[t + left].prev = left
        BY <1>6, <4>1, <4>2
      <4>5. QED
        BY <4>3, <4>4
    <3>3. CASE q # p /\ q # t
      <4>1. q + k[q].size = q + h[q].size /\ q + h[q].size \in B /\ q + h[q].size # t + left /\ q + h[q].size # t
        BY <1>9, <2>2, <3>3
      <4>2. q + h[q].size \in Addr
        BY <1>1, <4>1 DEF Chain
      <4>3. k[q + h[q].size].prev = h[q + h[q].size].prev
        BY <1>8, <1>10, <4>1, <4>2
      <4>4. QED
        BY <1>1, <1>9, <3>3, <4>1, <4>3 DEF PrevExact
    <3>4. QED
      BY <3>1, <3>2, <3>3
  <2>3. QED
    BY <2>1, <2>2 DEF PrevExact
<1>14. QED
  <2>1. HeapSound(k, B \union {t})
    BY <1>6, <1>11, <1>12, <1>13 DEF HeapSound
  <2>2. \A q \in B : q # p => k[q].size = h[q].size /\ (k[q].used <=> h[q].used)
    BY <1>9
  <2>3. k[t].size = h[p].size - need
    BY <1>8 DEF left
  <2>4. QED
    BY <1>7, <1>8, <2>1, <2>2, <2>3 DEF CutInTwo

\* Sizes and prev_size alone say which blocks there are.
Marked(h, B, k, p) ==
    /\ HeapSound(k, B)
    /\ \A q \in B : k[q].size = h[q].size /\ (q # p => (k[q].used <=> h[q].used))

LEMMA MarkKeeps ==
  ASSUME NEW h, NEW B, HeapSound(h, B), NEW p \in B, NEW k,
         k = [h EXCEPT ![p].used = TRUE] \/ k = [h EXCEPT ![p].used = FALSE]
  PROVE  /\ Marked(h, B, k, p)
         /\ k = [h EXCEPT ![p].used = TRUE] => k[p].used
         /\ k = [h EXCEPT ![p].used = FALSE] => ~k[p].used
<1>1. h \in [Addr -> Header] /\ Chain(h, B) /\ Fit(h) /\ PrevExact(h, B)
  BY DEF HeapSound
<1>2. p \in Addr /\ B \subseteq Addr /\ 0 \in B
  BY <1>1 DEF Chain
<1>3. k \in [Addr -> Header]
  <2>1. CASE k = [h EXCEPT ![p].used = TRUE]
    BY <1>1, <1>2, <2>1 DEF Header
  <2>2. CASE k = [h EXCEPT ![p].used = FALSE]
    BY <1>1, <1>2, <2>2 DEF Header
  <2>3. QED
    BY <2>1, <2>2
<1>4. ASSUME NEW q \in Addr
      PROVE  /\ k[q].size = h[q].size /\ k[q].prev = h[q].prev /\ (q # p => (k[q].used <=> h[q].used))
             /\ k = [h EXCEPT ![p].used = TRUE] => k[p].used
             /\ k = [h EXCEPT ![p].used = FALSE] => ~k[p].used
  <2>1. CASE k = [h EXCEPT ![p].used = TRUE]
    BY <1>1, <1>2, <2>1 DEF Header
  <2>2. CASE k = [h EXCEPT ![p].used = FALSE]
    BY <1>1, <1>2, <2>2 DEF Header
  <2>3. QED
    BY <2>1, <2>2
<1>5. \A q \in Addr : k[q].size = h[q].size /\ k[q].prev = h[q].prev
  BY <1>4
<1>6. \A q \in B : k[q].size = h[q].size
  BY <1>2, <1>5
<1>7. Chain(k, B)
  BY <1>1, <1>6 DEF Chain
<1>8. Fit(k)
  BY <1>1, <1>5 DEF Fit
<1>9. PrevExact(k, B)
  <2>1. k[0].prev = 0
    BY <1>1, <1>2, <1>5 DEF PrevExact
  <2>2. ASSUME NEW q \in B, q + k[q].size \in B PROVE k[q + k[q].size].prev = k[q].size
    <3>1. q + h[q].size \in B /\ k[q].size = h[q].size
      BY <1>6, <2>2
    <3>2. k[q + h[q].size].prev = h[q + h[q].size].prev
      BY <1>2, <1>5, <3>1
    <3>3. QED
      BY <1>1, <3>1, <3>2 DEF PrevExact
  <2>3. QED
    BY <2>1, <2>2 DEF PrevExact
<1>10. HeapSound(k, B)
  BY <1>3, <1>7, <1>8, <1>9 DEF HeapSound
<1>11. QED
  BY <1>2, <1>4, <1>10 DEF Marked

\* What is held grows and shrinks with the mark.
LEMMA HeldMore ==
  ASSUME NEW h, NEW B, NEW k, NEW D, NEW p \in D, k[p].used,
         \A q \in B : h[q].used => q \in D /\ k[q].used /\ k[q].size = h[q].size,
         \A q \in D : k[q].used /\ q # p => q \in B /\ h[q].used
  PROVE  Held(k, D) = Held(h, B) \union {[at |-> p, size |-> k[p].size]}
<1>1. ASSUME NEW b \in Held(k, D) PROVE b \in Held(h, B) \union {[at |-> p, size |-> k[p].size]}
  <2>1. PICK q \in D : k[q].used /\ b = [at |-> q, size |-> k[q].size]
    BY DEF Held
  <2>2. CASE q = p
    BY <2>1, <2>2
  <2>3. CASE q # p
    <3>1. q \in B /\ h[q].used /\ k[q].size = h[q].size
      BY <2>1, <2>3
    <3>2. QED
      BY <2>1, <3>1 DEF Held
  <2>4. QED
    BY <2>2, <2>3
<1>2. ASSUME NEW b \in Held(h, B) PROVE b \in Held(k, D)
  <2>1. PICK q \in B : h[q].used /\ b = [at |-> q, size |-> h[q].size]
    BY DEF Held
  <2>2. q \in D /\ k[q].used /\ k[q].size = h[q].size
    BY <2>1
  <2>3. QED
    BY <2>1, <2>2 DEF Held
<1>3. [at |-> p, size |-> k[p].size] \in Held(k, D)
  BY DEF Held
<1>4. QED
  BY <1>1, <1>2, <1>3

LEMMA HeldLess ==
  ASSUME NEW h, NEW B, NEW k, NEW D, NEW p \in B,
         \A q \in B : h[q].used /\ q # p => q \in D /\ k[q].used /\ k[q].size = h[q].size,
         \A q \in D : k[q].used => q \in B /\ h[q].used /\ q # p
  PROVE  Held(k, D) = Held(h, B) \ {[at |-> p, size |-> h[p].size]}
<1>1. ASSUME NEW b \in Held(k, D) PROVE b \in Held(h, B) \ {[at |-> p, size |-> h[p].size]}
  <2>1. PICK q \in D : k[q].used /\ b = [at |-> q, size |-> k[q].size]
    BY DEF Held
  <2>2. q \in B /\ h[q].used /\ q # p /\ k[q].size = h[q].size
    BY <2>1
  <2>3. b = [at |-> q, size |-> h[q].size] /\ b.at # p
    BY <2>1, <2>2
  <2>4. b # [at |-> p, size |-> h[p].size]
    BY <2>3
  <2>5. QED
    BY <2>2, <2>3, <2>4 DEF Held
<1>2. ASSUME NEW b \in Held(h, B), b # [at |-> p, size |-> h[p].size] PROVE b \in Held(k, D)
  <2>1. PICK q \in B : h[q].used /\ b = [at |-> q, size |-> h[q].size]
    BY DEF Held
  <2>2. q \in D /\ k[q].used /\ k[q].size = h[q].size
    BY <1>2, <2>1
  <2>3. QED
    BY <2>1, <2>2 DEF Held
<1>3. QED
  BY <1>1, <1>2

\* A chain that fits the tags is the one the walk finds.
LEMMA TagInvFrom ==
  ASSUME NEW D, HeapSound(tag', D), Apart(tag', D, {}), kheld' = Held(tag', D)
  PROVE  TagInv'
<1>1. tag' \in [Addr -> Header] /\ Fit(tag') /\ Chain(tag', D)
  BY DEF HeapSound
<1>2. BlocksOf(tag') = D
  BY <1>1, BlocksAre
<1>3. QED
  BY <1>2 DEF TagInv

LEMMA KmallocKeeps == ASSUME TagInv, NEW need \in Wants, Kmalloc(need) PROVE TagInv'
<1> DEFINE B == BlocksOf(tag)
<1> DEFINE fits == {p \in B : ~tag[p].used /\ tag[p].size >= need}
<1>1. HeapSound(tag, B) /\ Apart(tag, B, {}) /\ kheld = Held(tag, B)
  BY DEF TagInv
<1>2. need \in Nat /\ need >= 2
  BY HeapsAssumption DEF HeapsAssumption, MinBlock
<1> HIDE DEF B
<1>3. /\ tag \in [Addr -> Header] /\ Chain(tag, B) /\ HeapSize \in Nat /\ 0 \in B
      /\ \A p \in B : /\ p \in Addr /\ p \in Nat /\ p < HeapSize /\ tag[p].size \in Nat /\ tag[p].size >= 2
                      /\ p + tag[p].size \in B \/ p + tag[p].size = HeapSize
  BY <1>1, BlockNumbers DEF HeapSound
<1>4. PICK p \in fits : tag' = Split(tag, p, need) /\ kheld' = kheld \union {[at |-> p, size |-> tag'[p].size]}
  <2>1. fits # {} /\ tag' = Split(tag, Min(fits), need)
        /\ kheld' = kheld \union {[at |-> Min(fits), size |-> tag'[Min(fits)].size]}
    BY DEF Kmalloc, Min, B
  <2>2. fits \in SUBSET Nat /\ IsFiniteSet(fits)
    <3>1. fits \in SUBSET (0 .. HeapSize)
      BY <1>3
    <3>2. IsFiniteSet(0 .. HeapSize)
      BY <1>3, FS_Interval
    <3> HIDE DEF fits
    <3>3. IsFiniteSet(fits)
      BY <3>1, <3>2, FS_Subset
    <3>4. QED
      BY <1>3, <3>1, <3>3
  <2> HIDE DEF fits
  <2>3. Min(fits) \in fits
    BY <2>1, <2>2, LeastExists
  <2>4. QED
    BY <2>1, <2>3
<1>5. p \in B /\ ~tag[p].used /\ tag[p].size >= need
  OBVIOUS
<1>6. CASE tag[p].size - need >= 2
  <2>1. PICK t : t = p + need
    OBVIOUS
  <2>2. tag' = Sized(Sized(tag, p, need, TRUE), t, tag[p].size - need, FALSE)
    BY <1>4, <1>6, <2>1 DEF Split, MinBlock
  <2>3. /\ HeapSound(tag', B \union {t}) /\ t \notin B
        /\ tag'[p].size = need /\ tag'[p].used /\ tag'[t].size = tag[p].size - need /\ ~tag'[t].used
        /\ \A q \in B : q # p => tag'[q].size = tag[q].size /\ (tag'[q].used <=> tag[q].used)
    <3>1. CutInTwo(tag, B, tag', p, need, t)
      BY <1>1, <1>2, <1>5, <1>6, <2>1, <2>2, CutKeeps
    <3>2. QED
      BY <3>1 DEF CutInTwo
  <2>4. t \in Addr /\ t \in Nat /\ t < HeapSize
    <3>1. t \in Addr
      BY <2>3 DEF HeapSound, Chain
    <3>2. QED
      BY <1>3, <3>1 DEF Addr
  <2>5. Apart(tag', B \union {t}, {})
    <3>1. SUFFICES ASSUME NEW q \in B \union {t}, NEW m \in B \union {t}, m = q + tag'[q].size
                   PROVE  tag'[q].used \/ tag'[m].used
      BY DEF Apart
    <3>2. CASE q = p
      BY <2>3, <3>2
    <3>3. CASE q = t
      <4>1. m = p + tag[p].size /\ m # t /\ m # p
        BY <1>2, <1>3, <1>5, <1>6, <2>1, <2>3, <3>1, <3>3
      <4>2. m \in B /\ tag[m].used
        BY <1>1, <1>5, <3>1, <4>1 DEF Apart
      <4>3. QED
        BY <2>3, <4>1, <4>2
    <3>4. CASE q # p /\ q # t
      <4>1. q \in B /\ m = q + tag[q].size
        BY <2>3, <3>1, <3>4
      <4>2. m \in B
        <5>1. m \in B \/ m = HeapSize
          BY <1>3, <4>1
        <5>2. m # HeapSize
          BY <1>3, <2>4, <3>1
        <5>3. QED
          BY <5>1, <5>2
      <4>3. tag[q].used \/ tag[m].used
        BY <1>1, <4>1, <4>2 DEF Apart
      <4>4. QED
        BY <1>5, <2>3, <3>4, <4>1, <4>2, <4>3
    <3>5. QED
      BY <3>2, <3>3, <3>4
  <2>6. kheld' = Held(tag', B \union {t})
    <3>1. \A q \in B : tag[q].used => q \in B \union {t} /\ tag'[q].used /\ tag'[q].size = tag[q].size
      BY <1>5, <2>3
    <3>2. \A q \in B \union {t} : tag'[q].used /\ q # p => q \in B /\ tag[q].used
      BY <2>3
    <3>3. p \in B \union {t}
      BY <1>5
    <3>4. QED
      BY <1>1, <1>4, <2>3, <3>1, <3>2, <3>3, HeldMore
  <2>7. QED
    BY <2>3, <2>5, <2>6, TagInvFrom
<1>7. CASE ~(tag[p].size - need >= 2)
  <2>1. tag' = [tag EXCEPT ![p].used = TRUE]
    BY <1>4, <1>7 DEF Split, MinBlock
  <2>2. /\ HeapSound(tag', B) /\ tag'[p].used
        /\ \A q \in B : tag'[q].size = tag[q].size /\ (q # p => (tag'[q].used <=> tag[q].used))
    <3>1. Marked(tag, B, tag', p) /\ tag'[p].used
      BY <1>1, <1>5, <2>1, MarkKeeps
    <3>2. QED
      BY <3>1 DEF Marked
  <2>3. Apart(tag', B, {})
    BY <1>1, <2>2 DEF Apart
  <2>4. kheld' = Held(tag', B)
    <3>1. \A q \in B : tag[q].used => q \in B /\ tag'[q].used /\ tag'[q].size = tag[q].size
      BY <1>5, <2>2
    <3>2. \A q \in B : tag'[q].used /\ q # p => q \in B /\ tag[q].used
      BY <2>2
    <3>3. QED
      BY <1>1, <1>4, <1>5, <2>2, <3>1, <3>2, HeldMore
  <2>5. QED
    BY <2>2, <2>3, <2>4, TagInvFrom
<1>8. QED
  BY <1>6, <1>7

\* The blocks in use are the same, and as large.
SameUsed(h, B, k, D) ==
    /\ \A q \in B : h[q].used => q \in D /\ k[q].used /\ k[q].size = h[q].size
    /\ \A q \in D : k[q].used => q \in B /\ h[q].used

NextInUse(h, B, p) == p + h[p].size \in B => h[p + h[p].size].used

LEMMA MergeNextKeeps ==
  ASSUME NEW h, NEW B, HeapSound(h, B), NEW p \in B, ~h[p].used, Apart(h, B, {p}), NEW k, k = MergeNext(h, p)
  PROVE  \E D : /\ HeapSound(k, D) /\ p \in D /\ ~k[p].used
                /\ Apart(k, D, {p}) /\ NextInUse(k, D, p) /\ SameUsed(h, B, k, D)
<1>1. h \in [Addr -> Header] /\ Chain(h, B)
  BY DEF HeapSound
<1>2. /\ HeapSize \in Nat
      /\ \A q \in B : /\ q \in Nat /\ q < HeapSize /\ h[q].size \in Nat /\ h[q].size >= 2
                      /\ q + h[q].size \in B \/ q + h[q].size = HeapSize
  BY <1>1, BlockNumbers
<1>3. PICK n : n = p + h[p].size
  OBVIOUS
<1>4. n < HeapSize <=> n \in B
  BY <1>2, <1>3
<1>5. CASE n \in B /\ ~h[n].used
  <2>1. k = Sized(h, p, h[p].size + h[n].size, FALSE)
    BY <1>3, <1>4, <1>5 DEF MergeNext
  <2>2. Joined(h, B, k, p, n)
    BY <1>3, <1>5, <2>1, JoinKeeps
  <2>3. /\ HeapSound(k, B \ {n}) /\ p # n
        /\ k[p].size = h[p].size + h[n].size /\ ~k[p].used
        /\ \A q \in B : q # p => k[q].size = h[q].size /\ (k[q].used <=> h[q].used)
    BY <2>2 DEF Joined
  <2>4. p + k[p].size = n + h[n].size
    BY <1>2, <1>3, <1>5, <2>3
  <2>5. NextInUse(k, B \ {n}, p)
    <3>1. SUFFICES ASSUME n + h[n].size \in B PROVE k[n + h[n].size].used
      BY <2>4 DEF NextInUse
    <3>2. n + h[n].size # p /\ n # p
      BY <1>2, <1>3, <1>5
    <3>3. h[n + h[n].size].used
      BY <1>5, <3>1, <3>2 DEF Apart
    <3>4. QED
      BY <2>3, <3>1, <3>2, <3>3
  <2>6. Apart(k, B \ {n}, {p})
    <3>1. SUFFICES ASSUME NEW q \in B, q # p, NEW m \in B, m # p, m = q + k[q].size PROVE k[q].used \/ k[m].used
      BY DEF Apart
    <3>2. m = q + h[q].size /\ (k[q].used <=> h[q].used) /\ (k[m].used <=> h[m].used)
      BY <2>3, <3>1
    <3>3. h[q].used \/ h[m].used
      BY <3>1, <3>2 DEF Apart
    <3>4. QED
      BY <3>2, <3>3
  <2>7. SameUsed(h, B, k, B \ {n})
    BY <1>5, <2>3 DEF SameUsed
  <2>8. p \in B \ {n}
    BY <2>3
  <2>9. QED
    BY <2>3, <2>5, <2>6, <2>7, <2>8
<1>6. CASE ~(n \in B /\ ~h[n].used)
  <2>1. k = h
    BY <1>3, <1>4, <1>6 DEF MergeNext
  <2>2. NextInUse(h, B, p) /\ SameUsed(h, B, h, B)
    BY <1>3, <1>6 DEF NextInUse, SameUsed
  <2>3. QED
    BY <2>1, <2>2
<1>7. QED
  BY <1>5, <1>6

LEMMA MergePrevKeeps ==
  ASSUME NEW h, NEW B, HeapSound(h, B), NEW p \in B, ~h[p].used, Apart(h, B, {p}), NextInUse(h, B, p),
         NEW k, k = MergePrev(h, p)
  PROVE  \E D : HeapSound(k, D) /\ Apart(k, D, {}) /\ SameUsed(h, B, k, D)
<1>1. h \in [Addr -> Header] /\ Chain(h, B) /\ PrevExact(h, B)
  BY DEF HeapSound
<1>2. /\ HeapSize \in Nat
      /\ \A q \in B : /\ q \in Nat /\ q < HeapSize /\ h[q].size \in Nat /\ h[q].size >= 2
                      /\ q + h[q].size \in B \/ q + h[q].size = HeapSize
      /\ \A q, r \in B : q + h[q].size = r + h[r].size => q = r
  BY <1>1, BlockNumbers
<1>3. CASE p = 0
  <2>1. k = h
    BY <1>1, <1>3 DEF MergePrev, PrevExact
  <2>2. Apart(h, B, {})
    <3>1. SUFFICES ASSUME NEW q \in B, NEW m \in B, m = q + h[q].size PROVE h[q].used \/ h[m].used
      BY DEF Apart
    <3>2. m # p
      BY <1>2, <1>3, <3>1
    <3>3. QED
      BY <3>1, <3>2 DEF Apart, NextInUse
  <2>3. SameUsed(h, B, h, B)
    BY DEF SameUsed
  <2>4. QED
    BY <2>1, <2>2, <2>3
<1>4. CASE p # 0
  <2>1. PICK b \in B : b + h[b].size = p
    BY <1>1, <1>4, BlockBefore
  <2>2. h[p].prev = h[b].size
    BY <1>1, <2>1 DEF PrevExact
  <2>3. h[p].prev # 0 /\ p - h[p].prev = b /\ b # p
    BY <1>2, <2>1, <2>2
  <2>4. k = IF ~h[b].used THEN Sized(h, b, h[b].size + h[p].size, FALSE) ELSE h
    BY <2>3 DEF MergePrev
  <2>5. CASE h[b].used
    <3>1. k = h
      BY <2>4, <2>5
    <3>2. Apart(h, B, {})
      <4>1. SUFFICES ASSUME NEW q \in B, NEW m \in B, m = q + h[q].size PROVE h[q].used \/ h[m].used
        BY DEF Apart
      <4>2. CASE m = p
        <5>1. q = b
          BY <1>2, <2>1, <4>1, <4>2
        <5>2. QED
          BY <2>5, <5>1
      <4>3. CASE m # p
        BY <4>1, <4>3 DEF Apart, NextInUse
      <4>4. QED
        BY <4>2, <4>3
    <3>3. SameUsed(h, B, h, B)
      BY DEF SameUsed
    <3>4. QED
      BY <3>1, <3>2, <3>3
  <2>6. CASE ~h[b].used
    <3>1. Joined(h, B, k, b, p)
      BY <2>1, <2>4, <2>6, JoinKeeps
    <3>2. /\ HeapSound(k, B \ {p})
          /\ k[b].size = h[b].size + h[p].size /\ ~k[b].used
          /\ \A q \in B : q # b => k[q].size = h[q].size /\ (k[q].used <=> h[q].used)
      BY <3>1 DEF Joined
    <3>3. b + k[b].size = p + h[p].size
      BY <1>2, <2>1, <3>2
    <3>4. Apart(k, B \ {p}, {})
      <4>1. SUFFICES ASSUME NEW q \in B, q # p, NEW m \in B, m # p, m = q + k[q].size PROVE k[q].used \/ k[m].used
        BY DEF Apart
      <4>2. CASE q = b
        <5>1. m = p + h[p].size /\ m # b
          BY <1>2, <2>1, <3>3, <4>1, <4>2
        <5>2. h[m].used
          BY <4>1, <5>1 DEF NextInUse
        <5>3. QED
          BY <3>2, <5>1, <5>2
      <4>3. CASE q # b
        <5>1. m = q + h[q].size /\ (k[q].used <=> h[q].used)
          BY <3>2, <4>1, <4>3
        <5>2. h[q].used \/ h[m].used
          BY <4>1, <5>1 DEF Apart
        <5>3. CASE m = b
          BY <2>6, <5>1, <5>2, <5>3
        <5>4. CASE m # b
          BY <3>2, <4>1, <5>1, <5>2, <5>4
        <5>5. QED
          BY <5>3, <5>4
      <4>4. QED
        BY <4>2, <4>3
    <3>5. SameUsed(h, B, k, B \ {p})
      BY <2>6, <3>2 DEF SameUsed
    <3>6. QED
      BY <3>2, <3>4, <3>5
  <2>7. QED
    BY <2>5, <2>6
<1>5. QED
  BY <1>3, <1>4

LEMMA KfreeKeeps == ASSUME TagInv, NEW b \in kheld, Kfree(b) PROVE TagInv'
<1> DEFINE B == BlocksOf(tag)
<1>1. HeapSound(tag, B) /\ Apart(tag, B, {}) /\ kheld = Held(tag, B)
  BY DEF TagInv
<1> HIDE DEF B
<1>2. PICK p \in B : tag[p].used /\ b = [at |-> p, size |-> tag[p].size]
  BY <1>1 DEF Held
<1>3. b.at = p
  BY <1>2
<1>4. PICK g : g = [tag EXCEPT ![p].used = FALSE]
  OBVIOUS
<1>5. PICK h : h = MergeNext(g, p)
  OBVIOUS
<1>6. tag' = MergePrev(h, p) /\ kheld' = kheld \ {b}
  BY <1>3, <1>4, <1>5 DEF Kfree
<1>7. Marked(tag, B, g, p) /\ ~g[p].used
  BY <1>1, <1>4, MarkKeeps
<1>8. HeapSound(g, B) /\ \A q \in B : g[q].size = tag[q].size /\ (q # p => (g[q].used <=> tag[q].used))
  BY <1>7 DEF Marked
<1>9. Apart(g, B, {p})
  BY <1>1, <1>8 DEF Apart
<1>10. PICK C : /\ HeapSound(h, C) /\ p \in C /\ ~h[p].used
                /\ Apart(h, C, {p}) /\ NextInUse(h, C, p) /\ SameUsed(g, B, h, C)
  BY <1>5, <1>7, <1>8, <1>9, MergeNextKeeps
<1>11. PICK D : HeapSound(tag', D) /\ Apart(tag', D, {}) /\ SameUsed(h, C, tag', D)
  BY <1>6, <1>10, MergePrevKeeps
<1>12. kheld' = Held(tag', D)
  <2>1. ASSUME NEW q \in B, tag[q].used, q # p PROVE q \in D /\ tag'[q].used /\ tag'[q].size = tag[q].size
    <3>1. g[q].used /\ g[q].size = tag[q].size
      BY <1>8, <2>1
    <3>2. q \in C /\ h[q].used /\ h[q].size = g[q].size
      BY <1>10, <3>1 DEF SameUsed
    <3>3. QED
      BY <1>11, <3>1, <3>2 DEF SameUsed
  <2>2. ASSUME NEW q \in D, tag'[q].used PROVE q \in B /\ tag[q].used /\ q # p
    <3>1. q \in C /\ h[q].used
      BY <1>11, <2>2 DEF SameUsed
    <3>2. q \in B /\ g[q].used
      BY <1>10, <3>1 DEF SameUsed
    <3>3. QED
      BY <1>7, <1>8, <3>2
  <2>3. Held(tag', D) = Held(tag, B) \ {[at |-> p, size |-> tag[p].size]}
    BY <2>1, <2>2, HeldLess
  <2>4. QED
    BY <1>1, <1>2, <1>6, <2>3
<1>13. QED
  BY <1>11, <1>12, TagInvFrom

LEMMA TagStarts == HeapsInit => TagInv
<1> SUFFICES ASSUME HeapsInit PROVE TagInv
  OBVIOUS
<1>1. HeapSize \in Nat /\ HeapSize >= 2
  BY HeapsAssumption DEF HeapsAssumption, MinBlock
<1>2. /\ tag \in [Addr -> Header] /\ 0 \in Addr /\ tag[0].size = HeapSize /\ ~tag[0].used /\ tag[0].prev = 0
      /\ \A q \in Addr : q # 0 => tag[q].size = 0
  <2>1. 0 \in Addr
    BY <1>1 DEF Addr
  <2>2. tag = [q \in Addr |-> IF q = 0 THEN [size |-> HeapSize, used |-> FALSE, prev |-> 0]
                            ELSE [size |-> 0, used |-> FALSE, prev |-> 0]]
    BY DEF HeapsInit, Addr
  <2>3. QED
    BY <1>1, <2>1, <2>2 DEF Header
<1>3. Chain(tag, {0})
  BY <1>1, <1>2 DEF Chain, MinBlock
<1>4. Fit(tag)
  BY <1>1, <1>2 DEF Fit, Addr
<1>5. PrevExact(tag, {0}) /\ Apart(tag, {0}, {})
  BY <1>1, <1>2 DEF PrevExact, Apart
<1>6. BlocksOf(tag) = {0}
  BY <1>2, <1>3, <1>4, BlocksAre
<1>7. kheld = Held(tag, {0})
  BY <1>2 DEF HeapsInit, Held
<1>8. QED
  BY <1>2, <1>3, <1>4, <1>5, <1>6, <1>7 DEF TagInv, HeapSound

LEMMA TagInvSuffices == TagInv => TagsAreExact
<1> SUFFICES ASSUME TagInv PROVE TagsAreExact
  OBVIOUS
<1> DEFINE B == BlocksOf(tag)
<1> DEFINE blocks == {[at |-> p, size |-> tag[p].size] : p \in B}
<1>1. HeapSound(tag, B) /\ Apart(tag, B, {}) /\ kheld = Held(tag, B)
  BY DEF TagInv
<1> HIDE DEF B
<1>2. Tiles(blocks, HeapSize)
  BY <1>1, ChainTiles DEF HeapSound
<1>3. kheld = {b \in blocks : tag[b.at].used}
  <2>1. ASSUME NEW b \in Held(tag, B) PROVE b \in blocks /\ tag[b.at].used
    BY DEF Held
  <2>2. ASSUME NEW b \in blocks, tag[b.at].used PROVE b \in Held(tag, B)
    BY <2>2 DEF Held
  <2>3. QED
    BY <1>1, <2>1, <2>2
<1>4. ASSUME NEW b \in blocks, NEW c \in blocks, b.at + b.size = c.at
      PROVE  tag[c.at].prev = b.size /\ (tag[b.at].used \/ tag[c.at].used)
  <2>1. b.at \in B /\ b.size = tag[b.at].size /\ c.at \in B /\ b.at + tag[b.at].size = c.at
    BY <1>4
  <2>2. QED
    BY <1>1, <2>1 DEF HeapSound, PrevExact, Apart
<1>5. QED
  BY <1>2, <1>3, <1>4 DEF TagsAreExact, B

\* The program's list.
LEMMA ReplacedFacts ==
  ASSUME NEW T, NEW l \in Seq(T), Distinct(l), NEW i \in DOMAIN l, NEW x \in T, x \notin Range(l) \ {l[i]}
  PROVE  /\ ReplaceAt(l, i, x) \in Seq(T) /\ Distinct(ReplaceAt(l, i, x))
         /\ Range(ReplaceAt(l, i, x)) = (Range(l) \ {l[i]}) \union {x}
<1> DEFINE m == ReplaceAt(l, i, x)
<1>1. /\ DOMAIN l = 1 .. Len(l) /\ Len(l) \in Nat
      /\ m = [l EXCEPT ![i] = x] /\ m \in Seq(T) /\ DOMAIN m = DOMAIN l
      /\ m[i] = x /\ \A j \in DOMAIN l : j # i => m[j] = l[j]
  BY DEF ReplaceAt
<1> HIDE DEF m
<1>2. Range(m) = (Range(l) \ {l[i]}) \union {x}
  <2>1. ASSUME NEW j \in DOMAIN m PROVE m[j] \in (Range(l) \ {l[i]}) \union {x}
    BY <1>1 DEF Range, Distinct
  <2>2. ASSUME NEW y \in Range(l), y # l[i] PROVE y \in Range(m)
    <3>1. PICK j \in DOMAIN l : y = l[j]
      BY DEF Range
    <3>2. j # i
      BY <2>2, <3>1
    <3>3. QED
      BY <1>1, <3>1, <3>2 DEF Range
  <2>3. x \in Range(m)
    BY <1>1 DEF Range
  <2>4. QED
    BY <2>1, <2>2, <2>3 DEF Range
<1>3. Distinct(m)
  <2>1. \A j \in DOMAIN l : j # i => l[j] # x
    BY DEF Range, Distinct
  <2>2. QED
    BY <1>1, <2>1 DEF Distinct
<1>4. QED
  BY <1>1, <1>2, <1>3 DEF m

LEMMA RemovedFacts ==
  ASSUME NEW T, NEW l \in Seq(T), Distinct(l), NEW i \in DOMAIN l
  PROVE  /\ RemoveAt(l, i) \in Seq(T) /\ Distinct(RemoveAt(l, i))
         /\ Range(RemoveAt(l, i)) = Range(l) \ {l[i]}
<1> DEFINE m == RemoveAt(l, i)
<1>1. DOMAIN l = 1 .. Len(l) /\ Len(l) \in Nat /\ i \in 1 .. Len(l)
  OBVIOUS
<1>2. /\ m \in Seq(T) /\ Len(m) = Len(l) - 1 /\ DOMAIN m = 1 .. Len(l) - 1
      /\ \A j \in 1 .. Len(l) - 1 : m[j] = IF j < i THEN l[j] ELSE l[j + 1]
  <2>1. m = SubSeq(l, 1, i - 1) \o SubSeq(l, i + 1, Len(l))
    BY DEF RemoveAt
  <2>2. /\ SubSeq(l, 1, i - 1) \in Seq(T) /\ Len(SubSeq(l, 1, i - 1)) = i - 1
        /\ \A j \in 1 .. i - 1 : SubSeq(l, 1, i - 1)[j] = l[j]
    BY <1>1
  <2>3. /\ SubSeq(l, i + 1, Len(l)) \in Seq(T) /\ Len(SubSeq(l, i + 1, Len(l))) = Len(l) - i
        /\ \A j \in 1 .. Len(l) - i : SubSeq(l, i + 1, Len(l))[j] = l[i + j]
    BY <1>1
  <2>4. PICK a, b : a = SubSeq(l, 1, i - 1) /\ b = SubSeq(l, i + 1, Len(l))
    OBVIOUS
  <2>5. /\ m = a \o b /\ a \in Seq(T) /\ b \in Seq(T) /\ Len(a) = i - 1 /\ Len(b) = Len(l) - i
        /\ \A j \in 1 .. i - 1 : a[j] = l[j]
        /\ \A j \in 1 .. Len(l) - i : b[j] = l[i + j]
    BY <2>1, <2>2, <2>3, <2>4
  <2>6. m \in Seq(T) /\ Len(m) = Len(l) - 1 /\ DOMAIN m = 1 .. Len(l) - 1
    <3>1. m \in Seq(T) /\ Len(m) = Len(a) + Len(b) /\ DOMAIN m = 1 .. Len(m)
      BY <2>5
    <3>2. Len(m) = Len(l) - 1
      BY <1>1, <2>5, <3>1
    <3>3. QED
      BY <3>1, <3>2
  <2>7. ASSUME NEW j \in 1 .. Len(l) - 1 PROVE m[j] = IF j < i THEN l[j] ELSE l[j + 1]
    <3>1. CASE j < i
      BY <1>1, <2>5, <3>1
    <3>2. CASE j >= i
      <4>1. j \in Nat /\ Len(a) \in Nat /\ Len(a) < j /\ j <= Len(a) + Len(b)
        BY <1>1, <2>5, <3>2
      <4> HIDE DEF m
      <4>2. m[j] = b[j - Len(a)]
        <5>1. m = a \o b /\ a \in Seq(T) /\ b \in Seq(T) /\ j \in 1 .. Len(a) + Len(b) /\ ~(j <= Len(a))
          BY <2>5, <4>1
        <5>2. QED
          BY <5>1, ConcatProperties
      <4>3. i \in Nat /\ Len(l) \in Nat /\ Len(a) = i - 1 /\ j <= Len(l) - 1
        BY <1>1, <2>5
      <4>4. j - Len(a) = j - i + 1 /\ j - i + 1 \in 1 .. Len(l) - i /\ i + (j - i + 1) = j + 1
        BY ONLY <3>2, <4>1, <4>3
      <4>5. b[j - i + 1] = l[i + (j - i + 1)]
        BY <2>5, <4>4
      <4>6. ~(j < i)
        BY <3>2, <4>1, <4>3
      <4>7. QED
        BY <4>2, <4>4, <4>5, <4>6
    <3>3. QED
      BY <1>1, <3>1, <3>2
  <2>8. QED
    BY <2>6, <2>7
<1> HIDE DEF m
<1>3. ASSUME NEW j \in DOMAIN m PROVE \E k \in DOMAIN l : k # i /\ m[j] = l[k] /\ k = IF j < i THEN j ELSE j + 1
  BY <1>1, <1>2
<1>4. Range(m) = Range(l) \ {l[i]}
  <2>1. ASSUME NEW j \in DOMAIN m PROVE m[j] \in Range(l) \ {l[i]}
    BY <1>3 DEF Range, Distinct
  <2>2. ASSUME NEW k \in DOMAIN l, l[k] # l[i] PROVE l[k] \in Range(m)
    <3>1. k # i /\ k \in 1 .. Len(l)
      BY <1>1, <2>2
    <3>2. CASE k < i
      BY <1>1, <1>2, <3>1, <3>2 DEF Range
    <3>3. CASE k > i
      <4>1. k - 1 \in DOMAIN m /\ m[k - 1] = l[k]
        BY <1>1, <1>2, <3>1, <3>3
      <4>2. QED
        BY <4>1 DEF Range
    <3>4. QED
      BY <1>1, <3>1, <3>2, <3>3
  <2>3. QED
    BY <2>1, <2>2 DEF Range
<1>5. Distinct(m)
  <2>1. SUFFICES ASSUME NEW j \in DOMAIN m, NEW k \in DOMAIN m, j # k PROVE m[j] # m[k]
    BY DEF Distinct
  <2>2. PICK jj \in DOMAIN l : m[j] = l[jj] /\ jj = IF j < i THEN j ELSE j + 1
    BY <1>3
  <2>3. PICK kk \in DOMAIN l : m[k] = l[kk] /\ kk = IF k < i THEN k ELSE k + 1
    BY <1>3
  <2>4. jj # kk
    BY <1>1, <1>2, <2>1, <2>2, <2>3
  <2>5. QED
    BY <2>2, <2>3, <2>4 DEF Distinct
<1>6. QED
  BY <1>2, <1>4, <1>5 DEF m

LEMMA InsertedFacts ==
  ASSUME NEW T, NEW l \in Seq(T), Distinct(l), NEW i \in 1 .. Len(l) + 1, NEW x \in T, x \notin Range(l)
  PROVE  /\ InsertAt(l, i, x) \in Seq(T) /\ Distinct(InsertAt(l, i, x))
         /\ Range(InsertAt(l, i, x)) = Range(l) \union {x}
<1> DEFINE m == InsertAt(l, i, x)
<1>1. DOMAIN l = 1 .. Len(l) /\ Len(l) \in Nat
  OBVIOUS
<1>2. /\ m \in Seq(T) /\ Len(m) = Len(l) + 1 /\ DOMAIN m = 1 .. Len(l) + 1
      /\ \A j \in 1 .. Len(l) + 1 : m[j] = IF j < i THEN l[j] ELSE IF j = i THEN x ELSE l[j - 1]
  <2>1. m = (SubSeq(l, 1, i - 1) \o <<x>>) \o SubSeq(l, i, Len(l))
    BY DEF InsertAt
  <2>2. /\ SubSeq(l, 1, i - 1) \in Seq(T) /\ Len(SubSeq(l, 1, i - 1)) = i - 1
        /\ \A j \in 1 .. i - 1 : SubSeq(l, 1, i - 1)[j] = l[j]
    BY <1>1
  <2>3. /\ SubSeq(l, i, Len(l)) \in Seq(T) /\ Len(SubSeq(l, i, Len(l))) = Len(l) - i + 1
        /\ \A j \in 1 .. Len(l) - i + 1 : SubSeq(l, i, Len(l))[j] = l[i + j - 1]
    BY <1>1
  <2>4. PICK a : a = SubSeq(l, 1, i - 1) \o <<x>>
    OBVIOUS
  <2>5. a \in Seq(T) /\ Len(a) = i /\ \A j \in 1 .. i : a[j] = IF j < i THEN l[j] ELSE x
    BY <1>1, <2>2, <2>4
  <2>6. PICK b : b = SubSeq(l, i, Len(l))
    OBVIOUS
  <2>7. m = a \o b /\ b \in Seq(T) /\ Len(b) = Len(l) - i + 1 /\ \A j \in 1 .. Len(l) - i + 1 : b[j] = l[i + j - 1]
    BY <2>1, <2>3, <2>4, <2>6
  <2>8. m \in Seq(T) /\ Len(m) = Len(l) + 1 /\ DOMAIN m = 1 .. Len(l) + 1
    BY <1>1, <2>5, <2>7
  <2>9. ASSUME NEW j \in 1 .. Len(l) + 1 PROVE m[j] = IF j < i THEN l[j] ELSE IF j = i THEN x ELSE l[j - 1]
    <3>1. CASE j <= i
      BY <1>1, <2>5, <2>7, <3>1
    <3>2. CASE j > i
      <4>1. m[j] = b[j - i] /\ j - i \in 1 .. Len(l) - i + 1
        BY <1>1, <2>5, <2>7, <3>2
      <4>2. QED
        BY <1>1, <2>7, <3>2, <4>1
    <3>3. QED
      BY <3>1, <3>2
  <2>10. QED
    BY <2>8, <2>9
<1> HIDE DEF m
<1>3. Range(m) = Range(l) \union {x}
  <2>1. ASSUME NEW j \in DOMAIN m PROVE m[j] \in Range(l) \union {x}
    <3>1. CASE j < i
      BY <1>1, <1>2, <3>1 DEF Range
    <3>2. CASE j = i
      BY <1>2, <3>2
    <3>3. CASE j > i
      <4>1. m[j] = l[j - 1] /\ j - 1 \in DOMAIN l
        BY <1>1, <1>2, <3>3
      <4>2. QED
        BY <4>1 DEF Range
    <3>4. QED
      BY <1>2, <3>1, <3>2, <3>3
  <2>2. ASSUME NEW k \in DOMAIN l PROVE l[k] \in Range(m)
    <3>1. CASE k < i
      BY <1>1, <1>2, <3>1 DEF Range
    <3>2. CASE k >= i
      <4>1. m[k + 1] = l[k] /\ k + 1 \in DOMAIN m
        BY <1>1, <1>2, <3>2
      <4>2. QED
        BY <4>1 DEF Range
    <3>3. QED
      BY <1>1, <3>1, <3>2
  <2>3. x \in Range(m)
    BY <1>1, <1>2 DEF Range
  <2>4. QED
    BY <2>1, <2>2, <2>3 DEF Range
<1>4. Distinct(m)
  <2>1. SUFFICES ASSUME NEW j \in DOMAIN m, NEW k \in DOMAIN m, j < k PROVE m[j] # m[k]
    BY <1>2 DEF Distinct
  <2>2. \A n \in DOMAIN l : l[n] # x
    BY DEF Range
  <2>3. CASE j = i
    <3>1. m[j] = x /\ m[k] = l[k - 1] /\ k - 1 \in DOMAIN l
      BY <1>1, <1>2, <2>1, <2>3
    <3>2. QED
      BY <2>2, <3>1
  <2>4. CASE k = i
    <3>1. m[k] = x /\ m[j] = l[j] /\ j \in DOMAIN l
      BY <1>1, <1>2, <2>1, <2>4
    <3>2. QED
      BY <2>2, <3>1
  <2>5. CASE j # i /\ k # i
    <3> DEFINE jj == IF j < i THEN j ELSE j - 1
    <3> DEFINE kk == IF k < i THEN k ELSE k - 1
    <3>1. m[j] = l[jj] /\ m[k] = l[kk] /\ jj \in DOMAIN l /\ kk \in DOMAIN l /\ jj # kk
      BY <1>1, <1>2, <2>1, <2>5
    <3>2. QED
      BY <3>1 DEF Distinct
  <2>6. QED
    BY <2>3, <2>4, <2>5
<1>5. QED
  BY <1>2, <1>3, <1>4 DEF m

\* A unit is in one block.
LEMMA OneBlock ==
  ASSUME NEW S, NEW e, Tiles(S, e), NEW b \in S, NEW c \in S, NEW u, u \in Units(b), u \in Units(c)
  PROVE  b = c
BY DEF Tiles

\* A block cut in two covers what it covered, and its parts were no blocks.
LEMMA TilesCut ==
  ASSUME NEW S \in SUBSET Block, NEW e, Tiles(S, e), NEW b \in S, NEW n \in Nat, 0 < n, n < b.size,
         NEW x, x = [at |-> b.at, size |-> n], NEW y, y = [at |-> b.at + n, size |-> b.size - n]
  PROVE  /\ Tiles((S \ {b}) \union {x, y}, e) /\ x \notin S /\ y \notin S /\ x # y
         /\ x \in Block /\ y \in Block
<1>1. b.at \in Nat /\ b.size \in Nat /\ b.size # 0
  BY DEF Block
<1>2. x \in Block /\ y \in Block /\ x # y /\ x # b /\ y # b
  BY <1>1 DEF Block
<1>3. /\ Units(b) = Units(x) \union Units(y) /\ Units(x) \intersect Units(y) = {}
      /\ b.at \in Units(x) /\ b.at + n \in Units(y)
  BY <1>1 DEF Units
<1>4. x \notin S /\ y \notin S
  BY <1>2, <1>3, OneBlock
<1>5. UNION {Units(c) : c \in (S \ {b}) \union {x, y}} = UNION {Units(c) : c \in S}
  BY <1>3
<1>6. ASSUME NEW c \in S \ {b} PROVE Units(c) \intersect Units(b) = {}
  BY DEF Tiles
<1>7. ASSUME NEW c \in (S \ {b}) \union {x, y}, NEW d \in (S \ {b}) \union {x, y}, c # d
      PROVE  Units(c) \intersect Units(d) = {}
  <2>1. CASE c \in S \ {b} /\ d \in S \ {b}
    BY <1>7, <2>1 DEF Tiles
  <2>2. CASE c \in {x, y} /\ d \in {x, y}
    BY <1>3, <1>7, <2>2
  <2>3. CASE c \in S \ {b} /\ d \in {x, y}
    BY <1>3, <1>6, <2>3
  <2>4. CASE c \in {x, y} /\ d \in S \ {b}
    BY <1>3, <1>6, <2>4
  <2>5. QED
    BY <2>1, <2>2, <2>3, <2>4
<1>8. Tiles((S \ {b}) \union {x, y}, e)
  BY <1>5, <1>7 DEF Tiles
<1>9. QED
  BY <1>2, <1>4, <1>8

\* Neighbours made one cover what they covered, and they were no block together.
LEMMA TilesJoin ==
  ASSUME NEW S \in SUBSET Block, NEW e, Tiles(S, e), NEW b \in S, NEW c \in S, b.at + b.size = c.at,
         NEW x, x = [at |-> b.at, size |-> b.size + c.size]
  PROVE  Tiles((S \ {b, c}) \union {x}, e) /\ x \notin S /\ x \in Block
<1>1. b.at \in Nat /\ b.size \in Nat /\ b.size # 0 /\ c.at \in Nat /\ c.size \in Nat /\ c.size # 0
  BY DEF Block
<1>2. x \in Block /\ x # b /\ x.at = b.at /\ x.size = b.size + c.size
  BY <1>1 DEF Block
<1>3. Units(x) = Units(b) \union Units(c) /\ b.at \in Units(b) /\ b.at \in Units(x)
  BY <1>1, <1>2 DEF Units
<1>4. x \notin S
  BY <1>2, <1>3, OneBlock
<1>5. UNION {Units(d) : d \in (S \ {b, c}) \union {x}} = UNION {Units(d) : d \in S}
  BY <1>3
<1>6. ASSUME NEW d \in S \ {b, c} PROVE Units(d) \intersect Units(x) = {}
  BY <1>3 DEF Tiles
<1>7. ASSUME NEW d \in (S \ {b, c}) \union {x}, NEW f \in (S \ {b, c}) \union {x}, d # f
      PROVE  Units(d) \intersect Units(f) = {}
  BY <1>6, <1>7 DEF Tiles
<1>8. QED
  BY <1>2, <1>4, <1>5, <1>7 DEF Tiles

\* What sbrk gives is beyond every block.
LEMMA TilesGrow ==
  ASSUME NEW S \in SUBSET Block, NEW e \in Nat, Tiles(S, e), NEW n \in Nat, n > 0, NEW x, x = [at |-> e, size |-> n]
  PROVE  Tiles(S \union {x}, e + n) /\ x \notin S /\ x \in Block
<1>1. x \in Block /\ Units(x) = e .. e + n - 1 /\ e \in Units(x)
  BY DEF Units, Block
<1>2. UNION {Units(c) : c \in S} = 0 .. e - 1
  BY DEF Tiles
<1>3. ASSUME NEW c \in S PROVE Units(c) \subseteq 0 .. e - 1 /\ Units(c) \intersect Units(x) = {}
  <2>1. Units(c) \subseteq 0 .. e - 1
    BY <1>2
  <2>2. (0 .. e - 1) \intersect (e .. e + n - 1) = {}
    OBVIOUS
  <2>3. QED
    BY <1>1, <2>1, <2>2
<1>4. x \notin S
  BY <1>1, <1>3
<1>5. UNION {Units(c) : c \in S \union {x}} = 0 .. e + n - 1
  <2>1. 0 .. e + n - 1 = (0 .. e - 1) \union (e .. e + n - 1)
    OBVIOUS
  <2>2. UNION {Units(c) : c \in S \union {x}} = (UNION {Units(c) : c \in S}) \union Units(x)
    OBVIOUS
  <2>3. QED
    BY <1>1, <1>2, <2>1, <2>2
<1>6. \A c, d \in S \union {x} : c # d => Units(c) \intersect Units(d) = {}
  BY <1>3 DEF Tiles
<1>7. QED
  BY <1>1, <1>4, <1>5, <1>6 DEF Tiles

LEMMA GrowKeeps ==
  ASSUME NEW l, NEW H, NEW e, Shared(l, H, e), NEW n \in Nat, n > 0, NEW x, x = [at |-> e, size |-> n]
  PROVE  Shared(<<x>> \o l, H, e + n) /\ <<x>> \o l # l /\ (<<x>> \o l)[1] = x
<1> DEFINE m == <<x>> \o l
<1>1. /\ l \in Seq(Block) /\ H \subseteq Block /\ e \in Nat /\ Range(l) \intersect H = {} /\ Distinct(l)
      /\ Tiles(H \union Range(l), e)
  BY DEF Shared
<1>2. H \union Range(l) \in SUBSET Block
  BY <1>1 DEF Range
<1>3. Tiles((H \union Range(l)) \union {x}, e + n) /\ x \notin H \union Range(l) /\ x \in Block
  BY <1>1, <1>2, TilesGrow
<1>4. Len(l) \in Nat /\ DOMAIN l = 1 .. Len(l)
  BY <1>1
<1>5. /\ m \in Seq(Block) /\ Len(m) = Len(l) + 1 /\ DOMAIN m = 1 .. Len(l) + 1
      /\ m[1] = x /\ \A j \in DOMAIN l : j + 1 \in DOMAIN m /\ m[j + 1] = l[j]
      /\ \A j \in DOMAIN m : j # 1 => j - 1 \in DOMAIN l /\ m[j] = l[j - 1]
  <2>1. <<x>> \in Seq(Block) /\ Len(<<x>>) = 1 /\ <<x>>[1] = x
    BY <1>3
  <2>2. m \in Seq(Block) /\ Len(m) = Len(l) + 1 /\ DOMAIN m = 1 .. Len(m)
    BY <1>1, <1>4, <2>1
  <2>3. m[1] = x
    BY <1>4, <2>1
  <2>4. ASSUME NEW j \in 1 .. Len(l) + 1, j # 1 PROVE m[j] = l[j - 1]
    BY <1>1, <1>4, <2>1, <2>4
  <2> HIDE DEF m
  <2>5. ASSUME NEW j \in DOMAIN l PROVE j + 1 \in DOMAIN m /\ m[j + 1] = l[j]
    <3>1. j + 1 \in 1 .. Len(l) + 1 /\ j + 1 # 1 /\ (j + 1) - 1 = j
      BY <1>4
    <3>2. QED
      BY <2>2, <2>4, <3>1
  <2>6. ASSUME NEW j \in DOMAIN m, j # 1 PROVE j - 1 \in DOMAIN l /\ m[j] = l[j - 1]
    BY <1>4, <2>2, <2>4, <2>6
  <2>7. QED
    BY <2>2, <2>3, <2>5, <2>6
<1> HIDE DEF m
<1>6. Range(m) = Range(l) \union {x}
  <2>1. ASSUME NEW j \in DOMAIN m PROVE m[j] \in Range(l) \union {x}
    BY <1>5 DEF Range
  <2>2. ASSUME NEW j \in DOMAIN l PROVE l[j] \in Range(m)
    BY <1>5 DEF Range
  <2>3. 1 \in DOMAIN m
    BY <1>4, <1>5
  <2>4. QED
    BY <1>5, <2>1, <2>2, <2>3 DEF Range
<1>7. Distinct(m)
  <2>1. \A j \in DOMAIN l : l[j] # x
    BY <1>3 DEF Range
  <2>2. \A j \in DOMAIN m : j \in Nat
    BY <1>4, <1>5
  <2>3. ASSUME NEW j \in DOMAIN m, NEW k \in DOMAIN m, j # k PROVE m[j] # m[k]
    <3>1. CASE j = 1
      BY <1>5, <2>1, <2>3, <3>1
    <3>2. CASE k = 1
      BY <1>5, <2>1, <2>3, <3>2
    <3>3. CASE j # 1 /\ k # 1
      <4>1. m[j] = l[j - 1] /\ m[k] = l[k - 1] /\ j - 1 \in DOMAIN l /\ k - 1 \in DOMAIN l /\ j - 1 # k - 1
        BY <1>5, <2>2, <2>3, <3>3
      <4>2. QED
        BY <1>1, <4>1 DEF Distinct
    <3>4. QED
      BY <3>1, <3>2, <3>3
  <2>4. QED
    BY <2>3 DEF Distinct
<1>8. H \union Range(m) = (H \union Range(l)) \union {x} /\ Range(m) \intersect H = {}
  BY <1>1, <1>3, <1>6
<1>9. Shared(m, H, e + n)
  <2>1. e + n \in Nat
    BY <1>1
  <2> DEFINE f == e + n
  <2>2. Tiles((H \union Range(l)) \union {x}, f)
    BY <1>3
  <2> HIDE DEF f
  <2>3. Tiles(H \union Range(m), f)
    BY <1>8, <2>2
  <2>4. QED
    BY <1>1, <1>5, <1>7, <1>8, <2>1, <2>3 DEF Shared, f
<1>10. m # l
  BY <1>4, <1>5
<1>11. QED
  BY <1>5, <1>9, <1>10 DEF m

LEMMA HandOutKeeps ==
  ASSUME NEW l, NEW H, NEW e, Shared(l, H, e), NEW i \in DOMAIN l, NEW need \in Nat, need >= 2, l[i].size >= need
  PROVE  Shared(Cut(l, i, need), H \union {Given(l, i, need)}, e)
<1> DEFINE b == l[i]
<1> DEFINE S == H \union Range(l)
<1> DEFINE y == [at |-> b.at + need, size |-> b.size - need]
<1> DEFINE g == Given(l, i, need)
<1>1. /\ l \in Seq(Block) /\ H \subseteq Block /\ e \in Nat /\ Range(l) \intersect H = {} /\ Distinct(l)
      /\ Tiles(S, e)
  BY DEF Shared
<1>2. b \in Block /\ b \in Range(l) /\ b \in S /\ S \in SUBSET Block /\ b.at \in Nat /\ b.size \in Nat
  <2>1. b \in Block /\ b \in Range(l) /\ Range(l) \subseteq Block
    BY <1>1 DEF Range
  <2>2. QED
    BY <1>1, <2>1 DEF Block
<1>3. CASE b.size - need >= MinBlock
  <2>1. g = [at |-> b.at, size |-> need] /\ Cut(l, i, need) = ReplaceAt(l, i, y)
    BY <1>3 DEF Given, Cut
  <2>2. 0 < need /\ need < b.size
    BY <1>2, <1>3 DEF MinBlock
  <2>3. Tiles((S \ {b}) \union {g, y}, e) /\ g \notin S /\ y \notin S /\ g # y /\ g \in Block /\ y \in Block
    <3>1. y = [at |-> b.at + need, size |-> b.size - need] /\ Tiles(S, e)
      BY <1>1
    <3> HIDE DEF S, b, g, y
    <3>2. ASSUME NEW u, NEW v, u = [at |-> b.at, size |-> need], v = [at |-> b.at + need, size |-> b.size - need]
          PROVE  /\ Tiles((S \ {b}) \union {u, v}, e) /\ u \notin S /\ v \notin S /\ u # v
                 /\ u \in Block /\ v \in Block
      BY ONLY need \in Nat, <1>2, <2>2, <3>1, <3>2, TilesCut
    <3>3. g = [at |-> b.at, size |-> need]
      BY <2>1
    <3>4. QED
      BY <3>1, <3>2, <3>3
  <2> HIDE DEF y, g
  <2>4. /\ ReplaceAt(l, i, y) \in Seq(Block) /\ Distinct(ReplaceAt(l, i, y))
        /\ Range(ReplaceAt(l, i, y)) = (Range(l) \ {b}) \union {y}
    BY <1>1, <2>3, ReplacedFacts
  <2> DEFINE m == ReplaceAt(l, i, y)
  <2> HIDE DEF m, b
  <2>5. (H \union {g}) \union Range(m) = (S \ {b}) \union {g, y} /\ Range(m) \intersect (H \union {g}) = {}
    BY <1>1, <1>2, <2>3, <2>4 DEF m
  <2>6. H \union {g} \subseteq Block
    BY <1>1, <2>3
  <2>7. Shared(m, H \union {g}, e)
    <3>1. m \in Seq(Block) /\ Distinct(m)
      BY <2>4 DEF m
    <3>2. QED
      BY <1>1, <2>3, <2>5, <2>6, <3>1 DEF Shared
  <2>8. QED
    BY <2>1, <2>7 DEF m, g
<1>4. CASE ~(b.size - need >= MinBlock)
  <2>1. g = [at |-> b.at, size |-> b.size] /\ Cut(l, i, need) = RemoveAt(l, i)
    BY <1>4 DEF Given, Cut
  <2>2. g = b
    BY <1>2, <2>1 DEF Block
  <2> HIDE DEF g
  <2>3. /\ RemoveAt(l, i) \in Seq(Block) /\ Distinct(RemoveAt(l, i))
        /\ Range(RemoveAt(l, i)) = Range(l) \ {b}
    BY <1>1, RemovedFacts
  <2> DEFINE m == RemoveAt(l, i)
  <2> HIDE DEF m, b
  <2>4. (H \union {g}) \union Range(m) = S /\ Range(m) \intersect (H \union {g}) = {}
    BY <1>1, <1>2, <2>2, <2>3 DEF m
  <2>5. Shared(m, H \union {g}, e)
    <3>1. m \in Seq(Block) /\ Distinct(m) /\ H \union {g} \subseteq Block
      BY <1>1, <1>2, <2>2, <2>3 DEF m
    <3>2. QED
      BY <1>1, <2>4, <3>1 DEF Shared
  <2>6. QED
    BY <2>1, <2>5 DEF m, g
<1>5. QED
  BY <1>3, <1>4

LEMMA GiveBackKeeps ==
  ASSUME NEW l, NEW H, NEW e, Shared(l, H, e), NEW b \in H
  PROVE  /\ \A i \in 1 .. Len(l) + 1 : Shared(InsertAt(l, i, b), H \ {b}, e)
         /\ \A i \in DOMAIN l : b.at + b.size = l[i].at =>
               Shared(ReplaceAt(l, i, [at |-> b.at, size |-> b.size + l[i].size]), H \ {b}, e)
<1> DEFINE S == H \union Range(l)
<1>1. /\ l \in Seq(Block) /\ H \subseteq Block /\ e \in Nat /\ Range(l) \intersect H = {} /\ Distinct(l)
      /\ Tiles(S, e)
  BY DEF Shared
<1>2. b \in Block /\ b \notin Range(l) /\ b \in S /\ H \ {b} \subseteq Block /\ S \in SUBSET Block
  <2>1. Range(l) \subseteq Block
    BY <1>1 DEF Range
  <2>2. QED
    BY <1>1, <2>1
<1>3. ASSUME NEW i \in 1 .. Len(l) + 1 PROVE Shared(InsertAt(l, i, b), H \ {b}, e)
  <2> DEFINE m == InsertAt(l, i, b)
  <2>1. m \in Seq(Block) /\ Distinct(m) /\ Range(m) = Range(l) \union {b}
    BY <1>1, <1>2, InsertedFacts
  <2> HIDE DEF m
  <2>2. (H \ {b}) \union Range(m) = S /\ Range(m) \intersect (H \ {b}) = {}
    BY <1>1, <1>2, <2>1
  <2>3. Shared(m, H \ {b}, e)
    BY <1>1, <1>2, <2>1, <2>2 DEF Shared
  <2>4. QED
    BY <2>3 DEF m
<1>4. ASSUME NEW i \in DOMAIN l, b.at + b.size = l[i].at
      PROVE  Shared(ReplaceAt(l, i, [at |-> b.at, size |-> b.size + l[i].size]), H \ {b}, e)
  <2> DEFINE c == l[i]
  <2> DEFINE x == [at |-> b.at, size |-> b.size + c.size]
  <2> DEFINE m == ReplaceAt(l, i, x)
  <2>1. c \in Range(l) /\ c \in S /\ b # c
    BY <1>1, <1>2 DEF Range
  <2>2. Tiles((S \ {b, c}) \union {x}, e) /\ x \notin S /\ x \in Block
    <3>1. x = [at |-> b.at, size |-> b.size + c.size] /\ b.at + b.size = c.at /\ Tiles(S, e)
      BY <1>1, <1>4
    <3> HIDE DEF S, c, x
    <3>2. QED
      BY <1>2, <2>1, <3>1, TilesJoin
  <2> HIDE DEF x
  <2>3. m \in Seq(Block) /\ Distinct(m) /\ Range(m) = (Range(l) \ {c}) \union {x}
    BY <1>1, <2>2, ReplacedFacts
  <2> HIDE DEF m, c
  <2>4. (H \ {b}) \union Range(m) = (S \ {b, c}) \union {x} /\ Range(m) \intersect (H \ {b}) = {}
    BY <1>1, <1>2, <2>1, <2>2, <2>3
  <2>5. Shared(m, H \ {b}, e)
    BY <1>1, <1>2, <2>2, <2>3, <2>4 DEF Shared
  <2>6. QED
    BY <2>5 DEF m, x, c
<1>5. QED
  BY <1>3, <1>4

\* The first index of a list with a property.
LEMMA FirstIndex ==
  ASSUME NEW l \in Seq(Block), NEW I \in SUBSET (DOMAIN l), I # {}
  PROVE  (CHOOSE j \in I : \A k \in I : j <= k) \in I
<1>1. I \in SUBSET Nat /\ Len(l) \in Nat /\ I \subseteq 1 .. Len(l)
  OBVIOUS
<1>2. IsFiniteSet(I)
  BY <1>1, FS_Interval, FS_Subset
<1>3. Min(I) \in I
  BY <1>1, <1>2, LeastExists
<1>4. QED
  BY <1>3 DEF Min

LEMMA MallocKeeps == ASSUME ListInv, NEW need \in Wants, Malloc(need) PROVE ListInv'
<1> DEFINE Fits(l) == {i \in DOMAIN l : l[i].size >= need}
<1> DEFINE m == IF Fits(list) = {} THEN Grown(need) ELSE list
<1> DEFINE i == CHOOSE j \in Fits(m) : \A k \in Fits(m) : j <= k
<1> DEFINE t == IF m = list THEN top ELSE top + m[1].size
<1>1. need \in Nat /\ need >= 2 /\ GrowBy \in Nat /\ GrowBy >= 2
  BY HeapsAssumption DEF HeapsAssumption, MinBlock
<1>2. Fits(m) # {} /\ top' = t /\ list' = Cut(m, i, need) /\ uheld' = uheld \union {Given(m, i, need)}
  BY DEF Malloc
<1>3. Shared(m, uheld, t)
  <2>1. CASE m = list
    BY <2>1 DEF ListInv
  <2>2. CASE m # list
    <3> DEFINE chunk == IF need < GrowBy THEN GrowBy ELSE need
    <3> DEFINE x == [at |-> top, size |-> chunk]
    <3>1. m = <<x>> \o list
      BY <2>2 DEF Grown
    <3>2. chunk \in Nat /\ chunk > 0
      BY <1>1
    <3> HIDE DEF chunk, m
    <3>3. Shared(<<x>> \o list, uheld, top + chunk) /\ (<<x>> \o list)[1] = x
      BY <3>2, GrowKeeps DEF ListInv
    <3>4. t = top + chunk
      BY <2>2, <3>1, <3>3
    <3>5. QED
      BY <3>1, <3>3, <3>4
  <2>3. QED
    BY <2>1, <2>2
<1>4. m \in Seq(Block)
  BY <1>3 DEF Shared
<1>5. i \in DOMAIN m /\ m[i].size >= need
  <2>1. i \in Fits(m)
    <3> HIDE DEF m
    <3>1. Fits(m) \in SUBSET (DOMAIN m)
      OBVIOUS
    <3> HIDE DEF Fits
    <3>2. QED
      BY <1>2, <1>4, <3>1, FirstIndex
  <2> HIDE DEF i, m
  <2>2. QED
    BY <2>1
<1> HIDE DEF i, m, t, Fits
<1>6. Shared(Cut(m, i, need), uheld \union {Given(m, i, need)}, t)
  BY <1>1, <1>3, <1>5, HandOutKeeps
<1>7. QED
  BY <1>2, <1>6 DEF ListInv

LEMMA UFreeKeeps == ASSUME ListInv, NEW b \in uheld, UFree(b) PROVE ListInv'
<1> DEFINE higher == {i \in DOMAIN list : list[i].at >= b.at}
<1> DEFINE i == IF higher = {} THEN Len(list) + 1 ELSE CHOOSE j \in higher : \A k \in higher : j <= k
<1> DEFINE x == [at |-> b.at, size |-> b.size + list[i].size]
<1>1. /\ uheld' = uheld \ {b} /\ top' = top
      /\ list' = IF i \in DOMAIN list /\ b.at + b.size = list[i].at THEN ReplaceAt(list, i, x) ELSE InsertAt(list, i, b)
  BY DEF UFree
<1>2. list \in Seq(Block) /\ Shared(list, uheld, top)
  BY DEF ListInv, Shared
<1>3. i \in 1 .. Len(list) + 1
  <2>1. Len(list) \in Nat /\ DOMAIN list = 1 .. Len(list)
    BY <1>2
  <2>2. CASE higher = {}
    BY <2>1, <2>2
  <2>3. CASE higher # {}
    <3>1. higher \in SUBSET (DOMAIN list)
      OBVIOUS
    <3> HIDE DEF higher
    <3>2. i \in higher
      BY <1>2, <2>3, <3>1, FirstIndex
    <3> HIDE DEF i
    <3>3. QED
      BY <2>1, <3>1, <3>2
  <2>4. QED
    BY <2>2, <2>3
<1> HIDE DEF i
<1>4. Shared(list', uheld \ {b}, top)
  <2>1. CASE i \in DOMAIN list /\ b.at + b.size = list[i].at
    BY <1>1, <1>2, <2>1, GiveBackKeeps
  <2>2. CASE ~(i \in DOMAIN list /\ b.at + b.size = list[i].at)
    BY <1>1, <1>2, <1>3, <2>2, GiveBackKeeps
  <2>3. QED
    BY <2>1, <2>2
<1>5. QED
  BY <1>1, <1>4 DEF ListInv

LEMMA ListStarts == HeapsInit => ListInv
<1> SUFFICES ASSUME HeapsInit PROVE ListInv
  OBVIOUS
<1>1. list = <<>> /\ uheld = {} /\ top = 0 /\ list \in Seq(Block) /\ DOMAIN list = {}
  BY DEF HeapsInit
<1>2. Range(list) = {}
  BY <1>1 DEF Range
<1>3. uheld \union Range(list) = {} /\ 0 .. top - 1 = {}
  BY <1>1, <1>2
<1>4. Tiles({}, top) /\ Distinct(list)
  <2>1. UNION {Units(b) : b \in {}} = {}
    OBVIOUS
  <2>2. QED
    BY <1>1, <1>3, <2>1 DEF Tiles, Distinct
<1>5. QED
  BY <1>1, <1>2, <1>3, <1>4 DEF ListInv, Shared

LEMMA HeapsKeep == HeapsInv /\ [HeapsNext]_heapsVars => HeapsInv'
<1> SUFFICES ASSUME TagInv, ListInv, [HeapsNext]_heapsVars PROVE TagInv' /\ ListInv'
  BY DEF HeapsInv
<1>1. UNCHANGED kernelVars => TagInv'
  BY DEF kernelVars, TagInv
<1>2. UNCHANGED programVars => ListInv'
  BY DEF programVars, ListInv
<1>3. ASSUME NEW need \in Wants, Kmalloc(need) PROVE TagInv' /\ ListInv'
  <2>1. UNCHANGED programVars
    BY <1>3 DEF Kmalloc
  <2>2. QED
    BY <1>2, <1>3, <2>1, KmallocKeeps
<1>4. ASSUME NEW b \in kheld, Kfree(b) PROVE TagInv' /\ ListInv'
  <2>1. UNCHANGED programVars
    BY <1>4 DEF Kfree
  <2>2. QED
    BY <1>2, <1>4, <2>1, KfreeKeeps
<1>5. ASSUME NEW need \in Wants, Malloc(need) PROVE TagInv' /\ ListInv'
  <2>1. UNCHANGED kernelVars
    BY <1>5 DEF Malloc
  <2>2. QED
    BY <1>1, <1>5, <2>1, MallocKeeps
<1>6. ASSUME NEW b \in uheld, UFree(b) PROVE TagInv' /\ ListInv'
  <2>1. UNCHANGED kernelVars
    BY <1>6 DEF UFree
  <2>2. QED
    BY <1>1, <1>6, <2>1, UFreeKeeps
<1>7. CASE UNCHANGED heapsVars
  <2>1. UNCHANGED kernelVars /\ UNCHANGED programVars
    BY <1>7 DEF heapsVars, kernelVars, programVars
  <2>2. QED
    BY <1>1, <1>2, <2>1
<1>8. QED
  BY <1>3, <1>4, <1>5, <1>6, <1>7 DEF HeapsNext, KernelHeapNext, ProgramHeapNext

\* Whatever the calls of kmalloc and kfree and of malloc and free, and however large the heaps:
\* the tags tile the kernel's heap and say what its callers hold, no two free blocks are
\* neighbours, and every unit sbrk gave a program is in one block, free or held.
THEOREM HeapsAreSound == HeapsSpec => []HeapsSound
<1>1. HeapsInit => HeapsInv
  BY TagStarts, ListStarts DEF HeapsInv
<1>2. HeapsInv /\ [HeapsNext]_heapsVars => HeapsInv'
  BY HeapsKeep
<1>3. HeapsInv => HeapsSound
  <2>1. ListInv => ListIsExact
    BY DEF ListInv, Shared, Distinct, ListIsExact
  <2>2. QED
    BY <2>1, TagInvSuffices DEF HeapsInv, HeapsSound
<1>4. QED
  BY <1>1, <1>2, <1>3, PTL DEF HeapsSpec

(***************************************************************************)
(* The other protocols.                                                    *)
(***************************************************************************)
Queries == [host : Hosts, port : Ports, xid : Xids]
Replies == [host : Hosts, port : Ports, xid : Xids, ok : BOOLEAN]

ResolverTypes ==
    /\ asking \in [Resolvers -> Queries \union {NoQuery}]
    /\ answer \in [Resolvers -> [asked : Hosts \union {""}, got : Hosts \union {""}]]
    /\ slot \in [pending : BOOLEAN, xid : Xids \union {0}, resp : Replies \union {NoReply}]
    /\ replies \subseteq Replies

\* A port is bound for a thread that asks.
PortsAsked == /\ \A p \in ports : \E t \in Busy : asking[t].port = p
              /\ Busy = {} => ~slot.pending

\* The query of a thread that no other met: the slot is its own, and what may still come with its numbers is its answer.
Alone(t) ==
    /\ Busy = {t} /\ slot.xid = asking[t].xid
    /\ \A r \in replies : r.port = asking[t].port /\ r.xid = asking[t].xid => r.host = asking[t].host
    /\ ~slot.pending /\ slot.resp.ok => slot.resp.host = asking[t].host

ResolverInv == ResolverTypes /\ PortsAsked /\ AnswerIsMine /\ \A t \in Busy \ overlap : Alone(t)

\* What was offered is of one packet, an ACK when the state is BOUND, unless another came after it.
LeaseInv ==
    /\ dhcp.router = 0 \/ dhcp.router = dhcp.ip
    /\ dhcp.state = "BOUND" => dhcp.type = "ACK" \/ late
    /\ dhcp \in [pc : {"boot", "discover", "request", "gave up", "done"}, state : {"INIT", "OFFERED", "BOUND"},
                 ip : Nat, router : Nat, type : {"", "OFFER", "ACK", "NAK"}]
    /\ late \in BOOLEAN
    /\ lease # NoLease => dhcp.pc = "done" /\ dhcp.state = "BOUND" /\ lease.router[2] = lease.ip

ArpInv == /\ arp \in Seq([ip : Ips, mac : Macs]) /\ heard \in [Ips -> Macs \union {0}]
          /\ NeighboursAreCurrent

NetInv == ResolverInv /\ LeaseInv /\ ArpInv

\* Nothing is asked, leased or known at boot.
LEMMA NetStarts == NetInit => NetInv
<1> SUFFICES ASSUME NetInit PROVE NetInv
  OBVIOUS
<1>1. Busy = {}
  BY DEF NetInit, Busy
<1>2. ResolverTypes /\ PortsAsked /\ AnswerIsMine
  BY <1>1 DEF NetInit, ResolverTypes, PortsAsked, AnswerIsMine, Failed
<1>3. LeaseInv
  BY DEF NetInit, LeaseInv
<1>4. ArpInv
  <2>0. arp = <<>> /\ heard = [i \in Ips |-> 0]
    BY DEF NetInit
  <2>1. Len(arp) = 0 /\ DOMAIN arp = {} /\ arp \in Seq([ip : Ips, mac : Macs])
    BY <2>0
  <2>2. 0 <= ArpCap
    BY NetAssumption
  <2>3. QED
    BY <2>0, <2>1, <2>2 DEF ArpInv, NeighboursAreCurrent
<1>5. QED
  BY <1>1, <1>2, <1>3, <1>4 DEF NetInv, ResolverInv

\* A query starts: alone, or with those it meets.
LEMMA ResolveKeeps ==
  ASSUME ResolverInv, NEW t \in Resolvers, NEW host \in Hosts, NEW p \in Ports, NEW x \in Xids, Resolve(t, host, p, x)
  PROVE  ResolverInv'
<1> DEFINE query == [host |-> host, port |-> p, xid |-> x]
<1>1. /\ t \notin Busy /\ \A r \in replies : <<r.port, r.xid>> # <<p, x>>
      /\ ports' = ports \union {p} /\ slot' = [pending |-> TRUE, xid |-> x, resp |-> NoReply]
      /\ asking' = [asking EXCEPT ![t] = query] /\ answer' = [answer EXCEPT ![t] = Failed]
      /\ overlap' = IF Busy = {} THEN overlap \ {t} ELSE overlap \union Busy \union {t}
  BY DEF Resolve
<1>2. PICK ok \in BOOLEAN : replies' = replies \union {[host |-> host, port |-> p, xid |-> x, ok |-> ok]}
  BY DEF Resolve
<1>3. query # NoQuery
  BY NetAssumption DEF NoQuery
<1>4. ResolverTypes /\ asking \in [Resolvers -> Queries \union {NoQuery}]
  BY DEF ResolverInv, ResolverTypes
<1>5. asking'[t] = query /\ \A u \in Resolvers : u # t => asking'[u] = asking[u]
  BY <1>1, <1>4
<1> HIDE DEF query
<1>6. Busy' = Busy \union {t}
  BY <1>3, <1>5 DEF Busy
<1>7. query.host = host /\ query.port = p /\ query.xid = x /\ query \in Queries
  BY DEF query, Queries
<1>8. PortsAsked'
  <2>4. ASSUME NEW q \in ports' PROVE \E u \in Busy' : asking'[u].port = q
    <3>1. CASE q = p
      BY <1>5, <1>6, <1>7, <3>1
    <3>2. CASE q \in ports
      <4>1. PICK u \in Busy : asking[u].port = q
        BY <3>2 DEF ResolverInv, PortsAsked
      <4>2. QED
        BY <1>1, <1>5, <1>6, <4>1 DEF Busy
    <3>3. QED
      BY <1>1, <2>4, <3>1, <3>2
  <2>5. QED
    BY <1>6, <2>4 DEF PortsAsked
<1>80. ResolverTypes'
  <2>1. asking' \in [Resolvers -> Queries \union {NoQuery}]
    BY <1>1, <1>4, <1>7
  <2>2. answer' \in [Resolvers -> [asked : Hosts \union {""}, got : Hosts \union {""}]]
    BY <1>1, <1>4 DEF ResolverTypes, Failed
  <2>3. replies' \subseteq Replies
    <3>1. [host |-> host, port |-> p, xid |-> x, ok |-> ok] \in Replies
      BY DEF Replies
    <3>2. QED
      BY <1>2, <1>4, <3>1 DEF ResolverTypes
  <2>4. slot' \in [pending : BOOLEAN, xid : Xids \union {0}, resp : Replies \union {NoReply}]
    BY <1>1
  <2>5. QED
    BY <2>1, <2>2, <2>3, <2>4 DEF ResolverTypes
<1>9. AnswerIsMine'
  <2>1. answer \in [Resolvers -> [asked : Hosts \union {""}, got : Hosts \union {""}]]
    BY DEF ResolverInv, ResolverTypes
  <2>2. ASSUME NEW u \in Resolvers \ overlap' PROVE answer'[u].asked = answer'[u].got
    <3>1. CASE u = t
      BY <1>1, <2>1, <3>1 DEF Failed
    <3>2. CASE u # t
      <4>1. u \in Resolvers \ overlap
        BY <1>1, <2>2, <3>2
      <4>2. QED
        BY <1>1, <2>1, <3>2, <4>1 DEF ResolverInv, AnswerIsMine
    <3>3. QED
      BY <3>1, <3>2
  <2>3. QED
    BY <2>2 DEF AnswerIsMine
<1>10. ASSUME NEW u \in Busy' \ overlap' PROVE Alone(u)'
  <2>1. Busy = {} /\ u = t
    BY <1>1, <1>6, <1>10
  <2>2. Busy' = {u} /\ slot'.xid = asking'[u].xid /\ slot'.pending
    BY <1>1, <1>5, <1>6, <1>7, <2>1
  <2>3. ASSUME NEW r \in replies', r.port = asking'[u].port /\ r.xid = asking'[u].xid PROVE r.host = asking'[u].host
    <3>1. r.port = p /\ r.xid = x /\ asking'[u].host = host
      BY <1>5, <1>7, <2>1, <2>3
    <3>2. r \notin replies
      BY <1>1, <3>1
    <3>3. QED
      BY <1>2, <3>1, <3>2
  <2>4. QED
    BY <2>2, <2>3 DEF Alone
<1>11. QED
  BY <1>8, <1>80, <1>9, <1>10 DEF ResolverInv

\* A query that could not be sent gives back what it took, and spoils that of another.
LEMMA FailKeeps ==
  ASSUME ResolverInv, NEW t \in Resolvers, NEW p \in Ports, NEW x \in Xids, ResolveFails(t, p, x)
  PROVE  ResolverInv'
<1>1. /\ t \notin Busy /\ answer' = [answer EXCEPT ![t] = Failed] /\ asking' = asking /\ replies' = replies
      /\ \/ slot' = slot /\ ports' = ports /\ overlap' = overlap
         \/ /\ slot' = [pending |-> FALSE, xid |-> x, resp |-> NoReply] /\ ports' = ports \ {p}
            /\ overlap' = overlap \union Busy
  BY DEF ResolveFails
<1>2. Busy' = Busy
  BY <1>1 DEF Busy
<1>3. PortsAsked'
  BY <1>1, <1>2 DEF ResolverInv, PortsAsked
<1>30. ResolverTypes'
  <2>1. answer' \in [Resolvers -> [asked : Hosts \union {""}, got : Hosts \union {""}]]
    BY <1>1 DEF ResolverInv, ResolverTypes, Failed
  <2>2. slot' \in [pending : BOOLEAN, xid : Xids \union {0}, resp : Replies \union {NoReply}]
    <3>1. [pending |-> FALSE, xid |-> x, resp |-> NoReply] \in [pending : BOOLEAN, xid : Xids \union {0}, resp : Replies \union {NoReply}]
      OBVIOUS
    <3>2. slot \in [pending : BOOLEAN, xid : Xids \union {0}, resp : Replies \union {NoReply}]
      BY DEF ResolverInv, ResolverTypes
    <3>3. QED
      BY <1>1, <3>1, <3>2
  <2>3. QED
    BY <1>1, <2>1, <2>2 DEF ResolverInv, ResolverTypes
<1>4. AnswerIsMine'
  <2>1. answer \in [Resolvers -> [asked : Hosts \union {""}, got : Hosts \union {""}]]
    BY DEF ResolverInv, ResolverTypes
  <2>2. QED
    BY <1>1, <2>1 DEF ResolverInv, AnswerIsMine, Failed
<1>5. ASSUME NEW u \in Busy' \ overlap' PROVE Alone(u)'
  <2>1. slot' = slot /\ ports' = ports /\ overlap' = overlap
    BY <1>1, <1>2, <1>5
  <2>2. Alone(u)
    BY <1>2, <1>5, <2>1 DEF ResolverInv
  <2>3. QED
    BY <1>1, <1>2, <2>1, <2>2 DEF Alone
<1>6. QED
  BY <1>3, <1>30, <1>4, <1>5 DEF ResolverInv

\* A datagram arrives at its port: it answers the query that waits there, or is dropped.
LEMMA DatagramKeeps ==
  ASSUME ResolverInv, NEW r \in replies, Datagram(r)
  PROVE  ResolverInv'
<1>1. /\ slot' = (IF r.port \in ports THEN DnsRx(r) ELSE slot) /\ replies' \subseteq replies
      /\ UNCHANGED <<asking, overlap, answer, ports>>
  BY DEF Datagram
<1>2. Busy' = Busy
  BY <1>1 DEF Busy
<1>3. slot' = slot \/ (r.port \in ports /\ slot.pending /\ r.xid = slot.xid /\ slot' = [slot EXCEPT !.pending = FALSE, !.resp = r])
  BY <1>1 DEF DnsRx
<1>4. PortsAsked' /\ ResolverTypes'
  BY <1>1, <1>2, <1>3 DEF ResolverInv, PortsAsked, ResolverTypes
<1>5. ASSUME NEW u \in Busy' \ overlap' PROVE Alone(u)'
  <2>1. Alone(u) /\ ResolverTypes
    BY <1>1, <1>2, <1>5 DEF ResolverInv
  <2>2. CASE slot' = slot
    BY <1>1, <1>2, <2>1, <2>2 DEF Alone
  <2>3. CASE r.port \in ports /\ slot.pending /\ r.xid = slot.xid /\ slot' = [slot EXCEPT !.pending = FALSE, !.resp = r]
    <3>1. r.port = asking[u].port
      BY <2>1, <2>3 DEF ResolverInv, PortsAsked, Alone
    <3>2. r.host = asking[u].host
      BY <2>1, <2>3, <3>1 DEF Alone
    <3>3. QED
      BY <1>1, <1>2, <2>1, <2>3, <3>2 DEF Alone, ResolverTypes
  <2>4. QED
    BY <1>3, <2>2, <2>3
<1>6. QED
  BY <1>1, <1>4, <1>5 DEF ResolverInv, AnswerIsMine

\* A query ends: what it returns is the answer to itself, if it met no other.
LEMMA ResolvedKeeps ==
  ASSUME ResolverInv, NEW t \in Resolvers, Resolved(t)
  PROVE  ResolverInv'
<1>1. /\ t \in Busy /\ ports' = ports \ {asking[t].port} /\ slot' = [slot EXCEPT !.pending = FALSE]
      /\ answer' = [answer EXCEPT ![t] = IF slot.pending \/ ~slot.resp.ok THEN Failed
                                         ELSE [asked |-> asking[t].host, got |-> slot.resp.host]]
      /\ asking' = [asking EXCEPT ![t] = NoQuery] /\ overlap' = overlap /\ replies' = replies
  BY DEF Resolved
<1>2. /\ asking \in [Resolvers -> Queries \union {NoQuery}]
      /\ answer \in [Resolvers -> [asked : Hosts \union {""}, got : Hosts \union {""}]] /\ ResolverTypes
  BY DEF ResolverInv, ResolverTypes
<1>3. asking'[t] = NoQuery /\ \A u \in Resolvers : u # t => asking'[u] = asking[u]
  BY <1>1, <1>2
<1>4. Busy' = Busy \ {t}
  BY <1>3 DEF Busy
<1>5. asking[t] \in Queries /\ slot'.pending = FALSE /\ slot'.xid = slot.xid /\ slot'.resp = slot.resp
  BY <1>1, <1>2 DEF Busy, ResolverTypes
<1>6. (slot.pending \/ ~slot.resp.ok) \/ slot.resp \in Replies
  <2>1. slot.resp \in Replies \union {NoReply}
    BY <1>2 DEF ResolverTypes
  <2>2. NoReply.ok = FALSE
    BY DEF NoReply
  <2>3. QED
    BY <2>1, <2>2
<1>7. ResolverTypes'
  <2>1. (IF slot.pending \/ ~slot.resp.ok THEN Failed ELSE [asked |-> asking[t].host, got |-> slot.resp.host])
        \in [asked : Hosts \union {""}, got : Hosts \union {""}]
    BY <1>5, <1>6 DEF Failed, Queries, Replies
  <2>2. answer' \in [Resolvers -> [asked : Hosts \union {""}, got : Hosts \union {""}]]
    BY <1>1, <1>2, <2>1
  <2>3. QED
    BY <1>1, <1>2, <2>2 DEF ResolverTypes
<1>8. PortsAsked'
  <2>1. ASSUME NEW q \in ports' PROVE \E u \in Busy' : asking'[u].port = q
    <3>1. PICK u \in Busy : asking[u].port = q
      BY <1>1, <2>1 DEF ResolverInv, PortsAsked
    <3>2. u # t /\ u \in Resolvers
      BY <1>1, <2>1, <3>1 DEF Busy
    <3>3. QED
      BY <1>3, <1>4, <3>1, <3>2
  <2>2. QED
    BY <1>5, <2>1 DEF PortsAsked
<1>9. AnswerIsMine'
  <2>1. ASSUME NEW u \in Resolvers \ overlap' PROVE answer'[u].asked = answer'[u].got
    <3>1. CASE u = t
      <4>1. Alone(t)
        BY <1>1, <2>1, <3>1 DEF ResolverInv
      <4>2. QED
        BY <1>1, <1>2, <3>1, <4>1 DEF Alone, Failed
    <3>2. CASE u # t
      BY <1>1, <1>2, <2>1, <3>2 DEF ResolverInv, AnswerIsMine
    <3>3. QED
      BY <3>1, <3>2
  <2>2. QED
    BY <2>1 DEF AnswerIsMine
<1>10. ASSUME NEW u \in Busy' \ overlap' PROVE Alone(u)'
  <2>1. Alone(u) /\ u # t
    BY <1>1, <1>4, <1>10 DEF ResolverInv
  <2>2. QED
    BY <1>1, <2>1 DEF Alone
<1>11. QED
  BY <1>7, <1>8, <1>9, <1>10 DEF ResolverInv

\* A packet of the lease is parsed whole.
LEMMA DhcpKeeps ==
  ASSUME LeaseInv, DhcpNext
  PROVE  LeaseInv'
<1>1. CASE Discover
  BY <1>1 DEF Discover, LeaseInv
<1>2. CASE Request
  BY <1>2 DEF Request, LeaseInv
<1>3. CASE Acquire
  <2>1. CASE dhcp.state = "BOUND"
    <3>1. dhcp' = [dhcp EXCEPT !.pc = "done"] /\ late' = late
          /\ lease'.ip = dhcp.ip /\ lease'.router = IF dhcp.router = 0 THEN <<"made", dhcp.ip>> ELSE <<"told", dhcp.router>>
      BY <1>3, <2>1 DEF Acquire
    <3>2. lease'.router[2] = lease'.ip
      <4>1. CASE dhcp.router = 0
        BY <3>1, <4>1
      <4>2. CASE dhcp.router # 0
        <5>1. lease'.router = <<"told", dhcp.router>> /\ dhcp.router = dhcp.ip
          BY <3>1, <4>2 DEF LeaseInv
        <5>2. QED
          BY <3>1, <5>1
      <4>3. QED
        BY <4>1, <4>2
    <3>3. QED
      BY <2>1, <3>1, <3>2 DEF LeaseInv
  <2>2. CASE dhcp.state # "BOUND"
    BY <1>3, <2>2 DEF Acquire, LeaseInv
  <2>3. QED
    BY <2>1, <2>2
<1>4. ASSUME NEW s \in Servers, NEW type \in {"OFFER", "ACK", "NAK"}, NEW router \in BOOLEAN, DhcpRx(s, type, router)
      PROVE  LeaseInv'
  <2> DEFINE told == Parsed(s, IF router THEN s ELSE 0, type)
  <2>1. s \in Nat
    BY NetAssumption
  <2>2. /\ told \in [pc : {"boot", "discover", "request", "gave up", "done"}, state : {"INIT", "OFFERED", "BOUND"},
                     ip : Nat, router : Nat, type : {"", "OFFER", "ACK", "NAK"}]
        /\ told.router = 0 \/ told.router = told.ip
        /\ told.type = type /\ told.state = dhcp.state
    BY <2>1 DEF Parsed, LeaseInv
  <2> HIDE DEF told
  <2>3. /\ dhcp.pc \in {"discover", "request"} /\ late' = (late \/ dhcp.state = "BOUND") /\ lease' = lease
        /\ \/ type = "ACK" /\ dhcp' = [told EXCEPT !.state = "BOUND"]
           \/ dhcp' = [told EXCEPT !.state = "OFFERED"]
           \/ dhcp' = told
    BY <1>4 DEF DhcpRx, told
  <2>4. lease = NoLease
    BY <2>3 DEF LeaseInv
  <2>5. QED
    BY <2>2, <2>3, <2>4 DEF LeaseInv
<1>5. QED
  BY <1>1, <1>2, <1>3, <1>4 DEF DhcpNext

\* An entry is put in the place of the one it replaces.
LEMMA ArpKeeps ==
  ASSUME ArpInv, NEW ip \in Ips, NEW mac \in Macs, ArpInsert(ip, mac)
  PROVE  ArpInv'
<1> DEFINE known == {i \in DOMAIN arp : arp[i].ip = ip}
<1> DEFINE entry == [ip |-> ip, mac |-> mac]
<1>1. /\ arp \in Seq([ip : Ips, mac : Macs]) /\ heard \in [Ips -> Macs \union {0}] /\ Len(arp) \in Nat
      /\ DOMAIN arp = 1 .. Len(arp) /\ Len(arp) <= ArpCap /\ ArpCap \in Nat \ {0}
      /\ \A i, j \in DOMAIN arp : arp[i].ip = arp[j].ip => i = j
      /\ \A i \in DOMAIN arp : arp[i] \in [ip : Ips, mac : Macs] /\ arp[i].mac = heard[arp[i].ip]
  <2>1. arp \in Seq([ip : Ips, mac : Macs]) /\ NeighboursAreCurrent /\ heard \in [Ips -> Macs \union {0}]
    BY DEF ArpInv
  <2>2. Len(arp) \in Nat /\ DOMAIN arp = 1 .. Len(arp) /\ \A i \in DOMAIN arp : arp[i] \in [ip : Ips, mac : Macs]
    <3>1. PICK E : E = [ip : Ips, mac : Macs]
      OBVIOUS
    <3>2. arp \in Seq(E)
      BY <2>1, <3>1
    <3>3. Len(arp) \in Nat /\ DOMAIN arp = 1 .. Len(arp) /\ \A i \in DOMAIN arp : arp[i] \in E
      BY <3>2
    <3>4. QED
      BY <3>1, <3>3
  <2>3. QED
    BY <2>1, <2>2, NetAssumption DEF NeighboursAreCurrent
<1>2. heard' = [heard EXCEPT ![ip] = mac] /\ heard' \in [Ips -> Macs \union {0}]
  BY <1>1 DEF ArpInsert
<1>3. entry \in [ip : Ips, mac : Macs] /\ entry.ip = ip /\ entry.mac = mac
  OBVIOUS
<1>4. ASSUME NEW k \in DOMAIN arp, arp' = [arp EXCEPT ![k] = entry], known \subseteq {k} PROVE ArpInv'
  <2>1. /\ arp' \in Seq([ip : Ips, mac : Macs]) /\ Len(arp') = Len(arp) /\ DOMAIN arp' = DOMAIN arp /\ arp'[k] = entry
        /\ \A i \in DOMAIN arp : i # k => arp'[i] = arp[i] /\ arp[i].ip # ip
    BY <1>1, <1>3, <1>4
  <2>2. QED
    BY <1>1, <1>2, <1>3, <2>1 DEF ArpInv, NeighboursAreCurrent
<1>5. CASE known # {}
  <2>1. PICK k \in known : TRUE
    BY <1>5
  <2>2. known = {k}
    BY <1>1, <2>1
  <2>3. Min(known) = k
    BY <1>1, <2>2 DEF Min
  <2>4. arp' = [arp EXCEPT ![k] = entry]
    BY <1>5, <2>3 DEF ArpInsert
  <2>5. QED
    BY <1>4, <2>1, <2>2, <2>4
<1>6. CASE known = {} /\ Len(arp) < ArpCap
  <2>1. arp' = Append(arp, entry)
    BY <1>6 DEF ArpInsert
  <2>2. /\ arp' \in Seq([ip : Ips, mac : Macs]) /\ Len(arp') = Len(arp) + 1 /\ DOMAIN arp' = 1 .. Len(arp) + 1
        /\ arp'[Len(arp) + 1] = entry /\ \A i \in DOMAIN arp : arp'[i] = arp[i] /\ arp[i].ip # ip
    BY <1>1, <1>3, <1>6, <2>1
  <2>3. QED
    <3>1. Len(arp') <= ArpCap
      BY <1>1, <1>6, <2>2
    <3>2. \A i \in DOMAIN arp' : i \in DOMAIN arp \/ i = Len(arp) + 1
      BY <1>1, <2>2
    <3>3. \A i \in DOMAIN arp : arp'[i] = arp[i] /\ arp'[i].ip # ip /\ arp'[i].mac = heard'[arp'[i].ip]
      BY <1>1, <1>2, <2>2
    <3>4. arp'[Len(arp) + 1].ip = ip /\ arp'[Len(arp) + 1].mac = heard'[ip]
      BY <1>1, <1>2, <1>3, <2>2
    <3>5. \A i, j \in DOMAIN arp' : arp'[i].ip = arp'[j].ip => i = j
      BY <1>1, <3>2, <3>3, <3>4
    <3>6. \A i \in DOMAIN arp' : arp'[i].mac = heard'[arp'[i].ip]
      BY <3>2, <3>3, <3>4
    <3>7. QED
      BY <1>2, <2>2, <3>1, <3>5, <3>6 DEF ArpInv, NeighboursAreCurrent
<1>7. CASE known = {} /\ ~(Len(arp) < ArpCap)
  <2>1. arp' = [arp EXCEPT ![1] = entry]
    BY <1>7 DEF ArpInsert
  <2>2. 1 \in DOMAIN arp
    BY <1>1, <1>7
  <2>3. QED
    <3>1. known \subseteq {1}
      BY <1>7
    <3>2. QED
      BY <1>4, <2>1, <2>2, <3>1
<1>8. QED
  BY <1>5, <1>6, <1>7

\* Every step of the resolver, of the lease and of the table keeps its part, and leaves the others alone.
LEMMA NetKeepsOn == NetInv /\ [NetNext]_netVars => NetInv'
<1> SUFFICES ASSUME NetInv, [NetNext]_netVars PROVE NetInv'
  OBVIOUS
<1>1. ASSUME UNCHANGED dnsVars PROVE ResolverInv'
  <2>1. /\ asking' = asking /\ overlap' = overlap /\ answer' = answer
        /\ slot' = slot /\ ports' = ports /\ replies' = replies
    BY <1>1 DEF dnsVars
  <2>2. ResolverTypes' /\ PortsAsked' /\ AnswerIsMine'
    BY <2>1 DEF NetInv, ResolverInv, ResolverTypes, PortsAsked, AnswerIsMine, Busy
  <2>3. Busy' = Busy /\ \A t \in Busy \ overlap : Alone(t)
    BY <2>1 DEF NetInv, ResolverInv, Busy
  <2>4. ASSUME NEW t \in Busy \ overlap PROVE Alone(t)'
    BY <2>1, <2>3 DEF Alone, Busy
  <2>5. QED
    BY <2>1, <2>2, <2>3, <2>4 DEF ResolverInv
<1>2. ASSUME UNCHANGED dhcpVars PROVE LeaseInv'
  BY <1>2 DEF NetInv, LeaseInv, dhcpVars
<1>3. ASSUME UNCHANGED arpVars PROVE ArpInv'
  BY <1>3 DEF NetInv, ArpInv, NeighboursAreCurrent, arpVars
<1>4. CASE DnsNext
  <2>1. UNCHANGED dhcpVars /\ UNCHANGED arpVars
    BY <1>4 DEF DnsNext, ResolveFails, Resolve, Datagram, Drop, Resolved
  <2>2. ResolverInv'
    <3>1. ASSUME NEW r \in replies, Drop(r) PROVE ResolverInv'
      <4>1. /\ asking' = asking /\ overlap' = overlap /\ answer' = answer
            /\ slot' = slot /\ ports' = ports /\ replies' = replies \ {r}
        BY <3>1 DEF Drop
      <4>2. ResolverTypes' /\ PortsAsked' /\ AnswerIsMine'
        BY <4>1 DEF NetInv, ResolverInv, ResolverTypes, PortsAsked, AnswerIsMine, Busy
      <4>3. Busy' = Busy /\ \A t \in Busy \ overlap : Alone(t)
        BY <4>1 DEF NetInv, ResolverInv, Busy
      <4>4. ASSUME NEW t \in Busy \ overlap PROVE Alone(t)'
        BY <4>1, <4>3 DEF Alone, Busy
      <4>5. QED
        BY <4>1, <4>2, <4>3, <4>4 DEF ResolverInv
    <3>2. QED
      BY <1>4, <3>1, ResolveKeeps, FailKeeps, DatagramKeeps, ResolvedKeeps DEF DnsNext, NetInv
  <2>3. QED
    BY <1>2, <1>3, <2>1, <2>2 DEF NetInv
<1>5. CASE DhcpNext
  <2>1. UNCHANGED dnsVars /\ UNCHANGED arpVars
    BY <1>5 DEF DhcpNext, Discover, Request, Acquire, DhcpRx
  <2>2. QED
    BY <1>1, <1>3, <1>5, <2>1, DhcpKeeps DEF NetInv
<1>6. CASE ArpNext
  <2>1. UNCHANGED dnsVars /\ UNCHANGED dhcpVars
    BY <1>6 DEF ArpNext, ArpInsert
  <2>2. QED
    BY <1>1, <1>2, <1>6, <2>1, ArpKeeps DEF NetInv, ArpNext
<1>7. CASE UNCHANGED netVars
  <2>1. UNCHANGED dnsVars /\ UNCHANGED dhcpVars /\ UNCHANGED arpVars
    BY <1>7 DEF netVars
  <2>2. QED
    BY <1>1, <1>2, <1>3, <2>1 DEF NetInv
<1>8. QED
  BY <1>4, <1>5, <1>6, <1>7 DEF NetNext

\* dns.c, dhcp.c and net.c: an address that is returned belongs to the name that was asked for, when no query met another; the slot
\* and the ports are free after the last query; a lease is of one packet; an address is in the table once, with what was last heard.
THEOREM NetServicesAreSound == NetSpec => []NetServicesSound
<1>1. NetInv => NetServicesSound
  BY DEF NetInv, ResolverInv, PortsAsked, LeaseInv, ArpInv, NetServicesSound, NothingBoundIdle, LeaseIsOnePacket
<1>2. QED
  BY <1>1, NetStarts, NetKeepsOn, PTL DEF NetSpec

=============================================================================
