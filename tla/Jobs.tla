-------------------------------- MODULE Jobs --------------------------------
(***************************************************************************)
(* Who waits for whom in user space: the shell (userspace/sh/sh.c) spawns  *)
(* the stages of a command, makes one of them the target of Ctrl-C and     *)
(* waits; init (userspace/init/init.c) keeps its daemons running until the *)
(* shell ends.  Both use wait(), which takes whichever child exited        *)
(* (Threads.tla); a child that is not there yet is a number not given out. *)
(***************************************************************************)
EXTENDS Integers, Sequences, FiniteSets

CONSTANTS MaxKids,    \* bound: processes the shell spawns
          MaxStages,  \* MAX_SEGMENTS
          Daemons,    \* g_supervised
          MaxDeaths   \* bound: deaths of daemons

ASSUME JobsAssumption == MaxKids \in Nat /\ MaxStages \in Nat \ {0} /\ MaxDeaths \in Nat

VARIABLES
    sh,      \* where the shell is; the stages left to spawn, how many there are, which were
             \*   spawned, whether one failed, the children left to wait for, and the code of the
             \*   last one reaped
    kids,    \* the shell's children: state and exit code
    fg,      \* g_fg_pid: 0, or a child
    status,  \* g_last_exit
    mixed,   \* history: the shell has started a background job
    sup,     \* of each daemon: the instance init believes in; 0 when it could not be spawned
    insts,   \* of each daemon: the state of each instance
    init     \* where init is

jobsVars == <<sh, kids, fg, status, mixed, sup, insts, init>>
shellVars == <<sh, kids, fg, status, mixed>>
initVars == <<sup, insts, init>>

NotFound == 127
AtPrompt == [pc |-> "prompt", left |-> 0, stages |-> 0, mine |-> {}, failed |-> FALSE, bg |-> FALSE,
             waits |-> 0, last |-> 0]

JobsInit ==
    /\ sh = AtPrompt /\ kids = <<>> /\ fg = 0 /\ status = 0 /\ mixed = FALSE
    /\ sup = [d \in Daemons |-> 1] /\ insts = [d \in Daemons |-> <<"running">>] /\ init = "waiting"

(***************************************************************************)
(* The shell.                                                              *)
(***************************************************************************)
\* A line is read: a command of n stages; the `&` of a pipeline has no effect.
Command(n, bg) ==
    /\ sh.pc = "prompt" /\ Len(kids) + n <= MaxKids
    /\ sh' = [AtPrompt EXCEPT !.pc = "spawn", !.left = n, !.stages = n, !.bg = bg /\ n = 1]
    /\ UNCHANGED <<kids, fg, status, mixed, initVars>>

\* spawn, spawn_redir or spawn_pipe of the next stage.
SpawnStage ==
    /\ sh.pc = "spawn" /\ sh.left > 0
    /\ \/ /\ kids' = Append(kids, [st |-> "running", code |-> 0])
          /\ sh' = [sh EXCEPT !.left = @ - 1, !.mine = @ \union {Len(kids')}]
       \/ sh' = [sh EXCEPT !.left = @ - 1, !.failed = TRUE] /\ UNCHANGED kids
    /\ UNCHANGED <<fg, status, mixed, initVars>>

Newest(S) == CHOOSE t \in S : \A u \in S : u <= t

\* Mutant: the waits stop at the last stage.
Waits_One(S) == IF S = {} THEN 0 ELSE 1

\* One wait for every child that was spawned.
Waits(S) == Cardinality(S)

\* All stages are there: the shell goes back to the prompt, or waits with the last stage in the
\* foreground.
Settle ==
    /\ sh.pc = "spawn" /\ sh.left = 0
    /\ IF sh.mine = {} \/ sh.bg
       THEN /\ sh' = [AtPrompt EXCEPT !.mine = sh.mine, !.bg = sh.bg]
            /\ status' = IF sh.mine = {} THEN NotFound ELSE 0
            /\ mixed' = (mixed \/ sh.mine # {}) /\ UNCHANGED fg
       ELSE /\ sh' = [sh EXCEPT !.pc = "wait", !.waits = Waits(sh.mine)]
            /\ fg' = Newest(sh.mine) /\ UNCHANGED <<status, mixed>>
    /\ UNCHANGED <<kids, initVars>>

\* wait() takes a child that exited, of this command or not; after the last one, the prompt.
WaitOne(t) ==
    /\ sh.pc = "wait" /\ kids[t].st = "exited"
    /\ kids' = [kids EXCEPT ![t].st = "reaped"]
    /\ IF sh.waits > 1
       THEN sh' = [sh EXCEPT !.waits = @ - 1, !.last = kids[t].code] /\ UNCHANGED <<fg, status>>
       ELSE /\ sh' = [sh EXCEPT !.pc = "prompt", !.waits = 0, !.last = kids[t].code]
            /\ fg' = 0 /\ status' = IF sh.failed THEN NotFound ELSE kids[t].code
    /\ UNCHANGED <<mixed, initVars>>

\* A child exits, or the console gives Ctrl-C to the foreground process.
Exits(t, code) ==
    /\ kids[t].st = "running" /\ kids' = [kids EXCEPT ![t] = [st |-> "exited", code |-> code]]
    /\ UNCHANGED <<sh, fg, status, mixed, initVars>>

CtrlC == fg # 0 /\ Exits(fg, 130)

\* exit, or end of file at the prompt: thread_exit reaps the children that have exited, the
\* others have no parent now.
ShellExits ==
    /\ sh.pc = "prompt" /\ sh' = [AtPrompt EXCEPT !.pc = "gone"]
    /\ kids' = [t \in DOMAIN kids |-> IF kids[t].st = "exited" THEN [kids[t] EXCEPT !.st = "reaped"] ELSE kids[t]]
    /\ UNCHANGED <<fg, status, mixed, initVars>>

ShellNext ==
    \/ \E n \in 1 .. MaxStages, bg \in BOOLEAN : Command(n, bg)
    \/ SpawnStage \/ Settle \/ CtrlC \/ ShellExits
    \/ \E t \in DOMAIN kids : WaitOne(t) \/ \E code \in {0, 1} : Exits(t, code)

(***************************************************************************)
(* Init.                                                                   *)
(***************************************************************************)
Deaths == {p \in Daemons \X (1 .. MaxDeaths) : p[2] \in DOMAIN insts[p[1]] /\ insts[p[1]][p[2]] # "running"}

Dies(d) ==
    /\ sup[d] # 0 /\ insts[d][sup[d]] = "running" /\ Cardinality(Deaths) < MaxDeaths
    /\ insts' = [insts EXCEPT ![d][sup[d]] = "exited"]
    /\ UNCHANGED <<sup, init, shellVars>>

Respawned(d) == Len(insts[d]) + 1

\* The loop of main: wait() took a daemon that died, and supervise_check spawns it again, which
\* may fail for good.
Respawn(d) ==
    /\ init = "waiting" /\ sup[d] # 0 /\ insts[d][sup[d]] = "exited"
    /\ \/ /\ insts' = [insts EXCEPT ![d] = Append([@ EXCEPT ![sup[d]] = "reaped"], "running")]
          /\ sup' = [sup EXCEPT ![d] = Respawned(d)]
       \/ /\ insts' = [insts EXCEPT ![d][sup[d]] = "reaped"]
          /\ sup' = [sup EXCEPT ![d] = 0]
    /\ UNCHANGED <<init, shellVars>>

\* wait() took the shell: init ends.
InitExits ==
    /\ init = "waiting" /\ sh.pc = "gone" /\ init' = "gone"
    /\ UNCHANGED <<sup, insts, shellVars>>

JobsNext == ShellNext \/ InitExits \/ \E d \in Daemons : Dies(d) \/ Respawn(d)

JobsSpec == JobsInit /\ [][JobsNext]_jobsVars

(***************************************************************************)
(* Properties.                                                             *)
(***************************************************************************)
\* The shell prompts again when every stage of the command has ended and was reaped, whatever
\* the order they end in and whichever could not be spawned; its $? is then the code of one of
\* them.  Both only as long as no background job was ever started: wait() may take that instead.
PromptIsIdle ==
    sh.pc = "prompt" /\ ~mixed =>
        /\ \A t \in DOMAIN kids : kids[t].st = "reaped"
        /\ sh.mine # {} => status \in {NotFound} \union {kids[t].code : t \in sh.mine}

\* Ctrl-C reaches a stage of the command the shell waits for, and nothing at the prompt.
ForegroundIsMine == IF sh.pc = "wait" THEN fg \in sh.mine ELSE fg = 0

\* A daemon never runs twice, and while init waits a daemon it has not given up runs, or its
\* death is there to be reaped.
DaemonsAreKept ==
    \A d \in Daemons :
        /\ \A i \in DOMAIN insts[d] : insts[d][i] # "reaped" => i = sup[d]
        /\ sup[d] # 0 => insts[d][sup[d]] # "reaped"

JobsSound == PromptIsIdle /\ ForegroundIsMine /\ DaemonsAreKept
=============================================================================
