------------------------------ MODULE Threads ------------------------------
(***************************************************************************)
(* kernel/core/thread.c: the per-CPU round-robin scheduler, blocking and   *)
(* waking, sleeping, thread_exit and thread_waitpid, signals.              *)
(*                                                                         *)
(* A step is what a thread does between two points where another thread,   *)
(* or another CPU, may run: `pc' names the point a thread has reached in   *)
(* the kernel.  yield() is one step: it masks interrupts and what it reads *)
(* of other CPUs is read under their locks.                                *)
(*                                                                         *)
(* A system call enters with interrupts masked, but cswitch_to saves       *)
(* SPSR = 0x345 (interrupts on) whatever they were, so a thread that has   *)
(* been switched out inside a system call goes on with interrupts enabled: *)
(* KernelPreempts = TRUE is the code, FALSE is what its comments assume.   *)
(***************************************************************************)
EXTENDS Naturals, SequencesExt

CONSTANTS Thread,          \* the threads of one execution, born or not yet
          Boot,            \* the thread of kernel_main
          Cpu,             \* the CPUs that are up
          Home,            \* home_cpu of every thread
          HasIdle,         \* the CPUs with an idle thread (not the boot CPU)
          Token,           \* what a thread may block on
          Does,            \* what each thread may do
          KernelPreempts,  \* do interrupts come back on in a system call?
          Idle, NoThread, NoToken

Op == {"create", "yield", "block", "until", "futex", "post", "sleep",
       "waitpid", "exit", "kill"}

ASSUME ThreadsAssumption ==
    /\ IsFiniteSet(Thread) /\ Boot \in Thread
    /\ Home \in [Thread -> Cpu]
    /\ HasIdle \subseteq Cpu \ {Home[Boot]}
    /\ Does \in [Thread -> SUBSET Op]
    /\ KernelPreempts \in BOOLEAN
    /\ {Idle, NoThread} \cap Thread = {}
    /\ NoToken \notin Token

VARIABLES
    state, blockedOn, wakeAt, sig, parent,  \* fields of struct thread
    stack,     \* its stack: "none" (the boot stack), "held" or "freed"
    pc,        \* the point it has reached
    tok,       \* the token of the call it is in
    target,    \* the thread it is about to make READY
    passed,    \* has the time it asked to be woken at passed?
    irq,       \* are interrupts enabled where it runs?
    runq, current, toFree,  \* fields of struct cpu
    data,      \* for each token: is what its readers wait for there?
    cut        \* the threads interrupted between a test and what follows from it

fields == <<state, blockedOn, wakeAt, sig, parent, stack>>
local == <<pc, tok, target, passed, irq>>
cpus == <<runq, current, toFree>>
vars == <<fields, local, cpus, data, cut>>

\* The thread is the one its CPU runs.
Runs(t) == current[Home[t]] = t

\* It has come to p and can go on.
At(t, p) == Runs(t) /\ pc[t] = p

Goto(t, p) == pc' = [pc EXCEPT ![t] = p]

Alive(t) == pc[t] \notin {"unborn", "gone"}

Init ==
    /\ state = [t \in Thread |-> IF t = Boot THEN "RUNNING" ELSE "none"]
    /\ blockedOn = [t \in Thread |-> NoToken]
    /\ wakeAt = [t \in Thread |-> "none"]
    /\ sig = [t \in Thread |-> {}]
    /\ parent = [t \in Thread |-> NoThread]
    /\ stack = [t \in Thread |-> "none"]
    /\ pc = [t \in Thread |-> IF t = Boot THEN "run" ELSE "unborn"]
    /\ tok = [t \in Thread |-> NoToken]
    /\ target = [t \in Thread |-> NoThread]
    /\ passed = [t \in Thread |-> FALSE]
    /\ irq = [t \in Thread |-> t = Boot]
    /\ runq = [c \in Cpu |-> <<>>]
    /\ current = [c \in Cpu |-> IF c = Home[Boot] THEN Boot ELSE Idle]
    /\ toFree = [c \in Cpu |-> NoThread]
    /\ data = [k \in Token |-> FALSE]
    /\ cut = {}

-----------------------------------------------------------------------------
\* The orders in which the threads of S may come to the run queues of their home CPUs.
Orders(S) ==
    LET On(c) == SetToSeqs({t \in S : Home[t] = c})
    IN  {o \in [Cpu -> UNION {On(c) : c \in Cpu}] : \A c \in Cpu : o[c] \in On(c)}

\* runq_push_to, for the threads of o.
Pushed(q, o) == [c \in Cpu |-> q[c] \o o[c]]

\* READY and on the run queue of its home CPU: the end of every wake.
MakeReady(S) ==
    /\ state' = [t \in Thread |-> IF t \in S THEN "READY" ELSE state[t]]
    /\ blockedOn' = [t \in Thread |-> IF t \in S THEN NoToken ELSE blockedOn[t]]
    /\ \E order \in Orders(S) : runq' = Pushed(runq, order)

\* Mutant: the walk looks at the deadlines of BLOCKED threads only.
Due_BlockedOnly(c) ==
    { t \in Thread : /\ t # current[c]
                     /\ state[t] = "BLOCKED" /\ wakeAt[t] = "set" /\ passed[t] }

\* yield() finds these threads' time has come; not the one it runs on.
Due(c) ==
    { t \in Thread : /\ t # current[c]
                     /\ \/ state[t] = "SLEEPING"
                        \/ state[t] = "BLOCKED" /\ wakeAt[t] = "set"
                     /\ passed[t] }

\* The thread yield() runs next, q being the queue of c.
NextOn(c, q) ==
    IF q # <<>> THEN Head(q) ELSE IF c \in HasIdle THEN Idle ELSE current[c]

\* Mutant: whatever the state of the outgoing thread.
Requeued_Always(prev) == prev # Idle

\* Is the outgoing thread queued again?
Requeued(prev) == prev # Idle /\ state[prev] = "RUNNING"

(* yield() on CPU c.  It frees the stack left in stack_to_free, wakes the  *)
(* sleepers whose time has come (in some order of the list of all threads), *)
(* and takes the next thread.  With an empty queue and no idle thread it   *)
(* returns at once.  The outgoing thread is queued again if it is RUNNING. *)
Yield(c) ==
    LET prev == current[c]
        due == Due(c)
    IN  \E order \in Orders(due) :
        LET q == Pushed(runq, order)
            next == NextOn(c, q[c])
            stays == q[c] = <<>> /\ next = prev
            requeue == ~stays /\ Requeued(prev)
            rest == IF q[c] # <<>> THEN Tail(q[c]) ELSE <<>>
        IN  /\ toFree' = [toFree EXCEPT ![c] = NoThread]
            /\ stack' = [t \in Thread |->
                            IF t = toFree[c] /\ stack[t] = "held" THEN "freed" ELSE stack[t]]
            /\ current' = [current EXCEPT ![c] = next]
            /\ runq' = IF requeue THEN [q EXCEPT ![c] = Append(rest, prev)]
                       ELSE [q EXCEPT ![c] = rest]
            /\ state' = [t \in Thread |->
                            IF t = next /\ ~stays THEN "RUNNING"
                            ELSE IF t \in due \/ (t = prev /\ requeue) THEN "READY"
                            ELSE state[t]]
            /\ blockedOn' = [t \in Thread |->
                                IF t \in due /\ state[t] = "BLOCKED" THEN NoToken
                                ELSE blockedOn[t]]
            /\ irq' = [t \in Thread |->
                          IF t = prev /\ next # prev THEN KernelPreempts \/ irq[t]
                          ELSE irq[t]]

\* What yield() leaves alone (the caller moves its own pc).
YieldFrame == UNCHANGED <<wakeAt, sig, parent, tok, target, passed, data>>

(* Where a test has been made and what follows from it has not: nothing to *)
(* read, but not BLOCKED yet; no child has exited, but not WAITING yet;    *)
(* EXITED, and the parent not told yet.                                    *)
Between == {"park", "park until", "wait", "tell", "tell wait", "push sigchld", "push waiting"}

\* The timer tick (or IPI_RESCHED) interrupts the thread c runs.
Preempt(c) ==
    /\ current[c] # Idle
    /\ irq[current[c]]
    /\ Yield(c)
    /\ cut' = IF pc[current[c]] \in Between THEN cut \union {current[c]} ELSE cut
    /\ UNCHANGED pc
    /\ YieldFrame

\* cpu_idle_loop: an interrupt ends the wfi.
IdleYield(c) ==
    /\ current[c] = Idle
    /\ Yield(c)
    /\ UNCHANGED <<pc, cut>>
    /\ YieldFrame

\* The clock passes the time t asked to be woken at.
Tick(t) ==
    /\ ~passed[t]
    /\ wakeAt[t] = "set" \/ pc[t] \in {"check until", "park until", "sleep"}
    /\ passed' = [passed EXCEPT ![t] = TRUE]
    /\ UNCHANGED <<fields, cpus, data, pc, tok, target, irq, cut>>
-----------------------------------------------------------------------------
\* A call from user mode comes to p with interrupts masked (a kernel thread
\* calls the same functions with interrupts enabled: KernelPreempts).
Enters(t, op, p) ==
    /\ At(t, "run")
    /\ op \in Does[t]
    /\ Goto(t, p)
    /\ irq' = [irq EXCEPT ![t] = FALSE]

(* The tail of svc_dispatch: SIGCHLD is ignored by default, any other      *)
(* signal ends the thread.                                                 *)
Return(t) ==
    /\ At(t, "ret")
    /\ sig' = [sig EXCEPT ![t] = {}]
    /\ IF "INT" \in sig[t]
       THEN Goto(t, "exit") /\ UNCHANGED irq
       ELSE Goto(t, "run") /\ irq' = [irq EXCEPT ![t] = TRUE]
    /\ UNCHANGED <<state, blockedOn, wakeAt, parent, stack, tok, target, passed, cpus, data>>

\* thread_create, user_thread_create*: the child starts on its home CPU.
Create(t, u) ==
    /\ At(t, "run") /\ "create" \in Does[t]
    /\ pc[u] = "unborn"
    /\ state' = [state EXCEPT ![u] = "READY"]
    /\ parent' = [parent EXCEPT ![u] = t]
    /\ stack' = [stack EXCEPT ![u] = "held"]
    /\ pc' = [pc EXCEPT ![u] = "run"]
    /\ irq' = [irq EXCEPT ![u] = TRUE]
    /\ \E order \in Orders({u}) : runq' = Pushed(runq, order)
    /\ UNCHANGED <<blockedOn, wakeAt, sig, tok, target, passed, current, toFree, data>>

\* sys_yield.
CallYield(t) ==
    /\ At(t, "run") /\ "yield" \in Does[t]
    /\ Yield(Home[t])
    /\ UNCHANGED pc
    /\ YieldFrame

(* A read that waits for k: pipe_read_until, and the loops of srv.c, which *)
(* have no deadline.                                                       *)
Read(t, k, op) ==
    /\ op \in {"block", "until"}
    /\ Enters(t, op, IF op = "block" THEN "check" ELSE "check until")
    /\ tok' = [tok EXCEPT ![t] = k]
    /\ passed' = IF op = "until" THEN [passed EXCEPT ![t] = FALSE] ELSE passed
    /\ UNCHANGED <<fields, target, cpus, data>>

\* There is something to read, the deadline has passed, or t has to wait.
Check(t) ==
    /\ \E p \in {"check", "check until"} :
           /\ At(t, p)
           /\ IF data[tok[t]]
              THEN Goto(t, "ret") /\ data' = [data EXCEPT ![tok[t]] = FALSE]
              ELSE /\ UNCHANGED data
                   /\ CASE p = "check" -> Goto(t, "park")
                        [] p = "check until" /\ passed[t] -> Goto(t, "ret")
                        [] p = "check until" /\ ~passed[t] -> Goto(t, "park until")
    /\ UNCHANGED <<fields, tok, target, passed, irq, cpus>>

\* thread_block_on and thread_block_on_until, up to yield().
Park(t) ==
    /\ \/ At(t, "park") /\ Goto(t, "parked") /\ UNCHANGED wakeAt
       \/ /\ At(t, "park until") /\ Goto(t, "parked until")
          /\ wakeAt' = [wakeAt EXCEPT ![t] = "set"]
    /\ blockedOn' = [blockedOn EXCEPT ![t] = tok[t]]
    /\ state' = [state EXCEPT ![t] = "BLOCKED"]
    /\ UNCHANGED <<sig, parent, stack, tok, target, passed, irq, cpus, data>>

\* yield() in thread_block_on; t goes on where its reader calls Woken.
Parked(t) ==
    /\ \/ At(t, "parked") /\ Goto(t, "woken")
       \/ At(t, "parked until") /\ Goto(t, "woken until")
    /\ Yield(Home[t])
    /\ YieldFrame

\* Data first, then a signal, then around the loop.
Woken(t) ==
    /\ \E p \in {"woken", "woken until"} :
           /\ At(t, p)
           /\ wakeAt' = IF p = "woken" THEN wakeAt ELSE [wakeAt EXCEPT ![t] = "none"]
           /\ IF ~data[tok[t]] /\ sig[t] # {}
              THEN Goto(t, "ret")
              ELSE Goto(t, IF p = "woken" THEN "check" ELSE "check until")
    /\ UNCHANGED <<state, blockedOn, sig, parent, stack, tok, target, passed, irq, cpus, data>>

\* Mutant: the word is not read again under the lock.
FutexWait_NoCheck(t, k) ==
    /\ At(t, "run") /\ "futex" \in Does[t]
    /\ blockedOn' = [blockedOn EXCEPT ![t] = k]
    /\ state' = [state EXCEPT ![t] = "BLOCKED"]
    /\ Goto(t, "futex parked")
    /\ irq' = [irq EXCEPT ![t] = FALSE]
    /\ UNCHANGED <<wakeAt, sig, parent, stack, tok, target, passed, cpus, data>>

\* sys_futex_wait: the word is read and t is BLOCKED under g_all_lock.
FutexWait(t, k) ==
    /\ At(t, "run") /\ "futex" \in Does[t]
    /\ IF data[k]
       THEN /\ data' = [data EXCEPT ![k] = FALSE]
            /\ UNCHANGED <<blockedOn, state, pc, irq>>
       ELSE /\ blockedOn' = [blockedOn EXCEPT ![t] = k]
            /\ state' = [state EXCEPT ![t] = "BLOCKED"]
            /\ Goto(t, "futex parked")
            /\ irq' = [irq EXCEPT ![t] = FALSE]
            /\ UNCHANGED data
    /\ UNCHANGED <<wakeAt, sig, parent, stack, tok, target, passed, cpus>>

FutexParked(t) ==
    /\ At(t, "futex parked") /\ Goto(t, "ret")
    /\ Yield(Home[t])
    /\ YieldFrame

\* Mutant: the writer does not wake its readers.
Post_NoWake(t, k) ==
    /\ Enters(t, "post", "ret")
    /\ tok' = [tok EXCEPT ![t] = k]
    /\ data' = [data EXCEPT ![k] = TRUE]
    /\ UNCHANGED <<fields, target, passed, cpus>>

\* pipe_write, mutex_unlock...: what the readers wait for is there,
Post(t, k) ==
    /\ Enters(t, "post", "wake")
    /\ tok' = [tok EXCEPT ![t] = k]
    /\ data' = [data EXCEPT ![k] = TRUE]
    /\ UNCHANGED <<fields, target, passed, cpus>>

\* and thread_wake_blocked makes all of them READY.
Wake(t) ==
    /\ At(t, "wake") /\ Goto(t, "ret")
    /\ MakeReady({ u \in Thread : state[u] = "BLOCKED" /\ blockedOn[u] = tok[t] })
    /\ UNCHANGED <<wakeAt, sig, parent, stack, tok, target, passed, irq, current, toFree, data>>

\* sys_sleep_ms turns interrupts on for thread_sleep_ms.
Sleep(t) ==
    /\ At(t, "run") /\ "sleep" \in Does[t]
    /\ Goto(t, "sleep")
    /\ passed' = [passed EXCEPT ![t] = FALSE]
    /\ UNCHANGED <<fields, tok, target, irq, cpus, data>>

SleepLoop(t) ==
    /\ At(t, "sleep")
    /\ IF passed[t] \/ sig[t] # {}
       THEN /\ state' = [state EXCEPT ![t] = "RUNNING"]
            /\ Goto(t, "ret")
            /\ irq' = [irq EXCEPT ![t] = FALSE]
            /\ UNCHANGED wakeAt
       ELSE /\ state' = [state EXCEPT ![t] = "SLEEPING"]
            /\ wakeAt' = [wakeAt EXCEPT ![t] = "set"]
            /\ Goto(t, "sleeping")
            /\ UNCHANGED irq
    /\ UNCHANGED <<blockedOn, sig, parent, stack, tok, target, passed, cpus, data>>

Sleeping(t) ==
    /\ At(t, "sleeping") /\ Goto(t, "sleep")
    /\ Yield(Home[t])
    /\ YieldFrame

\* thread_waitpid for any child.
Waitpid(t) ==
    /\ Enters(t, "waitpid", "scan")
    /\ UNCHANGED <<fields, tok, target, passed, cpus, data>>

Children(t) == { u \in Thread : Alive(u) /\ parent[u] = t }

Zombies(t) == { u \in Children(t) : state[u] = "EXITED" }

\* The struct, the address space and what is left of the stack are freed.
Reap(S) ==
    stack' = [u \in Thread |-> IF u \in S /\ stack[u] = "held" THEN "freed" ELSE stack[u]]

\* An exited child is reaped; with none, t has to wait unless it has no child.
Scan(t) ==
    /\ At(t, "scan")
    /\ \/ \E u \in Zombies(t) :
              /\ Reap({u})
              /\ pc' = [pc EXCEPT ![t] = "ret", ![u] = "gone"]
       \/ /\ Zombies(t) = {}
          /\ Goto(t, IF Children(t) = {} THEN "ret" ELSE "wait")
          /\ UNCHANGED stack
    /\ UNCHANGED <<state, blockedOn, wakeAt, sig, parent, tok, target, passed, irq, cpus, data>>

Wait(t) ==
    /\ At(t, "wait") /\ Goto(t, "waiting")
    /\ state' = [state EXCEPT ![t] = "WAITING"]
    /\ UNCHANGED <<blockedOn, wakeAt, sig, parent, stack, tok, target, passed, irq, cpus, data>>

Waiting(t) ==
    /\ At(t, "waiting") /\ Goto(t, "scan")
    /\ Yield(Home[t])
    /\ YieldFrame

Exit(t) ==
    /\ Enters(t, "exit", "exit")
    /\ UNCHANGED <<fields, tok, target, passed, cpus, data>>

\* thread_exit up to vfs_close_all, which may wait for a file server.
Close(t) ==
    /\ At(t, "exit") /\ Goto(t, "mark")
    /\ \E b \in {irq[t], KernelPreempts \/ irq[t]} : irq' = [irq EXCEPT ![t] = b]
    /\ UNCHANGED <<fields, tok, target, passed, cpus, data>>

\* EXITED; the exited children are reaped, the others have no parent now.
Mark(t) ==
    /\ At(t, "mark")
    /\ state' = [state EXCEPT ![t] = "EXITED"]
    /\ Reap(Zombies(t))
    /\ parent' = [u \in Thread |-> IF u \in Children(t) \ Zombies(t) THEN NoThread ELSE parent[u]]
    /\ pc' = [u \in Thread |-> IF u = t THEN "tell"
                               ELSE IF u \in Zombies(t) THEN "gone" ELSE pc[u]]
    /\ toFree' = [toFree EXCEPT ![Home[t]] = t]
    /\ UNCHANGED <<blockedOn, wakeAt, sig, tok, target, passed, irq, runq, current, data>>

\* Mutant: whatever the state of the thread that is signalled.
Signal_Always(t, u, s, push, p) ==
    /\ sig' = [sig EXCEPT ![u] = @ \union {s}]
    /\ Goto(t, push) /\ target' = [target EXCEPT ![t] = u]

\* thread_signal_pid(u, s) up to its test of u's state; p comes next.
Signal(t, u, s, push, p) ==
    /\ sig' = [sig EXCEPT ![u] = @ \union {s}]
    /\ IF state[u] \in {"BLOCKED", "SLEEPING"}
       THEN Goto(t, push) /\ target' = [target EXCEPT ![t] = u]
       ELSE Goto(t, p) /\ UNCHANGED target

\* SIGCHLD for the parent.
Tell(t) ==
    /\ At(t, "tell")
    /\ IF parent[t] = NoThread
       THEN Goto(t, "leave") /\ UNCHANGED <<sig, target>>
       ELSE Signal(t, parent[t], "CHLD", "push sigchld", "tell wait")
    /\ UNCHANGED <<state, blockedOn, wakeAt, parent, stack, tok, passed, irq, cpus, data>>

\* Is the parent in wait()?
TellWait(t) ==
    /\ At(t, "tell wait")
    /\ IF state[parent[t]] = "WAITING"
       THEN Goto(t, "push waiting") /\ target' = [target EXCEPT ![t] = parent[t]]
       ELSE Goto(t, "leave") /\ UNCHANGED target
    /\ UNCHANGED <<fields, tok, passed, irq, cpus, data>>

\* sys_kill.
Kill(t, u) ==
    /\ At(t, "run") /\ "kill" \in Does[t]
    /\ Alive(u) /\ "INT" \notin sig[u]
    /\ Signal(t, u, "INT", "push kill", "ret")
    /\ irq' = [irq EXCEPT ![t] = FALSE]
    /\ UNCHANGED <<state, blockedOn, wakeAt, parent, stack, tok, passed, cpus, data>>

\* Where the code goes on after it has made READY the thread it tested before.
AfterPush == [p \in {"push sigchld", "push waiting", "push kill"} |->
    CASE p = "push sigchld" -> "tell wait"
      [] p = "push waiting" -> "leave"
      [] p = "push kill" -> "ret"]

Push(t) ==
    /\ \E p \in DOMAIN AfterPush : At(t, p) /\ Goto(t, AfterPush[p])
    /\ MakeReady({target[t]})
    /\ UNCHANGED <<wakeAt, sig, parent, stack, tok, target, passed, irq, current, toFree, data>>

\* The last yield() of a thread; should it return, the thread is in wfe for good.
Leave(t) ==
    /\ At(t, "leave") /\ Goto(t, "halt")
    /\ Yield(Home[t])
    /\ YieldFrame

\* What t does in user mode.
Call(t) ==
    /\ \/ \E u \in Thread : Create(t, u) \/ Kill(t, u)
       \/ CallYield(t) \/ Sleep(t) \/ Waitpid(t) \/ Exit(t)
       \/ \E k \in Token : Read(t, k, "block") \/ Read(t, k, "until") \/ FutexWait(t, k) \/ Post(t, k)
    /\ UNCHANGED cut

\* t tests again what it waits for.
Retests(t) == pc[t] \in {"check", "check until", "scan"}

\* What it does in the kernel.
KernelStep(t) ==
    \/ Return(t) \/ Check(t) \/ Park(t) \/ Parked(t) \/ Woken(t) \/ FutexParked(t) \/ Wake(t)
    \/ SleepLoop(t) \/ Sleeping(t) \/ Scan(t) \/ Wait(t) \/ Waiting(t)
    \/ Close(t) \/ Mark(t) \/ Tell(t) \/ TellWait(t) \/ Push(t) \/ Leave(t)

Kernel(t) == KernelStep(t) /\ cut' = IF Retests(t) THEN cut \ {t} ELSE cut

Next ==
    \/ \E t \in Thread : Call(t) \/ Kernel(t) \/ Tick(t)
    \/ \E c \in Cpu : Preempt(c) \/ IdleYield(c)

Spec == Init /\ [][Next]_vars

(* Every CPU goes on, its timer ticks, and time passes.                    *)
Fairness ==
    /\ \A t \in Thread : SF_vars(Kernel(t)) /\ WF_vars(Tick(t))
    /\ \A c \in Cpu : SF_vars(Preempt(c)) /\ WF_vars(IdleYield(c))

FairSpec == Spec /\ Fairness
-----------------------------------------------------------------------------
States == {"none", "READY", "RUNNING", "SLEEPING", "BLOCKED", "WAITING", "EXITED"}

TypeOK ==
    /\ state \in [Thread -> States]
    /\ blockedOn \in [Thread -> Token \union {NoToken}]
    /\ wakeAt \in [Thread -> {"none", "set"}]
    /\ sig \in [Thread -> SUBSET {"INT", "CHLD"}]
    /\ parent \in [Thread -> Thread \union {NoThread}]
    /\ stack \in [Thread -> {"none", "held", "freed"}]
    /\ tok \in [Thread -> Token \union {NoToken}]
    /\ target \in [Thread -> Thread \union {NoThread}]
    /\ passed \in [Thread -> BOOLEAN] /\ irq \in [Thread -> BOOLEAN]
    /\ runq \in [Cpu -> Seq(Thread)]
    /\ current \in [Cpu -> Thread \union {Idle}]
    /\ toFree \in [Cpu -> Thread \union {NoThread}]
    /\ data \in [Token -> BOOLEAN]
    /\ cut \subseteq Thread

(* cpu.h: the run queues hold the READY threads, and no thread is linked   *)
(* into them twice (a second push would cut the list).                     *)
QueuesSound ==
    /\ TypeOK
    /\ \A c \in Cpu : IsInjective(runq[c])
    /\ \A t \in Thread : state[t] = "READY" <=> \E c \in Cpu : t \in Range(runq[c])

(* A thread in user mode is RUNNING or READY: otherwise the next tick      *)
(* takes the CPU from it for good.                                         *)
UserIsRunnable ==
    \A t \in Thread : pc[t] = "run" => state[t] \in {"RUNNING", "READY"}

\* t is BLOCKED, what it waits for is there, and nobody is about to wake it.
Stranded(t) ==
    /\ state[t] = "BLOCKED" /\ ~Runs(t)
    /\ data[blockedOn[t]]
    /\ ~ \E u \in Thread : pc[u] = "wake" /\ tok[u] = blockedOn[t]

(* sys_futex_wait: "wait and wake are now mutually-exclusive".             *)
NoLostFutexWakeup == \A t \in Thread : pc[t] = "ret" => ~Stranded(t)

(* pipe.h: "when a writer adds bytes, it wakes any reader"; one that a tick *)
(* took the CPU from after it had tested may sleep through it.             *)
NoLostWakeup == \A t \in Thread : Stranded(t) => t \in cut

(* thread.h: thread_wait "blocks until any child thread reaches            *)
(* THREAD_EXITED": no parent waits for a child that has already gone, but   *)
(* for a tick after the scan of the one, or before the other has told.     *)
NoMissedExit ==
    \A t, u \in Thread :
        state[t] = "WAITING" /\ ~Runs(t) /\ parent[u] = t /\ state[u] = "EXITED" /\ Alive(u) =>
            \/ Runs(u) /\ pc[u] # "halt"
            \/ {t, u} \cap cut # {}

(* No thread is forgotten: not by the tick that finds it in user mode, not  *)
(* by the writer it waits for, not by the child it waits for.  What the     *)
(* comments assume, no interrupt in a system call, leaves no exception.    *)
NoneForgotten ==
    /\ UserIsRunnable /\ NoLostWakeup /\ NoMissedExit
    /\ ~KernelPreempts => cut = {}

(* A reaped thread is not run again, nor while it is reaped: not even one   *)
(* that a tick took the CPU from between EXITED and its last yield().      *)
ReapedIsDone == \A t \in Thread : pc[t] = "gone" => ~Runs(t)

(* Every READY thread gets the CPU.                                        *)
ReadyRuns == \A t \in Thread : state[t] = "READY" ~> Runs(t)

(* A sleeper wakes up.                                                     *)
SleepersWake == \A t \in Thread : pc[t] = "sleep" ~> pc[t] # "sleep" /\ pc[t] # "sleeping"

(* Under a fair CPU, timer and clock nobody stays READY or asleep for ever. *)
EverybodyRuns == ReadyRuns /\ SleepersWake
=============================================================================
