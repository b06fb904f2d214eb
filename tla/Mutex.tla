------------------------------- MODULE Mutex -------------------------------
(***************************************************************************)
(* The lock of user space (userspace/libc/thread.h) over the futex calls   *)
(* of the kernel.  The compare-and-swap, the store and each futex call are *)
(* one step: futex_wait compares and blocks under the lock futex_wake      *)
(* walks the threads under (what Threads.tla checks step by step).         *)
(***************************************************************************)
CONSTANT Lockers  \* the threads that share the word

VARIABLES
    word,  \* mutex_t.state
    place    \* where each thread is

mutexVars == <<word, place>>

Points == {"out", "lock", "wait", "asleep", "in", "wake"}

MutexInit == word = 0 /\ place = [t \in Lockers |-> "out"]

Step(t, from, to) == place[t] = from /\ place' = [place EXCEPT ![t] = to]

\* mutex_lock is called.
Want(t) == Step(t, "out", "lock") /\ UNCHANGED word

\* The compare-and-swap of mutex_lock, at its head and in its loop.
CmpXchg(t) ==
    \/ word = 0 /\ Step(t, "lock", "in") /\ word' = 1
    \/ word = 1 /\ Step(t, "lock", "wait") /\ UNCHANGED word

\* Mutant: futex_wait does not compare the word with what the caller saw.
FutexSleep_Blind(t) == Step(t, "wait", "asleep") /\ UNCHANGED word

\* futex_wait(word, 1): EAGAIN when the word is 0 by now.
FutexSleep(t) == Step(t, "wait", IF word = 1 THEN "asleep" ELSE "lock") /\ UNCHANGED word

\* A signal, or the wake of another word at the same address: the loop starts again.
Spurious(t) == Step(t, "asleep", "lock") /\ UNCHANGED word

\* mutex_unlock: the store, then futex_wake(word, 1), which wakes every thread on the word.
Unlock(t) == Step(t, "in", "wake") /\ word' = 0

FutexWake(t) ==
    /\ place[t] = "wake"
    /\ place' = [u \in Lockers |-> IF u = t THEN "out" ELSE IF place[u] = "asleep" THEN "lock" ELSE place[u]]
    /\ UNCHANGED word

MutexNext ==
    \E t \in Lockers : Want(t) \/ CmpXchg(t) \/ FutexSleep(t) \/ Spurious(t) \/ Unlock(t) \/ FutexWake(t)

MutexSpec == MutexInit /\ [][MutexNext]_mutexVars

MutexTypeOK == word \in {0, 1} /\ place \in [Lockers -> Points]

(***************************************************************************)
(* Properties.                                                             *)
(***************************************************************************)
\* mutex_lock returns to one thread at a time, and the word says whether one is inside.
Exclusive ==
    /\ \A t, u \in Lockers : place[t] = "in" /\ place[u] = "in" => t = u
    /\ word = 1 <=> \E t \in Lockers : place[t] = "in"

\* A thread sleeps only while another one is inside, or about to call futex_wake: an unlock
\* between the compare-and-swap and futex_wait is never missed.
SleepersAreWoken ==
    (\E t \in Lockers : place[t] = "asleep") => \E u \in Lockers : place[u] \in {"in", "wake"}

\* The lock is a lock, for any number of threads.
MutexSound == Exclusive /\ SleepersAreWoken
=============================================================================
