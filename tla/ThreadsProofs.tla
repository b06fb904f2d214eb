---------------------------- MODULE ThreadsProofs ----------------------------
(***************************************************************************)
(* The scheduler, for any number of threads: the run queues are sound and   *)
(* no futex wakeup is lost on any number of CPUs, if no thread ends; on one *)
(* CPU that is never idle, with the tick falling into system calls too,     *)
(* nobody is forgotten and who was reaped stays done, whatever they do.     *)
(***************************************************************************)
EXTENDS Threads, FiniteSetTheorems, SequenceTheorems, TLAPS

(***************************************************************************)
(* What the theorems assume of the threads: they block, with and without a *)
(* deadline, use futexes, sleep and wake each other, but none ends or is   *)
(* signalled (the README says what is wrong with that), and on the boot    *)
(* CPU, which has no idle thread, something always runs.                   *)
(***************************************************************************)
Lasting ==
    /\ \A t \in Thread : Does[t] \cap {"waitpid", "exit", "kill"} = {}
    /\ Does[Boot] \subseteq {"create", "yield", "post"}
    /\ HasIdle = Cpu \ {Home[Boot]}

\* Where a thread may be that is not RUNNING although its CPU runs it: before its yield().
Parking == {"parked", "parked until", "futex parked", "sleeping"}

Points == {"unborn", "run", "ret", "check", "check until", "park", "park until",
           "woken", "woken until", "wake", "sleep"} \union Parking

\* Nobody is about to end, and the boot thread does not block.
PointsInv ==
    /\ pc \in [Thread -> Points]
    /\ sig = [t \in Thread |-> {}]
    /\ pc[Boot] \in {"run", "wake", "ret"}

\* A thread runs, and is queued, at home; it is RUNNING while its CPU runs it, unless it has
\* just decided to sleep.
PlacesInv ==
    /\ \A c \in Cpu : current[c] # Idle => Home[current[c]] = c
    /\ \A c \in Cpu : \A t \in Range(runq[c]) : Home[t] = c
    /\ \A t \in Thread :
           /\ state[t] \in {"none", "READY", "RUNNING", "SLEEPING", "BLOCKED"}
           /\ (state[t] = "none") = (pc[t] = "unborn")
           /\ state[t] = "RUNNING" => Runs(t)
           /\ Runs(t) => state[t] = "RUNNING" \/ pc[t] \in Parking
    /\ state[Boot] \in {"RUNNING", "READY"}

\* A thread that sleeps on a futex sleeps on a token, and has not missed what it waits for.
FutexInv ==
    \A t \in Thread :
        pc[t] \in {"futex parked", "ret"} /\ state[t] = "BLOCKED" =>
            /\ blockedOn[t] \in Token
            /\ data[blockedOn[t]] => \E u \in Thread : pc[u] = "wake" /\ tok[u] = blockedOn[t]

ThreadsInv == QueuesSound /\ PointsInv /\ PlacesInv /\ FutexInv

\* What yield() finds, whatever the threads do.
QueueInv ==
    /\ QueuesSound
    /\ \A c \in Cpu : current[c] # Idle => Home[current[c]] = c
    /\ \A c \in Cpu : \A t \in Range(runq[c]) : Home[t] = c
    /\ \A t \in Thread : state[t] = "RUNNING" => Runs(t)
    /\ state[Boot] \in {"RUNNING", "READY"}

(***************************************************************************)
(* The run queues.                                                         *)
(***************************************************************************)
\* An order of S brings each thread of S to the queue of its home CPU, once.
LEMMA OrdersFacts ==
  ASSUME NEW S \in SUBSET Thread, NEW o \in Orders(S), NEW c \in Cpu
  PROVE  /\ o[c] \in Seq(Thread)
         /\ IsInjective(o[c])
         /\ Range(o[c]) = {t \in S : Home[t] = c}
<1> DEFINE T == {t \in S : Home[t] = c}
<1> DEFINE D == 1 .. Cardinality(T)
<1>1. o[c] \in [D -> T] /\ \A i, j \in D : i # j => o[c][i] # o[c][j]
  BY DEF Orders, SetToSeqs
<1>2. IsFiniteSet(T) /\ Cardinality(T) \in Nat
  BY FS_Subset, FS_CardinalityType, ThreadsAssumption DEF ThreadsAssumption
<1>t. T \subseteq Thread /\ T = {t \in S : Home[t] = c}
  OBVIOUS
<1> HIDE DEF T
<1>3. o[c] \in Seq(Thread)
  <2>1. o[c] \in [1 .. Cardinality(T) -> Thread]
    BY <1>1, <1>t
  <2>2. QED
    BY <1>2, <2>1, SeqDef
<1>4. IsInjective(o[c])
  BY <1>1 DEF IsInjective
<1>5. IsFiniteSet(D) /\ Cardinality(D) = Cardinality(T)
  BY <1>2, FS_Interval
<1> HIDE DEF D
<1>6. ASSUME NEW t \in T PROVE t \in Range(o[c])
  <2> SUFFICES ASSUME t \notin Range(o[c]) PROVE FALSE
    OBVIOUS
  <2>1. o[c] \in [D -> T \ {t}]
    BY <1>1 DEF Range
  <2>2. IsFiniteSet(T \ {t}) /\ Cardinality(T \ {t}) = Cardinality(T) - 1
    BY <1>2, FS_RemoveElement
  <2>3. \E i, j \in D : i # j /\ o[c][i] = o[c][j]
    <3>1. Cardinality(T \ {t}) < Cardinality(D)
      BY <1>2, <1>5, <2>2
    <3>2. QED
      BY <1>5, <2>1, <2>2, <3>1, FS_PigeonHole
  <2>4. QED
    BY <1>1, <2>3
<1>7. QED
  BY <1>1, <1>t, <1>3, <1>4, <1>6 DEF Range

\* Threads that are not queued are pushed.
LEMMA PushedFacts ==
  ASSUME NEW S \in SUBSET Thread, NEW o \in Orders(S), NEW c \in Cpu, NEW q,
         q[c] \in Seq(Thread), IsInjective(q[c]), Range(q[c]) \cap S = {}
  PROVE  /\ Pushed(q, o)[c] \in Seq(Thread)
         /\ IsInjective(Pushed(q, o)[c])
         /\ Range(Pushed(q, o)[c]) = Range(q[c]) \union {t \in S : Home[t] = c}
<1> DEFINE s == q[c]
<1> DEFINE r == o[c]
<1>1. r \in Seq(Thread) /\ IsInjective(r) /\ Range(r) = {t \in S : Home[t] = c}
  BY OrdersFacts
<1>2. Pushed(q, o)[c] = s \o r
  BY DEF Pushed
<1>3. s \in Seq(Thread) /\ IsInjective(s) /\ \A i \in 1 .. Len(s), j \in 1 .. Len(r) : s[i] # r[j]
  <2>1. ASSUME NEW i \in 1 .. Len(s), NEW j \in 1 .. Len(r) PROVE s[i] # r[j]
    <3>1. s[i] \in Range(s) /\ r[j] \in Range(r)
      BY <1>1 DEF Range
    <3>2. QED
      BY <1>1, <3>1
  <2>2. QED
    BY <2>1
<1> HIDE DEF s, r
<1>4. /\ s \o r \in Seq(Thread) /\ DOMAIN (s \o r) = 1 .. Len(s) + Len(r)
      /\ \A i \in 1 .. Len(s) + Len(r) : (s \o r)[i] = IF i <= Len(s) THEN s[i] ELSE r[i - Len(s)]
  BY <1>1, <1>3, ConcatProperties
<1>5. IsInjective(s \o r)
  <2>1. /\ \A i, j \in 1 .. Len(s) : s[i] = s[j] => i = j
        /\ \A i, j \in 1 .. Len(r) : r[i] = r[j] => i = j
    BY <1>1, <1>3 DEF IsInjective
  <2>2. QED
    BY <1>1, <1>3, <1>4, <2>1 DEF IsInjective
<1>6. Range(s \o r) = Range(s) \union Range(r)
  BY <1>1, <1>3, RangeConcatenation
<1>7. QED
  BY <1>1, <1>2, <1>4, <1>5, <1>6 DEF s

\* The head of a queue is taken.
LEMMA TailFacts ==
  ASSUME NEW q \in Seq(Thread), q # <<>>, IsInjective(q)
  PROVE  /\ Head(q) \in Range(q) /\ Tail(q) \in Seq(Thread) /\ IsInjective(Tail(q))
         /\ Range(Tail(q)) = Range(q) \ {Head(q)}
<1>1. /\ Head(q) = q[1] /\ Tail(q) \in Seq(Thread) /\ Len(q) > 0 /\ Len(Tail(q)) = Len(q) - 1
      /\ DOMAIN q = 1 .. Len(q) /\ DOMAIN Tail(q) = 1 .. Len(q) - 1
      /\ \A i \in 1 .. Len(q) - 1 : Tail(q)[i] = q[i + 1]
  BY HeadTailProperties
<1>2. \A i, j \in 1 .. Len(q) : q[i] = q[j] => i = j
  BY <1>1 DEF IsInjective
<1>3. IsInjective(Tail(q))
  BY <1>1, <1>2 DEF IsInjective
<1>4. \A t \in Range(q) \ {Head(q)} : t \in Range(Tail(q))
  <2> SUFFICES ASSUME NEW i \in 1 .. Len(q), q[i] # q[1] PROVE q[i] \in Range(Tail(q))
    BY <1>1 DEF Range
  <2>1. i - 1 \in 1 .. Len(q) - 1 /\ Tail(q)[i - 1] = q[i]
    BY <1>1
  <2>2. QED
    BY <1>1, <2>1 DEF Range
<1>5. \A t \in Range(Tail(q)) : t \in Range(q) /\ t # Head(q)
  <2> SUFFICES ASSUME NEW i \in 1 .. Len(q) - 1 PROVE q[i + 1] \in Range(q) /\ q[i + 1] # q[1]
    BY <1>1 DEF Range
  <2>1. i + 1 \in 1 .. Len(q) /\ i + 1 # 1 /\ 1 \in 1 .. Len(q)
    BY <1>1
  <2>2. QED
    BY <1>1, <1>2, <2>1 DEF Range
<1>6. q[1] \in Range(q)
  BY <1>1 DEF Range
<1>7. QED
  BY <1>1, <1>3, <1>4, <1>5, <1>6

\* The outgoing thread is queued again.
LEMMA AppendFacts ==
  ASSUME NEW q \in Seq(Thread), NEW t \in Thread, t \notin Range(q), IsInjective(q)
  PROVE  /\ Append(q, t) \in Seq(Thread) /\ IsInjective(Append(q, t))
         /\ Range(Append(q, t)) = Range(q) \union {t}
<1>1. /\ Append(q, t) \in Seq(Thread) /\ DOMAIN q = 1 .. Len(q) /\ Len(q) \in Nat
      /\ DOMAIN Append(q, t) = 1 .. Len(q) + 1
      /\ \A i \in 1 .. Len(q) : Append(q, t)[i] = q[i]
      /\ Append(q, t)[Len(q) + 1] = t
  BY AppendProperties
<1>2. /\ \A i, j \in 1 .. Len(q) : q[i] = q[j] => i = j
      /\ \A i \in 1 .. Len(q) : q[i] # t
  BY <1>1 DEF IsInjective, Range
<1>3. IsInjective(Append(q, t))
  BY <1>1, <1>2 DEF IsInjective
<1>4. Range(Append(q, t)) = Range(q) \union {t}
  BY <1>1 DEF Range
<1>5. QED
  BY <1>1, <1>3, <1>4

(***************************************************************************)
(* yield().                                                                *)
(***************************************************************************)
\* The READY threads are the queued ones, each in the queue of its home CPU.
LEMMA QueuesAreReady ==
  ASSUME QueueInv, NEW t \in Thread, NEW c \in Cpu
  PROVE  /\ t \in Range(runq[c]) <=> state[t] = "READY" /\ Home[t] = c
         /\ Home[t] \in Cpu
BY ThreadsAssumption DEF ThreadsAssumption, QueueInv, QueuesSound

\* What yield() on c does to the threads: `next' runs, whoever is due or was RUNNING is queued.
YieldsTo(c, next) ==
    /\ next \in Thread \union {Idle} /\ (next # Idle => Home[next] = c)
    /\ next = Idle => c \in HasIdle
    /\ next # Idle => \/ state[next] = "READY" \/ next \in Due(c)
                      \/ next = Boot /\ next = current[c] /\ state[next] = "RUNNING"
    /\ current' = [current EXCEPT ![c] = next]
    /\ \A t \in Thread :
           /\ state'[t] = IF t = next THEN "RUNNING"
                          ELSE IF t \in Due(c) \/ (t = current[c] /\ state[t] = "RUNNING") THEN "READY"
                          ELSE state[t]
           /\ blockedOn'[t] = IF t \in Due(c) /\ state[t] = "BLOCKED" THEN NoToken ELSE blockedOn[t]
    /\ runq' \in [Cpu -> Seq(Thread)]
    /\ \A d \in Cpu :
           /\ IsInjective(runq'[d])
           /\ Range(runq'[d]) = {t \in Thread : state'[t] = "READY" /\ Home[t] = d}

\* On the boot CPU nothing is left to run only while the boot thread runs.
LEMMA BootRuns ==
  ASSUME HasIdle = Cpu \ {Home[Boot]}, QueueInv, NEW c \in Cpu \ HasIdle, runq[c] = <<>>
  PROVE  current[c] = Boot /\ state[Boot] = "RUNNING"
<1>1. c = Home[Boot] /\ Boot \in Thread
  BY ThreadsAssumption DEF ThreadsAssumption
<1>2. Boot \notin Range(runq[c])
  BY DEF Range
<1>3. state[Boot] # "READY"
  BY <1>1, <1>2, QueuesAreReady
<1>4. QED
  BY <1>1, <1>3 DEF QueueInv, Runs

LEMMA YieldFacts ==
  ASSUME HasIdle = Cpu \ {Home[Boot]}, QueueInv, NEW c \in Cpu, Yield(c)
  PROVE  \E next : YieldsTo(c, next)
<1> DEFINE prev == current[c]
<1> DEFINE due == Due(c)
<1>1. PICK order \in Orders(due) :
        LET q == Pushed(runq, order)
            next == NextOn(c, q[c])
            stays == q[c] = <<>> /\ next = prev
            requeue == ~stays /\ Requeued(prev)
            rest == IF q[c] # <<>> THEN Tail(q[c]) ELSE <<>>
        IN  /\ current' = [current EXCEPT ![c] = next]
            /\ runq' = IF requeue THEN [q EXCEPT ![c] = Append(rest, prev)]
                       ELSE [q EXCEPT ![c] = rest]
            /\ state' = [t \in Thread |->
                            IF t = next /\ ~stays THEN "RUNNING"
                            ELSE IF t \in due \/ (t = prev /\ requeue) THEN "READY"
                            ELSE state[t]]
            /\ blockedOn' = [t \in Thread |->
                                IF t \in due /\ state[t] = "BLOCKED" THEN NoToken
                                ELSE blockedOn[t]]
  BY Zenon DEF Yield
<1> DEFINE q == Pushed(runq, order)
<1> DEFINE next == NextOn(c, q[c])
<1> DEFINE stays == q[c] = <<>> /\ next = prev
<1> DEFINE requeue == ~stays /\ Requeued(prev)
<1> DEFINE rest == IF q[c] # <<>> THEN Tail(q[c]) ELSE <<>>
<1>a. /\ current' = [current EXCEPT ![c] = next]
      /\ runq' = IF requeue THEN [q EXCEPT ![c] = Append(rest, prev)] ELSE [q EXCEPT ![c] = rest]
      /\ state' = [t \in Thread |->
                      IF t = next /\ ~stays THEN "RUNNING"
                      ELSE IF t \in due \/ (t = prev /\ requeue) THEN "READY"
                      ELSE state[t]]
      /\ blockedOn' = [t \in Thread |->
                          IF t \in due /\ state[t] = "BLOCKED" THEN NoToken ELSE blockedOn[t]]
  BY <1>1
<1>b. /\ prev \in Thread \union {Idle} /\ (prev # Idle => Home[prev] = c)
      /\ Idle \notin Thread /\ due \subseteq Thread
      /\ \A t \in due : t # prev /\ state[t] \in {"SLEEPING", "BLOCKED"}
      /\ \A t \in Thread : state[t] = "RUNNING" => Runs(t)
  BY ThreadsAssumption DEF ThreadsAssumption, QueueInv, QueuesSound, TypeOK, Due
<1>c. \A d \in Cpu : runq[d] \in Seq(Thread) /\ IsInjective(runq[d])
  BY DEF QueueInv, QueuesSound, TypeOK
<1>d. \A d \in Cpu, t \in Thread : t \in Range(runq[d]) <=> state[t] = "READY" /\ Home[t] = d
  BY QueuesAreReady
<1>2. \A d \in Cpu : /\ q[d] \in Seq(Thread) /\ IsInjective(q[d])
                      /\ Range(q[d]) = {t \in Thread : (state[t] = "READY" \/ t \in due) /\ Home[t] = d}
  <2> TAKE d \in Cpu
  <2>1. Range(runq[d]) \subseteq Thread
    BY <1>c, RangeOfSeq
  <2>2. Range(runq[d]) \cap due = {}
    BY <1>b, <1>d
  <2>3. /\ q[d] \in Seq(Thread) /\ IsInjective(q[d])
        /\ Range(q[d]) = Range(runq[d]) \union {t \in due : Home[t] = d}
    BY <1>b, <1>c, <2>2, PushedFacts
  <2>4. QED
    BY <1>b, <1>d, <2>1, <2>3
<1> HIDE DEF q
<1>3. q[c] = <<>> => runq[c] = <<>>
  <2> SUFFICES ASSUME q[c] = <<>>, runq[c] # <<>> PROVE FALSE
    OBVIOUS
  <2>1. Head(runq[c]) \in Range(runq[c]) /\ Head(runq[c]) \in Thread
    BY <1>c, TailFacts, HeadTailProperties
  <2>2. Head(runq[c]) \in Range(q[c])
    BY <1>2, <1>d, <2>1
  <2>3. QED
    BY <2>2 DEF Range
<1>4. CASE q[c] = <<>> /\ c \notin HasIdle
  <2>1. next = prev /\ prev = Boot /\ state[Boot] = "RUNNING" /\ Boot \in Thread
    BY <1>3, <1>4, BootRuns, ThreadsAssumption DEF NextOn, ThreadsAssumption
  <2>2. stays /\ ~requeue /\ rest = <<>>
    BY <1>4, <2>1
  <2> HIDE DEF next, stays, requeue, rest, prev, due
  <2>3. runq' = [q EXCEPT ![c] = <<>>] /\ q \in [Cpu -> Seq(Thread)]
    BY <1>a, <2>2, <1>2 DEF q, Pushed
  <2>4. runq' = q
    BY <1>4, <2>3
  <2>5. \A t \in Thread : state'[t] = IF t \in due THEN "READY" ELSE state[t]
    BY <1>a, <2>2
  <2>6. \A t \in Thread : state'[t] = IF t = next THEN "RUNNING"
                                      ELSE IF t \in due \/ (t = prev /\ state[t] = "RUNNING") THEN "READY"
                                      ELSE state[t]
    BY <1>b, <2>1, <2>5
  <2>7. \A d \in Cpu : Range(runq'[d]) = {t \in Thread : state'[t] = "READY" /\ Home[t] = d}
    BY <1>2, <2>4, <2>5
  <2>8. YieldsTo(c, next)
    BY <1>2, <1>a, <1>b, <2>1, <2>3, <2>4, <2>6, <2>7 DEF YieldsTo, prev, due
  <2>9. QED
    BY <2>8
<1>5. CASE q[c] = <<>> /\ c \in HasIdle
  <2>1. next = Idle /\ rest = <<>>
    BY <1>5 DEF NextOn
  <2>2. CASE prev = Idle
    <3>1. stays /\ ~requeue
      BY <1>5, <2>1, <2>2
    <3> HIDE DEF next, stays, requeue, rest, prev, due
    <3>2. runq' = q /\ q \in [Cpu -> Seq(Thread)]
      BY <1>a, <1>2, <1>5, <2>1, <3>1 DEF q, Pushed
    <3>3. \A t \in Thread : state'[t] = IF t \in due THEN "READY" ELSE state[t]
      BY <1>a, <3>1
    <3>4. \A d \in Cpu : Range(runq'[d]) = {t \in Thread : state'[t] = "READY" /\ Home[t] = d}
      BY <1>2, <3>2, <3>3
    <3>5. YieldsTo(c, next)
      BY <1>5, <1>2, <1>a, <1>b, <2>1, <2>2, <3>2, <3>3, <3>4 DEF YieldsTo, prev, due
    <3>6. QED
      BY <3>5
  <2>3. CASE prev # Idle
    <3>1. ~stays /\ (requeue <=> state[prev] = "RUNNING") /\ prev \in Thread
      BY <1>b, <2>1, <2>3 DEF Requeued
    <3> HIDE DEF next, stays, requeue, rest, prev, due
    <3>2. \A t \in Thread : state'[t] = IF t \in due \/ (t = prev /\ state[t] = "RUNNING") THEN "READY"
                                        ELSE state[t]
      BY <1>a, <1>b, <2>1, <3>1
    <3>3. /\ q \in [Cpu -> Seq(Thread)]
          /\ <<>> \in Seq(Thread) /\ IsInjective(<<>>) /\ Range(<<>>) = {}
      <4>1. q \in [Cpu -> Seq(Thread)]
        BY <1>2 DEF q, Pushed
      <4>2. <<>> \in Seq(Thread) /\ IsInjective(<<>>) /\ Range(<<>>) = {}
        BY DEF IsInjective, Range
      <4>3. QED
        BY <4>1, <4>2
    <3>4. CASE state[prev] = "RUNNING"
      <4>1. runq' = [q EXCEPT ![c] = Append(<<>>, prev)]
        BY <1>a, <2>1, <3>1, <3>4
      <4>2. /\ Append(<<>>, prev) \in Seq(Thread) /\ IsInjective(Append(<<>>, prev))
            /\ Range(Append(<<>>, prev)) = {prev}
        BY <3>1, <3>3, AppendFacts
      <4>3. \A d \in Cpu : /\ runq'[d] \in Seq(Thread) /\ IsInjective(runq'[d])
                            /\ Range(runq'[d]) = IF d = c THEN {prev} ELSE Range(q[d])
        BY <1>2, <3>3, <4>1, <4>2
      <4> HIDE <4>1, <4>2
      <4>4. \A t \in Thread : (state[t] = "READY" \/ t \in due) => Home[t] # c
        BY <1>2, <1>5, <3>3
      <4>5. \A d \in Cpu : Range(runq'[d]) = {t \in Thread : state'[t] = "READY" /\ Home[t] = d}
        BY <1>2, <1>b, <3>1, <3>2, <3>4, <4>3, <4>4
      <4>6. runq' \in [Cpu -> Seq(Thread)]
        BY <3>3, <4>1, <4>2
      <4>7. YieldsTo(c, next)
        BY <1>5, <1>a, <1>b, <2>1, <3>2, <4>3, <4>5, <4>6 DEF YieldsTo, prev, due
      <4>8. QED
        BY <4>7
    <3>5. CASE state[prev] # "RUNNING"
      <4>1. runq' = q
        BY <1>a, <1>5, <2>1, <3>1, <3>3, <3>5
      <4>2. \A d \in Cpu : Range(runq'[d]) = {t \in Thread : state'[t] = "READY" /\ Home[t] = d}
        BY <1>2, <1>b, <3>1, <3>2, <3>5, <4>1
      <4>3. YieldsTo(c, next)
        BY <1>5, <1>2, <1>a, <1>b, <2>1, <3>2, <3>3, <4>1, <4>2 DEF YieldsTo, prev, due
      <4>4. QED
        BY <4>3
    <3>6. QED
      BY <3>4, <3>5
  <2>4. QED
    BY <2>2, <2>3
<1>6. CASE q[c] # <<>>
  <2>1. next = Head(q[c]) /\ rest = Tail(q[c]) /\ ~stays /\ (requeue <=> prev # Idle /\ state[prev] = "RUNNING")
    BY <1>6 DEF NextOn, Requeued
  <2>2. /\ next \in Range(q[c]) /\ rest \in Seq(Thread) /\ IsInjective(rest)
        /\ Range(rest) = Range(q[c]) \ {next}
    BY <1>2, <1>6, <2>1, TailFacts
  <2>3. next \in Thread /\ Home[next] = c /\ (state[next] = "READY" \/ next \in due)
    BY <1>2, <2>2
  <2> HIDE DEF next, stays, requeue, rest, prev, due
  <2>4. \A t \in Thread : state'[t] = IF t = next THEN "RUNNING"
                                      ELSE IF t \in due \/ (t = prev /\ state[t] = "RUNNING") THEN "READY"
                                      ELSE state[t]
    BY <1>a, <1>b, <2>1
  <2>5. q \in [Cpu -> Seq(Thread)]
    BY <1>2 DEF q, Pushed
  <2>6. CASE prev # Idle /\ state[prev] = "RUNNING"
    <3>1. prev \in Thread /\ prev \notin Range(rest) /\ prev # next
      BY <1>2, <1>b, <2>2, <2>3, <2>6
    <3>2. runq' = [q EXCEPT ![c] = Append(rest, prev)]
      BY <1>a, <2>1, <2>6
    <3>3. /\ Append(rest, prev) \in Seq(Thread) /\ IsInjective(Append(rest, prev))
          /\ Range(Append(rest, prev)) = Range(rest) \union {prev}
      BY <2>2, <3>1, AppendFacts
    <3>4. \A d \in Cpu : /\ runq'[d] \in Seq(Thread) /\ IsInjective(runq'[d])
                          /\ Range(runq'[d]) = IF d = c THEN (Range(q[c]) \ {next}) \union {prev}
                                               ELSE Range(q[d])
      BY <1>2, <2>2, <2>5, <3>2, <3>3
    <3>5. runq' \in [Cpu -> Seq(Thread)]
      BY <2>5, <3>2, <3>3
    <3>6. \A d \in Cpu : Range(runq'[d]) = {t \in Thread : state'[t] = "READY" /\ Home[t] = d}
      BY <1>2, <1>b, <2>3, <2>4, <2>6, <3>1, <3>4
    <3>7. YieldsTo(c, next)
      BY <1>a, <1>b, <2>3, <2>4, <3>4, <3>5, <3>6 DEF YieldsTo, prev, due
    <3>8. QED
      BY <3>7
  <2>7. CASE ~(prev # Idle /\ state[prev] = "RUNNING")
    <3>1. runq' = [q EXCEPT ![c] = rest]
      BY <1>a, <2>1, <2>7
    <3>2. \A d \in Cpu : /\ runq'[d] \in Seq(Thread) /\ IsInjective(runq'[d])
                          /\ Range(runq'[d]) = IF d = c THEN Range(q[c]) \ {next} ELSE Range(q[d])
      BY <1>2, <2>2, <2>5, <3>1
    <3>3. runq' \in [Cpu -> Seq(Thread)]
      BY <2>2, <2>5, <3>1
    <3>4. \A d \in Cpu : Range(runq'[d]) = {t \in Thread : state'[t] = "READY" /\ Home[t] = d}
      <4>1. \A t \in Thread : state'[t] = "READY" <=> t # next /\ (t \in due \/ state[t] = "READY")
        BY <1>b, <2>4, <2>7
      <4>2. QED
        BY <1>2, <2>3, <3>2, <4>1
    <3>5. YieldsTo(c, next)
      BY <1>a, <1>b, <2>3, <2>4, <3>2, <3>3, <3>4 DEF YieldsTo, prev, due
    <3>6. QED
      BY <3>5
  <2>8. QED
    BY <2>6, <2>7
<1>7. QED
  BY <1>4, <1>5, <1>6

\* The fields that only yield() and the pushes change keep their types.
LEMMA YieldTypes ==
  ASSUME HasIdle = Cpu \ {Home[Boot]}, QueueInv, NEW c \in Cpu, Yield(c), YieldFrame, cut' \subseteq Thread
  PROVE  TypeOK'
<1>1. TypeOK
  BY DEF QueueInv, QueuesSound
<1>2. PICK n : YieldsTo(c, n)
  BY YieldFacts
<1>3. /\ stack' = [t \in Thread |-> IF t = toFree[c] /\ stack[t] = "held" THEN "freed" ELSE stack[t]]
      /\ toFree' = [toFree EXCEPT ![c] = NoThread]
      /\ state' = [t \in Thread |-> state'[t]]
      /\ blockedOn' = [t \in Thread |-> blockedOn'[t]]
  <2>1. PICK order \in Orders(Due(c)) :
          LET q == Pushed(runq, order)
              next == NextOn(c, q[c])
              stays == q[c] = <<>> /\ next = current[c]
              requeue == ~stays /\ Requeued(current[c])
          IN  /\ stack' = [t \in Thread |-> IF t = toFree[c] /\ stack[t] = "held" THEN "freed" ELSE stack[t]]
              /\ toFree' = [toFree EXCEPT ![c] = NoThread]
              /\ state' = [t \in Thread |->
                              IF t = next /\ ~stays THEN "RUNNING"
                              ELSE IF t \in Due(c) \/ (t = current[c] /\ requeue) THEN "READY"
                              ELSE state[t]]
              /\ blockedOn' = [t \in Thread |->
                                  IF t \in Due(c) /\ state[t] = "BLOCKED" THEN NoToken
                                  ELSE blockedOn[t]]
    BY Zenon DEF Yield
  <2>2. state' = [t \in Thread |-> state'[t]] /\ blockedOn' = [t \in Thread |-> blockedOn'[t]]
    BY <2>1, Zenon
  <2>3. QED
    BY <2>1, <2>2, Zenon
<1>4. irq' \in [Thread -> BOOLEAN]
  <2>1. \E r : irq' = [t \in Thread |-> IF t = current[c] /\ r # current[c]
                                        THEN KernelPreempts \/ irq[t] ELSE irq[t]]
    BY Zenon DEF Yield
  <2>2. (KernelPreempts \in BOOLEAN) /\ irq \in [Thread -> BOOLEAN]
    BY <1>1, ThreadsAssumption DEF TypeOK, ThreadsAssumption
  <2>3. PICK r : irq' = [t \in Thread |-> IF t = current[c] /\ r # current[c]
                                        THEN KernelPreempts \/ irq[t] ELSE irq[t]]
    BY <2>1, Zenon
  <2>4. ASSUME NEW t \in Thread
        PROVE  (IF t = current[c] /\ r # current[c] THEN KernelPreempts \/ irq[t] ELSE irq[t]) \in BOOLEAN
    <3>1. irq[t] \in BOOLEAN
      BY <2>2
    <3>2. (KernelPreempts \/ irq[t]) \in BOOLEAN
      OBVIOUS
    <3>3. QED
      BY <3>1, <3>2, Zenon
  <2>5. QED
    BY <2>3, <2>4, Zenon
<1>5. state' \in [Thread -> States] /\ blockedOn' \in [Thread -> Token \union {NoToken}]
  BY <1>1, <1>2, <1>3 DEF TypeOK, YieldsTo, States
<1>6. current' \in [Cpu -> Thread \union {Idle}] /\ runq' \in [Cpu -> Seq(Thread)]
  BY <1>1, <1>2 DEF TypeOK, YieldsTo
<1>7. stack' \in [Thread -> {"none", "held", "freed"}] /\ toFree' \in [Cpu -> Thread \union {NoThread}]
  BY <1>1, <1>3 DEF TypeOK
<1>8. QED
  BY <1>1, <1>4, <1>5, <1>6, <1>7 DEF TypeOK, YieldFrame

\* PlacesInv says more.
LEMMA ThreadsAreQueued == ThreadsInv => QueueInv
BY DEF ThreadsInv, PlacesInv, QueueInv

\* The points to which yield() brings a thread that was about to call it.
Resumes(t, p) ==
    \/ pc[t] = "futex parked" /\ p = "ret"
    \/ pc[t] \in Parking /\ p \in {"woken", "woken until", "sleep"}

\* yield() keeps the run queues sound, whoever calls it.
LEMMA YieldKeeps ==
  ASSUME Lasting, ThreadsInv, NEW c \in Cpu, Yield(c), YieldFrame, cut' \subseteq Thread,
         \/ UNCHANGED pc
         \/ \E t \in Thread : \E p : t = current[c] /\ Resumes(t, p) /\ Goto(t, p)
  PROVE  ThreadsInv'
<1>1. TypeOK /\ PointsInv /\ PlacesInv /\ FutexInv
  BY DEF ThreadsInv, QueuesSound
<1>2. PICK next : YieldsTo(c, next)
  BY YieldFacts, ThreadsAreQueued DEF Lasting
<1>3. /\ pc' \in [Thread -> Points]
      /\ \A t \in Thread : (pc'[t] = "unborn") = (pc[t] = "unborn")
      /\ \A t \in Thread : (pc'[t] = "wake") = (pc[t] = "wake")
      /\ \A t \in Thread : t # current[c] => pc'[t] = pc[t]
      /\ \A t \in Thread : pc'[t] \in {"futex parked", "ret"} => pc[t] \in {"futex parked", "ret"}
      /\ pc[Boot] \notin Parking /\ pc'[Boot] = pc[Boot]
  <2>1. CASE UNCHANGED pc
    BY <1>1, <2>1, ThreadsAssumption DEF PointsInv, Parking, ThreadsAssumption
  <2>2. ASSUME NEW t \in Thread, NEW p, t = current[c], Resumes(t, p), Goto(t, p)
        PROVE  <1>3!1 /\ <1>3!2 /\ <1>3!3 /\ <1>3!4 /\ <1>3!5 /\ <1>3!6
    <3>1. pc' = [pc EXCEPT ![t] = p] /\ pc \in [Thread -> Points] /\ p \in Points
      BY <1>1, <2>2 DEF Goto, PointsInv, Resumes, Points
    <3>2. pc[t] \in Parking /\ p \in {"woken", "woken until", "sleep", "ret"}
          /\ (p = "ret" => pc[t] = "futex parked")
      BY <2>2 DEF Resumes, Parking
    <3>3. t # Boot /\ pc[Boot] \notin Parking
      BY <1>1, <3>2 DEF PointsInv, Parking
    <3>4. QED
      BY <2>2, <3>1, <3>2, <3>3, ThreadsAssumption DEF Parking, ThreadsAssumption
  <2>3. QED
    BY <2>1, <2>2
<1>4. TypeOK'
  BY <1>3, YieldTypes, ThreadsAreQueued DEF Lasting
<1>5. \A t \in Thread : Home[t] \in Cpu
  BY ThreadsAssumption DEF ThreadsAssumption
<1> USE DEF YieldsTo
<1>6. QueuesSound'
  BY <1>2, <1>4, <1>5 DEF QueuesSound
<1>7. PointsInv'
  BY <1>1, <1>3 DEF PointsInv, YieldFrame
<1>8. \A t \in Due(c) : t \in Thread /\ t # current[c] /\ state[t] \in {"SLEEPING", "BLOCKED"}
  BY DEF Due
<1>9. Idle \notin Thread /\ current \in [Cpu -> Thread \union {Idle}] /\ Boot \in Thread
  BY <1>1, ThreadsAssumption DEF TypeOK, ThreadsAssumption
<1>10. \A d \in Cpu : current'[d] # Idle => Home[current'[d]] = d
  BY <1>1, <1>2, <1>9 DEF PlacesInv
<1>11. \A d \in Cpu : \A t \in Range(runq'[d]) : Home[t] = d
  BY <1>2
<1>12. ASSUME NEW t \in Thread
       PROVE  /\ state'[t] \in {"none", "READY", "RUNNING", "SLEEPING", "BLOCKED"}
              /\ (state'[t] = "none") = (pc'[t] = "unborn")
              /\ state'[t] = "RUNNING" => current'[Home[t]] = t
              /\ current'[Home[t]] = t => state'[t] = "RUNNING" \/ pc'[t] \in Parking
  <2>1. /\ state[t] \in {"none", "READY", "RUNNING", "SLEEPING", "BLOCKED"}
        /\ (state[t] = "none") = (pc[t] = "unborn")
        /\ state[t] = "RUNNING" => current[Home[t]] = t
        /\ current[Home[t]] = t => state[t] = "RUNNING" \/ pc[t] \in Parking
    BY <1>1 DEF PlacesInv, Runs
  <2>2. /\ state'[t] = IF t = next THEN "RUNNING"
                       ELSE IF t \in Due(c) \/ (t = current[c] /\ state[t] = "RUNNING") THEN "READY"
                       ELSE state[t]
        /\ current' = [current EXCEPT ![c] = next]
        /\ (next # Idle => Home[next] = c)
        /\ t = next => state[t] # "none"
    BY <1>2, <1>8, <1>9
  <2>3. state'[t] \in {"none", "READY", "RUNNING", "SLEEPING", "BLOCKED"} /\ (state'[t] = "none") = (state[t] = "none")
    BY <1>8, <2>1, <2>2
  <2>4. CASE t = next
    BY <1>3, <1>5, <1>9, <2>1, <2>2, <2>3, <2>4
  <2>5. CASE t # next
    <3>1. state'[t] = "RUNNING" => state[t] = "RUNNING" /\ t # current[c]
      BY <2>2, <2>5
    <3>2. current'[Home[t]] = t => current[Home[t]] = t /\ Home[t] # c
      BY <1>5, <1>9, <2>2, <2>5
    <3>3. Home[t] = c /\ current[Home[t]] = t => t = current[c]
      OBVIOUS
    <3>4. current[c] = t => Home[t] = c
      BY <1>1, <1>9 DEF PlacesInv
    <3>5. current'[Home[t]] = t => pc'[t] = pc[t] /\ (state[t] = "RUNNING" => state'[t] = "RUNNING")
      BY <1>3, <1>8, <2>2, <2>5, <3>2, <3>4
    <3>6. Home[t] # c => current'[Home[t]] = current[Home[t]]
      BY <1>5, <1>9, <2>2
    <3>7. QED
      BY <1>3, <2>1, <2>3, <3>1, <3>2, <3>3, <3>5, <3>6
  <2>6. QED
    BY <2>4, <2>5
<1>13. state'[Boot] \in {"RUNNING", "READY"}
  BY <1>1, <1>2, <1>8, <1>9 DEF PlacesInv
<1>14. PlacesInv'
  BY <1>10, <1>11, <1>12, <1>13 DEF PlacesInv, Runs
<1>15. FutexInv'
  <2> SUFFICES ASSUME NEW t \in Thread, pc'[t] \in {"futex parked", "ret"}, state'[t] = "BLOCKED"
               PROVE  /\ blockedOn'[t] \in Token
                      /\ data'[blockedOn'[t]] => \E u \in Thread : pc'[u] = "wake" /\ tok'[u] = blockedOn'[t]
    BY DEF FutexInv
  <2>1. state[t] = "BLOCKED" /\ blockedOn'[t] = blockedOn[t] /\ pc[t] \in {"futex parked", "ret"}
    BY <1>2, <1>3
  <2>2. UNCHANGED <<tok, data>>
    BY DEF YieldFrame
  <2>3. /\ blockedOn[t] \in Token
        /\ data[blockedOn[t]] => \E u \in Thread : pc[u] = "wake" /\ tok[u] = blockedOn[t]
    BY <1>1, <2>1 DEF FutexInv
  <2>4. ASSUME NEW u \in Thread, pc[u] = "wake", tok[u] = blockedOn[t]
        PROVE  pc'[u] = "wake" /\ tok'[u] = blockedOn'[t]
    BY <1>3, <2>1, <2>2, <2>4
  <2>5. QED
    BY <2>1, <2>2, <2>3, <2>4
<1>16. QED
  BY <1>6, <1>7, <1>14, <1>15 DEF ThreadsInv

(***************************************************************************)
(* The other steps.                                                        *)
(***************************************************************************)
\* A thread that its CPU runs goes from one point to the next, and to sleep only where its
\* yield() comes next; whoever brings the data a futex waits for is about to wake its sleepers.
LEMMA LocalKeeps ==
  ASSUME Lasting, ThreadsInv, TypeOK', NEW t \in Thread, Runs(t), pc[t] \notin Parking \union {"unborn", "wake"},
         NEW p \in Points \ {"unborn"}, NEW s \in {"RUNNING", "SLEEPING", "BLOCKED"},
         Goto(t, p), state' = [state EXCEPT ![t] = s], UNCHANGED <<sig, runq, current>>,
         s # "RUNNING" => p \in Parking,
         t = Boot => p \in {"run", "wake", "ret"},
         \A u \in Thread \ {t} : blockedOn'[u] = blockedOn[u] /\ tok'[u] = tok[u],
         \A k \in Token : data'[k] => data[k] \/ (p = "wake" /\ tok'[t] = k),
         s = "BLOCKED" /\ p = "futex parked" => blockedOn'[t] \in Token /\ ~data'[blockedOn'[t]]
  PROVE  ThreadsInv'
<1>1. TypeOK /\ PointsInv /\ PlacesInv /\ FutexInv
  BY DEF ThreadsInv, QueuesSound
<1>2. pc' = [pc EXCEPT ![t] = p] /\ pc \in [Thread -> Points] /\ state \in [Thread -> States] /\ Boot \in Thread
  BY <1>1, ThreadsAssumption DEF Goto, PointsInv, TypeOK, ThreadsAssumption
<1>3. state[t] = "RUNNING"
  BY <1>1 DEF PlacesInv
<1>4. QueuesSound'
  <2>1. \A u \in Thread : state'[u] = "READY" <=> state[u] = "READY"
    BY <1>2, <1>3
  <2>2. QED
    BY <2>1 DEF ThreadsInv, QueuesSound
<1>5. PointsInv'
  BY <1>1, <1>2 DEF PointsInv
<1>6. PlacesInv'
  <2>1. ASSUME NEW u \in Thread
        PROVE  /\ state'[u] \in {"none", "READY", "RUNNING", "SLEEPING", "BLOCKED"}
               /\ (state'[u] = "none") = (pc'[u] = "unborn")
               /\ state'[u] = "RUNNING" => current'[Home[u]] = u
               /\ current'[Home[u]] = u => state'[u] = "RUNNING" \/ pc'[u] \in Parking
    BY <1>1, <1>2, <1>3 DEF PlacesInv, Runs
  <2>2. state'[Boot] \in {"RUNNING", "READY"}
    BY <1>1, <1>2 DEF PlacesInv, Parking
  <2>3. QED
    BY <1>1, <2>1, <2>2 DEF PlacesInv, Runs
<1>7. FutexInv'
  <2> SUFFICES ASSUME NEW u \in Thread, pc'[u] \in {"futex parked", "ret"}, state'[u] = "BLOCKED"
               PROVE  /\ blockedOn'[u] \in Token
                      /\ data'[blockedOn'[u]] => \E w \in Thread : pc'[w] = "wake" /\ tok'[w] = blockedOn'[u]
    BY DEF FutexInv
  <2>1. CASE u = t
    BY <1>2, <2>1 DEF Parking
  <2>2. CASE u # t
    <3>1. pc[u] \in {"futex parked", "ret"} /\ state[u] = "BLOCKED" /\ blockedOn'[u] = blockedOn[u]
      BY <1>2, <2>2
    <3>2. /\ blockedOn[u] \in Token
          /\ data[blockedOn[u]] => \E w \in Thread : pc[w] = "wake" /\ tok[w] = blockedOn[u]
      BY <1>1, <3>1 DEF FutexInv
    <3>3. ASSUME NEW w \in Thread, pc[w] = "wake" PROVE pc'[w] = "wake" /\ tok'[w] = tok[w]
      BY <1>2, <3>3
    <3>4. data'[blockedOn[u]] => data[blockedOn[u]] \/ (p = "wake" /\ tok'[t] = blockedOn[u])
      BY <3>2
    <3>5. pc'[t] = p
      BY <1>2
    <3>6. QED
      BY <3>1, <3>2, <3>3, <3>4, <3>5
  <2>3. QED
    BY <2>1, <2>2
<1>8. QED
  BY <1>4, <1>5, <1>6, <1>7 DEF ThreadsInv

\* Threads that were asleep, or not there yet, become READY.
LEMMA PushKeeps ==
  ASSUME QueueInv, NEW S \in SUBSET Thread, \A u \in S : state[u] # "READY",
         \E order \in Orders(S) : runq' = Pushed(runq, order),
         \A u \in Thread : state'[u] = IF u \in S THEN "READY" ELSE state[u]
  PROVE  /\ runq' \in [Cpu -> Seq(Thread)]
         /\ \A d \in Cpu : /\ IsInjective(runq'[d])
                            /\ Range(runq'[d]) = {t \in Thread : state'[t] = "READY" /\ Home[t] = d}
<1>1. PICK order \in Orders(S) : runq' = Pushed(runq, order)
  OBVIOUS
<1>2. ASSUME NEW d \in Cpu
      PROVE  /\ runq'[d] \in Seq(Thread) /\ IsInjective(runq'[d])
             /\ Range(runq'[d]) = {t \in Thread : state'[t] = "READY" /\ Home[t] = d}
  <2>1. runq[d] \in Seq(Thread) /\ IsInjective(runq[d])
    BY DEF QueueInv, QueuesSound, TypeOK
  <2>2. Range(runq[d]) = {t \in Thread : state[t] = "READY" /\ Home[t] = d}
    BY <2>1, QueuesAreReady, RangeOfSeq
  <2>3. /\ Pushed(runq, order)[d] \in Seq(Thread) /\ IsInjective(Pushed(runq, order)[d])
        /\ Range(Pushed(runq, order)[d]) = Range(runq[d]) \union {t \in S : Home[t] = d}
    BY <2>1, <2>2, PushedFacts
  <2>4. QED
    BY <1>1, <2>2, <2>3
<1>3. runq' = [d \in Cpu |-> runq'[d]]
  BY <1>1 DEF Pushed
<1>4. QED
  BY <1>2, <1>3

\* thread_create.
LEMMA CreateKeeps == ASSUME Lasting, ThreadsInv, NEW t \in Thread, NEW u \in Thread, Create(t, u), cut' \subseteq Thread
  PROVE ThreadsInv'
<1>1. TypeOK /\ PointsInv /\ PlacesInv /\ FutexInv /\ QueuesSound
  BY DEF ThreadsInv, QueuesSound
<1>2. /\ pc[u] = "unborn" /\ state' = [state EXCEPT ![u] = "READY"] /\ pc' = [pc EXCEPT ![u] = "run"]
      /\ \E order \in Orders({u}) : runq' = Pushed(runq, order)
      /\ UNCHANGED <<blockedOn, wakeAt, sig, tok, target, passed, current, toFree, data>>
  BY DEF Create
<1>3. state[u] = "none" /\ ~Runs(u) /\ u # Boot
  BY <1>1, <1>2 DEF PlacesInv, PointsInv, Parking
<1>4. /\ runq' \in [Cpu -> Seq(Thread)]
      /\ \A d \in Cpu : /\ IsInjective(runq'[d])
                         /\ Range(runq'[d]) = {v \in Thread : state'[v] = "READY" /\ Home[v] = d}
  <2>1. \A v \in Thread : state'[v] = IF v \in {u} THEN "READY" ELSE state[v]
    BY <1>1, <1>2 DEF TypeOK
  <2>2. QED
    BY <1>2, <1>3, <2>1, PushKeeps, ThreadsAreQueued
<1>5. TypeOK'
  <2>1. /\ state' \in [Thread -> States] /\ stack' \in [Thread -> {"none", "held", "freed"}]
        /\ parent' \in [Thread -> Thread \union {NoThread}] /\ irq' \in [Thread -> BOOLEAN]
    BY <1>1, <1>2 DEF TypeOK, States, Create
  <2>2. QED
    BY <1>1, <1>2, <1>4, <2>1 DEF TypeOK
<1>6. \A v \in Thread : Home[v] \in Cpu
  BY ThreadsAssumption DEF ThreadsAssumption
<1>7. QueuesSound'
  BY <1>4, <1>5, <1>6 DEF QueuesSound
<1>8. PointsInv'
  BY <1>1, <1>2, <1>3, ThreadsAssumption DEF PointsInv, Points, ThreadsAssumption
<1>9. state \in [Thread -> States] /\ pc \in [Thread -> Points]
  BY <1>1 DEF TypeOK, PointsInv
<1>10. PlacesInv'
  BY <1>1, <1>2, <1>3, <1>4, <1>9 DEF PlacesInv, Runs
<1>11. FutexInv'
  BY <1>1, <1>2, <1>3, <1>9 DEF FutexInv
<1>12. QED
  BY <1>7, <1>8, <1>10, <1>11 DEF ThreadsInv

\* thread_wake_blocked.
LEMMA WakeKeeps == ASSUME Lasting, ThreadsInv, NEW t \in Thread, Wake(t), cut' \subseteq Thread
  PROVE ThreadsInv'
<1> DEFINE S == {u \in Thread : state[u] = "BLOCKED" /\ blockedOn[u] = tok[t]}
<1>1. TypeOK /\ PointsInv /\ PlacesInv /\ FutexInv /\ QueuesSound
  BY DEF ThreadsInv, QueuesSound
<1>2. /\ Runs(t) /\ pc[t] = "wake" /\ pc' = [pc EXCEPT ![t] = "ret"]
      /\ state' = [u \in Thread |-> IF u \in S THEN "READY" ELSE state[u]]
      /\ blockedOn' = [u \in Thread |-> IF u \in S THEN NoToken ELSE blockedOn[u]]
      /\ \E order \in Orders(S) : runq' = Pushed(runq, order)
      /\ UNCHANGED <<wakeAt, sig, parent, stack, tok, target, passed, irq, current, toFree, data>>
  BY Zenon DEF Wake, At, Goto, MakeReady
<1>3. S \in SUBSET Thread /\ \A u \in S : state[u] = "BLOCKED" /\ blockedOn[u] = tok[t]
  OBVIOUS
<1>a. \A u \in Thread \ S : state[u] = "BLOCKED" => blockedOn[u] # tok[t]
  OBVIOUS
<1> HIDE DEF S
<1>4. /\ runq' \in [Cpu -> Seq(Thread)]
      /\ \A d \in Cpu : /\ IsInjective(runq'[d])
                         /\ Range(runq'[d]) = {v \in Thread : state'[v] = "READY" /\ Home[v] = d}
  BY <1>2, <1>3, PushKeeps, ThreadsAreQueued
<1>9. state \in [Thread -> States] /\ pc \in [Thread -> Points] /\ \A v \in Thread : Home[v] \in Cpu
  BY <1>1, ThreadsAssumption DEF TypeOK, PointsInv, ThreadsAssumption
<1>5. TypeOK'
  <2>1. state' \in [Thread -> States] /\ blockedOn' \in [Thread -> Token \union {NoToken}]
    BY <1>1, <1>2, <1>9 DEF TypeOK, States
  <2>2. QED
    BY <1>1, <1>2, <1>4, <2>1 DEF TypeOK
<1>7. QueuesSound'
  BY <1>4, <1>5, <1>9 DEF QueuesSound
<1>8. PointsInv'
  BY <1>1, <1>2, ThreadsAssumption DEF PointsInv, Points, ThreadsAssumption
<1>10. PlacesInv'
  <2>1. state[t] = "RUNNING" /\ Boot \in Thread /\ Boot \notin S
    BY <1>1, <1>2, <1>3, ThreadsAssumption DEF PlacesInv, Parking, ThreadsAssumption
  <2>2. ASSUME NEW u \in Thread
        PROVE  /\ state'[u] \in {"none", "READY", "RUNNING", "SLEEPING", "BLOCKED"}
               /\ (state'[u] = "none") = (pc'[u] = "unborn")
               /\ state'[u] = "RUNNING" => current'[Home[u]] = u
               /\ current'[Home[u]] = u => state'[u] = "RUNNING" \/ pc'[u] \in Parking
    <3>1. /\ state[u] \in {"none", "READY", "RUNNING", "SLEEPING", "BLOCKED"}
          /\ (state[u] = "none") = (pc[u] = "unborn")
          /\ state[u] = "RUNNING" => current[Home[u]] = u
          /\ current[Home[u]] = u => state[u] = "RUNNING" \/ pc[u] \in Parking
      BY <1>1 DEF PlacesInv, Runs
    <3>2. state'[u] = (IF u \in S THEN "READY" ELSE state[u]) /\ pc'[u] = IF u = t THEN "ret" ELSE pc[u]
      BY <1>2, <1>9
    <3>3. QED
      BY <1>2, <1>3, <2>1, <3>1, <3>2
  <2>3. state'[Boot] \in {"RUNNING", "READY"}
    BY <1>1, <1>2, <2>1 DEF PlacesInv
  <2>4. \A d \in Cpu : current'[d] # Idle => Home[current'[d]] = d
    BY <1>1, <1>2 DEF PlacesInv
  <2>5. \A d \in Cpu : \A u \in Range(runq'[d]) : Home[u] = d
    BY <1>4
  <2>6. QED
    BY <2>2, <2>3, <2>4, <2>5 DEF PlacesInv, Runs
<1>11. FutexInv'
  <2> SUFFICES ASSUME NEW u \in Thread, pc'[u] \in {"futex parked", "ret"}, state'[u] = "BLOCKED"
               PROVE  /\ blockedOn'[u] \in Token
                      /\ data'[blockedOn'[u]] => \E w \in Thread : pc'[w] = "wake" /\ tok'[w] = blockedOn'[u]
    BY DEF FutexInv
  <2>1. u \notin S /\ state[u] = "BLOCKED" /\ blockedOn'[u] = blockedOn[u] /\ u # t /\ pc[u] = pc'[u]
    BY <1>1, <1>2, <1>3, <1>9 DEF PlacesInv, Parking
  <2>2. /\ blockedOn[u] \in Token
        /\ data[blockedOn[u]] => \E w \in Thread : pc[w] = "wake" /\ tok[w] = blockedOn[u]
    BY <1>1, <2>1 DEF FutexInv
  <2>3. ASSUME NEW w \in Thread, pc[w] = "wake", tok[w] = blockedOn[u]
        PROVE  pc'[w] = "wake" /\ tok'[w] = blockedOn[u]
    BY <1>2, <1>9, <1>a, <2>1, <2>3
  <2>4. QED
    BY <1>2, <2>1, <2>2, <2>3
<1>12. QED
  BY <1>7, <1>8, <1>10, <1>11 DEF ThreadsInv

\* What a thread does in user mode.
LEMMA CallKeeps ==
  ASSUME Lasting, ThreadsInv, NEW t \in Thread, Call(t)
  PROVE  ThreadsInv'
<1>0. cut' \subseteq Thread
  BY DEF ThreadsInv, QueuesSound, TypeOK, Call
<1>1. TypeOK /\ PointsInv /\ PlacesInv /\ FutexInv
  BY DEF ThreadsInv, QueuesSound
<1>2. /\ Does[t] \cap {"waitpid", "exit", "kill"} = {}
      /\ t = Boot => Does[t] \cap {"block", "until", "futex", "sleep"} = {}
  BY DEF Lasting
<1>3. At(t, "run") => Runs(t) /\ pc[t] \notin Parking \union {"unborn", "wake"} /\ state = [state EXCEPT ![t] = "RUNNING"]
  BY <1>1 DEF At, Parking, PlacesInv, TypeOK
<1>4. ASSUME NEW u \in Thread, Create(t, u) PROVE ThreadsInv'
  BY <1>0, <1>4, CreateKeeps
<1>5. ASSUME NEW u \in Thread, Kill(t, u) PROVE FALSE
  BY <1>2, <1>5 DEF Kill
<1>6. CASE CallYield(t)
  <2>1. Home[t] \in Cpu
    BY ThreadsAssumption DEF ThreadsAssumption
  <2>2. Yield(Home[t]) /\ UNCHANGED pc /\ YieldFrame
    BY <1>6, Zenon DEF CallYield
  <2>3. QED
    BY <1>0, <2>1, <2>2, YieldKeeps
<1>7. CASE Sleep(t)
  <2>1. /\ At(t, "run") /\ t # Boot /\ Goto(t, "sleep") /\ passed' = [passed EXCEPT ![t] = FALSE]
        /\ UNCHANGED <<state, blockedOn, wakeAt, sig, parent, stack, tok, target, irq, runq, current, toFree, data>>
    BY <1>2, <1>7 DEF Sleep, fields, cpus
  <2>2. TypeOK'
    BY <1>0, <1>1, <2>1 DEF TypeOK
  <2>3. "sleep" \in Points \ {"unborn"}
    BY DEF Points
  <2>4. QED
    BY <1>3, <2>1, <2>2, <2>3, LocalKeeps
<1>8. CASE Waitpid(t) \/ Exit(t)
  BY <1>2, <1>8 DEF Waitpid, Exit, Enters
<1>9. ASSUME NEW k \in Token, NEW op, Read(t, k, op) PROVE ThreadsInv'
  <2>1. PICK p \in {"check", "check until"} : Goto(t, p)
    BY <1>9 DEF Read, Enters
  <2>2. /\ At(t, "run") /\ t # Boot /\ tok' = [tok EXCEPT ![t] = k] /\ irq' = [irq EXCEPT ![t] = FALSE]
        /\ passed' \in {passed, [passed EXCEPT ![t] = FALSE]}
        /\ UNCHANGED <<state, blockedOn, wakeAt, sig, parent, stack, target, runq, current, toFree, data>>
    BY <1>2, <1>9 DEF Read, Enters, fields, cpus
  <2>3. TypeOK'
    BY <1>0, <1>1, <2>2 DEF TypeOK
  <2>4. p \in Points \ {"unborn"}
    BY DEF Points
  <2>5. \A u \in Thread \ {t} : tok'[u] = tok[u]
    BY <1>1, <2>2 DEF TypeOK
  <2>6. QED
    BY <1>3, <2>1, <2>2, <2>3, <2>4, <2>5, LocalKeeps
<1>10. ASSUME NEW k \in Token, FutexWait(t, k) PROVE ThreadsInv'
  <2>1. /\ At(t, "run") /\ t # Boot
        /\ UNCHANGED <<wakeAt, sig, parent, stack, tok, target, passed, runq, current, toFree>>
    BY <1>2, <1>10 DEF FutexWait, cpus
  <2>2. CASE /\ data[k] /\ data' = [data EXCEPT ![k] = FALSE]
             /\ UNCHANGED <<blockedOn, state, pc, irq>>
    <3>1. TypeOK'
      BY <1>0, <1>1, <2>1, <2>2 DEF TypeOK
    <3>2. pc' = [pc EXCEPT ![t] = "run"] /\ "run" \in Points \ {"unborn"}
      BY <1>1, <2>1, <2>2 DEF PointsInv, At, Points
    <3>3. \A m \in Token : data'[m] => data[m]
      BY <1>1, <2>2 DEF TypeOK
    <3>4. QED
      BY <1>3, <2>1, <2>2, <3>1, <3>2, <3>3, LocalKeeps DEF Goto
  <2>3. CASE /\ ~data[k] /\ blockedOn' = [blockedOn EXCEPT ![t] = k] /\ state' = [state EXCEPT ![t] = "BLOCKED"]
             /\ Goto(t, "futex parked") /\ irq' = [irq EXCEPT ![t] = FALSE] /\ UNCHANGED data
    <3>1. TypeOK'
      BY <1>0, <1>1, <2>1, <2>3 DEF TypeOK, States
    <3>2. "futex parked" \in Points \ {"unborn"} /\ "futex parked" \in Parking
      BY DEF Points, Parking
    <3>3. blockedOn'[t] = k /\ \A u \in Thread \ {t} : blockedOn'[u] = blockedOn[u]
      BY <1>1, <2>3 DEF TypeOK
    <3>4. QED
      BY <1>3, <2>1, <2>3, <3>1, <3>2, <3>3, LocalKeeps
  <2>4. QED
    BY <1>10, <2>2, <2>3, Zenon DEF FutexWait
<1>11. ASSUME NEW k \in Token, Post(t, k) PROVE ThreadsInv'
  <2>1. /\ At(t, "run") /\ Goto(t, "wake") /\ tok' = [tok EXCEPT ![t] = k] /\ irq' = [irq EXCEPT ![t] = FALSE]
        /\ data' = [data EXCEPT ![k] = TRUE]
        /\ UNCHANGED <<state, blockedOn, wakeAt, sig, parent, stack, target, passed, runq, current, toFree>>
    BY <1>11 DEF Post, Enters, fields, cpus
  <2>2. TypeOK'
    BY <1>0, <1>1, <2>1 DEF TypeOK
  <2>3. "wake" \in Points \ {"unborn"}
    BY DEF Points
  <2>4. tok'[t] = k /\ (\A u \in Thread \ {t} : tok'[u] = tok[u]) /\ \A m \in Token : m # k => data'[m] = data[m]
    BY <1>1, <2>1 DEF TypeOK
  <2>5. QED
    BY <1>3, <2>1, <2>2, <2>3, <2>4, LocalKeeps
<1>12. QED
  BY <1>4, <1>5, <1>6, <1>7, <1>8, <1>9, <1>10, <1>11 DEF Call

\* What it does in the kernel.
LEMMA KernelKeeps ==
  ASSUME Lasting, ThreadsInv, NEW t \in Thread, Kernel(t)
  PROVE  ThreadsInv'
<1>0. cut' \subseteq Thread /\ KernelStep(t)
  BY DEF ThreadsInv, QueuesSound, TypeOK, Kernel
<1>1. TypeOK /\ PointsInv /\ PlacesInv /\ FutexInv
  BY DEF ThreadsInv, QueuesSound
<1>2. pc[t] \in Points /\ (t = Boot => pc[t] \in {"run", "wake", "ret"}) /\ Home[t] \in Cpu
  BY <1>1, ThreadsAssumption DEF PointsInv, ThreadsAssumption
<1>3. Runs(t) /\ pc[t] \notin Parking => state = [state EXCEPT ![t] = "RUNNING"]
  BY <1>1 DEF PlacesInv, TypeOK
<1>4. CASE Return(t)
  <2>1. /\ At(t, "ret") /\ sig' = sig /\ Goto(t, "run") /\ irq' = [irq EXCEPT ![t] = TRUE]
        /\ UNCHANGED <<state, blockedOn, wakeAt, parent, stack, tok, target, passed, runq, current, toFree, data>>
    BY <1>1, <1>4 DEF Return, PointsInv, cpus
  <2>2. TypeOK'
    BY <1>0, <1>1, <2>1 DEF TypeOK
  <2>3. "run" \in Points \ {"unborn"} /\ Runs(t) /\ pc[t] \notin Parking \union {"unborn", "wake"}
    BY <2>1 DEF Points, At, Parking
  <2>4. QED
    BY <1>3, <2>1, <2>2, <2>3, LocalKeeps
<1>5. CASE Check(t)
  <2>1. /\ pc[t] \in {"check", "check until"} /\ Runs(t)
        /\ UNCHANGED <<state, blockedOn, wakeAt, sig, parent, stack, tok, target, passed, irq, runq, current, toFree>>
        /\ data' \in {data, [data EXCEPT ![tok[t]] = FALSE]}
        /\ \E p \in {"ret", "park", "park until"} : Goto(t, p)
    BY <1>5 DEF Check, At, fields, cpus
  <2>2. PICK p \in {"ret", "park", "park until"} : Goto(t, p)
    BY <2>1
  <2>3. TypeOK'
    BY <1>0, <1>1, <2>1 DEF TypeOK
  <2>4. p \in Points \ {"unborn"} /\ pc[t] \notin Parking \union {"unborn", "wake"} /\ t # Boot
    BY <1>2, <2>1 DEF Points, Parking
  <2>5. \A m \in Token : data'[m] => data[m]
    BY <1>1, <2>1 DEF TypeOK
  <2>6. QED
    BY <1>3, <2>1, <2>2, <2>3, <2>4, <2>5, LocalKeeps
<1>6. CASE Park(t)
  <2>1. /\ pc[t] \in {"park", "park until"} /\ Runs(t)
        /\ wakeAt' \in {wakeAt, [wakeAt EXCEPT ![t] = "set"]}
        /\ blockedOn' = [blockedOn EXCEPT ![t] = tok[t]] /\ state' = [state EXCEPT ![t] = "BLOCKED"]
        /\ UNCHANGED <<sig, parent, stack, tok, target, passed, irq, runq, current, toFree, data>>
        /\ \E p \in {"parked", "parked until"} : Goto(t, p)
    BY <1>6 DEF Park, At, cpus
  <2>2. PICK p \in {"parked", "parked until"} : Goto(t, p)
    BY <2>1
  <2>3. TypeOK'
    BY <1>0, <1>1, <2>1 DEF TypeOK, States
  <2>4. /\ p \in Points \ {"unborn"} /\ pc[t] \notin Parking \union {"unborn", "wake"} /\ t # Boot
        /\ p \in Parking /\ p # "futex parked"
    BY <1>2, <2>1 DEF Points, Parking
  <2>5. \A u \in Thread \ {t} : blockedOn'[u] = blockedOn[u]
    BY <1>1, <2>1 DEF TypeOK
  <2>6. QED
    BY <2>1, <2>2, <2>3, <2>4, <2>5, LocalKeeps
<1>7. CASE Woken(t)
  <2>1. /\ pc[t] \in {"woken", "woken until"} /\ Runs(t)
        /\ wakeAt' \in {wakeAt, [wakeAt EXCEPT ![t] = "none"]}
        /\ UNCHANGED <<state, blockedOn, sig, parent, stack, tok, target, passed, irq, runq, current, toFree, data>>
        /\ \E p \in {"ret", "check", "check until"} : Goto(t, p)
    BY <1>7 DEF Woken, At, cpus
  <2>2. PICK p \in {"ret", "check", "check until"} : Goto(t, p)
    BY <2>1
  <2>3. TypeOK'
    <3>1. wakeAt' \in [Thread -> {"none", "set"}]
      BY <1>1, <2>1 DEF TypeOK
    <3>2. QED
      BY <1>0, <1>1, <2>1, <3>1 DEF TypeOK
  <2>4. p \in Points \ {"unborn"} /\ pc[t] \notin Parking \union {"unborn", "wake"} /\ t # Boot
    BY <1>2, <2>1 DEF Points, Parking
  <2>5. QED
    BY <1>3, <2>1, <2>2, <2>3, <2>4, LocalKeeps
<1>8. CASE SleepLoop(t)
  <2>1. /\ pc[t] = "sleep" /\ Runs(t)
        /\ UNCHANGED <<blockedOn, sig, parent, stack, tok, target, passed, runq, current, toFree, data>>
    BY <1>8 DEF SleepLoop, At, cpus
  <2>2. pc[t] \notin Parking \union {"unborn", "wake"} /\ t # Boot
    BY <1>2, <2>1 DEF Parking
  <2>3. CASE /\ state' = [state EXCEPT ![t] = "RUNNING"] /\ Goto(t, "ret")
             /\ irq' = [irq EXCEPT ![t] = FALSE] /\ UNCHANGED wakeAt
    <3>1. TypeOK'
      BY <1>0, <1>1, <2>1, <2>3 DEF TypeOK, States
    <3>2. "ret" \in Points \ {"unborn"}
      BY DEF Points
    <3>3. QED
      BY <2>1, <2>2, <2>3, <3>1, <3>2, LocalKeeps
  <2>4. CASE /\ state' = [state EXCEPT ![t] = "SLEEPING"] /\ Goto(t, "sleeping")
             /\ wakeAt' = [wakeAt EXCEPT ![t] = "set"] /\ UNCHANGED irq
    <3>1. TypeOK'
      BY <1>0, <1>1, <2>1, <2>4 DEF TypeOK, States
    <3>2. "sleeping" \in Points \ {"unborn"} /\ "sleeping" \in Parking
      BY DEF Points, Parking
    <3>3. QED
      BY <2>1, <2>2, <2>4, <3>1, <3>2, LocalKeeps
  <2>5. QED
    BY <1>8, <2>3, <2>4 DEF SleepLoop
<1>9. CASE Wake(t)
  BY <1>0, <1>9, WakeKeeps
<1>10. ASSUME NEW p, Resumes(t, p), Runs(t), Goto(t, p), Yield(Home[t]), YieldFrame PROVE ThreadsInv'
  BY <1>0, <1>2, <1>10, YieldKeeps DEF Runs
<1>11. CASE Parked(t) \/ FutexParked(t) \/ Sleeping(t)
  <2>1. Runs(t) /\ Yield(Home[t]) /\ YieldFrame
    BY <1>11, Zenon DEF Parked, FutexParked, Sleeping, At
  <2>2. \E p : Resumes(t, p) /\ Goto(t, p)
    <3>1. CASE Parked(t)
      <4>1. CASE At(t, "parked") /\ Goto(t, "woken")
        BY <4>1, Zenon DEF At, Resumes, Parking
      <4>2. CASE At(t, "parked until") /\ Goto(t, "woken until")
        BY <4>2, Zenon DEF At, Resumes, Parking
      <4>3. QED
        BY <3>1, <4>1, <4>2, Zenon DEF Parked
    <3>2. CASE FutexParked(t)
      BY <3>2, Zenon DEF FutexParked, At, Resumes
    <3>3. CASE Sleeping(t)
      BY <3>3, Zenon DEF Sleeping, At, Resumes, Parking
    <3>4. QED
      BY <1>11, <3>1, <3>2, <3>3
  <2>3. QED
    BY <1>10, <2>1, <2>2
<1>12. ASSUME \/ Scan(t) \/ Wait(t) \/ Waiting(t) \/ Close(t) \/ Mark(t) \/ Tell(t) \/ TellWait(t) \/ Leave(t)
       PROVE  FALSE
  <2>1. pc[t] \in {"scan", "wait", "waiting", "exit", "mark", "tell", "tell wait", "leave"}
    BY <1>12, Zenon DEF Scan, Wait, Waiting, Close, Mark, Tell, TellWait, Leave, At
  <2>2. QED
    BY <1>2, <2>1 DEF Points, Parking
<1>13. ASSUME Push(t) PROVE FALSE
  <2>1. pc[t] \in {"push sigchld", "push waiting", "push kill"}
    BY <1>13 DEF Push, AfterPush, At
  <2>2. QED
    BY <1>2, <2>1 DEF Points, Parking
<1>14. QED
  BY <1>0, <1>4, <1>5, <1>6, <1>7, <1>8, <1>9, <1>11, <1>12, <1>13, Zenon DEF KernelStep

\* Nothing runs but the boot thread.
LEMMA ThreadsStart == Init => ThreadsInv
<1> SUFFICES ASSUME Init PROVE ThreadsInv
  OBVIOUS
<1>1. Boot \in Thread /\ Home \in [Thread -> Cpu] /\ Idle \notin Thread
  BY ThreadsAssumption DEF ThreadsAssumption
<1>2. TypeOK
  BY <1>1 DEF Init, TypeOK, States
<1>3. \A c \in Cpu : runq[c] = <<>> /\ IsInjective(runq[c]) /\ Range(runq[c]) = {}
  BY DEF Init, IsInjective, Range
<1>4. QueuesSound
  BY <1>2, <1>3 DEF QueuesSound, Init
<1>5. PointsInv
  BY <1>1 DEF Init, PointsInv, Points
<1>6. PlacesInv
  BY <1>1, <1>3 DEF Init, PlacesInv, Runs
<1>7. FutexInv
  BY <1>1 DEF Init, FutexInv
<1>8. QED
  BY <1>4, <1>5, <1>6, <1>7 DEF ThreadsInv

\* What the invariant does not speak of may change.
LEMMA ThreadsStutter ==
  ASSUME ThreadsInv, TypeOK',
         UNCHANGED <<state, blockedOn, sig, runq, current, data, pc, tok>>
  PROVE  ThreadsInv'
<1>1. QueuesSound'
  BY DEF ThreadsInv, QueuesSound
<1>2. PointsInv'
  BY DEF ThreadsInv, PointsInv
<1>3. PlacesInv'
  BY DEF ThreadsInv, PlacesInv, Runs
<1>4. FutexInv'
  BY DEF ThreadsInv, FutexInv
<1>5. QED
  BY <1>1, <1>2, <1>3, <1>4 DEF ThreadsInv

\* Whom an interrupt takes the CPU from.
LEMMA InterruptFacts ==
  ASSUME TypeOK, NEW c \in Cpu, Preempt(c) \/ IdleYield(c)
  PROVE  cut' \subseteq Thread
<1>1. current[c] \in Thread \union {Idle} /\ cut \subseteq Thread
  BY DEF TypeOK
<1>2. CASE Preempt(c)
  <2>1. current[c] # Idle /\ cut' \in {cut, cut \union {current[c]}}
    BY <1>2 DEF Preempt
  <2>2. QED
    BY <1>1, <2>1
<1>3. CASE IdleYield(c)
  BY <1>1, <1>3 DEF IdleYield
<1>4. QED
  BY <1>2, <1>3

LEMMA ThreadsStep == ASSUME Lasting PROVE ThreadsInv /\ [Next]_vars => ThreadsInv'
<1> SUFFICES ASSUME ThreadsInv, [Next]_vars PROVE ThreadsInv'
  OBVIOUS
<1>1. ASSUME NEW t \in Thread, Call(t) PROVE ThreadsInv'
  BY <1>1, CallKeeps
<1>2. ASSUME NEW t \in Thread, Kernel(t) PROVE ThreadsInv'
  BY <1>2, KernelKeeps
<1>3. ASSUME NEW t \in Thread, Tick(t) PROVE ThreadsInv'
  <2>1. /\ passed' \in [Thread -> BOOLEAN]
        /\ UNCHANGED <<state, blockedOn, wakeAt, sig, parent, stack, runq, current, toFree, data, pc, tok, target, irq>>
    BY <1>3 DEF Tick, fields, cpus, ThreadsInv, QueuesSound, TypeOK
  <2>2. cut' \subseteq Thread
    BY <1>3 DEF Tick, ThreadsInv, QueuesSound, TypeOK
  <2>3. QED
    BY <2>1, <2>2, ThreadsStutter DEF ThreadsInv, QueuesSound, TypeOK
<1>4. ASSUME NEW c \in Cpu, Preempt(c) \/ IdleYield(c) PROVE ThreadsInv'
  <2>1. Yield(c) /\ UNCHANGED pc /\ YieldFrame
    BY <1>4, Zenon DEF Preempt, IdleYield
  <2>2. cut' \subseteq Thread
    BY <1>4, InterruptFacts DEF ThreadsInv, QueuesSound
  <2>3. QED
    BY <2>1, <2>2, YieldKeeps
<1>5. CASE UNCHANGED vars
  <2>1. UNCHANGED <<state, blockedOn, wakeAt, sig, parent, stack, pc, tok, target, passed, irq,
                    runq, current, toFree, data, cut>>
    BY <1>5 DEF vars, fields, local, cpus
  <2>2. TypeOK'
    BY <2>1 DEF TypeOK, ThreadsInv, QueuesSound
  <2>3. QED
    BY <2>1, <2>2, ThreadsStutter
<1>6. QED
  BY <1>1, <1>2, <1>3, <1>4, <1>5 DEF Next

\* cpu.h: for any threads on any CPUs, with interrupts in system calls, the run queues hold
\* exactly the READY threads, each once.
THEOREM QueuesStaySound == ASSUME Lasting PROVE Spec => []QueuesSound
<1>1. ThreadsInv => QueuesSound
  BY DEF ThreadsInv
<1>2. QED
  BY <1>1, ThreadsStart, ThreadsStep, PTL DEF Spec

\* sys_futex_wait: a thread that has gone to sleep on a futex whose word has changed is about to
\* be woken, whatever the other CPUs do.
THEOREM FutexesLoseNoWakeup == ASSUME Lasting PROVE Spec => []NoLostFutexWakeup
<1>1. ThreadsInv => NoLostFutexWakeup
  BY DEF ThreadsInv, FutexInv, NoLostFutexWakeup, Stranded
<1>2. QED
  BY <1>1, ThreadsStart, ThreadsStep, PTL DEF Spec

(***************************************************************************)
(* One CPU on which something always runs (here the boot thread), with or   *)
(* without interrupts in system calls.  Now the threads may do anything,   *)
(* and end; a tick may take the CPU from them at any point of the kernel.  *)
(***************************************************************************)
OneBusyCpu ==
    /\ Cpu = {Home[Boot]}
    /\ Does[Boot] \subseteq {"create", "yield"}

\* The points at which a thread that is RUNNING may be.
AtWork == {"run", "ret", "check", "check until", "park", "park until", "parked", "parked until",
           "woken", "woken until", "wake", "sleep", "sleeping", "scan", "wait", "waiting",
           "exit", "mark", "push kill"}
\* At these no interrupt has come since the call was entered.
Masked == {"wake", "push kill", "futex parked"}
Telling == {"tell", "tell wait", "push sigchld", "push waiting", "leave"}
WithToken == {"check", "check until", "park", "park until", "parked", "parked until", "woken", "woken until", "wake"}
AllPoints == AtWork \union Telling \union {"unborn", "futex parked", "halt", "gone"}

\* Where a thread may be that the CPU has left, and its state: new, ended, queued or asleep.
Resting(t) ==
    \/ pc[t] = "unborn" /\ state[t] = "none"
    \/ pc[t] \in Telling \union {"halt", "gone"} /\ state[t] = "EXITED"
    \/ pc[t] \in AtWork \ Masked /\ state[t] = "READY"
    \/ pc[t] \in {"parked", "parked until", "woken", "woken until", "ret"} /\ state[t] = "BLOCKED"
    \/ pc[t] \in {"sleep", "sleeping"} /\ state[t] = "SLEEPING"
    \/ pc[t] \in {"waiting", "scan"} /\ state[t] = "WAITING"

\* The thread the CPU runs: RUNNING, or it has decided to sleep, or it ends; whom it is about
\* to push is still asleep.
Working(t) ==
    /\ \/ pc[t] \in AtWork /\ state[t] = "RUNNING"
       \/ pc[t] \in {"parked", "parked until", "futex parked"} /\ state[t] = "BLOCKED"
       \/ pc[t] = "sleeping" /\ state[t] = "SLEEPING"
       \/ pc[t] = "waiting" /\ state[t] = "WAITING"
       \/ pc[t] \in Telling /\ state[t] = "EXITED"
    /\ pc[t] \in DOMAIN AfterPush => target[t] \in Thread /\ state[target[t]] \in {"BLOCKED", "SLEEPING", "WAITING"}
    /\ pc[t] \in {"push sigchld", "push waiting", "tell wait"} => parent[t] \in Thread
    /\ pc[t] \in {"push sigchld", "push waiting"} => target[t] = parent[t]
    /\ pc[t] = "leave" => parent[t] = NoThread \/ state[parent[t]] # "WAITING"

\* A thread that has not been interrupted between its test and its sleep: what it has tested is
\* still so, or it is about to be woken.
Hears(t) ==
    t \notin cut =>
        /\ pc[t] \in {"park", "park until", "wait"} => Runs(t)
        /\ pc[t] \in {"park", "park until"} => ~data[tok[t]]
        /\ state[t] = "BLOCKED" /\ data[blockedOn[t]] => \E u \in Thread : pc[u] = "wake" /\ tok[u] = blockedOn[t]

\* The same for wait(): t does not miss the end of u.
Sees(t, u) ==
    {t, u} \cap cut = {} /\ u \in Zombies(t) /\ (pc[t] = "wait" \/ state[t] = "WAITING") => Runs(u) /\ pc[u] # "halt"

BusyInv ==
    /\ QueueInv
    /\ pc \in [Thread -> AllPoints]
    /\ pc[Boot] = "run"
    /\ \A c \in Cpu : current[c] # Idle
    /\ ~KernelPreempts => cut = {}
    /\ \A t \in Thread :
           /\ IF Runs(t) THEN Working(t) ELSE Resting(t)
           /\ irq[t] => pc[t] \notin Masked /\ (KernelPreempts \/ pc[t] \in {"run", "sleep", "sleeping"})
           /\ pc[t] \in WithToken => tok[t] \in Token
           /\ state[t] = "BLOCKED" => blockedOn[t] \in Token
           /\ Hears(t)
    /\ \A t, u \in Thread : Sees(t, u)

\* yield() keeps the queues sound.
LEMMA YieldQueues ==
  ASSUME HasIdle = Cpu \ {Home[Boot]}, QueueInv, NEW c \in Cpu, Yield(c), YieldFrame, cut' \subseteq Thread
  PROVE  QueueInv'
<1>1. PICK next : YieldsTo(c, next)
  BY YieldFacts
<1>2. TypeOK'
  BY YieldTypes
<1>3. /\ \A t \in Thread : Home[t] \in Cpu
      /\ Boot \in Thread /\ Idle \notin Thread
      /\ \A t \in Due(c) : t # current[c] /\ state[t] \in {"SLEEPING", "BLOCKED"}
      /\ current \in [Cpu -> Thread \union {Idle}]
  BY ThreadsAssumption DEF ThreadsAssumption, Due, QueueInv, QueuesSound, TypeOK
<1>4. QueuesSound'
  <2>1. \A d \in Cpu : IsInjective(runq'[d]) /\ Range(runq'[d]) = {t \in Thread : state'[t] = "READY" /\ Home[t] = d}
    BY <1>1 DEF YieldsTo
  <2>2. \A t \in Thread : state'[t] = "READY" <=> \E d \in Cpu : t \in Range(runq'[d])
    BY <1>3, <2>1
  <2>3. QED
    BY <1>2, <2>1, <2>2 DEF QueuesSound
<1>5. \A d \in Cpu : current'[d] # Idle => Home[current'[d]] = d
  BY <1>1, <1>3 DEF YieldsTo, QueueInv
<1>6. \A d \in Cpu : \A t \in Range(runq'[d]) : Home[t] = d
  BY <1>1 DEF YieldsTo
<1>7. ASSUME NEW t \in Thread, state'[t] = "RUNNING" PROVE current'[Home[t]] = t
  <2>1. CASE t = next
    BY <1>1, <1>3, <2>1 DEF YieldsTo
  <2>2. CASE t # next
    <3>1. state[t] = "RUNNING" /\ t # current[c]
      BY <1>1, <1>7, <2>2 DEF YieldsTo
    <3>2. current[Home[t]] = t
      BY <3>1 DEF QueueInv, Runs
    <3>3. Home[t] # c
      BY <3>1, <3>2
    <3>4. QED
      BY <1>1, <1>3, <3>2, <3>3 DEF YieldsTo
  <2>3. QED
    BY <2>1, <2>2
<1>8. state'[Boot] \in {"RUNNING", "READY"}
  BY <1>1, <1>3 DEF YieldsTo, QueueInv
<1>9. QED
  BY <1>4, <1>5, <1>6, <1>7, <1>8 DEF QueueInv, Runs

\* There is one CPU, which always runs a thread.
LEMMA OneCpu ==
  ASSUME OneBusyCpu
  PROVE  /\ HasIdle = Cpu \ {Home[Boot]} /\ Boot \in Thread /\ Idle \notin Thread /\ NoThread \notin Thread
         /\ \A t \in Thread : Home[t] \in Cpu /\ Home[t] = Home[Boot]
         /\ BusyInv => \E t \in Thread : \A u \in Thread : Runs(u) <=> u = t
<1>1. /\ HasIdle = Cpu \ {Home[Boot]} /\ Boot \in Thread /\ Idle \notin Thread /\ NoThread \notin Thread
      /\ \A t \in Thread : Home[t] \in Cpu /\ Home[t] = Home[Boot]
  BY ThreadsAssumption DEF OneBusyCpu, ThreadsAssumption
<1>2. ASSUME BusyInv PROVE \E t \in Thread : \A u \in Thread : Runs(u) <=> u = t
  <2>1. current[Home[Boot]] \in Thread
    BY <1>1, <1>2 DEF BusyInv, QueueInv, QueuesSound, TypeOK
  <2>2. \A u \in Thread : Runs(u) <=> u = current[Home[Boot]]
    BY <1>1 DEF Runs
  <2>3. QED
    BY <2>1, <2>2
<1>3. QED
  BY <1>1, <1>2

\* The thread that runs gives the CPU up, of itself or to a tick.
LEMMA LeaveKeeps ==
  ASSUME OneBusyCpu, BusyInv, NEW t \in Thread, Runs(t), NEW p \in AllPoints \ Masked,
         Yield(Home[t]), YieldFrame, Goto(t, p), pc[t] # "wake",
         \/ state[t] = "RUNNING" /\ p \in AtWork
         \/ state[t] = "BLOCKED" /\ p \in {"parked", "parked until", "woken", "woken until", "ret"}
         \/ state[t] = "SLEEPING" /\ p \in {"sleep", "sleeping"}
         \/ state[t] = "WAITING" /\ p \in {"waiting", "scan"}
         \/ /\ state[t] = "EXITED" /\ p \in Telling \union {"halt"}
            /\ t \in cut' \/ parent[t] = NoThread \/ state[parent[t]] # "WAITING",
         t = Boot => p = "run",
         irq[t] => KernelPreempts \/ p \in {"run", "sleep", "sleeping"},
         p \in WithToken => tok[t] \in Token,
         cut \subseteq cut', cut' \subseteq Thread, ~KernelPreempts => cut' = {},
         p \in {"park", "park until", "wait"} => t \in cut'
  PROVE  BusyInv'
<1> DEFINE c == Home[t]
<1>1. /\ QueueInv /\ TypeOK /\ HasIdle = Cpu \ {Home[Boot]} /\ c \in Cpu /\ Boot \in Thread /\ NoThread \notin Thread
      /\ Cpu = {c} /\ (\A u \in Thread : Home[u] = c) /\ current[c] = t /\ Idle \notin Thread
      /\ \A u \in Thread : Runs(u) <=> u = t
  <2>1. /\ HasIdle = Cpu \ {Home[Boot]} /\ Boot \in Thread /\ Idle \notin Thread /\ NoThread \notin Thread
        /\ \A u \in Thread : Home[u] \in Cpu /\ Home[u] = Home[Boot]
    BY OneCpu, Zenon
  <2>2. \E w \in Thread : \A u \in Thread : Runs(u) <=> u = w
    BY OneCpu, Zenon
  <2>3. QueueInv /\ TypeOK
    BY DEF BusyInv, QueueInv, QueuesSound
  <2>4. c = Home[Boot] /\ c \in Cpu
    BY <2>1
  <2>5. Cpu = {c}
    BY <2>4 DEF OneBusyCpu
  <2>6. current[c] = t
    BY DEF Runs
  <2>7. QED
    BY <2>1, <2>2, <2>3, <2>4, <2>5, <2>6
<1>2. PICK next : YieldsTo(c, next)
  BY <1>1, YieldFacts
<1>3. QueueInv' /\ TypeOK'
  BY <1>1, YieldQueues, YieldTypes
<1>4. /\ next \in Thread /\ current' = [current EXCEPT ![c] = next]
      /\ next # t => state[next] = "READY" \/ next \in Due(c)
      /\ next = t => t = Boot /\ state[t] = "RUNNING"
      /\ \A u \in Due(c) : u \in Thread /\ u # t /\ state[u] \in {"SLEEPING", "BLOCKED"}
      /\ \A u \in Thread : current'[Home[u]] = u <=> u = next
  <2>1. /\ next \in Thread /\ current' = [current EXCEPT ![c] = next]
        /\ \/ state[next] = "READY" \/ next \in Due(c)
           \/ next = Boot /\ next = t /\ state[next] = "RUNNING"
    BY <1>1, <1>2 DEF YieldsTo
  <2>2. \A u \in Due(c) : u \in Thread /\ u # t /\ state[u] \in {"SLEEPING", "BLOCKED"}
    BY <1>1 DEF Due
  <2>3. current'[c] = next
    BY <1>1, <2>1 DEF TypeOK
  <2>4. state[t] # "READY"
    OBVIOUS
  <2>5. QED
    BY <1>1, <2>1, <2>2, <2>3, <2>4
<1>5. /\ \A u \in Thread : state'[u] = IF u = next THEN "RUNNING"
                                        ELSE IF u \in Due(c) \/ (u = t /\ state[u] = "RUNNING") THEN "READY"
                                        ELSE state[u]
      /\ \A u \in Thread : state'[u] = "BLOCKED" => state[u] = "BLOCKED" /\ blockedOn'[u] = blockedOn[u]
  BY <1>1, <1>2, <1>4 DEF YieldsTo
<1>6. pc' = [pc EXCEPT ![t] = p] /\ pc \in [Thread -> AllPoints]
      /\ UNCHANGED <<sig, parent, tok, target, data>>
  BY DEF Goto, YieldFrame, BusyInv
<1>7. \A u \in Thread : irq'[u] => irq[u] \/ (u = t /\ KernelPreempts)
  <2>1. \E r : irq' = [u \in Thread |-> IF u = current[c] /\ r # current[c] THEN KernelPreempts \/ irq[u] ELSE irq[u]]
    <3>1. PICK order \in Orders(Due(c)) :
              irq' = [u \in Thread |-> IF u = current[c] /\ NextOn(c, Pushed(runq, order)[c]) # current[c]
                                       THEN KernelPreempts \/ irq[u] ELSE irq[u]]
      BY Zenon DEF Yield
    <3>2. QED
      BY <3>1, Zenon
  <2>2. PICK r : irq' = [u \in Thread |-> IF u = current[c] /\ r # current[c] THEN KernelPreempts \/ irq[u] ELSE irq[u]]
    BY <2>1, Zenon
  <2>3. ASSUME NEW u \in Thread
        PROVE  irq'[u] = IF u = t /\ r # t THEN KernelPreempts \/ irq[u] ELSE irq[u]
    BY <1>1, <2>2, Zenon
  <2>4. QED
    BY <2>3, Zenon
<1>8. \A u \in Thread \ {t} : pc'[u] = pc[u] /\ Resting(u)
  BY <1>1, <1>6 DEF BusyInv
<1>9. pc'[t] = p
  BY <1>6
<1>10. ASSUME NEW u \in Thread PROVE IF Runs(u)' THEN Working(u)' ELSE Resting(u)'
  <2>1. CASE u = next
    <3>1. state'[u] = "RUNNING"
      BY <1>5, <2>1
    <3>2. ASSUME u = t PROVE pc'[u] = "run"
      BY <1>4, <1>9, <2>1, <3>2
    <3>3. ASSUME u # t PROVE pc'[u] \in AtWork \ Masked
      <4>1. Resting(u) /\ state[u] \in {"READY", "SLEEPING", "BLOCKED"} /\ pc'[u] = pc[u]
        BY <1>4, <1>6, <1>8, <2>1, <3>3
      <4>2. QED
        BY <4>1 DEF Resting, AtWork, Masked
    <3>4. pc'[u] \in AtWork \ Masked
      BY <3>2, <3>3 DEF AtWork, Masked
    <3>5. Working(u)'
      BY <3>1, <3>4 DEF Working, AtWork, Masked, Telling, AfterPush
    <3>6. QED
      BY <3>5, <1>4, <2>1 DEF Runs
  <2>2. CASE u # next /\ u # t
    <3>1. Resting(u) /\ pc'[u] = pc[u]
      BY <1>8, <2>2
    <3>2. state'[u] = state[u] \/ (state'[u] = "READY" /\ state[u] \in {"SLEEPING", "BLOCKED"})
      BY <1>4, <1>5, <2>2
    <3>3. Resting(u)'
      BY <3>1, <3>2 DEF Resting, AtWork, Masked
    <3>4. QED
      BY <1>4, <2>2, <3>3 DEF Runs
  <2>3. CASE u # next /\ u = t
    <3>1. Resting(u)'
      BY <1>4, <1>5, <1>9, <2>3 DEF Resting
    <3>2. QED
      BY <1>4, <2>3, <3>1 DEF Runs
  <2>4. QED
    BY <2>1, <2>2, <2>3
<1>11. ASSUME NEW u \in Thread
       PROVE  /\ irq'[u] => pc'[u] \notin Masked /\ (KernelPreempts \/ pc'[u] \in {"run", "sleep", "sleeping"})
              /\ pc'[u] \in WithToken => tok'[u] \in Token
              /\ state'[u] = "BLOCKED" => blockedOn'[u] \in Token
  <2>1. /\ irq[u] => pc[u] \notin Masked /\ (KernelPreempts \/ pc[u] \in {"run", "sleep", "sleeping"})
        /\ pc[u] \in WithToken => tok[u] \in Token
        /\ state[u] = "BLOCKED" => blockedOn[u] \in Token
    BY DEF BusyInv
  <2>2. CASE u = t
    BY <1>5, <1>6, <1>7, <1>9, <2>1, <2>2
  <2>3. CASE u # t
    BY <1>5, <1>6, <1>7, <1>8, <2>1, <2>3
  <2>4. QED
    BY <2>2, <2>3
<1>12. ASSUME NEW u \in Thread PROVE Hears(u)'
  <2> SUFFICES ASSUME u \notin cut'
               PROVE  /\ pc'[u] \notin {"park", "park until", "wait"}
                      /\ state'[u] = "BLOCKED" /\ data'[blockedOn'[u]] =>
                            \E w \in Thread : pc'[w] = "wake" /\ tok'[w] = blockedOn'[u]
    BY DEF Hears
  <2>1. Hears(u) /\ u \notin cut
    BY DEF BusyInv
  <2>2. pc'[u] \notin {"park", "park until", "wait"}
    BY <1>1, <1>8, <1>9, <2>1 DEF Hears
  <2>3. ASSUME state'[u] = "BLOCKED", data'[blockedOn'[u]]
        PROVE  \E w \in Thread : pc'[w] = "wake" /\ tok'[w] = blockedOn'[u]
    <3>1. state[u] = "BLOCKED" /\ blockedOn'[u] = blockedOn[u] /\ data[blockedOn[u]]
      BY <1>5, <1>6, <2>3
    <3>2. PICK w \in Thread : pc[w] = "wake" /\ tok[w] = blockedOn[u]
      BY <2>1, <3>1 DEF Hears
    <3>3. QED
      BY <1>6, <1>8, <3>1, <3>2
  <2>4. QED
    BY <2>2, <2>3
<1>13. ASSUME NEW w \in Thread, NEW u \in Thread PROVE Sees(w, u)'
  <2> SUFFICES ASSUME w \notin cut', u \notin cut', u \in Zombies(w)', pc'[w] = "wait" \/ state'[w] = "WAITING"
               PROVE  FALSE
    BY DEF Sees
  <2>1. pc'[w] # "wait"
    <3>1. Hears(w) /\ w \notin cut
      BY DEF BusyInv
    <3>2. QED
      BY <1>1, <1>8, <1>9, <3>1 DEF Hears
  <2>2. state[w] = "WAITING" /\ state[u] = "EXITED" /\ parent[u] = w /\ Alive(u)'
    BY <1>5, <1>6, <2>1 DEF Zombies, Children
  <2>3. Alive(u)
    <3>1. CASE u = t
      <4>1. Working(u)
        BY <1>1, <3>1 DEF BusyInv
      <4>2. QED
        BY <2>2, <4>1 DEF Working, AtWork, Telling, Alive
    <3>2. CASE u # t
      BY <1>8, <2>2, <3>2 DEF Alive
    <3>3. QED
      BY <3>1, <3>2
  <2>4. u \in Zombies(w) /\ {w, u} \cap cut = {}
    BY <2>2, <2>3 DEF Zombies, Children
  <2>5. Sees(w, u)
    BY DEF BusyInv
  <2>6. u = t
    BY <1>1, <2>2, <2>4, <2>5 DEF Sees
  <2>7. QED
    BY <1>1, <2>2, <2>6
<1>14. pc'[Boot] = "run"
  BY <1>1, <1>6 DEF BusyInv
<1>15. pc' \in [Thread -> AllPoints]
  BY <1>6
<1>16. ASSUME NEW d \in Cpu PROVE current'[d] # Idle
  <2>1. d = c /\ current'[c] = next
    BY <1>1, <1>4 DEF TypeOK
  <2>2. next # Idle
    BY <1>1, <1>4
  <2>3. QED
    BY <2>1, <2>2, Zenon
<1>17. QED
  BY <1>3, <1>10, <1>11, <1>12, <1>13, <1>14, <1>15, <1>16 DEF BusyInv
\* The thread that runs goes on.
LEMMA GoesOn ==
  ASSUME OneBusyCpu, BusyInv, TypeOK', NEW t \in Thread, Runs(t), pc[t] # "wake",
         NEW p \in AllPoints, NEW s \in {"RUNNING", "SLEEPING", "BLOCKED", "WAITING", "EXITED"},
         Goto(t, p), state' = [state EXCEPT ![t] = s], UNCHANGED <<parent, runq, current>>,
         t = Boot => p = "run" /\ s = "RUNNING",
         \A u \in Thread \ {t} : blockedOn'[u] = blockedOn[u] /\ tok'[u] = tok[u] /\ irq'[u] = irq[u],
         irq'[t] => p \notin Masked /\ (KernelPreempts \/ p \in {"run", "sleep", "sleeping"}),
         p \in WithToken => tok'[t] \in Token,
         s = "BLOCKED" => blockedOn'[t] \in Token,
         \A k \in Token : data'[k] => data[k] \/ (p = "wake" /\ tok'[t] = k),
         cut' \in {cut, cut \ {t}},
         p \in {"park", "park until"} => t \in cut' \/ ~data'[tok'[t]],
         s = "BLOCKED" => t \in cut' \/ ~data'[blockedOn'[t]],
         p = "wait" \/ s = "WAITING" => t \in cut' \/ Zombies(t)' \subseteq cut',
         Working(t)'
  PROVE  BusyInv'
<1>1. /\ QueueInv /\ TypeOK /\ pc \in [Thread -> AllPoints] /\ Boot \in Thread
      /\ state \in [Thread -> States]
  BY OneCpu DEF BusyInv, QueueInv, QueuesSound, TypeOK
<1>2. \A u \in Thread : (Runs(u) <=> u = t) /\ (Runs(u)' <=> u = t)
  BY OneCpu DEF Runs
<1>3. /\ pc' = [pc EXCEPT ![t] = p]
      /\ pc'[t] = p /\ state'[t] = s
      /\ \A u \in Thread \ {t} : pc'[u] = pc[u] /\ state'[u] = state[u]
  BY <1>1 DEF Goto
<1>4. \A u \in Thread \ {t} : Resting(u) /\ (u \in cut <=> u \in cut')
  BY <1>2 DEF BusyInv
<1>5. state[t] # "READY"
  <2>1. Working(t)
    BY DEF BusyInv
  <2>2. QED
    BY <2>1 DEF Working
<1>6. QueueInv'
  <2>1. \A u \in Thread : state'[u] = "READY" <=> state[u] = "READY"
    BY <1>3, <1>5
  <2>2. QueuesSound'
    BY <1>1, <2>1 DEF QueueInv, QueuesSound
  <2>3. state'[Boot] \in {"RUNNING", "READY"}
    BY <1>1, <1>3 DEF QueueInv
  <2>4. \A u \in Thread : state'[u] = "RUNNING" => current'[Home[u]] = u
    BY <1>1, <1>2, <1>3 DEF QueueInv, Runs
  <2>5. QED
    BY <1>1, <2>2, <2>3, <2>4 DEF QueueInv, Runs
<1>7. pc' \in [Thread -> AllPoints] /\ pc'[Boot] = "run"
  <2>1. pc[Boot] = "run"
    BY DEF BusyInv
  <2>2. QED
    BY <1>1, <1>3, <2>1
<1>8. (\A c \in Cpu : current'[c] # Idle) /\ (~KernelPreempts => cut' = {})
  BY DEF BusyInv
<1>9. ASSUME NEW u \in Thread PROVE IF Runs(u)' THEN Working(u)' ELSE Resting(u)'
  <2>1. CASE u = t
    BY <1>2, <2>1
  <2>2. CASE u # t
    <3>1. Resting(u) /\ pc'[u] = pc[u] /\ state'[u] = state[u]
      BY <1>3, <1>4, <2>2
    <3>2. Resting(u)'
      BY <3>1 DEF Resting
    <3>3. QED
      BY <1>2, <2>2, <3>2
  <2>3. QED
    BY <2>1, <2>2
<1>10. ASSUME NEW u \in Thread
       PROVE  /\ irq'[u] => pc'[u] \notin Masked /\ (KernelPreempts \/ pc'[u] \in {"run", "sleep", "sleeping"})
              /\ pc'[u] \in WithToken => tok'[u] \in Token
              /\ state'[u] = "BLOCKED" => blockedOn'[u] \in Token
  <2>1. /\ irq[u] => pc[u] \notin Masked /\ (KernelPreempts \/ pc[u] \in {"run", "sleep", "sleeping"})
        /\ pc[u] \in WithToken => tok[u] \in Token
        /\ state[u] = "BLOCKED" => blockedOn[u] \in Token
    BY DEF BusyInv
  <2>2. CASE u = t
    BY <1>3, <2>2
  <2>3. CASE u # t
    BY <1>3, <2>1, <2>3
  <2>4. QED
    BY <2>2, <2>3
<1>11. ASSUME NEW u \in Thread PROVE Hears(u)'
  <2>1. CASE u = t
    BY <1>2, <1>3, <2>1 DEF Hears
  <2>2. CASE u # t
    <3> SUFFICES ASSUME u \notin cut'
                 PROVE  /\ pc'[u] \notin {"park", "park until", "wait"}
                        /\ state'[u] = "BLOCKED" /\ data'[blockedOn'[u]] =>
                              \E w \in Thread : pc'[w] = "wake" /\ tok'[w] = blockedOn'[u]
      BY DEF Hears
    <3>1. Hears(u) /\ u \notin cut
      BY <1>4, <2>2 DEF BusyInv
    <3>2. pc'[u] \notin {"park", "park until", "wait"}
      BY <1>2, <1>3, <2>2, <3>1 DEF Hears
    <3>3. ASSUME state'[u] = "BLOCKED", data'[blockedOn'[u]]
          PROVE  \E w \in Thread : pc'[w] = "wake" /\ tok'[w] = blockedOn'[u]
      <4>1. state[u] = "BLOCKED" /\ blockedOn'[u] = blockedOn[u] /\ blockedOn[u] \in Token
        BY <1>3, <2>2, <3>3 DEF BusyInv
      <4>2. CASE p = "wake" /\ tok'[t] = blockedOn[u]
        BY <1>3, <4>1, <4>2
      <4>3. CASE data[blockedOn[u]]
        <5>1. PICK w \in Thread : pc[w] = "wake" /\ tok[w] = blockedOn[u]
          BY <3>1, <4>1, <4>3 DEF Hears
        <5>2. QED
          BY <1>3, <4>1, <5>1
      <4>4. QED
        BY <3>3, <4>1, <4>2, <4>3
    <3>4. QED
      BY <3>2, <3>3
  <2>3. QED
    BY <2>1, <2>2
<1>12. ASSUME NEW w \in Thread, NEW u \in Thread PROVE Sees(w, u)'
  <2> SUFFICES ASSUME w \notin cut', u \notin cut', u \in Zombies(w)', pc'[w] = "wait" \/ state'[w] = "WAITING"
               PROVE  Runs(u)' /\ pc'[u] # "halt"
    BY DEF Sees
  <2>1. CASE u = t
    <3>1. pc'[t] # "halt"
      BY DEF Working, AtWork, Telling
    <3>2. QED
      BY <1>2, <2>1, <3>1
  <2>2. CASE w = t
    BY <1>3, <2>2
  <2>3. CASE u # t /\ w # t
    <3>1. /\ pc'[w] = pc[w] /\ state'[w] = state[w] /\ pc'[u] = pc[u] /\ state'[u] = state[u]
          /\ parent'[u] = parent[u] /\ w \notin cut /\ u \notin cut
      BY <1>3, <1>4, <2>3
    <3>2. u \in Zombies(w)
      BY <3>1 DEF Zombies, Children, Alive
    <3>3. Sees(w, u)
      BY DEF BusyInv
    <3>4. QED
      BY <1>2, <3>1, <3>2, <3>3, <2>3 DEF Sees
  <2>4. QED
    BY <2>1, <2>2, <2>3
<1>13. QED
  BY <1>6, <1>7, <1>8, <1>9, <1>10, <1>11, <1>12 DEF BusyInv

\* Threads that have let the CPU go become READY.
LEMMA WakesUp ==
  ASSUME OneBusyCpu, BusyInv, NEW t \in Thread, Runs(t), state[t] \in {"RUNNING", "EXITED"},
         NEW p \in AllPoints, Goto(t, p),
         NEW S \in SUBSET Thread, MakeReady(S),
         \A u \in S : u # t /\ state[u] \in {"BLOCKED", "SLEEPING", "WAITING"},
         UNCHANGED <<wakeAt, sig, parent, stack, tok, target, passed, irq, current, toFree, data, cut>>,
         t = Boot => p = "run",
         irq[t] => p \notin Masked /\ (KernelPreempts \/ p \in {"run", "sleep", "sleeping"}),
         p \notin WithToken \union {"wait"},
         pc[t] = "wake" => \A u \in Thread \ S : state[u] = "BLOCKED" => blockedOn[u] # tok[t],
         Working(t)'
  PROVE  BusyInv'
<1>1. /\ QueueInv /\ TypeOK /\ pc \in [Thread -> AllPoints] /\ Boot \in Thread
      /\ \A u \in Thread : Home[u] \in Cpu
  BY OneCpu DEF BusyInv, QueueInv, QueuesSound
<1>2. \A u \in Thread : (Runs(u) <=> u = t) /\ (Runs(u)' <=> u = t)
  BY OneCpu DEF Runs
<1>3. /\ pc' = [pc EXCEPT ![t] = p]
      /\ pc'[t] = p
      /\ \A u \in Thread \ {t} : pc'[u] = pc[u]
  BY <1>1 DEF Goto
<1>4. /\ state' = [u \in Thread |-> IF u \in S THEN "READY" ELSE state[u]]
      /\ blockedOn' = [u \in Thread |-> IF u \in S THEN NoToken ELSE blockedOn[u]]
      /\ \E order \in Orders(S) : runq' = Pushed(runq, order)
  BY Zenon DEF MakeReady
<1>5. /\ runq' \in [Cpu -> Seq(Thread)]
      /\ \A d \in Cpu : /\ IsInjective(runq'[d])
                         /\ Range(runq'[d]) = {v \in Thread : state'[v] = "READY" /\ Home[v] = d}
  BY <1>1, <1>4, PushKeeps
<1>6. TypeOK'
  <2>1. state' \in [Thread -> States] /\ blockedOn' \in [Thread -> Token \union {NoToken}]
    BY <1>1, <1>4 DEF TypeOK, States
  <2>2. QED
    BY <1>1, <1>5, <2>1 DEF TypeOK
<1>7. QueueInv'
  <2>1. QueuesSound'
    BY <1>1, <1>5, <1>6 DEF QueuesSound
  <2>2. state'[Boot] \in {"RUNNING", "READY"}
    BY <1>1, <1>4 DEF QueueInv
  <2>3. \A u \in Thread : state'[u] = "RUNNING" => current'[Home[u]] = u
    BY <1>1, <1>4 DEF QueueInv, Runs
  <2>4. QED
    BY <1>1, <1>5, <2>1, <2>2, <2>3 DEF QueueInv, Runs
<1>8. \A u \in Thread \ {t} : Resting(u)
  BY <1>2 DEF BusyInv
<1>9. ASSUME NEW u \in Thread PROVE IF Runs(u)' THEN Working(u)' ELSE Resting(u)'
  <2>1. CASE u = t
    BY <1>2, <2>1
  <2>2. CASE u \in S
    <3>1. Resting(u) /\ state'[u] = "READY" /\ pc'[u] = pc[u]
      BY <1>3, <1>4, <1>8, <2>2
    <3>2. Resting(u)'
      BY <2>2, <3>1 DEF Resting, AtWork, Masked
    <3>3. QED
      BY <1>2, <2>2, <3>2
  <2>3. CASE u # t /\ u \notin S
    <3>1. Resting(u)'
      BY <1>3, <1>4, <1>8, <2>3 DEF Resting
    <3>2. QED
      BY <1>2, <2>3, <3>1
  <2>4. QED
    BY <2>1, <2>2, <2>3
<1>10. ASSUME NEW u \in Thread
       PROVE  /\ irq'[u] => pc'[u] \notin Masked /\ (KernelPreempts \/ pc'[u] \in {"run", "sleep", "sleeping"})
              /\ pc'[u] \in WithToken => tok'[u] \in Token
              /\ state'[u] = "BLOCKED" => blockedOn'[u] \in Token
  <2>1. /\ irq[u] => pc[u] \notin Masked /\ (KernelPreempts \/ pc[u] \in {"run", "sleep", "sleeping"})
        /\ pc[u] \in WithToken => tok[u] \in Token
        /\ state[u] = "BLOCKED" => blockedOn[u] \in Token
    BY DEF BusyInv
  <2>2. state'[u] = "BLOCKED" => blockedOn'[u] \in Token
    BY <1>4, <2>1
  <2>3. CASE u = t
    BY <1>3, <2>2, <2>3
  <2>4. CASE u # t
    BY <1>3, <2>1, <2>2, <2>4
  <2>5. QED
    BY <2>3, <2>4
<1>11. ASSUME NEW u \in Thread PROVE Hears(u)'
  <2> SUFFICES ASSUME u \notin cut
               PROVE  /\ pc'[u] \notin {"park", "park until", "wait"}
                      /\ state'[u] = "BLOCKED" /\ data'[blockedOn'[u]] =>
                            \E w \in Thread : pc'[w] = "wake" /\ tok'[w] = blockedOn'[u]
    BY DEF Hears
  <2>1. Hears(u)
    BY DEF BusyInv
  <2>2. pc'[u] \notin {"park", "park until", "wait"}
    BY <1>2, <1>3, <2>1 DEF Hears, WithToken
  <2>3. ASSUME state'[u] = "BLOCKED", data'[blockedOn'[u]]
        PROVE  \E w \in Thread : pc'[w] = "wake" /\ tok'[w] = blockedOn'[u]
    <3>1. u \notin S /\ state[u] = "BLOCKED" /\ blockedOn'[u] = blockedOn[u]
      BY <1>4, <2>3
    <3>2. PICK w \in Thread : pc[w] = "wake" /\ tok[w] = blockedOn[u]
      BY <2>1, <2>3, <3>1 DEF Hears
    <3>3. w # t
      BY <3>1, <3>2
    <3>4. QED
      BY <1>3, <3>1, <3>2, <3>3
  <2>4. QED
    BY <2>2, <2>3
<1>12. ASSUME NEW w \in Thread, NEW u \in Thread PROVE Sees(w, u)'
  <2> SUFFICES ASSUME w \notin cut, u \notin cut, u \in Zombies(w)', pc'[w] = "wait" \/ state'[w] = "WAITING"
               PROVE  Runs(u)' /\ pc'[u] # "halt"
    BY DEF Sees
  <2>1. CASE u = t
    <3>1. pc'[t] # "halt"
      BY DEF Working, AtWork, Telling
    <3>2. QED
      BY <1>2, <2>1, <3>1
  <2>2. CASE w = t
    BY <1>3, <1>4, <2>2
  <2>3. CASE u # t /\ w # t
    <3>1. /\ pc'[w] = pc[w] /\ pc'[u] = pc[u] /\ (state'[w] = "WAITING" => state[w] = "WAITING")
          /\ state[u] = "EXITED" /\ parent[u] = w /\ Alive(u)'
      BY <1>3, <1>4, <2>3 DEF Zombies, Children
    <3>2. u \in Zombies(w)
      BY <3>1 DEF Zombies, Children, Alive
    <3>3. Sees(w, u)
      BY DEF BusyInv
    <3>4. QED
      BY <1>2, <3>1, <3>2, <3>3, <2>3 DEF Sees
  <2>4. QED
    BY <2>1, <2>2, <2>3
<1>13. pc' \in [Thread -> AllPoints] /\ pc'[Boot] = "run"
  <2>1. pc[Boot] = "run"
    BY DEF BusyInv
  <2>2. QED
    BY <1>1, <1>3, <2>1
<1>14. (\A c \in Cpu : current'[c] # Idle) /\ (~KernelPreempts => cut' = {})
  BY DEF BusyInv
<1>15. QED
  BY <1>7, <1>9, <1>10, <1>11, <1>12, <1>13, <1>14 DEF BusyInv
\* What is known of the thread that runs.
LEMMA RunsAtWork ==
  ASSUME OneBusyCpu, BusyInv, NEW t \in Thread, Runs(t)
  PROVE  /\ TypeOK /\ Working(t) /\ Hears(t) /\ Home[t] \in Cpu /\ pc \in [Thread -> AllPoints]
         /\ t = Boot => pc[t] = "run"
         /\ irq[t] => pc[t] \notin Masked /\ (KernelPreempts \/ pc[t] \in {"run", "sleep", "sleeping"})
         /\ pc[t] \in WithToken => tok[t] \in Token
         /\ state[t] = "BLOCKED" => blockedOn[t] \in Token
<1>1. TypeOK /\ Working(t) /\ Hears(t) /\ pc \in [Thread -> AllPoints]
  BY DEF BusyInv, QueueInv, QueuesSound
<1>2. Home[t] \in Cpu
  BY OneCpu
<1>3. /\ t = Boot => pc[t] = "run"
      /\ irq[t] => pc[t] \notin Masked /\ (KernelPreempts \/ pc[t] \in {"run", "sleep", "sleeping"})
      /\ pc[t] \in WithToken => tok[t] \in Token
      /\ state[t] = "BLOCKED" => blockedOn[t] \in Token
  BY DEF BusyInv
<1>4. QED
  BY <1>1, <1>2, <1>3

\* Most points ask for nothing but RUNNING.
Plain == AtWork \ {"park", "park until", "wait", "push kill"}

LEMMA PlainIsWorking ==
  ASSUME NEW t \in Thread, pc'[t] \in Plain, state'[t] = "RUNNING"
  PROVE  Working(t)'
BY DEF Plain, Working, AtWork, AfterPush

\* thread_create.
LEMMA BirthKeeps ==
  ASSUME OneBusyCpu, BusyInv, NEW t \in Thread, NEW u \in Thread, Create(t, u), UNCHANGED cut
  PROVE  BusyInv'
<1>1. /\ Runs(t) /\ pc[t] = "run" /\ pc[u] = "unborn"
      /\ state' = [state EXCEPT ![u] = "READY"] /\ pc' = [pc EXCEPT ![u] = "run"]
      /\ parent' = [parent EXCEPT ![u] = t] /\ irq' = [irq EXCEPT ![u] = TRUE]
      /\ \E order \in Orders({u}) : runq' = Pushed(runq, order)
      /\ UNCHANGED <<blockedOn, wakeAt, sig, tok, target, passed, current, toFree, data>>
  BY DEF Create, At
<1>2. /\ QueueInv /\ TypeOK /\ pc \in [Thread -> AllPoints] /\ Boot \in Thread
      /\ \A v \in Thread : Home[v] \in Cpu
      /\ state \in [Thread -> States] /\ parent \in [Thread -> Thread \union {NoThread}] /\ irq \in [Thread -> BOOLEAN]
  BY OneCpu DEF BusyInv, QueueInv, QueuesSound, TypeOK
<1>3. \A v \in Thread : (Runs(v) <=> v = t) /\ (Runs(v)' <=> v = t)
  BY <1>1, OneCpu DEF Runs
<1>4. u # t /\ u # Boot /\ state[u] = "none"
  <2>1. Resting(u) /\ pc[Boot] = "run"
    BY <1>1, <1>3 DEF BusyInv
  <2>2. QED
    BY <1>1, <2>1 DEF Resting, AtWork, Telling
<1>5. state[t] = "RUNNING"
  BY <1>1, RunsAtWork DEF Working, Telling
<1>6. /\ pc'[u] = "run" /\ state'[u] = "READY"
      /\ \A v \in Thread \ {u} : /\ pc'[v] = pc[v] /\ state'[v] = state[v]
                                  /\ parent'[v] = parent[v] /\ irq'[v] = irq[v]
  BY <1>1, <1>2
<1>7. /\ runq' \in [Cpu -> Seq(Thread)]
      /\ \A d \in Cpu : /\ IsInjective(runq'[d])
                         /\ Range(runq'[d]) = {v \in Thread : state'[v] = "READY" /\ Home[v] = d}
  <2>1. \A v \in Thread : state'[v] = IF v \in {u} THEN "READY" ELSE state[v]
    BY <1>6
  <2>2. QED
    BY <1>1, <1>2, <1>4, <2>1, PushKeeps
<1>8. TypeOK'
  <2>1. /\ state' \in [Thread -> States] /\ stack' \in [Thread -> {"none", "held", "freed"}]
        /\ parent' \in [Thread -> Thread \union {NoThread}] /\ irq' \in [Thread -> BOOLEAN]
    BY <1>1, <1>2 DEF TypeOK, States, Create
  <2>2. QED
    BY <1>1, <1>2, <1>7, <2>1 DEF TypeOK
<1>9. QueueInv'
  <2>1. QueuesSound'
    BY <1>2, <1>7, <1>8 DEF QueuesSound
  <2>2. state'[Boot] \in {"RUNNING", "READY"}
    BY <1>2, <1>6 DEF QueueInv
  <2>3. \A v \in Thread : state'[v] = "RUNNING" => current'[Home[v]] = v
    BY <1>1, <1>2, <1>6 DEF QueueInv, Runs
  <2>4. QED
    BY <1>1, <1>2, <1>7, <2>1, <2>2, <2>3 DEF QueueInv, Runs
<1>10. Working(t)'
  BY <1>1, <1>4, <1>5, <1>6, PlainIsWorking DEF Plain, AtWork
<1>11. ASSUME NEW v \in Thread PROVE IF Runs(v)' THEN Working(v)' ELSE Resting(v)'
  <2>1. CASE v = t
    BY <1>3, <1>10, <2>1
  <2>2. CASE v = u
    BY <1>3, <1>4, <1>6, <2>2 DEF Resting, AtWork, Masked
  <2>3. CASE v # t /\ v # u
    <3>1. Resting(v)
      BY <1>3, <2>3 DEF BusyInv
    <3>2. Resting(v)'
      BY <1>6, <2>3, <3>1 DEF Resting
    <3>3. QED
      BY <1>3, <2>3, <3>2
  <2>4. QED
    BY <2>1, <2>2, <2>3
<1>12. ASSUME NEW v \in Thread
       PROVE  /\ irq'[v] => pc'[v] \notin Masked /\ (KernelPreempts \/ pc'[v] \in {"run", "sleep", "sleeping"})
              /\ pc'[v] \in WithToken => tok'[v] \in Token
              /\ state'[v] = "BLOCKED" => blockedOn'[v] \in Token
  <2>1. /\ irq[v] => pc[v] \notin Masked /\ (KernelPreempts \/ pc[v] \in {"run", "sleep", "sleeping"})
        /\ pc[v] \in WithToken => tok[v] \in Token
        /\ state[v] = "BLOCKED" => blockedOn[v] \in Token
    BY DEF BusyInv
  <2>2. "run" \notin WithToken \union Masked
    BY DEF WithToken, Masked
  <2>3. QED
    BY <1>1, <1>6, <2>1, <2>2
<1>13. ASSUME NEW v \in Thread PROVE Hears(v)'
  <2>1. CASE v = u
    BY <1>6, <2>1 DEF Hears
  <2>2. CASE v # u
    <3> SUFFICES ASSUME v \notin cut
                 PROVE  /\ pc[v] \in {"park", "park until", "wait"} => v = t
                        /\ pc[v] \in {"park", "park until"} => ~data[tok[v]]
                        /\ state[v] = "BLOCKED" /\ data[blockedOn[v]] =>
                              \E w \in Thread : pc'[w] = "wake" /\ tok[w] = blockedOn[v]
      BY <1>1, <1>3, <1>6, <2>2 DEF Hears
    <3>1. Hears(v)
      BY DEF BusyInv
    <3>2. ASSUME NEW w \in Thread, pc[w] = "wake" PROVE pc'[w] = "wake"
      BY <1>1, <1>6, <3>2
    <3>3. QED
      BY <1>3, <3>1, <3>2 DEF Hears
  <2>3. QED
    BY <2>1, <2>2
<1>14. ASSUME NEW w \in Thread, NEW v \in Thread PROVE Sees(w, v)'
  <2> SUFFICES ASSUME w \notin cut, v \notin cut, v \in Zombies(w)', pc'[w] = "wait" \/ state'[w] = "WAITING"
               PROVE  Runs(v)' /\ pc'[v] # "halt"
    BY <1>1 DEF Sees
  <2>1. v # u /\ w # u
    BY <1>6 DEF Zombies
  <2>2. /\ pc'[w] = pc[w] /\ state'[w] = state[w] /\ pc'[v] = pc[v] /\ state'[v] = state[v]
        /\ parent'[v] = parent[v]
    BY <1>6, <2>1
  <2>3. v \in Zombies(w)
    BY <2>2 DEF Zombies, Children, Alive
  <2>4. Sees(w, v)
    BY DEF BusyInv
  <2>5. QED
    BY <1>3, <2>2, <2>3, <2>4 DEF Sees
<1>15. pc' \in [Thread -> AllPoints] /\ pc'[Boot] = "run"
  <2>1. pc[Boot] = "run" /\ "run" \in AllPoints
    BY DEF BusyInv, AllPoints, AtWork
  <2>2. QED
    BY <1>1, <1>2, <1>4, <1>6, <2>1
<1>16. (\A c \in Cpu : current'[c] # Idle) /\ (~KernelPreempts => cut' = {})
  BY <1>1 DEF BusyInv
<1>17. QED
  BY <1>9, <1>11, <1>12, <1>13, <1>14, <1>15, <1>16 DEF BusyInv

\* thread_waitpid and thread_exit reap threads that have ended.
LEMMA ReapKeeps ==
  ASSUME OneBusyCpu, BusyInv, TypeOK', NEW t \in Thread \ {Boot}, Runs(t), pc[t] \in {"scan", "mark"},
         NEW p \in {"ret", "tell"}, NEW s \in {"RUNNING", "EXITED"},
         NEW S \in SUBSET Thread, \A u \in S : u # t /\ Alive(u) /\ state[u] = "EXITED",
         pc' = [u \in Thread |-> IF u = t THEN p ELSE IF u \in S THEN "gone" ELSE pc[u]],
         state' = [state EXCEPT ![t] = s],
         \A u \in Thread : parent'[u] \in {parent[u], NoThread},
         UNCHANGED <<blockedOn, tok, irq, runq, current, data>>, cut' \in {cut, cut \ {t}},
         Working(t)'
  PROVE  BusyInv'
<1>1. /\ QueueInv /\ TypeOK /\ pc \in [Thread -> AllPoints] /\ Boot \in Thread /\ NoThread \notin Thread
      /\ state \in [Thread -> States] /\ pc[Boot] = "run"
  BY OneCpu DEF BusyInv, QueueInv, QueuesSound, TypeOK
<1>2. \A u \in Thread : (Runs(u) <=> u = t) /\ (Runs(u)' <=> u = t)
  BY OneCpu DEF Runs
<1>3. /\ pc'[t] = p /\ state'[t] = s
      /\ \A u \in Thread \ {t} : state'[u] = state[u] /\ pc'[u] = IF u \in S THEN "gone" ELSE pc[u]
  BY <1>1
<1>4. state[t] # "READY"
  BY RunsAtWork DEF Working
<1>5. Boot \notin S
  BY <1>1 DEF QueueInv
<1>6. QueueInv'
  <2>1. \A u \in Thread : state'[u] = "READY" <=> state[u] = "READY"
    BY <1>3, <1>4
  <2>2. QueuesSound'
    BY <1>1, <2>1 DEF QueueInv, QueuesSound
  <2>3. state'[Boot] \in {"RUNNING", "READY"}
    BY <1>1, <1>3 DEF QueueInv
  <2>4. \A u \in Thread : state'[u] = "RUNNING" => current'[Home[u]] = u
    BY <1>1, <1>2, <1>3 DEF QueueInv, Runs
  <2>5. QED
    BY <1>1, <2>2, <2>3, <2>4 DEF QueueInv, Runs
<1>7. pc' \in [Thread -> AllPoints] /\ pc'[Boot] = "run"
  <2>1. p \in AllPoints /\ "gone" \in AllPoints
    BY DEF AllPoints, AtWork, Telling
  <2>2. QED
    BY <1>1, <1>3, <1>5, <2>1
<1>8. ASSUME NEW u \in Thread PROVE IF Runs(u)' THEN Working(u)' ELSE Resting(u)'
  <2>1. CASE u = t
    BY <1>2, <2>1
  <2>2. CASE u # t
    <3>1. Resting(u)
      BY <1>2, <2>2 DEF BusyInv
    <3>2. Resting(u)'
      BY <1>3, <2>2, <3>1 DEF Resting
    <3>3. QED
      BY <1>2, <2>2, <3>2
  <2>3. QED
    BY <2>1, <2>2
<1>9. ASSUME NEW u \in Thread
      PROVE  /\ irq'[u] => pc'[u] \notin Masked /\ (KernelPreempts \/ pc'[u] \in {"run", "sleep", "sleeping"})
             /\ pc'[u] \in WithToken => tok'[u] \in Token
             /\ state'[u] = "BLOCKED" => blockedOn'[u] \in Token
  <2>1. /\ irq[u] => pc[u] \notin Masked /\ (KernelPreempts \/ pc[u] \in {"run", "sleep", "sleeping"})
        /\ pc[u] \in WithToken => tok[u] \in Token
        /\ state[u] = "BLOCKED" => blockedOn[u] \in Token
    BY DEF BusyInv
  <2>2. {"ret", "tell", "gone"} \cap (WithToken \union Masked) = {}
    BY DEF WithToken, Masked
  <2>3. CASE u = t
    BY <1>3, <2>1, <2>2, <2>3
  <2>4. CASE u \in S
    <3>1. Resting(u) /\ state[u] = "EXITED"
      BY <1>2, <2>4 DEF BusyInv
    <3>2. QED
      BY <1>3, <2>1, <2>2, <2>4, <3>1 DEF Resting, AtWork, Telling
  <2>5. CASE u # t /\ u \notin S
    BY <1>3, <2>1, <2>5
  <2>6. QED
    BY <2>3, <2>4, <2>5
<1>10. ASSUME NEW u \in Thread PROVE Hears(u)'
  <2>1. CASE u = t
    BY <1>3, <2>1 DEF Hears
  <2>2. CASE u # t
    <3> SUFFICES ASSUME u \notin cut'
                 PROVE  /\ pc'[u] \notin {"park", "park until", "wait"}
                        /\ state'[u] = "BLOCKED" => ~data'[blockedOn'[u]]
      BY DEF Hears
    <3>1. Hears(u) /\ u \notin cut
      BY <2>2 DEF BusyInv
    <3>2. pc'[u] \notin {"park", "park until", "wait"}
      BY <1>2, <1>3, <2>2, <3>1 DEF Hears
    <3>3. ASSUME state'[u] = "BLOCKED", data'[blockedOn'[u]] PROVE FALSE
      <4>1. state[u] = "BLOCKED" /\ data[blockedOn[u]]
        BY <1>3, <2>2, <3>3
      <4>2. PICK w \in Thread : pc[w] = "wake" /\ tok[w] = blockedOn[u]
        BY <3>1, <4>1 DEF Hears
      <4>3. w # t /\ Resting(w)
        BY <1>2, <4>2 DEF BusyInv
      <4>4. QED
        BY <4>2, <4>3 DEF Resting, Masked, Telling
    <3>4. QED
      BY <3>2, <3>3
  <2>3. QED
    BY <2>1, <2>2
<1>11. ASSUME NEW w \in Thread, NEW u \in Thread PROVE Sees(w, u)'
  <2> SUFFICES ASSUME w \notin cut', u \notin cut', u \in Zombies(w)', pc'[w] = "wait" \/ state'[w] = "WAITING"
               PROVE  Runs(u)' /\ pc'[u] # "halt"
    BY DEF Sees
  <2>1. CASE u = t
    BY <1>2, <1>3, <2>1
  <2>2. CASE w = t
    BY <1>3, <2>2
  <2>3. CASE u # t /\ w # t
    <3>1. /\ (pc'[w] = "wait" => pc[w] = "wait") /\ state'[w] = state[w] /\ state'[u] = state[u]
          /\ w \notin cut /\ u \notin cut
      BY <1>3, <2>3
    <3>2. state'[u] = "EXITED" /\ parent'[u] = w /\ Alive(u)'
      BY DEF Zombies, Children
    <3>3. parent[u] = w /\ u \notin S /\ pc'[u] = pc[u]
      BY <1>1, <1>3, <2>3, <3>2 DEF Alive
    <3>4. u \in Zombies(w)
      BY <3>1, <3>2, <3>3 DEF Zombies, Children, Alive
    <3>5. Sees(w, u)
      BY DEF BusyInv
    <3>6. QED
      BY <1>2, <2>3, <3>1, <3>4, <3>5 DEF Sees
  <2>4. QED
    BY <2>1, <2>2, <2>3
<1>12. (\A c \in Cpu : current'[c] # Idle) /\ (~KernelPreempts => cut' = {})
  BY DEF BusyInv
<1>13. QED
  BY <1>6, <1>7, <1>8, <1>9, <1>10, <1>11, <1>12 DEF BusyInv
\* sys_kill and the signal of thread_exit: the thread they found asleep is remembered.
LEMMA SignalFacts ==
  ASSUME BusyInv, NEW t \in Thread, Runs(t), NEW u \in Thread, NEW s \in {"INT", "CHLD"}, NEW push, NEW p,
         Signal(t, u, s, push, p)
  PROVE  /\ sig' \in [Thread -> SUBSET {"INT", "CHLD"}] /\ target' \in [Thread -> Thread \union {NoThread}]
         /\ \/ Goto(t, push) /\ target'[t] = u /\ state[u] \in {"BLOCKED", "SLEEPING"}
            \/ Goto(t, p)
<1>1. sig \in [Thread -> SUBSET {"INT", "CHLD"}] /\ target \in [Thread -> Thread \union {NoThread}]
  BY DEF BusyInv, QueueInv, QueuesSound, TypeOK
<1>2. sig' = [sig EXCEPT ![u] = sig[u] \union {s}]
  BY DEF Signal
<1>3. \/ Goto(t, push) /\ target' = [target EXCEPT ![t] = u] /\ state[u] \in {"BLOCKED", "SLEEPING"}
      \/ Goto(t, p) /\ target' = target
  BY Zenon DEF Signal
<1>4. sig' \in [Thread -> SUBSET {"INT", "CHLD"}]
  BY <1>1, <1>2
<1>5. QED
  BY <1>1, <1>3, <1>4

\* What a thread does in user mode.
LEMMA UserGoesOn ==
  ASSUME OneBusyCpu, BusyInv, NEW t \in Thread, Call(t)
  PROVE  BusyInv'
<1>0. cut' = cut /\ cut' \subseteq Thread
  BY DEF Call, BusyInv, QueueInv, QueuesSound, TypeOK
<1>1. TypeOK /\ pc \in [Thread -> AllPoints] /\ (~KernelPreempts => cut' = {})
  BY <1>0 DEF BusyInv, QueueInv, QueuesSound
<1>2. /\ t = Boot => Does[t] \subseteq {"create", "yield"}
      /\ \A p \in Plain : p \in AllPoints
  BY DEF OneBusyCpu, Plain, AllPoints
<1>3. ASSUME At(t, "run")
      PROVE  /\ Runs(t) /\ pc[t] = "run" /\ state[t] = "RUNNING" /\ state = [state EXCEPT ![t] = "RUNNING"]
             /\ Home[t] \in Cpu
  <2>1. Runs(t) /\ pc[t] = "run"
    BY <1>3 DEF At
  <2>2. Working(t) /\ Home[t] \in Cpu
    BY <2>1, RunsAtWork
  <2>3. state[t] = "RUNNING"
    BY <2>1, <2>2 DEF Working, Telling
  <2>4. QED
    BY <1>1, <2>1, <2>2, <2>3 DEF TypeOK
<1>4. ASSUME NEW u \in Thread, Create(t, u) PROVE BusyInv'
  BY <1>0, <1>4, BirthKeeps
<1>5. ASSUME NEW u \in Thread, Kill(t, u) PROVE BusyInv'
  <2>1. /\ At(t, "run") /\ t # Boot /\ Signal(t, u, "INT", "push kill", "ret")
        /\ irq' = [irq EXCEPT ![t] = FALSE]
        /\ UNCHANGED <<state, blockedOn, wakeAt, parent, stack, tok, passed, runq, current, toFree, data>>
    BY <1>2, <1>5 DEF Kill, cpus
  <2>2. PICK p \in {"push kill", "ret"} :
            /\ Goto(t, p) /\ sig' \in [Thread -> SUBSET {"INT", "CHLD"}] /\ target' \in [Thread -> Thread \union {NoThread}]
            /\ p = "push kill" => target'[t] = u /\ state[u] \in {"BLOCKED", "SLEEPING"}
    BY <1>3, <2>1, SignalFacts
  <2>3. TypeOK'
    BY <1>0, <1>1, <2>1, <2>2 DEF TypeOK
  <2>4. pc'[t] = p /\ state'[t] = "RUNNING" /\ state'[u] = state[u] /\ irq'[t] = FALSE
        /\ \A v \in Thread \ {t} : irq'[v] = irq[v]
    BY <1>1, <1>3, <2>1, <2>2 DEF Goto, TypeOK
  <2>5. Working(t)'
    BY <1>3, <2>1, <2>2, <2>4 DEF Working, AtWork, AfterPush
  <2>6. p \in AllPoints /\ p \notin WithToken /\ p # "wait"
    BY DEF AllPoints, AtWork, WithToken
  <2>7. QED
    BY <1>0, <1>3, <2>1, <2>2, <2>3, <2>4, <2>5, <2>6, GoesOn
<1>6. CASE CallYield(t)
  <2>1. At(t, "run") /\ Yield(Home[t]) /\ UNCHANGED pc /\ YieldFrame
    BY <1>6, Zenon DEF CallYield
  <2>2. Goto(t, "run") /\ "run" \in AllPoints /\ "run" \in AtWork /\ "run" \notin WithToken \union Masked
    BY <1>1, <1>3, <2>1 DEF Goto, AllPoints, AtWork, WithToken, Masked
  <2>3. QED
    BY <1>0, <1>1, <1>3, <2>1, <2>2, LeaveKeeps
<1>7. CASE Sleep(t)
  <2>1. /\ At(t, "run") /\ t # Boot /\ Goto(t, "sleep") /\ passed' = [passed EXCEPT ![t] = FALSE]
        /\ UNCHANGED <<state, blockedOn, wakeAt, sig, parent, stack, tok, target, irq, runq, current, toFree, data>>
    BY <1>2, <1>7 DEF Sleep, fields, cpus
  <2>2. TypeOK'
    BY <1>0, <1>1, <2>1 DEF TypeOK
  <2>3. "sleep" \in Plain /\ "sleep" \notin WithToken \union Masked /\ pc'[t] = "sleep"
    BY <1>1, <2>1 DEF Plain, AtWork, WithToken, Masked, Goto
  <2>4. Working(t)'
    BY <1>3, <2>1, <2>3, PlainIsWorking
  <2>5. QED
    BY <1>0, <1>2, <1>3, <2>1, <2>2, <2>3, <2>4, GoesOn
<1>8. CASE Waitpid(t) \/ Exit(t)
  <2>1. /\ At(t, "run") /\ t # Boot /\ irq' = [irq EXCEPT ![t] = FALSE]
        /\ UNCHANGED <<state, blockedOn, wakeAt, sig, parent, stack, tok, target, passed, runq, current, toFree, data>>
    BY <1>2, <1>8 DEF Waitpid, Exit, Enters, fields, cpus
  <2>2. PICK p \in {"scan", "exit"} : Goto(t, p)
    BY <1>8 DEF Waitpid, Exit, Enters
  <2>3. TypeOK'
    BY <1>0, <1>1, <2>1 DEF TypeOK
  <2>4. p \in Plain /\ p \notin WithToken /\ pc'[t] = p /\ irq'[t] = FALSE
        /\ \A v \in Thread \ {t} : irq'[v] = irq[v]
    BY <1>1, <2>1, <2>2 DEF Plain, AtWork, WithToken, Goto, TypeOK
  <2>5. Working(t)'
    BY <1>3, <2>1, <2>4, PlainIsWorking
  <2>6. QED
    BY <1>0, <1>2, <1>3, <2>1, <2>2, <2>3, <2>4, <2>5, GoesOn
<1>9. ASSUME NEW k \in Token, NEW op, Read(t, k, op) PROVE BusyInv'
  <2>1. PICK p \in {"check", "check until"} : Goto(t, p)
    BY <1>9 DEF Read, Enters
  <2>2. /\ At(t, "run") /\ t # Boot /\ tok' = [tok EXCEPT ![t] = k] /\ irq' = [irq EXCEPT ![t] = FALSE]
        /\ passed' \in {passed, [passed EXCEPT ![t] = FALSE]}
        /\ UNCHANGED <<state, blockedOn, wakeAt, sig, parent, stack, target, runq, current, toFree, data>>
    BY <1>2, <1>9 DEF Read, Enters, fields, cpus
  <2>3. TypeOK'
    BY <1>0, <1>1, <2>2 DEF TypeOK
  <2>4. p \in Plain /\ pc'[t] = p /\ irq'[t] = FALSE /\ tok'[t] = k
        /\ \A v \in Thread \ {t} : irq'[v] = irq[v] /\ tok'[v] = tok[v]
    BY <1>1, <2>1, <2>2 DEF Plain, AtWork, Goto, TypeOK
  <2>5. Working(t)'
    BY <1>3, <2>2, <2>4, PlainIsWorking
  <2>6. QED
    BY <1>0, <1>2, <1>3, <2>1, <2>2, <2>3, <2>4, <2>5, GoesOn
<1>10. ASSUME NEW k \in Token, FutexWait(t, k) PROVE BusyInv'
  <2>1. /\ At(t, "run") /\ t # Boot
        /\ UNCHANGED <<wakeAt, sig, parent, stack, tok, target, passed, runq, current, toFree>>
    BY <1>2, <1>10 DEF FutexWait, cpus
  <2>2. CASE /\ data[k] /\ data' = [data EXCEPT ![k] = FALSE]
             /\ UNCHANGED <<blockedOn, state, pc, irq>>
    <3>1. TypeOK'
      BY <1>0, <1>1, <2>1, <2>2 DEF TypeOK
    <3>2. Goto(t, "run") /\ "run" \in Plain /\ "run" \notin WithToken \union Masked /\ pc'[t] = "run"
      BY <1>1, <1>3, <2>1, <2>2 DEF Goto, Plain, AtWork, WithToken, Masked
    <3>3. \A m \in Token : data'[m] => data[m]
      BY <1>1, <2>2 DEF TypeOK
    <3>4. Working(t)'
      BY <1>3, <2>1, <2>2, <3>2, PlainIsWorking
    <3>5. QED
      BY <1>0, <1>2, <1>3, <2>1, <2>2, <3>1, <3>2, <3>3, <3>4, GoesOn
  <2>3. CASE /\ ~data[k] /\ blockedOn' = [blockedOn EXCEPT ![t] = k] /\ state' = [state EXCEPT ![t] = "BLOCKED"]
             /\ Goto(t, "futex parked") /\ irq' = [irq EXCEPT ![t] = FALSE] /\ UNCHANGED data
    <3>1. TypeOK'
      BY <1>0, <1>1, <2>1, <2>3 DEF TypeOK, States
    <3>2. "futex parked" \in AllPoints /\ "futex parked" \notin WithToken
      BY DEF AllPoints, Parking, WithToken
    <3>3. /\ blockedOn'[t] = k /\ state'[t] = "BLOCKED" /\ pc'[t] = "futex parked" /\ irq'[t] = FALSE
          /\ \A u \in Thread \ {t} : blockedOn'[u] = blockedOn[u] /\ irq'[u] = irq[u]
      BY <1>1, <2>3 DEF TypeOK, Goto
    <3>4. Working(t)'
      BY <2>3, <3>3 DEF Working, AfterPush
    <3>5. QED
      BY <1>0, <1>3, <2>1, <2>3, <3>1, <3>2, <3>3, <3>4, GoesOn
  <2>4. QED
    BY <1>10, <2>2, <2>3, Zenon DEF FutexWait
<1>11. ASSUME NEW k \in Token, Post(t, k) PROVE BusyInv'
  <2>1. /\ At(t, "run") /\ t # Boot /\ Goto(t, "wake") /\ tok' = [tok EXCEPT ![t] = k] /\ irq' = [irq EXCEPT ![t] = FALSE]
        /\ data' = [data EXCEPT ![k] = TRUE]
        /\ UNCHANGED <<state, blockedOn, wakeAt, sig, parent, stack, target, passed, runq, current, toFree>>
    BY <1>2, <1>11 DEF Post, Enters, fields, cpus
  <2>2. TypeOK'
    BY <1>0, <1>1, <2>1 DEF TypeOK
  <2>3. "wake" \in Plain /\ pc'[t] = "wake"
    BY <1>1, <2>1 DEF Plain, AtWork, Goto
  <2>4. /\ tok'[t] = k /\ irq'[t] = FALSE
        /\ \A u \in Thread \ {t} : tok'[u] = tok[u] /\ irq'[u] = irq[u]
        /\ \A m \in Token : m # k => data'[m] = data[m]
    BY <1>1, <2>1 DEF TypeOK
  <2>5. Working(t)'
    BY <1>3, <2>1, <2>3, PlainIsWorking
  <2>6. QED
    BY <1>0, <1>2, <1>3, <2>1, <2>2, <2>3, <2>4, <2>5, GoesOn
<1>12. QED
  BY <1>4, <1>5, <1>6, <1>7, <1>8, <1>9, <1>10, <1>11 DEF Call

\* The calls of yield() in the kernel.
LEMMA KernelLeaves ==
  ASSUME OneBusyCpu, BusyInv, NEW t \in Thread,
         Parked(t) \/ FutexParked(t) \/ Sleeping(t) \/ Waiting(t) \/ Leave(t), UNCHANGED cut
  PROVE  BusyInv'
<1>1. At(t, pc[t]) /\ Runs(t) /\ Yield(Home[t]) /\ YieldFrame
  BY Zenon DEF Parked, FutexParked, Sleeping, Waiting, Leave, At
<1>2. Working(t) /\ (t = Boot => pc[t] = "run") /\ (irq[t] => pc[t] \notin Masked /\ (KernelPreempts \/ pc[t] \in {"run", "sleep", "sleeping"}))
      /\ (pc[t] \in WithToken => tok[t] \in Token)
      /\ cut' = cut /\ cut' \subseteq Thread /\ (~KernelPreempts => cut' = {})
  BY <1>1, RunsAtWork DEF BusyInv, TypeOK
<1>3. CASE Parked(t)
  <2>1. PICK q \in {"parked", "parked until"}, p \in {"woken", "woken until"} : pc[t] = q /\ Goto(t, p)
    BY <1>3, Zenon DEF Parked, At
  <2>2. state[t] \in {"RUNNING", "BLOCKED"} /\ t # Boot /\ (irq[t] => KernelPreempts)
    BY <1>2, <2>1 DEF Working, AtWork, Telling
  <2>3. p \in AllPoints \ Masked /\ p \in AtWork /\ pc[t] \in WithToken
    BY <2>1 DEF AllPoints, AtWork, WithToken, Masked
  <2>4. QED
    BY <1>1, <1>2, <2>1, <2>2, <2>3, LeaveKeeps
<1>4. CASE FutexParked(t)
  <2>1. pc[t] = "futex parked" /\ Goto(t, "ret")
    BY <1>4, Zenon DEF FutexParked, At
  <2>2. state[t] = "BLOCKED" /\ t # Boot /\ ~irq[t]
    BY <1>2, <2>1 DEF Working, AtWork, Telling, Masked
  <2>3. "ret" \in AllPoints \ Masked /\ "ret" \notin WithToken
    BY DEF AllPoints, AtWork, WithToken, Masked
  <2> DEFINE p == "ret"
  <2>4. /\ Goto(t, p) /\ p \in AllPoints \ Masked /\ pc[t] # "wake" /\ p \notin {"park", "park until", "wait"}
        /\ p \notin WithToken /\ (t = Boot => p = "run")
        /\ irq[t] => KernelPreempts \/ p \in {"run", "sleep", "sleeping"}
        /\ \/ state[t] = "RUNNING" /\ p \in AtWork
           \/ state[t] = "BLOCKED" /\ p \in {"parked", "parked until", "woken", "woken until", "ret"}
           \/ state[t] = "SLEEPING" /\ p \in {"sleep", "sleeping"}
           \/ state[t] = "WAITING" /\ p \in {"waiting", "scan"}
           \/ /\ state[t] = "EXITED" /\ p \in Telling \union {"halt"}
              /\ t \in cut' \/ parent[t] = NoThread \/ state[parent[t]] # "WAITING"
    BY <1>2, <2>1, <2>2, <2>3
  <2> HIDE DEF p
  <2>5. cut \subseteq cut'
    BY <1>2
  <2>6. QED
    BY <1>1, <1>2, <2>4, <2>5, LeaveKeeps
<1>5. CASE Sleeping(t)
  <2>1. pc[t] = "sleeping" /\ Goto(t, "sleep")
    BY <1>5, Zenon DEF Sleeping, At
  <2>2. state[t] \in {"SLEEPING", "RUNNING"} /\ t # Boot
    BY <1>2, <2>1 DEF Working, AtWork, Telling
  <2>3. "sleep" \in AllPoints \ Masked /\ "sleep" \in AtWork /\ "sleep" \notin WithToken
    BY DEF AllPoints, AtWork, WithToken, Masked
  <2> DEFINE p == "sleep"
  <2>4. /\ Goto(t, p) /\ p \in AllPoints \ Masked /\ pc[t] # "wake" /\ p \notin {"park", "park until", "wait"}
        /\ p \notin WithToken /\ (t = Boot => p = "run")
        /\ irq[t] => KernelPreempts \/ p \in {"run", "sleep", "sleeping"}
        /\ \/ state[t] = "RUNNING" /\ p \in AtWork
           \/ state[t] = "BLOCKED" /\ p \in {"parked", "parked until", "woken", "woken until", "ret"}
           \/ state[t] = "SLEEPING" /\ p \in {"sleep", "sleeping"}
           \/ state[t] = "WAITING" /\ p \in {"waiting", "scan"}
           \/ /\ state[t] = "EXITED" /\ p \in Telling \union {"halt"}
              /\ t \in cut' \/ parent[t] = NoThread \/ state[parent[t]] # "WAITING"
    BY <1>2, <2>1, <2>2, <2>3
  <2> HIDE DEF p
  <2>5. cut \subseteq cut'
    BY <1>2
  <2>6. QED
    BY <1>1, <1>2, <2>4, <2>5, LeaveKeeps
<1>6. CASE Waiting(t)
  <2>1. pc[t] = "waiting" /\ Goto(t, "scan")
    BY <1>6, Zenon DEF Waiting, At
  <2>2. state[t] \in {"RUNNING", "WAITING"} /\ t # Boot /\ (irq[t] => KernelPreempts)
    BY <1>2, <2>1 DEF Working, AtWork, Telling
  <2>3. "scan" \in AllPoints \ Masked /\ "scan" \in AtWork /\ "scan" \notin WithToken
    BY DEF AllPoints, AtWork, WithToken, Masked
  <2> DEFINE p == "scan"
  <2>4. /\ Goto(t, p) /\ p \in AllPoints \ Masked /\ pc[t] # "wake" /\ p \notin {"park", "park until", "wait"}
        /\ p \notin WithToken /\ (t = Boot => p = "run")
        /\ irq[t] => KernelPreempts \/ p \in {"run", "sleep", "sleeping"}
        /\ \/ state[t] = "RUNNING" /\ p \in AtWork
           \/ state[t] = "BLOCKED" /\ p \in {"parked", "parked until", "woken", "woken until", "ret"}
           \/ state[t] = "SLEEPING" /\ p \in {"sleep", "sleeping"}
           \/ state[t] = "WAITING" /\ p \in {"waiting", "scan"}
           \/ /\ state[t] = "EXITED" /\ p \in Telling \union {"halt"}
              /\ t \in cut' \/ parent[t] = NoThread \/ state[parent[t]] # "WAITING"
    BY <1>2, <2>1, <2>2, <2>3
  <2> HIDE DEF p
  <2>5. cut \subseteq cut'
    BY <1>2
  <2>6. QED
    BY <1>1, <1>2, <2>4, <2>5, LeaveKeeps
<1>7. CASE Leave(t)
  <2>1. pc[t] = "leave" /\ Goto(t, "halt")
    BY <1>7, Zenon DEF Leave, At
  <2>2. state[t] = "EXITED" /\ t # Boot /\ (irq[t] => KernelPreempts) /\ (parent[t] = NoThread \/ state[parent[t]] # "WAITING")
    BY <1>2, <2>1 DEF Working, AtWork, Telling
  <2>3. "halt" \in AllPoints \ Masked /\ "halt" \notin WithToken
    BY DEF AllPoints, WithToken, Masked
  <2> DEFINE p == "halt"
  <2>4. /\ Goto(t, p) /\ p \in AllPoints \ Masked /\ pc[t] # "wake" /\ p \notin {"park", "park until", "wait"}
        /\ p \notin WithToken /\ (t = Boot => p = "run")
        /\ irq[t] => KernelPreempts \/ p \in {"run", "sleep", "sleeping"}
        /\ \/ state[t] = "RUNNING" /\ p \in AtWork
           \/ state[t] = "BLOCKED" /\ p \in {"parked", "parked until", "woken", "woken until", "ret"}
           \/ state[t] = "SLEEPING" /\ p \in {"sleep", "sleeping"}
           \/ state[t] = "WAITING" /\ p \in {"waiting", "scan"}
           \/ /\ state[t] = "EXITED" /\ p \in Telling \union {"halt"}
              /\ t \in cut' \/ parent[t] = NoThread \/ state[parent[t]] # "WAITING"
    BY <1>2, <2>1, <2>2, <2>3
  <2> HIDE DEF p
  <2>5. cut \subseteq cut'
    BY <1>2
  <2>6. QED
    BY <1>1, <1>2, <2>4, <2>5, LeaveKeeps
<1>8. QED
  BY <1>3, <1>4, <1>5, <1>6, <1>7

\* The threads a thread makes READY were asleep.
LEMMA KernelWakes ==
  ASSUME OneBusyCpu, BusyInv, NEW t \in Thread, Wake(t) \/ Push(t), UNCHANGED cut
  PROVE  BusyInv'
<1>1. /\ Runs(t)
      /\ UNCHANGED <<wakeAt, sig, parent, stack, tok, target, passed, irq, current, toFree, data>>
  BY Zenon DEF Wake, Push, At
<1>2. Working(t) /\ pc \in [Thread -> AllPoints] /\ state \in [Thread -> States]
      /\ (t = Boot => pc[t] = "run") /\ (irq[t] => pc[t] \notin Masked /\ (KernelPreempts \/ pc[t] \in {"run", "sleep", "sleeping"}))
  BY <1>1, RunsAtWork DEF TypeOK
<1>3. CASE Wake(t)
  <2> DEFINE S == {u \in Thread : state[u] = "BLOCKED" /\ blockedOn[u] = tok[t]}
  <2>1. pc[t] = "wake" /\ Goto(t, "ret") /\ MakeReady(S)
    BY <1>3, Zenon DEF Wake, At
  <2>2. state[t] = "RUNNING" /\ t # Boot /\ ~irq[t]
    BY <1>2, <2>1 DEF Working, Telling, Masked
  <2>3. S \in SUBSET Thread /\ (\A u \in S : u # t /\ state[u] \in {"BLOCKED", "SLEEPING", "WAITING"})
        /\ (\A u \in Thread \ S : state[u] = "BLOCKED" => blockedOn[u] # tok[t])
    BY <2>2
  <2>4. "ret" \in AllPoints /\ "ret" \in Plain /\ "ret" \notin WithToken \union {"wait"}
    BY DEF AllPoints, AtWork, Plain, WithToken
  <2>5. pc'[t] = "ret" /\ state'[t] = "RUNNING"
    BY <1>2, <2>1, <2>2, <2>3 DEF Goto, MakeReady
  <2>6. Working(t)'
    BY <2>4, <2>5, PlainIsWorking
  <2> HIDE DEF S
  <2>7. QED
    BY <1>1, <2>1, <2>2, <2>3, <2>4, <2>6, WakesUp
<1>4. CASE Push(t)
  <2>1. PICK q \in DOMAIN AfterPush : pc[t] = q /\ Goto(t, AfterPush[q]) /\ MakeReady({target[t]})
    BY <1>4, Zenon DEF Push, At
  <2>2. /\ q \in {"push sigchld", "push waiting", "push kill"}
        /\ AfterPush[q] = CASE q = "push sigchld" -> "tell wait" [] q = "push waiting" -> "leave" [] q = "push kill" -> "ret"
    BY DEF AfterPush
  <2>3. /\ target[t] \in Thread /\ state[target[t]] \in {"BLOCKED", "SLEEPING", "WAITING"}
        /\ state[t] \in {"RUNNING", "EXITED"} /\ t # Boot /\ (irq[t] => KernelPreempts)
        /\ q = "push kill" => state[t] = "RUNNING"
        /\ q # "push kill" => state[t] = "EXITED" /\ parent[t] \in Thread /\ target[t] = parent[t]
    BY <1>2, <2>1, <2>2 DEF Working, AtWork, Telling
  <2>4. AfterPush[q] \in AllPoints /\ AfterPush[q] \notin WithToken \union {"wait"} \union Masked
    BY <2>2 DEF AllPoints, AtWork, Telling, WithToken, Masked
  <2>5. /\ pc'[t] = AfterPush[q] /\ state'[t] = state[t] /\ state'[target[t]] = "READY"
        /\ parent'[t] = parent[t]
    BY <1>1, <1>2, <2>1, <2>3 DEF Goto, MakeReady
  <2>6. Working(t)'
    <3>1. CASE q = "push sigchld"
      BY <2>2, <2>3, <2>5, <3>1 DEF Working, AtWork, Telling, AfterPush
    <3>2. CASE q = "push waiting"
      BY <2>2, <2>3, <2>5, <3>2 DEF Working, AtWork, Telling, AfterPush
    <3>3. CASE q = "push kill"
      <4>1. pc'[t] \in Plain /\ state'[t] = "RUNNING"
        BY <2>2, <2>3, <2>5, <3>3 DEF Plain, AtWork
      <4>2. QED
        BY <4>1, PlainIsWorking
    <3>4. QED
      BY <2>2, <3>1, <3>2, <3>3
  <2>7. {target[t]} \in SUBSET Thread /\ \A u \in {target[t]} : u # t /\ state[u] \in {"BLOCKED", "SLEEPING", "WAITING"}
    BY <2>3
  <2>8. pc[t] # "wake"
    BY <2>1, <2>2
  <2>9. QED
    BY <1>1, <2>1, <2>3, <2>4, <2>6, <2>7, <2>8, WakesUp
<1>5. QED
  BY <1>3, <1>4

\* thread_waitpid and thread_exit.
LEMMA KernelReaps ==
  ASSUME OneBusyCpu, BusyInv, NEW t \in Thread, Scan(t) \/ Mark(t),
         cut' = IF Retests(t) THEN cut \ {t} ELSE cut
  PROVE  BusyInv'
<1>1. Runs(t) /\ pc[t] \in {"scan", "mark"}
  BY Zenon DEF Scan, Mark, At
<1>2. /\ TypeOK /\ Working(t) /\ pc \in [Thread -> AllPoints] /\ t # Boot /\ (irq[t] => KernelPreempts)
      /\ cut' \in {cut, cut \ {t}} /\ cut' \subseteq Thread
  BY <1>1, RunsAtWork DEF TypeOK
<1>3. state[t] = "RUNNING"
  BY <1>1, <1>2 DEF Working, Telling
<1>4. \A u \in Zombies(t) : u \in Thread /\ u # t /\ Alive(u) /\ state[u] = "EXITED"
  BY <1>3 DEF Zombies, Children
<1>5. "ret" \in Plain /\ "ret" \in AllPoints /\ "ret" \notin WithToken /\ "wait" \in AllPoints /\ "wait" \notin WithToken
      /\ {"ret", "wait"} \cap Masked = {}
  BY DEF Plain, AtWork, AllPoints, WithToken, Masked
<1>6. CASE Scan(t)
  <2>1. UNCHANGED <<state, blockedOn, wakeAt, sig, parent, tok, target, passed, irq, runq, current, toFree, data>>
    BY <1>6 DEF Scan, cpus
  <2>2. ASSUME NEW u \in Zombies(t), Reap({u}), pc' = [pc EXCEPT ![t] = "ret", ![u] = "gone"] PROVE BusyInv'
    <3>1. pc' = [v \in Thread |-> IF v = t THEN "ret" ELSE IF v \in {u} THEN "gone" ELSE pc[v]]
      BY <1>2, <1>4, <2>2
    <3>2. TypeOK'
      BY <1>2, <2>1, <2>2 DEF TypeOK, Reap
    <3>3. pc'[t] = "ret" /\ state'[t] = "RUNNING" /\ state' = [state EXCEPT ![t] = "RUNNING"]
      BY <1>2, <1>3, <2>1, <3>1 DEF TypeOK
    <3>4. Working(t)'
      BY <1>5, <3>3, PlainIsWorking
    <3>5. {u} \in SUBSET Thread /\ \A v \in {u} : v # t /\ Alive(v) /\ state[v] = "EXITED"
      BY <1>4
    <3>6. QED
      BY <1>1, <1>2, <2>1, <3>1, <3>2, <3>3, <3>4, <3>5, ReapKeeps
  <2>3. ASSUME Zombies(t) = {}, NEW p \in {"ret", "wait"}, Goto(t, p), UNCHANGED stack PROVE BusyInv'
    <3>1. TypeOK'
      BY <1>2, <2>1, <2>3 DEF TypeOK
    <3>2. pc'[t] = p /\ state'[t] = "RUNNING" /\ state' = [state EXCEPT ![t] = "RUNNING"]
          /\ \A u \in Thread \ {t} : pc'[u] = pc[u]
      BY <1>2, <1>3, <2>1, <2>3 DEF TypeOK, Goto
    <3>3. Zombies(t)' = {}
      BY <1>3, <2>1, <2>3, <3>2 DEF Zombies, Children, Alive
    <3>4. Working(t)'
      BY <2>3, <3>2, <3>3 DEF Working, AtWork, AfterPush
    <3>5. /\ p \in AllPoints /\ p \notin WithToken \union Masked /\ p \notin {"park", "park until"}
          /\ irq'[t] => KernelPreempts
          /\ Zombies(t)' \subseteq cut'
      BY <1>2, <1>5, <2>1, <3>3
    <3>6. QED
      BY <1>1, <1>2, <2>1, <2>3, <3>1, <3>2, <3>4, <3>5, GoesOn
  <2>4. QED
    BY <1>6, <2>2, <2>3, Zenon DEF Scan
<1>7. CASE Mark(t)
  <2>1. /\ pc' = [u \in Thread |-> IF u = t THEN "tell" ELSE IF u \in Zombies(t) THEN "gone" ELSE pc[u]]
        /\ state' = [state EXCEPT ![t] = "EXITED"] /\ Reap(Zombies(t))
        /\ parent' = [u \in Thread |-> IF u \in Children(t) \ Zombies(t) THEN NoThread ELSE parent[u]]
        /\ toFree' = [toFree EXCEPT ![Home[t]] = t]
        /\ UNCHANGED <<blockedOn, wakeAt, sig, tok, target, passed, irq, runq, current, data>>
    BY <1>7 DEF Mark
  <2>2. \A u \in Thread : parent'[u] \in {parent[u], NoThread}
    BY <2>1
  <2>3. TypeOK'
    <3>1. state' \in [Thread -> States] /\ toFree' \in [Cpu -> Thread \union {NoThread}]
      BY <1>2, <2>1 DEF TypeOK, States
    <3>2. parent' \in [Thread -> Thread \union {NoThread}]
      BY <1>2, <2>1 DEF TypeOK
    <3>3. stack' \in [Thread -> {"none", "held", "freed"}]
      BY <1>2, <2>1 DEF TypeOK, Reap
    <3>4. QED
      BY <1>2, <2>1, <3>1, <3>2, <3>3 DEF TypeOK
  <2>4. pc'[t] = "tell" /\ state'[t] = "EXITED"
    BY <1>2, <2>1 DEF TypeOK
  <2>5. Working(t)'
    BY <2>4 DEF Working, Telling, AfterPush
  <2>6. Zombies(t) \in SUBSET Thread
    BY <1>4
  <2>7. QED
    BY <1>1, <1>2, <1>4, <2>1, <2>2, <2>3, <2>5, <2>6, ReapKeeps
<1>8. QED
  BY <1>6, <1>7

\* The other steps in the kernel.
LEMMA KernelGoesOn ==
  ASSUME OneBusyCpu, BusyInv, NEW t \in Thread, cut' = IF Retests(t) THEN cut \ {t} ELSE cut,
         \/ Return(t) \/ Check(t) \/ Park(t) \/ Woken(t) \/ SleepLoop(t)
         \/ Wait(t) \/ Close(t) \/ Tell(t) \/ TellWait(t)
  PROVE  BusyInv'
<1>1. /\ Runs(t)
      /\ pc[t] \in {"ret", "check", "check until", "park", "park until", "woken", "woken until",
                    "sleep", "wait", "exit", "tell", "tell wait"}
      /\ UNCHANGED <<parent, stack, tok, passed, runq, current, toFree>>
  BY Zenon DEF Return, Check, Park, Woken, SleepLoop, Wait, Close, Tell, TellWait, At, fields, cpus
<1>2. /\ TypeOK /\ Working(t) /\ pc \in [Thread -> AllPoints] /\ t # Boot
      /\ irq[t] => KernelPreempts \/ pc[t] = "sleep"
      /\ pc[t] \in WithToken => tok[t] \in Token
      /\ Hears(t) /\ cut' \in {cut, cut \ {t}} /\ cut' \subseteq Thread
  BY <1>1, RunsAtWork DEF TypeOK
<1>same. pc[t] \notin {"check", "check until", "scan"} => cut' = cut
  BY DEF Retests
<1>3. pc[t] \notin {"tell", "tell wait"} => state[t] = "RUNNING"
  BY <1>1, <1>2 DEF Working, Telling
<1>state. ASSUME pc[t] \notin {"tell", "tell wait"}, state' = state
      PROVE  state'[t] = "RUNNING" /\ state' = [state EXCEPT ![t] = "RUNNING"]
  BY <1>2, <1>3, <1>state DEF TypeOK
<1>goto. ASSUME NEW p, Goto(t, p) PROVE pc'[t] = p
  BY <1>2, <1>goto DEF Goto
<1>4. CASE Return(t)
  <2>1. /\ pc[t] = "ret" /\ sig' = [sig EXCEPT ![t] = {}]
        /\ UNCHANGED <<state, blockedOn, wakeAt, target, data>>
        /\ \/ Goto(t, "exit") /\ UNCHANGED irq
           \/ Goto(t, "run") /\ irq' = [irq EXCEPT ![t] = TRUE]
    BY <1>4, Zenon DEF Return, At
  <2>2. PICK p \in {"exit", "run"} : Goto(t, p) /\ (p = "exit" => irq' = irq)
    BY <2>1
  <2>3. TypeOK'
    BY <1>1, <1>2, <2>1 DEF TypeOK
  <2>4. /\ p \in AllPoints /\ p \in Plain /\ p \notin WithToken /\ pc'[t] = p
        /\ state'[t] = "RUNNING" /\ state' = [state EXCEPT ![t] = "RUNNING"]
    BY <1>state, <1>goto, <2>1, <2>2 DEF AllPoints, AtWork, Plain, WithToken
  <2>5. /\ irq'[t] => p \notin Masked /\ (KernelPreempts \/ p = "run")
        /\ \A u \in Thread \ {t} : irq'[u] = irq[u]
    BY <1>2, <2>1, <2>2 DEF TypeOK, Masked
  <2>6. Working(t)'
    BY <2>4, PlainIsWorking
  <2>7. QED
    BY <1>1, <1>2, <2>1, <2>2, <2>3, <2>4, <2>5, <2>6, GoesOn
<1>5. CASE Check(t)
  <2>1. /\ pc[t] \in {"check", "check until"}
        /\ UNCHANGED <<state, blockedOn, wakeAt, sig, target, irq>>
        /\ \/ data' = [data EXCEPT ![tok[t]] = FALSE] /\ Goto(t, "ret")
           \/ ~data[tok[t]] /\ data' = data /\ \E p \in {"ret", "park", "park until"} : Goto(t, p)
    BY <1>5 DEF Check, At, fields, cpus
  <2>2. PICK p \in {"ret", "park", "park until"} :
            Goto(t, p) /\ (p # "ret" => ~data[tok[t]] /\ data' = data)
    BY <2>1
  <2>3. TypeOK'
    BY <1>1, <1>2, <2>1 DEF TypeOK
  <2>4. /\ p \in AllPoints /\ p \notin Masked /\ pc'[t] = p /\ pc[t] \in WithToken /\ (irq'[t] => KernelPreempts)
        /\ state'[t] = "RUNNING" /\ state' = [state EXCEPT ![t] = "RUNNING"]
    BY <1>2, <1>state, <1>goto, <2>1, <2>2 DEF AllPoints, AtWork, WithToken, Masked
  <2>5. Working(t)'
    BY <1>1, <2>2, <2>4 DEF Working, AtWork, AfterPush
  <2>6. \A k \in Token : data'[k] => data[k]
    BY <1>2, <2>1 DEF TypeOK
  <2>7. QED
    BY <1>1, <1>2, <2>1, <2>2, <2>3, <2>4, <2>5, <2>6, GoesOn
<1>6. CASE Park(t)
  <2>1. /\ pc[t] \in {"park", "park until"}
        /\ wakeAt' \in {wakeAt, [wakeAt EXCEPT ![t] = "set"]}
        /\ blockedOn' = [blockedOn EXCEPT ![t] = tok[t]] /\ state' = [state EXCEPT ![t] = "BLOCKED"]
        /\ UNCHANGED <<sig, target, irq, data>>
        /\ \E p \in {"parked", "parked until"} : Goto(t, p)
    BY <1>6 DEF Park, At, cpus
  <2>2. PICK p \in {"parked", "parked until"} : Goto(t, p)
    BY <2>1
  <2>3. pc[t] \in WithToken
    BY <2>1 DEF WithToken
  <2>4. TypeOK'
    BY <1>1, <1>2, <2>1, <2>3 DEF TypeOK, States
  <2>5. /\ p \in AllPoints /\ p \notin Masked /\ pc'[t] = p /\ state'[t] = "BLOCKED" /\ (irq'[t] => KernelPreempts)
        /\ blockedOn'[t] = tok[t]
        /\ \A u \in Thread \ {t} : blockedOn'[u] = blockedOn[u]
    BY <1>2, <2>1, <2>2 DEF AllPoints, AtWork, Masked, Goto, TypeOK
  <2>6. t \in cut' \/ ~data'[blockedOn'[t]]
    BY <1>2, <1>same, <2>1, <2>5 DEF Hears
  <2>7. Working(t)'
    BY <2>1, <2>2, <2>5 DEF Working, AtWork, AfterPush
  <2>8. QED
    BY <1>1, <1>2, <2>1, <2>2, <2>3, <2>4, <2>5, <2>6, <2>7, GoesOn
<1>7. CASE Woken(t)
  <2>1. /\ pc[t] \in {"woken", "woken until"}
        /\ wakeAt' \in {wakeAt, [wakeAt EXCEPT ![t] = "none"]}
        /\ UNCHANGED <<state, blockedOn, sig, target, irq, data>>
        /\ \E p \in {"ret", "check", "check until"} : Goto(t, p)
    BY <1>7 DEF Woken, At, cpus
  <2>2. PICK p \in {"ret", "check", "check until"} : Goto(t, p)
    BY <2>1
  <2>3. TypeOK'
    BY <1>1, <1>2, <2>1 DEF TypeOK
  <2>4. /\ p \in AllPoints /\ p \notin Masked /\ p \in Plain /\ pc'[t] = p /\ pc[t] \in WithToken /\ (irq'[t] => KernelPreempts)
        /\ state'[t] = "RUNNING" /\ state' = [state EXCEPT ![t] = "RUNNING"]
    BY <1>2, <1>state, <1>goto, <2>1, <2>2 DEF AllPoints, AtWork, Plain, WithToken, Masked
  <2>5. Working(t)'
    BY <2>4, PlainIsWorking
  <2>6. QED
    BY <1>1, <1>2, <2>1, <2>2, <2>3, <2>4, <2>5, GoesOn
<1>8. CASE SleepLoop(t)
  <2>1. /\ pc[t] = "sleep"
        /\ UNCHANGED <<blockedOn, sig, target, data>>
    BY <1>8 DEF SleepLoop, At, cpus
  <2>2. CASE /\ state' = [state EXCEPT ![t] = "RUNNING"] /\ Goto(t, "ret")
             /\ irq' = [irq EXCEPT ![t] = FALSE] /\ UNCHANGED wakeAt
    <3>1. TypeOK'
      BY <1>1, <1>2, <2>1, <2>2 DEF TypeOK, States
    <3>2. /\ "ret" \in AllPoints /\ "ret" \in Plain /\ "ret" \notin WithToken /\ pc'[t] = "ret"
          /\ state'[t] = "RUNNING" /\ irq'[t] = FALSE
          /\ \A u \in Thread \ {t} : irq'[u] = irq[u]
      BY <1>2, <2>2 DEF AllPoints, AtWork, Plain, WithToken, Goto, TypeOK
    <3>3. Working(t)'
      BY <3>2, PlainIsWorking
    <3>4. QED
      BY <1>1, <1>2, <2>1, <2>2, <3>1, <3>2, <3>3, GoesOn
  <2>3. CASE /\ state' = [state EXCEPT ![t] = "SLEEPING"] /\ Goto(t, "sleeping")
             /\ wakeAt' = [wakeAt EXCEPT ![t] = "set"] /\ UNCHANGED irq
    <3>1. TypeOK'
      BY <1>1, <1>2, <2>1, <2>3 DEF TypeOK, States
    <3>2. /\ "sleeping" \in AllPoints /\ "sleeping" \notin WithToken \union Masked /\ pc'[t] = "sleeping"
          /\ state'[t] = "SLEEPING"
      BY <1>2, <2>3 DEF AllPoints, AtWork, WithToken, Masked, Goto, TypeOK
    <3>3. Working(t)'
      BY <3>2 DEF Working, AfterPush
    <3>4. QED
      BY <1>1, <1>2, <2>1, <2>3, <3>1, <3>2, <3>3, GoesOn
  <2>4. QED
    BY <1>8, <2>2, <2>3 DEF SleepLoop
<1>9. CASE Wait(t)
  <2>1. /\ pc[t] = "wait" /\ Goto(t, "waiting") /\ state' = [state EXCEPT ![t] = "WAITING"]
        /\ UNCHANGED <<blockedOn, wakeAt, sig, target, irq, data>>
    BY <1>9 DEF Wait, At
  <2>2. TypeOK'
    BY <1>1, <1>2, <2>1 DEF TypeOK, States
  <2>3. /\ "waiting" \in AllPoints /\ "waiting" \notin WithToken \union Masked /\ pc'[t] = "waiting" /\ state'[t] = "WAITING"
        /\ (irq'[t] => KernelPreempts)
        /\ \A u \in Thread \ {t} : pc'[u] = pc[u] /\ state'[u] = state[u]
    BY <1>2, <2>1 DEF AllPoints, AtWork, WithToken, Masked, Goto, TypeOK
  <2>4. t \in cut' \/ Zombies(t) \subseteq cut'
    <3>1. \A u \in Thread : Sees(t, u) /\ (Runs(u) => u = t)
      BY <1>1, OneCpu DEF BusyInv
    <3>2. state[t] = "RUNNING" /\ cut' = cut
      BY <1>3, <1>same, <2>1
    <3>3. \A u \in Zombies(t) : u \in Thread /\ u # t
      BY <3>2 DEF Zombies, Children
    <3>4. QED
      BY <2>1, <3>1, <3>2, <3>3 DEF Sees
  <2>5. Zombies(t)' \subseteq Zombies(t)
    BY <1>1, <2>3 DEF Zombies, Children, Alive
  <2>6. Working(t)'
    BY <2>3 DEF Working, AfterPush
  <2>7. QED
    BY <1>1, <1>2, <2>1, <2>2, <2>3, <2>4, <2>5, <2>6, GoesOn
<1>10. CASE Close(t)
  <2>1. /\ pc[t] = "exit" /\ Goto(t, "mark")
        /\ UNCHANGED <<state, blockedOn, wakeAt, sig, target, data>>
        /\ \E b \in {irq[t], KernelPreempts \/ irq[t]} : irq' = [irq EXCEPT ![t] = b]
    BY <1>10, Zenon DEF Close, At, fields, cpus
  <2>2. PICK b \in BOOLEAN : irq' = [irq EXCEPT ![t] = b] /\ (b => KernelPreempts)
    <3>1. irq[t] \in BOOLEAN /\ (irq[t] => KernelPreempts) /\ KernelPreempts \in BOOLEAN
      BY <1>2, <2>1, ThreadsAssumption DEF TypeOK, ThreadsAssumption
    <3>2. \A b \in {irq[t], KernelPreempts \/ irq[t]} : b \in BOOLEAN /\ (b => KernelPreempts)
      BY <3>1, Zenon
    <3>3. QED
      BY <2>1, <3>2, Zenon
  <2>3. irq'[t] = b /\ (\A u \in Thread \ {t} : irq'[u] = irq[u]) /\ irq' \in [Thread -> BOOLEAN]
    BY <1>2, <2>2 DEF TypeOK
  <2>4. TypeOK'
    BY <1>1, <1>2, <2>1, <2>3 DEF TypeOK
  <2>5. /\ "mark" \in AllPoints /\ "mark" \in Plain /\ "mark" \notin WithToken \union Masked /\ pc'[t] = "mark"
        /\ state'[t] = "RUNNING" /\ state' = [state EXCEPT ![t] = "RUNNING"]
    BY <1>state, <1>goto, <2>1 DEF AllPoints, AtWork, Plain, WithToken, Masked
  <2>6. Working(t)'
    BY <2>5, PlainIsWorking
  <2>7. QED
    BY <1>1, <1>2, <2>1, <2>2, <2>3, <2>4, <2>5, <2>6, GoesOn
<1>11. CASE Tell(t)
  <2>1. /\ pc[t] = "tell"
        /\ UNCHANGED <<state, blockedOn, wakeAt, irq, data>>
    BY <1>11 DEF Tell, At, cpus
  <2>2. state[t] = "EXITED" /\ state' = [state EXCEPT ![t] = "EXITED"] /\ state'[t] = "EXITED"
    BY <1>2, <2>1 DEF Working, AtWork, TypeOK
  <2>3. PICK p \in {"leave", "push sigchld", "tell wait"} :
            /\ Goto(t, p) /\ sig' \in [Thread -> SUBSET {"INT", "CHLD"}] /\ target' \in [Thread -> Thread \union {NoThread}]
            /\ p = "leave" => parent[t] = NoThread
            /\ p # "leave" => parent[t] \in Thread
            /\ p = "push sigchld" => target'[t] = parent[t] /\ state[parent[t]] \in {"BLOCKED", "SLEEPING"}
    <3>1. CASE parent[t] = NoThread
      <4>1. Goto(t, "leave") /\ UNCHANGED <<sig, target>>
        BY <1>11, <3>1 DEF Tell
      <4>2. QED
        BY <1>2, <3>1, <4>1 DEF TypeOK
    <3>2. CASE parent[t] # NoThread
      <4>1. Signal(t, parent[t], "CHLD", "push sigchld", "tell wait")
        BY <1>11, <3>2 DEF Tell
      <4>2. parent[t] \in Thread
        BY <1>2, <3>2 DEF TypeOK
      <4>3. QED
        BY <1>1, <4>1, <4>2, <3>2, SignalFacts
    <3>3. QED
      BY <3>1, <3>2
  <2>4. TypeOK'
    BY <1>1, <1>2, <2>1, <2>3 DEF TypeOK
  <2>5. p \in AllPoints /\ p \in Telling /\ p \notin WithToken \union Masked /\ pc'[t] = p /\ (irq'[t] => KernelPreempts)
    BY <1>2, <2>1, <2>3 DEF AllPoints, Telling, WithToken, Masked, Goto
  <2>6. Working(t)'
    BY <1>1, <2>1, <2>2, <2>3, <2>5 DEF Working, Telling, AfterPush
  <2>7. QED
    BY <1>1, <1>2, <2>1, <2>2, <2>3, <2>4, <2>5, <2>6, GoesOn
<1>12. CASE TellWait(t)
  <2>1. /\ pc[t] = "tell wait"
        /\ UNCHANGED <<state, blockedOn, wakeAt, sig, irq, data>>
    BY <1>12 DEF TellWait, At, fields, cpus
  <2>2. state[t] = "EXITED" /\ state' = [state EXCEPT ![t] = "EXITED"] /\ state'[t] = "EXITED" /\ parent[t] \in Thread
    BY <1>2, <2>1 DEF Working, AtWork, TypeOK
  <2>3. PICK p \in {"leave", "push waiting"} :
            /\ Goto(t, p) /\ target' \in [Thread -> Thread \union {NoThread}]
            /\ p = "leave" => state[parent[t]] # "WAITING"
            /\ p = "push waiting" => target'[t] = parent[t] /\ state[parent[t]] = "WAITING"
    BY <1>2, <1>12, <2>2 DEF TellWait, TypeOK
  <2>4. TypeOK'
    BY <1>1, <1>2, <2>1, <2>3 DEF TypeOK
  <2>5. p \in AllPoints /\ p \in Telling /\ p \notin WithToken \union Masked /\ pc'[t] = p /\ (irq'[t] => KernelPreempts)
    BY <1>2, <2>1, <2>3 DEF AllPoints, Telling, WithToken, Masked, Goto
  <2>6. Working(t)'
    BY <1>1, <2>1, <2>2, <2>3, <2>5 DEF Working, Telling, AfterPush
  <2>7. QED
    BY <1>1, <1>2, <2>1, <2>2, <2>3, <2>4, <2>5, <2>6, GoesOn
<1>13. QED
  BY <1>4, <1>5, <1>6, <1>7, <1>8, <1>9, <1>10, <1>11, <1>12
\* A tick of the clock is nothing to the invariant.
LEMMA BusyStutter ==
  ASSUME BusyInv, TypeOK',
         UNCHANGED <<state, blockedOn, sig, parent, runq, current, data, pc, tok, target, irq, cut>>
  PROVE  BusyInv'
<1>1. QueueInv'
  BY DEF BusyInv, QueueInv, QueuesSound, Runs
<1>2. \A t \in Thread : /\ Runs(t)' <=> Runs(t)
                        /\ Working(t)' <=> Working(t)
                        /\ Resting(t)' <=> Resting(t)
                        /\ Hears(t)' <=> Hears(t)
  BY DEF Runs, Working, Resting, Hears
<1>3. \A t, u \in Thread : Sees(t, u)' <=> Sees(t, u)
  BY DEF Sees, Zombies, Children, Alive, Runs
<1>4. QED
  BY <1>1, <1>2, <1>3 DEF BusyInv

\* The boot thread alone.
LEMMA BusyStart == ASSUME OneBusyCpu PROVE Init => BusyInv
<1> SUFFICES ASSUME Init PROVE BusyInv
  OBVIOUS
<1>1. Boot \in Thread /\ NoThread \notin Thread /\ Idle \notin Thread /\ Home \in [Thread -> Cpu] /\ Cpu = {Home[Boot]}
  BY ThreadsAssumption DEF ThreadsAssumption, OneBusyCpu
<1>2. QueuesSound
  BY ThreadsStart DEF ThreadsInv
<1>3. \A c \in Cpu : current[c] = Boot /\ runq[c] = <<>>
  BY <1>1 DEF Init
<1>4. \A t \in Thread : Runs(t) <=> t = Boot
  BY <1>1, <1>3 DEF Runs
<1>5. QueueInv
  <2>1. \A c \in Cpu : Range(runq[c]) = {}
    BY <1>3 DEF Range
  <2>2. QED
    BY <1>1, <1>2, <1>3, <1>4, <2>1 DEF QueueInv, Init
<1>6. ASSUME NEW t \in Thread PROVE IF Runs(t) THEN Working(t) ELSE Resting(t)
  BY <1>1, <1>4 DEF Init, Working, Resting, AtWork, AfterPush
<1>7. pc \in [Thread -> AllPoints] /\ pc[Boot] = "run"
  BY <1>1 DEF Init, AllPoints, AtWork
<1>8. \A t \in Thread : /\ irq[t] => pc[t] = "run"
                        /\ pc[t] \in {"run", "unborn"}
                        /\ state[t] \in {"RUNNING", "none"}
  BY DEF Init
<1>9. \A t \in Thread : Hears(t) /\ \A u \in Thread : Sees(t, u)
  BY <1>8 DEF Hears, Sees
<1>10. (\A c \in Cpu : current[c] # Idle) /\ cut = {}
  BY <1>1, <1>3 DEF Init
<1>11. QED
  BY <1>5, <1>6, <1>7, <1>8, <1>9, <1>10 DEF BusyInv, WithToken, Masked

\* What the thread that runs does in the kernel.
LEMMA BusyKernel == ASSUME OneBusyCpu, BusyInv, NEW t \in Thread, Kernel(t) PROVE BusyInv'
<1>1. KernelStep(t) /\ cut' = IF Retests(t) THEN cut \ {t} ELSE cut
  BY DEF Kernel
<1>2. CASE \/ Return(t) \/ Check(t) \/ Park(t) \/ Woken(t) \/ SleepLoop(t)
           \/ Wait(t) \/ Close(t) \/ Tell(t) \/ TellWait(t)
  BY <1>1, <1>2, KernelGoesOn
<1>3. CASE Scan(t) \/ Mark(t)
  BY <1>1, <1>3, KernelReaps
<1>4. CASE Parked(t) \/ FutexParked(t) \/ Sleeping(t) \/ Waiting(t) \/ Leave(t)
  <2>1. pc[t] \in {"parked", "parked until", "futex parked", "sleeping", "waiting", "leave"}
    BY <1>4, Zenon DEF Parked, FutexParked, Sleeping, Waiting, Leave, At
  <2>2. UNCHANGED cut
    BY <1>1, <2>1 DEF Retests
  <2>3. QED
    BY <1>4, <2>2, KernelLeaves
<1>5. CASE Wake(t) \/ Push(t)
  <2>1. pc[t] \in {"wake", "push sigchld", "push waiting", "push kill"}
    BY <1>5, Zenon DEF Wake, Push, At, AfterPush
  <2>2. UNCHANGED cut
    BY <1>1, <2>1 DEF Retests
  <2>3. QED
    BY <1>5, <2>2, KernelWakes
<1>6. QED
  BY <1>1, <1>2, <1>3, <1>4, <1>5, Zenon DEF KernelStep

\* A tick takes the CPU from the thread that runs: what it has tested may change now.
LEMMA BusyPreempt == ASSUME OneBusyCpu, BusyInv, NEW c \in Cpu, Preempt(c) PROVE BusyInv'
<1> DEFINE t == current[c]
<1>1. TypeOK /\ pc \in [Thread -> AllPoints] /\ KernelPreempts \in BOOLEAN
  BY ThreadsAssumption DEF BusyInv, QueueInv, QueuesSound, ThreadsAssumption
<1>2. t \in Thread /\ irq[t] /\ Yield(c) /\ UNCHANGED pc /\ YieldFrame
      /\ cut' = IF pc[t] \in Between THEN cut \union {t} ELSE cut
  BY <1>1, Zenon DEF Preempt, TypeOK
<1>3. c = Home[t] /\ Runs(t)
  BY <1>2, OneCpu DEF OneBusyCpu, Runs
<1>4. cut' \subseteq Thread /\ cut \subseteq cut' /\ (pc[t] \in Between => t \in cut')
  BY <1>1, <1>2, InterruptFacts
<1> HIDE DEF t
<1>5. /\ Working(t) /\ pc[t] \notin Masked /\ (KernelPreempts \/ pc[t] \in {"run", "sleep", "sleeping"})
      /\ t = Boot => pc[t] = "run"
      /\ pc[t] \in WithToken => tok[t] \in Token
  BY <1>2, <1>3, RunsAtWork
<1>6. ~KernelPreempts => cut' = {}
  <2>1. ~KernelPreempts => cut = {} /\ pc[t] \notin Between
    BY <1>5 DEF BusyInv, Between
  <2>2. QED
    BY <1>2, <2>1
<1>7. PICK p \in AllPoints \ Masked : p = pc[t]
  BY <1>1, <1>2, <1>5
<1>8. Goto(t, p)
  BY <1>1, <1>2, <1>7 DEF Goto
<1>9. /\ p # "wake" /\ (p \in {"park", "park until", "wait"} => t \in cut')
      /\ \/ state[t] = "RUNNING" /\ p \in AtWork
         \/ state[t] = "BLOCKED" /\ p \in {"parked", "parked until", "woken", "woken until", "ret"}
         \/ state[t] = "SLEEPING" /\ p \in {"sleep", "sleeping"}
         \/ state[t] = "WAITING" /\ p \in {"waiting", "scan"}
         \/ /\ state[t] = "EXITED" /\ p \in Telling \union {"halt"}
            /\ t \in cut' \/ parent[t] = NoThread \/ state[parent[t]] # "WAITING"
  <2>1. p # "wake" /\ p # "futex parked"
    BY <1>7 DEF Masked
  <2>2. p \in {"park", "park until", "wait"} => t \in cut'
    BY <1>4, <1>7 DEF Between
  <2>3. p \in Telling /\ p # "leave" => t \in cut'
    BY <1>4, <1>7 DEF Between, Telling
  <2>4. QED
    BY <1>5, <1>7, <2>1, <2>2, <2>3 DEF Working
<1>10. QED
  BY <1>2, <1>3, <1>4, <1>5, <1>6, <1>7, <1>8, <1>9, LeaveKeeps

LEMMA BusyStep == ASSUME OneBusyCpu PROVE BusyInv /\ [Next]_vars => BusyInv'
<1> SUFFICES ASSUME BusyInv, [Next]_vars PROVE BusyInv'
  OBVIOUS
<1>1. TypeOK
  BY DEF BusyInv, QueueInv, QueuesSound
<1>2. ASSUME NEW t \in Thread, Call(t) PROVE BusyInv'
  BY <1>2, UserGoesOn
<1>3. ASSUME NEW t \in Thread, Kernel(t) PROVE BusyInv'
  BY <1>3, BusyKernel
<1>4. ASSUME NEW t \in Thread, Tick(t) PROVE BusyInv'
  <2>1. /\ passed' \in [Thread -> BOOLEAN]
        /\ UNCHANGED <<state, blockedOn, wakeAt, sig, parent, stack, runq, current, toFree, data, pc, tok, target, irq, cut>>
    BY <1>1, <1>4 DEF Tick, fields, cpus, TypeOK
  <2>2. TypeOK'
    BY <1>1, <2>1 DEF TypeOK
  <2>3. QED
    BY <2>1, <2>2, BusyStutter
<1>5. ASSUME NEW c \in Cpu, Preempt(c) PROVE BusyInv'
  BY <1>5, BusyPreempt
<1>6. ASSUME NEW c \in Cpu, IdleYield(c) PROVE BusyInv'
  BY <1>6 DEF IdleYield, BusyInv
<1>7. CASE UNCHANGED vars
  <2>1. UNCHANGED <<state, blockedOn, wakeAt, sig, parent, stack, pc, tok, target, passed, irq,
                    runq, current, toFree, data, cut>>
    BY <1>7 DEF vars, fields, local, cpus
  <2>2. TypeOK'
    BY <1>1, <2>1 DEF TypeOK
  <2>3. QED
    BY <2>1, <2>2, BusyStutter
<1>8. QED
  BY <1>2, <1>3, <1>4, <1>5, <1>6, <1>7 DEF Next

\* On a busy CPU, whatever its threads do and whenever the tick comes, in user mode or in a system
\* call: no thread is forgotten by the tick, by the writer it waits for or by the child it waits
\* for, unless a tick came between a test and what follows from it (cut).
THEOREM NobodyIsForgotten == ASSUME OneBusyCpu PROVE Spec => []NoneForgotten
<1>1. BusyInv => NoneForgotten
  <2> SUFFICES ASSUME BusyInv PROVE NoneForgotten
    OBVIOUS
  <2>1. UserIsRunnable
    BY DEF BusyInv, UserIsRunnable, Working, Resting, Telling
  <2>2. NoLostWakeup
    BY DEF BusyInv, NoLostWakeup, Stranded, Hears
  <2>3. NoMissedExit
    BY DEF BusyInv, NoMissedExit, Sees, Zombies, Children
  <2>4. QED
    BY <2>1, <2>2, <2>3 DEF BusyInv, NoneForgotten
<1>2. QED
  BY <1>1, BusyStart, BusyStep, PTL DEF Spec

\* thread_waitpid, and thread_exit for the children it leaves: on a busy CPU, with ticks in system
\* calls, a thread that is reaped has left the CPU and does not come back to it, even if a tick
\* has taken the CPU from it between EXITED and its last yield().
THEOREM ReapedStaysDone == ASSUME OneBusyCpu PROVE Spec => []ReapedIsDone
<1>1. BusyInv => ReapedIsDone
  BY DEF BusyInv, ReapedIsDone, Working, AtWork, Telling
<1>2. QED
  BY <1>1, BusyStart, BusyStep, PTL DEF Spec
=============================================================================
