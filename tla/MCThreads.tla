----------------------------- MODULE MCThreads -----------------------------
(* Small instances of Threads: three threads on one or two CPUs, and for *)
(* each question the calls the threads make (Does).                        *)
EXTENDS Threads

CONSTANTS boot, a, b, cpu0, cpu1, k1

MCThread == {boot, a, b}
OneCpu == {cpu0}
TwoCpus == {cpu0, cpu1}
MCToken == {k1}

AllOnCpu0 == [t \in MCThread |-> cpu0]
BOnCpu1 == [t \in MCThread |-> IF t = b THEN cpu1 ELSE cpu0]

NoCpu == {}
SecondCpu == {cpu1}

\* One CPU that is always busy (boot: the desktop, or a shell at its prompt),
\* a parent that reads and waits, and children that end.
Processes == [t \in MCThread |->
    CASE t = boot -> {"create", "yield"}
      [] t = a -> {"create", "waitpid", "block", "until", "kill", "exit"}
      [] t = b -> {"block", "post", "sleep", "futex", "exit", "kill"}]

\* Threads of one process on two CPUs, while something (boot here: the
\* desktop, or a shell at its prompt) always runs on the first.
Clones == [t \in MCThread |->
    CASE t = boot -> {"create", "yield"}
      [] t = a -> {"until", "futex", "post", "sleep"}
      [] t = b -> {"sleep", "futex", "until", "post"}]
=============================================================================
