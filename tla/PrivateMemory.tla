--------------------------- MODULE PrivateMemory ---------------------------
(***************************************************************************)
(* What a program may rely on: every address space is a memory of its own. *)
(* A page that appears holds zeros or the contents of a file, and changes  *)
(* only when its owner writes to it.  A forked address space starts as a   *)
(* copy, except that pages of mmap may be missing ("mmaps do not survive   *)
(* fork").                                                                 *)
(***************************************************************************)
CONSTANTS AS,        \* the address spaces
          Page,      \* the user pages
          Lossy,     \* the pages a fork may leave out
          Value,     \* the contents of a page
          Fresh,     \* the contents of a new page
          Unmapped

VARIABLE mem   \* what each address space reads from each page

Init == mem = [a \in AS |-> [v \in Page |-> Unmapped]]

\* Pages come and go.
Remap ==
    /\ mem' \in [AS -> [Page -> Value \union {Unmapped}]]
    /\ \A a \in AS, v \in Page :
           LET old == mem[a][v]
           IN  mem'[a][v] \in {old, Unmapped} \union IF old = Unmapped THEN Fresh ELSE {}

Store(a, v, x) ==
    /\ mem[a][v] # Unmapped
    /\ mem' = [mem EXCEPT ![a][v] = x]

Fork(a, b) ==
    /\ \A v \in Page : mem[b][v] = Unmapped
    /\ \E lost \in SUBSET Lossy :
           mem' = [mem EXCEPT ![b] = [v \in Page |-> IF v \in lost THEN Unmapped ELSE mem[a][v]]]

Next ==
    \/ Remap
    \/ \E a \in AS, v \in Page, x \in Value : Store(a, v, x)
    \/ \E a, b \in AS : Fork(a, b)

Spec == Init /\ [][Next]_mem
=============================================================================
