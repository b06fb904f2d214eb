----------------------------- MODULE IpcProofs -----------------------------
(***************************************************************************)
(* The descriptors, and the two ways to reach a process by name.           *)
(*                                                                         *)
(* The counters of descriptors are exact, objects live as long as somebody *)
(* can reach them, and an end that is gone stays gone, for any number of   *)
(* threads and of pipes, ptys and channels and tables of any size, as long *)
(* as no thread changes a table while another one of it waits for a daemon *)
(* (Careful) and dup2 meets no file of a daemon.                           *)
(*                                                                         *)
(* The name bus keeps its promise for any number of services, clients,     *)
(* names and connections and queues of any size, as long as a client woken *)
(* in srv_connect runs before anything else happens to its connection      *)
(* (~Hasty, what srv.c counts on).                                         *)
(*                                                                         *)
(* The calls to file-system daemons are sound for any clients and file     *)
(* systems, whatever dies, is signalled, times out or is unmounted.        *)
(***************************************************************************)
EXTENDS Descriptors, Srv, Userfs, FiniteSetTheorems, SequenceTheorems, WellFoundedInduction, TLAPS

(***************************************************************************)
(* The descriptors.                                                        *)
(***************************************************************************)
\* The entries counted in k, when F are the tables, and the counters they ask for.
Holders(F, k) == {e \in Table \X Fd : k \in Counted(F[e[1]][e[2]])}
Exact(F, r) == \A k \in Counter : r[k] = Cardinality(Holders(F, k))

\* The tables G are F but for one entry, or for one table.
DiffersAt(F, G, T, f) == \A U \in Table : \A m \in Fd : U # T \/ m # f => G[U][m] = F[U][m]
DiffersIn(F, G, T) == \A U \in Table \ {T} : G[U] = F[U]

\* The entries of table t are counted nowhere, or copies of those in F; so is a changed entry.
Uncounted(t) == \A m \in Fd : Counted(t[m]) = {}
CopiesOf(F, t) == \A m \in Fd : Counted(t[m]) = {} \/ \E U \in Table, j \in Fd : F[U][j] = t[m]
CopyAt(F, G, T, f) ==
    \/ Counted(G[T][f]) = {}
    \/ \E U \in Table, m \in Fd : (U # T \/ m # f) /\ F[U][m] = G[T][f]

\* The objects g after n was taken from the counters, which left l.
FreesUnused(h, g, l, n) == \A o \in Object : g[o] = IF Unused(l, n, o) THEN "freed" ELSE h[o]

\* Somebody is counted in o.
Held(r, o) == IF o \in Pty THEN r[o] # 0 ELSE r[R(o)] # 0 \/ r[W(o)] # 0
LiveWhenHeld(r, h) == \A o \in Object : h[o] = "live" <=> Held(r, o)

\* What the changes of one call make of the objects: some that were live are freed.
OnlyFrees(h, g) == \A o \in Object : g[o] # h[o] => h[o] = "live" /\ g[o] = "freed"

\* A pty and its pipes come into being together.
PtyTogether ==
    \A y \in Pty : heap[y] = "unborn" => heap[M2S(y)] = "unborn" /\ heap[S2M(y)] = "unborn"

\* The threads a table counts.
UsersOf(T) == {u \in Proc : fdt[u] = T /\ asked[u].op # "exit"}

\* A thread that waits for a daemon finds its table as it left it, and nobody else waits on that table.
Waits(r) ==
    /\ Alive(r)
    /\ fds[fdt[r]][asked[r].fd] = IF asked[r].op = "open" THEN Free ELSE Theirs(asked[r].obj)
    /\ asked[r].op = "exit" => refcount[fdt[r]] = 0
AsLeft ==
    \A r \in Proc : asked[r] # Nothing =>
        Waits(r) /\ \A u \in Proc : asked[u] # Nothing /\ fdt[u] = fdt[r] => u = r

DescInv == DescTypeOK /\ TablesExact /\ Exact(fds, refs) /\ LiveWhenHeld(refs, heap) /\ PtyTogether
-----------------------------------------------------------------------------
LEMMA FdFacts == IsFiniteSet(Fd) /\ IsFiniteSet(Table) /\ IsFiniteSet(Table \X Fd)
<1>1. IsFiniteSet(Fd)
  BY FS_Interval, DescriptorsAssumption DEF Fd
<1>2. IsFiniteSet(Table)
  BY DescriptorsAssumption DEF Table
<1>3. QED
  BY <1>1, <1>2, FS_Product

LEMMA CountIsNat ==
  ASSUME NEW F, NEW k
  PROVE  IsFiniteSet(Holders(F, k)) /\ Cardinality(Holders(F, k)) \in Nat
<1>1. Holders(F, k) \in SUBSET (Table \X Fd)
  BY DEF Holders
<1>2. QED
  BY <1>1, FdFacts, FS_Subset, FS_CardinalityType

\* What an entry is counted in, by its kind.
LEMMA CountedFacts ==
  /\ Counted(Free) = {} /\ Counted(Console) = {} /\ Counted(File) = {}
  /\ \A q \in Pipe : /\ Counted([kind |-> "pipe_r", obj |-> q]) = {R(q)}
                     /\ Counted([kind |-> "pipe_w", obj |-> q]) = {W(q)}
  /\ \A y \in Pty : /\ Counted([kind |-> "master", obj |-> y]) = {y, R(S2M(y)), W(M2S(y))}
                    /\ Counted([kind |-> "slave", obj |-> y]) = {y, R(M2S(y)), W(S2M(y))}
  /\ \A c \in Chan : Counted([kind |-> "userfs", obj |-> c]) = {c}
  BY DEF Counted, Free, Console, File

\* An entry is well-formed by its kind.
LEMMA EntryKinds ==
  ASSUME NEW e \in Entry
  PROVE  \/ e \in {Free, Console, File}
         \/ \E q \in Pipe : e = [kind |-> "pipe_r", obj |-> q] \/ e = [kind |-> "pipe_w", obj |-> q]
         \/ \E y \in Pty : e = [kind |-> "master", obj |-> y] \/ e = [kind |-> "slave", obj |-> y]
         \/ \E c \in Chan : e = [kind |-> "userfs", obj |-> c]
  BY DEF Entry

\* The counters of one object are not those of another, nor are they objects that live and die.
LEMMA Places ==
  /\ \A o, p \in Object : R(o) # W(p) /\ (o # p => R(o) # R(p) /\ W(o) # W(p))
  /\ \A o \in Object : o \in Pty \/ o \in AnyPipe
  /\ \A o \in AnyPipe : o \notin Pty /\ o \notin Counter
  /\ \A o \in AnyPipe : R(o) \in End /\ W(o) \in End /\ R(o) \in Counter /\ W(o) \in Counter /\ o \in Object
  /\ \A y \in Pty : /\ y \in Object /\ y \in Counter /\ M2S(y) \in AnyPipe /\ S2M(y) \in AnyPipe
                    /\ M2S(y) \notin Pipe /\ S2M(y) \notin Pipe
  /\ \A y, z \in Pty : M2S(y) # S2M(z) /\ (y # z => M2S(y) # M2S(z) /\ S2M(y) # S2M(z))
  /\ \A k \in End, o \in Pipe \union Pty \union Chan : k # o
  /\ \A q \in Pipe : q \in AnyPipe
  /\ \A c \in Chan : c \in Counter /\ c \notin Pty
  /\ \A k \in End : \E o \in AnyPipe : k = R(o) \/ k = W(o)
<1>1. \A y \in Pty : M2S(y) \in AnyPipe /\ S2M(y) \in AnyPipe
  BY DEF AnyPipe
<1>2. \A o \in AnyPipe : R(o) \in End /\ W(o) \in End
  BY DEF End
<1>3. \A k \in End : \E o \in AnyPipe : k = R(o) \/ k = W(o)
  BY DEF End
<1>4. \A o, p \in Object : R(o) # W(p) /\ (o # p => R(o) # R(p) /\ W(o) # W(p))
  BY DEF R, W
<1>5. \A y, z \in Pty : M2S(y) # S2M(z) /\ (y # z => M2S(y) # M2S(z) /\ S2M(y) # S2M(z))
  BY DEF M2S, S2M
<1>6. \A o \in AnyPipe : o \in Pipe \/ \E y \in Pty : o = M2S(y) \/ o = S2M(y)
  BY DEF AnyPipe
<1>7. \A k \in End, o \in Pipe \union Pty \union Chan : k # o
  BY ObjectsAssumption
<1>8. \A y \in Pty, o \in Pipe \union Pty \union Chan : M2S(y) # o /\ S2M(y) # o
  BY ObjectsAssumption
<1>9. \A k \in End : \A y \in Pty : M2S(y) # k /\ S2M(y) # k
  BY <1>3 DEF R, W, M2S, S2M
<1>10. \A o \in AnyPipe : o \notin Pty /\ o \notin Counter
  <2> SUFFICES ASSUME NEW o \in AnyPipe PROVE o \notin Pty /\ o \notin Chan /\ o \notin End
    BY DEF Counter
  <2>1. CASE o \in Pipe
    BY <2>1, <1>7, ObjectsAssumption
  <2>2. CASE \E y \in Pty : o = M2S(y) \/ o = S2M(y)
    BY <2>2, <1>8, <1>9
  <2>3. QED
    BY <2>1, <2>2, <1>6
<1>20. QED
  BY <1>1, <1>2, <1>3, <1>4, <1>5, <1>7, <1>8, <1>10, ObjectsAssumption
     DEF Object, Counter, AnyPipe

LEMMA CountedPlaces ==
  ASSUME NEW e \in Entry, NEW k \in Counted(e)
  PROVE  k \in Counter /\ k \notin AnyPipe
<1>1. k \in Counter
  <2>1. CASE e \in {Free, Console, File}
    BY <2>1, CountedFacts
  <2>2. CASE \E q \in Pipe : e = [kind |-> "pipe_r", obj |-> q] \/ e = [kind |-> "pipe_w", obj |-> q]
    <3>1. PICK q \in Pipe : e = [kind |-> "pipe_r", obj |-> q] \/ e = [kind |-> "pipe_w", obj |-> q]
      BY <2>2
    <3>2. k \in {R(q), W(q)}
      BY <3>1 DEF Counted
    <3>3. QED
      BY <3>2, Places
  <2>3. CASE \E y \in Pty : e = [kind |-> "master", obj |-> y] \/ e = [kind |-> "slave", obj |-> y]
    <3>1. PICK y \in Pty : e = [kind |-> "master", obj |-> y] \/ e = [kind |-> "slave", obj |-> y]
      BY <2>3
    <3>2. k \in {y, R(S2M(y)), W(M2S(y)), R(M2S(y)), W(S2M(y))}
      BY <3>1 DEF Counted
    <3>3. QED
      BY <3>2, Places
  <2>4. CASE \E c \in Chan : e = [kind |-> "userfs", obj |-> c]
    BY <2>4, CountedFacts, Places
  <2>5. QED
    BY <2>1, <2>2, <2>3, <2>4, EntryKinds
<1>2. QED
  BY <1>1, Places

-----------------------------------------------------------------------------
(* Counting.                                                               *)

\* One entry changes.
LEMMA OneEntry ==
  ASSUME NEW F, NEW G, NEW r \in [Counter -> Nat], NEW T \in Table, NEW f \in Fd, Exact(F, r), DiffersAt(F, G, T, f),
         NEW k \in Counter
  PROVE  /\ k \in Counted(F[T][f]) => r[k] > 0
         /\ Cardinality(Holders(G, k)) =
               (IF k \in Counted(F[T][f]) THEN r[k] - 1 ELSE r[k])
                   + (IF k \in Counted(G[T][f]) THEN 1 ELSE 0)
<1> DEFINE e == <<T, f>>
           S == Holders(F, k)
           D == S \ {e}
<1>1. IsFiniteSet(S) /\ Cardinality(S) = r[k] /\ r[k] \in Nat
  BY CountIsNat DEF Exact
<1>2. e \in S <=> k \in Counted(F[T][f])
  BY DEF Holders
<1>3. e \in S => Cardinality(S) # 0
  BY <1>1, FS_EmptySet
<1>4. IsFiniteSet(D) /\ Cardinality(D) = IF e \in S THEN Cardinality(S) - 1 ELSE Cardinality(S)
  BY <1>1, FS_RemoveElement
<1>5. Holders(G, k) = IF k \in Counted(G[T][f]) THEN D \union {e} ELSE D
  BY DEF Holders, DiffersAt
<1>6. /\ IsFiniteSet(D \union {e}) 
      /\ Cardinality(D \union {e}) = Cardinality(D) + 1
  BY <1>4, FS_AddElement
<1>7. QED
  BY <1>1, <1>2, <1>3, <1>4, <1>5, <1>6

\* A whole table changes.
LEMMA OneTable ==
  ASSUME NEW F, NEW G, NEW r \in [Counter -> Nat], NEW T \in Table, Exact(F, r), DiffersIn(F, G, T),
         NEW k \in Counter
  PROVE  /\ Tally(F[T])[k] \in Nat /\ Tally(G[T])[k] \in Nat
         /\ Tally(F[T])[k] <= r[k]
         /\ Cardinality(Holders(G, k)) = (r[k] - Tally(F[T])[k]) + Tally(G[T])[k]
<1> DEFINE In(t) == {f \in Fd : k \in Counted(t[f])}
           Rest == {e \in (Table \ {T}) \X Fd : k \in Counted(F[e[1]][e[2]])}
<1>1. ASSUME NEW H, DiffersIn(F, H, T)
      PROVE  /\ IsFiniteSet(Rest) /\ Cardinality(Rest) \in Nat
             /\ Tally(H[T])[k] \in Nat
             /\ Cardinality(Holders(H, k)) = Cardinality(Rest) + Tally(H[T])[k]
  <2> DEFINE Mine == {T} \X In(H[T])
  <2>1. IsFiniteSet(In(H[T])) /\ Tally(H[T])[k] = Cardinality(In(H[T]))
    <3>1. In(H[T]) \in SUBSET Fd
      OBVIOUS
    <3>2. QED
      BY <3>1, FdFacts, FS_Subset DEF Tally
  <2>2. Tally(H[T])[k] \in Nat
    BY <2>1, FS_CardinalityType
  <2>3. IsFiniteSet(Mine) /\ Cardinality(Mine) = Cardinality({T}) * Cardinality(In(H[T]))
    BY <2>1, FS_Product, FS_Singleton
  <2>4. Cardinality(Mine) = Tally(H[T])[k]
    <3>1. Cardinality({T}) = 1
      BY FS_Singleton
    <3>2. Cardinality(In(H[T])) \in Nat
      BY <2>1, <2>2
    <3> HIDE DEF Mine, In
    <3>3. Cardinality(Mine) = Cardinality(In(H[T]))
      BY <2>3, <3>1, <3>2
    <3>4. QED
      BY <2>1, <3>3
  <2>5. IsFiniteSet(Rest)
    <3>1. Rest \in SUBSET (Table \X Fd)
      OBVIOUS
    <3>2. QED
      BY <3>1, FdFacts, FS_Subset
  <2>6. Cardinality(Rest) \in Nat
    BY <2>5, FS_CardinalityType
  <2>7. Holders(H, k) = Rest \union Mine
    BY <1>1 DEF Holders, DiffersIn
  <2>8. Rest \cap Mine = {}
    OBVIOUS
  <2>9. Cardinality(Rest \union Mine) =
           Cardinality(Rest) + Cardinality(Mine) - Cardinality(Rest \cap Mine)
    BY <2>3, <2>5, FS_Union
  <2>10. Cardinality(Rest \cap Mine) = 0
    BY <2>8, FS_EmptySet
  <2> HIDE DEF Rest, Mine
  <2>11. QED
    BY <2>2, <2>4, <2>5, <2>6, <2>7, <2>9, <2>10
<1>3. r[k] = Cardinality(Holders(F, k))
  BY DEF Exact
<1>4. /\ Cardinality(Rest) \in Nat
      /\ Tally(F[T])[k] \in Nat
      /\ Cardinality(Holders(F, k)) = Cardinality(Rest) + Tally(F[T])[k]
  BY <1>1 DEF DiffersIn
<1>5. /\ Tally(G[T])[k] \in Nat
      /\ Cardinality(Holders(G, k)) = Cardinality(Rest) + Tally(G[T])[k]
  BY <1>1
<1> HIDE DEF Rest, In
<1>6. QED
  BY <1>3, <1>4, <1>5
-----------------------------------------------------------------------------
(* What is live is what is counted.                                        *)

\* The threads of a table that still holds something.
LEMMA InUse ==
  ASSUME DescTypeOK, TablesExact, NEW T \in Table, NEW f \in Fd, Counted(fds[T][f]) # {}
  PROVE  \E p \in Proc : Alive(p) /\ fdt[p] = T
<1>1. PICK p \in Proc : fdt[p] = T
  BY DEF TablesExact
<1>2. T # None
  BY DescriptorsAssumption DEF Table
<1>3. QED
  BY <1>1, <1>2 DEF Alive

\* An object is counted somewhere.
Counts(F, o) ==
    \E T \in Table, f \in Fd :
        \/ o \in Pty /\ o \in Counted(F[T][f])
        \/ o \notin Pty /\ (R(o) \in Counted(F[T][f]) \/ W(o) \in Counted(F[T][f]))

LEMMA HeldIsCounted ==
  ASSUME NEW F, NEW r, Exact(F, r), NEW o \in Object
  PROVE  Held(r, o) <=> Counts(F, o)
<1>1. ASSUME NEW k \in Counter
      PROVE  r[k] # 0 <=> \E T \in Table, f \in Fd : k \in Counted(F[T][f])
  <2>1. r[k] = Cardinality(Holders(F, k)) /\ (Cardinality(Holders(F, k)) = 0 <=> Holders(F, k) = {})
    BY CountIsNat, FS_EmptySet DEF Exact
  <2>2. Holders(F, k) # {} <=> \E T \in Table, f \in Fd : k \in Counted(F[T][f])
    <3>1. ASSUME NEW T \in Table, NEW f \in Fd, k \in Counted(F[T][f]) PROVE <<T, f>> \in Holders(F, k)
      BY <3>1 DEF Holders
    <3>2. QED
      BY <3>1 DEF Holders
  <2>3. QED
    BY <2>1, <2>2
<1>2. CASE o \in Pty
  BY <1>1, <1>2, Places DEF Held, Counts
<1>3. CASE o \notin Pty
  BY <1>1, <1>3, Places DEF Held, Counts
<1>4. QED
  BY <1>2, <1>3

LEMMA ReachedIsHeld ==
  ASSUME DescTypeOK, TablesExact, Exact(fds, refs), NEW o \in Object
  PROVE  Reached(o) <=> Held(refs, o)
<1>1. \A T \in Table, f \in Fd : fds[T][f] \in Entry
  BY DEF DescTypeOK
<1>2. ASSUME Reached(o) PROVE Counts(fds, o)
  <2>1. PICK p \in Proc, f \in Fd :
           /\ Alive(p)
           /\ LET C == Counted(fds[fdt[p]][f])
              IN  o \in C \/ (o \in AnyPipe /\ {R(o), W(o)} \cap C # {})
    BY <1>2 DEF Reached
  <2>2. fdt[p] \in Table
    BY <2>1 DEF DescTypeOK, Alive
  <2>3. o \in Counted(fds[fdt[p]][f]) => o \in Pty
    BY <1>1, <2>2, CountedPlaces, Places
  <2>4. QED
    BY <2>1, <2>2, <2>3, Places DEF Counts
<1>3. ASSUME Counts(fds, o) PROVE Reached(o)
  <2>1. PICK T \in Table, f \in Fd :
           \/ o \in Pty /\ o \in Counted(fds[T][f])
           \/ o \notin Pty /\ (R(o) \in Counted(fds[T][f]) \/ W(o) \in Counted(fds[T][f]))
    BY <1>3 DEF Counts
  <2>2. PICK p \in Proc : Alive(p) /\ fdt[p] = T
    BY <2>1, InUse
  <2>3. QED
    BY <2>1, <2>2, Places DEF Reached
<1>4. QED
  BY <1>2, <1>3, HeldIsCounted

LEMMA InvIsExact ==
  ASSUME DescInv
  PROVE  CountsExact
<1>1. RefsExact
  BY DEF DescInv, Exact, Holders, RefsExact
<1>2. FreedWhenUnreached
  BY ReachedIsHeld DEF DescInv, LiveWhenHeld, FreedWhenUnreached
<1>3. QED
  BY <1>1, <1>2 DEF DescInv, CountsExact

\* Dropping n[k] of each counter frees what nobody is counted in any more.
LEMMA DropFrees ==
  ASSUME NEW r \in [Counter -> Nat], NEW n \in [Counter -> Nat], \A k \in Counter : n[k] <= r[k],
         NEW h, LiveWhenHeld(r, h),
         NEW g, FreesUnused(h, g, Less(r, n), n)
  PROVE  /\ LiveWhenHeld(Less(r, n), g)
         /\ Less(r, n) \in [Counter -> Nat]
         /\ \A k \in Counter : Less(r, n)[k] = r[k] - n[k]
         /\ OnlyFrees(h, g)
<1> DEFINE l == Less(r, n)
<1>1. l \in [Counter -> Nat] /\ \A k \in Counter : l[k] = r[k] - n[k]
  BY DEF Less
<1>2. ASSUME NEW o \in Object
      PROVE  /\ g[o] = "live" <=> Held(l, o)
             /\ g[o] # h[o] => h[o] = "live" /\ g[o] = "freed"
  <2> HIDE DEF l
  <2>1. g[o] = IF Unused(l, n, o) THEN "freed" ELSE h[o]
    BY DEF l, FreesUnused
  <2>2. h[o] = "live" <=> Held(r, o)
    BY DEF LiveWhenHeld
  <2>3. CASE o \in Pty
    <3>1. o \in Counter
      BY <2>3, Places
    <3>2. l[o] = r[o] - n[o] /\ l[o] \in Nat /\ r[o] \in Nat /\ n[o] \in Nat
      BY <1>1, <3>1
    <3>3. QED
      BY <2>1, <2>2, <2>3, <3>2 DEF Unused, Held
  <2>4. CASE o \notin Pty
    <3>1. R(o) \in Counter /\ W(o) \in Counter
      BY <2>4, Places
    <3>2. /\ l[R(o)] = r[R(o)] - n[R(o)] /\ l[R(o)] \in Nat /\ r[R(o)] \in Nat /\ n[R(o)] \in Nat
          /\ l[W(o)] = r[W(o)] - n[W(o)] /\ l[W(o)] \in Nat /\ r[W(o)] \in Nat /\ n[W(o)] \in Nat
      BY <1>1, <3>1
    <3>3. QED
      BY <2>1, <2>2, <2>4, <3>2 DEF Unused, Held
  <2>5. QED
    BY <2>3, <2>4
<1>3. QED
  BY <1>1, <1>2 DEF LiveWhenHeld, OnlyFrees

LEMMA CounterTypes ==
  /\ \A S : Once(S) \in [Counter -> Nat] /\ \A k \in Counter : Once(S)[k] = IF k \in S THEN 1 ELSE 0
  /\ \A r, n : /\ Plus(r, n) = [k \in Counter |-> r[k] + n[k]]
               /\ (r \in [Counter -> Nat] /\ n \in [Counter -> Nat] => Plus(r, n) \in [Counter -> Nat])
  BY DEF Once, Plus

\* Counters that are 0 together keep the same objects alive.
LEMMA SameHeld ==
  ASSUME NEW r, NEW s, NEW h, LiveWhenHeld(r, h), \A k \in Counter : r[k] # 0 <=> s[k] # 0
  PROVE  LiveWhenHeld(s, h)
<1> SUFFICES ASSUME NEW o \in Object PROVE Held(r, o) <=> Held(s, o)
  BY DEF LiveWhenHeld
<1>1. CASE o \in Pty
  BY <1>1, Places DEF Held
<1>2. CASE o \notin Pty
  BY <1>2, Places DEF Held
<1>3. QED
  BY <1>1, <1>2

\* An entry is dropped, and a copy of another, or one that is not counted, takes its place.
LEMMA Exchange ==
  ASSUME NEW F, NEW G, NEW r \in [Counter -> Nat], NEW h, Exact(F, r), LiveWhenHeld(r, h),
         NEW T \in Table, NEW f \in Fd,
         DiffersAt(F, G, T, f),
         CopyAt(F, G, T, f),
         NEW l, l = Less(r, Once(Counted(F[T][f]))),
         NEW g, FreesUnused(h, g, l, Once(Counted(F[T][f]))),
         NEW s, s = Plus(l, Once(Counted(G[T][f])))
  PROVE  Exact(G, s) /\ LiveWhenHeld(s, g) /\ s \in [Counter -> Nat] /\ OnlyFrees(h, g)
<1> DEFINE n == Once(Counted(F[T][f]))
           F0 == [U \in Table |-> [m \in Fd |-> IF U = T /\ m = f THEN Free ELSE F[U][m]]]
<1>1. \A k \in Counter : n[k] = (IF k \in Counted(F[T][f]) THEN 1 ELSE 0)
  BY CounterTypes
<1>20. \A k \in Counter :
            /\ k \in Counted(F[T][f]) => r[k] > 0
            /\ Cardinality(Holders(G, k)) =
                  (IF k \in Counted(F[T][f]) THEN r[k] - 1 ELSE r[k])
                      + (IF k \in Counted(G[T][f]) THEN 1 ELSE 0)
  BY OneEntry
<1>21. \A k \in Counter : r[k] \in Nat
  OBVIOUS
<1>2. \A k \in Counter : n[k] <= r[k]
  <2> HIDE DEF n
  <2>1. QED
    BY <1>1, <1>20, <1>21
<1>3. /\ LiveWhenHeld(l, g) /\ l \in [Counter -> Nat] /\ OnlyFrees(h, g)
      /\ \A k \in Counter : l[k] = r[k] - n[k]
  <2>1. n \in [Counter -> Nat]
    BY CounterTypes
  <2> HIDE DEF n
  <2>2. l = Less(r, n) /\ FreesUnused(h, g, Less(r, n), n)
    BY DEF n
  <2>3. QED
    BY <1>2, <2>1, <2>2, DropFrees
<1>4. \A k \in Counter : l[k] = IF k \in Counted(F[T][f]) THEN r[k] - 1 ELSE r[k]
  BY <1>1, <1>3
<1>5. \A k \in Counter : s[k] = l[k] + (IF k \in Counted(G[T][f]) THEN 1 ELSE 0)
  BY CounterTypes
<1>6. s \in [Counter -> Nat]
  BY <1>3, CounterTypes
<1>7. Exact(G, s)
  BY <1>4, <1>5, <1>20 DEF Exact
<1>8. ASSUME NEW k \in Counter, k \in Counted(G[T][f]) PROVE l[k] # 0
  <2>1. PICK U \in Table, m \in Fd : (U # T \/ m # f) /\ F[U][m] = G[T][f]
    BY <1>8 DEF CopyAt
  <2>2. F0[U][m] = F[U][m] /\ F0[T][f] = Free /\ DiffersAt(F, F0, T, f)
    BY <2>1 DEF DiffersAt
  <2>3. <<U, m>> \in Holders(F0, k)
    BY <1>8, <2>1, <2>2 DEF Holders
  <2>4. Cardinality(Holders(F0, k)) = (IF k \in Counted(F[T][f]) THEN r[k] - 1 ELSE r[k]) + 0
    <3> HIDE DEF F0
    <3>1. Cardinality(Holders(F0, k)) =
            (IF k \in Counted(F[T][f]) THEN r[k] - 1 ELSE r[k]) + (IF k \in Counted(F0[T][f]) THEN 1 ELSE 0)
      BY <2>2, OneEntry
    <3>2. QED
      BY <3>1, <2>2, CountedFacts
  <2> HIDE DEF F0
  <2>5. Cardinality(Holders(F0, k)) # 0 /\ Cardinality(Holders(F0, k)) \in Nat
    BY <2>3, CountIsNat, FS_EmptySet
  <2>6. l[k] \in Nat /\ r[k] \in Nat
    BY <1>3
  <2>7. QED
    BY <1>4, <2>4, <2>5, <2>6
<1>9. \A k \in Counter : l[k] # 0 <=> s[k] # 0
  <2> SUFFICES ASSUME NEW k \in Counter PROVE l[k] # 0 <=> s[k] # 0
    OBVIOUS
  <2>1. l[k] \in Nat
    BY <1>3
  <2>2. QED
    BY <1>5, <1>8, <2>1
<1>10. QED
  BY <1>3, <1>6, <1>7, <1>9, SameHeld

\* A table with nothing counted gets copies of entries of others.
LEMMA Inherit ==
  ASSUME NEW F, NEW G, NEW r \in [Counter -> Nat], NEW h, Exact(F, r), LiveWhenHeld(r, h),
         NEW T \in Table, DiffersIn(F, G, T),
         Uncounted(F[T]), CopiesOf(F, G[T]),
         NEW s, s = Plus(r, Tally(G[T]))
  PROVE  Exact(G, s) /\ LiveWhenHeld(s, h) /\ s \in [Counter -> Nat]
<1>1. \A k \in Counter : Tally(F[T])[k] = 0
  <2> SUFFICES ASSUME NEW k \in Counter PROVE Tally(F[T])[k] = 0
    OBVIOUS
  <2>1. {m \in Fd : k \in Counted(F[T][m])} = {}
    BY DEF Uncounted
  <2>2. QED
    BY <2>1, FS_EmptySet DEF Tally
<1>2. \A k \in Counter : /\ Tally(G[T])[k] \in Nat
                         /\ Cardinality(Holders(G, k)) = (r[k] - Tally(F[T])[k]) + Tally(G[T])[k]
  BY OneTable
<1>3. \A k \in Counter : r[k] \in Nat /\ s[k] = r[k] + Tally(G[T])[k]
  BY CounterTypes
<1>4. s \in [Counter -> Nat]
  BY <1>2, CounterTypes
<1>5. Exact(G, s)
  BY <1>1, <1>2, <1>3 DEF Exact
<1>6. ASSUME NEW k \in Counter, Tally(G[T])[k] # 0 PROVE r[k] # 0
  <2>1. {m \in Fd : k \in Counted(G[T][m])} # {}
    BY <1>6, FS_EmptySet DEF Tally
  <2>2. PICK m \in Fd : k \in Counted(G[T][m])
    BY <2>1
  <2>3. PICK U \in Table, j \in Fd : F[U][j] = G[T][m]
    BY <2>2 DEF CopiesOf
  <2>4. <<U, j>> \in Holders(F, k)
    BY <2>2, <2>3 DEF Holders
  <2>5. QED
    BY <2>4, CountIsNat, FS_EmptySet DEF Exact
<1>7. \A k \in Counter : r[k] # 0 <=> s[k] # 0
  BY <1>2, <1>3, <1>6
<1>8. QED
  BY <1>4, <1>5, <1>7, SameHeld

\* Some entries of a table go: those in the table t.
LEMMA CloseSome ==
  ASSUME NEW F, NEW G, NEW r \in [Counter -> Nat], NEW h, Exact(F, r), LiveWhenHeld(r, h),
         NEW T \in Table, DiffersIn(F, G, T),
         NEW t, \A m \in Fd : \/ Counted(t[m]) = {} /\ G[T][m] = F[T][m]
                              \/ t[m] = F[T][m] /\ Counted(G[T][m]) = {},
         NEW l, l = Less(r, Tally(t)), NEW g, FreesUnused(h, g, l, Tally(t))
  PROVE  Exact(G, l) /\ LiveWhenHeld(l, g) /\ l \in [Counter -> Nat] /\ OnlyFrees(h, g)
<1> DEFINE In(x, k) == {m \in Fd : k \in Counted(x[m])}
<1>1. ASSUME NEW k \in Counter
      PROVE  /\ Tally(t)[k] \in Nat /\ Tally(G[T])[k] \in Nat
             /\ Tally(F[T])[k] = Tally(t)[k] + Tally(G[T])[k]
  <2>1. IsFiniteSet(In(t, k)) /\ IsFiniteSet(In(G[T], k))
    <3>1. In(t, k) \in SUBSET Fd /\ In(G[T], k) \in SUBSET Fd
      OBVIOUS
    <3>2. QED
      BY <3>1, FdFacts, FS_Subset
  <2>2. In(F[T], k) = In(t, k) \union In(G[T], k) /\ In(t, k) \cap In(G[T], k) = {}
    OBVIOUS
  <2>3. /\ Tally(t)[k] = Cardinality(In(t, k)) /\ Tally(G[T])[k] = Cardinality(In(G[T], k))
        /\ Tally(F[T])[k] = Cardinality(In(F[T], k))
    BY DEF Tally
  <2> HIDE DEF In
  <2>4. Cardinality(In(t, k) \union In(G[T], k)) =
            Cardinality(In(t, k)) + Cardinality(In(G[T], k)) - Cardinality(In(t, k) \cap In(G[T], k))
    BY <2>1, FS_Union
  <2>5. Cardinality(In(t, k)) \in Nat /\ Cardinality(In(G[T], k)) \in Nat /\ Cardinality({}) = 0
    BY <2>1, FS_CardinalityType, FS_EmptySet
  <2>6. Cardinality(In(F[T], k)) = Cardinality(In(t, k) \union In(G[T], k))
    BY <2>2
  <2>7. Cardinality(In(t, k) \cap In(G[T], k)) = 0
    BY <2>2, <2>5
  <2>8. Cardinality(In(F[T], k)) = Cardinality(In(t, k)) + Cardinality(In(G[T], k))
    BY <2>4, <2>5, <2>6, <2>7
  <2>9. QED
    BY <2>3, <2>5, <2>8
<1>2. \A k \in Counter : /\ Tally(t)[k] <= r[k]
                         /\ Cardinality(Holders(G, k)) = r[k] - Tally(t)[k]
  <2> SUFFICES ASSUME NEW k \in Counter
               PROVE  Tally(t)[k] <= r[k] /\ Cardinality(Holders(G, k)) = r[k] - Tally(t)[k]
    OBVIOUS
  <2>1. /\ Tally(F[T])[k] <= r[k]
        /\ Cardinality(Holders(G, k)) = (r[k] - Tally(F[T])[k]) + Tally(G[T])[k]
    BY OneTable
  <2>2. r[k] \in Nat
    OBVIOUS
  <2>3. QED
    BY <1>1, <2>1, <2>2
<1>3. Tally(t) \in [Counter -> Nat]
  BY <1>1 DEF Tally
<1>4. /\ LiveWhenHeld(l, g) /\ l \in [Counter -> Nat] /\ OnlyFrees(h, g)
      /\ \A k \in Counter : l[k] = r[k] - Tally(t)[k]
  BY <1>1, <1>2, <1>3, DropFrees
<1>5. Exact(G, l)
  BY <1>2, <1>4 DEF Exact
<1>6. QED
  BY <1>4, <1>5
-----------------------------------------------------------------------------
(* The calls.                                                              *)

\* pipe.h: an end that nobody holds any more is not taken up again.
EndsStay == \A k \in End : heap[k[1]] # "unborn" /\ refs[k] = 0 => refs'[k] = 0

\* The entries after a call are copies, or of no pipe.
OnlyCopies ==
    \A T \in Table, f \in Fd :
        \/ Counted(fds'[T][f]) \cap End = {}
        \/ \E U \in Table, m \in Fd : fds[U][m] = fds'[T][f]

LEMMA CopiesKeepEnds ==
  ASSUME Exact(fds, refs), Exact(fds', refs'), OnlyCopies
  PROVE  EndsStay
<1> SUFFICES ASSUME NEW k \in End, refs[k] = 0, refs'[k] # 0 PROVE FALSE
  BY DEF EndsStay
<1>1. k \in Counter
  BY DEF Counter
<1>2. Holders(fds', k) # {}
  BY <1>1, FS_EmptySet DEF Exact
<1>3. PICK T \in Table, f \in Fd : k \in Counted(fds'[T][f])
  BY <1>2 DEF Holders
<1>4. PICK U \in Table, m \in Fd : fds[U][m] = fds'[T][f]
  BY <1>3 DEF OnlyCopies
<1>5. <<U, m>> \in Holders(fds, k)
  BY <1>3, <1>4 DEF Holders
<1>6. QED
  BY <1>1, <1>5, CountIsNat, FS_EmptySet DEF Exact

LEMMA StaysTogether ==
  ASSUME PtyTogether, OnlyFrees(heap, heap')
  PROVE  PtyTogether'
<1> SUFFICES ASSUME NEW y \in Pty, heap'[y] = "unborn"
             PROVE  heap'[M2S(y)] = "unborn" /\ heap'[S2M(y)] = "unborn"
  BY DEF PtyTogether
<1>1. y \in Object /\ M2S(y) \in Object /\ S2M(y) \in Object
  BY Places
<1>2. heap[y] = "unborn"
  BY <1>1 DEF OnlyFrees
<1>3. QED
  BY <1>1, <1>2 DEF PtyTogether, OnlyFrees

LEMMA HasTable ==
  ASSUME DescTypeOK, NEW p \in Proc, Alive(p)
  PROVE  fdt[p] \in Table
  BY DEF DescTypeOK, Alive

\* What a thread waits for.
LEMMA AskedFacts ==
  ASSUME DescTypeOK, NEW r \in Proc
  PROVE  /\ asked[r] = Nothing <=> asked[r].op = "none"
         /\ asked[r] # Nothing => asked[r].op \in {"open", "close", "exit"} /\ asked[r].fd \in Fd /\ asked[r].obj \in Chan
  BY DEF DescTypeOK, Question, Nothing

LEMMA UsersFinite == \A T : IsFiniteSet(UsersOf(T))
<1> SUFFICES ASSUME NEW T PROVE IsFiniteSet(UsersOf(T))
  OBVIOUS
<1>1. UsersOf(T) \in SUBSET Proc
  BY DEF UsersOf
<1>2. QED
  BY <1>1, FS_Subset, DescriptorsAssumption

LEMMA Sharing ==
  ASSUME DescTypeOK, TablesExact, NEW p \in Proc, Running(p)
  PROVE  /\ fdt[p] \in Table /\ refcount[fdt[p]] # 0 /\ p \in UsersOf(fdt[p])
         /\ refcount[fdt[p]] = Cardinality(UsersOf(fdt[p]))
<1>1. fdt[p] \in Table /\ p \in UsersOf(fdt[p])
  BY HasTable DEF Running, UsersOf, Nothing
<1>2. Cardinality(UsersOf(fdt[p])) # 0
  BY <1>1, UsersFinite, FS_EmptySet
<1>3. QED
  BY <1>1, <1>2 DEF TablesExact, UsersOf

\* No thread begins to leave its table, none is done with leaving it.
SameLeavers ==
    asked' \in [Proc -> Question] /\ \A u \in Proc : asked'[u].op = "exit" <=> asked[u].op = "exit"

LEMMA TablesKept ==
  ASSUME DescTypeOK, TablesExact, UNCHANGED <<fdt, refcount>>,
         SameLeavers,
         NEW p \in Proc, Alive(p), DiffersIn(fds, fds', fdt[p])
  PROVE  TablesExact'
<1>1. ASSUME NEW T \in Table, \A u \in Proc : fdt'[u] # T, NEW f \in Fd PROVE Counted(fds'[T][f]) = {}
  BY <1>1 DEF TablesExact, DiffersIn
<1>2. \A T \in Table :
         {u \in Proc : fdt'[u] = T /\ asked'[u].op # "exit"} = {u \in Proc : fdt[u] = T /\ asked[u].op # "exit"}
  BY DEF SameLeavers
<1>3. QED
  BY <1>1, <1>2 DEF TablesExact

\* The others that wait are left alone by a step of p.
OthersWait(p) ==
    \A r \in Proc \ {p} :
        /\ asked'[r] = asked[r]
        /\ asked[r] # Nothing =>
              /\ fdt'[r] = fdt[r] /\ fds'[fdt[r]] = fds[fdt[r]]
              /\ refcount[fdt[r]] = 0 => refcount'[fdt[r]] = 0

LEMMA StaysAsLeft ==
  ASSUME AsLeft, NEW p \in Proc, OthersWait(p),
         \/ asked'[p] = Nothing
         \/ Waits(p)' /\ fdt'[p] = fdt[p] /\ \A r \in Proc \ {p} : asked[r] # Nothing => fdt[r] # fdt[p]
  PROVE  AsLeft'
<1> SUFFICES ASSUME NEW r \in Proc, asked'[r] # Nothing
             PROVE  Waits(r)' /\ \A u \in Proc : asked'[u] # Nothing /\ fdt'[u] = fdt'[r] => u = r
  BY DEF AsLeft
<1>1. CASE r = p
  BY <1>1 DEF OthersWait
<1>2. CASE r # p
  <2>1. /\ asked'[r] = asked[r] /\ asked[r] # Nothing /\ Waits(r)
        /\ fdt'[r] = fdt[r] /\ fds'[fdt[r]] = fds[fdt[r]]
        /\ refcount[fdt[r]] = 0 => refcount'[fdt[r]] = 0
    BY <1>2 DEF OthersWait, AsLeft
  <2>2. Waits(r)'
    BY <2>1 DEF Waits, Alive
  <2>3. ASSUME NEW u \in Proc, asked'[u] # Nothing, fdt'[u] = fdt'[r] PROVE u = r
    BY <1>2, <2>1, <2>3 DEF OthersWait, AsLeft
  <2>4. QED
    BY <2>2, <2>3
<1>3. QED
  BY <1>1, <1>2

\* A call of p that changes its own table and does not wait.
LEMMA OwnTable ==
  ASSUME Careful, AsLeft, NEW p \in Proc, Owns(p), UNCHANGED <<fdt, refcount, asked>>,
         fdt[p] \in Table, \A T \in Table : T # fdt[p] => fds'[T] = fds[T], DescTypeOK
  PROVE  AsLeft'
<1>1. OthersWait(p)
  BY HasTable DEF OthersWait, Owns, AsLeft, Waits
<1>2. asked'[p] = Nothing
  BY DEF Owns, Running
<1>3. QED
  BY <1>1, <1>2, StaysAsLeft

\* A call of p that only begins to wait.
LEMMA BeginsToWait ==
  ASSUME Careful, DescTypeOK, AsLeft, NEW p \in Proc, Owns(p), UNCHANGED <<fdt, refcount, fds>>,
         NEW w \in {"open", "close"}, NEW f \in Fd, NEW c \in Chan, Asking(p, w, f, c),
         fds[fdt[p]][f] = IF w = "open" THEN Free ELSE Theirs(c)
  PROVE  /\ AsLeft'
         /\ SameLeavers
<1>1. /\ asked \in [Proc -> Question]
      /\ asked' = [asked EXCEPT ![p] = [op |-> w, fd |-> f, obj |-> c]]
  BY DEF DescTypeOK, Asking
<1>2. /\ asked' \in [Proc -> Question]
      /\ asked'[p].op = w /\ asked'[p].fd = f /\ asked'[p].obj = c
      /\ \A r \in Proc \ {p} : asked'[r] = asked[r]
  BY <1>1 DEF Question
<1>3. asked[p] = Nothing /\ Alive(p) /\ \A r \in Proc : fdt[r] = fdt[p] => asked[r] = Nothing
  BY DEF Owns, Running
<1>4. OthersWait(p)
  BY <1>2 DEF OthersWait
<1>5. Waits(p)'
  BY <1>2, <1>3 DEF Waits, Alive
<1>6. AsLeft'
  BY <1>3, <1>4, <1>5, StaysAsLeft
<1>7. QED
  BY <1>2, <1>3, <1>6 DEF Nothing, SameLeavers

\* The answer of a daemon ends the call of p.
LEMMA StopsWaiting ==
  ASSUME DescTypeOK, AsLeft, NEW p \in Proc, asked[p].op \in {"open", "close"}, Answered(p),
         UNCHANGED <<fdt, refcount>>, \A T \in Table : T # fdt[p] => fds'[T] = fds[T]
  PROVE  /\ AsLeft'
         /\ SameLeavers
<1>1. /\ asked \in [Proc -> Question]
      /\ asked' = [asked EXCEPT ![p] = Nothing]
  BY DEF DescTypeOK, Answered
<1>2. /\ asked' \in [Proc -> Question]
      /\ asked'[p] = Nothing /\ \A r \in Proc \ {p} : asked'[r] = asked[r]
  BY <1>1 DEF Question
<1>3. asked[p] # Nothing
  BY DEF Nothing
<1>4. OthersWait(p)
  <2> SUFFICES ASSUME NEW r \in Proc \ {p}, asked[r] # Nothing
               PROVE  fdt'[r] = fdt[r] /\ fds'[fdt[r]] = fds[fdt[r]] /\ refcount'[fdt[r]] = refcount[fdt[r]]
    BY <1>2 DEF OthersWait
  <2>1. fdt[r] # fdt[p] /\ Alive(r)
    BY <1>3 DEF AsLeft, Waits
  <2>2. fdt[r] \in Table
    BY <2>1, HasTable
  <2>3. QED
    BY <2>1, <2>2
<1>5. AsLeft'
  BY <1>2, <1>4, StaysAsLeft
<1>6. QED
  BY <1>2, <1>5 DEF Nothing, SameLeavers

LEMMA ChildTables ==
  ASSUME DescTypeOK, TablesExact, AsLeft, NEW p \in Proc, NEW c \in Proc, Child(p, c), DiffersIn(fds, fds', c)
  PROVE  /\ TablesExact' /\ fdt' \in [Proc -> Table \union {None}] /\ refcount' \in [Table -> Nat]
         /\ asked' = asked /\ AsLeft'
         /\ \A f \in Fd : Counted(fds[c][f]) = {}
         /\ fdt[p] \in Table /\ fdt[p] # c
<1>1. /\ fdt[c] = None /\ fds[c] = Fresh /\ c \in Table /\ \A r \in Proc : fdt[r] # c
      /\ fdt' = [fdt EXCEPT ![c] = c] /\ refcount' = [refcount EXCEPT ![c] = 1] /\ asked' = asked
  BY DEF Child, Born, Alive, Table
<1>2. fdt' \in [Proc -> Table \union {None}] /\ refcount' \in [Table -> Nat]
  BY <1>1 DEF DescTypeOK
<1>3. \A f \in Fd : Counted(fds[c][f]) = {}
  BY <1>1, CountedFacts DEF Fresh
<1>4. fdt[p] \in Table /\ fdt[p] # c
  BY <1>1, HasTable DEF Child, Running
<1>5. asked[c].op # "exit"
  BY <1>1 DEF AsLeft, Waits, Alive, Nothing
<1>6. ASSUME NEW T \in Table
      PROVE  refcount'[T] = Cardinality({u \in Proc : fdt'[u] = T /\ asked'[u].op # "exit"})
  <2>1. CASE T = c
    <3>1. {u \in Proc : fdt'[u] = c /\ asked'[u].op # "exit"} = {c}
      BY <1>1, <1>5 DEF DescTypeOK
    <3>2. refcount'[c] = 1
      BY <1>1 DEF DescTypeOK
    <3>3. QED
      BY <2>1, <3>1, <3>2, FS_Singleton
  <2>2. CASE T # c
    <3>1. {u \in Proc : fdt'[u] = T /\ asked'[u].op # "exit"} = {u \in Proc : fdt[u] = T /\ asked[u].op # "exit"}
      BY <1>1, <2>2, DescriptorsAssumption DEF DescTypeOK, Table
    <3>2. refcount'[T] = refcount[T]
      BY <1>1, <2>2 DEF DescTypeOK
    <3>3. QED
      BY <3>1, <3>2 DEF TablesExact
  <2>3. QED
    BY <2>1, <2>2
<1>7. ASSUME NEW T \in Table, \A u \in Proc : fdt'[u] # T PROVE \A f \in Fd : Counted(fds'[T][f]) = {}
  <2>1. fdt'[c] = c
    BY <1>1 DEF DescTypeOK
  <2>2. T # c /\ \A u \in Proc : fdt[u] # T
    BY <1>1, <1>7, <2>1, DescriptorsAssumption DEF Table, DescTypeOK
  <2>3. QED
    BY <2>2 DEF TablesExact, DiffersIn
<1>8. TablesExact'
  BY <1>6, <1>7 DEF TablesExact
<1>9. OthersWait(p)
  <2> SUFFICES ASSUME NEW r \in Proc \ {p}, asked[r] # Nothing
               PROVE  fdt'[r] = fdt[r] /\ fds'[fdt[r]] = fds[fdt[r]] /\ refcount'[fdt[r]] = refcount[fdt[r]]
    BY <1>1 DEF OthersWait
  <2>1. Alive(r)
    BY DEF AsLeft, Waits
  <2>2. fdt[r] \in Table /\ fdt[r] # c /\ r # c
    BY <1>1, <2>1, HasTable DEF Alive
  <2>3. QED
    BY <1>1, <2>2 DEF DescTypeOK, DiffersIn
<1>10. AsLeft'
  <2>1. asked'[p] = Nothing
    BY <1>1 DEF Child, Running
  <2>2. QED
    BY <1>9, <2>1, StaysAsLeft
<1>11. QED
  BY <1>1, <1>2, <1>3, <1>4, <1>8, <1>10

LEMMA LowestIsFree ==
  ASSUME NEW S, S \in SUBSET Fd, S # {}
  PROVE  Lowest(S) \in S
<1>1. S \subseteq Nat
  BY DescriptorsAssumption DEF Fd
<1>2. PICK f \in S : \A m \in S : ~(<<m, f>> \in OpToRel(<, Nat))
  BY <1>1, NatLessThanWellFounded, WFMin
<1>5. \A m \in S : m < f => <<m, f>> \in OpToRel(<, Nat)
  BY <1>1 DEF OpToRel
<1>6. \A m \in S : ~(m < f)
  BY <1>2, <1>5
<1>3. \A m \in S : f <= m
  BY <1>1, <1>6
<1>4. QED
  BY <1>3 DEF Lowest

LEMMA PlusNone ==
  ASSUME NEW r \in [Counter -> Nat]
  PROVE  Plus(r, Once({})) = r
  BY DEF Plus, Once

\* A free entry is taken.
LEMMA NewEntry ==
  ASSUME NEW F, NEW G, NEW r \in [Counter -> Nat], NEW T \in Table, NEW f \in Fd, Exact(F, r),
         DiffersAt(F, G, T, f), F[T][f] = Free,
         NEW s, s = Plus(r, Once(Counted(G[T][f])))
  PROVE  Exact(G, s) /\ s \in [Counter -> Nat]
<1>1. s \in [Counter -> Nat] /\ \A k \in Counter : s[k] = r[k] + (IF k \in Counted(G[T][f]) THEN 1 ELSE 0)
  BY CounterTypes
<1>2. SUFFICES ASSUME NEW k \in Counter PROVE s[k] = Cardinality(Holders(G, k))
  BY <1>1 DEF Exact
<1>3. Cardinality(Holders(G, k)) =
          (IF k \in Counted(F[T][f]) THEN r[k] - 1 ELSE r[k]) + (IF k \in Counted(G[T][f]) THEN 1 ELSE 0)
  BY OneEntry
<1>4. QED
  BY <1>1, <1>3, CountedFacts

\* What vfs_close and sys_dup2 do to an entry of p.
LEMMA ReplaceKeeps ==
  ASSUME DescInv, NEW p \in Proc, Alive(p), NEW f \in Fd, NEW d \in Entry,
         Counted(d) = {} \/ \E old \in Fd : old # f /\ fds[fdt[p]][old] = d,
         fds' = [fds EXCEPT ![fdt[p]][f] = d],
         Replace(Counted(fds[fdt[p]][f]), Counted(d)),
         UNCHANGED <<fdt, refcount>>, SameLeavers
  PROVE  DescInv' /\ EndsStay
<1> DEFINE T == fdt[p]
           l == Less(refs, Once(Counted(fds[T][f])))
<1>1. T \in Table
  BY HasTable DEF DescInv
<1>2. /\ fds \in [Table -> [Fd -> Entry]] /\ refs \in [Counter -> Nat]
      /\ heap \in [Object -> {"unborn", "live", "freed"}]
  BY DEF DescInv, DescTypeOK
<1>3. fds' \in [Table -> [Fd -> Entry]] /\ fds'[T][f] = d
  BY <1>1, <1>2
<1>4. DiffersAt(fds, fds', T, f) /\ DiffersIn(fds, fds', T)
  BY <1>1, <1>2 DEF DiffersAt, DiffersIn
<1>5. /\ refs' = Plus(l, Once(Counted(fds'[T][f])))
      /\ heap' = [o \in Object |-> IF Unused(l, Once(Counted(fds[T][f])), o) THEN "freed" ELSE heap[o]]
  BY <1>3 DEF Replace, Released
<1>6. CopyAt(fds, fds', T, f)
  BY <1>1, <1>3 DEF CopyAt
<1>7. FreesUnused(heap, heap', l, Once(Counted(fds[T][f])))
  BY <1>5 DEF FreesUnused
<1>8. Exact(fds', refs') /\ LiveWhenHeld(refs', heap') /\ refs' \in [Counter -> Nat] /\ OnlyFrees(heap, heap')
  <2>1. Exact(fds, refs) /\ LiveWhenHeld(refs, heap)
    BY DEF DescInv
  <2>2. l = Less(refs, Once(Counted(fds[T][f])))
    OBVIOUS
  <2> HIDE DEF T, l
  <2>3. refs' = Plus(l, Once(Counted(fds'[T][f])))
    BY <1>5
  <2>4. refs \in [Counter -> Nat] /\ DiffersAt(fds, fds', T, f)
    BY <1>2, <1>4
  <2>5. QED
    BY <1>1, <1>6, <1>7, <2>1, <2>2, <2>3, <2>4, Exchange
<1>9. heap' \in [Object -> {"unborn", "live", "freed"}]
  BY <1>2, <1>5
<1>10. DescTypeOK'
  BY <1>3, <1>8, <1>9 DEF DescInv, DescTypeOK, SameLeavers
<1>11. TablesExact'
  BY <1>4, TablesKept DEF DescInv
<1>12. PtyTogether'
  BY <1>8, StaysTogether DEF DescInv
<1>13. OnlyCopies
  BY <1>3, <1>4, <1>6 DEF OnlyCopies, DiffersAt, CopyAt
<1>14. EndsStay
  BY <1>8, <1>13, CopiesKeepEnds DEF DescInv
<1>15. QED
  BY <1>8, <1>10, <1>11, <1>12, <1>14 DEF DescInv

LEMMA NoneLeaves ==
  ASSUME DescTypeOK, UNCHANGED asked
  PROVE  SameLeavers
  BY DEF DescTypeOK, SameLeavers

LEMMA VfsCloseKeeps ==
  ASSUME Careful, DescInv, AsLeft, NEW p \in Proc, NEW f \in Fd, VfsClose(p, f)
  PROVE  DescInv' /\ AsLeft' /\ EndsStay
<1>1. Free \in Entry /\ Counted(Free) = {}
  BY CountedFacts DEF Entry
<1>2. SameLeavers /\ Alive(p) /\ DescTypeOK
  BY NoneLeaves DEF VfsClose, Owns, Running, DescInv
<1>3. DescInv' /\ EndsStay
  BY <1>1, <1>2, ReplaceKeeps DEF VfsClose
<1>4. AsLeft'
  <2>1. fdt[p] \in Table
    BY <1>2, HasTable
  <2>2. \A T \in Table : T # fdt[p] => fds'[T] = fds[T]
    BY <1>2 DEF VfsClose, DescTypeOK
  <2>3. QED
    BY <1>2, <2>1, <2>2, OwnTable DEF VfsClose
<1>5. QED
  BY <1>3, <1>4

LEMMA SysDup2Keeps ==
  ASSUME Careful, DescInv, AsLeft, "userfs" \notin DupKind,
         NEW p \in Proc, NEW old \in Fd, NEW new \in Fd, SysDup2(p, old, new)
  PROVE  DescInv' /\ AsLeft' /\ EndsStay
<1> DEFINE src == fds[fdt[p]][old]
           dst == fds[fdt[p]][new]
<1>1. SameLeavers /\ Alive(p) /\ DescTypeOK
  BY NoneLeaves DEF SysDup2, Owns, Running, DescInv
<1>2. fdt[p] \in Table
  BY <1>1, HasTable
<1>3. src \in Entry
  BY <1>1, <1>2 DEF DescTypeOK
<1>4. Bumped(src) = Counted(src) /\ Bumped(dst) = Counted(dst)
  BY DEF SysDup2, Bumped
<1>5. /\ old # new /\ fds' = [fds EXCEPT ![fdt[p]][new] = src]
      /\ Replace(Counted(dst), Counted(src)) /\ UNCHANGED <<fdt, refcount, asked>> /\ Owns(p)
  BY <1>4 DEF SysDup2
<1>6. \E m \in Fd : m # new /\ fds[fdt[p]][m] = src
  BY <1>5
<1>7. \A T \in Table : T # fdt[p] => fds'[T] = fds[T]
  BY <1>1, <1>5 DEF DescTypeOK
<1> HIDE DEF src
<1>8. DescInv' /\ EndsStay
  BY <1>1, <1>3, <1>5, <1>6, ReplaceKeeps
<1>9. AsLeft'
  BY <1>1, <1>2, <1>5, <1>7, OwnTable
<1>10. QED
  BY <1>8, <1>9

LEMMA CloseAnsweredKeeps ==
  ASSUME DescInv, AsLeft, NEW p \in Proc, CloseAnswered(p)
  PROVE  DescInv' /\ AsLeft' /\ EndsStay
<1> DEFINE f == asked[p].fd
           c == asked[p].obj
<1>1. DescTypeOK /\ asked[p] # Nothing
  BY DEF CloseAnswered, DescInv, Nothing
<1>2. f \in Fd /\ c \in Chan
  BY <1>1, AskedFacts
<1>3. Alive(p) /\ fds[fdt[p]][f] = Theirs(c) /\ Counted(Theirs(c)) = {c}
  BY <1>1, <1>2, CountedFacts DEF AsLeft, Waits, CloseAnswered, Theirs
<1>4. \A T \in Table : T # fdt[p] => fds'[T] = fds[T]
  BY <1>1 DEF CloseAnswered, DescTypeOK
<1>5. AsLeft' /\ SameLeavers
  BY <1>1, <1>4, StopsWaiting DEF CloseAnswered
<1>6. Free \in Entry /\ Counted(Free) = {}
  BY CountedFacts DEF Entry
<1>7. /\ fds' = [fds EXCEPT ![fdt[p]][f] = Free] /\ UNCHANGED <<fdt, refcount>>
      /\ Replace(Counted(fds[fdt[p]][f]), Counted(Free))
  BY <1>3, <1>6 DEF CloseAnswered
<1> HIDE DEF f
<1>8. QED
  BY <1>2, <1>3, <1>5, <1>6, <1>7, ReplaceKeeps

\* The table of the child, as fork and every spawn begin.
LEMMA InheritedFacts ==
  ASSUME DescInv, NEW p \in Proc, Alive(p)
  PROVE  /\ Inherited(p) \in [Fd -> Entry]
         /\ \A m \in Fd : \/ Counted(Inherited(p)[m]) = {}
                          \/ Inherited(p)[m] = fds[fdt[p]][m]
<1>1. fdt[p] \in Table /\ fds \in [Table -> [Fd -> Entry]]
  BY HasTable DEF DescInv, DescTypeOK
<1>2. Fresh \in [Fd -> Entry] /\ \A m \in Fd : Counted(Fresh[m]) = {}
  BY CountedFacts DEF Fresh, Entry
<1>3. QED
  BY <1>1, <1>2 DEF Inherited

LEMMA ForkCounts ==
  ASSUME DescInv, NEW p \in Proc, NEW c \in Proc, Child(p, c),
         NEW G, G = [fds EXCEPT ![c] = Inherited(p)], NEW s, s = Plus(refs, Tally(Inherited(p)))
  PROVE  Exact(G, s) /\ LiveWhenHeld(s, heap) /\ s \in [Counter -> Nat] /\ G \in [Table -> [Fd -> Entry]]
<1>1. c \in Table /\ fds \in [Table -> [Fd -> Entry]] /\ refs \in [Counter -> Nat]
  BY DEF DescInv, DescTypeOK, Table
<1>2. /\ Inherited(p) \in [Fd -> Entry]
      /\ \A m \in Fd : Counted(Inherited(p)[m]) = {} \/ Inherited(p)[m] = fds[fdt[p]][m]
  BY InheritedFacts DEF Child, Running
<1>3. G \in [Table -> [Fd -> Entry]] /\ G[c] = Inherited(p) /\ DiffersIn(fds, G, c)
  BY <1>1, <1>2 DEF DiffersIn
<1>4. Uncounted(fds[c])
  BY CountedFacts DEF Child, Born, Fresh, Uncounted
<1>5. fdt[p] \in Table
  BY HasTable DEF DescInv, Child, Running
<1>6. CopiesOf(fds, G[c])
  BY <1>2, <1>3, <1>5 DEF CopiesOf
<1>7. Exact(fds, refs) /\ LiveWhenHeld(refs, heap)
  BY DEF DescInv
<1>8. s = Plus(refs, Tally(G[c]))
  BY <1>3
<1>9. DiffersIn(fds, G, c) /\ c \in Table /\ refs \in [Counter -> Nat]
  BY <1>1, <1>3
<1>10. Exact(G, s) /\ LiveWhenHeld(s, heap) /\ s \in [Counter -> Nat]
  BY <1>4, <1>6, <1>7, <1>8, <1>9, Inherit
<1>11. QED
  BY <1>3, <1>10

\* A child is born with a table of its own, of copies.
LEMMA ChildKeeps ==
  ASSUME DescInv, AsLeft, NEW p \in Proc, NEW c \in Proc, Child(p, c),
         fds' \in [Table -> [Fd -> Entry]], DiffersIn(fds, fds', c),
         \A m \in Fd : Counted(fds'[c][m]) = {} \/ \E j \in Fd : fds'[c][m] = fds[fdt[p]][j],
         Exact(fds', refs'), LiveWhenHeld(refs', heap'), refs' \in [Counter -> Nat],
         OnlyFrees(heap, heap'), heap' \in [Object -> {"unborn", "live", "freed"}]
  PROVE  DescInv' /\ AsLeft' /\ EndsStay
<1>1. /\ TablesExact' /\ fdt' \in [Proc -> Table \union {None}] /\ refcount' \in [Table -> Nat] /\ fdt[p] \in Table
      /\ asked' = asked /\ AsLeft'
  BY ChildTables DEF DescInv
<1>2. DescTypeOK'
  BY <1>1 DEF DescTypeOK, DescInv
<1>3. PtyTogether'
  BY StaysTogether DEF DescInv
<1>4. OnlyCopies
  BY <1>1 DEF OnlyCopies, DiffersIn
<1>5. EndsStay
  BY <1>4, CopiesKeepEnds DEF DescInv
<1>6. QED
  BY <1>1, <1>2, <1>3, <1>5 DEF DescInv

LEMMA ForkKeeps ==
  ASSUME DescInv, AsLeft, NEW p \in Proc, NEW c \in Proc, Fork(p, c)
  PROVE  DescInv' /\ AsLeft' /\ EndsStay
<1>1. Child(p, c) /\ Alive(p) /\ heap' = heap /\ c \in Table
  BY DEF Fork, Child, Running, Table
<1>2. /\ Exact(fds', refs') /\ LiveWhenHeld(refs', heap) /\ refs' \in [Counter -> Nat]
      /\ fds' \in [Table -> [Fd -> Entry]]
  BY <1>1, ForkCounts DEF Fork
<1>3. DiffersIn(fds, fds', c) /\ fds'[c] = Inherited(p)
  BY <1>1 DEF Fork, DiffersIn, DescInv, DescTypeOK
<1>4. \A m \in Fd : Counted(fds'[c][m]) = {} \/ \E j \in Fd : fds'[c][m] = fds[fdt[p]][j]
  BY <1>1, <1>3, InheritedFacts
<1>5. OnlyFrees(heap, heap') /\ heap' \in [Object -> {"unborn", "live", "freed"}]
  BY <1>1 DEF OnlyFrees, DescInv, DescTypeOK
<1>6. QED
  BY <1>1, <1>2, <1>3, <1>4, <1>5, ChildKeeps

LEMMA CloneFreshKeeps ==
  ASSUME DescInv, AsLeft, NEW p \in Proc, NEW c \in Proc, CloneFresh(p, c)
  PROVE  DescInv' /\ AsLeft' /\ EndsStay
<1>1. Child(p, c) /\ UNCHANGED <<fds, refs, heap>>
  BY DEF CloneFresh
<1>2. \A m \in Fd : Counted(fds'[c][m]) = {}
  BY <1>1, CountedFacts DEF Child, Born, Fresh
<1>3. OnlyFrees(heap, heap') /\ DiffersIn(fds, fds', c)
  BY <1>1 DEF OnlyFrees, DiffersIn
<1>4. /\ Exact(fds', refs') /\ LiveWhenHeld(refs', heap') /\ refs' \in [Counter -> Nat]
      /\ fds' \in [Table -> [Fd -> Entry]] /\ heap' \in [Object -> {"unborn", "live", "freed"}]
  BY <1>1 DEF DescInv, DescTypeOK
<1>5. QED
  BY <1>1, <1>2, <1>3, <1>4, ChildKeeps

\* spawn: the state of dup_parent_fd_into_child, s, on the table of the child c.
TablesOf(c, s) == [fds EXCEPT ![c] = s.tab]
HeapOf(s) == [o \in Object |-> IF o \in s.freed THEN "freed" ELSE heap[o]]
SpawnInv(p, c, s) ==
    /\ s.tab \in [Fd -> Entry] /\ s.refs \in [Counter -> Nat]
    /\ Exact(TablesOf(c, s), s.refs) /\ LiveWhenHeld(s.refs, HeapOf(s))
    /\ OnlyFrees(heap, HeapOf(s))
    /\ \A m \in Fd : Counted(s.tab[m]) = {} \/ \E j \in Fd : s.tab[m] = fds[fdt[p]][j]

LEMMA SpawnStarts ==
  ASSUME DescInv, NEW p \in Proc, NEW c \in Proc, Child(p, c),
         NEW s, s = [tab |-> Inherited(p), refs |-> Plus(refs, Tally(Inherited(p))), freed |-> {}]
  PROVE  SpawnInv(p, c, s) /\ HeapOf(s) = heap
<1>1. /\ s.tab = Inherited(p) /\ s.refs = Plus(refs, Tally(Inherited(p))) /\ s.freed = {}
      /\ TablesOf(c, s) = [fds EXCEPT ![c] = Inherited(p)]
  BY DEF TablesOf
<1>2. HeapOf(s) = heap
  BY <1>1 DEF HeapOf, DescInv, DescTypeOK
<1>3. Exact(TablesOf(c, s), s.refs) /\ LiveWhenHeld(s.refs, heap) /\ s.refs \in [Counter -> Nat]
  BY <1>1, ForkCounts
<1>4. /\ s.tab \in [Fd -> Entry]
      /\ \A m \in Fd : Counted(s.tab[m]) = {} \/ \E j \in Fd : s.tab[m] = fds[fdt[p]][j]
  BY <1>1, InheritedFacts DEF Child, Running
<1>5. OnlyFrees(heap, HeapOf(s))
  BY <1>2 DEF OnlyFrees
<1>6. QED
  BY <1>2, <1>3, <1>4, <1>5 DEF SpawnInv

LEMMA RedirectedKeeps ==
  ASSUME DescInv, NEW p \in Proc, NEW c \in Proc, Child(p, c), NEW s, SpawnInv(p, c, s),
         NEW j \in Fd, NEW f \in Fd
  PROVE  SpawnInv(p, c, Redirected(s, fds[fdt[p]][j], f))
<1> DEFINE src == fds[fdt[p]][j]
           n == Once(Counted(s.tab[f]))
           l == Less(s.refs, n)
           t == Redirected(s, src, f)
<1>1. /\ c \in Table /\ fdt[p] \in Table /\ fdt[p] # c /\ fds \in [Table -> [Fd -> Entry]]
  BY HasTable DEF Child, Running, Born, DescInv, DescTypeOK, Table
<1>2. src \in Entry
  BY <1>1
<1>3. /\ t.tab = [s.tab EXCEPT ![f] = src] /\ t.refs = Plus(l, Once(Counted(src)))
      /\ t.freed = s.freed \union {o \in Object : Unused(l, n, o)}
  BY DEF Redirected
<1>4. s.tab \in [Fd -> Entry] /\ s.refs \in [Counter -> Nat]
  BY DEF SpawnInv
<1>5. /\ t.tab \in [Fd -> Entry] /\ t.tab[f] = src /\ \A m \in Fd \ {f} : t.tab[m] = s.tab[m]
  BY <1>2, <1>3, <1>4
<1> HIDE DEF t, src
<1>6. \A u : /\ TablesOf(c, u)[c] = u.tab
             /\ \A U \in Table \ {c} : TablesOf(c, u)[U] = fds[U]
  BY <1>1 DEF TablesOf
<1>7. DiffersAt(TablesOf(c, s), TablesOf(c, t), c, f)
  BY <1>5, <1>6 DEF DiffersAt
<1>8. CopyAt(TablesOf(c, s), TablesOf(c, t), c, f)
  <2>1. TablesOf(c, s)[fdt[p]][j] = TablesOf(c, t)[c][f]
    BY <1>1, <1>5, <1>6 DEF src
  <2>2. QED
    BY <1>1, <2>1 DEF CopyAt
<1>9. TablesOf(c, s)[c][f] = s.tab[f] /\ TablesOf(c, t)[c][f] = src
  BY <1>5, <1>6
<1>10. l = Less(s.refs, Once(Counted(TablesOf(c, s)[c][f])))
  BY <1>9
<1>11. t.refs = Plus(l, Once(Counted(TablesOf(c, t)[c][f])))
  BY <1>3, <1>9
<1>12. FreesUnused(HeapOf(s), HeapOf(t), l, Once(Counted(TablesOf(c, s)[c][f])))
  <2>1. \A o \in Object : HeapOf(t)[o] = IF Unused(l, n, o) THEN "freed" ELSE HeapOf(s)[o]
    BY <1>3 DEF HeapOf
  <2>2. QED
    BY <1>9, <2>1 DEF FreesUnused
<1>13. Exact(TablesOf(c, s), s.refs) /\ LiveWhenHeld(s.refs, HeapOf(s)) /\ s.refs \in [Counter -> Nat]
  BY DEF SpawnInv
<1> HIDE DEF l, n
<1>14. /\ Exact(TablesOf(c, t), t.refs) /\ LiveWhenHeld(t.refs, HeapOf(t)) /\ t.refs \in [Counter -> Nat]
       /\ OnlyFrees(HeapOf(s), HeapOf(t))
  <2>1. c \in Table
    BY <1>1
  <2>2. QED
    BY <1>7, <1>8, <1>10, <1>11, <1>12, <1>13, <2>1, Exchange
<1>15. OnlyFrees(heap, HeapOf(t))
  BY <1>14 DEF OnlyFrees, SpawnInv
<1>16. \A m \in Fd : Counted(t.tab[m]) = {} \/ \E i \in Fd : t.tab[m] = fds[fdt[p]][i]
  BY <1>5 DEF SpawnInv, src
<1>17. SpawnInv(p, c, t)
  BY <1>5, <1>14, <1>15, <1>16 DEF SpawnInv
<1>18. QED
  BY <1>17 DEF t, src

\* The child with what SpawnInv says of s.
LEMMA SpawnedKeeps ==
  ASSUME DescInv, AsLeft, NEW p \in Proc, NEW c \in Proc, Child(p, c), NEW s, SpawnInv(p, c, s),
         fds' = TablesOf(c, s), refs' = s.refs, heap' = HeapOf(s)
  PROVE  DescInv' /\ AsLeft' /\ EndsStay
<1>1. c \in Table /\ fds \in [Table -> [Fd -> Entry]] /\ s.tab \in [Fd -> Entry]
  BY DEF DescInv, DescTypeOK, Table, SpawnInv
<1>2. fds' \in [Table -> [Fd -> Entry]] /\ fds'[c] = s.tab /\ DiffersIn(fds, fds', c)
  BY <1>1 DEF TablesOf, DiffersIn
<1>3. \A m \in Fd : Counted(fds'[c][m]) = {} \/ \E j \in Fd : fds'[c][m] = fds[fdt[p]][j]
  BY <1>2 DEF SpawnInv
<1>4. heap' \in [Object -> {"unborn", "live", "freed"}]
  BY DEF HeapOf, DescInv, DescTypeOK
<1>5. /\ Exact(fds', refs') /\ LiveWhenHeld(refs', heap') /\ refs' \in [Counter -> Nat]
      /\ OnlyFrees(heap, heap')
  BY DEF SpawnInv
<1>6. QED
  BY <1>2, <1>3, <1>4, <1>5, ChildKeeps

LEMMA SpawnPipeKeeps ==
  ASSUME DescInv, AsLeft, NEW p \in Proc, NEW c \in Proc, NEW sin \in Fd \union {None}, NEW sout \in Fd \union {None},
         SpawnPipe(p, c, sin, sout)
  PROVE  DescInv' /\ AsLeft' /\ EndsStay
<1> DEFINE tab == fds[fdt[p]]
           start == [tab |-> Inherited(p), refs |-> Plus(refs, Tally(Inherited(p))), freed |-> {}]
           input == IF sin = None THEN start ELSE Redirected(start, tab[sin], 0)
           both == IF sout = None THEN input ELSE Redirected(input, tab[sout], 1)
<1>1. 0 \in Fd /\ 1 \in Fd
  BY DescriptorsAssumption DEF Fd
<1>2. /\ Child(p, c) /\ fds' = TablesOf(c, both) /\ refs' = both.refs /\ heap' = HeapOf(both)
  BY DEF SpawnPipe, TablesOf, HeapOf
<1>3. SpawnInv(p, c, start)
  BY <1>2, SpawnStarts
<1> HIDE DEF start
<1>4. SpawnInv(p, c, input)
  BY <1>1, <1>2, <1>3, RedirectedKeeps
<1> HIDE DEF input
<1>5. SpawnInv(p, c, both)
  BY <1>1, <1>2, <1>4, RedirectedKeeps
<1> HIDE DEF both
<1>6. QED
  BY <1>2, <1>5, SpawnedKeeps

LEMMA SpawnRedirKeeps ==
  ASSUME DescInv, AsLeft, "userfs" \notin DupKind, NEW p \in Proc, NEW c \in Proc, SpawnRedir(p, c)
  PROVE  DescInv' /\ AsLeft' /\ EndsStay
<1> DEFINE tab == Inherited(p)
           r == Plus(refs, Tally(tab))
           n == Once(Counted(tab[0]))
           l == Less(r, n)
           F == [fds EXCEPT ![c] = tab]
<1>1. 0 \in Fd
  BY DescriptorsAssumption DEF Fd
<1>2. Bumped(tab[0]) = Counted(tab[0])
  BY DEF SpawnRedir, Bumped
<1>3. /\ Child(p, c) /\ Alive(p) /\ fds' = [fds EXCEPT ![c] = [tab EXCEPT ![0] = File]]
      /\ refs' = l /\ heap' = [o \in Object |-> IF Unused(l, n, o) THEN "freed" ELSE heap[o]]
  BY <1>2 DEF SpawnRedir, Released, Child, Running
<1>4. c \in Table /\ fds \in [Table -> [Fd -> Entry]]
  BY DEF DescInv, DescTypeOK, Table
<1>5. tab \in [Fd -> Entry] /\ \A m \in Fd : Counted(tab[m]) = {} \/ tab[m] = fds[fdt[p]][m]
  BY <1>3, InheritedFacts
<1> HIDE DEF tab
<1>6. File \in Entry /\ Counted(File) = {}
  BY CountedFacts DEF Entry
<1>7. /\ fds' \in [Table -> [Fd -> Entry]] /\ fds'[c][0] = File /\ DiffersIn(fds, fds', c)
      /\ \A m \in Fd \ {0} : fds'[c][m] = tab[m]
  BY <1>1, <1>3, <1>4, <1>5, <1>6 DEF DiffersIn
<1>8. F[c] = tab /\ \A U \in Table \ {c} : F[U] = fds[U]
  BY <1>4
<1>9. Exact(F, r) /\ LiveWhenHeld(r, heap) /\ r \in [Counter -> Nat]
  BY <1>3, ForkCounts DEF tab
<1> HIDE DEF F, r
<1>10. DiffersAt(F, fds', c, 0)
  BY <1>7, <1>8 DEF DiffersAt, DiffersIn
<1>11. CopyAt(F, fds', c, 0)
  BY <1>6, <1>7 DEF CopyAt
<1>12. l = Less(r, Once(Counted(F[c][0])))
  BY <1>8
<1>13. FreesUnused(heap, heap', l, Once(Counted(F[c][0])))
  BY <1>3, <1>8 DEF FreesUnused
<1>14. refs' = Plus(l, Once(Counted(fds'[c][0])))
  <2>1. l \in [Counter -> Nat]
    BY <1>9, CounterTypes DEF Less
  <2> HIDE DEF l
  <2>2. Plus(l, Once({})) = l
    BY <2>1, PlusNone
  <2>3. QED
    BY <1>3, <1>6, <1>7, <2>2
<1>15. /\ Exact(fds', refs') /\ LiveWhenHeld(refs', heap') /\ refs' \in [Counter -> Nat]
       /\ OnlyFrees(heap, heap')
  <2> HIDE DEF l
  <2>1. c \in Table
    BY <1>4
  <2>2. QED
    BY <1>1, <1>9, <1>10, <1>11, <1>12, <1>13, <1>14, <2>1, Exchange
<1>16. \A m \in Fd : Counted(fds'[c][m]) = {} \/ \E j \in Fd : fds'[c][m] = fds[fdt[p]][j]
  BY <1>5, <1>6, <1>7
<1>17. heap' \in [Object -> {"unborn", "live", "freed"}]
  BY <1>3 DEF DescInv, DescTypeOK
<1>18. fds' \in [Table -> [Fd -> Entry]] /\ DiffersIn(fds, fds', c)
  BY <1>7
<1>19. QED
  BY ZenonT(60), <1>3, <1>15, <1>16, <1>17, <1>18, ChildKeeps

\* Nothing but the tables' threads and what they wait for changes.
LEMMA ObjectsKept ==
  ASSUME DescInv, UNCHANGED <<fds, refs, heap>>, TablesExact', asked' \in [Proc -> Question],
         fdt' \in [Proc -> Table \union {None}], refcount' \in [Table -> Nat]
  PROVE  DescInv' /\ EndsStay
  BY DEF DescInv, DescTypeOK, PtyTogether, LiveWhenHeld, Exact, EndsStay

LEMMA CloneKeeps ==
  ASSUME DescInv, AsLeft, NEW p \in Proc, NEW c \in Proc, Clone(p, c)
  PROVE  DescInv' /\ AsLeft' /\ EndsStay
<1> DEFINE T == fdt[p]
           S == UsersOf(T)
<1>1. /\ Running(p) /\ fdt[c] = None /\ \A r \in Proc : fdt[r] # c
      /\ fdt' = [fdt EXCEPT ![c] = T] /\ refcount' = [refcount EXCEPT ![T] = @ + 1]
      /\ UNCHANGED <<fds, refs, heap, asked>>
  BY DEF Clone, Born, Alive
<1>2. T \in Table /\ refcount[T] # 0 /\ refcount[T] = Cardinality(S) /\ T # None
  BY <1>1, Sharing, DescriptorsAssumption DEF DescInv, Table
<1>3. fdt \in [Proc -> Table \union {None}] /\ refcount \in [Table -> Nat] /\ asked \in [Proc -> Question]
  BY DEF DescInv, DescTypeOK
<1> HIDE DEF T
<1>4. fdt' \in [Proc -> Table \union {None}] /\ refcount' \in [Table -> Nat] /\ asked' \in [Proc -> Question]
  BY <1>1, <1>2, <1>3
<1>5. asked[c].op # "exit" /\ p # c
  BY <1>1 DEF AsLeft, Waits, Alive, Nothing, Running
<1>6. ASSUME NEW V \in Table
      PROVE  refcount'[V] = Cardinality({u \in Proc : fdt'[u] = V /\ asked'[u].op # "exit"})
  <2>1. CASE V = T
    <3>1. {u \in Proc : fdt'[u] = V /\ asked'[u].op # "exit"} = S \union {c} /\ c \notin S
      BY <1>1, <1>2, <1>3, <1>5, <2>1 DEF UsersOf
    <3>2. Cardinality(S \union {c}) = Cardinality(S) + 1
      BY <3>1, UsersFinite, FS_AddElement
    <3>3. QED
      BY <1>1, <1>2, <1>3, <2>1, <3>1, <3>2
  <2>2. CASE V # T
    <3>1. {u \in Proc : fdt'[u] = V /\ asked'[u].op # "exit"} = {u \in Proc : fdt[u] = V /\ asked[u].op # "exit"}
      BY <1>1, <1>3, <2>2, DescriptorsAssumption DEF Table
    <3>2. refcount'[V] = refcount[V]
      BY <1>1, <1>3, <2>2
    <3>3. QED
      BY <3>1, <3>2 DEF DescInv, TablesExact
  <2>3. QED
    BY <2>1, <2>2
<1>7. ASSUME NEW V \in Table, \A u \in Proc : fdt'[u] # V PROVE \A u \in Proc : fdt[u] # V
  BY <1>1, <1>3, <1>7, DescriptorsAssumption DEF Table
<1>8. TablesExact'
  BY <1>1, <1>6, <1>7 DEF DescInv, TablesExact
<1>9. OthersWait(p)
  <2> SUFFICES ASSUME NEW r \in Proc \ {p}, asked[r] # Nothing
               PROVE  fdt'[r] = fdt[r] /\ (refcount[fdt[r]] = 0 => refcount'[fdt[r]] = 0)
    BY <1>1 DEF OthersWait
  <2>1. fdt[r] \in Table /\ r # c
    BY <1>1, <1>3 DEF AsLeft, Waits, Alive
  <2>2. QED
    BY <1>1, <1>2, <1>3, <2>1
<1>10. AsLeft'
  <2>1. asked'[p] = Nothing
    BY <1>1 DEF Running
  <2>2. QED
    BY <1>9, <2>1, StaysAsLeft
<1>11. QED
  BY <1>1, <1>4, <1>8, <1>10, ObjectsKept

\* What dropping some entries of a table does.
LEMMA DropKeeps ==
  ASSUME DescInv, NEW T \in Table, NEW S \in SUBSET Fd, Drop(T, S)
  PROVE  /\ fds' \in [Table -> [Fd -> Entry]] /\ DiffersIn(fds, fds', T)
         /\ \A f \in Fd : fds'[T][f] = IF f \in S THEN Free ELSE fds[T][f]
         /\ Exact(fds', refs') /\ LiveWhenHeld(refs', heap') /\ refs' \in [Counter -> Nat]
         /\ heap' \in [Object -> {"unborn", "live", "freed"}] /\ PtyTogether' /\ EndsStay
<1> DEFINE t == [f \in Fd |-> IF f \in S THEN fds[T][f] ELSE Free]
           l == Less(refs, Tally(t))
<1>1. /\ refs' = l
      /\ heap' = [o \in Object |-> IF Unused(l, Tally(t), o) THEN "freed" ELSE heap[o]]
      /\ fds' = [fds EXCEPT ![T] = [f \in Fd |-> IF f \in S THEN Free ELSE fds[T][f]]]
  BY DEF Drop, Released
<1>2. fds \in [Table -> [Fd -> Entry]] /\ Free \in Entry /\ Counted(Free) = {}
  BY CountedFacts DEF DescInv, DescTypeOK, Entry
<1>3. /\ fds' \in [Table -> [Fd -> Entry]] /\ DiffersIn(fds, fds', T)
      /\ \A f \in Fd : fds'[T][f] = IF f \in S THEN Free ELSE fds[T][f]
  BY <1>1, <1>2 DEF DiffersIn
<1>4. \A m \in Fd : \/ Counted(t[m]) = {} /\ fds'[T][m] = fds[T][m]
                    \/ t[m] = fds[T][m] /\ Counted(fds'[T][m]) = {}
  BY <1>2, <1>3
<1>5. FreesUnused(heap, heap', l, Tally(t))
  BY <1>1 DEF FreesUnused
<1>6. /\ Exact(fds', refs') /\ LiveWhenHeld(refs', heap') /\ refs' \in [Counter -> Nat]
      /\ OnlyFrees(heap, heap')
  <2>1. l = Less(refs, Tally(t)) /\ refs' = l
    BY <1>1
  <2> HIDE DEF l, t
  <2>2. Exact(fds, refs) /\ LiveWhenHeld(refs, heap) /\ refs \in [Counter -> Nat]
    BY DEF DescInv, DescTypeOK
  <2>3. Exact(fds', l) /\ LiveWhenHeld(l, heap') /\ l \in [Counter -> Nat] /\ OnlyFrees(heap, heap')
    <3>1. PICK F, G, u, h, g, m, r :
             F = fds /\ G = fds' /\ u = t /\ h = heap /\ g = heap' /\ m = l /\ r = refs
      OBVIOUS
    <3>2. /\ DiffersIn(F, G, T) /\ FreesUnused(h, g, m, Tally(u)) /\ m = Less(r, Tally(u))
          /\ Exact(F, r) /\ LiveWhenHeld(r, h) /\ r \in [Counter -> Nat]
      BY <1>3, <1>5, <2>1, <2>2, <3>1
    <3>3. \A k \in Fd : \/ Counted(u[k]) = {} /\ G[T][k] = F[T][k]
                        \/ u[k] = F[T][k] /\ Counted(G[T][k]) = {}
      BY <1>4, <3>1
    <3>4. Exact(G, m) /\ LiveWhenHeld(m, g) /\ m \in [Counter -> Nat] /\ OnlyFrees(h, g)
      BY <3>2, <3>3, CloseSome, SMTT(60)
    <3>5. QED
      BY <3>1, <3>4
  <2>4. QED
    BY <2>1, <2>3
<1>7. heap' \in [Object -> {"unborn", "live", "freed"}]
  BY <1>1 DEF DescInv, DescTypeOK
<1>8. PtyTogether'
  BY <1>6, StaysTogether DEF DescInv
<1>9. OnlyCopies
  BY <1>2, <1>3 DEF OnlyCopies, DiffersIn
<1>10. EndsStay
  BY <1>6, <1>9, CopiesKeepEnds DEF DescInv
<1>11. QED
  BY <1>3, <1>6, <1>7, <1>8, <1>10

\* What fd_table_unref does until it is done, or until it has to wait for the daemon g's file is of.
LEMMA CloseRestSteps ==
  ASSUME DescTypeOK, NEW p \in Proc, fdt[p] \in Table, NEW n \in Nat, CloseRest(p, n)
  PROVE  \/ /\ Drop(fdt[p], Fd) /\ fdt' = [fdt EXCEPT ![p] = None]
            /\ asked' = [asked EXCEPT ![p] = Nothing]
         \/ \E g \in Fd, c \in Chan : /\ Drop(fdt[p], {f \in Fd : f < g}) /\ UNCHANGED fdt
                                      /\ asked' = [asked EXCEPT ![p] = [op |-> "exit", fd |-> g, obj |-> c]]
                                      /\ fds[fdt[p]][g] = Theirs(c)
<1> DEFINE T == fdt[p]
           theirs == {g \in Fd : g >= n /\ fds[T][g].kind = "userfs"}
           next == Lowest(theirs)
<1>1. CASE theirs = {}
  BY <1>1 DEF CloseRest, Answered
<1>2. CASE theirs # {}
  <2>1. /\ Drop(T, {g \in Fd : g < next}) /\ UNCHANGED fdt
        /\ asked' = [asked EXCEPT ![p] = [op |-> "exit", fd |-> next, obj |-> fds[T][next].obj]]
    BY <1>2 DEF CloseRest, Asking
  <2>2. next \in theirs
    BY <1>2, LowestIsFree
  <2>3. next \in Fd /\ fds[T][next].kind = "userfs"
    BY <2>2
  <2> HIDE DEF next
  <2>4. fds[T][next] \in Entry
    BY <2>3 DEF DescTypeOK
  <2>5. PICK c \in Chan : fds[T][next] = [kind |-> "userfs", obj |-> c]
    BY <2>3, <2>4, EntryKinds DEF Free, Console, File
  <2>6. fds[T][next].obj = c /\ fds[T][next] = Theirs(c)
    BY <2>5 DEF Theirs
  <2>7. QED
    BY <2>1, <2>3, <2>6
<1>3. QED
  BY <1>1, <1>2

\* p goes on leaving its table, where it is the last.
LEMMA LeavingKeeps ==
  ASSUME DescInv, AsLeft, NEW p \in Proc, Alive(p), NEW n \in Nat, CloseRest(p, n),
         refcount' \in [Table -> Nat], refcount'[fdt[p]] = 0,
         \A T \in Table : T # fdt[p] => refcount'[T] = refcount[T],
         \A r \in Proc \ {p} : fdt[r] # fdt[p]
  PROVE  DescInv' /\ AsLeft' /\ EndsStay
<1> DEFINE T == fdt[p]
<1>1. T \in Table /\ T # None
  BY HasTable DEF DescInv, Alive
<1>2. /\ fdt \in [Proc -> Table \union {None}] /\ asked \in [Proc -> Question] /\ DescTypeOK
  BY DEF DescInv, DescTypeOK
<1>3. \/ /\ Drop(T, Fd) /\ fdt' = [fdt EXCEPT ![p] = None]
         /\ asked' = [asked EXCEPT ![p] = Nothing]
      \/ \E g \in Fd, c \in Chan : /\ Drop(T, {f \in Fd : f < g}) /\ UNCHANGED fdt
                                   /\ asked' = [asked EXCEPT ![p] = [op |-> "exit", fd |-> g, obj |-> c]]
                                   /\ fds[T][g] = Theirs(c)
  BY <1>1, <1>2, CloseRestSteps
<1> HIDE DEF T
<1>4. PICK S \in SUBSET Fd :
         /\ Drop(T, S) /\ fdt' \in [Proc -> Table \union {None}] /\ asked' \in [Proc -> Question]
         /\ \A r \in Proc \ {p} : fdt'[r] = fdt[r] /\ asked'[r] = asked[r]
         /\ \/ S = Fd /\ fdt'[p] = None /\ asked'[p] = Nothing
            \/ \E g \in Fd, c \in Chan : /\ g \notin S /\ fdt'[p] = fdt[p] /\ fds[T][g] = Theirs(c)
                                         /\ asked'[p] = [op |-> "exit", fd |-> g, obj |-> c]
  <2>1. CASE /\ Drop(T, Fd) /\ fdt' = [fdt EXCEPT ![p] = None]
             /\ asked' = [asked EXCEPT ![p] = Nothing]
    BY <1>2, <2>1 DEF Question
  <2>2. ASSUME NEW g \in Fd, NEW c \in Chan, Drop(T, {f \in Fd : f < g}), UNCHANGED fdt,
               asked' = [asked EXCEPT ![p] = [op |-> "exit", fd |-> g, obj |-> c]],
               fds[T][g] = Theirs(c)
        PROVE  \E S \in SUBSET Fd :
                 /\ Drop(T, S) /\ fdt' \in [Proc -> Table \union {None}] /\ asked' \in [Proc -> Question]
                 /\ \A r \in Proc \ {p} : fdt'[r] = fdt[r] /\ asked'[r] = asked[r]
                 /\ \E h \in Fd, d \in Chan : /\ h \notin S /\ fdt'[p] = fdt[p] /\ fds[T][h] = Theirs(d)
                                              /\ asked'[p] = [op |-> "exit", fd |-> h, obj |-> d]
    <3>1. asked' \in [Proc -> Question] /\ asked'[p] = [op |-> "exit", fd |-> g, obj |-> c]
      BY <1>2, <2>2 DEF Question
    <3>2. g \notin {f \in Fd : f < g} /\ {f \in Fd : f < g} \in SUBSET Fd
      BY DescriptorsAssumption DEF Fd
    <3>3. fdt' \in [Proc -> Table \union {None}] /\ \A r \in Proc \ {p} : fdt'[r] = fdt[r] /\ asked'[r] = asked[r]
      BY <1>2, <2>2
    <3>4. QED
      BY <2>2, <3>1, <3>2, <3>3
  <2>3. QED
    BY <1>3, <2>1, <2>2
<1>5. /\ fds' \in [Table -> [Fd -> Entry]] /\ DiffersIn(fds, fds', T)
      /\ \A f \in Fd : fds'[T][f] = IF f \in S THEN Free ELSE fds[T][f]
      /\ Exact(fds', refs') /\ LiveWhenHeld(refs', heap') /\ refs' \in [Counter -> Nat]
      /\ heap' \in [Object -> {"unborn", "live", "freed"}] /\ PtyTogether' /\ EndsStay
  BY <1>1, <1>4, DropKeeps
<1>6. DescTypeOK'
  BY <1>4, <1>5 DEF DescTypeOK
<1>7. ASSUME NEW V \in Table
      PROVE  /\ refcount'[V] = Cardinality({u \in Proc : fdt'[u] = V /\ asked'[u].op # "exit"})
             /\ (\A u \in Proc : fdt'[u] # V) => \A f \in Fd : Counted(fds'[V][f]) = {}
  <2>1. CASE V = T
    <3>1. {u \in Proc : fdt'[u] = V /\ asked'[u].op # "exit"} = {}
      BY <1>1, <1>4, <2>1 DEF T
    <3>2. (\A u \in Proc : fdt'[u] # V) => \A f \in Fd : Counted(fds'[V][f]) = {}
      BY <1>4, <1>5, <2>1, CountedFacts DEF T
    <3>3. QED
      BY <2>1, <3>1, <3>2, FS_EmptySet DEF T
  <2>2. CASE V # T
    <3>1. {u \in Proc : fdt'[u] = V /\ asked'[u].op # "exit"} = {u \in Proc : fdt[u] = V /\ asked[u].op # "exit"}
      BY <1>4, <2>2, DescriptorsAssumption DEF T, Table
    <3>2. (\A u \in Proc : fdt'[u] # V) => \A u \in Proc : fdt[u] # V
      BY <1>4, <2>2 DEF T
    <3>3. refcount'[V] = refcount[V] /\ fds'[V] = fds[V]
      BY <1>5, <2>2 DEF T, DiffersIn
    <3>4. QED
      BY <3>1, <3>2, <3>3 DEF DescInv, TablesExact
  <2>3. QED
    BY <2>1, <2>2
<1>8. TablesExact'
  BY <1>7 DEF TablesExact
<1>9. OthersWait(p)
  <2> SUFFICES ASSUME NEW r \in Proc \ {p}, asked[r] # Nothing
               PROVE  fds'[fdt[r]] = fds[fdt[r]] /\ refcount'[fdt[r]] = refcount[fdt[r]]
    BY <1>4 DEF OthersWait
  <2>1. fdt[r] # T /\ fdt[r] \in Table
    BY HasTable DEF AsLeft, Waits, T, DescInv
  <2>2. QED
    BY <1>5, <2>1 DEF DiffersIn, T
<1>10. asked'[p] = Nothing \/ (Waits(p)' /\ fdt'[p] = fdt[p])
  <2>1. ASSUME NEW g \in Fd, NEW c \in Chan, g \notin S, fdt'[p] = fdt[p], fds[T][g] = Theirs(c),
               asked'[p] = [op |-> "exit", fd |-> g, obj |-> c]
        PROVE  Waits(p)' /\ fdt'[p] = fdt[p]
    <3>1. asked'[p].op = "exit" /\ asked'[p].fd = g /\ asked'[p].obj = c
      BY <2>1
    <3>2. fds'[fdt'[p]][g] = Theirs(c) /\ refcount'[fdt'[p]] = 0 /\ Alive(p)'
      BY <1>1, <1>5, <2>1 DEF T, Alive
    <3>3. QED
      BY <2>1, <3>1, <3>2 DEF Waits
  <2>2. QED
    BY <1>4, <2>1
<1>11. AsLeft'
  BY <1>9, <1>10, StaysAsLeft
<1>12. QED
  BY <1>5, <1>6, <1>8, <1>11 DEF DescInv

LEMMA ExitKeeps ==
  ASSUME DescInv, AsLeft, NEW p \in Proc, Exit(p)
  PROVE  DescInv' /\ AsLeft' /\ EndsStay
<1> DEFINE T == fdt[p]
           S == UsersOf(T)
<1>1. Running(p) /\ refcount' = [refcount EXCEPT ![T] = @ - 1]
  BY DEF Exit
<1>2. /\ fdt \in [Proc -> Table \union {None}] /\ refcount \in [Table -> Nat] /\ asked \in [Proc -> Question]
  BY DEF DescInv, DescTypeOK
<1>3. T \in Table /\ refcount[T] # 0 /\ refcount[T] = Cardinality(S) /\ p \in S
  BY <1>1, Sharing DEF DescInv
<1>4. Alive(p) /\ asked[p] = Nothing /\ T # None
  BY <1>1 DEF Running, Alive
<1> HIDE DEF T
<1>5. /\ refcount' \in [Table -> Nat] /\ refcount'[T] = refcount[T] - 1
      /\ \A V \in Table : V # T => refcount'[V] = refcount[V]
  BY <1>1, <1>2, <1>3
<1>6. IsFiniteSet(S \ {p}) /\ Cardinality(S \ {p}) = refcount[T] - 1
  BY <1>3, UsersFinite, FS_RemoveElement
<1>7. CASE refcount[T] > 1
  <2>1. /\ fdt' = [fdt EXCEPT ![p] = None] /\ UNCHANGED <<fds, refs, heap, asked>>
    BY <1>2, <1>3, <1>7 DEF Exit, T
  <2>2. fdt' \in [Proc -> Table \union {None}] /\ fdt'[p] = None /\ \A r \in Proc \ {p} : fdt'[r] = fdt[r]
    BY <1>2, <2>1
  <2>3. ASSUME NEW V \in Table
        PROVE  refcount'[V] = Cardinality({u \in Proc : fdt'[u] = V /\ asked'[u].op # "exit"})
    <3>1. CASE V = T
      <4>1. {u \in Proc : fdt'[u] = V /\ asked'[u].op # "exit"} = S \ {p}
        BY <1>4, <2>1, <2>2, <3>1 DEF UsersOf
      <4>2. QED
        BY <1>5, <1>6, <3>1, <4>1
    <3>2. CASE V # T
      <4>1. {u \in Proc : fdt'[u] = V /\ asked'[u].op # "exit"} = {u \in Proc : fdt[u] = V /\ asked[u].op # "exit"}
        BY <2>1, <2>2, <3>2, DescriptorsAssumption DEF Table, T
      <4>2. QED
        BY <1>5, <3>2, <4>1 DEF DescInv, TablesExact
    <3>3. QED
      BY <3>1, <3>2
  <2>4. ASSUME NEW V \in Table, \A u \in Proc : fdt'[u] # V PROVE \A u \in Proc : fdt[u] # V
    <3>1. S \ {p} # {}
      <4>1. refcount[T] \in Nat /\ Cardinality(S \ {p}) # 0
        BY <1>2, <1>3, <1>6, <1>7
      <4>2. QED
        BY <4>1, FS_EmptySet
    <3>2. PICK u \in S \ {p} : TRUE
      BY <3>1
    <3>3. fdt'[u] = T
      BY <2>2, <3>2 DEF UsersOf
    <3>4. V # T
      BY <2>4, <3>2, <3>3 DEF UsersOf
    <3>5. QED
      BY <2>2, <2>4, <3>4 DEF T
  <2>5. TablesExact'
    BY <2>1, <2>3, <2>4 DEF DescInv, TablesExact
  <2>6. OthersWait(p)
    <3> SUFFICES ASSUME NEW r \in Proc \ {p}, asked[r] # Nothing
                 PROVE  refcount[fdt[r]] = 0 => refcount'[fdt[r]] = 0
      BY <2>1, <2>2 DEF OthersWait
    <3>1. fdt[r] \in Table
      BY HasTable DEF AsLeft, Waits, DescInv
    <3>2. QED
      BY <1>3, <1>5, <3>1
  <2>7. AsLeft'
    BY <1>4, <2>1, <2>6, StaysAsLeft
  <2>8. QED
    BY <1>2, <1>5, <2>1, <2>2, <2>5, <2>7, ObjectsKept
<1>8. CASE ~(refcount[T] > 1)
  <2>1. CloseRest(p, 0)
    BY <1>8 DEF Exit, T
  <2>2. refcount[T] = 1
    BY <1>2, <1>3, <1>8
  <2>3. \A r \in Proc \ {p} : fdt[r] # fdt[p]
    <3> SUFFICES ASSUME NEW r \in Proc \ {p}, fdt[r] = T PROVE FALSE
      BY DEF T
    <3>1. S \ {p} = {}
      BY <1>6, <2>2, FS_EmptySet
    <3>2. asked[r].op = "exit"
      BY <3>1 DEF UsersOf
    <3>3. asked[r] # Nothing
      BY <3>2 DEF Nothing
    <3>4. refcount[T] = 0
      BY <3>2, <3>3 DEF AsLeft, Waits
    <3>5. QED
      BY <2>2, <3>4
  <2>4. refcount'[fdt[p]] = 0 /\ \A V \in Table : V # fdt[p] => refcount'[V] = refcount[V]
    BY <1>5, <2>2 DEF T
  <2>5. refcount' \in [Table -> Nat]
    BY <1>5
  <2>6. QED
    BY <1>4, <2>1, <2>3, <2>4, <2>5, LeavingKeeps
<1>9. QED
  BY <1>7, <1>8

LEMMA ExitAnsweredKeeps ==
  ASSUME DescInv, AsLeft, NEW p \in Proc, ExitAnswered(p)
  PROVE  DescInv' /\ AsLeft' /\ EndsStay
<1>1. asked[p].op = "exit" /\ asked[p] # Nothing /\ CloseRest(p, asked[p].fd + 1) /\ refcount' = refcount
  BY DEF ExitAnswered, Nothing
<1>2. Alive(p) /\ refcount[fdt[p]] = 0 /\ \A r \in Proc : asked[r] # Nothing /\ fdt[r] = fdt[p] => r = p
  BY <1>1 DEF AsLeft, Waits
<1>3. fdt[p] \in Table /\ DescTypeOK
  BY <1>2, HasTable DEF DescInv
<1>4. asked[p].fd + 1 \in Nat
  <2>1. asked[p].fd \in Fd
    BY <1>1, <1>3, AskedFacts
  <2>2. QED
    BY <2>1, DescriptorsAssumption DEF Fd
<1>5. \A r \in Proc \ {p} : fdt[r] # fdt[p]
  <2> SUFFICES ASSUME NEW r \in Proc \ {p}, fdt[r] = fdt[p] PROVE FALSE
    OBVIOUS
  <2>1. Running(r)
    BY <1>2 DEF Running, Alive
  <2>2. QED
    BY <1>2, <2>1, Sharing DEF DescInv
<1>6. refcount' \in [Table -> Nat] /\ \A V \in Table : V # fdt[p] => refcount'[V] = refcount[V]
  BY <1>1, <1>3 DEF DescTypeOK
<1>7. refcount'[fdt[p]] = 0
  BY <1>1, <1>2
<1>8. QED
  BY <1>1, <1>2, <1>4, <1>5, <1>6, <1>7, LeavingKeeps

\* Two free entries of p, the lowest ones.
LEMMA TwoFree ==
  ASSUME DescInv, NEW p \in Proc, Alive(p), Cardinality(FreeFds(p)) >= 2,
         NEW a, NEW b, a = Lowest(FreeFds(p)), b = Lowest(FreeFds(p) \ {a})
  PROVE  a \in Fd /\ b \in Fd /\ a # b /\ fds[fdt[p]][a] = Free /\ fds[fdt[p]][b] = Free
<1>1. FreeFds(p) \in SUBSET Fd /\ IsFiniteSet(FreeFds(p))
  <2>1. FreeFds(p) \in SUBSET Fd
    BY DEF FreeFds
  <2>2. QED
    BY <2>1, FdFacts, FS_Subset
<1>2. FreeFds(p) # {}
  BY FS_EmptySet
<1>3. a \in FreeFds(p)
  BY <1>1, <1>2, LowestIsFree
<1>4. FreeFds(p) \ {a} # {}
  <2>1. Cardinality(FreeFds(p)) # 1
    BY <1>1, FS_CardinalityType
  <2>2. FreeFds(p) # {a}
    BY <1>1, <2>1, FS_Singleton
  <2>3. QED
    BY <1>3, <2>2
<1>5. b \in FreeFds(p) \ {a}
  BY <1>1, <1>4, LowestIsFree
<1>6. QED
  BY <1>3, <1>5 DEF FreeFds

\* Two free entries are taken.
DiffersAtTwo(F, H, T, a, b) ==
    \A U \in Table : \A m \in Fd : U # T \/ (m # a /\ m # b) => H[U][m] = F[U][m]

LEMMA TwoNewEntries ==
  ASSUME NEW F, NEW H, NEW r \in [Counter -> Nat], NEW T \in Table, NEW a \in Fd, NEW b \in Fd, a # b,
         Exact(F, r), F[T][a] = Free, F[T][b] = Free,
         DiffersAtTwo(F, H, T, a, b)
  PROVE  /\ Exact(H, Plus(Plus(r, Once(Counted(H[T][a]))), Once(Counted(H[T][b]))))
         /\ Plus(Plus(r, Once(Counted(H[T][a]))), Once(Counted(H[T][b]))) \in [Counter -> Nat]
<1> DEFINE G == [U \in Table |-> [m \in Fd |-> IF U = T /\ m = b THEN Free ELSE H[U][m]]]
           s == Plus(r, Once(Counted(G[T][a])))
<1>1. G[T][a] = H[T][a] /\ G[T][b] = Free
  OBVIOUS
<1>2. DiffersAt(F, G, T, a) /\ DiffersAt(G, H, T, b)
  BY DEF DiffersAt, DiffersAtTwo
<1> HIDE DEF G
<1>3. Exact(G, s) /\ s \in [Counter -> Nat]
  BY <1>2, NewEntry
<1> HIDE DEF s
<1>4. /\ Exact(H, Plus(s, Once(Counted(H[T][b]))))
      /\ Plus(s, Once(Counted(H[T][b]))) \in [Counter -> Nat]
  BY <1>1, <1>2, <1>3, NewEntry
<1>5. QED
  BY <1>1, <1>4 DEF s

\* Two new entries: the tables and their counters.
LEMMA TwoEntries ==
  ASSUME DescInv, NEW p \in Proc, Alive(p), UNCHANGED <<fdt, refcount, asked>>,
         NEW a \in Fd, NEW b \in Fd, a # b, fds[fdt[p]][a] = Free, fds[fdt[p]][b] = Free,
         NEW d \in Entry, NEW e \in Entry,
         fds' = [fds EXCEPT ![fdt[p]][a] = d, ![fdt[p]][b] = e]
  PROVE  /\ Exact(fds', Plus(Plus(refs, Once(Counted(d))), Once(Counted(e))))
         /\ Plus(Plus(refs, Once(Counted(d))), Once(Counted(e))) \in [Counter -> Nat]
         /\ fds' \in [Table -> [Fd -> Entry]] /\ TablesExact'
         /\ fdt[p] \in Table /\ \A U \in Table : U # fdt[p] => fds'[U] = fds[U]
<1> DEFINE T == fdt[p]
<1>1. T \in Table /\ fds \in [Table -> [Fd -> Entry]]
  BY HasTable DEF DescInv, DescTypeOK
<1>2. fds' \in [Table -> [Fd -> Entry]] /\ fds'[T][a] = d /\ fds'[T][b] = e
  BY <1>1
<1>3. DiffersIn(fds, fds', T)
  BY <1>1 DEF DiffersIn
<1>4. DiffersAtTwo(fds, fds', T, a, b)
  BY <1>1 DEF DiffersAtTwo
<1>5. TablesExact'
  BY <1>3, TablesKept, NoneLeaves DEF DescInv
<1>6. Exact(fds, refs) /\ refs \in [Counter -> Nat]
  BY DEF DescInv, DescTypeOK
<1>7. /\ Exact(fds', Plus(Plus(refs, Once(Counted(fds'[T][a]))), Once(Counted(fds'[T][b]))))
      /\ Plus(Plus(refs, Once(Counted(fds'[T][a]))), Once(Counted(fds'[T][b]))) \in [Counter -> Nat]
  <2>1. T \in Table /\ fds[T][a] = Free /\ fds[T][b] = Free
    BY <1>1
  <2> HIDE DEF T
  <2>2. QED
    BY <1>4, <1>6, <2>1, TwoNewEntries
<1>8. QED
  BY <1>1, <1>2, <1>3, <1>5, <1>7 DEF DiffersIn

LEMMA SysPipeKeeps ==
  ASSUME Careful, DescInv, AsLeft, NEW p \in Proc, NEW q \in Pipe, SysPipe(p, q)
  PROVE  DescInv' /\ AsLeft' /\ EndsStay
<1> DEFINE rfd == Lowest(FreeFds(p))
           wfd == Lowest(FreeFds(p) \ {rfd})
           d == [kind |-> "pipe_r", obj |-> q]
           e == [kind |-> "pipe_w", obj |-> q]
<1>1. /\ Owns(p) /\ Alive(p) /\ heap[q] = "unborn" /\ Cardinality(FreeFds(p)) >= 2
      /\ fds' = [fds EXCEPT ![fdt[p]][rfd] = d, ![fdt[p]][wfd] = e]
      /\ refs' = Plus(refs, Once({R(q), W(q)})) /\ heap' = [heap EXCEPT ![q] = "live"]
      /\ UNCHANGED <<fdt, refcount, asked>>
  BY DEF SysPipe, Owns, Running
<1>2. d \in Entry /\ e \in Entry /\ Counted(d) = {R(q)} /\ Counted(e) = {W(q)}
  BY DEF Entry, Counted
<1>3. /\ rfd \in Fd /\ wfd \in Fd /\ rfd # wfd
      /\ fds[fdt[p]][rfd] = Free /\ fds[fdt[p]][wfd] = Free
  BY <1>1, TwoFree
<1> HIDE DEF rfd, wfd, d, e
<1>4. /\ Exact(fds', Plus(Plus(refs, Once(Counted(d))), Once(Counted(e))))
      /\ Plus(Plus(refs, Once(Counted(d))), Once(Counted(e))) \in [Counter -> Nat]
      /\ fds' \in [Table -> [Fd -> Entry]] /\ TablesExact'
      /\ fdt[p] \in Table /\ \A U \in Table : U # fdt[p] => fds'[U] = fds[U]
  BY <1>1, <1>2, <1>3, TwoEntries
<1>5. /\ q \in AnyPipe /\ q \in Object /\ q \notin Pty /\ R(q) \in Counter /\ W(q) \in Counter /\ R(q) # W(q)
      /\ heap \in [Object -> {"unborn", "live", "freed"}] /\ refs \in [Counter -> Nat]
  BY Places DEF DescInv, DescTypeOK
<1>6. \A k \in Counter : refs'[k] = refs[k] + (IF k \in {R(q), W(q)} THEN 1 ELSE 0)
  BY <1>1, CounterTypes
<1>7. refs' = Plus(Plus(refs, Once(Counted(d))), Once(Counted(e)))
  <2>1. Plus(Plus(refs, Once({R(q)})), Once({W(q)})) = Plus(refs, Once({R(q), W(q)}))
    BY <1>5 DEF Plus, Once
  <2>2. QED
    BY <1>1, <1>2, <2>1
<1>8. Exact(fds', refs') /\ refs' \in [Counter -> Nat]
  BY <1>4, <1>7
<1>9. \A o \in Object : heap'[o] = IF o = q THEN "live" ELSE heap[o]
  BY <1>1, <1>5
<1>10. LiveWhenHeld(refs', heap')
  <2> SUFFICES ASSUME NEW o \in Object PROVE heap'[o] = "live" <=> Held(refs', o)
    BY DEF LiveWhenHeld
  <2>1. CASE o = q
    BY <1>5, <1>6, <1>9, <2>1 DEF Held
  <2>2. CASE o # q
    <3>1. heap'[o] = "live" <=> Held(refs, o)
      BY <1>9, <2>2 DEF DescInv, LiveWhenHeld
    <3>2. CASE o \in Pty
      <4>1. o \in Counter /\ o \notin {R(q), W(q)}
        BY <3>2, <1>5, Places
      <4>2. refs'[o] = refs[o]
        BY <4>1, <1>5, <1>6
      <4>3. QED
        BY <3>1, <3>2, <4>2 DEF Held
    <3>3. CASE o \notin Pty
      <4>1. /\ R(o) \in Counter /\ W(o) \in Counter
            /\ R(o) \notin {R(q), W(q)} /\ W(o) \notin {R(q), W(q)}
        BY <3>3, <2>2, <1>5, Places
      <4>2. refs'[R(o)] = refs[R(o)] /\ refs'[W(o)] = refs[W(o)]
        BY <4>1, <1>5, <1>6
      <4>3. QED
        BY <3>1, <3>3, <4>2 DEF Held
    <3>4. QED
      BY <3>2, <3>3
  <2>3. QED
    BY <2>1, <2>2
<1>11. PtyTogether'
  <2> SUFFICES ASSUME NEW y \in Pty, heap'[y] = "unborn"
               PROVE  heap'[M2S(y)] = "unborn" /\ heap'[S2M(y)] = "unborn"
    BY DEF PtyTogether
  <2>1. y \in Object /\ M2S(y) \in Object /\ S2M(y) \in Object /\ y # q /\ M2S(y) # q /\ S2M(y) # q
    BY <1>5, Places
  <2>2. QED
    BY <1>9, <2>1 DEF DescInv, PtyTogether
<1>12. EndsStay
  <2> SUFFICES ASSUME NEW k \in End, heap[k[1]] # "unborn", refs[k] = 0 PROVE refs'[k] = 0
    BY DEF EndsStay
  <2>1. k \notin {R(q), W(q)}
    BY <1>1 DEF R, W
  <2>2. k \in Counter
    BY DEF Counter
  <2>3. QED
    BY <1>5, <1>6, <2>1, <2>2
<1>13. DescTypeOK'
  BY <1>1, <1>4, <1>5, <1>8 DEF DescInv, DescTypeOK
<1>14. AsLeft'
  BY <1>1, <1>4, OwnTable DEF DescInv
<1>15. QED
  BY <1>4, <1>8, <1>10, <1>11, <1>12, <1>13, <1>14 DEF DescInv

LEMMA SysOpenptyKeeps ==
  ASSUME Careful, DescInv, AsLeft, NEW p \in Proc, NEW y \in Pty, SysOpenpty(p, y)
  PROVE  DescInv' /\ AsLeft' /\ EndsStay
<1> DEFINE mfd == Lowest(FreeFds(p))
           sfd == Lowest(FreeFds(p) \ {mfd})
           m == [kind |-> "master", obj |-> y]
           s == [kind |-> "slave", obj |-> y]
           Mine == {y, M2S(y), S2M(y)}
           Ends == {R(S2M(y)), W(M2S(y)), R(M2S(y)), W(S2M(y))}
<1>1. /\ Owns(p) /\ Alive(p) /\ heap[y] = "unborn" /\ Cardinality(FreeFds(p)) >= 2
      /\ fds' = [fds EXCEPT ![fdt[p]][mfd] = m, ![fdt[p]][sfd] = s]
      /\ refs' = Plus(Plus(refs, Once(Counted(m))), Once(Counted(s)))
      /\ heap' = [o \in Object |-> IF o \in Mine THEN "live" ELSE heap[o]]
      /\ UNCHANGED <<fdt, refcount, asked>>
  BY DEF SysOpenpty, Owns, Running
<1>2. /\ m \in Entry /\ s \in Entry
      /\ Counted(m) = {y, R(S2M(y)), W(M2S(y))} /\ Counted(s) = {y, R(M2S(y)), W(S2M(y))}
  BY DEF Entry, Counted
<1>3. /\ mfd \in Fd /\ sfd \in Fd /\ mfd # sfd
      /\ fds[fdt[p]][mfd] = Free /\ fds[fdt[p]][sfd] = Free
  BY <1>1, TwoFree
<1> HIDE DEF mfd, sfd, m, s
<1>4. /\ Exact(fds', Plus(Plus(refs, Once(Counted(m))), Once(Counted(s))))
      /\ Plus(Plus(refs, Once(Counted(m))), Once(Counted(s))) \in [Counter -> Nat]
      /\ fds' \in [Table -> [Fd -> Entry]] /\ TablesExact'
      /\ fdt[p] \in Table /\ \A U \in Table : U # fdt[p] => fds'[U] = fds[U]
  BY <1>1, <1>2, <1>3, TwoEntries
<1>5. Exact(fds', refs') /\ refs' \in [Counter -> Nat]
  BY <1>1, <1>4
<1>6. heap \in [Object -> {"unborn", "live", "freed"}] /\ refs \in [Counter -> Nat]
  BY DEF DescInv, DescTypeOK
<1>7. \A k \in Counter : refs'[k] = refs[k] + (IF k \in Counted(m) THEN 1 ELSE 0)
                                            + (IF k \in Counted(s) THEN 1 ELSE 0)
  BY <1>1, CounterTypes
<1>8. \A k \in Counter : /\ k \in {y} \union Ends => refs'[k] # 0
                         /\ k \notin {y} \union Ends => refs'[k] = refs[k]
  BY <1>2, <1>6, <1>7
<1>9. \A o \in Object : heap'[o] = IF o \in Mine THEN "live" ELSE heap[o]
  BY <1>1
<1>10. Ends \subseteq Counter /\ y \in Counter /\ Mine \subseteq Object
  BY Places
<1>11. LiveWhenHeld(refs', heap')
  <2> SUFFICES ASSUME NEW o \in Object PROVE heap'[o] = "live" <=> Held(refs', o)
    BY DEF LiveWhenHeld
  <2>1. CASE o = y
    BY <1>8, <1>9, <1>10, <2>1 DEF Held
  <2>2. CASE o = M2S(y) \/ o = S2M(y)
    <3>1. o \notin Pty /\ R(o) \in Ends
      BY <2>2, Places
    <3>2. QED
      BY <1>8, <1>9, <1>10, <2>2, <3>1 DEF Held
  <2>3. CASE o \notin Mine
    <3>1. heap'[o] = "live" <=> Held(refs, o)
      BY <1>9, <2>3 DEF DescInv, LiveWhenHeld
    <3>2. CASE o \in Pty
      <4>1. o \in Counter /\ o \notin Ends /\ o # y
        <5>1. \A k \in Ends : k \in End
          BY Places
        <5>2. QED
          BY <5>1, <2>3, <3>2, Places
      <4>2. refs'[o] = refs[o]
        BY <4>1, <1>8
      <4>3. QED
        BY <3>1, <3>2, <4>2 DEF Held
    <3>3. CASE o \notin Pty
      <4>1. R(o) \in End /\ W(o) \in End /\ R(o) \in Counter /\ W(o) \in Counter
        BY <3>3, Places
      <4>2. R(o) # y /\ W(o) # y
        BY <4>1, Places
      <4>3. R(o) \notin Ends /\ W(o) \notin Ends
        <5>1. M2S(y) \in Object /\ S2M(y) \in Object /\ o # M2S(y) /\ o # S2M(y)
          BY <1>10, <2>3
        <5>2. QED
          BY <5>1, Places
      <4>4. refs'[R(o)] = refs[R(o)] /\ refs'[W(o)] = refs[W(o)]
        BY <4>1, <4>2, <4>3, <1>8
      <4>5. QED
        BY <3>1, <3>3, <4>4 DEF Held
    <3>4. QED
      BY <3>2, <3>3
  <2>4. QED
    BY <2>1, <2>2, <2>3
<1>12. PtyTogether'
  <2> SUFFICES ASSUME NEW z \in Pty, heap'[z] = "unborn"
               PROVE  heap'[M2S(z)] = "unborn" /\ heap'[S2M(z)] = "unborn"
    BY DEF PtyTogether
  <2>1. z \in Object /\ M2S(z) \in Object /\ S2M(z) \in Object
    BY Places
  <2>2. z # y /\ heap[z] = "unborn"
    BY <1>9, <2>1
  <2>3. M2S(z) \notin Mine /\ S2M(z) \notin Mine
    BY <2>2, Places
  <2>4. QED
    BY <1>9, <2>1, <2>2, <2>3 DEF DescInv, PtyTogether
<1>13. EndsStay
  <2> SUFFICES ASSUME NEW k \in End, heap[k[1]] # "unborn", refs[k] = 0 PROVE refs'[k] = 0
    BY DEF EndsStay
  <2>1. heap[M2S(y)] = "unborn" /\ heap[S2M(y)] = "unborn"
    BY <1>1 DEF DescInv, PtyTogether
  <2>2. k \notin Ends
    BY <2>1 DEF R, W
  <2>3. k \in Counter /\ k # y
    BY Places DEF Counter
  <2>4. QED
    BY <1>8, <2>2, <2>3
<1>14. DescTypeOK'
  <2>1. heap' \in [Object -> {"unborn", "live", "freed"}]
    BY <1>1, <1>6
  <2>2. QED
    BY <1>1, <1>4, <1>5, <2>1 DEF DescInv, DescTypeOK
<1>15. AsLeft'
  BY <1>1, <1>4, OwnTable DEF DescInv
<1>16. QED
  BY <1>4, <1>5, <1>11, <1>12, <1>13, <1>14, <1>15 DEF DescInv

\* Nothing but what threads wait for changes.
LEMMA OnlyAsks ==
  ASSUME DescInv, UNCHANGED <<fdt, refcount, fds, refs, heap>>, SameLeavers
  PROVE  DescInv' /\ EndsStay
<1>1. \A T \in Table :
         {u \in Proc : fdt'[u] = T /\ asked'[u].op # "exit"} = {u \in Proc : fdt[u] = T /\ asked[u].op # "exit"}
  BY DEF SameLeavers
<1>2. TablesExact'
  BY <1>1 DEF DescInv, TablesExact
<1>3. QED
  BY <1>2, ObjectsKept DEF DescInv, DescTypeOK, SameLeavers

LEMMA OpenUserfsKeeps ==
  ASSUME Careful, DescInv, AsLeft, NEW p \in Proc, NEW c \in Chan, OpenUserfs(p, c)
  PROVE  DescInv' /\ AsLeft' /\ EndsStay
<1> DEFINE f == Lowest(FreeFds(p))
<1>1. /\ Owns(p) /\ UNCHANGED <<fdt, refcount, fds, refs, heap>> /\ Asking(p, "open", f, c) /\ FreeFds(p) # {}
  BY DEF OpenUserfs
<1>2. f \in Fd /\ fds[fdt[p]][f] = Free
  <2>1. FreeFds(p) \in SUBSET Fd
    BY DEF FreeFds
  <2>2. f \in FreeFds(p)
    BY <1>1, <2>1, LowestIsFree
  <2>3. QED
    BY <2>2 DEF FreeFds
<1> HIDE DEF f
<1>3. AsLeft' /\ SameLeavers
  <2>1. DescTypeOK /\ UNCHANGED <<fdt, refcount, fds>>
    BY <1>1 DEF DescInv
  <2>2. QED
    BY <1>1, <1>2, <2>1, BeginsToWait
<1>4. QED
  BY <1>1, <1>3, OnlyAsks

LEMMA CloseUserfsKeeps ==
  ASSUME Careful, DescInv, AsLeft, NEW p \in Proc, NEW f \in Fd, CloseUserfs(p, f)
  PROVE  DescInv' /\ AsLeft' /\ EndsStay
<1> DEFINE e == fds[fdt[p]][f]
<1>1. /\ Owns(p) /\ UNCHANGED <<fdt, refcount, fds, refs, heap>> /\ e.kind = "userfs" /\ Asking(p, "close", f, e.obj)
  BY DEF CloseUserfs
<1>2. fdt[p] \in Table /\ DescTypeOK
  BY <1>1, HasTable DEF Owns, Running, DescInv
<1>3. e \in Entry
  BY <1>2 DEF DescTypeOK
<1> HIDE DEF e
<1>4. PICK c \in Chan : e = [kind |-> "userfs", obj |-> c]
  BY <1>1, <1>3, EntryKinds DEF Free, Console, File
<1>5. e.obj = c /\ fds[fdt[p]][f] = Theirs(c)
  BY <1>4 DEF Theirs, e
<1>6. AsLeft' /\ SameLeavers
  <2>1. UNCHANGED <<fdt, refcount, fds>> /\ Asking(p, "close", f, c)
    BY <1>1, <1>5
  <2>2. QED
    BY <1>1, <1>2, <1>5, <2>1, BeginsToWait
<1>7. QED
  BY <1>1, <1>6, OnlyAsks

\* The file of a daemon that has answered takes the slot that was found for it.
LEMMA FileOpened ==
  ASSUME DescInv, NEW p \in Proc, Alive(p), NEW c \in Chan, NEW f \in Fd, fds[fdt[p]][f] = Free,
         fds' = [fds EXCEPT ![fdt[p]][f] = Theirs(c)], refs' = Plus(refs, Once({c})),
         UNCHANGED <<fdt, refcount, heap>>, SameLeavers
  PROVE  DescInv' /\ EndsStay
<1> DEFINE T == fdt[p]
           d == Theirs(c)
<1>1. /\ fds' = [fds EXCEPT ![T][f] = d] /\ refs' = Plus(refs, Once({c}))
      /\ UNCHANGED <<fdt, refcount, heap>> /\ f \in Fd /\ fds[T][f] = Free
  OBVIOUS
<1>2. T \in Table /\ fds \in [Table -> [Fd -> Entry]]
  BY HasTable DEF DescInv, DescTypeOK
<1>3. d \in Entry /\ Counted(d) = {c}
  BY DEF Entry, Counted, Theirs
<1> HIDE DEF d
<1>4. fds' \in [Table -> [Fd -> Entry]] /\ fds'[T][f] = d /\ DiffersAt(fds, fds', T, f) /\ DiffersIn(fds, fds', T)
  BY <1>1, <1>2, <1>3 DEF DiffersAt, DiffersIn
<1>5. TablesExact'
  BY <1>1, <1>4, TablesKept DEF DescInv
<1>6. Exact(fds', refs') /\ refs' \in [Counter -> Nat]
  <2>1. Exact(fds, refs) /\ refs \in [Counter -> Nat] /\ T \in Table /\ DiffersAt(fds, fds', T, f)
    BY <1>2, <1>4 DEF DescInv, DescTypeOK
  <2>2. refs' = Plus(refs, Once(Counted(fds'[T][f])))
    BY <1>1, <1>3, <1>4
  <2>3. fds[T][f] = Free
    BY <1>1
  <2> HIDE DEF T
  <2>4. PICK G, n : G = fds' /\ n = refs'
    OBVIOUS
  <2>5. DiffersAt(fds, G, T, f) /\ n = Plus(refs, Once(Counted(G[T][f])))
    BY <2>1, <2>2, <2>4
  <2>6. Exact(G, n) /\ n \in [Counter -> Nat]
    BY <2>1, <2>3, <2>5, NewEntry
  <2>7. QED
    BY <2>4, <2>6
<1>7. \A k \in Counter : k # c => refs'[k] = refs[k]
  BY <1>1, CounterTypes DEF DescInv, DescTypeOK
<1>8. c \notin Pty /\ \A k \in End : k # c
  BY Places
<1>9. \A o \in Object : Held(refs', o) <=> Held(refs, o)
  <2> SUFFICES ASSUME NEW o \in Object PROVE Held(refs', o) <=> Held(refs, o)
    OBVIOUS
  <2>1. CASE o \in Pty
    BY <1>7, <1>8, <2>1, Places DEF Held
  <2>2. CASE o \notin Pty
    <3>1. R(o) \in Counter /\ W(o) \in Counter /\ R(o) # c /\ W(o) # c
      BY <1>8, <2>2, Places
    <3>2. QED
      BY <1>7, <2>2, <3>1 DEF Held
  <2>3. QED
    BY <2>1, <2>2
<1>10. LiveWhenHeld(refs', heap') /\ PtyTogether'
  BY <1>1, <1>9 DEF DescInv, LiveWhenHeld, PtyTogether
<1>11. EndsStay
  BY <1>7, <1>8 DEF EndsStay, Counter
<1>12. DescTypeOK'
  BY <1>1, <1>4, <1>6 DEF DescInv, DescTypeOK, SameLeavers
<1>13. QED
  BY <1>5, <1>6, <1>10, <1>11, <1>12 DEF DescInv

LEMMA OpenAnsweredKeeps ==
  ASSUME DescInv, AsLeft, NEW p \in Proc, OpenAnswered(p)
  PROVE  DescInv' /\ AsLeft' /\ EndsStay
<1> DEFINE f == asked[p].fd
           c == asked[p].obj
<1>1. /\ DescTypeOK /\ asked[p] # Nothing /\ UNCHANGED <<fdt, refcount, heap>> /\ Answered(p)
      /\ asked[p].op \in {"open", "close"} /\ asked[p].op = "open"
  BY DEF OpenAnswered, DescInv, Nothing
<1>2. f \in Fd /\ c \in Chan
  BY <1>1, AskedFacts
<1>3. Alive(p) /\ fds[fdt[p]][f] = Free
  BY <1>1 DEF AsLeft, Waits
<1>4. fds' = fds \/ fds' = [fds EXCEPT ![fdt[p]][f] = Theirs(c)]
  BY DEF OpenAnswered
<1>5. \A T \in Table : T # fdt[p] => fds'[T] = fds[T]
  BY <1>1, <1>4 DEF DescTypeOK
<1>6. AsLeft' /\ SameLeavers
  BY <1>1, <1>5, StopsWaiting
<1>7. CASE UNCHANGED <<fds, refs>>
  BY <1>1, <1>6, <1>7, OnlyAsks
<1>8. CASE fds' = [fds EXCEPT ![fdt[p]][f] = Theirs(c)] /\ refs' = Plus(refs, Once({c}))
  <2> HIDE DEF f, c
  <2>1. QED
    BY <1>1, <1>2, <1>3, <1>6, <1>8, FileOpened
<1>9. QED
  BY <1>7, <1>8 DEF OpenAnswered

-----------------------------------------------------------------------------
LEMMA DescStarts == DescInit => DescInv /\ AsLeft
<1> SUFFICES ASSUME DescInit PROVE DescInv /\ AsLeft
  OBVIOUS
<1>1. Fresh \in [Fd -> Entry] /\ \A m \in Fd : Counted(Fresh[m]) = {}
  BY CountedFacts DEF Fresh, Entry
<1>2. /\ fdt = [p \in Proc |-> IF p = FirstProc THEN FirstProc ELSE None]
      /\ refcount = [T \in Table |-> IF T = FirstProc THEN 1 ELSE 0]
      /\ fds = [T \in Table |-> Fresh] /\ refs = [k \in Counter |-> 0]
      /\ heap = [o \in Object |-> "unborn"] /\ asked = [p \in Proc |-> Nothing]
  BY DEF DescInit
<1>3. DescTypeOK
  BY <1>1, <1>2, DescriptorsAssumption DEF DescTypeOK, Table, Question
<1>4. TablesExact
  <2>1. ASSUME NEW T \in Table
        PROVE  refcount[T] = Cardinality({p \in Proc : fdt[p] = T /\ asked[p].op # "exit"})
    <3>1. \A p \in Proc : asked[p].op # "exit"
      BY <1>2 DEF Nothing
    <3>2. CASE T = FirstProc
      <4>1. {p \in Proc : fdt[p] = T /\ asked[p].op # "exit"} = {FirstProc}
        BY <1>2, <3>1, <3>2, DescriptorsAssumption
      <4>2. QED
        BY <1>2, <3>2, <4>1, FS_Singleton
    <3>3. CASE T # FirstProc
      <4>1. {p \in Proc : fdt[p] = T /\ asked[p].op # "exit"} = {}
        BY <1>2, <3>3, DescriptorsAssumption DEF Table
      <4>2. QED
        BY <1>2, <3>3, <4>1, FS_EmptySet
    <3>4. QED
      BY <3>2, <3>3
  <2>2. QED
    BY <1>1, <1>2, <2>1 DEF TablesExact
<1>5. Exact(fds, refs)
  <2> SUFFICES ASSUME NEW k \in Counter PROVE refs[k] = Cardinality(Holders(fds, k))
    BY DEF Exact
  <2>1. Holders(fds, k) = {}
    BY <1>1, <1>2 DEF Holders
  <2>2. QED
    BY <1>2, <2>1, FS_EmptySet
<1>6. LiveWhenHeld(refs, heap)
  <2> SUFFICES ASSUME NEW o \in Object PROVE heap[o] = "live" <=> Held(refs, o)
    BY DEF LiveWhenHeld
  <2>1. CASE o \in Pty
    BY <1>2, <2>1, Places DEF Held
  <2>2. CASE o \notin Pty
    <3>1. R(o) \in Counter /\ W(o) \in Counter
      BY <2>2, Places
    <3>2. QED
      BY <1>2, <2>2, <3>1 DEF Held
  <2>3. QED
    BY <2>1, <2>2
<1>7. PtyTogether
  BY <1>2, Places DEF PtyTogether
<1>8. AsLeft
  BY <1>2 DEF AsLeft
<1>9. QED
  BY <1>3, <1>4, <1>5, <1>6, <1>7, <1>8 DEF DescInv

LEMMA DescKeeps ==
  ASSUME Careful, "userfs" \notin DupKind, DescInv, AsLeft, [DescNext]_descVars
  PROVE  DescInv' /\ AsLeft' /\ EndsStay
<1>1. CASE UNCHANGED descVars
  <2>1. TablesExact'
    BY <1>1 DEF descVars, DescInv, TablesExact
  <2>2. AsLeft'
    BY <1>1 DEF descVars, AsLeft, Waits, Alive
  <2>3. QED
    BY <1>1, <2>1, <2>2, ObjectsKept DEF descVars, DescInv, DescTypeOK
<1>2. ASSUME NEW p \in Proc, \E q \in Pipe : SysPipe(p, q) PROVE DescInv' /\ AsLeft' /\ EndsStay
  BY <1>2, SysPipeKeeps
<1>3. ASSUME NEW p \in Proc, \E y \in Pty : SysOpenpty(p, y) PROVE DescInv' /\ AsLeft' /\ EndsStay
  BY <1>3, SysOpenptyKeeps
<1>4. ASSUME NEW p \in Proc, \E c \in Chan : OpenUserfs(p, c) PROVE DescInv' /\ AsLeft' /\ EndsStay
  BY <1>4, OpenUserfsKeeps
<1>5. ASSUME NEW p \in Proc, \E old, new \in Fd : SysDup2(p, old, new) PROVE DescInv' /\ AsLeft' /\ EndsStay
  BY <1>5, SysDup2Keeps
<1>6. ASSUME NEW p \in Proc, \E f \in Fd : VfsClose(p, f) \/ CloseUserfs(p, f) PROVE DescInv' /\ AsLeft' /\ EndsStay
  BY <1>6, VfsCloseKeeps, CloseUserfsKeeps
<1>7. ASSUME NEW p \in Proc, NEW c \in Proc, Fork(p, c) \/ SpawnRedir(p, c) \/ Clone(p, c) \/ CloneFresh(p, c)
      PROVE DescInv' /\ AsLeft' /\ EndsStay
  BY <1>7, ForkKeeps, SpawnRedirKeeps, CloneKeeps, CloneFreshKeeps
<1>8. ASSUME NEW p \in Proc, \E c \in Proc : \E sin, sout \in Fd \union {None} : SpawnPipe(p, c, sin, sout)
      PROVE DescInv' /\ AsLeft' /\ EndsStay
  BY <1>8, SpawnPipeKeeps
<1>9. ASSUME NEW p \in Proc, Exit(p) PROVE DescInv' /\ AsLeft' /\ EndsStay
  BY <1>9, ExitKeeps
<1>10. ASSUME NEW p \in Proc, OpenAnswered(p) \/ CloseAnswered(p) \/ ExitAnswered(p)
       PROVE DescInv' /\ AsLeft' /\ EndsStay
  BY <1>10, OpenAnsweredKeeps, CloseAnsweredKeeps, ExitAnsweredKeeps
<1>11. QED
  BY <1>1, <1>2, <1>3, <1>4, <1>5, <1>6, <1>7, <1>8, <1>9, <1>10 DEF DescNext

\* pipe.h, pty.h, vfs.h: whatever is created, copied, redirected, inherited, shared and dropped in
\* whatever order, the counters are the numbers of the entries, a table has as many users as it counts, and an
\* object is there exactly as long as a living thread has a descriptor of it.
THEOREM CountsStayExact ==
  ASSUME Careful, "userfs" \notin DupKind
  PROVE  DescSpec => [](DescTypeOK /\ CountsExact)
<1>1. DescInv => DescTypeOK /\ CountsExact
  BY InvIsExact DEF DescInv
<1>2. DescInv /\ AsLeft /\ [DescNext]_descVars => DescInv' /\ AsLeft'
  BY DescKeeps
<1>3. QED
  BY DescStarts, <1>1, <1>2, PTL DEF DescSpec

\* pipe.h, "closing the last writer causes pipe_read to return 0 (EOF)": when the last descriptor of
\* a side is gone no call, not even a fork, brings the side back.
THEOREM EndsAreFinal ==
  ASSUME Careful, "userfs" \notin DupKind
  PROVE  DescSpec => EndIsFinal
<1>1. DescInv /\ AsLeft /\ [DescNext]_descVars => DescInv' /\ AsLeft'
  BY DescKeeps
<1>2. DescInv /\ AsLeft /\ [DescNext]_descVars =>
         [\A k \in End : heap[k[1]] # "unborn" /\ refs[k] = 0 => refs'[k] = 0]_descVars
  BY DescKeeps DEF EndsStay
<1>3. QED
  BY DescStarts, <1>1, <1>2, PTL DEF DescSpec, EndIsFinal

(***************************************************************************)
(* The name bus.                                                           *)
(***************************************************************************)
BlockingCalls == {"none", "accept", "connect", "read", "write"}
ListenType == [name : Name \union {Unset}, pending : Seq(SrvConn)]
CallType == [call : BlockingCalls, slot : Slot \union {Unset}, end : Endpoint \union {Unset}]

BusTypes ==
    /\ listen \in [Slot -> ListenType]
    /\ lfd \in [Service -> Slot \union {Unset}]
    /\ holds \in [Party -> SUBSET Endpoint]
    /\ life \in [SrvConn -> {"unborn", "live", "freed"}]
    /\ open \in [Endpoint -> BOOLEAN]
    /\ queue \in [Endpoint -> Seq(Nat)]
    /\ \A e \in Endpoint : Len(queue[e]) <= MaxMsgs
    /\ sent \in [Endpoint -> Nat]
    /\ op \in [Party -> CallType]
    /\ asleep \subseteq Party /\ sig \subseteq Party

\* A listener is bound by one service, and its queue goes with it.
ListenInv ==
    /\ \A s \in Service : lfd[s] # Unset => listen[lfd[s]].name # Unset
    /\ \A s, r \in Service : s # r /\ lfd[s] # Unset => lfd[s] # lfd[r]
    /\ \A i \in Slot : listen[i].name = Unset => listen[i].pending = <<>>

\* What a thread in a call has at hand; signals wake.
CallInv ==
    /\ \A t \in Party : op[t].call = "none" => op[t] = NoCall /\ t \notin asleep /\ t \notin sig
    /\ \A t \in Party : op[t].call = "accept" => t \in Service /\ lfd[t] # Unset /\ op[t].slot = lfd[t]
    /\ \A t \in Party : op[t].call = "connect" => /\ t \in Client /\ op[t].slot # Unset
                                                  /\ op[t].end # Unset /\ op[t].end[2] = "client"
    /\ \A t \in Party : op[t].call \in {"read", "write"} => op[t].end \in holds[t]
    /\ asleep \cap sig = {}

InConnect(c) == c \in Client /\ op[c].call = "connect"
Queued(c) == op[c].end[1] \in Range(listen[op[c].slot].pending)
Accepted(c) == open[<<op[c].end[1], "service">>]

\* A client in srv_connect is in the queue, accepted, or its listener is gone; in the last two
\* cases it is awake and no signal has come.
ConnectInv ==
    /\ \A c, d \in Client : InConnect(c) /\ InConnect(d) /\ c # d => op[c].end # op[d].end
    /\ \A c \in Client, t \in Party : InConnect(c) => op[c].end \notin holds[t]
    /\ \A c \in Client : InConnect(c) /\ (c \in asleep \/ c \in sig) => Queued(c)
    /\ \A c \in Client : InConnect(c) /\ Queued(c) => ~Accepted(c)
    /\ \A c \in Client : InConnect(c) /\ ~Queued(c) => Accepted(c) \/ listen[op[c].slot].name = Unset

\* Who is in a queue is there once, and its client waits for it.
QueueInv ==
    /\ \A i \in Slot : IsInjective(listen[i].pending)
    /\ \A i \in Slot : \A k \in Range(listen[i].pending) :
          \E c \in Client : InConnect(c) /\ op[c].slot = i /\ op[c].end = <<k, "client">>

\* An end is one thread's, and of its side.
HoldInv ==
    /\ \A t, u \in Party, e \in Endpoint : e \in holds[t] /\ e \in holds[u] => t = u
    /\ \A t \in Party, e \in Endpoint : e \in holds[t] => (t \in Client <=> e[2] = "client")

SrvInv ==
    BusTypes /\ ListenInv /\ CallInv /\ ConnectInv /\ QueueInv /\ HoldInv /\ WaitIsJustified /\ OpenIsHeld

-----------------------------------------------------------------------------
LEMMA AppendFacts ==
  ASSUME NEW q \in Seq(SrvConn), NEW k \in SrvConn
  PROVE  /\ Append(q, k) \in Seq(SrvConn)
         /\ Range(Append(q, k)) = Range(q) \union {k}
         /\ IsInjective(q) /\ k \notin Range(q) => IsInjective(Append(q, k))
<1>1. /\ Append(q, k) \in Seq(SrvConn) /\ Len(Append(q, k)) = Len(q) + 1
      /\ DOMAIN Append(q, k) = 1 .. Len(q) + 1 /\ DOMAIN q = 1 .. Len(q) /\ Len(q) \in Nat
      /\ Append(q, k)[Len(q) + 1] = k
      /\ \A n \in 1 .. Len(q) : Append(q, k)[n] = q[n]
  OBVIOUS
<1>2. Range(Append(q, k)) = Range(q) \union {k}
  <2>1. ASSUME NEW x \in Range(q) \union {k} PROVE x \in Range(Append(q, k))
    BY <1>1, <2>1 DEF Range
  <2>2. ASSUME NEW x \in Range(Append(q, k)) PROVE x \in Range(q) \union {k}
    BY <1>1, <2>2 DEF Range
  <2>3. QED
    BY <2>1, <2>2
<1>3. ASSUME IsInjective(q), k \notin Range(q) PROVE IsInjective(Append(q, k))
  BY <1>1, <1>3 DEF IsInjective, Range
<1>4. QED
  BY <1>1, <1>2, <1>3

LEMMA TailFacts ==
  ASSUME NEW q \in Seq(SrvConn), q # <<>>, IsInjective(q)
  PROVE  /\ Head(q) \in SrvConn /\ Tail(q) \in Seq(SrvConn) /\ Len(Tail(q)) < Len(q)
         /\ Head(q) \in Range(q)
         /\ Range(Tail(q)) = Range(q) \ {Head(q)}
         /\ IsInjective(Tail(q))
<1>1. /\ Head(q) \in SrvConn /\ Tail(q) \in Seq(SrvConn) /\ Len(Tail(q)) = Len(q) - 1
      /\ Head(q) = q[1] /\ Len(q) \in Nat /\ Len(q) # 0
      /\ DOMAIN q = 1 .. Len(q) /\ DOMAIN Tail(q) = 1 .. Len(q) - 1
      /\ \A n \in 1 .. Len(q) - 1 : Tail(q)[n] = q[n + 1]
  BY HeadTailProperties
<1>2. Head(q) \in Range(q)
  BY <1>1 DEF Range
<1>3. Range(Tail(q)) = Range(q) \ {Head(q)}
  <2>1. ASSUME NEW x \in Range(Tail(q)) PROVE x \in Range(q) \ {Head(q)}
    <3>1. PICK n \in 1 .. Len(q) - 1 : x = q[n + 1]
      BY <1>1, <2>1 DEF Range
    <3>2. QED
      BY <1>1, <3>1 DEF Range, IsInjective
  <2>2. ASSUME NEW x \in Range(q) \ {Head(q)} PROVE x \in Range(Tail(q))
    <3>1. PICK n \in 1 .. Len(q) : x = q[n]
      BY <1>1, <2>2 DEF Range
    <3>2. n - 1 \in 1 .. Len(q) - 1 /\ Tail(q)[n - 1] = x
      BY <1>1, <2>2, <3>1
    <3>3. QED
      BY <1>1, <3>2 DEF Range
  <2>3. QED
    BY <2>1, <2>2
<1>4. IsInjective(Tail(q))
  BY <1>1 DEF IsInjective
<1>5. QED
  BY <1>1, <1>2, <1>3, <1>4

LEMMA UnlinkedFacts ==
  ASSUME NEW q \in Seq(SrvConn), NEW k \in Range(q), IsInjective(q)
  PROVE  /\ Unlinked(q, k) \in Seq(SrvConn) /\ Len(Unlinked(q, k)) < Len(q)
         /\ Range(Unlinked(q, k)) = Range(q) \ {k}
         /\ IsInjective(Unlinked(q, k))
<1> DEFINE n == CHOOSE n \in DOMAIN q : q[n] = k
           w == [m \in 1 .. Len(q) - 1 |-> q[IF m < n THEN m ELSE m + 1]]
<1>1. n \in DOMAIN q /\ q[n] = k
  BY DEF Range
<1>2. DOMAIN q = 1 .. Len(q) /\ Len(q) \in Nat /\ \A m \in 1 .. Len(q) : q[m] \in SrvConn
  OBVIOUS
<1>3. Unlinked(q, k) = w
  BY DEF Unlinked
<1> HIDE DEF n
<1>4. Len(q) - 1 \in Nat /\ \A m \in 1 .. Len(q) - 1 : w[m] \in SrvConn
  BY <1>1, <1>2
<1>5. w \in Seq(SrvConn) /\ Len(w) = Len(q) - 1
  BY <1>4, IsASeq
<1>6. IsInjective(w)
  BY <1>1, <1>2 DEF IsInjective
<1>7. ASSUME NEW m \in 1 .. Len(q), m # n PROVE q[m] \in Range(w)
  <2>1. CASE m < n
    BY <1>1, <1>2, <1>7, <2>1 DEF Range
  <2>2. CASE m > n
    <3>1. m - 1 \in 1 .. Len(q) - 1 /\ w[m - 1] = q[m]
      BY <1>1, <1>2, <1>7, <2>2
    <3>2. QED
      BY <3>1 DEF Range
  <2>3. QED
    BY <1>1, <1>2, <1>7, <2>1, <2>2
<1>8. ASSUME NEW m \in 1 .. Len(q) - 1 PROVE w[m] \in Range(q) \ {k}
  BY <1>1, <1>2, <1>8 DEF Range, IsInjective
<1>9. Range(w) = Range(q) \ {k}
  <2>1. ASSUME NEW x \in Range(w) PROVE x \in Range(q) \ {k}
    BY <1>8, <2>1 DEF Range
  <2>2. ASSUME NEW x \in Range(q) \ {k} PROVE x \in Range(w)
    BY <1>1, <1>2, <1>7, <2>2 DEF Range
  <2>3. QED
    BY <2>1, <2>2
<1>10. QED
  BY <1>2, <1>3, <1>5, <1>6, <1>9

LEMMA ContainsFact ==
  ASSUME NEW q \in Seq(SrvConn), NEW k PROVE Contains(q, k) <=> k \in Range(q)
BY DEF Contains, Range

LEMMA BusStarts == SrvInit => SrvInv
<1> SUFFICES ASSUME SrvInit PROVE SrvInv
  OBVIOUS
<1> USE DEF SrvInit
<1>1. BusTypes
  <2>1. listen \in [Slot -> ListenType] /\ queue \in [Endpoint -> Seq(Nat)]
    BY DEF ListenType
  <2>2. op \in [Party -> CallType]
    BY DEF NoCall, CallType, BlockingCalls
  <2>3. \A e \in Endpoint : Len(queue[e]) <= MaxMsgs
    BY SrvAssumption
  <2>4. QED
    BY <2>1, <2>2, <2>3 DEF BusTypes
<1>2. ListenInv /\ CallInv
  BY DEF ListenInv, CallInv, NoCall
<1>3. ConnectInv /\ QueueInv /\ HoldInv
  BY DEF ConnectInv, QueueInv, HoldInv, InConnect, NoCall, Range, IsInjective, Party
<1>4. WaitIsJustified
  BY DEF WaitIsJustified
<1>5. OpenIsHeld
  BY DEF OpenIsHeld, Connecting, NoCall, Endpoint, Side, Party
<1>6. QED
  BY <1>1, <1>2, <1>3, <1>4, <1>5 DEF SrvInv

\* Ends of connections: the other end, and which is which.
LEMMA EndFacts ==
  ASSUME NEW e \in Endpoint
  PROVE  /\ e[1] \in SrvConn /\ e[2] \in Side /\ e = <<e[1], e[2]>>
         /\ <<e[1], "client">> \in Endpoint /\ <<e[1], "service">> \in Endpoint
         /\ <<e[1], OtherSide(e[2])>> \in Endpoint
         /\ e[2] = "client" => OtherSide(e[2]) = "service"
         /\ e[2] = "service" => OtherSide(e[2]) = "client"
BY DEF Endpoint, Side, OtherSide

LEMMA SameQueues ==
  ASSUME QueueInv, listen' = listen,
         \A c \in Client : InConnect(c) => InConnect(c)' /\ op'[c] = op[c]
  PROVE  QueueInv'
<1>1. \A i \in Slot : IsInjective(listen'[i].pending)
  BY DEF QueueInv
<1>2. ASSUME NEW i \in Slot, NEW k \in Range(listen'[i].pending)
      PROVE  \E c \in Client : InConnect(c)' /\ op'[c].slot = i /\ op'[c].end = <<k, "client">>
  <2>1. PICK c \in Client : InConnect(c) /\ op[c].slot = i /\ op[c].end = <<k, "client">>
    BY DEF QueueInv
  <2>2. QED
    BY <2>1
<1>3. QED
  BY <1>1, <1>2 DEF QueueInv

\* A thread in a read or write goes on, returns or blocks: what it touches is its connection, whose
\* sleepers it wakes.
LEMMA DataKeeps ==
  ASSUME SrvInv, NEW t \in Party, NEW e \in holds[t], NEW o \in CallType,
         op[t].call \in {"none", "read", "write"}, t \notin asleep,
         UNCHANGED <<listen, lfd, holds, life, open>>,
         op' = [op EXCEPT ![t] = o],
         sent' \in [Endpoint -> Nat], queue' \in [Endpoint -> Seq(Nat)],
         \A f \in Endpoint : Len(queue'[f]) <= MaxMsgs,
         \A f \in Endpoint : f[1] # e[1] => queue'[f] = queue[f],
         \/ /\ o = NoCall /\ sig' = sig \ {t}
            /\ \/ asleep' = asleep /\ queue' = queue
               \/ asleep' = asleep \ OnConn(e[1])
         \/ /\ o.call \in {"read", "write"} /\ o.end = e
            /\ o.call = "read" => queue[e] = <<>>
            /\ o.call = "write" => Len(queue[<<e[1], OtherSide(e[2])>>]) = MaxMsgs
            /\ open[<<e[1], OtherSide(e[2])>>]
            /\ queue' = queue /\ t \notin sig /\ sig' = sig /\ asleep' = asleep \union {t}
  PROVE  SrvInv'
<1>1. /\ BusTypes /\ ListenInv /\ CallInv /\ ConnectInv /\ QueueInv /\ HoldInv
      /\ WaitIsJustified /\ OpenIsHeld
  BY DEF SrvInv
<1>2. \A u \in Party : op'[u] = IF u = t THEN o ELSE op[u]
  BY <1>1 DEF BusTypes
<1>3. /\ \A u \in Party : u # t /\ u \in asleep' => u \in asleep
      /\ \A u \in Party : u # t /\ u \in sig' => u \in sig
      /\ o.call \in {"none", "read", "write"}
  BY DEF NoCall
<1>4. \A c \in Client : /\ (op[c].call = "connect" \/ op'[c].call = "connect") => op'[c] = op[c] /\ c # t
                        /\ op'[c].call = "connect" <=> op[c].call = "connect"
  BY <1>2, <1>3 DEF Party
<1>5. BusTypes'
  BY <1>1, <1>2 DEF BusTypes
<1>6. ListenInv'
  BY <1>1 DEF ListenInv
<1>7. CallInv'
  <2>1. \A u \in Party : op'[u].call = "none" => op'[u] = NoCall /\ u \notin asleep' /\ u \notin sig'
    BY <1>1, <1>2, <1>3 DEF CallInv, NoCall
  <2>2. \A u \in Party : op'[u].call \in {"accept", "connect"} => u # t /\ op'[u] = op[u]
    BY <1>2, <1>3
  <2>3. \A u \in Party : op'[u].call \in {"read", "write"} => op'[u].end \in holds[u]
    BY <1>1, <1>2 DEF CallInv, NoCall
  <2>4. asleep' \cap sig' = {}
    BY <1>1 DEF CallInv
  <2>5. QED
    BY <1>1, <2>1, <2>2, <2>3, <2>4 DEF CallInv
<1>8. ConnectInv'
  BY SMTT(40), <1>1, <1>3, <1>4 DEF ConnectInv, InConnect, Queued, Accepted, Party
<1>9. QueueInv'
  BY <1>1, <1>4, SameQueues DEF InConnect
<1>10. HoldInv'
  BY <1>1 DEF HoldInv
<1>11. WaitIsJustified'
  <2> SUFFICES ASSUME NEW u \in asleep' PROVE Justified(u)'
    BY DEF WaitIsJustified
  <2>1. CASE u = t
    BY <1>2, <2>1, <1>1 DEF Justified, CallInv, NoCall, BusTypes
  <2>2. CASE u # t
    <3>1. u \in asleep /\ u \in Party /\ op'[u] = op[u] /\ Justified(u)
      BY <1>1, <1>2, <1>3, <2>2 DEF BusTypes, WaitIsJustified
    <3>2. CASE op[u].call \in {"none", "accept", "connect"}
      BY <3>1, <3>2 DEF Justified
    <3>3. CASE op[u].call \in {"read", "write"}
      <4>1. op[u].end \in Endpoint /\ <<op[u].end[1], OtherSide(op[u].end[2])>> \in Endpoint
        BY <1>1, <3>1, <3>3, EndFacts DEF CallInv, BusTypes
      <4>2. queue' = queue \/ op[u].end[1] # e[1]
        BY <3>1, <3>3 DEF OnConn
      <4>3. queue'[op[u].end] = queue[op[u].end]
        BY <4>1, <4>2
      <4>4. /\ queue'[<<op[u].end[1], OtherSide(op[u].end[2])>>]
                 = queue[<<op[u].end[1], OtherSide(op[u].end[2])>>]
        BY <4>1, <4>2
      <4>5. QED
        BY <3>1, <3>3, <4>3, <4>4 DEF Justified
    <3>4. QED
      BY <1>1, <3>1, <3>2, <3>3 DEF BusTypes, CallType, BlockingCalls
  <2>3. QED
    BY <2>1, <2>2
<1>12. OpenIsHeld'
  <2>1. \A k \in SrvConn : Connecting(k)' <=> Connecting(k)
    BY <1>4 DEF Connecting
  <2>2. QED
    BY <1>1, <2>1 DEF OpenIsHeld
<1>13. QED
  BY <1>5, <1>6, <1>7, <1>8, <1>9, <1>10, <1>11, <1>12 DEF SrvInv

LEMMA NoCallFacts == NoCall \in CallType /\ NoCall.call = "none"
BY DEF NoCall, CallType, BlockingCalls

LEMMA ReadLoopKeeps ==
  ASSUME SrvInv, NEW t \in Party, NEW e \in holds[t], op[t].call \in {"none", "read", "write"},
         t \notin asleep, t \notin sig, ReadLoop(t, e),
         UNCHANGED <<listen, lfd, holds, life, open, sent>>
  PROVE  SrvInv'
<1>1. /\ e \in Endpoint /\ queue[e] \in Seq(Nat) /\ sent \in [Endpoint -> Nat]
      /\ queue \in [Endpoint -> Seq(Nat)] /\ \A f \in Endpoint : Len(queue[f]) <= MaxMsgs
      /\ MaxMsgs \in Nat
  BY SrvAssumption DEF SrvInv, BusTypes
<1>2. CASE queue[e] # <<>>
  <2>1. /\ queue' = [queue EXCEPT ![e] = Tail(@)] /\ asleep' = asleep \ OnConn(e[1])
        /\ op' = [op EXCEPT ![t] = NoCall] /\ sig' = sig \ {t}
    BY <1>2 DEF ReadLoop, Returns
  <2>2. Tail(queue[e]) \in Seq(Nat) /\ Len(Tail(queue[e])) <= MaxMsgs
    BY <1>1, <1>2, HeadTailProperties
  <2>3. /\ queue' \in [Endpoint -> Seq(Nat)]
        /\ \A f \in Endpoint : Len(queue'[f]) <= MaxMsgs
        /\ \A f \in Endpoint : f[1] # e[1] => queue'[f] = queue[f]
    BY <1>1, <2>1, <2>2
  <2>4. QED
    BY <1>1, <2>1, <2>3, NoCallFacts, DataKeeps
<1>3. CASE queue[e] = <<>> /\ ~open[<<e[1], OtherSide(e[2])>>]
  <2>1. /\ queue' = queue /\ asleep' = asleep
        /\ op' = [op EXCEPT ![t] = NoCall] /\ sig' = sig \ {t}
    BY <1>3 DEF ReadLoop, Returns
  <2>2. QED
    BY <1>1, <2>1, NoCallFacts, DataKeeps
<1>4. CASE queue[e] = <<>> /\ open[<<e[1], OtherSide(e[2])>>]
  <2> DEFINE o == [call |-> "read", slot |-> Unset, end |-> e]
  <2>1. /\ queue' = queue /\ asleep' = asleep \union {t}
        /\ op' = [op EXCEPT ![t] = o] /\ sig' = sig
    BY <1>4 DEF ReadLoop, Blocks
  <2>2. o \in CallType /\ o.call = "read" /\ o.end = e
    BY <1>1 DEF CallType, BlockingCalls
  <2> HIDE DEF o
  <2>3. QED
    BY <1>1, <1>4, <2>1, <2>2, DataKeeps
<1>5. QED
  BY <1>2, <1>3, <1>4

LEMMA WriteLoopKeeps ==
  ASSUME SrvInv, NEW t \in Party, NEW e \in holds[t], op[t].call \in {"none", "read", "write"},
         t \notin asleep, t \notin sig, WriteLoop(t, e),
         UNCHANGED <<listen, lfd, holds, life, open>>
  PROVE  SrvInv'
<1> DEFINE peer == <<e[1], OtherSide(e[2])>>
<1>1. /\ e \in Endpoint /\ sent \in [Endpoint -> Nat]
      /\ queue \in [Endpoint -> Seq(Nat)] /\ \A f \in Endpoint : Len(queue[f]) <= MaxMsgs
      /\ MaxMsgs \in Nat
  BY SrvAssumption DEF SrvInv, BusTypes
<1>2. peer \in Endpoint /\ peer[1] = e[1]
  BY <1>1, EndFacts
<1> HIDE DEF peer
<1>3. CASE ~open[peer]
  <2>1. /\ UNCHANGED <<queue, sent, asleep>>
        /\ op' = [op EXCEPT ![t] = NoCall] /\ sig' = sig \ {t}
    BY <1>3 DEF WriteLoop, Returns, peer
  <2>2. QED
    BY <1>1, <2>1, NoCallFacts, DataKeeps
<1>4. CASE open[peer] /\ Len(queue[peer]) < MaxMsgs
  <2>1. /\ queue' = [queue EXCEPT ![peer] = Append(@, sent[peer] + 1)]
        /\ sent' = [sent EXCEPT ![peer] = @ + 1] /\ asleep' = asleep \ OnConn(e[1])
        /\ op' = [op EXCEPT ![t] = NoCall] /\ sig' = sig \ {t}
    BY <1>4 DEF WriteLoop, Returns, peer
  <2>2. /\ Append(queue[peer], sent[peer] + 1) \in Seq(Nat)
        /\ Len(Append(queue[peer], sent[peer] + 1)) <= MaxMsgs
        /\ sent[peer] + 1 \in Nat
    BY <1>1, <1>2, <1>4
  <2>3. /\ queue' \in [Endpoint -> Seq(Nat)] /\ sent' \in [Endpoint -> Nat]
        /\ \A f \in Endpoint : Len(queue'[f]) <= MaxMsgs
        /\ \A f \in Endpoint : f[1] # e[1] => queue'[f] = queue[f]
    BY <1>1, <1>2, <2>1, <2>2
  <2>4. QED
    BY <1>1, <2>1, <2>3, NoCallFacts, DataKeeps
<1>5. CASE open[peer] /\ ~(Len(queue[peer]) < MaxMsgs)
  <2> DEFINE o == [call |-> "write", slot |-> Unset, end |-> e]
  <2>1. /\ UNCHANGED <<queue, sent>> /\ asleep' = asleep \union {t}
        /\ op' = [op EXCEPT ![t] = o] /\ sig' = sig
    BY <1>5 DEF WriteLoop, Blocks, peer
  <2>2. o \in CallType /\ o.call = "write" /\ o.end = e
    BY <1>1 DEF CallType, BlockingCalls
  <2>3. Len(queue[<<e[1], OtherSide(e[2])>>]) = MaxMsgs /\ open[<<e[1], OtherSide(e[2])>>]
    BY <1>1, <1>2, <1>5 DEF peer
  <2> HIDE DEF o
  <2>4. QED
    BY <1>1, <2>1, <2>2, <2>3, DataKeeps
<1>6. QED
  BY <1>3, <1>4, <1>5

LEMMA ReadWriteKeeps ==
  ASSUME SrvInv, NEW t \in Party,
         \/ \E e \in Endpoint : Read(t, e) \/ Write(t, e)
         \/ ReadWoken(t) \/ WriteWoken(t)
  PROVE  SrvInv'
<1>1. CASE \E e \in Endpoint : Read(t, e) \/ Write(t, e)
  <2>1. PICK e \in Endpoint : Read(t, e) \/ Write(t, e)
    BY <1>1
  <2>2. op[t] = NoCall /\ e \in holds[t]
    BY <2>1 DEF Read, Write, Begins
  <2>3. op[t].call = "none" /\ t \notin asleep /\ t \notin sig
    BY <2>2, NoCallFacts DEF SrvInv, CallInv
  <2>4. CASE Read(t, e)
    BY <2>2, <2>3, <2>4, ReadLoopKeeps DEF Read
  <2>5. CASE Write(t, e)
    BY <2>2, <2>3, <2>5, WriteLoopKeeps DEF Write
  <2>6. QED
    BY <2>1, <2>4, <2>5
<1>2. CASE ReadWoken(t) \/ WriteWoken(t)
  <2> DEFINE e == op[t].end
  <2>1. op[t].call \in {"read", "write"} /\ t \notin asleep
    BY <1>2 DEF ReadWoken, WriteWoken, Resumes
  <2>2. e \in holds[t]
    BY <2>1 DEF SrvInv, CallInv
  <2>3. CASE t \in sig
    <3>1. /\ UNCHANGED <<listen, lfd, holds, life, open, queue, sent, asleep>>
          /\ op' = [op EXCEPT ![t] = NoCall] /\ sig' = sig \ {t}
      BY <1>2, <2>3 DEF ReadWoken, WriteWoken, Returns
    <3>2. /\ sent \in [Endpoint -> Nat] /\ queue \in [Endpoint -> Seq(Nat)]
          /\ \A f \in Endpoint : Len(queue[f]) <= MaxMsgs
      BY DEF SrvInv, BusTypes
    <3> HIDE DEF e
    <3>3. QED
      BY <2>1, <2>2, <3>1, <3>2, NoCallFacts, DataKeeps
  <2>4. CASE t \notin sig /\ ReadWoken(t)
    <3>1. ReadLoop(t, e) /\ UNCHANGED <<listen, lfd, holds, life, open, sent>>
      BY <2>4 DEF ReadWoken
    <3> HIDE DEF e
    <3>2. QED
      BY <2>1, <2>2, <2>4, <3>1, ReadLoopKeeps
  <2>5. CASE t \notin sig /\ WriteWoken(t)
    <3>1. WriteLoop(t, e) /\ UNCHANGED <<listen, lfd, holds, life, open>>
      BY <2>5 DEF WriteWoken
    <3> HIDE DEF e
    <3>2. QED
      BY <2>1, <2>2, <2>5, <3>1, WriteLoopKeeps
  <2>6. QED
    BY <1>2, <2>3, <2>4, <2>5
<1>3. QED
  BY <1>1, <1>2

LEMMA InterruptKeeps ==
  ASSUME ~Hasty, SrvInv, NEW t \in Party, Interrupt(t)
  PROVE  SrvInv'
<1>1. /\ BusTypes /\ ListenInv /\ CallInv /\ ConnectInv /\ QueueInv /\ HoldInv
      /\ WaitIsJustified /\ OpenIsHeld
  BY DEF SrvInv
<1>2. /\ UNCHANGED <<listen, lfd, holds, life, open, queue, sent, op>>
      /\ sig' = sig \union {t} /\ asleep' = asleep \ {t}
  BY DEF Interrupt, conns
<1>3. op[t].call # "none"
  BY SrvAssumption DEF Interrupt
<1>4. InConnect(t) => t \in asleep
  BY DEF Interrupt, Stirring, InConnect
<1>5. BusTypes' /\ ListenInv' /\ HoldInv'
  BY <1>1, <1>2 DEF BusTypes, ListenInv, HoldInv
<1>6. CallInv'
  BY <1>1, <1>2, <1>3 DEF CallInv
<1>7. ConnectInv'
  BY <1>1, <1>2, <1>4 DEF ConnectInv, InConnect, Queued, Accepted
<1>8. QueueInv'
  BY <1>1, <1>2, SameQueues DEF InConnect
<1>9. WaitIsJustified'
  BY <1>1, <1>2 DEF WaitIsJustified, Justified
<1>10. OpenIsHeld'
  BY <1>1, <1>2 DEF OpenIsHeld, Connecting
<1>11. QED
  BY <1>5, <1>6, <1>7, <1>8, <1>9, <1>10 DEF SrvInv

LEMMA CloseConnKeeps ==
  ASSUME ~Hasty, SrvInv, NEW t \in Party, NEW e \in Endpoint, CloseConn(t, e)
  PROVE  SrvInv'
<1> DEFINE peer == <<e[1], OtherSide(e[2])>>
<1>1. /\ BusTypes /\ ListenInv /\ CallInv /\ ConnectInv /\ QueueInv /\ HoldInv
      /\ WaitIsJustified /\ OpenIsHeld
  BY DEF SrvInv
<1>2. /\ UNCHANGED <<listen, lfd, sent, op, sig>> /\ op[t] = NoCall /\ e \in holds[t]
      /\ holds' = [holds EXCEPT ![t] = @ \ {e}] /\ open' = [open EXCEPT ![e] = FALSE]
      /\ asleep' = asleep \ OnConn(e[1])
      /\ open[peer] => UNCHANGED <<life, queue>>
      /\ ~open[peer] => /\ life' = [life EXCEPT ![e[1]] = "freed"]
                        /\ queue' = [f \in Endpoint |-> IF f[1] = e[1] THEN <<>> ELSE queue[f]]
  BY DEF CloseConn, Begins
<1>3. /\ e[1] \in SrvConn /\ peer \in Endpoint /\ e = <<e[1], e[2]>>
      /\ \/ e[2] = "client" /\ peer = <<e[1], "service">> /\ e = <<e[1], "client">>
         \/ e[2] = "service" /\ peer = <<e[1], "client">> /\ e = <<e[1], "service">>
  BY EndFacts DEF Side
<1> HIDE DEF peer
\* Nobody is connecting on this connection.
<1>4. ASSUME NEW c \in Client, InConnect(c) PROVE op[c].end[1] # e[1] /\ op[c].end # e
  <2>1. c \in Party /\ op[c].end \in Endpoint /\ op[c].end[2] = "client" /\ op[c].end # e
    BY <1>1, <1>2, <1>4 DEF CallInv, ConnectInv, BusTypes, CallType, InConnect, Party
  <2>2. ASSUME op[c].end[1] = e[1] PROVE FALSE
    <3>1. e = <<e[1], "service">>
      BY <1>3, <2>1, <2>2, EndFacts
    <3>2. open[e]
      BY <1>1, <1>2, <1>3, <3>1, SrvAssumption DEF OpenIsHeld, HoldInv, Party
    <3>3. Accepted(c)
      BY <2>2, <3>1, <3>2 DEF Accepted
    <3>4. c \notin asleep
      BY <1>1, <1>4, <3>3 DEF ConnectInv
    <3>5. c \in Stirring
      BY <1>4, <3>4 DEF Stirring, InConnect
    <3>6. QED
      BY <2>2, <3>5 DEF CloseConn, Undisturbed
  <2>3. QED
    BY <2>1, <2>2
<1>5. BusTypes'
  <2>1. holds' \in [Party -> SUBSET Endpoint] /\ open' \in [Endpoint -> BOOLEAN]
    BY <1>1, <1>2 DEF BusTypes
  <2>2. /\ life' \in [SrvConn -> {"unborn", "live", "freed"}] /\ queue' \in [Endpoint -> Seq(Nat)]
        /\ \A f \in Endpoint : Len(queue'[f]) <= MaxMsgs
    <3>1. CASE open[peer]
      BY <1>1, <1>2, <3>1 DEF BusTypes
    <3>2. CASE ~open[peer]
      <4>1. <<>> \in Seq(Nat) /\ Len(<<>>) <= MaxMsgs
        BY SrvAssumption
      <4>2. life' \in [SrvConn -> {"unborn", "live", "freed"}]
        BY <1>1, <1>2, <1>3, <3>2 DEF BusTypes
      <4>3. QED
        BY <1>1, <1>2, <3>2, <4>1, <4>2 DEF BusTypes
    <3>3. QED
      BY <3>1, <3>2
  <2>3. QED
    BY <1>1, <1>2, <2>1, <2>2 DEF BusTypes
<1>6. ListenInv'
  BY <1>1, <1>2 DEF ListenInv
<1>7. \A u \in Party, f \in Endpoint : f \in holds'[u] <=> f \in holds[u] /\ f # e
  BY <1>1, <1>2 DEF BusTypes, HoldInv
<1>8. CallInv'
  <2>1. \A u \in Party : op[u].call \in {"read", "write"} => op[u].end \in holds'[u]
    BY <1>1, <1>2, NoCallFacts DEF CallInv, BusTypes
  <2>2. QED
    BY <1>1, <1>2, <2>1 DEF CallInv
<1>9. ConnectInv'
  <2>1. ASSUME NEW c \in Client, InConnect(c) PROVE Accepted(c)' <=> Accepted(c)
    <3>1. op[c].end \in Endpoint
      BY <1>1, <2>1 DEF CallInv, BusTypes, CallType, InConnect, Party
    <3>2. <<op[c].end[1], "service">> \in Endpoint
      BY <3>1, EndFacts
    <3>3. <<op[c].end[1], "service">> # e
      BY <1>3, <1>4, <2>1
    <3>4. QED
      BY <1>1, <1>2, <3>2, <3>3 DEF Accepted, BusTypes
  <2>2. \A c \in Client, u \in Party : InConnect(c) => op[c].end \notin holds'[u]
    BY <1>1, <1>2 DEF ConnectInv, BusTypes
  <2>3. QED
    BY <1>1, <1>2, <2>1, <2>2 DEF ConnectInv, InConnect, Queued
<1>10. QueueInv'
  BY <1>1, <1>2, SameQueues DEF InConnect
<1>11. HoldInv'
  BY <1>1, <1>7 DEF HoldInv
<1>12. WaitIsJustified'
  <2> SUFFICES ASSUME NEW u \in asleep' PROVE Justified(u)'
    BY DEF WaitIsJustified
  <2>1. u \in asleep /\ u \in Party /\ Justified(u) /\ op[u].call \in BlockingCalls
    BY <1>1, <1>2 DEF BusTypes, WaitIsJustified, CallType
  <2>2. CASE op[u].call \in {"none", "accept", "connect"}
    BY <1>2, <2>1, <2>2 DEF Justified
  <2>3. CASE op[u].call \in {"read", "write"}
    <3>1. op[u].end \in Endpoint /\ <<op[u].end[1], OtherSide(op[u].end[2])>> \in Endpoint
      BY <1>1, <2>1, <2>3, EndFacts DEF CallInv, BusTypes
    <3>2. op[u].end[1] # e[1]
      BY <1>2, <2>1, <2>3 DEF OnConn
    <3>3. \A f \in Endpoint : f[1] # e[1] => queue'[f] = queue[f] /\ open'[f] = open[f]
      BY <1>1, <1>2 DEF BusTypes
    <3>4. QED
      BY <1>2, <2>1, <2>3, <3>1, <3>2, <3>3 DEF Justified
  <2>4. QED
    BY <2>1, <2>2, <2>3 DEF BlockingCalls
<1>13. OpenIsHeld'
  <2> SUFFICES ASSUME NEW k \in SrvConn
               PROVE  /\ life'[k] = "live" <=> \E side \in Side : open'[<<k, side>>]
                      /\ open'[<<k, "service">>] <=> \E s \in Service : <<k, "service">> \in holds'[s]
                      /\ open'[<<k, "client">>] <=>
                            Connecting(k)' \/ \E c \in Client : <<k, "client">> \in holds'[c]
    BY DEF OpenIsHeld
  <2>1. /\ life[k] = "live" <=> open[<<k, "client">>] \/ open[<<k, "service">>]
        /\ open[<<k, "service">>] <=> \E s \in Service : <<k, "service">> \in holds[s]
        /\ open[<<k, "client">>] <=>
              Connecting(k) \/ \E c \in Client : <<k, "client">> \in holds[c]
    BY <1>1 DEF OpenIsHeld, Side
  <2>2. Connecting(k)' <=> Connecting(k)
    BY <1>2 DEF Connecting
  <2>3. <<k, "client">> = e => ~Connecting(k)
    BY <1>4 DEF Connecting, InConnect
  <2>4. \A f \in Endpoint : open'[f] <=> open[f] /\ f # e
    BY <1>1, <1>2 DEF BusTypes
  <2>5. <<k, "client">> \in Endpoint /\ <<k, "service">> \in Endpoint
    BY DEF Endpoint, Side
  <2>6. /\ open'[<<k, "service">>] <=> \E s \in Service : <<k, "service">> \in holds'[s]
        /\ open'[<<k, "client">>] <=>
              Connecting(k)' \/ \E c \in Client : <<k, "client">> \in holds'[c]
    BY <1>7, <2>1, <2>2, <2>3, <2>4, <2>5 DEF Party
  <2>7. life'[k] = "live" <=> open'[<<k, "client">>] \/ open'[<<k, "service">>]
    <3>1. CASE k # e[1]
      BY <1>1, <1>2, <1>3, <2>1, <2>4, <2>5, <3>1 DEF BusTypes
    <3>2. CASE k = e[1] /\ open[peer]
      BY <1>1, <1>2, <1>3, <2>1, <2>4, <2>5, <3>2
    <3>3. CASE k = e[1] /\ ~open[peer]
      BY <1>1, <1>2, <1>3, <2>4, <2>5, <3>3 DEF BusTypes
    <3>4. QED
      BY <3>1, <3>2, <3>3
  <2>8. QED
    BY <2>6, <2>7 DEF Side
<1>14. QED
  BY <1>5, <1>6, <1>8, <1>9, <1>10, <1>11, <1>12, <1>13 DEF SrvInv

\* Connections that are being made, and ends in somebody's hands.
LEMMA ConnectFacts ==
  ASSUME SrvInv, NEW c \in Client, InConnect(c)
  PROVE  /\ c \in Party /\ c \notin Service /\ op[c].slot \in Slot
         /\ op[c].end \in Endpoint /\ op[c].end[1] \in SrvConn
         /\ op[c].end = <<op[c].end[1], "client">> /\ <<op[c].end[1], "service">> \in Endpoint
<1>1. c \in Party /\ c \notin Service
  BY SrvAssumption DEF Party
<1>2. op[c] \in CallType /\ op[c].slot # Unset /\ op[c].end # Unset /\ op[c].end[2] = "client"
  BY <1>1 DEF SrvInv, BusTypes, CallInv, InConnect
<1>3. op[c].slot \in Slot /\ op[c].end \in Endpoint
  BY <1>2 DEF CallType
<1>4. QED
  BY <1>1, <1>2, <1>3, EndFacts

LEMMA HeldIsOpen ==
  ASSUME SrvInv, NEW t \in Party, NEW e \in Endpoint, e \in holds[t]
  PROVE  open[e]
<1>1. PICK k \in SrvConn, side \in Side : e = <<k, side>>
  BY DEF Endpoint
<1>2. t \in Client <=> side = "client"
  BY <1>1 DEF SrvInv, HoldInv
<1>3. CASE side = "client"
  <2>1. t \in Client /\ <<k, "client">> \in holds[t]
    BY <1>1, <1>2, <1>3
  <2>2. open[<<k, "client">>]
    BY <2>1 DEF SrvInv, OpenIsHeld
  <2>3. QED
    BY <1>1, <1>3, <2>2
<1>4. CASE side = "service"
  <2>1. t \in Service /\ <<k, "service">> \in holds[t]
    BY <1>1, <1>2, <1>4 DEF Party
  <2>2. open[<<k, "service">>]
    BY <2>1 DEF SrvInv, OpenIsHeld
  <2>3. QED
    BY <1>1, <1>4, <2>2
<1>5. QED
  BY <1>3, <1>4 DEF Side

\* Whoever sleeps on data has an end, and what it waits for is untouched by a step that leaves the
\* queues and its call alone and closes nothing of its connection.
LEMMA DataWaits ==
  ASSUME SrvInv, NEW u \in asleep, op[u].call \in {"read", "write"},
         queue' = queue, op'[u] = op[u],
         open'[<<op[u].end[1], OtherSide(op[u].end[2])>>] = open[<<op[u].end[1], OtherSide(op[u].end[2])>>]
  PROVE  Justified(u)'
<1>1. Justified(u)
  BY DEF SrvInv, WaitIsJustified
<1>2. QED
  BY <1>1 DEF Justified

LEMMA BindKeeps ==
  ASSUME ~Hasty, SrvInv, NEW s \in Service, NEW n \in Name, Bind(s, n)
  PROVE  SrvInv'
<1>1. /\ BusTypes /\ ListenInv /\ CallInv /\ ConnectInv /\ QueueInv /\ HoldInv
      /\ WaitIsJustified /\ OpenIsHeld /\ s \in Party /\ n # Unset
  BY SrvAssumption DEF SrvInv, Party
<1>2. PICK i \in Slot :
          /\ listen[i].name = Unset /\ Unhurried(i)
          /\ listen' = [listen EXCEPT ![i] = [name |-> n, pending |-> <<>>]]
          /\ lfd' = [lfd EXCEPT ![s] = i]
  BY DEF Bind, Bound
<1>3. UNCHANGED <<holds, life, open, queue, sent, op, asleep, sig>> /\ op[s] = NoCall /\ lfd[s] = Unset
  BY DEF Bind, Begins, conns
<1>4. i # Unset
  BY SrvAssumption DEF Slot
<1>5. /\ \A j \in Slot : listen'[j].pending = listen[j].pending
      /\ \A j \in Slot : listen'[j].name = IF j = i THEN n ELSE listen[j].name
      /\ \A r \in Service : lfd'[r] = IF r = s THEN i ELSE lfd[r]
      /\ \A r \in Service : lfd[r] # i
  BY <1>1, <1>2, <1>4 DEF BusTypes, ListenInv
<1>6. BusTypes'
  <2>1. listen' \in [Slot -> ListenType] /\ lfd' \in [Service -> Slot \union {Unset}]
    BY <1>1, <1>2 DEF BusTypes, ListenType
  <2>2. QED
    BY <1>1, <1>3, <2>1 DEF BusTypes
<1>7. ListenInv'
  <2>1. \A r \in Service : lfd'[r] # Unset => listen'[lfd'[r]].name # Unset
    BY <1>1, <1>2, <1>5 DEF ListenInv, BusTypes
  <2>2. \A r, q \in Service : r # q /\ lfd'[r] # Unset => lfd'[r] # lfd'[q]
    BY <1>1, <1>5 DEF ListenInv
  <2>3. \A j \in Slot : listen'[j].name = Unset => listen'[j].pending = <<>>
    BY <1>1, <1>5 DEF ListenInv
  <2>4. QED
    BY <2>1, <2>2, <2>3 DEF ListenInv
<1>8. CallInv'
  <2>1. \A t \in Party : op[t].call = "accept" => t \in Service /\ lfd'[t] # Unset /\ op[t].slot = lfd'[t]
    BY <1>1, <1>3, <1>5, NoCallFacts DEF CallInv
  <2>2. QED
    BY <1>1, <1>3, <2>1 DEF CallInv
<1>9. ConnectInv'
  <2>1. \A c \in Client : InConnect(c) => Queued(c)' = Queued(c)
    BY <1>3, <1>5, ConnectFacts DEF Queued
  <2>2. ASSUME NEW c \in Client, InConnect(c), ~Queued(c)
        PROVE  Accepted(c) \/ listen'[op[c].slot].name = Unset
    <3>1. c \in Stirring
      BY <1>1, <2>2 DEF ConnectInv, Stirring, InConnect
    <3>2. CASE op[c].slot = i
      BY <1>2, <3>1, <3>2 DEF Unhurried, Accepted
    <3>3. CASE op[c].slot # i
      BY <1>1, <1>5, <2>2, <3>3, ConnectFacts DEF ConnectInv
    <3>4. QED
      BY <3>2, <3>3
  <2>3. QED
    BY <1>1, <1>3, <2>1, <2>2 DEF ConnectInv, InConnect, Accepted
<1>10. QueueInv'
  BY SMTT(40), <1>1, <1>3, <1>5 DEF QueueInv, InConnect
<1>11. HoldInv' /\ OpenIsHeld'
  BY <1>1, <1>3 DEF HoldInv, OpenIsHeld, Connecting
<1>12. WaitIsJustified'
  <2> SUFFICES ASSUME NEW u \in asleep PROVE Justified(u)'
    BY <1>3 DEF WaitIsJustified
  <2>1. u \in Party /\ Justified(u) /\ op[u].call \in BlockingCalls
    BY <1>1 DEF BusTypes, WaitIsJustified, CallType
  <2>2. CASE op[u].call \in {"none", "read", "write"}
    BY <1>3, <2>1, <2>2 DEF Justified
  <2>3. CASE op[u].call = "accept"
    <3>1. op[u].slot \in Slot /\ listen[op[u].slot].name # Unset /\ listen[op[u].slot].pending = <<>>
      BY <1>1, <2>1, <2>3 DEF Justified, CallInv, BusTypes
    <3>2. QED
      BY <1>2, <1>3, <1>5, <2>3, <3>1 DEF Justified
  <2>4. CASE op[u].call = "connect"
    <3>1. op[u].slot \in Slot
      BY <1>1, <2>1, <2>4, ConnectFacts DEF CallInv, InConnect
    <3>2. QED
      BY <1>3, <1>5, <2>1, <2>4, <3>1 DEF Justified
  <2>5. QED
    BY <2>1, <2>2, <2>3, <2>4 DEF BlockingCalls
<1>13. QED
  BY <1>6, <1>7, <1>8, <1>9, <1>10, <1>11, <1>12 DEF SrvInv

LEMMA UnbindKeeps ==
  ASSUME ~Hasty, SrvInv, NEW s \in Service, Unbind(s)
  PROVE  SrvInv'
<1> DEFINE i == lfd[s]
<1>1. /\ BusTypes /\ ListenInv /\ CallInv /\ ConnectInv /\ QueueInv /\ HoldInv
      /\ WaitIsJustified /\ OpenIsHeld /\ s \in Party
  BY DEF SrvInv, Party
<1>2. /\ i \in Slot /\ Unhurried(i) /\ op[s] = NoCall
      /\ listen' = [listen EXCEPT ![i] = [name |-> Unset, pending |-> <<>>]]
      /\ lfd' = [lfd EXCEPT ![s] = Unset]
      /\ UNCHANGED <<holds, life, open, queue, sent, op, sig>>
  BY <1>1 DEF Unbind, Begins, conns, BusTypes
<1>w. PICK woken : /\ asleep' = asleep \ woken
                   /\ \A k \in Range(listen[i].pending) : OnConn(k) \subseteq woken
  <2> DEFINE G == UNION ({ OnConn(k) : k \in Range(listen[i].pending) } \union
                         IF Range(listen[i].pending) = {} THEN {} ELSE {OnListener(i)})
  <2>1. asleep' = asleep \ G
    BY DEF Unbind
  <2>2. \A k \in Range(listen[i].pending) : OnConn(k) \subseteq G
    OBVIOUS
  <2>3. QED
    BY <2>1, <2>2
<1> HIDE DEF i
<1>3. /\ \A j \in Slot : j # i => listen'[j] = listen[j]
      /\ listen'[i].name = Unset /\ listen'[i].pending = <<>> /\ Range(listen'[i].pending) = {}
      /\ \A r \in Service : lfd'[r] = IF r = s THEN Unset ELSE lfd[r]
  BY <1>1, <1>2 DEF BusTypes, Range
<1>4. \A r \in Service : r # s => lfd[r] # i
  BY <1>1, <1>2, SrvAssumption DEF ListenInv, Slot, i
<1>5. BusTypes'
  <2>1. listen' \in [Slot -> ListenType] /\ lfd' \in [Service -> Slot \union {Unset}]
    BY <1>1, <1>2 DEF BusTypes, ListenType
  <2>2. QED
    BY <1>1, <1>2, <1>w, <2>1 DEF BusTypes
<1>6. ListenInv'
  <2>1. \A r \in Service : lfd'[r] # Unset => lfd'[r] \in Slot /\ lfd'[r] = lfd[r] /\ lfd'[r] # i
    BY <1>1, <1>3, <1>4 DEF BusTypes
  <2>2. \A r \in Service : lfd'[r] # Unset => listen'[lfd'[r]].name # Unset
    BY <1>1, <1>3, <2>1 DEF ListenInv
  <2>3. \A r, q \in Service : r # q /\ lfd'[r] # Unset => lfd'[r] # lfd'[q]
    BY <1>1, <1>3 DEF ListenInv
  <2>4. \A j \in Slot : listen'[j].name = Unset => listen'[j].pending = <<>>
    BY <1>1, <1>3 DEF ListenInv
  <2>5. QED
    BY <2>2, <2>3, <2>4 DEF ListenInv
<1>7. CallInv'
  <2>1. \A t \in Party : op[t].call = "accept" => t \in Service /\ lfd'[t] # Unset /\ op[t].slot = lfd'[t]
    BY <1>1, <1>2, <1>3, NoCallFacts DEF CallInv
  <2>2. QED
    BY <1>1, <1>2, <1>w, <2>1 DEF CallInv
\* Of the clients in the queue, those that sleep are woken; the others have been accepted.
<1>8. ASSUME NEW c \in Client, InConnect(c), op[c].slot = i
      PROVE  c \notin asleep' /\ c \notin sig
  <2>1. CASE c \in asleep
    <3>1. op[c].end[1] \in Range(listen[i].pending)
      BY <1>1, <1>8, <2>1 DEF ConnectInv, Queued
    <3>2. c \in OnConn(op[c].end[1])
      BY <1>8, <2>1 DEF OnConn, InConnect
    <3>3. QED
      BY <1>1, <1>w, <2>1, <3>1, <3>2 DEF CallInv
  <2>2. CASE c \notin asleep
    <3>1. Accepted(c)
      BY <1>2, <1>8, <2>2 DEF Unhurried, Stirring, Accepted, InConnect
    <3>2. QED
      BY <1>1, <1>w, <1>8, <2>2, <3>1 DEF ConnectInv
  <2>3. QED
    BY <2>1, <2>2
<1>9. ConnectInv'
  <2>1. \A c \in Client : InConnect(c) /\ op[c].slot # i => /\ Queued(c)' = Queued(c)
                                                            /\ listen'[op[c].slot] = listen[op[c].slot]
    BY <1>2, <1>3, ConnectFacts DEF Queued
  <2>2. \A c \in Client : InConnect(c) /\ op[c].slot = i => /\ ~Queued(c)'
                                                            /\ listen'[op[c].slot].name = Unset
    BY <1>2, <1>3 DEF Queued
  <2>3. \A c \in Client : InConnect(c)' = InConnect(c) /\ Accepted(c)' = Accepted(c)
    BY <1>2 DEF InConnect, Accepted
  <2>4. QED
    BY <1>1, <1>2, <1>w, <1>8, <2>1, <2>2, <2>3 DEF ConnectInv
<1>10. QueueInv'
  <2>0. IsInjective(listen'[i].pending)
    BY <1>3 DEF IsInjective
  <2>1. ASSUME NEW j \in Slot PROVE IsInjective(listen'[j].pending)
    <3>1. CASE j = i
      BY <2>0, <3>1
    <3>2. CASE j # i
      <4>1. listen'[j] = listen[j] /\ IsInjective(listen[j].pending)
        BY <1>1, <1>3, <3>2 DEF QueueInv
      <4>2. QED
        BY <4>1
    <3>3. QED
      BY <3>1, <3>2
  <2>2. \A j \in Slot : \A k \in Range(listen'[j].pending) : j # i /\ k \in Range(listen[j].pending)
    BY <1>3
  <2>3. ASSUME NEW j \in Slot, NEW k \in Range(listen'[j].pending)
        PROVE  \E c \in Client : InConnect(c)' /\ op'[c].slot = j /\ op'[c].end = <<k, "client">>
    <3>1. PICK c \in Client : InConnect(c) /\ op[c].slot = j /\ op[c].end = <<k, "client">>
      BY <1>1, <2>2 DEF QueueInv
    <3>2. QED
      BY <1>2, <3>1 DEF InConnect
  <2>4. QED
    BY <2>1, <2>3 DEF QueueInv
<1>11. HoldInv' /\ OpenIsHeld'
  BY <1>1, <1>2 DEF HoldInv, OpenIsHeld, Connecting
<1>12. WaitIsJustified'
  <2> SUFFICES ASSUME NEW u \in asleep' PROVE Justified(u)'
    BY DEF WaitIsJustified
  <2>1. u \in asleep /\ u \in Party /\ Justified(u) /\ op[u].call \in BlockingCalls
    BY <1>1, <1>w DEF BusTypes, WaitIsJustified, CallType
  <2>2. CASE op[u].call \in {"none", "read", "write"}
    BY <1>2, <2>1, <2>2 DEF Justified
  <2>3. CASE op[u].call = "accept"
    <3>1. op[u].slot \in Slot /\ op[u].slot # i
      BY <1>1, <1>2, <1>4, <2>1, <2>3, NoCallFacts DEF CallInv, BusTypes
    <3>2. QED
      BY <1>2, <1>3, <2>1, <2>3, <3>1 DEF Justified
  <2>4. CASE op[u].call = "connect"
    <3>1. u \in Client /\ InConnect(u)
      BY <1>1, <2>1, <2>4 DEF CallInv, InConnect
    <3>2. op[u].slot \in Slot /\ op[u].slot # i
      BY <1>8, <3>1, ConnectFacts
    <3>3. QED
      BY <1>2, <1>3, <2>1, <2>4, <3>2 DEF Justified
  <2>5. QED
    BY <2>1, <2>2, <2>3, <2>4 DEF BlockingCalls
<1>13. QED
  BY <1>5, <1>6, <1>7, <1>9, <1>10, <1>11, <1>12 DEF SrvInv

\* A service in srv_accept returns or goes to sleep, with nobody in the queue.
LEMMA AcceptIdles ==
  ASSUME SrvInv, NEW s \in Service, s \notin asleep, op[s].call \in {"none", "accept"}, NEW o \in CallType,
         UNCHANGED <<listen, lfd, holds, life, open, queue, sent>>,
         op' = [op EXCEPT ![s] = o],
         \/ o = NoCall /\ sig' = sig \ {s} /\ asleep' = asleep
         \/ /\ o.call = "accept" /\ o.slot = lfd[s] /\ lfd[s] # Unset
            /\ listen[lfd[s]].pending = <<>>
            /\ s \notin sig /\ sig' = sig /\ asleep' = asleep \union {s}
  PROVE  SrvInv'
<1>1. /\ BusTypes /\ ListenInv /\ CallInv /\ ConnectInv /\ QueueInv /\ HoldInv
      /\ WaitIsJustified /\ OpenIsHeld /\ s \in Party /\ s \notin Client
  BY SrvAssumption DEF SrvInv, Party
<1>2. /\ \A u \in Party : op'[u] = IF u = s THEN o ELSE op[u]
      /\ \A c \in Client : op'[c] = op[c]
      /\ \A u \in Party : u # s => (u \in asleep' <=> u \in asleep) /\ (u \in sig' <=> u \in sig)
      /\ o.call \in {"none", "accept"}
  BY <1>1, NoCallFacts DEF BusTypes, Party
<1>3. BusTypes'
  BY <1>1 DEF BusTypes
<1>4. ListenInv' /\ HoldInv'
  BY <1>1 DEF ListenInv, HoldInv
<1>5. CallInv'
  <2>1. \A u \in Party : op'[u].call = "none" => op'[u] = NoCall /\ u \notin asleep' /\ u \notin sig'
    BY <1>1, <1>2, NoCallFacts DEF CallInv
  <2>2. \A u \in Party : op'[u].call = "accept" => u \in Service /\ lfd[u] # Unset /\ op'[u].slot = lfd[u]
    BY <1>1, <1>2, NoCallFacts DEF CallInv
  <2>3. \A u \in Party : op'[u].call \in {"connect", "read", "write"} => op'[u] = op[u]
    BY <1>2
  <2>4. asleep' \cap sig' = {}
    BY <1>1 DEF CallInv
  <2>5. QED
    BY <1>1, <2>1, <2>2, <2>3, <2>4 DEF CallInv
<1>6. ConnectInv'
  BY <1>1, <1>2 DEF ConnectInv, InConnect, Queued, Accepted, Party
<1>7. QueueInv'
  BY <1>1, <1>2, SameQueues DEF InConnect
<1>8. WaitIsJustified'
  <2> SUFFICES ASSUME NEW u \in asleep' PROVE Justified(u)'
    BY DEF WaitIsJustified
  <2>1. CASE u = s
    BY <1>1, <1>2, <2>1, NoCallFacts DEF Justified, CallInv, ListenInv
  <2>2. CASE u # s
    <3>1. u \in Party /\ u \in asleep /\ op'[u] = op[u] /\ Justified(u)
      BY <1>1, <1>2, <2>2 DEF WaitIsJustified, BusTypes
    <3>2. QED
      BY <3>1 DEF Justified
  <2>3. QED
    BY <2>1, <2>2
<1>9. OpenIsHeld'
  <2>1. \A k \in SrvConn : Connecting(k)' <=> Connecting(k)
    BY <1>2 DEF Connecting
  <2>2. QED
    BY <1>1, <2>1 DEF OpenIsHeld
<1>10. QED
  BY <1>3, <1>4, <1>5, <1>6, <1>7, <1>8, <1>9 DEF SrvInv

LEMMA PendingFacts ==
  ASSUME NEW l \in ListenType, NEW q \in Seq(SrvConn)
  PROVE  /\ [l EXCEPT !.pending = q] \in ListenType
         /\ [l EXCEPT !.pending = q].name = l.name
         /\ [l EXCEPT !.pending = q].pending = q
BY DEF ListenType

\* The client of whoever is at the head of a queue still sleeps, unless it has yet to run.
LEMMA TakeKeeps ==
  ASSUME ~Hasty, SrvInv, NEW s \in Service, s \notin asleep, op[s].call \in {"none", "accept"},
         lfd[s] # Unset, listen[lfd[s]].pending # <<>>, Take(s, lfd[s]),
         UNCHANGED <<lfd, life, queue, sent>>
  PROVE  SrvInv'
<1> DEFINE i == lfd[s]
           k == Head(listen[i].pending)
           e == <<k, "service">>
<1>1. /\ BusTypes /\ ListenInv /\ CallInv /\ ConnectInv /\ QueueInv /\ HoldInv
      /\ WaitIsJustified /\ OpenIsHeld /\ s \in Party /\ s \notin Client
  BY SrvAssumption DEF SrvInv, Party
<1>2. i \in Slot /\ listen[i].pending \in Seq(SrvConn) /\ IsInjective(listen[i].pending)
  BY <1>1 DEF BusTypes, QueueInv, ListenType
<1>3. /\ Undisturbed(k)
      /\ listen' = [listen EXCEPT ![i].pending = Tail(@)]
      /\ asleep' = asleep \ OnConn(k)
      /\ open' = [open EXCEPT ![e] = TRUE]
      /\ holds' = [holds EXCEPT ![s] = @ \union {e}]
      /\ op' = [op EXCEPT ![s] = NoCall] /\ sig' = sig \ {s}
  BY DEF Take, Returns
<1>4. /\ k \in SrvConn /\ Tail(listen[i].pending) \in Seq(SrvConn)
      /\ k \in Range(listen[i].pending)
      /\ Range(Tail(listen[i].pending)) = Range(listen[i].pending) \ {k}
      /\ IsInjective(Tail(listen[i].pending))
  BY <1>2, TailFacts
<1>5. e \in Endpoint /\ <<k, "client">> \in Endpoint /\ e[1] = k /\ e[2] = "service"
  BY <1>4 DEF Endpoint, Side
<1>6. PICK c0 \in Client : InConnect(c0) /\ op[c0].slot = i /\ op[c0].end = <<k, "client">>
  BY <1>1, <1>2, <1>4 DEF QueueInv
<1>7. /\ listen' \in [Slot -> ListenType]
      /\ \A j \in Slot : listen'[j].name = listen[j].name
      /\ \A j \in Slot : j # i => listen'[j].pending = listen[j].pending
      /\ listen'[i].pending = Tail(listen[i].pending)
  <2> DEFINE l == [listen[i] EXCEPT !.pending = Tail(listen[i].pending)]
  <2>1. listen \in [Slot -> ListenType]
    BY <1>1 DEF BusTypes
  <2>2. listen[i] \in ListenType
    BY <1>2, <2>1
  <2>3. listen' = [listen EXCEPT ![i] = l]
    BY <1>3
  <2>4. l \in ListenType /\ l.name = listen[i].name /\ l.pending = Tail(listen[i].pending)
    BY <1>4, <2>2, PendingFacts
  <2> HIDE DEF l, i
  <2>5. QED
    BY <1>2, <2>1, <2>3, <2>4
<1> HIDE DEF i, k, e
<1>8. /\ c0 \in asleep /\ c0 \notin sig /\ c0 \in OnConn(k) /\ ~Accepted(c0) /\ ~open[e]
  <2>1. c0 \in asleep
    BY <1>3, <1>6 DEF Undisturbed, Stirring, InConnect
  <2>2. Queued(c0)
    BY <1>4, <1>6 DEF Queued
  <2>3. ~Accepted(c0)
    BY <1>1, <1>6, <2>2 DEF ConnectInv
  <2>4. QED
    BY <1>1, <1>6, <2>1, <2>3 DEF Accepted, OnConn, CallInv, InConnect, e
<1>9. /\ \A t \in Party : e \notin holds[t]
      /\ \A t \in Party, f \in Endpoint : f \in holds'[t] <=> f \in holds[t] \/ (t = s /\ f = e)
  BY <1>1, <1>3, <1>5, <1>8, HeldIsOpen DEF BusTypes
<1>10. /\ \A f \in Endpoint : open'[f] <=> open[f] \/ f = e
       /\ \A f \in Endpoint : f # e => open'[f] = open[f]
  BY <1>1, <1>3, <1>5 DEF BusTypes
<1>11. /\ \A u \in Party : op'[u] = IF u = s THEN NoCall ELSE op[u]
       /\ \A c \in Client : op'[c] = op[c] /\ InConnect(c)' = InConnect(c)
  BY <1>1, <1>3 DEF BusTypes, Party, InConnect
<1>12. \A c \in Client : InConnect(c) /\ c # c0 => op[c].end # <<k, "client">> /\ op[c].end[1] # k
  BY <1>1, <1>6, ConnectFacts DEF ConnectInv
<1>13. BusTypes'
  <2>1. listen' \in [Slot -> ListenType]
    BY <1>7
  <2>2. holds' \in [Party -> SUBSET Endpoint] /\ open' \in [Endpoint -> BOOLEAN]
    BY <1>1, <1>3, <1>5 DEF BusTypes
  <2>3. op' \in [Party -> CallType]
    BY <1>1, <1>3, NoCallFacts DEF BusTypes
  <2>4. QED
    BY <1>1, <1>3, <2>1, <2>2, <2>3 DEF BusTypes
<1>14. ListenInv'
  <2>1. \A r \in Service : lfd[r] # Unset => lfd[r] \in Slot
    BY <1>1 DEF BusTypes
  <2>2. listen[i].name # Unset
    BY <1>1 DEF ListenInv, i
  <2>3. QED
    BY <1>1, <1>2, <1>7, <2>1, <2>2 DEF ListenInv, i
<1>15. CallInv'
  <2>1. \A u \in Party : op'[u].call = "none" => op'[u] = NoCall /\ u \notin asleep' /\ u \notin sig'
    BY <1>1, <1>3, <1>11 DEF CallInv
  <2>2. \A u \in Party : op'[u].call \in {"read", "write"} => op'[u].end \in holds'[u]
    <3> SUFFICES ASSUME NEW u \in Party, op'[u].call \in {"read", "write"} PROVE op'[u].end \in holds'[u]
      OBVIOUS
    <3>1. u # s /\ op'[u] = op[u]
      BY <1>11, NoCallFacts
    <3>2. op[u].end \in holds[u]
      BY <1>1, <3>1 DEF CallInv
    <3>3. QED
      BY <1>1, <1>3, <3>1, <3>2 DEF BusTypes
  <2>3. \A u \in Party : op'[u].call \in {"accept", "connect"} => u # s /\ op'[u] = op[u]
    BY <1>11, NoCallFacts
  <2>4. asleep' \cap sig' = {}
    BY <1>1, <1>3 DEF CallInv
  <2>5. QED
    BY <1>1, <1>3, <2>1, <2>2, <2>3, <2>4 DEF CallInv
<1>16. ConnectInv'
  <2>1. \A c \in Client : InConnect(c) /\ c # c0 => Queued(c)' = Queued(c) /\ Accepted(c)' = Accepted(c)
    <3> SUFFICES ASSUME NEW c \in Client, InConnect(c), c # c0
                 PROVE  Queued(c)' = Queued(c) /\ Accepted(c)' = Accepted(c)
      OBVIOUS
    <3>1. op[c].end[1] # k /\ op[c].slot \in Slot /\ <<op[c].end[1], "service">> \in Endpoint
      BY <1>12, ConnectFacts
    <3>2. Queued(c)' = Queued(c)
      BY <1>4, <1>7, <1>11, <3>1 DEF Queued
    <3>3. Accepted(c)' = Accepted(c)
      <4>1. <<op[c].end[1], "service">> # e
        BY <1>5, <3>1
      <4>2. QED
        BY <1>10, <1>11, <3>1, <4>1 DEF Accepted
    <3>4. QED
      BY <3>2, <3>3
  <2>2. ~Queued(c0)' /\ Accepted(c0)' /\ c0 \notin asleep' /\ c0 \notin sig'
    <3>1. op'[c0] = op[c0] /\ op[c0].end[1] = k
      BY <1>6, <1>11
    <3>2. ~Queued(c0)'
      BY <1>4, <1>6, <1>7, <3>1 DEF Queued
    <3>3. Accepted(c0)'
      BY <1>5, <1>10, <3>1 DEF Accepted, e
    <3>4. QED
      BY <1>3, <1>8, <3>2, <3>3
  <2>3. \A c \in Client, t \in Party : InConnect(c) => op[c].end \notin holds'[t]
    <3>1. \A c \in Client : InConnect(c) => op[c].end # e /\ op[c].end \in Endpoint
      <4>1. \A c \in Client : InConnect(c) => op[c].end[2] = "client" /\ op[c].end \in Endpoint
        BY <1>1, ConnectFacts DEF CallInv, InConnect
      <4>2. QED
        BY <1>5, <4>1
    <3>2. QED
      BY <1>1, <1>9, <3>1 DEF ConnectInv
  <2>4. \A c \in Client : InConnect(c) => listen'[op[c].slot].name = listen[op[c].slot].name
    BY <1>7, ConnectFacts
  <2>5. asleep' \subseteq asleep /\ sig' \subseteq sig
    BY <1>3
  <2>6. QED
    BY <1>1, <1>11, <2>1, <2>2, <2>3, <2>4, <2>5 DEF ConnectInv
<1>17. QueueInv'
  <2>1. \A j \in Slot : IsInjective(listen'[j].pending) /\ Range(listen'[j].pending) \subseteq Range(listen[j].pending)
    BY <1>1, <1>4, <1>7 DEF QueueInv
  <2>2. ASSUME NEW j \in Slot, NEW q \in Range(listen'[j].pending)
        PROVE  \E c \in Client : InConnect(c)' /\ op'[c].slot = j /\ op'[c].end = <<q, "client">>
    <3>1. PICK c \in Client : InConnect(c) /\ op[c].slot = j /\ op[c].end = <<q, "client">>
      BY <1>1, <2>1 DEF QueueInv
    <3>2. QED
      BY <1>11, <3>1
  <2>3. QED
    BY <2>1, <2>2 DEF QueueInv
<1>18. HoldInv'
  BY <1>1, <1>5, <1>9 DEF HoldInv
<1>19. WaitIsJustified'
  <2> SUFFICES ASSUME NEW u \in asleep' PROVE Justified(u)'
    BY DEF WaitIsJustified
  <2>1. u \in asleep /\ u \in Party /\ Justified(u) /\ op[u].call \in BlockingCalls /\ u # s /\ op'[u] = op[u]
    BY <1>1, <1>3, <1>11 DEF BusTypes, WaitIsJustified, CallType
  <2>2. CASE op[u].call = "none"
    BY <2>1, <2>2 DEF Justified
  <2>3. CASE op[u].call = "accept"
    <3>1. op[u].slot \in Slot /\ op[u].slot # i
      BY <1>1, <2>1, <2>3 DEF CallInv, BusTypes, ListenInv, i
    <3>2. QED
      BY <1>7, <2>1, <2>3, <3>1 DEF Justified
  <2>4. CASE op[u].call = "connect"
    <3>1. u \in Client /\ InConnect(u)' /\ InConnect(u)
      BY <1>1, <1>11, <2>1, <2>4 DEF CallInv, InConnect
    <3>2. Queued(u)'
      BY <1>16, <3>1 DEF ConnectInv
    <3>3. op[u].slot \in Slot /\ listen'[op[u].slot].pending \in Seq(SrvConn)
      BY <1>13, <3>1, ConnectFacts DEF BusTypes, ListenType
    <3>4. QED
      BY <2>1, <2>4, <3>2, <3>3, ContainsFact DEF Justified, Queued
  <2>5. CASE op[u].call \in {"read", "write"}
    <3>1. op[u].end \in Endpoint /\ <<op[u].end[1], OtherSide(op[u].end[2])>> \in Endpoint
      BY <1>1, <2>1, <2>5, EndFacts DEF CallInv, BusTypes
    <3>2. open[<<op[u].end[1], OtherSide(op[u].end[2])>>]
      BY <2>1, <2>5 DEF Justified
    <3>3. open'[<<op[u].end[1], OtherSide(op[u].end[2])>>] = open[<<op[u].end[1], OtherSide(op[u].end[2])>>]
      BY <1>1, <1>10, <1>13, <3>1, <3>2 DEF BusTypes
    <3>4. QED
      BY <2>1, <2>5, <3>3, DataWaits
  <2>6. QED
    BY <2>1, <2>2, <2>3, <2>4, <2>5 DEF BlockingCalls
<1>20. OpenIsHeld'
  <2> SUFFICES ASSUME NEW q \in SrvConn
               PROVE  /\ life'[q] = "live" <=> \E side \in Side : open'[<<q, side>>]
                      /\ open'[<<q, "service">>] <=> \E r \in Service : <<q, "service">> \in holds'[r]
                      /\ open'[<<q, "client">>] <=>
                            Connecting(q)' \/ \E c \in Client : <<q, "client">> \in holds'[c]
    BY DEF OpenIsHeld
  <2>1. /\ life[q] = "live" <=> open[<<q, "client">>] \/ open[<<q, "service">>]
        /\ open[<<q, "service">>] <=> \E r \in Service : <<q, "service">> \in holds[r]
        /\ open[<<q, "client">>] <=>
              Connecting(q) \/ \E c \in Client : <<q, "client">> \in holds[c]
    BY <1>1 DEF OpenIsHeld, Side
  <2>2. Connecting(q)' <=> Connecting(q)
    BY <1>11 DEF Connecting
  <2>3. <<q, "client">> \in Endpoint /\ <<q, "service">> \in Endpoint /\ <<q, "client">> # e
    BY <1>5 DEF Endpoint, Side, e
  <2>4. open'[<<q, "client">>] <=> Connecting(q)' \/ \E c \in Client : <<q, "client">> \in holds'[c]
    BY <1>9, <1>10, <2>1, <2>2, <2>3 DEF Party
  <2>5. open'[<<q, "service">>] <=> \E r \in Service : <<q, "service">> \in holds'[r]
    BY <1>9, <1>10, <2>1, <2>3 DEF Party
  <2>6. <<q, "service">> = e => Connecting(q)
    BY <1>6 DEF Connecting, InConnect, e
  <2>7. life'[q] = "live" <=> open'[<<q, "client">>] \/ open'[<<q, "service">>]
    BY <1>10, <2>1, <2>3, <2>6
  <2>8. QED
    BY <2>4, <2>5, <2>7 DEF Side
<1>21. QED
  BY <1>13, <1>14, <1>15, <1>16, <1>17, <1>18, <1>19, <1>20 DEF SrvInv

LEMMA AcceptKeeps ==
  ASSUME ~Hasty, SrvInv, NEW s \in Service, Accept(s) \/ AcceptWoken(s)
  PROVE  SrvInv'
<1>1. /\ CallInv /\ BusTypes /\ s \in Party /\ UNCHANGED <<lfd, life, queue, sent>>
  BY DEF SrvInv, Party, Accept, AcceptWoken
<1>2. op[s].call \in {"none", "accept"} /\ s \notin asleep /\ lfd[s] # Unset
  BY <1>1, NoCallFacts DEF Accept, AcceptWoken, Begins, Resumes, CallInv
<1>3. CASE s \in sig /\ AcceptWoken(s)
  <2>1. /\ op' = [op EXCEPT ![s] = NoCall] /\ sig' = sig \ {s}
        /\ UNCHANGED <<listen, holds, open, asleep>>
    BY <1>3 DEF AcceptWoken, Returns
  <2>2. QED
    BY <1>1, <1>2, <2>1, NoCallFacts, AcceptIdles
<1>4. CASE AcceptWoken(s) /\ listen[op[s].slot].name = Unset
  <2>1. /\ op' = [op EXCEPT ![s] = NoCall] /\ sig' = sig \ {s}
        /\ UNCHANGED <<listen, holds, open, asleep>>
    BY <1>4 DEF AcceptWoken, Returns
  <2>2. QED
    BY <1>1, <1>2, <2>1, NoCallFacts, AcceptIdles
<1>5. CASE s \notin sig /\ AcceptLoop(s, lfd[s])
  <2>1. CASE listen[lfd[s]].pending # <<>>
    BY <1>1, <1>2, <1>5, <2>1, TakeKeeps DEF AcceptLoop
  <2>2. CASE listen[lfd[s]].pending = <<>>
    <3> DEFINE o == [call |-> "accept", slot |-> lfd[s], end |-> Unset]
    <3>1. /\ op' = [op EXCEPT ![s] = o] /\ sig' = sig /\ asleep' = asleep \union {s}
          /\ UNCHANGED <<listen, holds, open>>
      BY <1>5, <2>2 DEF AcceptLoop, Blocks
    <3>2. o \in CallType /\ o.call = "accept" /\ o.slot = lfd[s]
      BY <1>1 DEF BusTypes, CallType, BlockingCalls
    <3> HIDE DEF o
    <3>3. QED
      BY <1>1, <1>2, <1>5, <2>2, <3>1, <3>2, AcceptIdles
  <2>3. QED
    BY <2>1, <2>2
<1>6. CASE Accept(s)
  BY <1>1, <1>5, <1>6, NoCallFacts DEF Accept, Begins, CallInv
<1>7. CASE AcceptWoken(s) /\ s \notin sig /\ listen[op[s].slot].name # Unset
  BY <1>1, <1>5, <1>7 DEF AcceptWoken, Resumes, CallInv
<1>8. QED
  BY <1>3, <1>4, <1>6, <1>7

\* A client leaves srv_connect without having been accepted: its connection is freed, and out of
\* every queue.
LEMMA AbandonKeeps ==
  ASSUME SrvInv, NEW c \in Client, InConnect(c), c \notin asleep, ~Accepted(c),
         UNCHANGED <<lfd, holds, queue, sent, asleep>>,
         open' = [open EXCEPT ![op[c].end] = FALSE],
         life' = [life EXCEPT ![op[c].end[1]] = "freed"],
         op' = [op EXCEPT ![c] = NoCall], sig' = sig \ {c},
         listen' \in [Slot -> ListenType],
         \A j \in Slot : /\ listen'[j].name = listen[j].name
                         /\ IsInjective(listen'[j].pending)
                         /\ Range(listen'[j].pending) = Range(listen[j].pending) \ {op[c].end[1]}
                         /\ listen[j].pending = <<>> => listen'[j].pending = <<>>
  PROVE  SrvInv'
<1> DEFINE e == op[c].end
           k == e[1]
<1>1. /\ BusTypes /\ ListenInv /\ CallInv /\ ConnectInv /\ QueueInv /\ HoldInv
      /\ WaitIsJustified /\ OpenIsHeld
  BY DEF SrvInv
<1>2. /\ c \in Party /\ c \notin Service /\ e \in Endpoint /\ k \in SrvConn
      /\ e = <<k, "client">> /\ <<k, "service">> \in Endpoint /\ e # <<k, "service">>
  BY ConnectFacts
<1>3. /\ ~open[<<k, "service">>] /\ \A t \in Party : e \notin holds[t]
  BY <1>1 DEF Accepted, ConnectInv
<1>4. \A d \in Client : InConnect(d) /\ d # c => op[d].end # e /\ op[d].end[1] # k
  BY <1>1, <1>2, ConnectFacts DEF ConnectInv
<1> HIDE DEF e, k
<1>5. /\ \A u \in Party : op'[u] = IF u = c THEN NoCall ELSE op[u]
      /\ \A d \in Client : InConnect(d)' <=> InConnect(d) /\ d # c
      /\ \A d \in Client : d # c => op'[d] = op[d]
      /\ \A f \in Endpoint : open'[f] <=> open[f] /\ f # e
      /\ \A f \in Endpoint : f # e => open'[f] = open[f]
  BY <1>1, <1>2, NoCallFacts DEF BusTypes, Party, InConnect, e
<1>6. BusTypes'
  <2>1. open' \in [Endpoint -> BOOLEAN] /\ life' \in [SrvConn -> {"unborn", "live", "freed"}]
    BY <1>1, <1>2 DEF BusTypes, k
  <2>2. op' \in [Party -> CallType]
    BY <1>1, NoCallFacts DEF BusTypes
  <2>3. QED
    BY <1>1, <2>1, <2>2 DEF BusTypes
<1>7. ListenInv'
  <2>1. \A r \in Service : lfd[r] # Unset => lfd[r] \in Slot
    BY <1>1 DEF BusTypes
  <2>2. QED
    BY <1>1, <2>1 DEF ListenInv
<1>8. CallInv'
  <2>1. \A u \in Party : op'[u].call = "none" => op'[u] = NoCall /\ u \notin asleep' /\ u \notin sig'
    BY <1>1, <1>5 DEF CallInv
  <2>2. \A u \in Party : op'[u].call # "none" => op'[u] = op[u]
    BY <1>5, NoCallFacts
  <2>3. asleep' \cap sig' = {}
    BY <1>1 DEF CallInv
  <2>4. QED
    BY <1>1, <2>1, <2>2, <2>3 DEF CallInv
<1>9. ASSUME NEW d \in Client, InConnect(d), d # c
      PROVE  Queued(d)' = Queued(d) /\ Accepted(d)' = Accepted(d) /\ op[d].slot \in Slot
  <2>1. op[d].end[1] # k /\ op[d].slot \in Slot /\ <<op[d].end[1], "service">> \in Endpoint
    BY <1>4, <1>9, ConnectFacts
  <2>2. Queued(d)' = Queued(d)
    <3>1. Range(listen'[op[d].slot].pending) = Range(listen[op[d].slot].pending) \ {k}
      BY <2>1 DEF k, e
    <3>2. QED
      BY <1>5, <1>9, <2>1, <3>1 DEF Queued
  <2>3. <<op[d].end[1], "service">> # e
    BY <1>2
  <2>4. Accepted(d)' = Accepted(d)
    BY <1>5, <1>9, <2>1, <2>3 DEF Accepted
  <2>5. QED
    BY <2>1, <2>2, <2>4
<1>10. ConnectInv'
  BY <1>1, <1>5, <1>9 DEF ConnectInv
<1>11. QueueInv'
  <2>1. ASSUME NEW j \in Slot, NEW q \in Range(listen'[j].pending)
        PROVE  \E d \in Client : InConnect(d)' /\ op'[d].slot = j /\ op'[d].end = <<q, "client">>
    <3>1. PICK d \in Client : InConnect(d) /\ op[d].slot = j /\ op[d].end = <<q, "client">>
      BY <1>1, <2>1 DEF QueueInv
    <3>2. q # k
      BY <2>1 DEF k, e
    <3>3. op[d].end # e
      BY <1>2, <3>1, <3>2
    <3>4. d # c
      BY <3>3 DEF e
    <3>5. QED
      BY <1>5, <3>1, <3>4
  <2>2. QED
    BY <2>1 DEF QueueInv
<1>12. HoldInv'
  BY <1>1 DEF HoldInv
<1>13. WaitIsJustified'
  <2> SUFFICES ASSUME NEW u \in asleep' PROVE Justified(u)'
    BY DEF WaitIsJustified
  <2>1. u \in asleep /\ u \in Party /\ Justified(u) /\ op[u].call \in BlockingCalls /\ u # c /\ op'[u] = op[u]
    BY <1>1, <1>5 DEF BusTypes, WaitIsJustified, CallType
  <2>2. CASE op[u].call = "none"
    BY <2>1, <2>2 DEF Justified
  <2>3. CASE op[u].call = "accept"
    <3>1. op[u].slot \in Slot
      BY <1>1, <2>1, <2>3 DEF CallInv, BusTypes
    <3>2. QED
      BY <2>1, <2>3, <3>1 DEF Justified
  <2>4. CASE op[u].call = "connect"
    <3>1. u \in Client /\ InConnect(u)' /\ InConnect(u)
      BY <1>1, <1>5, <2>1, <2>4 DEF CallInv, InConnect
    <3>2. Queued(u)'
      BY <1>10, <2>1, <3>1 DEF ConnectInv
    <3>3. op[u].slot \in Slot /\ listen'[op[u].slot].pending \in Seq(SrvConn)
      BY <3>1, ConnectFacts DEF ListenType
    <3>4. QED
      BY <2>1, <2>4, <3>2, <3>3, ContainsFact DEF Justified, Queued
  <2>5. CASE op[u].call \in {"read", "write"}
    <3>1. /\ op[u].end \in Endpoint /\ op[u].end \in holds[u] /\ op[u].end[1] \in SrvConn
          /\ <<op[u].end[1], OtherSide(op[u].end[2])>> \in Endpoint /\ op[u].end[2] \in Side
          /\ op[u].end = <<op[u].end[1], op[u].end[2]>>
      BY <1>1, <2>1, <2>5, EndFacts DEF CallInv, BusTypes
    <3>2. op[u].end # <<k, "service">> /\ op[u].end # <<k, "client">>
      BY <1>2, <1>3, <2>1, <3>1, HeldIsOpen
    <3>3. op[u].end[1] # k
      BY <3>1, <3>2 DEF Side
    <3>4. <<op[u].end[1], OtherSide(op[u].end[2])>> # e
      BY <1>2, <3>3
    <3>5. QED
      BY <1>5, <2>1, <2>5, <3>1, <3>4, DataWaits
  <2>6. QED
    BY <2>1, <2>2, <2>3, <2>4, <2>5 DEF BlockingCalls
<1>14. OpenIsHeld'
  <2> SUFFICES ASSUME NEW q \in SrvConn
               PROVE  /\ life'[q] = "live" <=> \E side \in Side : open'[<<q, side>>]
                      /\ open'[<<q, "service">>] <=> \E r \in Service : <<q, "service">> \in holds'[r]
                      /\ open'[<<q, "client">>] <=>
                            Connecting(q)' \/ \E d \in Client : <<q, "client">> \in holds'[d]
    BY DEF OpenIsHeld
  <2>1. /\ life[q] = "live" <=> open[<<q, "client">>] \/ open[<<q, "service">>]
        /\ open[<<q, "service">>] <=> \E r \in Service : <<q, "service">> \in holds[r]
        /\ open[<<q, "client">>] <=>
              Connecting(q) \/ \E d \in Client : <<q, "client">> \in holds[d]
    BY <1>1 DEF OpenIsHeld, Side
  <2>2. <<q, "client">> \in Endpoint /\ <<q, "service">> \in Endpoint /\ <<q, "service">> # e
    BY <1>2 DEF Endpoint, Side
  <2>3. q # k => (Connecting(q)' <=> Connecting(q))
    BY <1>2, <1>5 DEF Connecting, InConnect, e
  <2>4. q = k => ~Connecting(q)'
    BY <1>2, <1>4, <1>5 DEF Connecting, InConnect
  <2>5. q # k => <<q, "client">> # e
    BY <1>2
  <2>6. open'[<<q, "client">>] <=> Connecting(q)' \/ \E d \in Client : <<q, "client">> \in holds'[d]
    BY <1>2, <1>3, <1>5, <2>1, <2>2, <2>3, <2>4, <2>5 DEF Party
  <2>7. open'[<<q, "service">>] <=> \E r \in Service : <<q, "service">> \in holds'[r]
    BY <1>5, <2>1, <2>2
  <2>8. life'[q] = "live" <=> open'[<<q, "client">>] \/ open'[<<q, "service">>]
    <3>1. CASE q = k
      BY <1>1, <1>2, <1>3, <1>5, <2>2, <3>1 DEF BusTypes, k, e
    <3>2. CASE q # k
      BY <1>1, <1>5, <2>1, <2>2, <2>5, <3>2 DEF BusTypes, k, e
    <3>3. QED
      BY <3>1, <3>2
  <2>9. QED
    BY <2>6, <2>7, <2>8 DEF Side
<1>15. QED
  BY <1>6, <1>7, <1>8, <1>10, <1>11, <1>12, <1>13, <1>14 DEF SrvInv

LEMMA ConnectKeeps ==
  ASSUME SrvInv, NEW c \in Client, NEW n \in Name, Connect(c, n)
  PROVE  SrvInv'
<1>1. /\ BusTypes /\ ListenInv /\ CallInv /\ ConnectInv /\ QueueInv /\ HoldInv
      /\ WaitIsJustified /\ OpenIsHeld /\ c \in Party /\ c \notin Service
  BY SrvAssumption DEF SrvInv, Party
<1>2. PICK i \in Bound(n), k \in SrvConn :
          /\ life[k] = "unborn" /\ life' = [life EXCEPT ![k] = "live"]
          /\ open' = [open EXCEPT ![<<k, "client">>] = TRUE]
          /\ listen' = [listen EXCEPT ![i].pending = Append(@, k)]
          /\ Blocks(c, [call |-> "connect", slot |-> i, end |-> <<k, "client">>], OnListener(i))
  BY DEF Connect
<1>3. UNCHANGED <<lfd, holds, queue, sent, sig>> /\ op[c] = NoCall
  BY <1>2 DEF Connect, Begins, Blocks
<1> DEFINE e == <<k, "client">>
           o == [call |-> "connect", slot |-> i, end |-> e]
<1>4. op' = [op EXCEPT ![c] = o] /\ asleep' = (asleep \ OnListener(i)) \union {c}
  BY <1>2 DEF Blocks
<1>5. /\ i \in Slot /\ listen[i].name # Unset
      /\ listen[i].pending \in Seq(SrvConn) /\ IsInjective(listen[i].pending)
      /\ e \in Endpoint /\ <<k, "service">> \in Endpoint /\ e # <<k, "service">>
      /\ o \in CallType /\ o.call = "connect" /\ o.slot = i /\ o.end = e
      /\ e[1] = k /\ e[2] = "client"
  <2>1. i \in Slot /\ listen[i].name = n /\ n # Unset
    BY SrvAssumption DEF Bound
  <2>2. listen[i].pending \in Seq(SrvConn) /\ IsInjective(listen[i].pending)
    BY <1>1, <2>1 DEF BusTypes, QueueInv, ListenType
  <2>3. e \in Endpoint /\ <<k, "service">> \in Endpoint
    BY DEF Endpoint, Side
  <2>4. o \in CallType
    BY <2>1, <2>3 DEF CallType, BlockingCalls
  <2>5. QED
    BY <2>1, <2>2, <2>3, <2>4
<1>6. /\ ~open[e] /\ ~open[<<k, "service">>] /\ ~Connecting(k)
      /\ \A t \in Party : e \notin holds[t]
  <2>1. ~open[e] /\ ~open[<<k, "service">>] /\ ~Connecting(k)
    BY <1>1, <1>2 DEF OpenIsHeld, Side
  <2>2. QED
    BY <1>5, <2>1, HeldIsOpen
<1> HIDE DEF o, e
<1>7. ASSUME NEW d \in Client, InConnect(d)
      PROVE  d # c /\ op[d].end # e /\ op[d].end[1] # k /\ op[d].slot \in Slot
  <2>1. d # c
    BY <1>3, <1>7, NoCallFacts DEF InConnect
  <2>2. op[d].end # e
    BY <1>6, <1>7 DEF Connecting, InConnect, e
  <2>3. op[d].end[1] # k
    BY <1>6, <1>7, ConnectFacts DEF Connecting, InConnect, e
  <2>4. QED
    BY <1>7, <2>1, <2>2, <2>3, ConnectFacts
<1>8. ASSUME NEW j \in Slot PROVE k \notin Range(listen[j].pending)
  BY <1>1, <1>7 DEF QueueInv, e
<1>9. /\ listen' \in [Slot -> ListenType]
      /\ \A j \in Slot : listen'[j].name = listen[j].name
      /\ \A j \in Slot : j # i => listen'[j].pending = listen[j].pending
      /\ listen'[i].pending = Append(listen[i].pending, k)
  <2> DEFINE l == [listen[i] EXCEPT !.pending = Append(listen[i].pending, k)]
  <2>1. listen \in [Slot -> ListenType]
    BY <1>1 DEF BusTypes
  <2>2. listen[i] \in ListenType
    BY <1>5, <2>1
  <2>3. listen' = [listen EXCEPT ![i] = l]
    BY <1>2
  <2>4. Append(listen[i].pending, k) \in Seq(SrvConn)
    BY <1>5
  <2>5. l \in ListenType /\ l.name = listen[i].name /\ l.pending = Append(listen[i].pending, k)
    BY <2>2, <2>4, PendingFacts
  <2> HIDE DEF l
  <2>6. QED
    BY <1>5, <2>1, <2>3, <2>5
<1>10. /\ Range(listen'[i].pending) = Range(listen[i].pending) \union {k}
       /\ IsInjective(listen'[i].pending)
  BY <1>5, <1>8, <1>9, AppendFacts
<1>11. /\ \A u \in Party : op'[u] = IF u = c THEN o ELSE op[u]
       /\ \A d \in Client : InConnect(d)' <=> InConnect(d) \/ d = c
       /\ \A f \in Endpoint : open'[f] <=> open[f] \/ f = e
       /\ \A f \in Endpoint : f # e => open'[f] = open[f]
  BY <1>1, <1>2, <1>4, <1>5 DEF BusTypes, Party, InConnect, e
<1>12. BusTypes'
  <2>1. op' \in [Party -> CallType]
    BY <1>1, <1>4, <1>5 DEF BusTypes
  <2>2. open' \in [Endpoint -> BOOLEAN] /\ life' \in [SrvConn -> {"unborn", "live", "freed"}]
    BY <1>1, <1>2, <1>5 DEF BusTypes
  <2>3. asleep' \subseteq Party
    BY <1>1, <1>4 DEF BusTypes
  <2>4. QED
    BY <1>1, <1>3, <1>9, <2>1, <2>2, <2>3 DEF BusTypes
<1>13. ListenInv'
  <2>1. \A r \in Service : lfd[r] # Unset => lfd[r] \in Slot
    BY <1>1 DEF BusTypes
  <2>2. QED
    BY <1>1, <1>3, <1>5, <1>9, <2>1 DEF ListenInv
<1>14. CallInv'
  <2>1. c \notin sig
    BY <1>1, <1>3, NoCallFacts DEF CallInv
  <2>2. \A u \in Party : op'[u].call = "none" => op'[u] = NoCall /\ u \notin asleep' /\ u \notin sig'
    BY <1>1, <1>3, <1>4, <1>5, <1>11 DEF CallInv
  <2>3. \A u \in Party : op'[u].call \in {"accept", "read", "write"} => op'[u] = op[u]
    BY <1>5, <1>11
  <2>4. \A u \in Party : op'[u].call = "connect" => /\ u \in Client /\ op'[u].slot # Unset
                                                   /\ op'[u].end # Unset /\ op'[u].end[2] = "client"
    BY <1>1, <1>5, <1>11, SrvAssumption DEF CallInv, Slot, Endpoint, Side
  <2>5. asleep' \cap sig' = {}
    BY <1>1, <1>3, <1>4, <2>1 DEF CallInv
  <2>6. QED
    BY <1>1, <1>3, <2>2, <2>3, <2>4, <2>5 DEF CallInv
<1>15. ASSUME NEW d \in Client, InConnect(d)
       PROVE  op'[d] = op[d] /\ Queued(d)' = Queued(d) /\ Accepted(d)' = Accepted(d)
  <2>1. /\ op[d].end[1] # k /\ op[d].slot \in Slot /\ <<op[d].end[1], "service">> \in Endpoint
        /\ d # c /\ d \in Party
    BY <1>7, <1>15, ConnectFacts
  <2>2. op'[d] = op[d]
    BY <1>11, <2>1
  <2>3. Queued(d)' = Queued(d)
    <3>1. CASE op[d].slot = i
      BY <1>10, <2>1, <2>2, <3>1 DEF Queued
    <3>2. CASE op[d].slot # i
      BY <1>9, <2>1, <2>2, <3>2 DEF Queued
    <3>3. QED
      BY <3>1, <3>2
  <2>4. <<op[d].end[1], "service">> # e
    BY <1>5, <2>1
  <2>5. Accepted(d)' = Accepted(d)
    BY <1>11, <2>1, <2>2, <2>4 DEF Accepted
  <2>6. QED
    BY <2>2, <2>3, <2>5
<1>16. op'[c].end = e /\ op'[c].slot = i /\ Queued(c)' /\ ~Accepted(c)'
  <2>1. op'[c].end = e /\ op'[c].slot = i
    BY <1>1, <1>5, <1>11
  <2>2. Queued(c)'
    BY <1>5, <1>10, <2>1 DEF Queued
  <2>3. ~Accepted(c)'
    BY <1>5, <1>6, <1>11, <2>1 DEF Accepted
  <2>4. QED
    BY <2>1, <2>2, <2>3
<1>17. ConnectInv'
  <2>1. \A d, f \in Client : InConnect(d)' /\ InConnect(f)' /\ d # f => op'[d].end # op'[f].end
    BY <1>1, <1>7, <1>11, <1>15, <1>16 DEF ConnectInv
  <2>2. \A d \in Client, t \in Party : InConnect(d)' => op'[d].end \notin holds'[t]
    BY <1>1, <1>3, <1>6, <1>11, <1>15, <1>16 DEF ConnectInv
  <2>3. ASSUME NEW d \in Client, InConnect(d)'
        PROVE  /\ d \in asleep' \/ d \in sig' => Queued(d)'
               /\ Queued(d)' => ~Accepted(d)'
               /\ ~Queued(d)' => Accepted(d)' \/ listen'[op'[d].slot].name = Unset
    <3>1. CASE d = c
      BY <1>16, <3>1
    <3>2. CASE d # c
      <4>1. InConnect(d) /\ op[d].slot \in Slot
        BY <1>7, <1>11, <2>3, <3>2
      <4>2. d \in asleep' \/ d \in sig' => d \in asleep \/ d \in sig
        BY <1>3, <1>4, <3>2
      <4>3. QED
        BY <1>1, <1>9, <1>15, <4>1, <4>2 DEF ConnectInv
    <3>3. QED
      BY <3>1, <3>2
  <2>4. QED
    BY <2>1, <2>2, <2>3 DEF ConnectInv
<1>18. QueueInv'
  <2>1. \A j \in Slot : IsInjective(listen'[j].pending)
    BY <1>1, <1>9, <1>10 DEF QueueInv
  <2>2. ASSUME NEW j \in Slot, NEW q \in Range(listen'[j].pending)
        PROVE  \E d \in Client : InConnect(d)' /\ op'[d].slot = j /\ op'[d].end = <<q, "client">>
    <3>1. CASE q = k
      <4>1. j = i
        BY <1>8, <1>9, <2>2, <3>1
      <4>2. QED
        BY <1>11, <1>16, <3>1, <4>1 DEF e
    <3>2. CASE q # k
      <4>1. q \in Range(listen[j].pending)
        BY <1>9, <1>10, <2>2, <3>2
      <4>2. PICK d \in Client : InConnect(d) /\ op[d].slot = j /\ op[d].end = <<q, "client">>
        BY <1>1, <4>1 DEF QueueInv
      <4>3. QED
        BY <1>11, <1>15, <4>2
    <3>3. QED
      BY <3>1, <3>2
  <2>3. QED
    BY <2>1, <2>2 DEF QueueInv
<1>19. HoldInv'
  BY <1>1, <1>3 DEF HoldInv
<1>20. WaitIsJustified'
  <2> SUFFICES ASSUME NEW u \in asleep' PROVE Justified(u)'
    BY DEF WaitIsJustified
  <2>0. u \in Party /\ op'[u] \in CallType
    BY <1>12 DEF BusTypes
  <2>1. CASE op'[u].call = "connect"
    <3>1. u \in Client /\ InConnect(u)'
      BY <1>14, <2>0, <2>1 DEF CallInv, InConnect
    <3>2. Queued(u)'
      BY <1>17, <3>1 DEF ConnectInv
    <3>3. op'[u].slot \in Slot
      BY <1>14, <2>0, <2>1 DEF CallInv, CallType
    <3>4. listen'[op'[u].slot].pending \in Seq(SrvConn)
      BY <1>9, <3>3 DEF ListenType
    <3>5. QED
      BY <2>1, <3>2, <3>4, ContainsFact DEF Justified, Queued
  <2>2. CASE op'[u].call # "connect"
    <3>1. u # c /\ u \in asleep /\ u \notin OnListener(i) /\ op'[u] = op[u] /\ Justified(u) /\ op[u].call \in BlockingCalls
      BY <1>1, <1>4, <1>5, <1>11, <2>0, <2>2 DEF WaitIsJustified, CallType
    <3>2. CASE op[u].call = "none"
      BY <3>1, <3>2 DEF Justified
    <3>3. CASE op[u].call = "accept"
      <4>1. op[u].slot \in Slot /\ op[u].slot # i
        BY <1>1, <2>0, <3>1, <3>3 DEF CallInv, BusTypes, OnListener
      <4>2. QED
        BY <1>9, <3>1, <3>3, <4>1 DEF Justified
    <3>4. CASE op[u].call \in {"read", "write"}
      <4>1. op[u].end \in Endpoint /\ <<op[u].end[1], OtherSide(op[u].end[2])>> \in Endpoint
        BY <1>1, <2>0, <3>1, <3>4, EndFacts DEF CallInv, BusTypes
      <4>2. open[<<op[u].end[1], OtherSide(op[u].end[2])>>]
        BY <3>1, <3>4 DEF Justified
      <4>3. <<op[u].end[1], OtherSide(op[u].end[2])>> # e
        BY <1>6, <4>2
      <4>4. QED
        BY <1>3, <1>11, <3>1, <3>4, <4>1, <4>3, DataWaits
    <3>5. QED
      BY <2>2, <3>1, <3>2, <3>3, <3>4 DEF BlockingCalls
  <2>3. QED
    BY <2>1, <2>2
<1>21. OpenIsHeld'
  <2> SUFFICES ASSUME NEW q \in SrvConn
               PROVE  /\ life'[q] = "live" <=> \E side \in Side : open'[<<q, side>>]
                      /\ open'[<<q, "service">>] <=> \E r \in Service : <<q, "service">> \in holds'[r]
                      /\ open'[<<q, "client">>] <=>
                            Connecting(q)' \/ \E d \in Client : <<q, "client">> \in holds'[d]
    BY DEF OpenIsHeld
  <2>1. /\ life[q] = "live" <=> open[<<q, "client">>] \/ open[<<q, "service">>]
        /\ open[<<q, "service">>] <=> \E r \in Service : <<q, "service">> \in holds[r]
        /\ open[<<q, "client">>] <=>
              Connecting(q) \/ \E d \in Client : <<q, "client">> \in holds[d]
    BY <1>1 DEF OpenIsHeld, Side
  <2>2. <<q, "client">> \in Endpoint /\ <<q, "service">> \in Endpoint /\ <<q, "service">> # e
    BY <1>5 DEF Endpoint, Side
  <2>3. Connecting(q)' <=> Connecting(q) \/ q = k
    BY <1>11, <1>15, <1>16 DEF Connecting, InConnect, e
  <2>4. <<q, "client">> = e <=> q = k
    BY <1>5 DEF e
  <2>5. open'[<<q, "client">>] <=> Connecting(q)' \/ \E d \in Client : <<q, "client">> \in holds'[d]
    BY <1>3, <1>11, <2>1, <2>2, <2>3, <2>4
  <2>6. open'[<<q, "service">>] <=> \E r \in Service : <<q, "service">> \in holds'[r]
    BY <1>3, <1>11, <2>1, <2>2
  <2>7. life'[q] = "live" <=> open'[<<q, "client">>] \/ open'[<<q, "service">>]
    BY <1>1, <1>2, <1>11, <2>1, <2>2, <2>4 DEF BusTypes
  <2>8. QED
    BY <2>5, <2>6, <2>7 DEF Side
<1>22. QED
  BY <1>12, <1>13, <1>14, <1>17, <1>18, <1>19, <1>20, <1>21 DEF SrvInv

LEMMA ConnectWokenKeeps ==
  ASSUME ~Hasty, SrvInv, NEW c \in Client, ConnectWoken(c)
  PROVE  SrvInv'
<1> DEFINE e == op[c].end
           k == e[1]
           i == op[c].slot
<1>1. /\ BusTypes /\ ListenInv /\ CallInv /\ ConnectInv /\ QueueInv /\ HoldInv
      /\ WaitIsJustified /\ OpenIsHeld
  BY DEF SrvInv
<1>2. InConnect(c) /\ c \notin asleep /\ UNCHANGED <<lfd, queue, sent>>
  BY DEF ConnectWoken, Resumes, InConnect
<1>3. /\ c \in Party /\ c \notin Service /\ i \in Slot /\ e \in Endpoint /\ k \in SrvConn
      /\ e = <<k, "client">> /\ <<k, "service">> \in Endpoint /\ e # <<k, "service">>
  BY <1>2, ConnectFacts
<1>4. /\ listen \in [Slot -> ListenType] /\ listen[i] \in ListenType
      /\ listen[i].pending \in Seq(SrvConn) /\ IsInjective(listen[i].pending)
  BY <1>1, <1>3 DEF BusTypes, ListenType, QueueInv
\* The connection is in no other queue.
<1>5. ASSUME NEW j \in Slot, k \in Range(listen[j].pending) PROVE j = i
  <2>1. PICK d \in Client : InConnect(d) /\ op[d].slot = j /\ op[d].end = <<k, "client">>
    BY <1>1, <1>5 DEF QueueInv
  <2>2. d = c
    BY <1>1, <1>2, <1>3, <2>1 DEF ConnectInv
  <2>3. QED
    BY <2>1, <2>2
<1>6. CASE c \in sig
  <2>1. k \in Range(listen[i].pending) /\ ~Accepted(c) /\ ~open[<<k, "service">>]
    BY <1>1, <1>2, <1>6 DEF ConnectInv, Queued, Accepted
  <2>2. Contains(listen[i].pending, k)
    BY <1>4, <2>1, ContainsFact
  <2>3. /\ open' = [open EXCEPT ![<<k, "client">>] = FALSE]
        /\ listen' = [listen EXCEPT ![i].pending = Unlinked(@, k)]
        /\ life' = [life EXCEPT ![k] = "freed"]
        /\ op' = [op EXCEPT ![c] = NoCall] /\ sig' = sig \ {c}
        /\ UNCHANGED <<asleep, holds>>
    BY <1>6, <2>1, <2>2 DEF ConnectWoken, Detach, Returns
  <2> DEFINE q == Unlinked(listen[i].pending, k)
             l == [listen[i] EXCEPT !.pending = q]
  <2>4. /\ q \in Seq(SrvConn) /\ IsInjective(q)
        /\ Range(q) = Range(listen[i].pending) \ {k}
    BY <1>4, <2>1, UnlinkedFacts
  <2>5. l \in ListenType /\ l.name = listen[i].name /\ l.pending = q
    BY <1>4, <2>4, PendingFacts
  <2>6. listen' = [listen EXCEPT ![i] = l]
    BY <2>3
  <2>7. listen[i].pending # <<>>
    BY <2>1 DEF Range
  <2> HIDE DEF q, l
  <2>8. ASSUME NEW j \in Slot
        PROVE  /\ listen'[j].name = listen[j].name
               /\ IsInjective(listen'[j].pending)
               /\ Range(listen'[j].pending) = Range(listen[j].pending) \ {k}
               /\ listen[j].pending = <<>> => listen'[j].pending = <<>>
    <3>1. CASE j = i
      BY <1>3, <1>4, <2>4, <2>5, <2>6, <2>7, <3>1
    <3>2. CASE j # i
      <4>1. listen'[j] = listen[j]
        BY <1>4, <2>6, <3>2
      <4>2. k \notin Range(listen[j].pending)
        BY <1>5, <3>2
      <4>3. IsInjective(listen[j].pending)
        BY <1>1 DEF QueueInv
      <4>4. QED
        BY <4>1, <4>2, <4>3
    <3>3. QED
      BY <3>1, <3>2
  <2>9. listen' \in [Slot -> ListenType]
    BY <1>3, <1>4, <2>5, <2>6
  <2>10. open' = [open EXCEPT ![e] = FALSE]
    BY <1>3, <2>3
  <2> HIDE DEF e, k, i
  <2>11. QED
    BY <1>2, <2>1, <2>3, <2>8, <2>9, <2>10, AbandonKeeps DEF e, k
<1>7. CASE c \notin sig /\ ~open[<<k, "service">>] /\ listen[i].name = Unset
  <2>1. /\ open' = [open EXCEPT ![<<k, "client">>] = FALSE]
        /\ life' = [life EXCEPT ![k] = "freed"]
        /\ op' = [op EXCEPT ![c] = NoCall] /\ sig' = sig \ {c}
        /\ UNCHANGED <<listen, asleep, holds>>
    BY <1>7 DEF ConnectWoken, Returns
  <2>2. listen[i].pending = <<>>
    BY <1>1, <1>3, <1>7 DEF ListenInv
  <2>3. k \notin Range(listen[i].pending)
    BY <2>2 DEF Range
  <2>4. ASSUME NEW j \in Slot
        PROVE  /\ listen'[j].name = listen[j].name
               /\ IsInjective(listen'[j].pending)
               /\ Range(listen'[j].pending) = Range(listen[j].pending) \ {k}
               /\ listen[j].pending = <<>> => listen'[j].pending = <<>>
    <3>1. k \notin Range(listen[j].pending)
      BY <1>5, <2>3
    <3>2. IsInjective(listen[j].pending)
      BY <1>1 DEF QueueInv
    <3>3. QED
      BY <2>1, <3>1, <3>2
  <2>5. open' = [open EXCEPT ![e] = FALSE] /\ listen' \in [Slot -> ListenType] /\ ~Accepted(c)
    BY <1>3, <1>4, <1>7, <2>1 DEF Accepted
  <2> HIDE DEF e, k, i
  <2>6. QED
    BY <1>2, <2>1, <2>4, <2>5, AbandonKeeps DEF e, k
<1>8. CASE c \notin sig /\ ~open[<<k, "service">>] /\ listen[i].name # Unset
  <2>1. /\ op' = [op EXCEPT ![c] = op[c]] /\ asleep' = asleep \union {c}
        /\ UNCHANGED <<listen, lfd, holds, life, open, queue, sent, sig>>
    BY <1>2, <1>8 DEF ConnectWoken, Blocks
  <2>2. op' = op
    BY <1>1, <2>1 DEF BusTypes
  <2>3. Queued(c)
    BY <1>1, <1>2, <1>8 DEF ConnectInv, Accepted
  <2>4. BusTypes' /\ ListenInv' /\ HoldInv'
    BY <1>1, <1>3, <2>1, <2>2 DEF BusTypes, ListenInv, HoldInv
  <2>5. CallInv'
    BY <1>1, <1>2, <1>8, <2>1, <2>2 DEF CallInv, InConnect
  <2>6. ConnectInv'
    BY <1>1, <1>2, <2>1, <2>2, <2>3 DEF ConnectInv, InConnect, Queued, Accepted
  <2>7. QueueInv'
    BY <1>1, <2>1, <2>2, SameQueues DEF InConnect
  <2>8. Justified(c)'
    <3>1. Contains(listen[i].pending, k)
      BY <1>4, <2>3, ContainsFact DEF Queued
    <3>2. QED
      BY <1>2, <2>1, <2>2, <3>1 DEF Justified, InConnect
  <2>9. WaitIsJustified'
    BY <1>1, <2>1, <2>2, <2>8 DEF WaitIsJustified, Justified
  <2>10. OpenIsHeld'
    <3>1. \A q \in SrvConn : Connecting(q)' <=> Connecting(q)
      BY <2>2 DEF Connecting
    <3>2. QED
      BY <1>1, <2>1, <3>1 DEF OpenIsHeld
  <2>11. QED
    BY <2>4, <2>5, <2>6, <2>7, <2>9, <2>10 DEF SrvInv
\* Accepted: the end is the client's.
<1>9. CASE c \notin sig /\ open[<<k, "service">>]
  <2>1. /\ holds' = [holds EXCEPT ![c] = @ \union {<<k, "client">>}]
        /\ op' = [op EXCEPT ![c] = NoCall] /\ sig' = sig \ {c}
        /\ UNCHANGED <<listen, lfd, life, open, queue, sent, asleep>>
    BY <1>2, <1>9 DEF ConnectWoken, Returns
  <2>2. /\ \A t \in Party : e \notin holds[t]
        /\ ~Queued(c) /\ k \notin Range(listen[i].pending)
    BY <1>1, <1>2, <1>9 DEF ConnectInv, Accepted, Queued
  <2>3. /\ \A t \in Party, f \in Endpoint : f \in holds'[t] <=> f \in holds[t] \/ (t = c /\ f = e)
        /\ \A u \in Party : op'[u] = IF u = c THEN NoCall ELSE op[u]
        /\ \A d \in Client : InConnect(d)' <=> InConnect(d) /\ d # c
        /\ \A d \in Client : d # c => op'[d] = op[d]
    BY <1>1, <1>3, <2>1, NoCallFacts DEF BusTypes, Party, InConnect
  <2>4. \A d \in Client : InConnect(d) /\ d # c => op[d].end # e /\ op[d].end \in Endpoint
    BY <1>1, <1>2, ConnectFacts DEF ConnectInv
  <2>5. e[2] = "client" /\ \A j \in Slot : k \notin Range(listen[j].pending)
    <3>1. e[2] = "client"
      BY <1>1, <1>2, <1>3 DEF CallInv, InConnect
    <3>2. QED
      BY <1>5, <2>2, <3>1
  <2>6. BusTypes'
    <3>1. holds' \in [Party -> SUBSET Endpoint] /\ op' \in [Party -> CallType]
      BY <1>1, <1>3, <2>1, NoCallFacts DEF BusTypes
    <3>2. QED
      BY <1>1, <2>1, <3>1 DEF BusTypes
  <2> HIDE DEF e, k, i
  <2>7. ListenInv'
    BY <1>1, <2>1 DEF ListenInv
  <2>8. CallInv'
    <3>1. \A u \in Party : op'[u].call = "none" => op'[u] = NoCall /\ u \notin asleep' /\ u \notin sig'
      BY <1>1, <1>2, <2>1, <2>3 DEF CallInv
    <3>2. \A u \in Party : op'[u].call # "none" => op'[u] = op[u] /\ u # c
      BY <2>3, NoCallFacts
    <3>3. \A u \in Party : u # c => holds'[u] = holds[u]
      BY <1>1, <2>1 DEF BusTypes
    <3>4. asleep' \cap sig' = {}
      BY <1>1, <2>1 DEF CallInv
    <3>5. QED
      BY <1>1, <2>1, <3>1, <3>2, <3>3, <3>4 DEF CallInv
  <2>9. ConnectInv'
    BY <1>1, <2>1, <2>3, <2>4 DEF ConnectInv, Queued, Accepted
  <2>10. QueueInv'
    <3>1. ASSUME NEW j \in Slot, NEW q \in Range(listen[j].pending)
          PROVE  \E d \in Client : InConnect(d)' /\ op'[d].slot = j /\ op'[d].end = <<q, "client">>
      <4>1. PICK d \in Client : InConnect(d) /\ op[d].slot = j /\ op[d].end = <<q, "client">>
        BY <1>1 DEF QueueInv
      <4>2. q # k
        BY <2>5
      <4>3. op[d].end # e
        BY <1>3, <4>1, <4>2
      <4>4. d # c
        BY <4>3 DEF e
      <4>5. QED
        BY <2>3, <4>1, <4>4
    <3>2. \A j \in Slot : IsInjective(listen'[j].pending)
      BY <1>1, <2>1 DEF QueueInv
    <3>3. QED
      BY <2>1, <3>1, <3>2 DEF QueueInv
  <2>11. HoldInv'
    BY <1>1, <2>2, <2>3, <2>5 DEF HoldInv
  <2>12. WaitIsJustified'
    <3>1. \A u \in asleep : op'[u] = op[u]
      BY <1>1, <1>2, <2>3 DEF BusTypes
    <3>2. QED
      BY <1>1, <2>1, <3>1 DEF WaitIsJustified, Justified
  <2>13. OpenIsHeld'
    <3> SUFFICES ASSUME NEW q \in SrvConn
                 PROVE  /\ life[q] = "live" <=> \E side \in Side : open[<<q, side>>]
                        /\ open[<<q, "service">>] <=> \E r \in Service : <<q, "service">> \in holds'[r]
                        /\ open[<<q, "client">>] <=>
                              Connecting(q)' \/ \E d \in Client : <<q, "client">> \in holds'[d]
      BY <2>1 DEF OpenIsHeld
    <3>1. /\ life[q] = "live" <=> \E side \in Side : open[<<q, side>>]
          /\ open[<<q, "service">>] <=> \E r \in Service : <<q, "service">> \in holds[r]
          /\ open[<<q, "client">>] <=>
                Connecting(q) \/ \E d \in Client : <<q, "client">> \in holds[d]
      BY <1>1 DEF OpenIsHeld
    <3>2. <<q, "client">> \in Endpoint /\ <<q, "service">> \in Endpoint /\ <<q, "service">> # e
      BY <1>3 DEF Endpoint, Side
    <3>3. \A r \in Service : <<q, "service">> \in holds'[r] <=> <<q, "service">> \in holds[r]
      BY <2>3, <3>2 DEF Party
    <3>4. \A d \in Client : <<q, "client">> \in holds'[d] <=>
              <<q, "client">> \in holds[d] \/ (d = c /\ <<q, "client">> = e)
      BY <2>3, <3>2 DEF Party
    <3>5. Connecting(q) <=> Connecting(q)' \/ <<q, "client">> = e
      BY <1>2, <2>3 DEF Connecting, InConnect, e
    <3>6. QED
      BY <3>1, <3>3, <3>4, <3>5
  <2>14. QED
    BY <2>6, <2>7, <2>8, <2>9, <2>10, <2>11, <2>12, <2>13 DEF SrvInv
<1>10. QED
  BY <1>6, <1>7, <1>8, <1>9

LEMMA BusKeeps == ASSUME ~Hasty, SrvInv, [SrvNext]_srvVars PROVE SrvInv'
<1>1. CASE \E s \in Service : \E n \in Name : Bind(s, n)
  BY <1>1, BindKeeps
<1>2. CASE \E s \in Service : Unbind(s)
  BY <1>2, UnbindKeeps
<1>3. CASE \E s \in Service : Accept(s) \/ AcceptWoken(s)
  BY <1>3, AcceptKeeps
<1>4. CASE \E c \in Client : \E n \in Name : Connect(c, n)
  BY <1>4, ConnectKeeps
<1>5. CASE \E c \in Client : ConnectWoken(c)
  BY <1>5, ConnectWokenKeeps
<1>6. CASE \E t \in Party : ReadWoken(t) \/ WriteWoken(t) \/ \E e \in Endpoint : Read(t, e) \/ Write(t, e)
  BY <1>6, ReadWriteKeeps
<1>7. CASE \E t \in Party : Interrupt(t)
  BY <1>7, InterruptKeeps
<1>8. CASE \E t \in Party, e \in Endpoint : CloseConn(t, e)
  BY <1>8, CloseConnKeeps
<1>9. CASE UNCHANGED srvVars
  <2>1. UNCHANGED <<listen, lfd, holds, life, open, queue, sent, op, asleep, sig>>
    BY <1>9 DEF srvVars
  <2>2. BusTypes' /\ ListenInv' /\ CallInv' /\ HoldInv'
    BY <2>1 DEF SrvInv, BusTypes, ListenInv, CallInv, HoldInv
  <2>3. ConnectInv' /\ QueueInv'
    BY <2>1 DEF SrvInv, ConnectInv, QueueInv, InConnect, Queued, Accepted
  <2>4. WaitIsJustified' /\ OpenIsHeld'
    BY <2>1 DEF SrvInv, WaitIsJustified, Justified, OpenIsHeld, Connecting
  <2>5. QED
    BY <2>2, <2>3, <2>4 DEF SrvInv
<1>10. QED
  BY <1>1, <1>2, <1>3, <1>4, <1>5, <1>6, <1>7, <1>8, <1>9 DEF SrvNext

\* srv.h, "Blocking discipline" and "Both endpoints hold one refcount": whoever is blocked on the
\* bus still has to wait, an end is open while somebody can use it, and a connection lives as
\* long as one of its ends is open.  ~Hasty: a client woken in srv_connect runs before anything
\* else happens to its connection (srv_connect refutes the rest of it).
THEOREM BusKeepsItsPromise == ASSUME ~Hasty PROVE SrvSpec => []BusIsSound
<1>1. SrvInit => SrvInv
  BY BusStarts
<1>2. SrvInv /\ [SrvNext]_srvVars => SrvInv'
  BY BusKeeps
<1>3. SrvInv => BusIsSound
  BY DEF SrvInv, BusIsSound
<1>4. QED
  BY <1>1, <1>2, <1>3, PTL DEF SrvSpec

\* What happens to what was sent: it is read from the front, more is put behind it, or the
\* connection goes.
Drains(e) ==
    queue[e] # <<>> /\ queue'[e] # queue[e] =>
        \/ queue'[e] = Tail(queue[e])
        \/ queue'[e] = Append(queue[e], sent[e] + 1)
        \/ life'[e[1]] = "freed" /\ ~open'[e]

LEMMA LoopsDrain ==
  ASSUME SrvInv, NEW t \in Party, NEW e \in Endpoint, ReadLoop(t, e) \/ WriteLoop(t, e), NEW f \in Endpoint
  PROVE  Drains(f)
<1>1. queue \in [Endpoint -> Seq(Nat)]
  BY DEF SrvInv, BusTypes
<1>2. CASE ReadLoop(t, e)
  BY <1>1, <1>2 DEF ReadLoop, Drains
<1>3. CASE WriteLoop(t, e)
  BY <1>1, <1>3 DEF WriteLoop, Drains
<1>4. QED
  BY <1>2, <1>3

LEMMA CloseDrains ==
  ASSUME SrvInv, NEW t \in Party, NEW e \in Endpoint, CloseConn(t, e), NEW f \in Endpoint
  PROVE  Drains(f)
<1> DEFINE peer == <<e[1], OtherSide(e[2])>>
<1>1. open \in [Endpoint -> BOOLEAN] /\ life \in [SrvConn -> {"unborn", "live", "freed"}]
  BY DEF SrvInv, BusTypes
<1>2. /\ open' = [open EXCEPT ![e] = FALSE]
      /\ open[peer] => queue' = queue
      /\ ~open[peer] => /\ life' = [life EXCEPT ![e[1]] = "freed"]
                        /\ queue' = [g \in Endpoint |-> IF g[1] = e[1] THEN <<>> ELSE queue[g]]
  BY DEF CloseConn
<1>3. f[1] = e[1] => f = e \/ f = peer
  <2>1. e = <<e[1], e[2]>> /\ f = <<f[1], f[2]>> /\ e[2] \in Side /\ f[2] \in Side
    BY EndFacts
  <2>2. f[2] = e[2] \/ f[2] = OtherSide(e[2])
    BY <2>1 DEF Side, OtherSide
  <2>3. QED
    BY <2>1, <2>2
<1> HIDE DEF peer
<1>4. CASE ~open[peer] /\ f[1] = e[1]
  <2>1. e[1] \in SrvConn
    BY EndFacts
  <2>2. life'[f[1]] = "freed" /\ ~open'[f]
    BY <1>1, <1>2, <1>3, <1>4, <2>1
  <2>3. QED
    BY <2>2 DEF Drains
<1>5. CASE open[peer] \/ f[1] # e[1]
  <2>1. queue'[f] = queue[f]
    BY <1>2, <1>5
  <2>2. QED
    BY <2>1 DEF Drains
<1>6. QED
  BY <1>4, <1>5

LEMMA StepDrains ==
  ASSUME SrvInv, [SrvNext]_srvVars, NEW f \in Endpoint
  PROVE  Drains(f)
<1>1. CASE queue' = queue
  BY <1>1 DEF Drains
<1>2. CASE \E t \in Party, e \in Endpoint : Read(t, e) \/ Write(t, e)
  BY <1>2, LoopsDrain DEF Read, Write
<1>3. CASE \E t \in Party : ReadWoken(t) \/ WriteWoken(t)
  <2>1. PICK t \in Party : ReadWoken(t) \/ WriteWoken(t)
    BY <1>3
  <2>2. op[t].end \in Endpoint
    BY <2>1 DEF SrvInv, CallInv, BusTypes, ReadWoken, WriteWoken, Resumes
  <2>3. queue' = queue \/ ReadLoop(t, op[t].end) \/ WriteLoop(t, op[t].end)
    BY <2>1 DEF ReadWoken, WriteWoken
  <2>4. QED
    BY <1>1, <2>2, <2>3, LoopsDrain
<1>4. CASE \E t \in Party, e \in Endpoint : CloseConn(t, e)
  BY <1>4, CloseDrains
<1>5. CASE \E s \in Service : Unbind(s) \/ \E n \in Name : Bind(s, n)
  BY <1>1, <1>5 DEF Unbind, Bind, conns
<1>6. CASE \/ \E s \in Service : Accept(s) \/ AcceptWoken(s)
           \/ \E c \in Client : ConnectWoken(c) \/ \E n \in Name : Connect(c, n)
  BY <1>1, <1>6 DEF Accept, AcceptWoken, Connect, ConnectWoken
<1>7. CASE \E t \in Party : Interrupt(t)
  BY <1>1, <1>7 DEF Interrupt, conns
<1>8. CASE UNCHANGED srvVars
  BY <1>1, <1>8 DEF srvVars
<1>9. QED
  BY <1>2, <1>3, <1>4, <1>5, <1>6, <1>7, <1>8 DEF SrvNext

\* srv.h, "next read returns 0 (EOF) after draining whatever was already queued": what was sent
\* leaves a queue in order, by being read, or with its connection, which both sides have closed.
THEOREM BusDrainsInOrder == ASSUME ~Hasty PROVE SrvSpec => DrainedInOrder
<1>1. SrvInit => SrvInv
  BY BusStarts
<1>2. SrvInv /\ [SrvNext]_srvVars => SrvInv'
  BY BusKeeps
<1>3. SrvInv /\ [SrvNext]_srvVars => [\A e \in Endpoint : Drains(e)]_srvVars
  BY StepDrains
<1>4. (\A e \in Endpoint : Drains(e)) <=>
          \A e \in Endpoint :
              queue[e] # <<>> /\ queue'[e] # queue[e] =>
                  \/ queue'[e] = Tail(queue[e])
                  \/ queue'[e] = Append(queue[e], sent[e] + 1)
                  \/ life'[e[1]] = "freed" /\ ~open'[e]
  BY DEF Drains
<1>5. QED
  BY <1>1, <1>2, <1>3, <1>4, PTL DEF SrvSpec, DrainedInOrder

(***************************************************************************)
(* The calls to file-system daemons.                                       *)
(***************************************************************************)
ChanType == [alive : BOOLEAN, inFlight : Callers \union {NoOne}, tag : 0 .. MaxTag,
             fds : Nat, req : Seq(Nat), rsp : Seq(Nat)]
UfsCallType == [pc : {"idle", "blocked", "woken", "sent"}, fs : Systems \union {NoOne},
             tag : Nat, opens : BOOLEAN]

UfsTypes ==
    /\ table \in Seq(Systems)
    /\ chan \in [Systems -> ChanType]
    /\ daemon \in [Systems -> [st : {"off", "serving"}, mid : Nat]]
    /\ call \in [Callers -> UfsCallType]
    /\ wild \in BOOLEAN

\* A file system is mounted once.
MountedOnce == \A i, j \in 1 .. Len(table) : i # j => table[i] # table[j]

\* A daemon that serves was given an index of the table.
IndexGiven == \A f \in Systems : Serving(f) => daemon[f].mid > 0

\* Who is in a call is in the call of a file system, which stays mounted.
CallsAreOpen ==
    \A c \in Callers : IF call[c].pc = "idle" THEN call[c].fs = NoOne
                       ELSE call[c].fs \in Systems /\ (~wild => Mounted(call[c].fs))

\* Whom a channel belongs to has a request under way in it, on a dead channel too.
OwnerIsSending ==
    ~wild => \A f \in Systems : chan[f].inFlight # NoOne =>
                call[chan[f].inFlight].pc = "sent" /\ call[chan[f].inFlight].fs = f

UfsInv == UfsTypes /\ MountedOnce /\ IndexGiven /\ CallsAreOpen /\ OwnerIsSending /\ CallsSound

LEMMA NoChanFacts ==
  /\ NoChan \in ChanType /\ NoChan.inFlight = NoOne /\ ~NoChan.alive
  /\ NoChan.req = <<>> /\ NoChan.rsp = <<>>
BY UserfsAssumption DEF NoChan, ChanType

LEMMA UfsStarts == UfsInit => UfsInv
<1> SUFFICES ASSUME UfsInit PROVE UfsInv
  OBVIOUS
<1> USE UserfsAssumption DEF UfsInit, NoChan, Idle, ChanType, UfsCallType
<1>1. UfsTypes
  <2>1. NoChan \in ChanType
    BY NoChanFacts
  <2>2. Idle \in UfsCallType
    OBVIOUS
  <2>3. table = <<>> /\ <<>> \in Seq(Systems) /\ wild = FALSE
    OBVIOUS
  <2>4. daemon \in [Systems -> [st : {"off", "serving"}, mid : Nat]]
    OBVIOUS
  <2>5. chan = [f \in Systems |-> NoChan] /\ call = [c \in Callers |-> Idle]
    OBVIOUS
  <2> HIDE DEF NoChan, Idle, UfsInit
  <2>6. QED
    BY <2>1, <2>2, <2>3, <2>4, <2>5 DEF UfsTypes
<1>2. MountedOnce /\ IndexGiven /\ CallsAreOpen
  BY DEF MountedOnce, IndexGiven, CallsAreOpen, Serving
<1>3. OwnerIsSending /\ CallsSound
  BY DEF OwnerIsSending, CallsSound, ChannelAligned, CallersAreServed
<1>4. QED
  BY <1>1, <1>2, <1>3 DEF UfsInv

\* In calls, c has left f: it is in no call, nobody is blocked on f, and nothing else changed.
HasLeft(calls, c, f) ==
    /\ calls \in [Callers -> UfsCallType]
    /\ calls[c].pc = "idle"
    /\ calls[c].fs = NoOne
    /\ \A d \in Callers \ {c} :
          /\ calls[d].fs = call[d].fs
          /\ calls[d].tag = call[d].tag
          /\ (calls[d].pc = "sent") = (call[d].pc = "sent")
          /\ (calls[d].pc = "idle") = (call[d].pc = "idle")
          /\ calls[d].pc = "blocked" => call[d].pc = "blocked" /\ call[d].fs # f

LEMMA WokenFacts ==
  ASSUME UfsTypes, NEW f \in Systems, NEW c \in Callers, NEW calls, calls = [Woken(f) EXCEPT ![c] = Idle]
  PROVE  HasLeft(calls, c, f)
<1>1. DOMAIN calls = Callers /\ calls[c] = Idle
  BY DEF Woken
<1>2. Idle \in UfsCallType /\ Idle.pc = "idle" /\ Idle.fs = NoOne
  BY DEF Idle, UfsCallType
<1>3. ASSUME NEW d \in Callers, d # c
      PROVE  calls[d] = IF call[d].fs = f /\ call[d].pc = "blocked" THEN [call[d] EXCEPT !.pc = "woken"] ELSE call[d]
  BY <1>3 DEF Woken
<1>4. calls \in [Callers -> UfsCallType]
  <2>1. ASSUME NEW d \in Callers PROVE calls[d] \in UfsCallType
    <3>1. call[d] \in UfsCallType
      BY DEF UfsTypes
    <3>2. [call[d] EXCEPT !.pc = "woken"] \in UfsCallType
      BY <3>1 DEF UfsCallType
    <3>3. QED
      BY <1>1, <1>2, <1>3, <3>1, <3>2
  <2>2. calls = [d \in Callers |-> calls[d]]
    BY DEF Woken
  <2>3. QED
    BY <2>1, <2>2
<1>5. ASSUME NEW d \in Callers, d # c
      PROVE  /\ calls[d].fs = call[d].fs
             /\ calls[d].tag = call[d].tag
             /\ (calls[d].pc = "sent") = (call[d].pc = "sent")
             /\ (calls[d].pc = "idle") = (call[d].pc = "idle")
             /\ calls[d].pc = "blocked" => call[d].pc = "blocked" /\ call[d].fs # f
  <2>1. call[d] \in UfsCallType
    BY DEF UfsTypes
  <2>2. CASE call[d].fs = f /\ call[d].pc = "blocked"
    <3>1. calls[d] = [call[d] EXCEPT !.pc = "woken"]
      BY <1>3, <1>5, <2>2
    <3>2. calls[d].pc = "woken" /\ calls[d].fs = call[d].fs /\ calls[d].tag = call[d].tag
      BY <2>1, <3>1 DEF UfsCallType
    <3>3. QED
      BY <2>2, <3>2
  <2>3. CASE ~(call[d].fs = f /\ call[d].pc = "blocked")
    <3>1. calls[d] = call[d]
      BY <1>3, <1>5, <2>3
    <3>2. QED
      BY <2>3, <3>1
  <2>4. QED
    BY <2>2, <2>3
<1>6. QED
  BY <1>1, <1>2, <1>4, <1>5 DEF HasLeft

\* A caller leaves a channel, whether it got its answer, gave up, or could not send at all.
LEMMA ReleaseKeeps ==
  ASSUME UfsInv, ~wild, UNCHANGED <<table, daemon, wild>>,
         NEW f \in Systems, NEW c \in Callers, call[c].fs \in {f, NoOne}, chan[f].inFlight \in {c, NoOne},
         NEW ch \in ChanType, ch.inFlight = NoOne, ch.alive => ch.req = <<>> /\ ch.rsp = <<>>,
         chan' = [chan EXCEPT ![f] = ch], call' = [Woken(f) EXCEPT ![c] = Idle]
  PROVE  UfsInv'
<1> USE UserfsAssumption
<1>1. UfsTypes
  BY DEF UfsInv
<1>2. HasLeft(call', c, f)
  BY <1>1, WokenFacts
<1>3. chan'[f] = ch /\ \A g \in Systems \ {f} : chan'[g] = chan[g]
  BY <1>1 DEF UfsTypes
<1>4. UfsTypes'
  <2>1. chan' \in [Systems -> ChanType]
    BY <1>1 DEF UfsTypes
  <2>2. call' \in [Callers -> UfsCallType]
    BY <1>2 DEF HasLeft
  <2>3. QED
    BY <1>1, <2>1, <2>2 DEF UfsTypes
<1>5. MountedOnce' /\ IndexGiven'
  BY DEF UfsInv, MountedOnce, IndexGiven, Serving
<1> USE DEF HasLeft
<1>6. CallsAreOpen'
  <2> SUFFICES ASSUME NEW d \in Callers
               PROVE  IF call'[d].pc = "idle" THEN call'[d].fs = NoOne
                      ELSE call'[d].fs \in Systems /\ \E i \in 1 .. Len(table) : table[i] = call'[d].fs
    BY DEF CallsAreOpen, Mounted
  <2>1. CASE d = c
    BY <1>2, <2>1
  <2>2. CASE d # c
    BY <1>2, <2>2 DEF UfsInv, CallsAreOpen, Mounted
  <2>3. QED
    BY <2>1, <2>2
<1>7. OwnerIsSending'
  <2> SUFFICES ASSUME NEW g \in Systems, chan'[g].inFlight # NoOne
               PROVE  call'[chan'[g].inFlight].pc = "sent" /\ call'[chan'[g].inFlight].fs = g
    BY DEF OwnerIsSending
  <2>1. g # f /\ chan'[g] = chan[g]
    BY <1>3
  <2>2. chan[g].inFlight \in Callers /\ call[chan[g].inFlight].pc = "sent" /\ call[chan[g].inFlight].fs = g
    BY SMTT(40), <1>1, <2>1 DEF UfsInv, OwnerIsSending, UfsTypes, ChanType
  <2>3. chan[g].inFlight # c
    BY <2>1, <2>2
  <2>4. QED
    BY <1>2, <2>1, <2>2, <2>3
<1>8. ChannelAligned'
  <2> SUFFICES ASSUME NEW g \in Systems, chan'[g].alive
               PROVE  IF chan'[g].inFlight = NoOne THEN chan'[g].req = <<>> /\ chan'[g].rsp = <<>>
                      ELSE /\ call'[chan'[g].inFlight].pc = "sent" /\ call'[chan'[g].inFlight].fs = g
                           /\ chan'[g].req \o chan'[g].rsp = <<call'[chan'[g].inFlight].tag>>
    BY DEF ChannelAligned
  <2>1. CASE g = f
    BY <1>3, <2>1
  <2>2. CASE g # f
    <3>1. chan'[g] = chan[g]
      BY <1>3, <2>2
    <3>2. CASE chan[g].inFlight = NoOne
      BY <3>1, <3>2 DEF UfsInv, CallsSound, ChannelAligned
    <3>3. CASE chan[g].inFlight # NoOne
      <4>1. /\ chan[g].inFlight \in Callers /\ call[chan[g].inFlight].pc = "sent"
            /\ call[chan[g].inFlight].fs = g /\ chan[g].req \o chan[g].rsp = <<call[chan[g].inFlight].tag>>
        BY <1>1, <3>1, <3>3 DEF UfsInv, CallsSound, ChannelAligned, UfsTypes, ChanType
      <4>2. chan[g].inFlight # c
        BY <2>2, <4>1
      <4>3. /\ call'[chan[g].inFlight].pc = "sent" /\ call'[chan[g].inFlight].fs = g
            /\ call'[chan[g].inFlight].tag = call[chan[g].inFlight].tag
        BY <1>2, <4>1, <4>2
      <4>4. QED
        BY <3>1, <3>3, <4>1, <4>3
    <3>4. QED
      BY <3>2, <3>3
  <2>3. QED
    BY <2>1, <2>2
<1>9. CallersAreServed'
  <2> SUFFICES ASSUME NEW d \in Callers
               PROVE  /\ call'[d].pc = "blocked" => chan'[call'[d].fs].inFlight # NoOne
                      /\ call'[d].pc = "sent" <=> (call'[d].fs # NoOne /\ chan'[call'[d].fs].inFlight = d)
    BY DEF CallersAreServed
  <2>1. CASE d = c
    BY <1>2, <2>1
  <2>2. CASE d # c /\ call[d].fs = f
    <3>1. call[d].pc # "sent"
      BY <2>2 DEF UfsInv, CallsSound, CallersAreServed
    <3>2. QED
      BY <1>2, <1>3, <2>2, <3>1
  <2>3. CASE d # c /\ call[d].fs # f
    <3>1. call'[d].fs = call[d].fs /\ (call[d].fs \in Systems => chan'[call[d].fs] = chan[call[d].fs])
      BY <1>2, <1>3, <2>3
    <3>2. call[d].pc = "idle" \/ call[d].fs \in Systems
      BY DEF UfsInv, CallsAreOpen
    <3>3. call[d].pc = "idle" => call[d].fs = NoOne
      BY DEF UfsInv, CallsAreOpen
    <3>4. /\ call[d].pc = "blocked" => chan[call[d].fs].inFlight # NoOne
          /\ call[d].pc = "sent" <=> (call[d].fs # NoOne /\ chan[call[d].fs].inFlight = d)
      BY DEF UfsInv, CallsSound, CallersAreServed
    <3>5. QED
      BY <1>2, <2>3, <3>1, <3>2, <3>3, <3>4
  <2>4. QED
    BY <2>1, <2>2, <2>3
<1>10. QED
  BY <1>4, <1>5, <1>6, <1>7, <1>8, <1>9 DEF UfsInv, CallsSound

\* A channel changes, and neither its owner nor any call does.
LEMMA ChannelKeeps ==
  ASSUME UfsInv, ~wild, UNCHANGED <<table, daemon, call, wild>>,
         NEW f \in Systems, NEW ch \in ChanType, chan' = [chan EXCEPT ![f] = ch],
         ch.inFlight = chan[f].inFlight,
         ch.alive => IF ch.inFlight = NoOne THEN ch.req = <<>> /\ ch.rsp = <<>>
                     ELSE chan[f].alive /\ ch.req \o ch.rsp = chan[f].req \o chan[f].rsp
  PROVE  UfsInv'
<1>1. chan'[f] = ch /\ \A g \in Systems \ {f} : chan'[g] = chan[g]
  BY DEF UfsInv, UfsTypes
<1>2. \A g \in Systems : chan'[g].inFlight = chan[g].inFlight
  BY <1>1
<1>3. UfsTypes'
  BY DEF UfsInv, UfsTypes
<1>4. MountedOnce' /\ IndexGiven' /\ CallsAreOpen'
  BY DEF UfsInv, MountedOnce, IndexGiven, Serving, CallsAreOpen, Mounted
<1>5. OwnerIsSending'
  BY <1>2 DEF UfsInv, OwnerIsSending
<1>6. ChannelAligned'
  <2> SUFFICES ASSUME NEW g \in Systems, chan'[g].alive
               PROVE  IF chan'[g].inFlight = NoOne THEN chan'[g].req = <<>> /\ chan'[g].rsp = <<>>
                      ELSE /\ call[chan'[g].inFlight].pc = "sent" /\ call[chan'[g].inFlight].fs = g
                           /\ chan'[g].req \o chan'[g].rsp = <<call[chan'[g].inFlight].tag>>
    BY DEF ChannelAligned
  <2>1. chan[g].alive => IF chan[g].inFlight = NoOne THEN chan[g].req = <<>> /\ chan[g].rsp = <<>>
                         ELSE /\ call[chan[g].inFlight].pc = "sent" /\ call[chan[g].inFlight].fs = g
                              /\ chan[g].req \o chan[g].rsp = <<call[chan[g].inFlight].tag>>
    BY DEF UfsInv, CallsSound, ChannelAligned
  <2>2. QED
    BY ZenonT(60), <1>1, <2>1
<1>7. CallersAreServed'
  BY <1>2 DEF UfsInv, CallsSound, CallersAreServed, CallsAreOpen
<1>8. QED
  BY <1>3, <1>4, <1>5, <1>6, <1>7 DEF UfsInv, CallsSound

\* A call goes from one place to another outside the ownership of its channel.
LEMMA BlockKeeps ==
  ASSUME UfsInv, ~wild, UNCHANGED <<table, chan, daemon, wild>>,
         NEW c \in Callers, NEW k \in UfsCallType, call' = [call EXCEPT ![c] = k],
         k.pc = "blocked", k.fs \in Systems, Mounted(k.fs), chan[k.fs].inFlight # NoOne,
         call[c].pc # "sent", call[c].fs \in {k.fs, NoOne}
  PROVE  UfsInv'
<1>1. call'[c] = k /\ \A d \in Callers \ {c} : call'[d] = call[d]
  BY DEF UfsInv, UfsTypes
<1>2. UfsTypes'
  BY DEF UfsInv, UfsTypes
<1>3. MountedOnce' /\ IndexGiven'
  BY DEF UfsInv, MountedOnce, IndexGiven, Serving
<1>4. CallsAreOpen'
  BY <1>1 DEF UfsInv, CallsAreOpen, Mounted
<1>5. \A f \in Systems : chan[f].inFlight # c
  <2> SUFFICES ASSUME NEW f \in Systems, chan[f].inFlight = c PROVE FALSE
    OBVIOUS
  <2>1. call[c].pc = "sent"
    BY UserfsAssumption DEF UfsInv, OwnerIsSending
  <2>2. QED
    BY <2>1
<1>6. OwnerIsSending'
  BY <1>1, <1>5 DEF UfsInv, OwnerIsSending, UfsTypes, ChanType
<1>7. ChannelAligned'
  BY <1>1, <1>5 DEF UfsInv, CallsSound, ChannelAligned, UfsTypes, ChanType
<1>8. CallersAreServed'
  BY <1>1, <1>5 DEF UfsInv, CallsSound, CallersAreServed
<1>9. QED
  BY <1>2, <1>3, <1>4, <1>6, <1>7, <1>8 DEF UfsInv, CallsSound

\* userfs_call from the end of its wait to the request in the pipe.
LEMMA SendKeeps ==
  ASSUME UfsInv, ~wild, UNCHANGED <<table, daemon, wild>>,
         NEW c \in Callers, NEW f \in Systems, NEW opens \in BOOLEAN,
         Mounted(f), call[c].fs \in {f, NoOne}, call[c].pc # "sent",
         chan[f].inFlight = NoOne, chan[f].alive => chan[f].tag < MaxTag,
         Send(c, f, opens)
  PROVE  UfsInv'
<1> USE UserfsAssumption
<1>1. chan[f] \in ChanType
  BY DEF UfsInv, UfsTypes
<1>2. CASE ~(chan[f].alive /\ Serving(f))
  <2> DEFINE ch == [chan[f] EXCEPT !.alive = FALSE]
  <2>1. ch \in ChanType /\ ch.inFlight = NoOne /\ ~ch.alive
    BY <1>1 DEF ChanType
  <2>2. chan' = [chan EXCEPT ![f] = ch] /\ call' = [Woken(f) EXCEPT ![c] = Idle]
    BY <1>2 DEF Send
  <2>3. QED
    BY <2>1, <2>2, ReleaseKeeps
<1>3. CASE chan[f].alive /\ Serving(f)
  <2> DEFINE t == chan[f].tag + 1
             ch == [chan[f] EXCEPT !.inFlight = c, !.tag = t, !.req = <<t>>]
             k == [pc |-> "sent", fs |-> f, tag |-> t, opens |-> opens]
  <2>1. chan[f].req = <<>> /\ chan[f].rsp = <<>>
    BY <1>3 DEF UfsInv, CallsSound, ChannelAligned
  <2>2. t \in 1 .. MaxTag
    BY <1>1, <1>3 DEF ChanType
  <2>3. ch \in ChanType /\ ch.alive /\ ch.inFlight = c /\ ch.req = <<t>> /\ ch.rsp = <<>>
    <3>1. <<t>> \in Seq(Nat)
      BY <2>2
    <3> HIDE DEF t
    <3>2. t \in 0 .. MaxTag
      BY <2>2
    <3>3. ch \in ChanType /\ ch.alive = chan[f].alive /\ ch.inFlight = c /\ ch.req = <<t>> /\ ch.rsp = chan[f].rsp
      <4>1. PICK x \in ChanType : x = chan[f]
        BY <1>1
      <4>2. ch = [x EXCEPT !.inFlight = c, !.tag = t, !.req = <<t>>]
        BY <4>1
      <4> HIDE DEF ch
      <4>3. ch \in ChanType
        BY <3>1, <3>2, <4>2 DEF ChanType
      <4>4. ch.alive = x.alive /\ ch.inFlight = c /\ ch.req = <<t>> /\ ch.rsp = x.rsp
        BY <4>2 DEF ChanType
      <4>5. QED
        BY <4>1, <4>3, <4>4
    <3>4. QED
      BY <1>3, <2>1, <3>3
  <2>4. k \in UfsCallType /\ k.pc = "sent" /\ k.fs = f /\ k.tag = t
    BY <2>2 DEF UfsCallType
  <2>5. chan' = [chan EXCEPT ![f] = ch] /\ call' = [call EXCEPT ![c] = k]
    <3>1. /\ chan' = [chan EXCEPT ![f].inFlight = c, ![f].tag = t, ![f].req = Append(@, t)]
          /\ call' = [call EXCEPT ![c] = k]
      BY <1>3 DEF Send
    <3>2. Append(chan[f].req, t) = <<t>>
      BY <2>1, <2>2
    <3>3. [chan EXCEPT ![f].inFlight = c, ![f].tag = t, ![f].req = Append(@, t)]
             = [chan EXCEPT ![f] = [chan[f] EXCEPT !.inFlight = c, !.tag = t, !.req = Append(chan[f].req, t)]]
      BY <1>1 DEF UfsInv, UfsTypes, ChanType
    <3>4. QED
      BY <3>1, <3>2, <3>3
  <2> HIDE DEF t, ch, k
  <2>6. call'[c] = k /\ \A d \in Callers \ {c} : call'[d] = call[d]
    BY <2>5 DEF UfsInv, UfsTypes
  <2>7. chan'[f] = ch /\ \A g \in Systems \ {f} : chan'[g] = chan[g]
    BY <2>5 DEF UfsInv, UfsTypes
  <2>8. \A g \in Systems : chan[g].inFlight # c
    <3> SUFFICES ASSUME NEW g \in Systems, chan[g].inFlight = c PROVE FALSE
      OBVIOUS
    <3>1. call[c].pc = "sent"
      BY DEF UfsInv, OwnerIsSending
    <3>2. QED
      BY <3>1
  <2>9. UfsTypes'
    BY <2>3, <2>4, <2>5 DEF UfsInv, UfsTypes
  <2>10. MountedOnce' /\ IndexGiven' /\ CallsAreOpen'
    BY <2>4, <2>6 DEF UfsInv, MountedOnce, IndexGiven, Serving, CallsAreOpen, Mounted
  <2>11. OwnerIsSending'
    <3> SUFFICES ASSUME NEW g \in Systems, chan'[g].inFlight # NoOne
                 PROVE  call'[chan'[g].inFlight].pc = "sent" /\ call'[chan'[g].inFlight].fs = g
      BY DEF OwnerIsSending
    <3>1. CASE g = f
      BY <2>3, <2>4, <2>6, <2>7, <3>1
    <3>2. CASE g # f
      <4>1. chan'[g] = chan[g] /\ chan[g].inFlight \in Callers \ {c}
        BY <2>7, <2>8, <3>2 DEF UfsInv, UfsTypes, ChanType
      <4>2. call'[chan[g].inFlight] = call[chan[g].inFlight]
        BY <2>6, <4>1
      <4>3. QED
        BY <4>1, <4>2 DEF UfsInv, OwnerIsSending
    <3>3. QED
      BY <3>1, <3>2
  <2>12. ChannelAligned'
    <3> SUFFICES ASSUME NEW g \in Systems, chan'[g].alive
                 PROVE  IF chan'[g].inFlight = NoOne THEN chan'[g].req = <<>> /\ chan'[g].rsp = <<>>
                        ELSE /\ call'[chan'[g].inFlight].pc = "sent" /\ call'[chan'[g].inFlight].fs = g
                             /\ chan'[g].req \o chan'[g].rsp = <<call'[chan'[g].inFlight].tag>>
      BY DEF ChannelAligned
    <3>1. CASE g = f
      <4>1. chan'[g] = ch /\ call'[c] = k /\ c # NoOne
        BY <2>6, <2>7, <3>1
      <4>2. <<t>> \o <<>> = <<t>>
        OBVIOUS
      <4>3. QED
        BY <2>3, <2>4, <3>1, <4>1, <4>2
    <3>2. CASE g # f
      <4>1. chan'[g] = chan[g]
        BY <2>7, <3>2
      <4>2. chan[g].inFlight # NoOne => chan[g].inFlight \in Callers \ {c}
        BY <2>8 DEF UfsInv, UfsTypes, ChanType
      <4>3. chan[g].inFlight # NoOne => call'[chan[g].inFlight] = call[chan[g].inFlight]
        BY <2>6, <4>2
      <4>4. QED
        <5>1. chan[g].alive => IF chan[g].inFlight = NoOne THEN chan[g].req = <<>> /\ chan[g].rsp = <<>>
                               ELSE /\ call[chan[g].inFlight].pc = "sent" /\ call[chan[g].inFlight].fs = g
                                    /\ chan[g].req \o chan[g].rsp = <<call[chan[g].inFlight].tag>>
          BY DEF UfsInv, CallsSound, ChannelAligned
        <5>2. QED
          BY <4>1, <4>3, <5>1
    <3>3. QED
      BY <3>1, <3>2
  <2>13. CallersAreServed'
    <3> SUFFICES ASSUME NEW d \in Callers
                 PROVE  /\ call'[d].pc = "blocked" => chan'[call'[d].fs].inFlight # NoOne
                        /\ call'[d].pc = "sent" <=> (call'[d].fs # NoOne /\ chan'[call'[d].fs].inFlight = d)
      BY DEF CallersAreServed
    <3>1. CASE d = c
      BY <2>3, <2>4, <2>6, <2>7, <3>1
    <3>2. CASE d # c
      BY <2>3, <2>6, <2>7, <3>2 DEF UfsInv, CallsSound, CallersAreServed, CallsAreOpen
    <3>3. QED
      BY <3>1, <3>2
  <2>14. QED
    BY <2>9, <2>10, <2>11, <2>12, <2>13 DEF UfsInv, CallsSound
<1>4. QED
  BY <1>2, <1>3

\* A request and its reply are one number together.
LEMMA OneOfTwo ==
  ASSUME NEW r \in Seq(Nat), NEW s \in Seq(Nat), NEW t \in Nat, r \o s = <<t>>
  PROVE  /\ r # <<>> => r = <<t>> /\ s = <<>>
         /\ s # <<>> => s = <<t>> /\ r = <<>>
<1>1. Len(r) \in Nat /\ Len(s) \in Nat
  OBVIOUS
<1>2. \A m, n \in Nat : m + n = 1 => (m > 0 => m = 1 /\ n = 0) /\ (n > 0 => n = 1 /\ m = 0)
  OBVIOUS
<1>3. Len(r) + Len(s) = 1
  BY Len(r \o s) = Len(r) + Len(s), Len(<<t>>) = 1
<1>4. r # <<>> => Len(r) > 0
  OBVIOUS
<1>5. s # <<>> => Len(s) > 0
  OBVIOUS
<1>6. ASSUME r # <<>> PROVE r = <<t>> /\ s = <<>>
  <2>1. Len(r) = 1 /\ Len(s) = 0
    BY <1>1, <1>3, <1>4, <1>6, <1>2
  <2>2. r[1] = (r \o s)[1]
    BY <2>1
  <2>3. QED
    BY <2>1, <2>2
<1>7. ASSUME s # <<>> PROVE s = <<t>> /\ r = <<>>
  <2>1. Len(s) = 1 /\ Len(r) = 0
    BY <1>1, <1>3, <1>5, <1>7, <1>2
  <2>2. s[1] = (r \o s)[1]
    BY <2>1
  <2>3. QED
    BY <2>1, <2>2
<1>8. QED
  BY <1>6, <1>7

LEMMA BeginKeeps ==
  ASSUME UfsInv, ~wild, NEW c \in Callers, NEW f \in Systems, NEW opens \in BOOLEAN, Begin(c, f, opens)
  PROVE  UfsInv'
<1>1. call[c].fs = NoOne /\ call[c].pc = "idle" /\ Mounted(f) /\ UNCHANGED <<table, daemon, wild>>
  BY DEF Begin, Idle
<1>2. CASE chan[f].inFlight = NoOne
  BY <1>1, <1>2, SendKeeps DEF Begin
<1>3. CASE chan[f].inFlight # NoOne
  <2> DEFINE k == [pc |-> "blocked", fs |-> f, tag |-> 0, opens |-> opens]
  <2>1. k \in UfsCallType /\ k.pc = "blocked" /\ k.fs = f
    BY DEF UfsCallType
  <2>2. call' = [call EXCEPT ![c] = k] /\ UNCHANGED chan
    BY <1>3 DEF Begin
  <2> HIDE DEF k
  <2>3. QED
    BY <1>1, <1>3, <2>1, <2>2, BlockKeeps
<1>4. QED
  BY <1>2, <1>3

LEMMA RetryKeeps ==
  ASSUME UfsInv, ~wild, NEW c \in Callers, Retry(c)
  PROVE  UfsInv'
<1> DEFINE f == call[c].fs
<1>1. f \in Systems /\ Mounted(f) /\ call[c].pc = "woken" /\ call[c] \in UfsCallType
  BY DEF UfsInv, UfsTypes, CallsAreOpen, Retry
<1>2. UNCHANGED <<table, daemon, wild>> /\ (chan[f].alive => chan[f].tag < MaxTag)
  BY DEF Retry
<1>3. CASE chan[f].inFlight = NoOne
  <2>1. Send(c, f, call[c].opens) /\ call[c].opens \in BOOLEAN
    BY <1>1, <1>3 DEF Retry, UfsCallType
  <2>2. QED
    BY <1>1, <1>2, <1>3, <2>1, SendKeeps
<1>4. CASE chan[f].inFlight # NoOne
  <2> DEFINE k == [call[c] EXCEPT !.pc = "blocked"]
  <2>1. k \in UfsCallType /\ k.pc = "blocked" /\ k.fs = f
    BY <1>1 DEF UfsCallType
  <2>2. call' = [call EXCEPT ![c] = k] /\ UNCHANGED chan
    BY <1>4 DEF Retry
  <2> HIDE DEF k
  <2>3. QED
    BY <1>1, <1>2, <1>4, <2>1, <2>2, BlockKeeps
<1>5. QED
  BY <1>3, <1>4

\* A caller that sent owns the channel; as long as the channel lives it holds one request or reply.
LEMMA SentFacts ==
  ASSUME UfsInv, ~wild, NEW c \in Callers, call[c].pc = "sent", NEW f, f = call[c].fs
  PROVE  /\ f \in Systems
         /\ chan[f].inFlight = c
         /\ chan[f].alive => chan[f].req \o chan[f].rsp = <<call[c].tag>>
<1>1. f \in Systems
  BY DEF UfsInv, CallsAreOpen
<1>2. chan[f].inFlight = c
  BY DEF UfsInv, CallsSound, CallersAreServed
<1>3. chan[f].alive => chan[f].req \o chan[f].rsp = <<call[c].tag>>
  BY <1>1, <1>2, UserfsAssumption DEF UfsInv, CallsSound, ChannelAligned
<1>4. QED
  BY <1>1, <1>2, <1>3

LEMMA ReceiveKeeps ==
  ASSUME UfsInv, ~wild, NEW c \in Callers, Receive(c)
  PROVE  UfsInv'
<1> DEFINE f == call[c].fs
           ok == Head(chan[f].rsp) = call[c].tag
           ch == [chan[f] EXCEPT !.rsp = Tail(@), !.inFlight = NoOne, !.alive = @ /\ ok,
                                 !.fds = IF ok /\ call[c].opens THEN @ + 1 ELSE @]
<1>1. /\ f \in Systems /\ chan[f].inFlight = c
      /\ chan[f].alive => chan[f].req \o chan[f].rsp = <<call[c].tag>>
  BY SentFacts DEF Receive
<1>2. chan[f] \in ChanType /\ call[c] \in UfsCallType
  BY <1>1 DEF UfsInv, UfsTypes
<1>3. UNCHANGED <<table, daemon, wild>> /\ call' = [Woken(f) EXCEPT ![c] = Idle] /\ chan[f].rsp # <<>>
  BY DEF Receive
<1>4. chan' = [chan EXCEPT ![f] = ch]
  BY <1>1, <1>2 DEF Receive, UfsInv, UfsTypes, ChanType
<1>5. /\ ch \in ChanType /\ ch.inFlight = NoOne /\ (ch.alive => chan[f].alive)
      /\ ch.req = chan[f].req /\ ch.rsp = Tail(chan[f].rsp)
  <2>1. PICK x \in ChanType : x = chan[f]
    BY <1>2
  <2>2. Tail(x.rsp) \in Seq(Nat) /\ ok \in BOOLEAN /\ (IF ok /\ call[c].opens THEN x.fds + 1 ELSE x.fds) \in Nat
    BY SMTT(40), <1>3, <2>1 DEF ChanType
  <2>3. ch = [x EXCEPT !.rsp = Tail(x.rsp), !.inFlight = NoOne, !.alive = x.alive /\ ok,
                       !.fds = IF ok /\ call[c].opens THEN x.fds + 1 ELSE x.fds]
    BY <2>1 DEF ChanType
  <2> HIDE DEF ch, ok
  <2>4. ch \in ChanType
    BY <2>2, <2>3 DEF ChanType
  <2>5. ch.inFlight = NoOne /\ (ch.alive => x.alive) /\ ch.req = x.req /\ ch.rsp = Tail(x.rsp)
    BY <2>2, <2>3 DEF ChanType
  <2>6. QED
    BY <2>1, <2>4, <2>5
<1>6. ch.alive => ch.req = <<>> /\ ch.rsp = <<>>
  <2>1. ch.alive => chan[f].rsp = <<call[c].tag>> /\ chan[f].req = <<>>
    <3>1. chan[f].req \in Seq(Nat) /\ chan[f].rsp \in Seq(Nat) /\ call[c].tag \in Nat
      BY <1>2 DEF ChanType, UfsCallType
    <3> DEFINE r == chan[f].req
               s == chan[f].rsp
               t == call[c].tag
    <3>2. r \in Seq(Nat) /\ s \in Seq(Nat) /\ s # <<>> /\ t \in Nat /\ (chan[f].alive => r \o s = <<t>>)
      BY <1>1, <1>3, <3>1
    <3> HIDE DEF ch, f, r, s, t
    <3>3. chan[f].alive => s = <<t>> /\ r = <<>>
      BY <3>2, OneOfTwo
    <3>4. QED
      BY <1>5, <3>3 DEF r, s, t
  <2>2. Tail(<<call[c].tag>>) = <<>>
    OBVIOUS
  <2>3. QED
    BY <1>5, <2>1, <2>2
<1> HIDE DEF ch
<1>7. QED
  BY <1>1, <1>3, <1>4, <1>5, <1>6, ReleaseKeeps

LEMMA GiveUpKeeps ==
  ASSUME UfsInv, ~wild, NEW c \in Callers, GiveUp(c)
  PROVE  UfsInv'
<1> DEFINE f == call[c].fs
           ch == [chan[f] EXCEPT !.inFlight = NoOne, !.alive = FALSE]
<1>1. f \in Systems /\ chan[f].inFlight = c
  BY SentFacts DEF GiveUp
<1>2. chan[f] \in ChanType
  BY <1>1 DEF UfsInv, UfsTypes
<1>3. UNCHANGED <<table, daemon, wild>> /\ call' = [Woken(f) EXCEPT ![c] = Idle]
  BY DEF GiveUp
<1>4. chan' = [chan EXCEPT ![f] = ch]
  BY <1>1, <1>2 DEF GiveUp, UfsInv, UfsTypes, ChanType
<1>5. ch \in ChanType /\ ch.inFlight = NoOne /\ ~ch.alive
  BY <1>2 DEF ChanType
<1> HIDE DEF ch
<1>6. QED
  BY <1>1, <1>3, <1>4, <1>5, ReleaseKeeps

LEMMA CloseKeeps ==
  ASSUME UfsInv, ~wild, NEW f \in Systems, Close(f)
  PROVE  UfsInv'
<1> DEFINE ch == [chan[f] EXCEPT !.fds = @ - 1]
<1>1. chan[f] \in ChanType /\ chan[f].fds > 0
  BY DEF UfsInv, UfsTypes, Close
<1>2. chan' = [chan EXCEPT ![f] = ch] /\ UNCHANGED <<table, daemon, call, wild>>
  BY DEF Close
<1>3. /\ ch \in ChanType /\ ch.inFlight = chan[f].inFlight /\ ch.alive = chan[f].alive
      /\ ch.req = chan[f].req /\ ch.rsp = chan[f].rsp
  <2>1. PICK x \in ChanType : x = chan[f] /\ x.fds > 0
    BY <1>1
  <2>2. x.fds - 1 \in Nat
    BY <2>1 DEF ChanType
  <2>3. ch = [x EXCEPT !.fds = x.fds - 1]
    BY <2>1 DEF ChanType
  <2> HIDE DEF ch
  <2>4. QED
    BY <2>1, <2>2, <2>3 DEF ChanType
<1>4. chan[f].alive /\ chan[f].inFlight = NoOne => chan[f].req = <<>> /\ chan[f].rsp = <<>>
  BY DEF UfsInv, CallsSound, ChannelAligned
<1> HIDE DEF ch
<1>5. QED
  BY <1>2, <1>3, <1>4, ChannelKeeps

LEMMA ServeKeeps ==
  ASSUME UfsInv, ~wild, NEW f \in Systems, Serve(f)
  PROVE  UfsInv'
<1> DEFINE ch == [chan[f] EXCEPT !.req = Tail(@), !.rsp = Append(@, Head(chan[f].req))]
<1>1. chan[f] \in ChanType /\ chan[f].req # <<>> /\ UNCHANGED <<table, daemon, call, wild>>
  BY DEF UfsInv, UfsTypes, Serve
<1>2. chan' = [chan EXCEPT ![f] = ch]
  BY <1>1 DEF Serve, UfsInv, UfsTypes, ChanType
<1>3. /\ ch \in ChanType /\ ch.inFlight = chan[f].inFlight /\ ch.alive = chan[f].alive
      /\ ch.req = Tail(chan[f].req) /\ ch.rsp = Append(chan[f].rsp, Head(chan[f].req))
  <2>1. PICK x \in ChanType : x = chan[f]
    BY <1>1
  <2>2. Tail(x.req) \in Seq(Nat) /\ Append(x.rsp, Head(x.req)) \in Seq(Nat)
    BY <1>1, <2>1 DEF ChanType
  <2>3. ch = [x EXCEPT !.req = Tail(x.req), !.rsp = Append(x.rsp, Head(x.req))]
    BY <2>1 DEF ChanType
  <2> HIDE DEF ch
  <2>4. QED
    BY <2>1, <2>2, <2>3 DEF ChanType
<1>4. chan[f].alive => chan[f].inFlight # NoOne
  BY <1>1 DEF UfsInv, CallsSound, ChannelAligned
<1>5. chan[f].alive => ch.req \o ch.rsp = chan[f].req \o chan[f].rsp
  <2> SUFFICES ASSUME chan[f].alive PROVE ch.req \o ch.rsp = chan[f].req \o chan[f].rsp
    OBVIOUS
  <2> DEFINE t == call[chan[f].inFlight].tag
  <2>1. chan[f].req \o chan[f].rsp = <<t>> /\ t \in Nat
    BY <1>4, <1>1 DEF UfsInv, CallsSound, ChannelAligned, UfsTypes, ChanType, UfsCallType
  <2> HIDE DEF t, ch
  <2>2. chan[f].req = <<t>> /\ chan[f].rsp = <<>>
    BY <1>1, <2>1, OneOfTwo DEF ChanType
  <2>3. Tail(<<t>>) = <<>> /\ Append(<<>>, Head(<<t>>)) = <<t>>
    BY <2>1
  <2>4. <<>> \o <<t>> = <<t>> /\ <<t>> \o <<>> = <<t>>
    BY <2>1
  <2>5. QED
    BY <1>3, <2>2, <2>3, <2>4
<1> HIDE DEF ch
<1>6. QED
  BY <1>1, <1>2, <1>3, <1>4, <1>5, ChannelKeeps

LEMMA DieKeeps ==
  ASSUME UfsInv, ~wild, NEW f \in Systems, Die(f)
  PROVE  UfsInv'
<1>1. /\ daemon' = [daemon EXCEPT ![f] = [daemon[f] EXCEPT !.st = "off"]]
      /\ UNCHANGED <<table, chan, call, wild>>
  BY DEF Die
<1>2. UfsTypes' /\ IndexGiven'
  BY <1>1 DEF UfsInv, UfsTypes, IndexGiven, Serving
<1>3. MountedOnce' /\ CallsAreOpen' /\ OwnerIsSending' /\ CallsSound'
  BY ZenonT(60), <1>1 DEF UfsInv, MountedOnce, CallsAreOpen, Mounted, OwnerIsSending, CallsSound, ChannelAligned, CallersAreServed
<1>4. QED
  BY <1>2, <1>3 DEF UfsInv

\* Nobody is in a call of a file system that is not mounted.
LEMMA MountKeeps ==
  ASSUME UfsInv, ~wild, NEW f \in Systems, Mount(f)
  PROVE  UfsInv'
<1> DEFINE ch == [NoChan EXCEPT !.alive = TRUE]
<1>1. ch \in ChanType /\ ch.inFlight = NoOne /\ ch.req = <<>> /\ ch.rsp = <<>>
  <2>1. PICK x \in ChanType : x = NoChan
    BY NoChanFacts
  <2>2. x.inFlight = NoOne /\ x.req = <<>> /\ x.rsp = <<>>
    BY <2>1, NoChanFacts
  <2>3. ch = [x EXCEPT !.alive = TRUE]
    BY <2>1
  <2> HIDE DEF ch
  <2>4. QED
    BY <2>2, <2>3 DEF ChanType
<1>2. /\ ~Mounted(f) /\ table' = Append(table, f) /\ chan' = [chan EXCEPT ![f] = ch]
      /\ daemon' = [daemon EXCEPT ![f] = [st |-> "serving", mid |-> Len(table) + 1]]
      /\ UNCHANGED <<call, wild>>
  BY DEF Mount
<1> HIDE DEF ch
<1>3. \A c \in Callers : call[c].fs # f
  BY <1>2, UserfsAssumption DEF UfsInv, CallsAreOpen
<1>4. table \in Seq(Systems) /\ Len(table) \in Nat
  BY DEF UfsInv, UfsTypes
<1>5. /\ Len(table') = Len(table) + 1 /\ table'[Len(table) + 1] = f
      /\ \A i \in 1 .. Len(table) : table'[i] = table[i] /\ table[i] # f
  BY <1>2, <1>4 DEF Mounted
<1>6. chan'[f] = ch /\ \A g \in Systems \ {f} : chan'[g] = chan[g]
  BY <1>2 DEF UfsInv, UfsTypes
<1>7. UfsTypes'
  BY <1>1, <1>2, <1>4 DEF UfsInv, UfsTypes
<1>8. MountedOnce'
  BY <1>4, <1>5 DEF UfsInv, MountedOnce
<1>9. IndexGiven'
  BY <1>2, <1>4 DEF UfsInv, UfsTypes, IndexGiven, Serving
<1>10. CallsAreOpen'
  <2>1. ASSUME NEW g \in Systems, Mounted(g) PROVE \E i \in 1 .. Len(table') : table'[i] = g
    BY <1>4, <1>5, <2>1 DEF Mounted
  <2>2. QED
    BY <1>2, <2>1 DEF UfsInv, CallsAreOpen, Mounted
<1>11. OwnerIsSending'
  BY <1>1, <1>2, <1>6 DEF UfsInv, OwnerIsSending
<1>12. ChannelAligned'
  <2> SUFFICES ASSUME NEW g \in Systems, chan'[g].alive
               PROVE  IF chan'[g].inFlight = NoOne THEN chan'[g].req = <<>> /\ chan'[g].rsp = <<>>
                      ELSE /\ call[chan'[g].inFlight].pc = "sent" /\ call[chan'[g].inFlight].fs = g
                           /\ chan'[g].req \o chan'[g].rsp = <<call[chan'[g].inFlight].tag>>
    BY <1>2 DEF ChannelAligned
  <2>1. chan[g].alive => IF chan[g].inFlight = NoOne THEN chan[g].req = <<>> /\ chan[g].rsp = <<>>
                         ELSE /\ call[chan[g].inFlight].pc = "sent" /\ call[chan[g].inFlight].fs = g
                              /\ chan[g].req \o chan[g].rsp = <<call[chan[g].inFlight].tag>>
    BY DEF UfsInv, CallsSound, ChannelAligned
  <2>2. QED
    BY <1>1, <1>6, <2>1
<1>13. CallersAreServed'
  BY <1>2, <1>3, <1>6 DEF UfsInv, CallsSound, CallersAreServed, CallsAreOpen
<1>14. QED
  BY <1>7, <1>8, <1>9, <1>10, <1>11, <1>12, <1>13 DEF UfsInv, CallsSound

\* A daemon may unmount another one's file system: the calls in it, if there are any, are wild, and
\* the others are still mounted, if at another index.
LEMMA LeaveKeeps ==
  ASSUME UfsInv, ~wild, NEW f \in Systems, Leave(f)
  PROVE  UfsInv'
<1> DEFINE m == daemon[f].mid
<1>1. /\ m \in Nat /\ m > 0 /\ Umount(m) /\ UNCHANGED call
      /\ daemon' = [daemon EXCEPT ![f] = [daemon[f] EXCEPT !.st = "off"]]
  BY DEF UfsInv, UfsTypes, IndexGiven, Leave
<1> HIDE DEF m
<1>2. daemon' \in [Systems -> [st : {"off", "serving"}, mid : Nat]] /\ IndexGiven'
  BY <1>1 DEF UfsInv, UfsTypes, IndexGiven, Serving
<1>3. CASE UNCHANGED <<table, chan, wild>>
  <2>1. UfsTypes'
    BY <1>1, <1>2, <1>3 DEF UfsInv, UfsTypes
  <2>2. MountedOnce' /\ CallsAreOpen' /\ OwnerIsSending' /\ CallsSound'
    BY ZenonT(60), <1>1, <1>3 DEF UfsInv, MountedOnce, CallsAreOpen, Mounted, OwnerIsSending, CallsSound, ChannelAligned,
                      CallersAreServed
  <2>3. QED
    BY <1>2, <2>1, <2>2 DEF UfsInv
<1>4. CASE ~UNCHANGED <<table, chan, wild>>
  <2> DEFINE e == table[m]
             n == Len(table)
  <2>1. /\ m \in 1 .. n
        /\ table' = [i \in 1 .. n - 1 |-> IF i < m THEN table[i] ELSE table[i + 1]]
        /\ chan' = [chan EXCEPT ![e] = NoChan]
        /\ wild' = (Users(e) # {})
    BY <1>1, <1>4 DEF Umount, UfsInv, UfsTypes
  <2>2. n \in Nat /\ e \in Systems /\ \A i \in 1 .. n : table[i] \in Systems
    BY <2>1 DEF UfsInv, UfsTypes
  <2> HIDE DEF e, n
  <2>3. table' \in Seq(Systems) /\ Len(table') = n - 1
    <3>1. n - 1 \in Nat /\ \A i \in 1 .. n - 1 : (IF i < m THEN table[i] ELSE table[i + 1]) \in Systems
      BY <1>1, <2>1, <2>2
    <3>2. QED
      BY <2>1, <3>1
  <2>4. NoChan \in ChanType /\ NoChan.inFlight = NoOne /\ ~NoChan.alive
    BY NoChanFacts
  <2>5. chan'[e] = NoChan /\ \A g \in Systems \ {e} : chan'[g] = chan[g]
    BY <2>1, <2>2 DEF UfsInv, UfsTypes
  <2>6. UfsTypes'
    <3>1. chan' \in [Systems -> ChanType] /\ wild' \in BOOLEAN
      BY <2>1, <2>2, <2>4 DEF UfsInv, UfsTypes
    <3>2. QED
      BY <1>1, <1>2, <2>3, <3>1 DEF UfsInv, UfsTypes
  <2>7. MountedOnce'
    <3>1. \A i, j \in 1 .. n : i # j => table[i] # table[j]
      BY DEF UfsInv, MountedOnce, n
    <3>2. ASSUME NEW i \in 1 .. n - 1
          PROVE  \E k \in 1 .. n : table'[i] = table[k] /\ (i < m => k = i) /\ (~(i < m) => k = i + 1)
      <4>1. i \in 1 .. n /\ i + 1 \in 1 .. n
        BY <2>2
      <4>2. table'[i] = IF i < m THEN table[i] ELSE table[i + 1]
        BY <2>1
      <4>3. QED
        BY <4>1, <4>2
    <3>3. ASSUME NEW i \in 1 .. n - 1, NEW j \in 1 .. n - 1, i # j PROVE table'[i] # table'[j]
      <4>1. PICK k \in 1 .. n : table'[i] = table[k] /\ (i < m => k = i) /\ (~(i < m) => k = i + 1)
        BY <3>2
      <4>2. PICK l \in 1 .. n : table'[j] = table[l] /\ (j < m => l = j) /\ (~(j < m) => l = j + 1)
        BY <3>2
      <4>3. k # l
        BY <1>1, <2>2, <3>3, <4>1, <4>2
      <4>4. QED
        BY <3>1, <4>1, <4>2, <4>3
    <3>4. QED
      BY <2>3, <3>3 DEF MountedOnce
  <2>8. ~wild' => \A c \in Callers : call[c].fs # e
    BY <2>1 DEF Users
  <2>9. CallsAreOpen'
    <3>1. ASSUME NEW g \in Systems, g # e, Mounted(g) PROVE \E i \in 1 .. n - 1 : table'[i] = g
      <4>1. PICK i \in 1 .. n : table[i] = g
        BY <3>1 DEF Mounted, n
      <4>2. i # m
        BY <3>1, <4>1 DEF e
      <4>3. CASE i < m
        BY <1>1, <2>1, <2>2, <4>1, <4>3
      <4>4. CASE i > m
        <5>1. i - 1 \in 1 .. n - 1 /\ ~(i - 1 < m) /\ (i - 1) + 1 = i
          BY <1>1, <2>1, <2>2, <4>4
        <5>2. table'[i - 1] = g
          BY <2>1, <4>1, <5>1
        <5>3. QED
          BY <5>1, <5>2
      <4>5. QED
        BY <1>1, <2>2, <4>2, <4>3, <4>4
    <3>2. QED
      BY <1>1, <2>3, <2>8, <3>1 DEF UfsInv, CallsAreOpen, Mounted
  <2>10. OwnerIsSending'
    BY <1>1, <2>4, <2>5 DEF UfsInv, OwnerIsSending
  <2>11. ChannelAligned'
    <3> SUFFICES ASSUME NEW g \in Systems, chan'[g].alive
                 PROVE  IF chan'[g].inFlight = NoOne THEN chan'[g].req = <<>> /\ chan'[g].rsp = <<>>
                        ELSE /\ call[chan'[g].inFlight].pc = "sent" /\ call[chan'[g].inFlight].fs = g
                             /\ chan'[g].req \o chan'[g].rsp = <<call[chan'[g].inFlight].tag>>
      BY <1>1 DEF ChannelAligned
    <3>1. g # e /\ chan'[g] = chan[g]
      BY <2>4, <2>5
    <3>2. chan[g].alive => IF chan[g].inFlight = NoOne THEN chan[g].req = <<>> /\ chan[g].rsp = <<>>
                           ELSE /\ call[chan[g].inFlight].pc = "sent" /\ call[chan[g].inFlight].fs = g
                                /\ chan[g].req \o chan[g].rsp = <<call[chan[g].inFlight].tag>>
      BY DEF UfsInv, CallsSound, ChannelAligned
    <3>3. QED
      BY <3>1, <3>2
  <2>12. CallersAreServed'
    BY <1>1, <2>5, <2>8 DEF UfsInv, CallsSound, CallersAreServed, CallsAreOpen
  <2>13. QED
    BY <1>2, <2>6, <2>7, <2>9, <2>10, <2>11, <2>12 DEF UfsInv, CallsSound
<1>5. QED
  BY <1>3, <1>4

LEMMA UfsKeeps == UfsInv /\ [UfsNext]_ufsVars => UfsInv'
<1> SUFFICES ASSUME UfsInv, [UfsNext]_ufsVars PROVE UfsInv'
  OBVIOUS
<1>1. CASE UNCHANGED ufsVars
  <2>1. UNCHANGED <<table, chan, daemon, call, wild>>
    BY <1>1 DEF ufsVars
  <2>2. UfsTypes'
    BY <2>1 DEF UfsInv, UfsTypes
  <2>3. MountedOnce' /\ IndexGiven' /\ CallsAreOpen' /\ OwnerIsSending'
    BY <2>1 DEF UfsInv, MountedOnce, IndexGiven, Serving, CallsAreOpen, Mounted, OwnerIsSending
  <2>4. CallsSound'
    BY <2>1 DEF UfsInv, CallsSound, ChannelAligned, CallersAreServed
  <2>5. QED
    BY <2>2, <2>3, <2>4 DEF UfsInv
<1>2. ASSUME ~wild, NEW f \in Systems, Mount(f) \/ Close(f) \/ Serve(f) \/ Die(f) \/ Leave(f) PROVE UfsInv'
  BY <1>2, MountKeeps, CloseKeeps, ServeKeeps, DieKeeps, LeaveKeeps
<1>3. ASSUME ~wild, NEW f \in Systems, NEW c \in Callers, NEW opens \in BOOLEAN, Begin(c, f, opens) PROVE UfsInv'
  BY <1>3, BeginKeeps
<1>4. ASSUME ~wild, NEW c \in Callers, Retry(c) \/ Receive(c) \/ GiveUp(c) PROVE UfsInv'
  BY <1>4, RetryKeeps, ReceiveKeeps, GiveUpKeeps
<1>5. QED
  BY <1>1, <1>2, <1>3, <1>4 DEF UfsNext

\* However many clients call however many file systems, and whatever dies, is signalled or times out:
\* a caller gets the answer to its own request or none, and nobody waits for a channel that
\* nobody uses (userfs_call).
THEOREM CallersGetTheirOwn == UfsSpec => []CallsSound
<1>1. UfsInv => CallsSound
  BY DEF UfsInv
<1>2. QED
  BY UfsStarts, UfsKeeps, <1>1, PTL DEF UfsSpec
=============================================================================
