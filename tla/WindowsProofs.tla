--------------------------- MODULE WindowsProofs ---------------------------
(***************************************************************************)
(* The window system is sound for any number of programs, windows, slots,  *)
(* cells and keys and any kinds and places: the kernel's table whatever    *)
(* calls anybody makes, and the server over it, whose clients exit at any  *)
(* point.                                                                  *)
(***************************************************************************)
EXTENDS Windows, WmFocus, FiniteSetTheorems, SequenceTheorems, WellFoundedInduction, TLAPS

(***************************************************************************)
(* Stacks.                                                                 *)
(***************************************************************************)
Kept(q, S) == {i \in DOMAIN q : q[i] \notin S}
Rank(q, S, i) == Cardinality({j \in Kept(q, S) : j <= i})
Distinct(q) == \A i, j \in 1 .. Len(q) : q[i] = q[j] => i = j

\* The ranks of the positions that stay grow with the position and are bounded by their number.
LEMMA RanksGrow ==
  ASSUME NEW T, NEW q \in Seq(T), NEW S
  PROVE  /\ IsFiniteSet(Kept(q, S)) /\ Cardinality(Kept(q, S)) \in Nat
         /\ \A i \in Kept(q, S) : Rank(q, S, i) \in 1 .. Cardinality(Kept(q, S))
         /\ \A i, j \in Kept(q, S) : i < j => Rank(q, S, i) < Rank(q, S, j)
<1> DEFINE P == Kept(q, S)
<1> DEFINE B(i) == {j \in P : j <= i}
<1>1. DOMAIN q = 1 .. Len(q) /\ Len(q) \in Nat
  OBVIOUS
<1>2. P \subseteq 1 .. Len(q) /\ IsFiniteSet(1 .. Len(q))
  BY <1>1, FS_Interval DEF Kept
<1>3. IsFiniteSet(P) /\ Cardinality(P) \in Nat
  BY <1>2, FS_Subset, FS_CardinalityType
<1>r. \A i : Rank(q, S, i) = Cardinality(B(i))
  BY DEF Rank
<1>i. \A i \in P : i \in Int
  BY <1>2
<1> HIDE DEF P
<1>4. ASSUME NEW i \in P PROVE /\ IsFiniteSet(B(i)) /\ Cardinality(B(i)) \in 1 .. Cardinality(P)
  <2>1. B(i) \in SUBSET P /\ i \in B(i)
    BY <1>i
  <2> HIDE DEF B
  <2>2. IsFiniteSet(B(i)) /\ Cardinality(B(i)) <= Cardinality(P) /\ Cardinality(B(i)) \in Nat
    BY <1>3, <2>1, FS_Subset, FS_CardinalityType
  <2>3. Cardinality(B(i)) # 0
    BY <2>1, <2>2, FS_EmptySet
  <2>4. QED
    BY <1>3, <2>2, <2>3
<1>5. ASSUME NEW i \in P, NEW j \in P, i < j PROVE Cardinality(B(i)) < Cardinality(B(j))
  <2>1. B(i) \in SUBSET B(j) /\ j \in B(j) /\ j \notin B(i)
    BY <1>5, <1>i
  <2> HIDE DEF B
  <2>2. IsFiniteSet(B(j)) /\ Cardinality(B(i)) \in Nat /\ Cardinality(B(j)) \in Nat
    BY <1>3, <1>4
  <2>3. Cardinality(B(i)) <= Cardinality(B(j)) /\ Cardinality(B(i)) # Cardinality(B(j))
    BY <2>1, <2>2, FS_Subset
  <2>4. QED
    BY <2>2, <2>3
<1>6. QED
  BY <1>3, <1>4, <1>5, <1>r DEF P

\* What Without puts at n is at the one position of rank n.
LEMMA RankIsTaken ==
  ASSUME NEW T, NEW q \in Seq(T), NEW S, NEW n \in 1 .. Cardinality(Kept(q, S))
  PROVE  \E i \in Kept(q, S) : Rank(q, S, i) = n
<1> DEFINE P == Kept(q, S)
<1> DEFINE N == Cardinality(P)
<1> DEFINE f == [i \in P |-> Rank(q, S, i)]
<1>1. /\ IsFiniteSet(P) /\ N \in Nat
      /\ \A i \in P : Rank(q, S, i) \in 1 .. N
      /\ \A i, j \in P : i < j => Rank(q, S, i) < Rank(q, S, j)
  BY RanksGrow
<1>2. P \subseteq Int
  BY DEF Kept
<1> SUFFICES ASSUME \A i \in P : Rank(q, S, i) # n PROVE FALSE
  OBVIOUS
<1> HIDE DEF P
<1>3. f \in [P -> (1 .. N) \ {n}]
  BY <1>1
<1>n. n \in 1 .. N
  BY DEF P
<1>4. IsFiniteSet((1 .. N) \ {n}) /\ Cardinality((1 .. N) \ {n}) < N
  <2>1. IsFiniteSet(1 .. N) /\ Cardinality(1 .. N) = N
    BY <1>1, FS_Interval
  <2>2. IsFiniteSet((1 .. N) \ {n}) /\ Cardinality((1 .. N) \ {n}) = N - 1
    BY <1>n, <2>1, FS_RemoveElement
  <2>3. QED
    BY <1>1, <2>2
<1>5. \E x, y \in P : x # y /\ f[x] = f[y]
  <2> DEFINE M == (1 .. N) \ {n}
  <2>1. IsFiniteSet(M) /\ Cardinality(M) < Cardinality(P) /\ f \in [P -> M] /\ IsFiniteSet(P)
    BY <1>1, <1>3, <1>4
  <2> HIDE DEF f, M
  <2>2. QED
    BY <2>1, FS_PigeonHole
<1>6. PICK x \in P, y \in P : x # y /\ Rank(q, S, x) = Rank(q, S, y)
  BY <1>5
<1>7. x < y \/ y < x
  BY <1>2, <1>6
<1>8. Rank(q, S, x) \in Int /\ Rank(q, S, y) \in Int
  BY <1>1
<1>9. QED
  BY <1>1, <1>6, <1>7, <1>8

\* Without keeps the others, once if they were there once, in their order.
LEMMA WithoutFacts ==
  ASSUME NEW T, NEW q \in Seq(T), NEW S
  PROVE  /\ Without(q, S) \in Seq(T)
         /\ ToSet(Without(q, S)) = ToSet(q) \ S
         /\ Distinct(q) => Distinct(Without(q, S))
         /\ \A a, b : Above(Without(q, S), a, b) <=> Above(q, a, b) /\ a \notin S /\ b \notin S
<1> DEFINE P == Kept(q, S)
<1> DEFINE N == Cardinality(P)
<1> DEFINE at == [n \in 1 .. N |-> CHOOSE i \in P : Rank(q, S, i) = n]
<1> DEFINE w == Without(q, S)
<1>1. /\ IsFiniteSet(P) /\ N \in Nat
      /\ \A i \in P : Rank(q, S, i) \in 1 .. N
      /\ \A i, j \in P : i < j => Rank(q, S, i) < Rank(q, S, j)
  BY RanksGrow
<1>2. P \subseteq 1 .. Len(q) /\ \A i \in 1 .. Len(q) : q[i] \in T /\ (i \in P <=> q[i] \notin S)
  BY DEF Kept
<1>i. \A i \in P : i \in Int
  BY DEF Kept
<1>3. ASSUME NEW n \in 1 .. N PROVE at[n] \in P /\ Rank(q, S, at[n]) = n
  <2>1. \E i \in P : Rank(q, S, i) = n
    BY RankIsTaken
  <2>2. at[n] = CHOOSE i \in P : Rank(q, S, i) = n
    OBVIOUS
  <2> HIDE DEF P, at
  <2>3. QED
    BY <2>1, <2>2
<1>4. w = [n \in 1 .. N |-> q[at[n]]]
  BY DEF Without, Kept, Rank
<1> HIDE DEF P, at, w
<1>5. w \in Seq(T) /\ Len(w) = N /\ \A n \in 1 .. N : w[n] = q[at[n]] /\ at[n] \in 1 .. Len(q)
  <2>1. w \in [1 .. N -> T]
    BY <1>2, <1>3, <1>4
  <2>2. w \in Seq(T)
    BY <1>1, <2>1, SeqDef
  <2>3. Len(w) = N
    BY <1>1, <2>1, <2>2
  <2>4. ASSUME NEW n \in 1 .. N PROVE w[n] = q[at[n]] /\ at[n] \in 1 .. Len(q)
    BY <1>2, <1>3, <1>4
  <2>5. QED
    BY <2>2, <2>3, <2>4
<1>6. ASSUME NEW m \in 1 .. N, NEW n \in 1 .. N PROVE (at[m] < at[n] <=> m < n) /\ (at[m] = at[n] <=> m = n)
  <2>1. at[m] \in P /\ at[n] \in P /\ Rank(q, S, at[m]) = m /\ Rank(q, S, at[n]) = n
    BY <1>3
  <2>2. at[m] \in Int /\ at[n] \in Int
    BY <1>i, <2>1
  <2>3. QED
    BY <1>1, <2>1, <2>2
<1>7. ASSUME NEW i \in P PROVE \E n \in 1 .. N : at[n] = i
  <2> DEFINE n == Rank(q, S, i)
  <2>1. n \in 1 .. N
    BY <1>1
  <2>2. at[n] \in P /\ Rank(q, S, at[n]) = n
    BY <1>3, <2>1
  <2>3. at[n] \in Int /\ i \in Int
    BY <1>i, <2>2
  <2>4. ~(at[n] < i) /\ ~(i < at[n])
    BY <1>1, <2>1, <2>2
  <2>5. at[n] = i
    BY <2>3, <2>4
  <2>6. QED
    BY <2>1, <2>5
<1>8. ToSet(w) = ToSet(q) \ S
  <2>1. ASSUME NEW x \in ToSet(w) PROVE x \in ToSet(q) \ S
    <3>1. PICK n \in 1 .. N : x = w[n]
      BY <1>5, <2>1 DEF ToSet
    <3>2. QED
      BY <1>2, <1>3, <1>5, <3>1 DEF ToSet
  <2>2. ASSUME NEW x \in ToSet(q) \ S PROVE x \in ToSet(w)
    <3>1. PICK i \in 1 .. Len(q) : x = q[i]
      BY DEF ToSet
    <3>2. PICK n \in 1 .. N : at[n] = i
      BY <1>2, <1>7, <3>1
    <3>3. x = w[n]
      BY <1>5, <3>1, <3>2
    <3>4. DOMAIN w = 1 .. N
      BY <1>4
    <3>5. QED
      BY <3>3, <3>4 DEF ToSet
  <2>3. QED
    BY <2>1, <2>2
<1>9. ASSUME Distinct(q) PROVE Distinct(w)
  <2> SUFFICES ASSUME NEW m \in 1 .. N, NEW n \in 1 .. N, w[m] = w[n] PROVE m = n
    BY <1>5 DEF Distinct
  <2>0. /\ at[m] \in 1 .. Len(q) /\ at[n] \in 1 .. Len(q)
        /\ w[m] = q[at[m]] /\ w[n] = q[at[n]]
    BY <1>5
  <2>1. at[m] = at[n]
    <3>1. q[at[m]] = q[at[n]]
      BY <2>0
    <3>2. \A i, j \in 1 .. Len(q) : q[i] = q[j] => i = j
      BY <1>9 DEF Distinct
    <3>3. QED
      BY ONLY <2>0, <3>1, <3>2
  <2>2. ~(m < n) /\ ~(n < m)
    <3>1. at[m] \in Int
      BY <1>i, <1>3
    <3>2. QED
      BY <1>6, <2>1, <3>1
  <2>3. QED
    BY <1>1, <2>2
<1>10. ASSUME NEW a, NEW b PROVE Above(w, a, b) <=> Above(q, a, b) /\ a \notin S /\ b \notin S
  <2>1. ASSUME Above(w, a, b) PROVE Above(q, a, b) /\ a \notin S /\ b \notin S
    <3>1. PICK i \in 1 .. N, j \in 1 .. N : i > j /\ w[i] = a /\ w[j] = b
      BY <1>5, <2>1 DEF Above
    <3>2. at[i] \in P /\ at[j] \in P /\ at[j] < at[i] /\ q[at[i]] = a /\ q[at[j]] = b
      BY <1>3, <1>5, <1>6, <3>1
    <3>3. at[i] \in 1 .. Len(q) /\ at[j] \in 1 .. Len(q) /\ at[i] > at[j]
      BY <1>5, <3>2
    <3>4. QED
      BY <1>2, <3>2, <3>3 DEF Above
  <2>2. ASSUME Above(q, a, b), a \notin S, b \notin S PROVE Above(w, a, b)
    <3>1. PICK i \in 1 .. Len(q), j \in 1 .. Len(q) : i > j /\ q[i] = a /\ q[j] = b
      BY <2>2 DEF Above
    <3>2. PICK m \in 1 .. N : at[m] = i
      BY <1>2, <1>7, <2>2, <3>1
    <3>3. PICK n \in 1 .. N : at[n] = j
      BY <1>2, <1>7, <2>2, <3>1
    <3>4. m > n /\ w[m] = a /\ w[n] = b
      BY <1>5, <1>6, <3>1, <3>2, <3>3
    <3>5. QED
      BY <1>5, <3>4 DEF Above
  <2>3. QED
    BY <2>1, <2>2
<1>11. QED
  BY <1>5, <1>8, <1>9, <1>10 DEF w

\* A finite set of numbers that is not empty has a least and a greatest element.
LEMMA ExtremesExist ==
  ASSUME NEW S \in SUBSET Nat, IsFiniteSet(S), S # {}
  PROVE  Min(S) \in S /\ Max(S) \in S
<1> DEFINE Below(n) == {m \in S : m <= n}
<1> DEFINE Over(n) == {m \in S : m >= n}
<1> DEFINE R == StrictSubsetOrdering(S)
<1>i. \A n \in S : n \in Int
  OBVIOUS
<1>1. IsWellFoundedOn(R, FiniteSubsetsOf(S))
  BY FS_StrictSubsetOrderingWellFounded
<1>2. ASSUME NEW U \in SUBSET (SUBSET S), U # {} PROVE \E x \in U : \A y \in U : ~(y \subseteq x /\ y # x)
  <2>1. U \subseteq FiniteSubsetsOf(S)
    BY FS_Subset DEF FiniteSubsetsOf
  <2>2. PICK x \in U : \A y \in U : ~(<<y, x>> \in R)
    <3> HIDE DEF R
    <3>1. QED
      BY <1>1, <1>2, <2>1, WFMin
  <2>3. QED
    BY <2>2 DEF StrictSubsetOrdering
<1>3. \E k \in S : \A n \in S : k <= n
  <2> DEFINE U == {Below(n) : n \in S}
  <2>1. U \in SUBSET (SUBSET S) /\ U # {}
    OBVIOUS
  <2>2. PICK x \in U : \A y \in U : ~(y \subseteq x /\ y # x)
    <3> HIDE DEF U
    <3>1. QED
      BY <1>2, <2>1
  <2>3. PICK k \in S : x = Below(k)
    OBVIOUS
  <2>4. ASSUME NEW n \in S, n < k PROVE FALSE
    <3>1. Below(n) \subseteq x /\ k \in x /\ k \notin Below(n)
      <4>1. k \in Int /\ n \in Int
        BY <1>i
      <4>2. ASSUME NEW m \in Below(n) PROVE m \in Below(k)
        <5>1. m \in Int
          BY <1>i
        <5>2. QED
          BY <2>4, <4>1, <5>1
      <4>3. k \in Below(k) /\ k \notin Below(n)
        BY <2>4, <4>1
      <4>4. QED
        BY <2>3, <4>2, <4>3
    <3>2. QED
      BY <2>2, <3>1
  <2>5. QED
    BY <2>4
<1>4. \E k \in S : \A n \in S : k >= n
  <2> DEFINE U == {Over(n) : n \in S}
  <2>1. U \in SUBSET (SUBSET S) /\ U # {}
    OBVIOUS
  <2>2. PICK x \in U : \A y \in U : ~(y \subseteq x /\ y # x)
    <3> HIDE DEF U
    <3>1. QED
      BY <1>2, <2>1
  <2>3. PICK k \in S : x = Over(k)
    OBVIOUS
  <2>4. ASSUME NEW n \in S, n > k PROVE FALSE
    <3>1. Over(n) \subseteq x /\ k \in x /\ k \notin Over(n)
      <4>1. k \in Int /\ n \in Int
        BY <1>i
      <4>2. ASSUME NEW m \in Over(n) PROVE m \in Over(k)
        <5>1. m \in Int
          BY <1>i
        <5>2. QED
          BY <2>4, <4>1, <5>1
      <4>3. k \in Over(k) /\ k \notin Over(n)
        BY <2>4, <4>1
      <4>4. QED
        BY <2>3, <4>2, <4>3
    <3>2. QED
      BY <2>2, <3>1
  <2>5. QED
    BY <2>4
<1>5. QED
  BY <1>3, <1>4 DEF Min, Max

(***************************************************************************)
(* The kernel's table.                                                     *)
(***************************************************************************)
Shadow == [owner : Clients \union {NoClient}, for : Nat, kind : Kinds, min : BOOLEAN, pass : BOOLEAN]

Tables == [win : [KSlots -> Shadow], z : Seq(KSlots), focus : KSlots \union {-1}, held : SUBSET Keys,
           queued : [KSlots -> Int], down : [KSlots -> SUBSET Keys], phantom : BOOLEAN, lost : BOOLEAN]

\* The stack has the slots in use once each, and the focus is one of them.
Table(K) ==
    /\ K \in Tables
    /\ Distinct(K.z) /\ ToSet(K.z) = {k \in KSlots : InUse(K, k)}
    /\ K.focus # -1 => InUse(K, K.focus)

\* While nobody has the keyboard no key is held: a window that then takes the focus starts with none.
Paired(K) ==
    /\ K.lost \/ /\ ~K.phantom
                 /\ \A k \in KSlots : K.down[k] = IF k = K.focus THEN K.held ELSE {}
    /\ K.focus = -1 => K.held = {}

\* What a change of focus leaves alone.
LEMMA SetFocusKeeps ==
  ASSUME NEW K, Table(K), Paired(K), NEW k \in KSlots \union {-1}, k # -1 => InUse(K, k)
  PROVE  /\ Table(SetFocus(K, k)) /\ Paired(SetFocus(K, k))
         /\ SetFocus(K, k).win = K.win /\ SetFocus(K, k).z = K.z
<1> DEFINE R == SynthesizeReleases(K, K.focus)
<1> DEFINE N == SetFocus(K, k)
<1>1. CASE k = K.focus
  BY <1>1 DEF SetFocus
<1>2. CASE k # K.focus /\ InUse(K, K.focus)
  <2>1. Cardinality(K.held) \in Nat /\ RingCap \in Nat
    BY FS_Subset, FS_CardinalityType, WmAssumption DEF Table, Tables
  <2>2. N = [R EXCEPT !.focus = k]
    BY <1>2 DEF SetFocus
  <2>3. K.focus \in KSlots
    BY <1>2 DEF InUse
  <2>4. CASE K.queued[K.focus] + Cardinality(K.held) > RingCap
    <3>1. N = [K EXCEPT !.held = {}, !.queued[K.focus] = RingCap, !.lost = TRUE, !.focus = k]
      BY <2>2, <2>4 DEF SynthesizeReleases
    <3>k. K \in Tables
      BY DEF Table
    <3>r. N = [win |-> K.win, z |-> K.z, focus |-> k, held |-> {},
               queued |-> [K.queued EXCEPT ![K.focus] = RingCap], down |-> K.down,
               phantom |-> K.phantom, lost |-> TRUE]
      BY <3>k, <3>1 DEF Tables
    <3>2. /\ N \in Tables /\ N.win = K.win /\ N.z = K.z /\ N.focus = k
          /\ N.held = {} /\ N.lost
      BY <2>1, <2>3, <3>k, <3>r DEF Tables
    <3>3. QED
      BY <3>2 DEF Table, Paired, InUse
  <2>5. CASE ~(K.queued[K.focus] + Cardinality(K.held) > RingCap)
    <3>1. N = [K EXCEPT !.held = {}, !.queued[K.focus] = @ + Cardinality(K.held),
                        !.down[K.focus] = @ \ K.held, !.phantom = @ \/ ~(K.held \subseteq K.down[K.focus]),
                        !.focus = k]
      BY <2>2, <2>5 DEF SynthesizeReleases
    <3>k. K \in Tables
      BY DEF Table
    <3> DEFINE d == [K.down EXCEPT ![K.focus] = @ \ K.held]
               q == [K.queued EXCEPT ![K.focus] = @ + Cardinality(K.held)]
               p == K.phantom \/ ~(K.held \subseteq K.down[K.focus])
    <3>r. N = [win |-> K.win, z |-> K.z, focus |-> k, held |-> {}, queued |-> q, down |-> d, phantom |-> p, lost |-> K.lost]
      BY <3>k, <3>1 DEF Tables
    <3>q. q \in [KSlots -> Int] /\ d \in [KSlots -> SUBSET Keys] /\ p \in BOOLEAN
      BY <2>1, <2>3, <3>k DEF Tables
    <3>d. \A o \in KSlots : d[o] = IF o = K.focus THEN K.down[o] \ K.held ELSE K.down[o]
      BY <3>k DEF Tables
    <3>p. p <=> K.phantom \/ ~(K.held \subseteq K.down[K.focus])
      BY <3>k DEF Tables
    <3> HIDE DEF d, q, p
    <3>2. /\ N \in Tables /\ N.win = K.win /\ N.z = K.z /\ N.focus = k
          /\ N.held = {} /\ N.lost = K.lost /\ N.down = d /\ N.phantom = p
      BY <2>1, <2>3, <3>k, <3>r, <3>q DEF Tables
    <3> HIDE DEF N
    <3>3. Table(N)
      BY <3>2 DEF Table, InUse
    <3>4. Paired(N)
      BY <2>3, <3>2, <3>d, <3>p DEF Paired
    <3>5. QED
      BY <3>2, <3>3, <3>4 DEF N
  <2>6. QED
    BY <2>4, <2>5
<1>3. CASE k # K.focus /\ ~InUse(K, K.focus)
  <2>1. N = [K EXCEPT !.focus = k] /\ K.focus = -1 /\ K \in Tables
    BY <1>3 DEF SetFocus, Table
  <2>r. N = [win |-> K.win, z |-> K.z, focus |-> k, held |-> K.held, queued |-> K.queued, down |-> K.down,
             phantom |-> K.phantom, lost |-> K.lost]
    BY <2>1 DEF Tables
  <2>2. /\ N \in Tables /\ N.win = K.win /\ N.z = K.z /\ N.focus = k /\ N.held = K.held
        /\ N.lost = K.lost /\ N.phantom = K.phantom /\ N.down = K.down
    BY <2>1, <2>r DEF Tables
  <2> HIDE DEF N
  <2>3. Table(N)
    BY <2>2 DEF Table, InUse
  <2>4. K.held = {} /\ \A o \in KSlots : o # -1
    BY <2>1, WmAssumption DEF Paired
  <2>5. Paired(N)
    BY <2>1, <2>2, <2>4 DEF Paired
  <2>6. QED
    BY <2>2, <2>3, <2>5 DEF N
<1>4. QED
  BY <1>1, <1>2, <1>3

\* What a table and its stack are, field by field.
LEMMA Fields ==
  ASSUME NEW K, Table(K)
  PROVE  /\ K \in Tables
         /\ K.win \in [KSlots -> Shadow] /\ K.z \in Seq(KSlots) /\ K.focus \in KSlots \union {-1}
         /\ K.held \in SUBSET Keys /\ K.queued \in [KSlots -> Int] /\ K.down \in [KSlots -> SUBSET Keys]
         /\ K.phantom \in BOOLEAN /\ K.lost \in BOOLEAN
         /\ Distinct(K.z) /\ ToSet(K.z) = {k \in KSlots : K.win[k].owner # NoClient}
         /\ K.focus # -1 => K.focus \in KSlots /\ K.win[K.focus].owner # NoClient
         /\ -1 \notin KSlots
BY WmAssumption DEF Table, Tables, InUse

\* The highest element of a stack is in it.
LEMMA LastIsIn ==
  ASSUME NEW T, NEW q \in Seq(T), q # <<>>
  PROVE  Last(q) \in ToSet(q)
<1>1. Len(q) \in 1 .. Len(q)
  OBVIOUS
<1>2. QED
  BY <1>1 DEF Last, ToSet

\* What comes on top of a stack.
LEMMA OnTop ==
  ASSUME NEW T, NEW q \in Seq(T), NEW x \in T
  PROVE  /\ Append(q, x) \in Seq(T) /\ ToSet(Append(q, x)) = ToSet(q) \union {x}
         /\ Distinct(q) /\ x \notin ToSet(q) => Distinct(Append(q, x))
         /\ \A a, b : Above(Append(q, x), a, b) <=> Above(q, a, b) \/ (a = x /\ b \in ToSet(q))
<1> DEFINE r == Append(q, x)
<1>1. /\ r \in Seq(T) /\ Len(r) = Len(q) + 1 /\ Len(q) \in Nat
      /\ \A n \in 1 .. Len(q) : r[n] = q[n]
      /\ r[Len(q) + 1] = x
  BY AppendProperties
<1>2. DOMAIN r = 1 .. Len(q) + 1 /\ DOMAIN q = 1 .. Len(q)
  BY <1>1
<1> HIDE DEF r
<1>3. ToSet(r) = ToSet(q) \union {x}
  <2>1. ASSUME NEW y \in ToSet(r) PROVE y \in ToSet(q) \union {x}
    <3>1. PICK n \in 1 .. Len(q) + 1 : y = r[n]
      BY <1>2, <2>1 DEF ToSet
    <3>2. QED
      BY <1>1, <1>2, <3>1 DEF ToSet
  <2>2. ASSUME NEW y \in ToSet(q) \union {x} PROVE y \in ToSet(r)
    <3>1. \E n \in 1 .. Len(q) + 1 : y = r[n]
      BY <1>1, <1>2, <2>2 DEF ToSet
    <3>2. QED
      BY <1>2, <3>1 DEF ToSet
  <2>3. QED
    BY <2>1, <2>2
<1>4. ASSUME Distinct(q), x \notin ToSet(q) PROVE Distinct(r)
  <2>1. \A n \in 1 .. Len(q) : q[n] # x
    BY <1>2, <1>4 DEF ToSet
  <2>2. QED
    BY <1>1, <1>4, <2>1 DEF Distinct
<1>5. ASSUME NEW a, NEW b PROVE Above(r, a, b) <=> Above(q, a, b) \/ (a = x /\ b \in ToSet(q))
  <2>1. ASSUME Above(r, a, b) PROVE Above(q, a, b) \/ (a = x /\ b \in ToSet(q))
    <3>1. PICK i \in 1 .. Len(q) + 1, j \in 1 .. Len(q) + 1 : i > j /\ r[i] = a /\ r[j] = b
      BY <1>1, <2>1 DEF Above
    <3>2. j \in 1 .. Len(q) /\ q[j] = b /\ b \in ToSet(q)
      BY <1>1, <1>2, <3>1 DEF ToSet
    <3>3. CASE i = Len(q) + 1
      BY <1>1, <3>1, <3>2, <3>3
    <3>4. CASE i # Len(q) + 1
      <4>1. i \in 1 .. Len(q) /\ q[i] = a
        BY <1>1, <3>1, <3>4
      <4>2. QED
        BY <3>1, <3>2, <4>1 DEF Above
    <3>5. QED
      BY <3>3, <3>4
  <2>2. ASSUME Above(q, a, b) PROVE Above(r, a, b)
    <3>1. PICK i \in 1 .. Len(q), j \in 1 .. Len(q) : i > j /\ q[i] = a /\ q[j] = b
      BY <2>2 DEF Above
    <3>2. i \in 1 .. Len(r) /\ j \in 1 .. Len(r) /\ r[i] = a /\ r[j] = b
      BY <1>1, <3>1
    <3>3. QED
      BY <3>1, <3>2 DEF Above
  <2>3. ASSUME a = x, b \in ToSet(q) PROVE Above(r, a, b)
    <3>1. PICK j \in 1 .. Len(q) : q[j] = b
      BY <1>2, <2>3 DEF ToSet
    <3>2. Len(q) + 1 \in 1 .. Len(r) /\ j \in 1 .. Len(r) /\ Len(q) + 1 > j /\ r[j] = b /\ r[Len(q) + 1] = a
      BY <1>1, <2>3, <3>1
    <3>3. QED
      BY <3>2 DEF Above
  <2>4. QED
    BY <2>1, <2>2, <2>3
<1>6. QED
  BY <1>1, <1>3, <1>4, <1>5 DEF r

\* Lifting a window changes its place only, which is above all others.
LEMMA LiftKeeps ==
  ASSUME NEW K, Table(K), Paired(K), NEW k, InUse(K, k)
  PROVE  /\ Table(Lift(K, k)) /\ Paired(Lift(K, k))
         /\ Lift(K, k).win = K.win /\ Lift(K, k).focus = K.focus
         /\ \A a, b : a # k /\ b # k => (Above(Lift(K, k).z, a, b) <=> Above(K.z, a, b))
         /\ K.win[k].kind # "bar" => \A b \in ToSet(K.z) \ {k} : Above(Lift(K, k).z, k, b)
<1> DEFINE N == Lift(K, k)
<1> DEFINE w == Without(K.z, {k})
<1> DEFINE q == Append(w, k)
<1>1. CASE K.win[k].kind = "bar"
  BY <1>1 DEF Lift
<1>2. CASE K.win[k].kind # "bar"
  <2>1. k \in KSlots /\ K.z \in Seq(KSlots) /\ K.win[k].owner # NoClient /\ Distinct(K.z)
        /\ ToSet(K.z) = {o \in KSlots : K.win[o].owner # NoClient}
    BY Fields DEF InUse
  <2>2. /\ w \in Seq(KSlots) /\ ToSet(w) = ToSet(K.z) \ {k} /\ Distinct(w)
        /\ \A a, b : Above(w, a, b) <=> Above(K.z, a, b) /\ a \notin {k} /\ b \notin {k}
    BY <2>1, WithoutFacts
  <2> HIDE DEF w
  <2>3. /\ q \in Seq(KSlots) /\ ToSet(q) = ToSet(w) \union {k} /\ Distinct(q)
        /\ \A a, b : Above(q, a, b) <=> Above(w, a, b) \/ (a = k /\ b \in ToSet(w))
    BY <2>1, <2>2, OnTop
  <2>4. N = [K EXCEPT !.z = q]
    BY <1>2 DEF Lift, w
  <2> HIDE DEF q
  <2>5. N = [win |-> K.win, z |-> q, focus |-> K.focus, held |-> K.held, queued |-> K.queued,
             down |-> K.down, phantom |-> K.phantom, lost |-> K.lost]
    BY <2>4, Fields DEF Tables
  <2>6. ToSet(q) = {o \in KSlots : K.win[o].owner # NoClient}
    BY <2>1, <2>2, <2>3
  <2>7. /\ N \in Tables /\ N.win = K.win /\ N.z = q /\ N.focus = K.focus /\ N.held = K.held
        /\ N.down = K.down /\ N.phantom = K.phantom /\ N.lost = K.lost
    BY <2>3, <2>5, Fields DEF Tables
  <2> HIDE DEF N
  <2>8. Table(N)
    BY <2>3, <2>6, <2>7 DEF Table, InUse
  <2>9. Paired(N)
    BY <2>7 DEF Paired
  <2>10. QED
    BY <2>2, <2>3, <2>7, <2>8, <2>9 DEF N
<1>3. QED
  BY <1>1, <1>2

\* Who has the slots, and for which windows.
SameWindows(K, N) ==
    \A o \in KSlots : /\ N.win[o].owner = K.win[o].owner /\ N.win[o].for = K.win[o].for
                      /\ N.win[o].kind = K.win[o].kind /\ N.win[o].pass = K.win[o].pass

\* k was brought to the top, and nothing else moved.
Lifted(K, N, k) ==
    /\ \A a, b : a # k /\ b # k => (Above(N.z, a, b) <=> Above(K.z, a, b))
    /\ InUse(K, k) /\ K.win[k].kind # "bar" => \A b \in ToSet(K.z) \ {k} : Above(N.z, k, b)

\* A flag of a window is no matter of the stack or of the keyboard.
LEMMA FlagsKeep ==
  ASSUME NEW K, Table(K), Paired(K), NEW w \in [KSlots -> Shadow], NEW N, N = [K EXCEPT !.win = w],
         \A o \in KSlots : w[o].owner = K.win[o].owner
  PROVE  Table(N) /\ Paired(N) /\ N.win = w /\ N.z = K.z /\ N.focus = K.focus
<1>1. N = [win |-> w, z |-> K.z, focus |-> K.focus, held |-> K.held, queued |-> K.queued,
           down |-> K.down, phantom |-> K.phantom, lost |-> K.lost]
  BY Fields DEF Tables
<1>2. /\ N \in Tables /\ N.win = w /\ N.z = K.z /\ N.focus = K.focus /\ N.held = K.held
      /\ N.down = K.down /\ N.phantom = K.phantom /\ N.lost = K.lost
  BY <1>1, Fields DEF Tables
<1>3. Table(N)
  <2>1. \A o \in KSlots : N.win[o].owner = K.win[o].owner
    BY <1>2
  <2>2. ToSet(N.z) = {o \in KSlots : N.win[o].owner # NoClient}
    <3>1. {o \in KSlots : N.win[o].owner # NoClient} = {o \in KSlots : K.win[o].owner # NoClient}
      BY <2>1
    <3>2. QED
      BY <1>2, <3>1, Fields
  <2>3. N.focus # -1 => N.focus \in KSlots /\ N.win[N.focus].owner # NoClient
    BY <1>2, <2>1, Fields
  <2>4. Distinct(N.z)
    BY <1>2, Fields
  <2>5. QED
    BY <1>2, <2>2, <2>3, <2>4 DEF Table, InUse
<1>4. Paired(N)
  BY <1>2 DEF Paired
<1>5. QED
  BY <1>2, <1>3, <1>4

\* A window that is shown or hidden is the same window.
LEMMA MinKeeps ==
  ASSUME NEW K, Table(K), Paired(K), NEW k, InUse(K, k), NEW b \in BOOLEAN,
         NEW N, N = [K EXCEPT !.win[k].min = b]
  PROVE  Table(N) /\ Paired(N) /\ SameWindows(K, N) /\ N.z = K.z /\ N.focus = K.focus
<1> DEFINE w == [K.win EXCEPT ![k].min = b]
<1>1. N = [K EXCEPT !.win = w]
  BY Fields DEF Tables
<1>2. k \in KSlots
  BY DEF InUse
<1>3. w \in [KSlots -> Shadow]
  <2>1. K.win \in [KSlots -> Shadow] /\ K.win[k] \in Shadow
    BY <1>2, Fields
  <2>2. [K.win[k] EXCEPT !.min = b] \in Shadow
    BY <2>1 DEF Shadow
  <2>3. QED
    BY <2>1, <2>2
<1>4. \A o \in KSlots : /\ w[o].owner = K.win[o].owner /\ w[o].for = K.win[o].for
                        /\ w[o].kind = K.win[o].kind /\ w[o].pass = K.win[o].pass
  BY <1>2, Fields DEF Shadow
<1> HIDE DEF w
<1>5. \A o \in KSlots : w[o].owner = K.win[o].owner
  BY <1>4
<1>6. Table(N) /\ Paired(N) /\ N.win = w /\ N.z = K.z /\ N.focus = K.focus
  BY ONLY Table(K), Paired(K), <1>1, <1>3, <1>5, FlagsKeep
<1>7. QED
  BY <1>4, <1>6 DEF SameWindows

\* To show a window is to lift it and to give it the keyboard.
LEMMA ShowKeeps ==
  ASSUME NEW K, Table(K), Paired(K), NEW k, InUse(K, k), NEW M, Table(M), Paired(M), SameWindows(K, M), M.z = K.z
  PROVE  /\ Table(SetFocus(Lift(M, k), k)) /\ Paired(SetFocus(Lift(M, k), k))
         /\ SameWindows(K, SetFocus(Lift(M, k), k)) /\ Lifted(K, SetFocus(Lift(M, k), k), k)
<1> DEFINE L == Lift(M, k)
<1> DEFINE N == SetFocus(L, k)
<1>1. InUse(M, k) /\ k \in KSlots
  BY DEF InUse, SameWindows
<1>2. /\ Table(L) /\ Paired(L) /\ L.win = M.win
      /\ \A a, b : a # k /\ b # k => (Above(L.z, a, b) <=> Above(M.z, a, b))
      /\ M.win[k].kind # "bar" => \A b \in ToSet(M.z) \ {k} : Above(L.z, k, b)
  BY <1>1, LiftKeeps
<1>3. InUse(L, k)
  BY <1>1, <1>2 DEF InUse
<1> HIDE DEF L
<1>4. Table(N) /\ Paired(N) /\ N.win = L.win /\ N.z = L.z
  BY <1>1, <1>2, <1>3, SetFocusKeeps
<1> HIDE DEF N
<1>5. SameWindows(K, N)
  BY <1>2, <1>4 DEF SameWindows
<1>6. Lifted(K, N, k)
  BY <1>1, <1>2, <1>4 DEF Lifted, SameWindows
<1>7. QED
  BY <1>4, <1>5, <1>6 DEF N, L

\* To raise a window shows it, lifts it and gives it the keyboard.
LEMMA RaiseKeeps ==
  ASSUME NEW K, Table(K), Paired(K), NEW k
  PROVE  /\ Table(Raise(K, k)) /\ Paired(Raise(K, k)) /\ SameWindows(K, Raise(K, k)) /\ Lifted(K, Raise(K, k), k)
         /\ ~InUse(K, k) => Raise(K, k) = K
<1>1. CASE ~InUse(K, k)
  BY <1>1 DEF Raise, SameWindows, Lifted
<1>2. CASE InUse(K, k)
  <2> DEFINE M == [K EXCEPT !.win[k].min = FALSE]
  <2>1. Table(M) /\ Paired(M) /\ SameWindows(K, M) /\ M.z = K.z
    BY <1>2, MinKeeps
  <2>2. Raise(K, k) = SetFocus(Lift(M, k), k)
    BY <1>2 DEF Raise
  <2> HIDE DEF M
  <2>3. QED
    BY <1>2, <2>1, <2>2, ShowKeeps
<1>3. QED
  BY <1>1, <1>2

\* The same of a press on what the kernel finds under the pointer.
LEMMA PressOnKeeps ==
  ASSUME NEW K, Table(K), Paired(K), NEW k, InUse(K, k)
  PROVE  /\ Table(PressOn(K, k)) /\ Paired(PressOn(K, k))
         /\ SameWindows(K, PressOn(K, k)) /\ Lifted(K, PressOn(K, k), k)
BY ShowKeeps DEF PressOn, SameWindows

\* Hiding moves nothing, and gives the keyboard to a window in use.
LEMMA MinimizeKeeps ==
  ASSUME NEW K, Table(K), Paired(K), NEW k, NEW on \in BOOLEAN
  PROVE  /\ Table(SetMinimized(K, k, on)) /\ Paired(SetMinimized(K, k, on))
         /\ SameWindows(K, SetMinimized(K, k, on))
         /\ on => SetMinimized(K, k, on).z = K.z
         /\ Lifted(K, SetMinimized(K, k, on), k) \/ SetMinimized(K, k, on).z = K.z
         /\ ~InUse(K, k) => SetMinimized(K, k, on) = K
<1> DEFINE N == SetMinimized(K, k, on)
<1> DEFINE H == [K EXCEPT !.win[k].min = TRUE]
<1> DEFINE M == [K EXCEPT !.win[k].min = FALSE]
<1> DEFINE rest == {i \in DOMAIN K.z : ~H.win[K.z[i]].min /\ H.win[K.z[i]].kind # "wall"}
<1>1. CASE ~InUse(K, k) \/ K.win[k].kind = "wall" \/ K.win[k].min = on
  BY <1>1 DEF SetMinimized, SameWindows
<1>2. ASSUME InUse(K, k), K.win[k].kind # "wall", K.win[k].min # on, ~on
      PROVE  Table(N) /\ Paired(N) /\ SameWindows(K, N) /\ Lifted(K, N, k)
  <2>m. M = [K EXCEPT !.win[k].min = FALSE]
    OBVIOUS
  <2>1. Table(M) /\ Paired(M) /\ SameWindows(K, M) /\ M.z = K.z
    <3> HIDE DEF M
    <3>1. InUse(K, k) /\ FALSE \in BOOLEAN
      BY <1>2
    <3>2. QED
      BY ONLY Table(K), Paired(K), <2>m, <3>1, MinKeeps
  <2>2. N = SetFocus(Lift(M, k), k)
    BY <1>2 DEF SetMinimized
  <2> HIDE DEF M, N
  <2>3. QED
    BY <1>2, <2>1, <2>2, ShowKeeps
<1>3. ASSUME InUse(K, k), K.win[k].kind # "wall", K.win[k].min # on, on
      PROVE  Table(N) /\ Paired(N) /\ SameWindows(K, N) /\ N.z = K.z
  <2>h. H = [K EXCEPT !.win[k].min = TRUE]
    OBVIOUS
  <2> HIDE DEF H
  <2>1. Table(H) /\ Paired(H) /\ SameWindows(K, H) /\ H.z = K.z
    <3>1. InUse(K, k) /\ TRUE \in BOOLEAN
      BY <1>3
    <3>2. QED
      BY ONLY Table(K), Paired(K), <2>h, <3>1, MinKeeps
  <2>2. CASE K.focus # k
    <3>1. N = H
      BY <1>3, <2>2 DEF SetMinimized, H
    <3>2. QED
      BY <2>1, <3>1
  <2>3. CASE K.focus = k
    <3> DEFINE f == IF rest = {} THEN -1 ELSE K.z[Max(rest)]
    <3>1. N = SetFocus(H, f)
      BY <1>3, <2>3 DEF SetMinimized, H
    <3>2. f \in KSlots \union {-1} /\ (f # -1 => InUse(H, f))
      <4>1. CASE rest = {}
        BY <4>1
      <4>2. CASE rest # {}
        <5>0. DOMAIN K.z = 1 .. Len(K.z) /\ Len(K.z) \in Nat
          BY Fields
        <5>1. rest \subseteq 1 .. Len(K.z) /\ IsFiniteSet(1 .. Len(K.z)) /\ rest \subseteq Nat
          <6>1. rest \subseteq DOMAIN K.z
            OBVIOUS
          <6> HIDE DEF rest
          <6>2. IsFiniteSet(1 .. Len(K.z))
            BY <5>0, FS_Interval
          <6>3. QED
            BY <5>0, <6>1, <6>2
        <5>2. Max(rest) \in rest
          <6> HIDE DEF rest
          <6>1. QED
            BY <4>2, <5>1, FS_Subset, ExtremesExist
        <5>3. f = K.z[Max(rest)]
          BY <4>2
        <5> HIDE DEF rest, f, H
        <5>4. f \in ToSet(K.z)
          BY <5>0, <5>1, <5>2, <5>3 DEF ToSet
        <5>5. QED
          BY <2>1, <5>4, Fields DEF SameWindows, InUse
      <4>3. QED
        BY <4>1, <4>2
    <3> HIDE DEF f, H, N
    <3>3. Table(N) /\ Paired(N) /\ N.win = H.win /\ N.z = H.z
      BY <2>1, <3>1, <3>2, SetFocusKeeps
    <3>4. QED
      BY <2>1, <3>3 DEF SameWindows
  <2>4. QED
    BY <2>2, <2>3
<1>4. QED
  BY <1>1, <1>2, <1>3

\* Routing is a flag that stays.
LEMMA PassthroughKeeps ==
  ASSUME NEW K, Table(K), Paired(K), NEW k, NEW N, N = SetPassthrough(K, k)
  PROVE  /\ Table(N) /\ Paired(N) /\ N.z = K.z
         /\ \A o \in KSlots : /\ N.win[o].owner = K.win[o].owner /\ N.win[o].for = K.win[o].for
                              /\ N.win[o].kind = K.win[o].kind
                              /\ N.win[o].pass = (K.win[o].pass \/ (o = k /\ InUse(K, k)))
         /\ ~InUse(K, k) => N = K
<1> DEFINE w == [K.win EXCEPT ![k].pass = TRUE]
<1>1. CASE ~InUse(K, k)
  <2>1. \A o \in KSlots : K.win[o].pass \in BOOLEAN
    BY Fields DEF Shadow
  <2>2. QED
    BY <1>1, <2>1 DEF SetPassthrough
<1>2. CASE InUse(K, k)
  <2>1. N = [K EXCEPT !.win = w]
    BY <1>2, Fields DEF Tables, SetPassthrough
  <2>2. k \in KSlots
    BY <1>2 DEF InUse
  <2>3. w \in [KSlots -> Shadow]
    <3>1. K.win \in [KSlots -> Shadow] /\ K.win[k] \in Shadow
      BY <2>2, Fields
    <3>2. [K.win[k] EXCEPT !.pass = TRUE] \in Shadow
      BY <3>1 DEF Shadow
    <3>3. QED
      BY <3>1, <3>2
  <2>4. ASSUME NEW o \in KSlots
        PROVE  /\ w[o].owner = K.win[o].owner /\ w[o].for = K.win[o].for /\ w[o].kind = K.win[o].kind
               /\ w[o].pass = (K.win[o].pass \/ o = k)
    <3>1. K.win[o] \in Shadow /\ K.win[k] \in Shadow /\ K.win \in [KSlots -> Shadow]
      BY <2>2, Fields
    <3>2. CASE o = k
      BY <3>1, <3>2 DEF Shadow
    <3>3. CASE o # k
      BY <3>1, <3>3 DEF Shadow
    <3>4. QED
      BY <3>2, <3>3
  <2> HIDE DEF w
  <2>5. \A o \in KSlots : w[o].owner = K.win[o].owner
    BY <2>4
  <2>6. Table(N) /\ Paired(N) /\ N.win = w /\ N.z = K.z
    BY ONLY Table(K), Paired(K), <2>1, <2>3, <2>5, FlagsKeep
  <2>7. QED
    BY <1>2, <2>4, <2>6
<1>3. QED
  BY <1>1, <1>2

\* A new window comes on top and, if it is plain, takes the keyboard.
LEMMA CreateKeeps ==
  ASSUME NEW K, Table(K), Paired(K), NEW k \in KSlots, ~InUse(K, k), NEW c \in Clients, NEW id \in Nat,
         NEW kind \in Kinds, NEW N, N = CreateWindow(K, k, c, id, kind)
  PROVE  /\ Table(N) /\ Paired(N) /\ N.z = Append(K.z, k)
         /\ N.win[k].owner = c /\ N.win[k].for = id /\ N.win[k].kind = kind /\ N.win[k].pass = K.win[k].pass
         /\ \A o \in KSlots \ {k} : N.win[o] = K.win[o]
<1> DEFINE new == [owner |-> c, for |-> id, kind |-> kind, min |-> FALSE, pass |-> K.win[k].pass]
<1> DEFINE w == [K.win EXCEPT ![k] = new]
<1> DEFINE q == Append(K.z, k)
<1> DEFINE u == [K.queued EXCEPT ![k] = 0]
<1> DEFINE d == [K.down EXCEPT ![k] = {}]
<1> DEFINE M == [win |-> w, z |-> q, focus |-> K.focus, held |-> K.held, queued |-> u,
                 down |-> d, phantom |-> K.phantom, lost |-> K.lost]
<1>1. N = IF kind = "app" THEN SetFocus(M, k) ELSE M
  <2>1. [K EXCEPT !.win[k] = [owner |-> c, for |-> id, kind |-> kind, min |-> FALSE, pass |-> @.pass],
                  !.z = Append(@, k), !.queued[k] = 0, !.down[k] = {}] = M
    <3>1. [K EXCEPT !.win[k] = [owner |-> c, for |-> id, kind |-> kind, min |-> FALSE, pass |-> @.pass],
                    !.z = Append(@, k), !.queued[k] = 0, !.down[k] = {}]
          = [K EXCEPT !.win = w, !.z = q, !.queued = u, !.down = d]
      BY Fields DEF Tables
    <3> HIDE DEF w, q, u, d
    <3>2. K \in Tables
      BY Fields
    <3>3. ASSUME NEW E, E = [K EXCEPT !.win = w, !.z = q, !.queued = u, !.down = d] PROVE E = M
      BY <3>2, <3>3 DEF Tables
    <3> HIDE DEF M
    <3>4. QED
      BY ONLY <3>1, <3>3
  <2> HIDE DEF M
  <2>2. QED
    BY <2>1 DEF CreateWindow
<1>2. new \in Shadow /\ c # NoClient
  <2>1. K.win[k] \in Shadow
    BY Fields
  <2>2. QED
    BY <2>1, WmAssumption DEF Shadow
<1>3. w \in [KSlots -> Shadow] /\ w[k] = new /\ \A o \in KSlots \ {k} : w[o] = K.win[o]
  BY <1>2, Fields
<1>4. new.owner = c /\ new.for = id /\ new.kind = kind /\ new.pass = K.win[k].pass
  OBVIOUS
<1> HIDE DEF new, w
<1>5. k \notin ToSet(K.z) /\ k # K.focus
  BY Fields DEF InUse
<1>6. q \in Seq(KSlots) /\ ToSet(q) = ToSet(K.z) \union {k} /\ Distinct(q)
  BY <1>5, Fields, OnTop
<1>7. u \in [KSlots -> Int] /\ d \in [KSlots -> SUBSET Keys]
  BY Fields
<1>8. \A o \in KSlots : d[o] = IF o = k THEN {} ELSE K.down[o]
  BY Fields
<1> HIDE DEF q, u, d
<1>9. /\ M \in Tables /\ M.win = w /\ M.z = q /\ M.focus = K.focus /\ M.held = K.held
      /\ M.down = d /\ M.phantom = K.phantom /\ M.lost = K.lost
  BY <1>3, <1>6, <1>7, Fields DEF Tables
<1> HIDE DEF M
<1>10. Table(M)
  <2>1. ToSet(q) = {o \in KSlots : w[o].owner # NoClient}
    <3>1. {o \in KSlots : w[o].owner # NoClient} = {o \in KSlots : K.win[o].owner # NoClient} \union {k}
      BY <1>2, <1>3, <1>4
    <3>2. QED
      BY <1>6, <3>1, Fields
  <2>2. K.focus # -1 => K.focus \in KSlots /\ w[K.focus].owner # NoClient
    BY <1>3, <1>5, Fields
  <2>3. QED
    BY <1>6, <1>9, <2>1, <2>2 DEF Table, InUse
<1>11. Paired(M)
  BY <1>5, <1>8, <1>9 DEF Paired
<1>12. InUse(M, k)
  BY <1>2, <1>3, <1>4, <1>9 DEF InUse
<1>13. Table(N) /\ Paired(N) /\ N.win = w /\ N.z = q
  <2>1. CASE kind = "app"
    <3>1. N = SetFocus(M, k)
      BY <1>1, <2>1
    <3>2. QED
      BY <1>9, <1>10, <1>11, <1>12, <3>1, SetFocusKeeps
  <2>2. CASE kind # "app"
    BY <1>1, <1>9, <1>10, <1>11, <2>2
  <2>3. QED
    BY <2>1, <2>2
<1>14. QED
  BY <1>3, <1>4, <1>13 DEF q

\* Windows that go leave the order of the others, and the keyboard goes to the topmost of them.
LEMMA DestroyKeeps ==
  ASSUME NEW K, Table(K), Paired(K), NEW ks \in SUBSET KSlots, NEW N, N = Destroy(K, ks)
  PROVE  /\ Table(N) /\ Paired(N) /\ N.z = Without(K.z, ks)
         /\ \A o \in ks : N.win[o].owner = NoClient /\ N.win[o].for = 0 /\ N.win[o].pass = K.win[o].pass
         /\ \A o \in KSlots \ ks : N.win[o] = K.win[o]
<1> DEFINE w == [o \in KSlots |-> IF o \in ks THEN [FreeShadow EXCEPT !.pass = K.win[o].pass] ELSE K.win[o]]
<1> DEFINE q == Without(K.z, ks)
<1> DEFINE d == [o \in KSlots |-> IF o \in ks THEN {} ELSE K.down[o]]
<1> DEFINE gone == [win |-> w, z |-> q, focus |-> K.focus, held |-> K.held, queued |-> K.queued,
                    down |-> d, phantom |-> K.phantom, lost |-> K.lost]
<1> DEFINE top == IF q = <<>> THEN -1 ELSE Last(q)
<1> DEFINE M == [win |-> w, z |-> q, focus |-> top, held |-> {}, queued |-> K.queued,
                 down |-> d, phantom |-> K.phantom, lost |-> K.lost]
<1>1. N = IF K.focus \in ks THEN M ELSE gone
  <2>1. [K EXCEPT !.win = [k \in KSlots |-> IF k \in ks THEN [FreeShadow EXCEPT !.pass = K.win[k].pass] ELSE K.win[k]],
                  !.z = Without(@, ks),
                  !.down = [k \in KSlots |-> IF k \in ks THEN {} ELSE K.down[k]]] = gone
    <3>1. ASSUME NEW E, E = [K EXCEPT !.win = w, !.z = q, !.down = d] PROVE E = gone
      <4>1. K \in Tables
        BY Fields
      <4> HIDE DEF w, q, d
      <4>2. QED
        BY <3>1, <4>1 DEF Tables
    <3> HIDE DEF gone
    <3>2. QED
      BY ONLY <3>1
  <2>2. Topmost(gone) = top
    BY DEF Topmost
  <2>3. [gone EXCEPT !.held = {}, !.focus = top] = M
    <3> HIDE DEF w, q, d, top
    <3>1. ASSUME NEW E, E = [gone EXCEPT !.held = {}, !.focus = top] PROVE E = M
      BY <3>1
    <3> HIDE DEF gone, M
    <3>2. QED
      BY ONLY <3>1
  <2> HIDE DEF gone, M, top
  <2>4. QED
    BY <2>1, <2>2, <2>3 DEF Destroy
<1>2. /\ w \in [KSlots -> Shadow]
      /\ \A o \in ks : w[o].owner = NoClient /\ w[o].for = 0 /\ w[o].pass = K.win[o].pass
      /\ \A o \in KSlots \ ks : w[o] = K.win[o]
  <2>1. ASSUME NEW o \in KSlots
        PROVE  LET f == [FreeShadow EXCEPT !.pass = K.win[o].pass]
               IN  f \in Shadow /\ f.owner = NoClient /\ f.for = 0 /\ f.pass = K.win[o].pass
    <3>1. K.win[o] \in Shadow
      BY Fields
    <3>2. QED
      BY <3>1 DEF Shadow, FreeShadow, Kinds
  <2>2. QED
    BY <2>1, Fields
<1> HIDE DEF w
<1>3. /\ q \in Seq(KSlots) /\ ToSet(q) = ToSet(K.z) \ ks /\ Distinct(q)
  BY Fields, WithoutFacts
<1>4. d \in [KSlots -> SUBSET Keys] /\ \A o \in KSlots : d[o] = IF o \in ks THEN {} ELSE K.down[o]
  BY Fields
<1>5. ToSet(q) = {o \in KSlots : w[o].owner # NoClient}
  <2>1. {o \in KSlots : w[o].owner # NoClient} = {o \in KSlots : K.win[o].owner # NoClient} \ ks
    BY <1>2
  <2>2. QED
    BY <1>3, <2>1, Fields
<1>6. top \in KSlots \union {-1} /\ (top # -1 => top \in KSlots /\ w[top].owner # NoClient)
  <2>1. q # <<>> => Last(q) \in ToSet(q)
    BY <1>3, LastIsIn
  <2>2. QED
    BY <1>5, <2>1
<1> HIDE DEF d, top
<1> HIDE DEF q
<1>7. CASE K.focus \in ks
  <2>1. /\ M \in Tables /\ M.win = w /\ M.z = q /\ M.focus = top /\ M.held = {}
        /\ M.down = d /\ M.phantom = K.phantom /\ M.lost = K.lost
    BY <1>2, <1>3, <1>4, <1>6, Fields DEF Tables
  <2> HIDE DEF M
  <2>2. N = M
    BY <1>1, <1>7
  <2>3. Table(M)
    BY <1>3, <1>5, <1>6, <2>1 DEF Table, InUse
  <2>4. Paired(M)
    BY <1>4, <1>7, <2>1 DEF Paired
  <2>5. QED
    BY <1>2, <2>1, <2>2, <2>3, <2>4 DEF q
<1>8. CASE K.focus \notin ks
  <2>1. /\ gone \in Tables /\ gone.win = w /\ gone.z = q /\ gone.focus = K.focus /\ gone.held = K.held
        /\ gone.down = d /\ gone.phantom = K.phantom /\ gone.lost = K.lost
    BY <1>2, <1>3, <1>4, Fields DEF Tables
  <2> HIDE DEF gone
  <2>2. N = gone
    BY <1>1, <1>8
  <2>3. K.focus # -1 => K.focus \in KSlots /\ w[K.focus].owner # NoClient
    BY <1>2, <1>8, Fields
  <2>4. Table(gone)
    BY <1>3, <1>5, <2>1, <2>3 DEF Table, InUse
  <2>5. Paired(gone)
    BY <1>4, <1>8, <2>1 DEF Paired
  <2>6. QED
    BY <1>2, <2>1, <2>2, <2>4, <2>5 DEF q
<1>9. QED
  BY <1>7, <1>8

\* Keys, and what their owners poll, are no matter of the windows.
LEMMA KeyDownKeeps ==
  ASSUME NEW K, Table(K), Paired(K), NEW key \in Keys, NEW N, N = KeyDown(K, key)
  PROVE  Table(N) /\ Paired(N)
<1> DEFINE f == K.focus
<1>k. K \in Tables
  BY Fields
<1>1. CASE ~InUse(K, f)
  BY <1>1 DEF KeyDown
<1>2. CASE InUse(K, f) /\ K.queued[f] = RingCap
  <2>1. N = [K EXCEPT !.held = @ \union {key}, !.lost = TRUE]
    BY <1>2 DEF KeyDown
  <2>2. N = [win |-> K.win, z |-> K.z, focus |-> K.focus, held |-> K.held \union {key}, queued |-> K.queued,
             down |-> K.down, phantom |-> K.phantom, lost |-> TRUE]
    BY <1>k, <2>1 DEF Tables
  <2>3. K.focus # -1
    BY <1>2, Fields DEF InUse
  <2>4. /\ N \in Tables /\ N.win = K.win /\ N.z = K.z /\ N.focus = K.focus /\ N.lost
    BY <2>2, Fields DEF Tables
  <2>5. QED
    BY <2>3, <2>4 DEF Table, Paired, InUse
<1>3. CASE InUse(K, f) /\ K.queued[f] # RingCap
  <2> DEFINE h == K.held \union {key}
  <2> DEFINE u == [K.queued EXCEPT ![f] = @ + 1]
  <2> DEFINE d == [K.down EXCEPT ![f] = @ \union {key}]
  <2>1. N = [K EXCEPT !.held = @ \union {key}, !.queued[f] = @ + 1, !.down[f] = @ \union {key}]
    BY <1>3 DEF KeyDown
  <2>2. N = [win |-> K.win, z |-> K.z, focus |-> f, held |-> h, queued |-> u,
             down |-> d, phantom |-> K.phantom, lost |-> K.lost]
    BY <1>k, <2>1 DEF Tables
  <2>3. f \in KSlots /\ f # -1
    BY <1>3, Fields DEF InUse
  <2>4. h \in SUBSET Keys /\ u \in [KSlots -> Int] /\ d \in [KSlots -> SUBSET Keys]
    BY <2>3, Fields
  <2>5. K.lost \/ (~K.phantom /\ \A k \in KSlots : d[k] = IF k = f THEN h ELSE {})
    BY <2>3, Fields DEF Paired
  <2> HIDE DEF h, u, d
  <2>6. /\ N \in Tables /\ N.win = K.win /\ N.z = K.z /\ N.focus = K.focus /\ N.held = h
        /\ N.down = d /\ N.phantom = K.phantom /\ N.lost = K.lost
    BY <2>2, <2>4, Fields DEF Tables
  <2>7. QED
    BY <2>3, <2>5, <2>6 DEF Table, Paired, InUse
<1>4. QED
  BY <1>1, <1>2, <1>3

\* Only a key that is held is released, to the window that saw it pressed.
LEMMA KeyUpKeeps ==
  ASSUME NEW K, Table(K), Paired(K), NEW key \in Keys, NEW N, N = KeyUp(K, key)
  PROVE  Table(N) /\ Paired(N)
<1> DEFINE f == K.focus
<1> DEFINE up == [K EXCEPT !.held = @ \ {key}]
<1>k. K \in Tables
  BY Fields
<1>1. CASE f < 0 \/ key \notin K.held
  BY <1>1 DEF KeyUp
<1>2. ASSUME ~(f < 0), key \in K.held PROVE InUse(K, f) /\ f \in KSlots /\ f # -1
  <2>1. f \in KSlots /\ f # -1
    BY <1>2, Fields
  <2>2. QED
    BY <2>1, Fields DEF InUse
<1>3. CASE ~(f < 0) /\ key \in K.held /\ K.queued[f] = RingCap
  <2>1. N = [up EXCEPT !.lost = TRUE]
    BY <1>2, <1>3 DEF KeyUp
  <2>2. N = [K EXCEPT !.held = @ \ {key}, !.lost = TRUE]
    BY <2>1
  <2>3. N = [win |-> K.win, z |-> K.z, focus |-> K.focus, held |-> K.held \ {key}, queued |-> K.queued,
             down |-> K.down, phantom |-> K.phantom, lost |-> TRUE]
    BY <1>k, <2>2 DEF Tables
  <2>4. /\ N \in Tables /\ N.win = K.win /\ N.z = K.z /\ N.focus = K.focus /\ N.lost
    BY <2>3, Fields DEF Tables
  <2>5. QED
    BY <1>2, <1>3, <2>4 DEF Table, Paired, InUse
<1>4. CASE ~(f < 0) /\ key \in K.held /\ K.queued[f] # RingCap
  <2> DEFINE h == K.held \ {key}
  <2> DEFINE u == [K.queued EXCEPT ![f] = @ + 1]
  <2> DEFINE d == [K.down EXCEPT ![f] = @ \ {key}]
  <2> DEFINE p == K.phantom \/ key \notin K.down[f]
  <2>1. N = [up EXCEPT !.queued[f] = @ + 1, !.down[f] = @ \ {key}, !.phantom = @ \/ key \notin K.down[f]]
    BY <1>2, <1>4 DEF KeyUp
  <2>2. N = [K EXCEPT !.held = h, !.queued = u, !.down = d, !.phantom = p]
    BY <1>k, <2>1 DEF Tables
  <2>3. N = [win |-> K.win, z |-> K.z, focus |-> f, held |-> h, queued |-> u,
             down |-> d, phantom |-> p, lost |-> K.lost]
    <3> HIDE DEF h, u, d, p
    <3>1. QED
      BY <1>k, <2>2 DEF Tables
  <2>4. h \in SUBSET Keys /\ u \in [KSlots -> Int] /\ d \in [KSlots -> SUBSET Keys] /\ p \in BOOLEAN
    BY <1>2, <1>4, Fields
  <2>5. K.lost \/ (~p /\ \A k \in KSlots : d[k] = IF k = f THEN h ELSE {})
    BY <1>2, <1>4, Fields DEF Paired
  <2> HIDE DEF h, u, d, p
  <2>6. /\ N \in Tables /\ N.win = K.win /\ N.z = K.z /\ N.focus = K.focus /\ N.held = h
        /\ N.down = d /\ N.phantom = p /\ N.lost = K.lost
    BY <2>3, <2>4, Fields DEF Tables
  <2>7. QED
    BY <1>2, <1>4, <2>5, <2>6 DEF Table, Paired, InUse
<1>5. QED
  BY <1>1, <1>3, <1>4

\* To poll an event takes it from a ring.
LEMMA PollKeeps ==
  ASSUME NEW K, Table(K), Paired(K), NEW c, NEW N, N = PollEvent(K, c)
  PROVE  Table(N) /\ Paired(N)
<1> DEFINE full == {k \in KSlots : K.win[k].owner = c /\ K.queued[k] > 0}
<1> DEFINE u == [K.queued EXCEPT ![Min(full)] = @ - 1]
<1>1. CASE c = NoClient \/ full = {}
  BY <1>1 DEF PollEvent
<1>2. CASE ~(c = NoClient \/ full = {})
  <2>1. N = [K EXCEPT !.queued[Min(full)] = @ - 1] /\ K \in Tables
    BY <1>2, Fields DEF PollEvent
  <2> DEFINE m == Min(full)
  <2> HIDE DEF full
  <2> HIDE DEF m
  <2>2. u \in [KSlots -> Int]
    <3>1. ASSUME NEW f \in [KSlots -> Int], NEW n PROVE [f EXCEPT ![n] = @ - 1] \in [KSlots -> Int]
      <4>1. CASE n \in KSlots
        BY <4>1
      <4>2. CASE n \notin KSlots
        <5>1. [f EXCEPT ![n] = @ - 1] = f
          BY <4>2
        <5>2. QED
          BY <5>1
      <4>3. QED
        BY <4>1, <4>2
    <3>2. QED
      BY <3>1, Fields DEF m
  <2>3. N = [win |-> K.win, z |-> K.z, focus |-> K.focus, held |-> K.held, queued |-> u,
             down |-> K.down, phantom |-> K.phantom, lost |-> K.lost]
    BY <2>1 DEF Tables
  <2> HIDE DEF u
  <2>4. /\ N \in Tables /\ N.win = K.win /\ N.z = K.z /\ N.focus = K.focus /\ N.held = K.held
        /\ N.down = K.down /\ N.phantom = K.phantom /\ N.lost = K.lost
    BY <2>2, <2>3, Fields DEF Tables
  <2>5. QED
    BY <2>4 DEF Table, Paired, InUse
<1>3. QED
  BY <1>1, <1>2

\* The table starts empty.
LEMMA TableStarts == Table(KInit) /\ Paired(KInit)
<1>1. FreeShadow \in Shadow /\ FreeShadow.owner = NoClient
  BY DEF FreeShadow, Shadow, Kinds
<1>2. KInit = [win |-> [k \in KSlots |-> FreeShadow], z |-> <<>>, focus |-> -1, held |-> {},
               queued |-> [k \in KSlots |-> 0], down |-> [k \in KSlots |-> {}], phantom |-> FALSE, lost |-> FALSE]
  BY DEF KInit
<1> HIDE DEF FreeShadow
<1>3. KInit \in Tables
  BY <1>1, <1>2 DEF Tables
<1>4. Distinct(<<>>) /\ ToSet(<<>>) = {} /\ <<>> \in Seq(KSlots)
  BY DEF Distinct, ToSet
<1>5. {k \in KSlots : InUse(KInit, k)} = {}
  BY <1>1, <1>2 DEF InUse
<1>6. Table(KInit)
  BY <1>2, <1>3, <1>4, <1>5 DEF Table
<1>7. Paired(KInit)
  BY <1>2 DEF Paired
<1>8. QED
  BY <1>6, <1>7

\* The first free slot is one.
LEMMA FreeSlotExists ==
  ASSUME NEW K, FreeKSlots(K) # {}
  PROVE  Min(FreeKSlots(K)) \in KSlots /\ ~InUse(K, Min(FreeKSlots(K)))
<1> DEFINE F == FreeKSlots(K)
<1>1. F \subseteq KSlots /\ \A k \in F : ~InUse(K, k)
  BY DEF FreeKSlots
<1>2. F \in SUBSET Nat /\ IsFiniteSet(F)
  BY <1>1, WmAssumption, FS_Subset
<1> HIDE DEF F
<1>3. F # {}
  BY DEF F
<1>4. Min(F) \in F
  BY <1>2, <1>3, ExtremesExist
<1>5. QED
  BY <1>1, <1>4 DEF F

\* Every call keeps the table, its stack and its keys.
LEMMA FocusKeepsOn == Table(kern) /\ Paired(kern) /\ [FocusNext]_kern => Table(kern)' /\ Paired(kern)'
<1> SUFFICES ASSUME Table(kern), Paired(kern), [FocusNext]_kern PROVE Table(kern') /\ Paired(kern')
  BY DEF Table, Paired, Tables, InUse
<1>1. CASE UNCHANGED kern
  BY <1>1
<1>2. CASE Create
  <2>1. PICK c \in Clients, kind \in Kinds :
           FreeKSlots(kern) # {} /\ kern' = CreateWindow(kern, Min(FreeKSlots(kern)), c, 0, kind)
    BY <1>2 DEF Create
  <2>2. Min(FreeKSlots(kern)) \in KSlots /\ ~InUse(kern, Min(FreeKSlots(kern)))
    BY <2>1, FreeSlotExists
  <2>3. QED
    BY <2>1, <2>2, CreateKeeps
<1>3. CASE DestroyOne
  <2>1. PICK k \in KSlots : kern' = Destroy(kern, {k})
    BY <1>3 DEF DestroyOne
  <2>2. QED
    BY <2>1, DestroyKeeps
<1>4. CASE DestroyOwner
  <2>1. PICK c \in Clients : kern' = Destroy(kern, {k \in KSlots : kern.win[k].owner = c})
    BY <1>4 DEF DestroyOwner
  <2>2. QED
    BY <2>1, DestroyKeeps
<1>5. CASE RaiseAny
  BY <1>5, RaiseKeeps DEF RaiseAny
<1>6. CASE Minimize
  BY <1>6, MinimizeKeeps DEF Minimize
<1>7. CASE Press
  BY <1>7, PressOnKeeps DEF Press, Hittable
<1>8. CASE Route
  BY <1>8, PassthroughKeeps DEF Route
<1>9. CASE Down
  BY <1>9, KeyDownKeeps DEF Down
<1>10. CASE Up
  BY <1>10, KeyUpKeeps DEF Up
<1>11. CASE Poll
  BY <1>11, PollKeeps DEF Poll
<1>12. QED
  BY <1>1, <1>2, <1>3, <1>4, <1>5, <1>6, <1>7, <1>8, <1>9, <1>10, <1>11 DEF FocusNext

\* Whatever is created, destroyed, raised, hidden and pressed by whomever: the keyboard is with a
\* window in use, which saw exactly the presses of the keys held (set_focus,
\* synthesize_releases_to, deliver_key, wm_keyboard_release, and the reuse of slots).
THEOREM KeyboardFollowsFocus == FocusSpec => []FocusSound
<1>1. kern = KInit => Table(kern) /\ Paired(kern)
  BY TableStarts
<1>2. Table(kern) /\ Paired(kern) => FocusSound
  BY DEF Table, Paired, FocusSound, KeysPaired, FocusIsInUse
<1>3. QED
  BY <1>1, <1>2, FocusKeepsOn, PTL DEF FocusSpec

(***************************************************************************)
(* The server: what is on the screen.                                      *)
(***************************************************************************)
\* Repainting some cells of a screen that is current changes nothing.
LEMMA RepaintsNothing ==
  ASSUME ScreenIsCurrent, NEW xs
  PROVE  ComposeRect(win, z, xs) = ComposeAll(win, z)
BY DEF ScreenIsCurrent, ComposeRect, ComposeAll

\* Whatever changes the windows or their order repaints all of the screen.
LEMMA ScreenKeepsUp == ScreenIsCurrent /\ [WindowsNext]_windowsVars => ScreenIsCurrent'
<1> SUFFICES ASSUME ScreenIsCurrent, [WindowsNext]_windowsVars PROVE screen' = ComposeAll(win', z')
  BY DEF ScreenIsCurrent, ComposeAll, Shown
<1>0. screen = ComposeAll(win, z)
  BY DEF ScreenIsCurrent
<1>1. ASSUME win' = win, z' = z, screen' = screen PROVE screen' = ComposeAll(win', z')
  BY <1>0, <1>1
<1>2. CASE UNCHANGED windowsVars
  BY <1>1, <1>2 DEF windowsVars
<1>3. ASSUME NEW c \in Clients, ClientStep(c) PROVE screen' = ComposeAll(win', z')
  BY <1>1, <1>3 DEF ClientStep, Connect, SendCreate, SendBind, SendDestroy, Request, MakeShadow,
                    DropShadow, ExitShadows, ExitClose, ServerUnchanged
<1>4. ASSUME NEW f \in Fds, WorkerStep(f) PROVE screen' = ComposeAll(win', z')
  <2>1. CASE HandleCreate(f)
    BY <1>1, <2>1 DEF HandleCreate
  <2>2. CASE HandleBind(f)
    BY <2>2 DEF HandleBind
  <2>3. CASE HandleDestroy(f) \/ Collect(f)
    BY <2>3 DEF HandleDestroy, Collect, DropWins
  <2>4. CASE HandleMove(f)
    BY <2>4 DEF HandleMove
  <2>5. CASE HandleDamage(f)
    BY <1>0, <2>5, RepaintsNothing DEF HandleDamage
  <2>6. CASE CloseFd(f)
    BY <1>1, <2>6 DEF CloseFd, ServerUnchanged
  <2>7. QED
    BY <1>4, <2>1, <2>2, <2>3, <2>4, <2>5, <2>6 DEF WorkerStep
<1>5. CASE HandleRestore
  BY <1>5 DEF HandleRestore
<1>6. CASE HandleMinimize
  BY <1>6 DEF HandleMinimize, Hide
<1>7. CASE KernelPress
  BY <1>1, <1>7 DEF KernelPress, ServerUnchanged
<1>8. CASE PollPress
  <2>1. CASE UNCHANGED <<kern, win, z, screen, grab, astray>>
    BY <1>1, <2>1
  <2>2. ASSUME NEW s, PressFrame(s) PROVE screen' = ComposeAll(win', z')
    BY <2>2 DEF PressFrame
  <2>3. ASSUME NEW s, PressClose(s) PROVE screen' = ComposeAll(win', z')
    BY <1>1, <2>3 DEF PressClose
  <2>4. ASSUME NEW s, PressMinimize(s) PROVE screen' = ComposeAll(win', z')
    BY <2>4 DEF PressMinimize, Hide
  <2>5. ASSUME NEW s, PressBody(s) PROVE screen' = ComposeAll(win', z')
    BY <1>1, <2>5 DEF PressBody
  <2>6. QED
    BY <1>8, <2>1, <2>2, <2>3, <2>4, <2>5 DEF PollPress
<1>9. CASE PollDrag
  BY <1>1, <1>9 DEF PollDrag
<1>10. CASE PollRelease
  BY <1>10 DEF PollRelease
<1>11. CASE PollMove
  BY <1>0, <1>11, RepaintsNothing DEF PollMove
<1>12. QED
  BY <1>2, <1>3, <1>4, <1>5, <1>6, <1>7, <1>8, <1>9, <1>10, <1>11 DEF WindowsNext, PollerStep

\* Every cell shows the highest visible window that covers it, however windows are made, moved,
\* raised, hidden, destroyed or lost (wsd_compose_all and the repaints of some cells only).
THEOREM ScreenStaysCurrent == WindowsSpec => []ScreenIsCurrent
<1>1. WindowsInit => ScreenIsCurrent
  <2> SUFFICES ASSUME WindowsInit PROVE screen = ComposeAll(win, z)
    BY DEF ScreenIsCurrent
  <2>1. z = <<>> /\ screen = [x \in Cells |-> 0]
    BY DEF WindowsInit
  <2>2. \A x \in Cells : Shown(win, z, x) = 0
    BY <2>1 DEF Shown
  <2>3. QED
    BY <2>1, <2>2 DEF ComposeAll
<1>2. QED
  BY <1>1, ScreenKeepsUp, PTL DEF WindowsSpec
(***************************************************************************)
(* The server: who owns what, and in which order.                          *)
(***************************************************************************)
Progs == [st : {"off", "idle", "made", "shadowed", "up", "undone", "exiting"}, id : Nat,
          kid : KSlots \union {-1}, fd : Fds \union {0}]
Reqs == [op : {"none", "create", "bind", "destroy"}, id : Nat, kid : KSlots \union {-1}]
Conns == [client : Clients \union {NoClient}, req : Reqs, eof : BOOLEAN, st : {"free", "served", "collected"}]
Wins == [id : Nat, fd : Fds \union {0}, kind : Kinds, kid : KSlots \union {-1},
         hidden : BOOLEAN, place : SUBSET Cells]

ServerTypes ==
    /\ cl \in [Clients -> Progs] /\ conn \in [Fds -> Conns] /\ win \in [Slots -> Wins]
    /\ z \in Seq(Slots) /\ nextId \in Nat \ {0} /\ screen \in [Cells -> Slots \union {0}]
    /\ grab \in Slots \union {0} /\ astray \in BOOLEAN

\* A program that runs has a connection, and what it asked for is what it waits for.
Sessions ==
    /\ \A c \in Clients : cl[c].id < nextId /\ (cl[c].st = "off" => cl[c].fd = 0)
    /\ \A c \in Clients : cl[c].st # "off" =>
          cl[c].fd \in Fds /\ conn[cl[c].fd].client = c /\ conn[cl[c].fd].st = "served" /\ ~conn[cl[c].fd].eof
    /\ \A f \in Fds : conn[f].st = "served" => conn[f].client \in Clients
    /\ \A f \in Fds : conn[f].st = "served" /\ Waiting(f) =>
          /\ conn[f].req.op = "create" => cl[conn[f].client].st = "idle"
          /\ conn[f].req.op = "bind" => cl[conn[f].client].st = "shadowed"
          /\ conn[f].req.op = "destroy" => cl[conn[f].client].st = "undone"
          /\ conn[f].req.op \in {"bind", "destroy"} => conn[f].req.id = cl[conn[f].client].id

\* A window is of a connection that is served and of no other; the window a program knows by its
\* id is of its own connection, and has no shadow before the program has made one.
Owned ==
    /\ \A s \in Slots : ~Used(s) => win[s].kid = -1
    /\ \A s \in Slots : Used(s) => /\ win[s].fd \in Fds /\ conn[win[s].fd].st = "served" /\ win[s].id < nextId
                                   /\ win[s].kind = Kind[conn[win[s].fd].client]
    /\ \A s, t \in Slots : Used(s) /\ win[s].id = win[t].id => s = t
    /\ \A c \in Clients, s \in Slots : Used(s) /\ win[s].id = cl[c].id =>
          win[s].fd = cl[c].fd /\ (cl[c].st = "made" => win[s].kid = -1)

\* A shadow is of the program whose window it was made for.
Shadowed ==
    /\ \A k \in KSlots : InUse(kern, k) => kern.win[k].for < nextId /\ kern.win[k].kind = Kind[kern.win[k].owner]
    /\ \A k \in KSlots, s \in Slots : InUse(kern, k) /\ Used(s) /\ kern.win[k].for = win[s].id =>
          kern.win[k].owner = conn[win[s].fd].client

\* The kernel leaves the shadow of a window alone; the server moves both.
Ordered ==
    /\ \A s \in Slots : Bound(s) => kern.win[win[s].kid].pass
    /\ ~astray => \A s, t \in Slots : Bound(s) /\ Bound(t) /\ Above(z, s, t) =>
                      Above(kern.z, win[s].kid, win[t].kid)

WindowsInv == Table(kern) /\ Paired(kern) /\ ServerTypes /\ Sessions /\ Owned /\ Shadowed /\ Ordered

\* A repaint shows slots.
LEMMA PaintedFacts ==
  ASSUME NEW w, NEW q \in Seq(Slots)
  PROVE  /\ ComposeAll(w, q) \in [Cells -> Slots \union {0}]
         /\ \A x \in Cells : Shown(w, q, x) # 0 => Shown(w, q, x) \in Slots /\ w[Shown(w, q, x)].id # 0
<1> SUFFICES ASSUME NEW x \in Cells
             PROVE  Shown(w, q, x) = 0 \/ (Shown(w, q, x) \in Slots /\ w[Shown(w, q, x)].id # 0)
  BY DEF ComposeAll
<1> DEFINE over == {i \in DOMAIN q : w[q[i]].id # 0 /\ ~w[q[i]].hidden /\ x \in w[q[i]].place}
<1>1. CASE over = {}
  BY <1>1 DEF Shown
<1>2. CASE over # {}
  <2>1. Shown(w, q, x) = q[Max(over)]
    BY <1>2 DEF Shown
  <2>2. DOMAIN q = 1 .. Len(q) /\ Len(q) \in Nat /\ \A i \in 1 .. Len(q) : q[i] \in Slots
    OBVIOUS
  <2>3. over \subseteq 1 .. Len(q) /\ \A i \in over : w[q[i]].id # 0
    BY <2>2
  <2> HIDE DEF over
  <2>4. IsFiniteSet(over) /\ over \in SUBSET Nat
    <3>1. IsFiniteSet(1 .. Len(q))
      BY <2>2, FS_Interval
    <3>2. over \in SUBSET (1 .. Len(q))
      BY <2>3
    <3>3. IsFiniteSet(over)
      BY <3>1, <3>2, FS_Subset
    <3>4. QED
      BY <2>2, <3>2, <3>3
  <2>5. Max(over) \in over
    BY <1>2, <2>4, ExtremesExist
  <2>6. QED
    BY <2>1, <2>2, <2>3, <2>5
<1>3. QED
  BY <1>1, <1>2

\* z_raise moves one window only, and nothing stays above it.
LEMMA ZRaiseFacts ==
  ASSUME ServerTypes, NEW s \in Slots
  PROVE  /\ ZRaise(s) \in Seq(Slots) /\ ToSet(ZRaise(s)) = ToSet(z)
         /\ \A a, b : a # s /\ b # s => (Above(ZRaise(s), a, b) <=> Above(z, a, b))
         /\ win[s].kind # "wall" => \A a : ~Above(ZRaise(s), a, s)
<1>1. z \in Seq(Slots)
  BY DEF ServerTypes
<1>2. Range(z) = ToSet(z)
  BY DEF Range, ToSet
<1>3. CASE win[s].kind = "wall"
  BY <1>1, <1>3 DEF ZRaise
<1>4. CASE win[s].kind # "wall" /\ s \notin Range(z)
  <2>1. ASSUME NEW a, Above(z, a, s) PROVE FALSE
    BY <1>1, <1>4, <2>1 DEF Above, Range
  <2>2. QED
    BY <1>1, <1>4, <2>1 DEF ZRaise
<1>5. CASE win[s].kind # "wall" /\ s \in Range(z)
  <2> DEFINE w == Without(z, {s})
  <2>1. ZRaise(s) = Append(w, s)
    BY <1>5 DEF ZRaise
  <2>2. /\ w \in Seq(Slots) /\ ToSet(w) = ToSet(z) \ {s}
        /\ \A a, b : Above(w, a, b) <=> Above(z, a, b) /\ a \notin {s} /\ b \notin {s}
    BY <1>1, WithoutFacts
  <2> HIDE DEF w
  <2>3. /\ Append(w, s) \in Seq(Slots) /\ ToSet(Append(w, s)) = ToSet(w) \union {s}
        /\ \A a, b : Above(Append(w, s), a, b) <=> Above(w, a, b) \/ (a = s /\ b \in ToSet(w))
    BY <2>2, OnTop
  <2>4. QED
    BY <1>2, <1>5, <2>1, <2>2, <2>3
<1>6. QED
  BY <1>3, <1>4, <1>5

\* Two stacks that agree still do when windows or shadows leave, and when those come that are
\* not bound yet.
LEMMA OrderStays ==
  ASSUME Ordered, astray' = astray,
         \A s \in Slots : Bound(s)' => /\ Bound(s) /\ win'[s].kid = win[s].kid
                                       /\ kern'.win[win'[s].kid].pass = kern.win[win[s].kid].pass,
         \A s, t \in Slots : Bound(s)' /\ Bound(t)' /\ Above(z', s, t) => Above(z, s, t),
         \A s, t \in Slots : Bound(s)' /\ Bound(t)' /\ Above(kern.z, win[s].kid, win[t].kid) =>
             Above(kern'.z, win[s].kid, win[t].kid)
  PROVE  Ordered'
<1>1. ASSUME NEW s \in Slots, Bound(s)' PROVE kern'.win[win'[s].kid].pass
  BY <1>1 DEF Ordered
<1>2. ASSUME ~astray', NEW s \in Slots, NEW t \in Slots, Bound(s)', Bound(t)', Above(z', s, t)
      PROVE  Above(kern'.z, win'[s].kid, win'[t].kid)
  <2>1. Bound(s) /\ Bound(t) /\ win'[s].kid = win[s].kid /\ win'[t].kid = win[t].kid
    BY <1>2
  <2>2. Above(z, s, t)
    BY <1>2
  <2>3. Above(kern.z, win[s].kid, win[t].kid)
    BY <1>2, <2>1, <2>2 DEF Ordered
  <2>4. QED
    BY <1>2, <2>1, <2>3
<1>3. QED
  BY <1>1, <1>2 DEF Ordered, Above

\* When the server raises a window and its own shadow, the stacks still agree; a call that
\* reaches the shadow of another window is what astray records.
LEMMA RaisedTogether ==
  ASSUME WindowsInv, NEW s \in Slots, Used(s), NEW k \in KSlots \union {-1},
         \A t \in Slots : win'[t].id = win[t].id /\ win'[t].kind = win[t].kind,
         \A t \in Slots \ {s} : win'[t].kid = win[t].kid,
         win'[s].kid = k,
         z' = ZRaise(s),
         \A o \in KSlots : /\ kern'.win[o].owner = kern.win[o].owner /\ kern'.win[o].for = kern.win[o].for
                           /\ kern.win[o].pass => kern'.win[o].pass,
         Bound(s)' => kern'.win[k].pass,
         Lifted(kern, kern', k),
         astray' = (astray \/ (InUse(kern, k) /\ kern.win[k].for # win[s].id))
  PROVE  Ordered'
<1>1. \A o \in KSlots : InUse(kern', o) <=> InUse(kern, o)
  BY DEF InUse
<1>2. ASSUME NEW t \in Slots, t # s
      PROVE  Bound(t)' <=> Bound(t)
  BY <1>2 DEF Bound, InUse
<1>u. \A t, o \in Slots : Used(t) /\ win[t].id = win[o].id => t = o
  BY DEF WindowsInv, Owned
<1>3. ASSUME NEW t \in Slots, Bound(t)' PROVE kern'.win[win'[t].kid].pass
  <2>1. CASE t = s
    BY <1>3, <2>1
  <2>2. CASE t # s
    <3>1. Bound(t) /\ win'[t].kid = win[t].kid
      BY <1>2, <1>3, <2>2
    <3>2. kern.win[win[t].kid].pass /\ win[t].kid \in KSlots
      BY <3>1 DEF WindowsInv, Ordered, Bound, InUse
    <3>3. QED
      BY <3>1, <3>2
  <2>3. QED
    BY <2>1, <2>2
<1>4. ASSUME ~astray', NEW a \in Slots, NEW b \in Slots, Bound(a)', Bound(b)', Above(z', a, b)
      PROVE  Above(kern'.z, win'[a].kid, win'[b].kid)
  <2>1. ~astray /\ (InUse(kern, k) => kern.win[k].for = win[s].id)
    BY <1>4 DEF WindowsInv, ServerTypes
  <2>2. ASSUME NEW t \in Slots, t # s, Bound(t) PROVE win[t].kid # k /\ win[t].kid \in ToSet(kern.z)
    <3>1. win[t].kid \in KSlots /\ InUse(kern, win[t].kid) /\ kern.win[win[t].kid].for = win[t].id
      BY <2>2 DEF Bound, InUse
    <3>2. win[t].kid # k
      <4>1. SUFFICES ASSUME win[t].kid = k PROVE FALSE
        OBVIOUS
      <4>2. win[t].id = win[s].id
        BY <2>1, <3>1, <4>1
      <4>3. QED
        BY <1>u, <2>2, <4>2
    <3>3. QED
      BY <3>1, <3>2 DEF WindowsInv, Table
  <2>3. CASE a # s /\ b # s
    <3>1. Bound(a) /\ Bound(b) /\ win'[a].kid = win[a].kid /\ win'[b].kid = win[b].kid
      BY <1>2, <1>4, <2>3
    <3>2. Above(z, a, b)
      BY <1>4, <2>3, ZRaiseFacts DEF WindowsInv
    <3>3. Above(kern.z, win[a].kid, win[b].kid)
      BY <2>1, <3>1, <3>2 DEF WindowsInv, Ordered
    <3>4. QED
      BY <2>2, <2>3, <3>1, <3>3 DEF Lifted
  <2>4. CASE b = s
    <3>1. win[s].kind # "wall"
      BY <1>4, <2>4 DEF Bound
    <3>2. QED
      BY <1>4, <2>4, <3>1, ZRaiseFacts DEF WindowsInv
  <2>5. CASE a = s /\ b # s
    <3>1. win[s].kind = "app" /\ k \in KSlots /\ InUse(kern, k) /\ kern.win[k].for = win[s].id
      BY <1>1, <1>4, <2>5 DEF Bound, InUse
    <3>2. kern.win[k].kind = "app"
      BY <3>1 DEF WindowsInv, Shadowed, Owned
    <3>3. Bound(b) /\ win'[b].kid = win[b].kid
      BY <1>2, <1>4, <2>5
    <3>4. win[b].kid # k /\ win[b].kid \in ToSet(kern.z)
      BY <2>2, <2>5, <3>3
    <3>5. QED
      BY <2>5, <3>1, <3>2, <3>3, <3>4 DEF Lifted
  <2>6. QED
    BY <2>3, <2>4, <2>5
<1>5. QED
  BY <1>3, <1>4 DEF Ordered, Above

\* What a step that only shows, hides, moves or raises windows leaves alone.
LEMMA LooksKeep ==
  ASSUME WindowsInv, cl' = cl, conn' = conn, nextId' = nextId, SameWindows(kern, kern'),
         \A s \in Slots : /\ win'[s].id = win[s].id /\ win'[s].fd = win[s].fd
                          /\ win'[s].kind = win[s].kind /\ win'[s].kid = win[s].kid
  PROVE  Sessions' /\ Owned' /\ Shadowed'
<1>1. Sessions'
  BY DEF WindowsInv, Sessions, Waiting
<1>2. \A s \in Slots : Used(s)' <=> Used(s)
  BY DEF Used
<1>3. Owned'
  BY <1>2 DEF WindowsInv, Owned
<1>4. \A k \in KSlots : InUse(kern', k) <=> InUse(kern, k)
  BY DEF InUse, SameWindows
<1>5. Shadowed'
  BY <1>2, <1>4 DEF WindowsInv, Shadowed, SameWindows
<1>6. QED
  BY <1>1, <1>3, <1>5

\* A change of one field of one window.
LEMMA HiddenChanges ==
  ASSUME ServerTypes, NEW s \in Slots, NEW b \in BOOLEAN, win' = [win EXCEPT ![s].hidden = b]
  PROVE  /\ win' \in [Slots -> Wins]
         /\ \A t \in Slots : /\ win'[t].id = win[t].id /\ win'[t].fd = win[t].fd /\ win'[t].kind = win[t].kind
                             /\ win'[t].kid = win[t].kid
<1> DEFINE r == [win[s] EXCEPT !.hidden = b]
<1>1. win \in [Slots -> Wins] /\ win[s] \in Wins
  BY DEF ServerTypes
<1>2. r \in Wins /\ r.id = win[s].id /\ r.fd = win[s].fd /\ r.kind = win[s].kind /\ r.kid = win[s].kid
  BY <1>1 DEF Wins
<1>3. win' = [win EXCEPT ![s] = r]
  OBVIOUS
<1> HIDE DEF r
<1>4. win' \in [Slots -> Wins] /\ \A t \in Slots : win'[t] = IF t = s THEN r ELSE win[t]
  BY <1>1, <1>2, <1>3
<1>5. QED
  BY <1>2, <1>4

\* The same of its place.
LEMMA PlaceChanges ==
  ASSUME ServerTypes, NEW s \in Slots, NEW p \in SUBSET Cells, win' = [win EXCEPT ![s].place = p]
  PROVE  /\ win' \in [Slots -> Wins]
         /\ \A t \in Slots : /\ win'[t].id = win[t].id /\ win'[t].fd = win[t].fd /\ win'[t].kind = win[t].kind
                             /\ win'[t].kid = win[t].kid
<1> DEFINE r == [win[s] EXCEPT !.place = p]
<1>1. win \in [Slots -> Wins] /\ win[s] \in Wins
  BY DEF ServerTypes
<1>2. r \in Wins /\ r.id = win[s].id /\ r.fd = win[s].fd /\ r.kind = win[s].kind /\ r.kid = win[s].kid
  BY <1>1 DEF Wins
<1>3. win' = [win EXCEPT ![s] = r]
  OBVIOUS
<1> HIDE DEF r
<1>4. win' \in [Slots -> Wins] /\ \A t \in Slots : win'[t] = IF t = s THEN r ELSE win[t]
  BY <1>1, <1>2, <1>3
<1>5. QED
  BY <1>2, <1>4

\* The same of its shadow.
LEMMA KidChanges ==
  ASSUME ServerTypes, NEW s \in Slots, NEW k \in KSlots \union {-1}, win' = [win EXCEPT ![s].kid = k]
  PROVE  /\ win' \in [Slots -> Wins]
         /\ \A t \in Slots : /\ win'[t].id = win[t].id /\ win'[t].fd = win[t].fd /\ win'[t].kind = win[t].kind
                             /\ win'[t].kid = IF t = s THEN k ELSE win[t].kid
<1> DEFINE r == [win[s] EXCEPT !.kid = k]
<1>1. win \in [Slots -> Wins] /\ win[s] \in Wins
  BY DEF ServerTypes
<1>2. r \in Wins /\ r.id = win[s].id /\ r.fd = win[s].fd /\ r.kind = win[s].kind /\ r.kid = k
  BY <1>1 DEF Wins
<1>3. win' = [win EXCEPT ![s] = r]
  OBVIOUS
<1> HIDE DEF r
<1>4. win' \in [Slots -> Wins] /\ \A t \in Slots : win'[t] = IF t = s THEN r ELSE win[t]
  BY <1>1, <1>2, <1>3
<1>5. QED
  BY <1>2, <1>4

\* What all of the invariant says of the next state.
LEMMA Gathered ==
  ASSUME Table(kern'), Paired(kern'), ServerTypes', Sessions', Owned', Shadowed', Ordered'
  PROVE  WindowsInv'
BY DEF WindowsInv, Table, Paired, Tables, InUse

\* The server shows or moves a window, and nobody's order changes.
LEMMA LooksOnly ==
  ASSUME WindowsInv, cl' = cl, conn' = conn, nextId' = nextId, z' = z,
         win' \in [Slots -> Wins],
         \A s \in Slots : /\ win'[s].id = win[s].id /\ win'[s].fd = win[s].fd
                          /\ win'[s].kind = win[s].kind /\ win'[s].kid = win[s].kid,
         screen' \in [Cells -> Slots \union {0}], grab' \in Slots \union {0}, astray' \in BOOLEAN,
         astray => astray',
         Table(kern'), Paired(kern'), SameWindows(kern, kern'),
         \A s, t \in Slots : Bound(s) /\ Bound(t) /\ Above(kern.z, win[s].kid, win[t].kid) =>
             Above(kern'.z, win[s].kid, win[t].kid)
  PROVE  WindowsInv'
<1>1. Sessions' /\ Owned' /\ Shadowed'
  BY LooksKeep
<1>2. ServerTypes'
  BY DEF WindowsInv, ServerTypes
<1>3. ASSUME NEW s \in Slots, Bound(s)' PROVE Bound(s) /\ kern'.win[win'[s].kid].pass = kern.win[win[s].kid].pass
  BY <1>3 DEF Bound, InUse, SameWindows
<1>4. Ordered'
  <2>1. ASSUME NEW s \in Slots, Bound(s)' PROVE kern'.win[win'[s].kid].pass
    BY <1>3, <2>1 DEF WindowsInv, Ordered
  <2>2. ASSUME ~astray', NEW s \in Slots, NEW t \in Slots, Bound(s)', Bound(t)', Above(z', s, t)
        PROVE  Above(kern'.z, win'[s].kid, win'[t].kid)
    <3>1. Bound(s) /\ Bound(t) /\ ~astray /\ Above(z, s, t)
      BY <1>3, <2>2 DEF Above
    <3>2. Above(kern.z, win[s].kid, win[t].kid)
      BY <3>1 DEF WindowsInv, Ordered
    <3>3. QED
      BY <3>1, <3>2
  <2>3. QED
    BY <2>1, <2>2 DEF Ordered, Above
<1>5. QED
  BY <1>1, <1>2, <1>4, Gathered

\* handle_move, handle_damage, and what the pointer does between presses.
LEMMA MovesKeep ==
  ASSUME WindowsInv,
         (\E f \in Fds : HandleMove(f) \/ HandleDamage(f)) \/ PollDrag \/ PollRelease \/ PollMove
  PROVE  WindowsInv'
<1>t. z \in Seq(Slots) /\ screen \in [Cells -> Slots \union {0}] /\ grab \in Slots \union {0} /\ astray \in BOOLEAN
      /\ ServerTypes /\ win \in [Slots -> Wins] /\ Table(kern) /\ Paired(kern)
  BY DEF WindowsInv, ServerTypes
<1>s. SameWindows(kern, kern)
  BY DEF SameWindows
<1>1. ASSUME NEW s \in Slots, NEW p \in SUBSET Cells, win' = [win EXCEPT ![s].place = p],
             screen' = ComposeAll(win', z), kern' = kern, cl' = cl, conn' = conn, z' = z, nextId' = nextId,
             grab' = grab, astray' \in BOOLEAN, astray => astray'
      PROVE  WindowsInv'
  <2>1. /\ win' \in [Slots -> Wins]
        /\ \A t \in Slots : /\ win'[t].id = win[t].id /\ win'[t].fd = win[t].fd
                            /\ win'[t].kind = win[t].kind /\ win'[t].kid = win[t].kid
    BY <1>t, <1>1, PlaceChanges
  <2>2. screen' \in [Cells -> Slots \union {0}]
    BY <1>t, <1>1, PaintedFacts
  <2>3. QED
    BY <1>t, <1>s, <1>1, <2>1, <2>2, LooksOnly
<1>2. ASSUME screen' \in [Cells -> Slots \union {0}], kern' = kern, cl' = cl, conn' = conn, z' = z, win' = win,
             nextId' = nextId, grab' \in Slots \union {0}, astray' = astray
      PROVE  WindowsInv'
  BY <1>t, <1>s, <1>2, LooksOnly
<1>3. ASSUME NEW xs PROVE ComposeRect(win, z, xs) \in [Cells -> Slots \union {0}]
  <2>1. \A x \in Cells : Shown(win, z, x) \in Slots \union {0}
    BY <1>t, PaintedFacts DEF ComposeAll
  <2>2. \A x \in Cells : (IF x \in xs THEN Shown(win, z, x) ELSE screen[x]) \in Slots \union {0}
    BY <1>t, <2>1
  <2>3. QED
    BY <2>2 DEF ComposeRect
<1>4. ASSUME NEW s \in Slots, Used(s) PROVE Places[win[s].kind] \subseteq SUBSET Cells
  <2>1. PICK c \in Clients : win[s].kind = Kind[c]
    BY <1>4 DEF WindowsInv, Owned, Sessions
  <2>2. Kind[c] \in {"app"} \union {Kind[o] : o \in Clients}
    OBVIOUS
  <2>3. Places[Kind[c]] \subseteq SUBSET Cells
    BY <2>2, WindowsAssumption
  <2>4. QED
    BY <2>1, <2>3
<1>5. ASSUME NEW f \in Fds, HandleMove(f) PROVE WindowsInv'
  <2>1. PICK s \in OwnedBy(f) : \E p \in Places[win[s].kind] : win' = [win EXCEPT ![s].place = p]
    BY <1>5 DEF HandleMove
  <2>2. PICK p \in Places[win[s].kind] : win' = [win EXCEPT ![s].place = p]
    BY <2>1
  <2>3. s \in Slots /\ p \in SUBSET Cells
    BY <1>4, <2>2 DEF OwnedBy
  <2>4. QED
    BY <1>t, <1>1, <1>5, <2>2, <2>3 DEF HandleMove, clientVars
<1>6. ASSUME NEW f \in Fds, HandleDamage(f) PROVE WindowsInv'
  BY <1>t, <1>2, <1>3, <1>6 DEF HandleDamage, clientVars
<1>7. CASE PollDrag
  <2>1. CASE Used(grab) /\ Decorated(grab)
    <3>1. PICK p \in Places["app"] : win' = [win EXCEPT ![grab].place = p]
      BY <1>7, <2>1 DEF PollDrag
    <3>2. p \in SUBSET Cells /\ grab \in Slots
      BY <2>1, WindowsAssumption DEF Used
    <3>3. astray' \in BOOLEAN /\ (astray => astray')
      BY <1>t, <1>7, <2>1 DEF PollDrag, Reaching
    <3>4. QED
      BY <1>1, <1>7, <2>1, <3>1, <3>2, <3>3 DEF PollDrag, PollUnchanged, clientVars
  <2>2. CASE ~(Used(grab) /\ Decorated(grab))
    BY <1>t, <1>2, <1>7, <2>2 DEF PollDrag, PollUnchanged, clientVars
  <2>3. QED
    BY <2>1, <2>2
<1>8. CASE PollRelease
  <2>1. screen' \in [Cells -> Slots \union {0}]
    BY <1>t, <1>8, PaintedFacts DEF PollRelease
  <2>2. QED
    BY <1>2, <1>8, <2>1 DEF PollRelease, PollUnchanged, clientVars
<1>9. CASE PollMove
  BY <1>t, <1>2, <1>3, <1>9 DEF PollMove, PollUnchanged, clientVars
<1>10. QED
  BY <1>5, <1>6, <1>7, <1>8, <1>9
\* The server raises a window and the shadow it knows, which may by now be another window's.
LEMMA RaisesOne ==
  ASSUME WindowsInv, NEW s \in Slots, Used(s), cl' = cl, conn' = conn, nextId' = nextId, z' = ZRaise(s),
         win' \in [Slots -> Wins],
         \A t \in Slots : /\ win'[t].id = win[t].id /\ win'[t].fd = win[t].fd
                          /\ win'[t].kind = win[t].kind /\ win'[t].kid = win[t].kid,
         screen' \in [Cells -> Slots \union {0}], grab' \in Slots \union {0},
         Table(kern'), Paired(kern'), SameWindows(kern, kern'), Lifted(kern, kern', win[s].kid), Reaching(win, s)
  PROVE  WindowsInv'
<1>1. Sessions' /\ Owned' /\ Shadowed'
  BY LooksKeep
<1>2. z' \in Seq(Slots) /\ astray' \in BOOLEAN /\ win[s].kid \in KSlots \union {-1}
  BY ZRaiseFacts DEF WindowsInv, ServerTypes, Reaching, Wins
<1>3. ServerTypes'
  BY <1>2 DEF WindowsInv, ServerTypes
<1>4. Bound(s)' => kern'.win[win[s].kid].pass
  <2>1. SUFFICES ASSUME Bound(s)' PROVE kern'.win[win[s].kid].pass
    OBVIOUS
  <2>2. Bound(s) /\ win[s].kid \in KSlots
    BY <2>1 DEF Bound, InUse, SameWindows
  <2>3. QED
    BY <2>2 DEF WindowsInv, Ordered, SameWindows
<1>5. Ordered'
  <2>1. astray' = (astray \/ (InUse(kern, win[s].kid) /\ kern.win[win[s].kid].for # win[s].id))
    BY DEF Reaching
  <2>2. \A o \in KSlots : /\ kern'.win[o].owner = kern.win[o].owner /\ kern'.win[o].for = kern.win[o].for
                          /\ kern.win[o].pass => kern'.win[o].pass
    BY DEF SameWindows
  <2>3. QED
    BY <1>2, <1>4, <2>1, <2>2, RaisedTogether
<1>6. QED
  BY <1>1, <1>3, <1>5, Gathered

\* Showing a shadow and then raising it moves only it.
LEMMA LiftedAgain ==
  ASSUME NEW K, NEW M, NEW N, NEW k, Table(K), Table(M), SameWindows(K, M),
         Lifted(K, M, k) \/ M.z = K.z, Lifted(M, N, k)
  PROVE  Lifted(K, N, k)
<1>1. \A a, b : a # k /\ b # k => (Above(N.z, a, b) <=> Above(K.z, a, b))
  BY DEF Lifted
<1>2. \A o \in KSlots : InUse(M, o) <=> InUse(K, o)
  BY DEF InUse, SameWindows
<1>3. ToSet(K.z) = ToSet(M.z)
  BY <1>2 DEF Table
<1>4. InUse(K, k) => InUse(M, k) /\ M.win[k].kind = K.win[k].kind
  BY <1>2 DEF InUse, SameWindows
<1>5. QED
  BY <1>1, <1>3, <1>4 DEF Lifted

\* handle_restore, whatever the window's shadow has become.
LEMMA RestoreKeeps == WindowsInv /\ HandleRestore => WindowsInv'
<1> SUFFICES ASSUME WindowsInv, HandleRestore PROVE WindowsInv'
  OBVIOUS
<1>t. ServerTypes /\ Table(kern) /\ Paired(kern)
  BY DEF WindowsInv
<1>1. PICK s \in Slots :
         /\ Used(s) /\ win' = [win EXCEPT ![s].hidden = FALSE] /\ z' = ZRaise(s)
         /\ kern' = Raise(IF win[s].hidden THEN SetMinimized(kern, win[s].kid, FALSE) ELSE kern, win[s].kid)
         /\ screen' = ComposeAll(win', z') /\ Reaching(win, s)
  BY DEF HandleRestore
<1> DEFINE M == IF win[s].hidden THEN SetMinimized(kern, win[s].kid, FALSE) ELSE kern
<1>2. /\ Table(M) /\ Paired(M) /\ SameWindows(kern, M) /\ (Lifted(kern, M, win[s].kid) \/ M.z = kern.z)
  <2>1. CASE win[s].hidden
    BY <1>t, <2>1, MinimizeKeeps
  <2>2. CASE ~win[s].hidden
    BY <1>t, <2>2 DEF SameWindows
  <2>3. QED
    BY <2>1, <2>2
<1>3. kern' = Raise(M, win[s].kid)
  BY <1>1
<1> HIDE DEF M
<1>4. Table(kern') /\ Paired(kern') /\ SameWindows(M, kern') /\ Lifted(M, kern', win[s].kid)
  BY <1>2, <1>3, RaiseKeeps
<1>5. SameWindows(kern, kern')
  BY <1>2, <1>4 DEF SameWindows
<1>6. Lifted(kern, kern', win[s].kid)
  BY <1>t, <1>2, <1>4, LiftedAgain
<1>7. /\ win' \in [Slots -> Wins]
      /\ \A t \in Slots : /\ win'[t].id = win[t].id /\ win'[t].fd = win[t].fd
                          /\ win'[t].kind = win[t].kind /\ win'[t].kid = win[t].kid
  BY <1>t, <1>1, HiddenChanges
<1>8. z' \in Seq(Slots)
  BY <1>t, <1>1, ZRaiseFacts
<1>9. screen' \in [Cells -> Slots \union {0}] /\ grab' \in Slots \union {0}
  BY <1>t, <1>1, <1>8, PaintedFacts DEF HandleRestore, ServerTypes
<1>10. QED
  BY <1>1, <1>4, <1>5, <1>6, <1>7, <1>9, RaisesOne DEF HandleRestore, clientVars

\* handle_minimize and the title bar's button.
LEMMA HideKeeps ==
  ASSUME WindowsInv, NEW s \in Slots, Hide(s), cl' = cl, conn' = conn, nextId' = nextId, z' = z, grab' = grab
  PROVE  WindowsInv'
<1>t. ServerTypes /\ Table(kern) /\ Paired(kern) /\ z \in Seq(Slots) /\ grab \in Slots \union {0} /\ astray \in BOOLEAN
  BY DEF WindowsInv, ServerTypes
<1>1. /\ win' \in [Slots -> Wins]
      /\ \A t \in Slots : /\ win'[t].id = win[t].id /\ win'[t].fd = win[t].fd
                          /\ win'[t].kind = win[t].kind /\ win'[t].kid = win[t].kid
  BY <1>t, HiddenChanges DEF Hide
<1>2. Table(kern') /\ Paired(kern') /\ SameWindows(kern, kern') /\ kern'.z = kern.z
  BY <1>t, MinimizeKeeps DEF Hide
<1>3. screen' \in [Cells -> Slots \union {0}]
  BY <1>t, PaintedFacts DEF Hide
<1>4. astray' \in BOOLEAN /\ (astray => astray')
  BY <1>t DEF Hide, Reaching
<1>5. QED
  BY <1>t, <1>1, <1>2, <1>3, <1>4, LooksOnly

\* A press the kernel finds a window for: it is none that the server has bound.
LEMMA KernelPressKeeps == WindowsInv /\ KernelPress => WindowsInv'
<1> SUFFICES ASSUME WindowsInv, KernelPress PROVE WindowsInv'
  OBVIOUS
<1>t. /\ ServerTypes /\ Table(kern) /\ Paired(kern) /\ win \in [Slots -> Wins] /\ grab \in Slots \union {0}
      /\ astray \in BOOLEAN /\ screen \in [Cells -> Slots \union {0}]
  BY DEF WindowsInv, ServerTypes
<1>1. PICK k \in Hittable(kern) : kern' = PressOn(kern, k)
  BY DEF KernelPress
<1>2. k \in KSlots /\ InUse(kern, k) /\ ~kern.win[k].pass
  BY DEF Hittable
<1>3. Table(kern') /\ Paired(kern') /\ SameWindows(kern, kern') /\ Lifted(kern, kern', k)
  BY <1>t, <1>1, <1>2, PressOnKeeps
<1>4. \A s \in Slots : Bound(s) => win[s].kid # k
  BY <1>2 DEF WindowsInv, Ordered
<1>5. \A s, t \in Slots : Bound(s) /\ Bound(t) /\ Above(kern.z, win[s].kid, win[t].kid) =>
          Above(kern'.z, win[s].kid, win[t].kid)
  BY <1>3, <1>4 DEF Lifted
<1>6. QED
  BY <1>t, <1>3, <1>5, LooksOnly DEF KernelPress, clientVars, ServerUnchanged

\* A press the poller finds a window for.
LEMMA PollPressKeeps == WindowsInv /\ PollPress => WindowsInv'
<1> SUFFICES ASSUME WindowsInv, PollPress PROVE WindowsInv'
  OBVIOUS
<1>t. /\ ServerTypes /\ Table(kern) /\ Paired(kern) /\ win \in [Slots -> Wins] /\ grab \in Slots \union {0}
      /\ astray \in BOOLEAN /\ screen \in [Cells -> Slots \union {0}] /\ z \in Seq(Slots)
  BY DEF WindowsInv, ServerTypes
<1>c. cl' = cl /\ conn' = conn /\ nextId' = nextId
  BY DEF PollPress, PollUnchanged, clientVars
<1>s. SameWindows(kern, kern)
  BY DEF SameWindows
<1>1. ASSUME win' = win, z' = z, kern' = kern, astray' = astray, screen' \in [Cells -> Slots \union {0}],
             grab' \in Slots \union {0}
      PROVE  WindowsInv'
  BY <1>t, <1>c, <1>s, <1>1, LooksOnly
<1>2. ASSUME NEW s \in Slots, Used(s), NEW always \in BOOLEAN, RaiseBoth(s, always), win' = win,
             screen' = ComposeAll(win, z'), grab' \in Slots \union {0}
      PROVE  WindowsInv'
  <2>1. z' = ZRaise(s) /\ z' \in Seq(Slots)
    BY <1>t, <1>2, ZRaiseFacts DEF RaiseBoth
  <2>2. screen' \in [Cells -> Slots \union {0}]
    BY <1>2, <2>1, PaintedFacts
  <2>3. CASE kern' = Raise(kern, win[s].kid) /\ Reaching(win, s)
    <3>1. Table(kern') /\ Paired(kern') /\ SameWindows(kern, kern') /\ Lifted(kern, kern', win[s].kid)
      BY <1>t, <2>3, RaiseKeeps
    <3>2. QED
      BY <1>t, <1>c, <1>2, <2>1, <2>2, <2>3, <3>1, RaisesOne
  <2>4. CASE z' = z /\ kern' = kern /\ astray' = astray
    BY <1>1, <1>2, <2>2, <2>4
  <2>5. QED
    BY <1>2, <2>3, <2>4 DEF RaiseBoth
<1>3. PICK x \in Cells : \/ UNCHANGED <<kern, win, z, screen, grab, astray>>
                         \/ /\ Shown(win, z, x) # 0
                            /\ \/ PressFrame(Shown(win, z, x)) \/ PressClose(Shown(win, z, x))
                               \/ PressMinimize(Shown(win, z, x)) \/ PressBody(Shown(win, z, x))
  BY DEF PollPress
<1>4. CASE UNCHANGED <<kern, win, z, screen, grab, astray>>
  BY <1>t, <1>1, <1>4
<1> DEFINE s == Shown(win, z, x)
<1>5. CASE s # 0 /\ (PressFrame(s) \/ PressClose(s) \/ PressMinimize(s) \/ PressBody(s))
  <2>1. s \in Slots /\ Used(s)
    BY <1>t, <1>5, PaintedFacts DEF Used
  <2> HIDE DEF s
  <2>2. CASE PressFrame(s)
    BY <1>2, <2>1, <2>2 DEF PressFrame
  <2>3. CASE PressClose(s)
    BY <1>t, <1>1, <2>3 DEF PressClose
  <2>4. CASE PressMinimize(s)
    BY <1>c, <2>1, <2>4, HideKeeps DEF PressMinimize
  <2>5. CASE PressBody(s)
    <3>1. CASE win[s].kind = "wall"
      BY <1>t, <1>1, <2>5, <3>1 DEF PressBody
    <3>2. CASE win[s].kind # "wall"
      <4>1. RaiseBoth(s, TRUE) /\ win' = win /\ screen' = ComposeAll(win, z') /\ grab' = grab
        BY <2>5, <3>2 DEF PressBody
      <4>2. QED
        BY <1>t, <1>2, <2>1, <4>1
    <3>3. QED
      BY <3>1, <3>2
  <2>6. QED
    BY <1>5, <2>2, <2>3, <2>4, <2>5
<1>6. QED
  BY <1>3, <1>4, <1>5
(***************************************************************************)
(* The clients' steps.                                                     *)
(***************************************************************************)
\* A step of a client that leaves windows and shadows alone.
LEMMA WindowsRest ==
  ASSUME WindowsInv, kern' = kern, win' = win, z' = z, nextId' = nextId, screen' = screen, grab' = grab,
         astray' = astray, cl' \in [Clients -> Progs], conn' \in [Fds -> Conns],
         \A f \in Fds : conn[f].st = "served" => conn'[f].st = "served" /\ conn'[f].client = conn[f].client,
         \A c \in Clients : cl'[c].id # 0 => cl'[c] = cl[c],
         Sessions'
  PROVE  WindowsInv'
<1>1. ServerTypes'
  BY DEF WindowsInv, ServerTypes
<1>2. Owned'
  <2>1. \A s \in Slots : Used(s)' <=> Used(s)
    BY DEF Used
  <2>2. ASSUME NEW s \in Slots, Used(s)
        PROVE  /\ win'[s].fd \in Fds /\ conn'[win'[s].fd].st = "served" /\ win'[s].id < nextId'
               /\ win'[s].kind = Kind[conn'[win'[s].fd].client]
    BY <2>2 DEF WindowsInv, Owned
  <2>3. ASSUME NEW c \in Clients, NEW s \in Slots, Used(s), win'[s].id = cl'[c].id
        PROVE  win'[s].fd = cl'[c].fd /\ (cl'[c].st = "made" => win'[s].kid = -1)
    <3>1. cl'[c].id # 0
      BY <2>3 DEF Used
    <3>2. cl'[c] = cl[c]
      BY <3>1
    <3>3. QED
      BY <2>3, <3>2 DEF WindowsInv, Owned
  <2>4. QED
    BY <2>1, <2>2, <2>3 DEF WindowsInv, Owned
<1>3. Shadowed'
  <2>1. ASSUME NEW k \in KSlots, NEW s \in Slots, InUse(kern, k), Used(s), kern.win[k].for = win[s].id
        PROVE  kern.win[k].owner = conn'[win[s].fd].client
    BY <2>1 DEF WindowsInv, Owned, Shadowed
  <2>2. QED
    BY <2>1 DEF WindowsInv, Shadowed, Used
<1>4. Ordered'
  BY DEF WindowsInv, Ordered, Bound, Above
<1>5. QED
  BY <1>1, <1>2, <1>3, <1>4, Gathered DEF WindowsInv

\* What the connection of a program that runs is.
LEMMA QuietFacts ==
  ASSUME WindowsInv, NEW c \in Clients, Quiet(c)
  PROVE  /\ cl[c].fd \in Fds /\ conn[cl[c].fd].client = c /\ conn[cl[c].fd].st = "served" /\ ~conn[cl[c].fd].eof
         /\ cl[c].st # "off"
<1>1. cl[c].st # "off"
  BY DEF WindowsInv, Sessions, Quiet
<1>2. QED
  BY <1>1 DEF WindowsInv, Sessions

\* wm_connect and accept.
LEMMA ConnectKeeps ==
  ASSUME WindowsInv, NEW c \in Clients, Connect(c)
  PROVE  WindowsInv'
<1> DEFINE F == {g \in Fds : conn[g].st = "free"}
<1> DEFINE f == Min(F)
<1>t. cl \in [Clients -> Progs] /\ conn \in [Fds -> Conns]
  BY DEF WindowsInv, ServerTypes
<1>1. f \in F
  <2>1. F # {}
    BY DEF Connect
  <2>2. F \in SUBSET Nat /\ IsFiniteSet(F)
    <3>1. F \in SUBSET Fds
      OBVIOUS
    <3> HIDE DEF F
    <3>2. QED
      BY <3>1, WindowsAssumption, FS_Subset
  <2> HIDE DEF F
  <2>3. QED
    BY <2>1, <2>2, ExtremesExist
<1> DEFINE a == [OffClient EXCEPT !.st = "idle", !.fd = f]
<1> DEFINE b == [FreeConn EXCEPT !.client = c, !.st = "served"]
<1>2. /\ cl[c].st = "off" /\ cl' = [cl EXCEPT ![c] = a] /\ conn' = [conn EXCEPT ![f] = b]
      /\ kern' = kern /\ astray' = astray /\ grab' = grab /\ win' = win /\ z' = z /\ nextId' = nextId
      /\ screen' = screen
  BY DEF Connect, ServerUnchanged
<1>3. f \in Fds /\ conn[f].st = "free"
  BY <1>1
<1> HIDE DEF F, f
<1>4. a \in Progs /\ a.st = "idle" /\ a.fd = f /\ a.id = 0 /\ a.kid = -1
  BY <1>3 DEF OffClient, Progs
<1>5. /\ b \in Conns /\ b.client = c /\ b.st = "served" /\ b.eof = FALSE /\ b.req = NoReq
      /\ b.req.op = "none"
  BY DEF FreeConn, NoReq, Conns, Reqs
<1> HIDE DEF a, b
<1>6. /\ cl' \in [Clients -> Progs] /\ cl'[c] = a /\ \A o \in Clients \ {c} : cl'[o] = cl[o]
      /\ conn' \in [Fds -> Conns] /\ conn'[f] = b /\ \A g \in Fds \ {f} : conn'[g] = conn[g]
  BY <1>t, <1>2, <1>3, <1>4, <1>5
<1>7. \A g \in Fds : conn[g].st = "served" => g # f
  BY <1>3
<1>8. Sessions'
  <2>1. ASSUME NEW o \in Clients
        PROVE  /\ cl'[o].id < nextId' /\ (cl'[o].st = "off" => cl'[o].fd = 0)
               /\ cl'[o].st # "off" => /\ cl'[o].fd \in Fds /\ conn'[cl'[o].fd].client = o
                                       /\ conn'[cl'[o].fd].st = "served" /\ ~conn'[cl'[o].fd].eof
    <3>1. CASE o = c
      BY <1>2, <1>3, <1>4, <1>5, <1>6, <3>1 DEF WindowsInv, ServerTypes
    <3>2. CASE o # c
      BY <1>2, <1>6, <1>7, <3>2 DEF WindowsInv, Sessions
    <3>3. QED
      BY <3>1, <3>2
  <2>2. ASSUME NEW g \in Fds, conn'[g].st = "served"
        PROVE  /\ conn'[g].client \in Clients
               /\ Waiting(g)' => /\ conn'[g].req.op = "create" => cl'[conn'[g].client].st = "idle"
                                 /\ conn'[g].req.op = "bind" => cl'[conn'[g].client].st = "shadowed"
                                 /\ conn'[g].req.op = "destroy" => cl'[conn'[g].client].st = "undone"
                                 /\ conn'[g].req.op \in {"bind", "destroy"} =>
                                       conn'[g].req.id = cl'[conn'[g].client].id
    <3>1. CASE g = f
      BY <1>5, <1>6, <3>1
    <3>2. CASE g # f
      <4>1. conn'[g] = conn[g] /\ conn[g].client \in Clients
        BY <1>6, <2>2, <3>2 DEF WindowsInv, Sessions
      <4>2. CASE conn[g].client = c
        BY <1>4, <1>6, <3>2, <4>1, <4>2 DEF Waiting
      <4>3. CASE conn[g].client # c
        <5>1. Waiting(g)' <=> Waiting(g)
          BY <1>6, <4>1, <4>3 DEF Waiting
        <5>2. QED
          BY <1>6, <2>2, <4>1, <4>3, <5>1 DEF WindowsInv, Sessions
      <4>4. QED
        BY <4>2, <4>3
    <3>3. QED
      BY <3>1, <3>2
  <2>3. QED
    BY <2>1, <2>2 DEF Sessions
<1>9. \A o \in Clients : cl'[o].id # 0 => cl'[o] = cl[o]
  BY <1>4, <1>6
<1>10. QED
  BY <1>2, <1>6, <1>7, <1>8, <1>9, WindowsRest

\* The requests: the program now waits for the answer to what it is in the middle of.
LEMMA RequestKeeps ==
  ASSUME WindowsInv, NEW c \in Clients, NEW op, NEW st, Request(c, op, st),
         <<op, st>> \in {<<"create", "idle">>, <<"bind", "shadowed">>, <<"destroy", "undone">>}
  PROVE  WindowsInv'
<1> DEFINE f == cl[c].fd
<1> DEFINE r == [op |-> op, id |-> cl[c].id, kid |-> cl[c].kid]
<1> DEFINE b == [conn[f] EXCEPT !.req = r]
<1>t. cl \in [Clients -> Progs] /\ conn \in [Fds -> Conns]
  BY DEF WindowsInv, ServerTypes
<1>1. /\ Quiet(c) /\ cl[c].st = st /\ conn' = [conn EXCEPT ![f] = b] /\ cl' = cl
      /\ kern' = kern /\ astray' = astray /\ grab' = grab /\ win' = win /\ z' = z /\ nextId' = nextId
      /\ screen' = screen
  BY DEF Request, ServerUnchanged
<1>2. f \in Fds /\ conn[f].client = c /\ conn[f].st = "served" /\ ~conn[f].eof
  BY <1>1, QuietFacts
<1>3. r \in Reqs /\ r.op = op /\ r.id = cl[c].id
  BY <1>t DEF Reqs, Progs
<1>4. conn[f] \in Conns
  BY <1>t, <1>2
<1> HIDE DEF r, f
<1>5. b \in Conns /\ b.client = c /\ b.st = "served" /\ b.eof = conn[f].eof /\ b.req = r
  BY <1>2, <1>3, <1>4 DEF Conns
<1> HIDE DEF b
<1>6. conn' \in [Fds -> Conns] /\ conn'[f] = b /\ \A g \in Fds \ {f} : conn'[g] = conn[g]
  BY <1>t, <1>1, <1>2, <1>5
<1>7. \A g \in Fds : /\ conn'[g].client = conn[g].client /\ conn'[g].st = conn[g].st /\ conn'[g].eof = conn[g].eof
                     /\ g # f => conn'[g].req = conn[g].req
  BY <1>2, <1>5, <1>6
<1>8. Sessions'
  <2>1. \A g \in Fds : Waiting(g)' <=> Waiting(g)
    BY <1>1, <1>7 DEF Waiting
  <2>2. ASSUME NEW o \in Clients
        PROVE  /\ cl'[o].id < nextId' /\ (cl'[o].st = "off" => cl'[o].fd = 0)
               /\ cl'[o].st # "off" => /\ cl'[o].fd \in Fds /\ conn'[cl'[o].fd].client = o
                                       /\ conn'[cl'[o].fd].st = "served" /\ ~conn'[cl'[o].fd].eof
    BY <1>1, <1>7 DEF WindowsInv, Sessions
  <2>3. ASSUME NEW g \in Fds, conn'[g].st = "served"
        PROVE  /\ conn'[g].client \in Clients
               /\ Waiting(g)' => /\ conn'[g].req.op = "create" => cl'[conn'[g].client].st = "idle"
                                 /\ conn'[g].req.op = "bind" => cl'[conn'[g].client].st = "shadowed"
                                 /\ conn'[g].req.op = "destroy" => cl'[conn'[g].client].st = "undone"
                                 /\ conn'[g].req.op \in {"bind", "destroy"} =>
                                       conn'[g].req.id = cl'[conn'[g].client].id
    <3>1. CASE g = f
      BY <1>1, <1>2, <1>3, <1>5, <1>6, <3>1
    <3>2. CASE g # f
      BY <1>1, <1>7, <2>1, <2>3, <3>2 DEF WindowsInv, Sessions
    <3>3. QED
      BY <3>1, <3>2
  <2>4. QED
    BY <2>2, <2>3 DEF Sessions
<1>9. QED
  BY <1>t, <1>1, <1>6, <1>7, <1>8, WindowsRest

\* The end of a program: its connection ends, and it no longer waits.
LEMMA ExitCloseKeeps ==
  ASSUME WindowsInv, NEW c \in Clients, ExitClose(c)
  PROVE  WindowsInv'
<1> DEFINE f == cl[c].fd
<1> DEFINE b == [conn[f] EXCEPT !.eof = TRUE]
<1>t. cl \in [Clients -> Progs] /\ conn \in [Fds -> Conns]
  BY DEF WindowsInv, ServerTypes
<1>1. /\ cl[c].st = "exiting" /\ conn' = [conn EXCEPT ![f] = b] /\ cl' = [cl EXCEPT ![c] = OffClient]
      /\ kern' = kern /\ astray' = astray /\ grab' = grab /\ win' = win /\ z' = z /\ nextId' = nextId
      /\ screen' = screen
  BY DEF ExitClose, ServerUnchanged
<1>2. f \in Fds /\ conn[f].client = c /\ conn[f].st = "served"
  BY <1>1 DEF WindowsInv, Sessions
<1>4. conn[f] \in Conns
  BY <1>t, <1>2
<1> HIDE DEF f
<1>5. b \in Conns /\ b.client = c /\ b.st = "served" /\ b.req = conn[f].req
  BY <1>2, <1>4 DEF Conns
<1> HIDE DEF b
<1>6. conn' \in [Fds -> Conns] /\ conn'[f] = b /\ \A g \in Fds \ {f} : conn'[g] = conn[g]
  BY <1>t, <1>1, <1>2, <1>5
<1>7. \A g \in Fds : /\ conn'[g].client = conn[g].client /\ conn'[g].st = conn[g].st /\ conn'[g].req = conn[g].req
                     /\ g # f => conn'[g].eof = conn[g].eof
  BY <1>2, <1>5, <1>6
<1>8. OffClient \in Progs /\ OffClient.st = "off" /\ OffClient.fd = 0 /\ OffClient.id = 0
  BY DEF OffClient, Progs
<1>9. /\ cl' \in [Clients -> Progs] /\ cl'[c].st = "off" /\ cl'[c].fd = 0 /\ cl'[c].id = 0
      /\ \A o \in Clients \ {c} : cl'[o] = cl[o]
  BY <1>t, <1>1, <1>8
<1>0. 0 \notin Fds /\ 0 < nextId
  BY WindowsAssumption DEF WindowsInv, ServerTypes
<1>10. Sessions'
  <2>1. \A g \in Fds : conn[g].st = "served" /\ Waiting(g)' => Waiting(g) /\ conn[g].client # c
    BY <1>0, <1>7, <1>9 DEF Waiting, WindowsInv, Sessions
  <2>2. ASSUME NEW o \in Clients
        PROVE  /\ cl'[o].id < nextId' /\ (cl'[o].st = "off" => cl'[o].fd = 0)
               /\ cl'[o].st # "off" => /\ cl'[o].fd \in Fds /\ conn'[cl'[o].fd].client = o
                                       /\ conn'[cl'[o].fd].st = "served" /\ ~conn'[cl'[o].fd].eof
    <3>1. CASE o = c
      BY <1>0, <1>1, <1>9, <3>1
    <3>2. CASE o # c
      <4>1. cl'[o].st # "off" => cl[o].fd # f
        BY <1>2, <1>9, <3>2 DEF WindowsInv, Sessions
      <4>2. QED
        BY <1>1, <1>7, <1>9, <3>2, <4>1 DEF WindowsInv, Sessions
    <3>3. QED
      BY <3>1, <3>2
  <2>3. ASSUME NEW g \in Fds, conn'[g].st = "served"
        PROVE  /\ conn'[g].client \in Clients
               /\ Waiting(g)' => /\ conn'[g].req.op = "create" => cl'[conn'[g].client].st = "idle"
                                 /\ conn'[g].req.op = "bind" => cl'[conn'[g].client].st = "shadowed"
                                 /\ conn'[g].req.op = "destroy" => cl'[conn'[g].client].st = "undone"
                                 /\ conn'[g].req.op \in {"bind", "destroy"} =>
                                       conn'[g].req.id = cl'[conn'[g].client].id
    BY <1>7, <1>9, <2>1, <2>3 DEF WindowsInv, Sessions
  <2>4. QED
    BY <2>2, <2>3 DEF Sessions
<1>11. \A o \in Clients : cl'[o].id # 0 => cl'[o] = cl[o]
  BY <1>9
<1>12. QED
  BY <1>1, <1>6, <1>7, <1>9, <1>10, <1>11, WindowsRest
\* A program that waits for nothing, or will never wait again, moves on.
LEMMA MovesOn ==
  ASSUME WindowsInv, NEW c \in Clients, cl[c].st # "off", cl'[c].st \notin {"off", "made"},
         cl'[c].fd = cl[c].fd, cl'[c].id = cl[c].id, \A o \in Clients \ {c} : cl'[o] = cl[o],
         conn' = conn, nextId' = nextId, win' = win, Quiet(c) \/ cl'[c].st = "exiting"
  PROVE  Sessions' /\ Owned'
<1>1. cl[c].fd \in Fds /\ conn[cl[c].fd].client = c /\ conn[cl[c].fd].st = "served" /\ ~conn[cl[c].fd].eof
  BY DEF WindowsInv, Sessions
<1>2. Sessions'
  <2>1. ASSUME NEW o \in Clients
        PROVE  /\ cl'[o].id < nextId' /\ (cl'[o].st = "off" => cl'[o].fd = 0)
               /\ cl'[o].st # "off" => /\ cl'[o].fd \in Fds /\ conn'[cl'[o].fd].client = o
                                       /\ conn'[cl'[o].fd].st = "served" /\ ~conn'[cl'[o].fd].eof
    <3>1. CASE o = c
      BY <1>1, <3>1 DEF WindowsInv, Sessions
    <3>2. CASE o # c
      BY <3>2 DEF WindowsInv, Sessions
    <3>3. QED
      BY <3>1, <3>2
  <2>2. ASSUME NEW g \in Fds, conn'[g].st = "served"
        PROVE  /\ conn'[g].client \in Clients
               /\ Waiting(g)' => /\ conn'[g].req.op = "create" => cl'[conn'[g].client].st = "idle"
                                 /\ conn'[g].req.op = "bind" => cl'[conn'[g].client].st = "shadowed"
                                 /\ conn'[g].req.op = "destroy" => cl'[conn'[g].client].st = "undone"
                                 /\ conn'[g].req.op \in {"bind", "destroy"} =>
                                       conn'[g].req.id = cl'[conn'[g].client].id
    <3>1. CASE conn[g].client = c
      <4>1. ASSUME Waiting(g)' PROVE g = cl[c].fd /\ Quiet(c)
        BY <3>1, <4>1 DEF Waiting
      <4>2. ASSUME Waiting(g)' PROVE conn'[g].req.op = "none"
        BY <4>1, <4>2 DEF Quiet, NoReq
      <4>3. QED
        BY <3>1, <4>2
    <3>2. CASE conn[g].client # c
      <4>1. conn[g].client \in Clients
        BY <2>2 DEF WindowsInv, Sessions
      <4>2. cl'[conn[g].client] = cl[conn[g].client]
        BY <3>2, <4>1
      <4>3. Waiting(g)' <=> Waiting(g)
        BY <4>2 DEF Waiting
      <4>4. QED
        BY <2>2, <4>1, <4>2, <4>3 DEF WindowsInv, Sessions
    <3>3. QED
      BY <3>1, <3>2
  <2>3. QED
    BY <2>1, <2>2 DEF Sessions
<1>3. Owned'
  <2>1. \A s \in Slots : Used(s)' <=> Used(s)
    BY DEF Used
  <2>2. ASSUME NEW o \in Clients, NEW s \in Slots, Used(s), win'[s].id = cl'[o].id
        PROVE  win'[s].fd = cl'[o].fd /\ (cl'[o].st = "made" => win'[s].kid = -1)
    <3>1. CASE o = c
      BY <2>2, <3>1 DEF WindowsInv, Owned
    <3>2. CASE o # c
      BY <2>2, <3>2 DEF WindowsInv, Owned
    <3>3. QED
      BY <3>1, <3>2
  <2>3. QED
    BY <2>1, <2>2 DEF WindowsInv, Owned
<1>4. QED
  BY <1>2, <1>3

\* One field or two of what a program is at.
LEMMA ProgChanges ==
  ASSUME ServerTypes, NEW c \in Clients,
         NEW st \in {"off", "idle", "made", "shadowed", "up", "undone", "exiting"}, NEW k \in KSlots \union {-1},
         \/ cl' = [cl EXCEPT ![c].st = st, ![c].kid = k]
         \/ cl' = [cl EXCEPT ![c].st = st]
  PROVE  /\ cl' \in [Clients -> Progs]
         /\ cl'[c].st = st /\ cl'[c].fd = cl[c].fd /\ cl'[c].id = cl[c].id
         /\ \A o \in Clients \ {c} : cl'[o] = cl[o]
<1> DEFINE r == [cl[c] EXCEPT !.st = st, !.kid = k]
<1> DEFINE q == [cl[c] EXCEPT !.st = st]
<1>1. cl \in [Clients -> Progs] /\ cl[c] \in Progs
  BY DEF ServerTypes
<1>2. /\ r \in Progs /\ r.st = st /\ r.fd = cl[c].fd /\ r.id = cl[c].id
      /\ q \in Progs /\ q.st = st /\ q.fd = cl[c].fd /\ q.id = cl[c].id
  BY <1>1 DEF Progs
<1>3. cl' = [cl EXCEPT ![c] = r] \/ cl' = [cl EXCEPT ![c] = q]
  <2>1. CASE cl' = [cl EXCEPT ![c].st = st]
    BY <2>1
  <2>2. CASE cl' = [cl EXCEPT ![c].st = st, ![c].kid = k]
    <3>1. cl' = [o \in Clients |-> IF o = c THEN r ELSE cl[o]]
      BY <1>1, <2>2
    <3>2. QED
      BY <1>1, <3>1
  <2>3. QED
    BY <2>1, <2>2
<1> HIDE DEF r, q
<1>4. QED
  BY <1>1, <1>2, <1>3

\* Shadows go, and with them what they were bound to.
LEMMA ShadowsGo ==
  ASSUME WindowsInv, NEW ks \in SUBSET KSlots, kern' = Destroy(kern, ks), win' = win, z' = z, conn' = conn,
         nextId' = nextId, screen' = screen, grab' = grab, astray' = astray, cl' \in [Clients -> Progs],
         Sessions', Owned'
  PROVE  WindowsInv'
<1>t. Table(kern) /\ Paired(kern) /\ kern.z \in Seq(KSlots)
  BY DEF WindowsInv, Table, Tables
<1>1. /\ Table(kern') /\ Paired(kern') /\ kern'.z = Without(kern.z, ks)
      /\ \A o \in ks : kern'.win[o].owner = NoClient /\ kern'.win[o].for = 0 /\ kern'.win[o].pass = kern.win[o].pass
      /\ \A o \in KSlots \ ks : kern'.win[o] = kern.win[o]
  BY <1>t, DestroyKeeps
<1>2. ServerTypes'
  BY DEF WindowsInv, ServerTypes
<1>3. \A k \in KSlots : InUse(kern', k) => InUse(kern, k) /\ k \notin ks /\ kern'.win[k] = kern.win[k]
  BY <1>1 DEF InUse
<1>4. Shadowed'
  <2>1. \A s \in Slots : Used(s)' <=> Used(s)
    BY DEF Used
  <2>2. QED
    BY <1>3, <2>1 DEF WindowsInv, Shadowed
<1>5. ASSUME NEW s \in Slots, Bound(s)'
      PROVE  Bound(s) /\ win[s].kid \notin ks /\ kern'.win[win[s].kid].pass = kern.win[win[s].kid].pass
  BY <1>3, <1>5 DEF Bound, InUse
<1>6. \A a, b : Above(kern'.z, a, b) <=> Above(kern.z, a, b) /\ a \notin ks /\ b \notin ks
  BY <1>t, <1>1, WithoutFacts
<1>7. Ordered'
  <2>1. \A s \in Slots : Bound(s)' => /\ Bound(s) /\ win'[s].kid = win[s].kid
                                      /\ kern'.win[win'[s].kid].pass = kern.win[win[s].kid].pass
    BY <1>5
  <2>2. \A s, t \in Slots : Bound(s)' /\ Bound(t)' /\ Above(z', s, t) => Above(z, s, t)
    OBVIOUS
  <2>3. \A s, t \in Slots : Bound(s)' /\ Bound(t)' /\ Above(kern.z, win[s].kid, win[t].kid) =>
            Above(kern'.z, win[s].kid, win[t].kid)
    BY <1>5, <1>6
  <2>4. QED
    BY <2>1, <2>2, <2>3, OrderStays DEF WindowsInv
<1>8. QED
  BY <1>1, <1>2, <1>4, <1>7, Gathered

\* A program gives its shadow up, or exits.
LEMMA DropShadowKeeps ==
  ASSUME WindowsInv, NEW c \in Clients, DropShadow(c)
  PROVE  WindowsInv'
<1>t. ServerTypes /\ cl[c] \in Progs
  BY DEF WindowsInv, ServerTypes
<1>1. /\ Quiet(c) /\ kern' = (IF cl[c].kid < 0 THEN kern ELSE Destroy(kern, {cl[c].kid}))
      /\ cl' = [cl EXCEPT ![c].st = "undone", ![c].kid = -1]
      /\ conn' = conn /\ astray' = astray /\ grab' = grab /\ win' = win /\ z' = z /\ nextId' = nextId
      /\ screen' = screen
  BY DEF DropShadow, ServerUnchanged
<1>2. /\ cl' \in [Clients -> Progs] /\ cl'[c].st = "undone" /\ cl'[c].fd = cl[c].fd /\ cl'[c].id = cl[c].id
      /\ \A o \in Clients \ {c} : cl'[o] = cl[o]
  BY <1>t, <1>1, ProgChanges
<1>3. Sessions' /\ Owned'
  BY <1>1, <1>2, QuietFacts, MovesOn
<1>4. CASE cl[c].kid < 0
  <2>1. kern' = kern
    BY <1>1, <1>4
  <2>2. Shadowed' /\ Ordered'
    <3>1. Shadowed'
      BY <1>1, <2>1 DEF WindowsInv, Shadowed, Used, InUse
    <3>2. Ordered'
      <4>1. kern' = kern /\ win' = win /\ z' = z /\ astray' = astray /\ Ordered
        BY <1>1, <2>1 DEF WindowsInv
      <4>2. QED
        BY ONLY <4>1 DEF Ordered, Bound, Above, InUse
    <3>3. QED
      BY <3>1, <3>2
  <2>3. ServerTypes'
    BY <1>1, <1>2 DEF WindowsInv, ServerTypes
  <2>4. QED
    BY <1>3, <2>1, <2>2, <2>3, Gathered DEF WindowsInv
<1>5. CASE ~(cl[c].kid < 0)
  <2>1. {cl[c].kid} \in SUBSET KSlots
    <3>1. cl[c].kid \in KSlots \union {-1}
      BY <1>t DEF Progs
    <3>2. cl[c].kid # -1
      BY <1>5
    <3>3. QED
      BY <3>1, <3>2
  <2>2. kern' = Destroy(kern, {cl[c].kid})
    BY <1>1, <1>5
  <2>3. QED
    BY <1>1, <1>2, <1>3, <2>1, <2>2, ShadowsGo
<1>6. QED
  BY <1>4, <1>5

\* The same at its exit.
LEMMA ExitShadowsKeeps ==
  ASSUME WindowsInv, NEW c \in Clients, ExitShadows(c)
  PROVE  WindowsInv'
<1> DEFINE ks == {k \in KSlots : kern.win[k].owner = c}
<1>t. ServerTypes
  BY DEF WindowsInv
<1>1. /\ cl[c].st # "off" /\ kern' = Destroy(kern, ks)
      /\ cl' = [cl EXCEPT ![c].st = "exiting"]
      /\ conn' = conn /\ astray' = astray /\ grab' = grab /\ win' = win /\ z' = z /\ nextId' = nextId
      /\ screen' = screen
  BY DEF ExitShadows, ServerUnchanged
<1>2. /\ cl' \in [Clients -> Progs] /\ cl'[c].st = "exiting" /\ cl'[c].fd = cl[c].fd /\ cl'[c].id = cl[c].id
      /\ \A o \in Clients \ {c} : cl'[o] = cl[o]
  BY <1>t, <1>1, ProgChanges, -1 \in KSlots \union {-1}
<1>3. Sessions' /\ Owned'
  BY <1>1, <1>2, MovesOn
<1>4. ks \in SUBSET KSlots
  OBVIOUS
<1> HIDE DEF ks
<1>5. QED
  BY <1>1, <1>2, <1>3, <1>4, ShadowsGo

\* A program makes a shadow for a window of its own that has none.
LEMMA MakeShadowKeeps ==
  ASSUME WindowsInv, NEW c \in Clients, MakeShadow(c)
  PROVE  WindowsInv'
<1>t. /\ ServerTypes /\ cl[c] \in Progs /\ Table(kern) /\ Paired(kern) /\ kern.z \in Seq(KSlots)
      /\ Kind[c] \in Kinds
  BY WindowsAssumption DEF WindowsInv, ServerTypes, Table, Tables
<1>1. /\ Quiet(c) /\ cl[c].st = "made"
      /\ conn' = conn /\ astray' = astray /\ grab' = grab /\ win' = win /\ z' = z /\ nextId' = nextId
      /\ screen' = screen
  BY DEF MakeShadow, ServerUnchanged
<1>2. CASE FreeKSlots(kern) = {}
  <2>1. kern' = kern /\ cl' = [cl EXCEPT ![c].st = "up"]
    BY <1>2 DEF MakeShadow
  <2>2. /\ cl' \in [Clients -> Progs] /\ cl'[c].st = "up" /\ cl'[c].fd = cl[c].fd /\ cl'[c].id = cl[c].id
        /\ \A o \in Clients \ {c} : cl'[o] = cl[o]
    BY <1>t, <2>1, ProgChanges, -1 \in KSlots \union {-1}
  <2>3. Sessions' /\ Owned'
    BY <1>1, <2>2, MovesOn
  <2>4. Shadowed' /\ Ordered'
    BY <1>1, <2>1 DEF WindowsInv, Shadowed, Ordered, Used, Bound, Above
  <2>5. ServerTypes'
    BY <1>1, <2>2 DEF WindowsInv, ServerTypes
  <2>6. QED
    BY <2>1, <2>3, <2>4, <2>5, Gathered DEF WindowsInv
<1>3. CASE FreeKSlots(kern) # {}
  <2> DEFINE k == Min(FreeKSlots(kern))
  <2>1. k \in KSlots /\ ~InUse(kern, k)
    BY <1>3, FreeSlotExists
  <2>2. /\ kern' = CreateWindow(kern, k, c, cl[c].id, Kind[c])
        /\ cl' = [cl EXCEPT ![c].st = "shadowed", ![c].kid = k]
    BY <1>3 DEF MakeShadow
  <2> HIDE DEF k
  <2>3. /\ cl' \in [Clients -> Progs] /\ cl'[c].st = "shadowed" /\ cl'[c].fd = cl[c].fd /\ cl'[c].id = cl[c].id
        /\ \A o \in Clients \ {c} : cl'[o] = cl[o]
    BY <1>t, <2>1, <2>2, ProgChanges
  <2>4. Sessions' /\ Owned'
    BY <1>1, <2>3, MovesOn
  <2>5. cl[c].id \in Nat /\ cl[c].id < nextId
    BY <1>t DEF Progs, WindowsInv, Sessions
  <2>6. /\ Table(kern') /\ Paired(kern') /\ kern'.z = Append(kern.z, k)
        /\ kern'.win[k].owner = c /\ kern'.win[k].for = cl[c].id /\ kern'.win[k].kind = Kind[c]
        /\ \A o \in KSlots \ {k} : kern'.win[o] = kern.win[o]
    BY <1>t, <2>1, <2>2, <2>5, CreateKeeps
  <2>7. \A o \in KSlots : o # k => (InUse(kern', o) <=> InUse(kern, o)) /\ kern'.win[o] = kern.win[o]
    BY <2>6 DEF InUse
  <2>u. \A s \in Slots : Used(s)' <=> Used(s)
    BY <1>1 DEF Used
  <2>8. Shadowed'
    <3>1. ASSUME NEW o \in KSlots, InUse(kern', o)
          PROVE  kern'.win[o].for < nextId' /\ kern'.win[o].kind = Kind[kern'.win[o].owner]
      BY <1>1, <2>5, <2>6, <2>7, <3>1 DEF WindowsInv, Shadowed
    <3>2. ASSUME NEW o \in KSlots, NEW s \in Slots, InUse(kern', o), Used(s), kern'.win[o].for = win[s].id
          PROVE  kern'.win[o].owner = conn[win[s].fd].client
      <4>1. CASE o = k
        <5>1. win[s].fd = cl[c].fd
          BY <2>6, <3>2, <4>1 DEF WindowsInv, Owned
        <5>2. conn[cl[c].fd].client = c
          BY <1>1, QuietFacts
        <5>3. QED
          BY <2>6, <4>1, <5>1, <5>2
      <4>2. CASE o # k
        BY <2>7, <3>2, <4>2 DEF WindowsInv, Shadowed
      <4>3. QED
        BY <4>1, <4>2
    <3>3. QED
      BY <1>1, <2>u, <3>1, <3>2 DEF Shadowed
  <2>9. ASSUME NEW s \in Slots, Bound(s)'
        PROVE  Bound(s) /\ win[s].kid # k /\ kern'.win[win[s].kid].pass = kern.win[win[s].kid].pass
    <3>1. /\ win[s].kind = "app" /\ win[s].kid >= 0 /\ win[s].kid \in KSlots /\ InUse(kern', win[s].kid)
          /\ kern'.win[win[s].kid].for = win[s].id
      BY <1>1, <2>9 DEF Bound, InUse
    <3>2. win[s].kid # k
      <4>1. SUFFICES ASSUME win[s].kid = k PROVE FALSE
        OBVIOUS
      <4>2. win[s].id = cl[c].id
        BY <2>6, <3>1, <4>1
      <4>3. win[s].kid # -1
        BY <3>1
      <4>4. Used(s)
        BY <4>3 DEF WindowsInv, Owned
      <4>5. win[s].kid = -1
        BY <1>1, <4>2, <4>4 DEF WindowsInv, Owned
      <4>6. QED
        BY <4>3, <4>5
    <3>3. QED
      BY <2>7, <3>1, <3>2 DEF Bound
  <2>10. \A a, b : Above(kern.z, a, b) => Above(kern'.z, a, b)
    BY <1>t, <2>1, <2>6, OnTop
  <2>11. Ordered'
    <3>1. \A s \in Slots : Bound(s)' => /\ Bound(s) /\ win'[s].kid = win[s].kid
                                        /\ kern'.win[win'[s].kid].pass = kern.win[win[s].kid].pass
      BY <1>1, <2>9
    <3>2. \A s, t \in Slots : Bound(s)' /\ Bound(t)' /\ Above(z', s, t) => Above(z, s, t)
      BY <1>1
    <3>3. QED
      BY <1>1, <2>10, <3>1, <3>2, OrderStays DEF WindowsInv
  <2>12. ServerTypes'
    BY <1>1, <2>3 DEF WindowsInv, ServerTypes
  <2>13. QED
    BY <2>4, <2>6, <2>8, <2>11, <2>12, Gathered
<1>4. QED
  BY <1>2, <1>3
(***************************************************************************)
(* The workers' steps.                                                     *)
(***************************************************************************)
\* An answer reaches the program that still waits for it, and nobody else.
LEMMA AnswersKeep ==
  ASSUME WindowsInv, NEW f \in Fds, conn[f].st = "served", Done(f), nextId' \in Nat, nextId <= nextId',
         NEW st \in {"idle", "made", "up"}, NEW id \in Nat, id < nextId', NEW kid \in KSlots \union {-1},
         cl' = cl \/ Answer(f, st, id, kid)
  PROVE  /\ Sessions' /\ cl' \in [Clients -> Progs] /\ conn' \in [Fds -> Conns]
         /\ \A g \in Fds : conn'[g].client = conn[g].client /\ conn'[g].st = conn[g].st
         /\ \A c \in Clients : /\ cl'[c].fd = cl[c].fd
                               /\ cl'[c] = cl[c] \/ (cl[c].fd = f /\ cl'[c].st = st /\ cl'[c].id = id)
         /\ Waiting(f) /\ Answer(f, st, id, kid) =>
               cl'[conn[f].client].st = st /\ cl'[conn[f].client].id = id
<1> DEFINE d == conn[f].client
<1> DEFINE a == [cl[d] EXCEPT !.st = st, !.id = id, !.kid = kid]
<1> DEFINE b == [conn[f] EXCEPT !.req = NoReq]
<1>t. cl \in [Clients -> Progs] /\ conn \in [Fds -> Conns] /\ conn[f] \in Conns /\ nextId \in Nat
  BY DEF WindowsInv, ServerTypes
<1>1. d \in Clients
  BY DEF WindowsInv, Sessions
<1>2. conn' = [conn EXCEPT ![f] = b]
  BY DEF Done
<1>3. (cl' = cl /\ (Answer(f, st, id, kid) => ~Waiting(f) \/ cl' = [cl EXCEPT ![d] = a]))
      \/ (Waiting(f) /\ cl' = [cl EXCEPT ![d] = a])
  <2>1. ASSUME Answer(f, st, id, kid), Waiting(f) PROVE cl' = [cl EXCEPT ![d] = a]
    <3>1. cl' = [cl EXCEPT ![d].st = st, ![d].id = id, ![d].kid = kid]
      BY <2>1 DEF Answer
    <3>2. cl' = [o \in Clients |-> IF o = d THEN a ELSE cl[o]]
      BY <1>1, <1>t, <3>1
    <3>3. QED
      BY <1>t, <3>2
  <2>2. ASSUME Answer(f, st, id, kid), ~Waiting(f) PROVE cl' = cl
    BY <2>2 DEF Answer
  <2> HIDE DEF a, d
  <2>3. QED
    BY <2>1, <2>2
<1>4. cl[d] \in Progs
  BY <1>1, <1>t
<1>5. a \in Progs /\ a.st = st /\ a.id = id /\ a.kid = kid /\ a.fd = cl[d].fd
  BY <1>4 DEF Progs
<1>6. b \in Conns /\ b.client = d /\ b.st = "served" /\ b.eof = conn[f].eof /\ b.req = NoReq /\ b.req.op = "none"
  BY <1>t DEF Conns, Reqs, NoReq
<1>w. Waiting(f) <=> cl[d].fd = f /\ cl[d].st # "exiting"
  BY DEF Waiting
<1>e. d = conn[f].client
  OBVIOUS
<1> HIDE DEF a, b, d
<1>7. conn' \in [Fds -> Conns] /\ conn'[f] = b /\ \A g \in Fds \ {f} : conn'[g] = conn[g]
  BY <1>t, <1>2, <1>6
<1>8. \A g \in Fds : /\ conn'[g].client = conn[g].client /\ conn'[g].st = conn[g].st /\ conn'[g].eof = conn[g].eof
                     /\ g # f => conn'[g] = conn[g]
  BY <1>e, <1>6, <1>7
<1>9. /\ cl' \in [Clients -> Progs] /\ \A c \in Clients : c # d => cl'[c] = cl[c]
      /\ cl'[d] = cl[d] \/ (Waiting(f) /\ cl'[d] = a)
  BY <1>t, <1>1, <1>3, <1>5
<1>10. \A c \in Clients : /\ cl'[c].fd = cl[c].fd
                          /\ cl'[c] = cl[c] \/ (c = d /\ cl[c].fd = f /\ cl'[c].st = st /\ cl'[c].id = id)
  BY <1>1, <1>5, <1>9, <1>w
<1>11. Waiting(f) /\ Answer(f, st, id, kid) => cl'[d].st = st /\ cl'[d].id = id
  <2>1. Waiting(f) /\ Answer(f, st, id, kid) => cl' = [cl EXCEPT ![d] = a]
    BY <1>3
  <2>2. QED
    BY <1>t, <1>1, <1>5, <2>1
<1>12. Sessions'
  <2>1. ASSUME NEW o \in Clients
        PROVE  /\ cl'[o].id < nextId' /\ (cl'[o].st = "off" => cl'[o].fd = 0)
               /\ cl'[o].st # "off" => /\ cl'[o].fd \in Fds /\ conn'[cl'[o].fd].client = o
                                       /\ conn'[cl'[o].fd].st = "served" /\ ~conn'[cl'[o].fd].eof
    <3>1. cl[o].id < nextId' /\ cl[o].id \in Nat
      BY <1>t DEF WindowsInv, Sessions, Progs
    <3>2. cl[o].st = "off" => cl[o].fd = 0
      BY DEF WindowsInv, Sessions
    <3>3. cl[o].fd = f => cl[o].st # "off"
      BY <3>2, WindowsAssumption
    <3>4. cl'[o].st # "off" => cl[o].st # "off"
      BY <1>10, <3>3
    <3>5. cl'[o].st = "off" => cl[o].st = "off"
      BY <1>10
    <3>6. QED
      BY <1>8, <1>10, <3>1, <3>2, <3>4, <3>5 DEF WindowsInv, Sessions
  <2>2. ASSUME NEW g \in Fds, conn'[g].st = "served"
        PROVE  /\ conn'[g].client \in Clients
               /\ Waiting(g)' => /\ conn'[g].req.op = "create" => cl'[conn'[g].client].st = "idle"
                                 /\ conn'[g].req.op = "bind" => cl'[conn'[g].client].st = "shadowed"
                                 /\ conn'[g].req.op = "destroy" => cl'[conn'[g].client].st = "undone"
                                 /\ conn'[g].req.op \in {"bind", "destroy"} =>
                                       conn'[g].req.id = cl'[conn'[g].client].id
    <3>1. CASE g = f
      BY <1>1, <1>6, <1>7, <3>1
    <3>2. CASE g # f
      <4>1. conn'[g] = conn[g] /\ conn[g].st = "served" /\ conn[g].client \in Clients
        BY <1>8, <2>2, <3>2 DEF WindowsInv, Sessions
      <4>2. ASSUME Waiting(g)' PROVE cl'[conn[g].client] = cl[conn[g].client]
        BY <1>10, <3>2, <4>1, <4>2 DEF Waiting
      <4>3. Waiting(g)' => Waiting(g)
        BY <4>1, <4>2 DEF Waiting
      <4>4. QED
        BY <4>1, <4>2, <4>3 DEF WindowsInv, Sessions
    <3>3. QED
      BY <3>1, <3>2
  <2>3. QED
    BY <2>1, <2>2 DEF Sessions
<1>13. QED
  BY <1>7, <1>8, <1>9, <1>10, <1>11, <1>12, <1>e

\* A descriptor is closed when no program and no window is behind it.
LEMMA CloseFdKeeps ==
  ASSUME WindowsInv, NEW f \in Fds, CloseFd(f)
  PROVE  WindowsInv'
<1>t. cl \in [Clients -> Progs] /\ conn \in [Fds -> Conns]
  BY DEF WindowsInv, ServerTypes
<1>1. /\ conn[f].st = "collected" /\ conn' = [conn EXCEPT ![f] = FreeConn] /\ cl' = cl
      /\ kern' = kern /\ astray' = astray /\ grab' = grab /\ win' = win /\ z' = z /\ nextId' = nextId
      /\ screen' = screen
  BY DEF CloseFd, ServerUnchanged
<1>2. FreeConn \in Conns /\ FreeConn.st = "free"
  BY DEF FreeConn, NoReq, Conns, Reqs
<1>3. conn' \in [Fds -> Conns] /\ conn'[f].st = "free" /\ \A g \in Fds \ {f} : conn'[g] = conn[g]
  BY <1>t, <1>1, <1>2
<1>4. \A g \in Fds : conn[g].st = "served" \/ conn'[g].st = "served" => conn'[g] = conn[g]
  BY <1>1, <1>3
<1>5. Sessions'
  <2>1. ASSUME NEW g \in Fds, conn'[g].st = "served" PROVE conn'[g] = conn[g] /\ (Waiting(g)' <=> Waiting(g))
    BY <1>1, <1>4, <2>1 DEF Waiting
  <2>2. ASSUME NEW o \in Clients
        PROVE  /\ cl'[o].id < nextId' /\ (cl'[o].st = "off" => cl'[o].fd = 0)
               /\ cl'[o].st # "off" => /\ cl'[o].fd \in Fds /\ conn'[cl'[o].fd].client = o
                                       /\ conn'[cl'[o].fd].st = "served" /\ ~conn'[cl'[o].fd].eof
    BY <1>1, <1>4 DEF WindowsInv, Sessions
  <2>3. QED
    BY <1>1, <2>1, <2>2 DEF WindowsInv, Sessions
<1>6. \A g \in Fds : conn[g].st = "served" => conn'[g].st = "served" /\ conn'[g].client = conn[g].client
  BY <1>4
<1>7. QED
  BY <1>t, <1>1, <1>3, <1>5, <1>6, WindowsRest
\* The worker routes a shadow: the window of the request has it from here on.
LEMMA HandleBindKeeps ==
  ASSUME WindowsInv, NEW f \in Fds, HandleBind(f)
  PROVE  WindowsInv'
<1>t. /\ ServerTypes /\ Table(kern) /\ Paired(kern) /\ win \in [Slots -> Wins] /\ conn[f] \in Conns
      /\ z \in Seq(Slots) /\ nextId \in Nat /\ astray \in BOOLEAN
  BY DEF WindowsInv, ServerTypes
<1>1. PICK s \in OwnWin(f) :
         /\ win' = [win EXCEPT ![s].kid = conn[f].req.kid] /\ z' = ZRaise(s)
         /\ kern' = Raise(SetPassthrough(kern, conn[f].req.kid), conn[f].req.kid)
         /\ screen' = ComposeAll(win', z') /\ Reaching(win', s)
         /\ Answer(f, "up", conn[f].req.id, conn[f].req.kid)
  BY DEF HandleBind
<1> DEFINE k == conn[f].req.kid
<1>2. s \in Slots /\ Used(s) /\ win[s].fd = f /\ win[s].id = conn[f].req.id
  BY DEF OwnWin
<1>3. k \in KSlots \union {-1} /\ conn[f].req.id \in Nat /\ conn[f].req.id < nextId
  BY <1>t, <1>2 DEF Conns, Reqs, WindowsInv, Owned
<1>4. conn[f].st = "served" /\ conn[f].req.op = "bind" /\ Done(f) /\ nextId' = nextId /\ grab' = grab
  BY DEF HandleBind, Handles
<1>5. /\ Sessions' /\ cl' \in [Clients -> Progs] /\ conn' \in [Fds -> Conns]
      /\ \A g \in Fds : conn'[g].client = conn[g].client /\ conn'[g].st = conn[g].st
      /\ \A c \in Clients : /\ cl'[c].fd = cl[c].fd
                            /\ cl'[c] = cl[c] \/ (cl[c].fd = f /\ cl'[c].st = "up" /\ cl'[c].id = conn[f].req.id)
  BY <1>t, <1>1, <1>3, <1>4, AnswersKeep
<1>6. win' = [win EXCEPT ![s].kid = k] /\ kern' = Raise(SetPassthrough(kern, k), k)
  BY <1>1
<1> HIDE DEF k
<1>7. /\ win' \in [Slots -> Wins]
      /\ \A t \in Slots : /\ win'[t].id = win[t].id /\ win'[t].fd = win[t].fd /\ win'[t].kind = win[t].kind
                          /\ win'[t].kid = IF t = s THEN k ELSE win[t].kid
  BY <1>t, <1>2, <1>3, <1>6, KidChanges
<1> DEFINE M == SetPassthrough(kern, k)
<1>8. /\ Table(M) /\ Paired(M) /\ M.z = kern.z
      /\ \A o \in KSlots : /\ M.win[o].owner = kern.win[o].owner /\ M.win[o].for = kern.win[o].for
                           /\ M.win[o].kind = kern.win[o].kind
                           /\ M.win[o].pass = (kern.win[o].pass \/ (o = k /\ InUse(kern, k)))
  BY <1>t, PassthroughKeeps
<1>9. kern' = Raise(M, k)
  BY <1>6
<1> HIDE DEF M
<1>10. Table(kern') /\ Paired(kern') /\ SameWindows(M, kern') /\ Lifted(M, kern', k)
  BY <1>8, <1>9, RaiseKeeps
<1>11. \A o \in KSlots : /\ kern'.win[o].owner = kern.win[o].owner /\ kern'.win[o].for = kern.win[o].for
                         /\ kern'.win[o].kind = kern.win[o].kind
                         /\ kern.win[o].pass => kern'.win[o].pass
                         /\ o = k /\ InUse(kern, k) => kern'.win[o].pass
  BY <1>8, <1>10 DEF SameWindows
<1>12. \A o \in KSlots : (InUse(kern', o) <=> InUse(kern, o)) /\ (InUse(M, o) <=> InUse(kern, o))
  BY <1>8, <1>11 DEF InUse
<1>13. Lifted(kern, kern', k)
  <2>1. InUse(kern, k) => InUse(M, k) /\ M.win[k].kind = kern.win[k].kind
    BY <1>8, <1>12 DEF InUse
  <2>2. QED
    BY <1>8, <1>10, <2>1 DEF Lifted
<1>14. Ordered'
  <2>1. Bound(s)' => kern'.win[k].pass
    BY <1>2, <1>7, <1>11, <1>12 DEF Bound, InUse
  <2>2. astray' = (astray \/ (InUse(kern, k) /\ kern.win[k].for # win[s].id))
    BY <1>1, <1>2, <1>7 DEF Reaching
  <2>3. \A t \in Slots \ {s} : win'[t].kid = win[t].kid
    BY <1>7
  <2>4. win'[s].kid = k
    BY <1>2, <1>7
  <2>5. QED
    BY <1>1, <1>2, <1>3, <1>7, <1>11, <1>13, <2>1, <2>2, <2>3, <2>4, RaisedTogether
<1>15. \A t \in Slots : Used(t)' <=> Used(t)
  BY <1>7 DEF Used
<1>16. Owned'
  <2>1. ASSUME NEW t \in Slots, ~Used(t) PROVE win'[t].kid = -1
    BY <1>2, <1>7, <2>1 DEF WindowsInv, Owned
  <2>2. ASSUME NEW t \in Slots, Used(t)
        PROVE  /\ win'[t].fd \in Fds /\ conn'[win'[t].fd].st = "served" /\ win'[t].id < nextId'
               /\ win'[t].kind = Kind[conn'[win'[t].fd].client]
    BY <1>4, <1>5, <1>7, <2>2 DEF WindowsInv, Owned
  <2>3. ASSUME NEW t \in Slots, NEW o \in Slots, Used(t), win'[t].id = win'[o].id PROVE t = o
    BY <1>7, <2>3 DEF WindowsInv, Owned
  <2>4. ASSUME NEW c \in Clients, NEW t \in Slots, Used(t), win'[t].id = cl'[c].id
        PROVE  win'[t].fd = cl'[c].fd /\ (cl'[c].st = "made" => win'[t].kid = -1)
    <3>1. CASE cl[c].fd = f /\ cl'[c].st = "up" /\ cl'[c].id = conn[f].req.id
      <4>1. t = s
        BY <1>2, <1>7, <2>4, <3>1 DEF WindowsInv, Owned
      <4>2. QED
        BY <1>2, <1>5, <1>7, <3>1, <4>1
    <3>2. CASE cl'[c] = cl[c]
      <4>1. win[t].fd = cl[c].fd /\ (cl[c].st = "made" => win[t].kid = -1)
        BY <1>7, <2>4, <3>2 DEF WindowsInv, Owned
      <4>2. ASSUME t = s, cl[c].st = "made" PROVE FALSE
        <5>1. cl[c].fd = f
          BY <1>2, <4>1, <4>2
        <5>2. conn[f].client = c
          BY <4>2, <5>1 DEF WindowsInv, Sessions
        <5>3. Waiting(f)
          BY <4>2, <5>1, <5>2 DEF Waiting
        <5>4. cl[c].st = "shadowed"
          BY <1>4, <5>2, <5>3 DEF WindowsInv, Sessions
        <5>5. QED
          BY <4>2, <5>4
      <4>3. QED
        BY <1>7, <3>2, <4>1, <4>2
    <3>3. QED
      BY <1>5, <3>1, <3>2
  <2>5. QED
    BY <1>15, <2>1, <2>2, <2>3, <2>4 DEF Owned
<1>17. Shadowed'
  <2>1. ASSUME NEW o \in KSlots, InUse(kern', o)
        PROVE  kern'.win[o].for < nextId' /\ kern'.win[o].kind = Kind[kern'.win[o].owner]
    BY <1>4, <1>11, <1>12, <2>1 DEF WindowsInv, Shadowed
  <2>2. ASSUME NEW o \in KSlots, NEW t \in Slots, InUse(kern', o), Used(t), kern'.win[o].for = win'[t].id
        PROVE  kern'.win[o].owner = conn'[win'[t].fd].client
    <3>1. kern.win[o].owner = conn[win[t].fd].client /\ win[t].fd \in Fds
      BY <1>7, <1>11, <1>12, <2>2 DEF WindowsInv, Shadowed, Owned
    <3>2. QED
      BY <1>5, <1>7, <1>11, <3>1
  <2>3. QED
    BY <1>15, <2>1, <2>2 DEF Shadowed
<1>18. ServerTypes'
  <2>1. z' \in Seq(Slots)
    BY <1>t, <1>1, <1>2, ZRaiseFacts
  <2>2. screen' \in [Cells -> Slots \union {0}]
    BY <1>1, <2>1, PaintedFacts
  <2>3. astray' \in BOOLEAN
    BY <1>t, <1>1 DEF Reaching
  <2>4. QED
    BY <1>4, <1>5, <1>7, <2>1, <2>2, <2>3 DEF WindowsInv, ServerTypes
<1>19. QED
  BY <1>5, <1>10, <1>14, <1>16, <1>17, <1>18, Gathered
\* Windows go, and with them what bound their shadows.
LEMMA WindowsGo ==
  ASSUME WindowsInv, NEW ss \in SUBSET Slots, DropWins(ss), kern' = kern, nextId' = nextId, grab' = grab,
         astray' = astray, cl' \in [Clients -> Progs], conn' \in [Fds -> Conns], Sessions',
         \A t \in Slots \ ss : Used(t) => conn'[win[t].fd].st = "served"
                                          /\ conn'[win[t].fd].client = conn[win[t].fd].client,
         \A c \in Clients : cl'[c] = cl[c] \/ cl'[c].id = 0
  PROVE  WindowsInv'
<1>t. /\ ServerTypes /\ win \in [Slots -> Wins] /\ z \in Seq(Slots)
  BY DEF WindowsInv, ServerTypes
<1>1. FreeWin \in Wins /\ FreeWin.id = 0 /\ FreeWin.kid = -1
  BY DEF FreeWin, Wins, Kinds
<1>2. /\ win' = [s \in Slots |-> IF s \in ss THEN FreeWin ELSE win[s]] /\ z' = Without(z, ss)
      /\ screen' = ComposeAll(win', z')
  BY DEF DropWins
<1>3. /\ win' \in [Slots -> Wins]
      /\ \A t \in Slots : IF t \in ss THEN win'[t].id = 0 /\ win'[t].kid = -1 ELSE win'[t] = win[t]
  BY <1>t, <1>1, <1>2
<1>4. /\ z' \in Seq(Slots)
      /\ \A a, b : Above(z', a, b) <=> Above(z, a, b) /\ a \notin ss /\ b \notin ss
  BY <1>t, <1>2, WithoutFacts
<1>5. ServerTypes'
  <2>1. screen' \in [Cells -> Slots \union {0}]
    BY <1>2, <1>4, PaintedFacts
  <2>2. QED
    BY <1>3, <1>4, <2>1 DEF WindowsInv, ServerTypes
<1>6. \A t \in Slots : Used(t)' <=> Used(t) /\ t \notin ss
  BY <1>3 DEF Used
<1>7. Owned'
  <2>1. ASSUME NEW t \in Slots, ~Used(t)' PROVE win'[t].kid = -1
    BY <1>3, <1>6, <2>1 DEF WindowsInv, Owned
  <2>2. ASSUME NEW t \in Slots, Used(t)'
        PROVE  /\ win'[t].fd \in Fds /\ conn'[win'[t].fd].st = "served" /\ win'[t].id < nextId'
               /\ win'[t].kind = Kind[conn'[win'[t].fd].client]
    <3>1. t \in Slots \ ss /\ Used(t) /\ win'[t] = win[t]
      BY <1>3, <1>6, <2>2
    <3>2. QED
      BY <3>1 DEF WindowsInv, Owned
  <2>3. ASSUME NEW t \in Slots, NEW o \in Slots, Used(t)', win'[t].id = win'[o].id PROVE t = o
    <3>1. Used(t) /\ t \notin ss /\ win'[t].id = win[t].id /\ win[t].id # 0
      BY <1>3, <1>6, <2>3 DEF Used
    <3>2. o \notin ss
      BY <1>3, <2>3, <3>1
    <3>3. win'[o] = win[o]
      BY <1>3, <3>2
    <3>4. QED
      BY <2>3, <3>1, <3>3 DEF WindowsInv, Owned
  <2>4. ASSUME NEW c \in Clients, NEW t \in Slots, Used(t)', win'[t].id = cl'[c].id
        PROVE  win'[t].fd = cl'[c].fd /\ (cl'[c].st = "made" => win'[t].kid = -1)
    <3>1. Used(t) /\ win'[t] = win[t] /\ win[t].id # 0
      BY <1>3, <1>6, <2>4 DEF Used
    <3>2. cl'[c] = cl[c]
      BY <2>4, <3>1
    <3>3. QED
      BY <2>4, <3>1, <3>2 DEF WindowsInv, Owned
  <2>5. QED
    BY <2>1, <2>2, <2>3, <2>4 DEF Owned
<1>8. Shadowed'
  <2>1. ASSUME NEW k \in KSlots, NEW t \in Slots, InUse(kern, k), Used(t)', kern.win[k].for = win'[t].id
        PROVE  kern.win[k].owner = conn'[win'[t].fd].client
    <3>1. t \in Slots \ ss /\ Used(t) /\ win'[t] = win[t]
      BY <1>3, <1>6, <2>1
    <3>2. QED
      BY <2>1, <3>1 DEF WindowsInv, Shadowed
  <2>2. QED
    BY <2>1 DEF WindowsInv, Shadowed
<1>9. Ordered'
  <2>1. ASSUME NEW s \in Slots, Bound(s)' PROVE Bound(s) /\ s \notin ss /\ win'[s].kid = win[s].kid
    <3>1. s \notin ss
      BY <1>3, <2>1 DEF Bound
    <3>2. win'[s] = win[s]
      BY <1>3, <3>1
    <3>3. QED
      BY <2>1, <3>1, <3>2 DEF Bound
  <2>2. \A s, t \in Slots : Bound(s)' /\ Bound(t)' /\ Above(z', s, t) => Above(z, s, t)
    BY <1>4
  <2>3. \A s \in Slots : Bound(s)' => /\ Bound(s) /\ win'[s].kid = win[s].kid
                                      /\ kern'.win[win'[s].kid].pass = kern.win[win[s].kid].pass
    BY <2>1
  <2>4. QED
    BY <2>2, <2>3, OrderStays DEF WindowsInv
<1>10. QED
  BY <1>5, <1>7, <1>8, <1>9, Gathered DEF WindowsInv

\* handle_destroy.
LEMMA HandleDestroyKeeps ==
  ASSUME WindowsInv, NEW f \in Fds, HandleDestroy(f)
  PROVE  WindowsInv'
<1>1. PICK s \in OwnWin(f) : DropWins({s})
  BY DEF HandleDestroy
<1>2. {s} \in SUBSET Slots
  BY DEF OwnWin
<1>3. /\ conn[f].st = "served" /\ Done(f) /\ Answer(f, "idle", 0, -1)
      /\ kern' = kern /\ nextId' = nextId /\ astray' = astray /\ grab' = grab
  BY DEF HandleDestroy, Handles
<1>4. nextId \in Nat /\ 0 < nextId
  BY DEF WindowsInv, ServerTypes
<1>5. /\ Sessions' /\ cl' \in [Clients -> Progs] /\ conn' \in [Fds -> Conns]
      /\ \A g \in Fds : conn'[g].client = conn[g].client /\ conn'[g].st = conn[g].st
      /\ \A c \in Clients : cl'[c] = cl[c] \/ cl'[c].id = 0
  <2>1. -1 \in KSlots \union {-1} /\ nextId' \in Nat /\ nextId <= nextId' /\ 0 < nextId'
    BY <1>3, <1>4
  <2>2. QED
    BY <1>3, <2>1, AnswersKeep
<1>6. \A t \in Slots : Used(t) => win[t].fd \in Fds /\ conn[win[t].fd].st = "served"
  BY DEF WindowsInv, Owned
<1>7. QED
  BY <1>1, <1>2, <1>3, <1>5, <1>6, WindowsGo

\* gc_conn_windows at the end of a connection.
LEMMA CollectKeeps ==
  ASSUME WindowsInv, NEW f \in Fds, Collect(f)
  PROVE  WindowsInv'
<1> DEFINE ss == {s \in Slots : Used(s) /\ win[s].fd = f}
<1> DEFINE b == [conn[f] EXCEPT !.st = "collected"]
<1>t. cl \in [Clients -> Progs] /\ conn \in [Fds -> Conns] /\ conn[f] \in Conns
  BY DEF WindowsInv, ServerTypes
<1>1. /\ conn[f].st = "served" /\ conn[f].eof /\ DropWins(ss) /\ conn' = [conn EXCEPT ![f] = b] /\ cl' = cl
      /\ kern' = kern /\ nextId' = nextId /\ astray' = astray /\ grab' = grab
  BY DEF Collect
<1>2. b \in Conns /\ b.st = "collected"
  BY <1>t DEF Conns
<1> HIDE DEF b
<1>3. conn' \in [Fds -> Conns] /\ conn'[f].st = "collected" /\ \A g \in Fds \ {f} : conn'[g] = conn[g]
  BY <1>t, <1>1, <1>2
<1>4. Sessions'
  <2>1. ASSUME NEW g \in Fds, conn'[g].st = "served"
        PROVE  conn'[g] = conn[g] /\ conn[g].st = "served" /\ (Waiting(g)' <=> Waiting(g))
    <3>1. g # f
      BY <1>3, <2>1
    <3>2. QED
      BY <1>1, <1>3, <2>1, <3>1 DEF Waiting
  <2>2. ASSUME NEW o \in Clients
        PROVE  /\ cl'[o].id < nextId' /\ (cl'[o].st = "off" => cl'[o].fd = 0)
               /\ cl'[o].st # "off" => /\ cl'[o].fd \in Fds /\ conn'[cl'[o].fd].client = o
                                       /\ conn'[cl'[o].fd].st = "served" /\ ~conn'[cl'[o].fd].eof
    BY <1>1, <1>3 DEF WindowsInv, Sessions
  <2>3. QED
    BY <1>1, <2>1, <2>2 DEF WindowsInv, Sessions
<1>5. \A t \in Slots \ ss : Used(t) => conn'[win[t].fd].st = "served"
                                       /\ conn'[win[t].fd].client = conn[win[t].fd].client
  BY <1>3 DEF WindowsInv, Owned
<1>6. ss \in SUBSET Slots
  OBVIOUS
<1> HIDE DEF ss
<1>7. QED
  BY <1>t, <1>1, <1>3, <1>4, <1>5, <1>6, WindowsGo

\* z_push puts one window in, and leaves the others as they were.
LEMMA ZPushFacts ==
  ASSUME NEW w, NEW q \in Seq(Slots), NEW s \in Slots
  PROVE  /\ ZPush(w, q, s) \in Seq(Slots)
         /\ \A a, b : a # s /\ b # s /\ Above(ZPush(w, q, s), a, b) => Above(q, a, b)
<1>1. CASE w[s].kind = "wall"
  <2>1. ZPush(w, q, s) = <<s>> \o q
    BY <1>1 DEF ZPush
  <2>2. /\ <<s>> \o q \in Seq(Slots) /\ Len(<<s>> \o q) = Len(q) + 1
        /\ \A i \in 1 .. Len(q) + 1 : (<<s>> \o q)[i] = IF i = 1 THEN s ELSE q[i - 1]
    OBVIOUS
  <2>3. ASSUME NEW a, NEW b, a # s, b # s, Above(<<s>> \o q, a, b) PROVE Above(q, a, b)
    <3>1. PICK i, j \in 1 .. Len(q) + 1 : i > j /\ (<<s>> \o q)[i] = a /\ (<<s>> \o q)[j] = b
      BY <2>2, <2>3 DEF Above
    <3>2. /\ i - 1 \in 1 .. Len(q) /\ j - 1 \in 1 .. Len(q) /\ i - 1 > j - 1
          /\ q[i - 1] = a /\ q[j - 1] = b
      BY <2>2, <2>3, <3>1
    <3>3. QED
      BY <3>2 DEF Above
  <2>4. QED
    BY <2>1, <2>2, <2>3
<1>2. CASE w[s].kind # "wall"
  <2>1. ZPush(w, q, s) = Append(q, s)
    BY <1>2 DEF ZPush
  <2>2. QED
    BY <2>1, OnTop
<1>3. QED
  BY <1>1, <1>2

\* create_window_impl: the new window is its connection's, and has no shadow yet.
LEMMA HandleCreateKeeps ==
  ASSUME WindowsInv, NEW f \in Fds, HandleCreate(f)
  PROVE  WindowsInv'
<1> DEFINE free == {s \in Slots : ~Used(s)}
<1> DEFINE d == conn[f].client
<1>t. /\ ServerTypes /\ win \in [Slots -> Wins] /\ z \in Seq(Slots) /\ nextId \in Nat \ {0}
  BY DEF WindowsInv, ServerTypes
<1>1. /\ conn[f].st = "served" /\ conn[f].req.op = "create" /\ Done(f)
      /\ kern' = kern /\ astray' = astray /\ grab' = grab
  BY DEF HandleCreate, Handles
<1>k. -1 \in KSlots \union {-1}
  OBVIOUS
<1>2. CASE free = {}
  <2>1. cl' = cl /\ win' = win /\ z' = z /\ nextId' = nextId /\ screen' = screen
    BY <1>2 DEF HandleCreate
  <2>2. nextId' \in Nat /\ nextId <= nextId' /\ 0 < nextId' /\ 0 \in Nat /\ "idle" \in {"idle", "made", "up"}
    BY <1>t, <2>1
  <2>3. /\ Sessions' /\ cl' \in [Clients -> Progs] /\ conn' \in [Fds -> Conns]
        /\ \A g \in Fds : conn'[g].client = conn[g].client /\ conn'[g].st = conn[g].st
    BY <1>1, <1>k, <2>1, <2>2, AnswersKeep
  <2>4. QED
    BY <1>1, <2>1, <2>3, WindowsRest
<1>3. CASE free # {}
  <2> DEFINE s == Min(free)
  <2>1. s \in free
    <3>1. free \in SUBSET Nat /\ IsFiniteSet(free)
      <4>1. free \in SUBSET Slots
        OBVIOUS
      <4> HIDE DEF free
      <4>2. QED
        BY <4>1, WindowsAssumption, FS_Subset
    <3> HIDE DEF free
    <3>2. QED
      BY <1>3, <3>1, ExtremesExist
  <2>2. PICK p \in Places[Kind[d]] :
           /\ win' = [win EXCEPT ![s] = [FreeWin EXCEPT !.id = nextId, !.fd = f, !.place = p, !.kind = Kind[d]]]
           /\ z' = ZPush(win', z, s) /\ nextId' = nextId + 1 /\ screen' = ComposeAll(win', z')
           /\ Answer(f, "made", nextId, -1)
    BY <1>3 DEF HandleCreate
  <2>3. s \in Slots /\ ~Used(s)
    BY <2>1
  <2> HIDE DEF free, s
  <2> DEFINE r == [FreeWin EXCEPT !.id = nextId, !.fd = f, !.place = p, !.kind = Kind[d]]
  <2>4. d \in Clients
    BY <1>1 DEF WindowsInv, Sessions
  <2>5. Kind[d] \in Kinds /\ p \in SUBSET Cells
    <3>1. Kind[d] \in {"app"} \union {Kind[o] : o \in Clients}
      BY <2>4
    <3>2. Places[Kind[d]] \subseteq SUBSET Cells
      BY <3>1, WindowsAssumption
    <3>3. QED
      BY <2>4, <3>2, WindowsAssumption
  <2>6. r \in Wins /\ r.id = nextId /\ r.fd = f /\ r.kind = Kind[d] /\ r.kid = -1
    BY <1>t, <2>5 DEF FreeWin, Wins
  <2>7. win' = [win EXCEPT ![s] = r]
    BY <2>2
  <2>e. d = conn[f].client
    OBVIOUS
  <2> HIDE DEF r, d
  <2>8. win' \in [Slots -> Wins] /\ win'[s] = r /\ \A t \in Slots \ {s} : win'[t] = win[t]
    BY <1>t, <2>3, <2>6, <2>7
  <2>9. nextId' \in Nat \ {0} /\ nextId <= nextId' /\ nextId < nextId' /\ nextId # 0
    BY <1>t, <2>2
  <2>10. /\ Sessions' /\ cl' \in [Clients -> Progs] /\ conn' \in [Fds -> Conns]
         /\ \A g \in Fds : conn'[g].client = conn[g].client /\ conn'[g].st = conn[g].st
         /\ \A c \in Clients : /\ cl'[c].fd = cl[c].fd
                               /\ cl'[c] = cl[c] \/ (cl[c].fd = f /\ cl'[c].st = "made" /\ cl'[c].id = nextId)
    BY <1>t, <1>1, <1>k, <2>2, <2>9, AnswersKeep
  <2>11. z' \in Seq(Slots) /\ \A a, b : a # s /\ b # s /\ Above(z', a, b) => Above(z, a, b)
    BY <1>t, <2>2, <2>3, ZPushFacts
  <2>12. ServerTypes'
    <3>1. screen' \in [Cells -> Slots \union {0}]
      BY <2>2, <2>11, PaintedFacts
    <3>2. QED
      BY <1>1, <2>8, <2>9, <2>10, <2>11, <3>1 DEF WindowsInv, ServerTypes
  <2>13. \A t \in Slots : Used(t)' <=> Used(t) \/ t = s
    BY <2>3, <2>6, <2>8, <2>9 DEF Used
  <2>i. \A t \in Slots : win[t].id # nextId
    <3>1. ASSUME NEW t \in Slots, win[t].id = nextId PROVE FALSE
      <4>1. Used(t)
        BY <2>9, <3>1 DEF Used
      <4>2. win[t].id < nextId
        BY <4>1 DEF WindowsInv, Owned
      <4>3. QED
        BY <1>t, <3>1, <4>2
    <3>2. QED
      BY <3>1
  <2>14. Owned'
    <3>1. ASSUME NEW t \in Slots, ~Used(t)' PROVE win'[t].kid = -1
      BY <2>8, <2>13, <3>1 DEF WindowsInv, Owned
    <3>2. ASSUME NEW t \in Slots, Used(t)'
          PROVE  /\ win'[t].fd \in Fds /\ conn'[win'[t].fd].st = "served" /\ win'[t].id < nextId'
                 /\ win'[t].kind = Kind[conn'[win'[t].fd].client]
      <4>1. CASE t = s
        BY <1>1, <2>6, <2>8, <2>9, <2>10, <2>e, <4>1
      <4>2. CASE t # s
        <5>1. Used(t) /\ win'[t] = win[t]
          BY <2>8, <2>13, <3>2, <4>2
        <5>2. /\ win[t].fd \in Fds /\ conn[win[t].fd].st = "served" /\ win[t].id < nextId
              /\ win[t].kind = Kind[conn[win[t].fd].client] /\ win[t].id \in Nat
          BY <1>t, <5>1 DEF WindowsInv, Owned, Wins
        <5>3. win[t].id < nextId'
          <6>1. nextId' = nextId + 1
            BY <2>2
          <6>2. QED
            BY <1>t, <5>2, <6>1
        <5>4. conn'[win[t].fd].st = "served" /\ conn'[win[t].fd].client = conn[win[t].fd].client
          BY <2>10, <5>2
        <5>5. win'[t].fd = win[t].fd /\ win'[t].id = win[t].id /\ win'[t].kind = win[t].kind
          BY <5>1
        <5>6. QED
          BY <5>2, <5>3, <5>4, <5>5
      <4>3. QED
        BY <4>1, <4>2
    <3>3. ASSUME NEW t \in Slots, NEW o \in Slots, Used(t)', win'[t].id = win'[o].id PROVE t = o
      <4>1. CASE t = s \/ o = s
        BY <2>6, <2>8, <2>i, <3>3, <4>1
      <4>2. CASE t # s /\ o # s
        BY <2>8, <2>13, <3>3, <4>2 DEF WindowsInv, Owned
      <4>3. QED
        BY <4>1, <4>2
    <3>4. ASSUME NEW c \in Clients, NEW t \in Slots, Used(t)', win'[t].id = cl'[c].id
          PROVE  win'[t].fd = cl'[c].fd /\ (cl'[c].st = "made" => win'[t].kid = -1)
      <4>1. CASE t = s
        <5>1. cl'[c].id = nextId
          BY <2>6, <2>8, <3>4, <4>1
        <5>2. cl[c].id < nextId /\ cl[c].id \in Nat
          BY <1>t DEF WindowsInv, Sessions, ServerTypes, Progs
        <5>3. cl[c].fd = f
          BY <1>t, <2>10, <5>1, <5>2
        <5>4. QED
          BY <2>6, <2>8, <2>10, <4>1, <5>3
      <4>2. CASE t # s
        <5>1. Used(t) /\ win'[t] = win[t]
          BY <2>8, <2>13, <3>4, <4>2
        <5>2. cl'[c] = cl[c]
          BY <2>i, <2>10, <3>4, <5>1
        <5>3. win[t].id = cl[c].id
          BY <3>4, <5>1, <5>2
        <5>4. win[t].fd = cl[c].fd /\ (cl[c].st = "made" => win[t].kid = -1)
          BY <5>1, <5>3 DEF WindowsInv, Owned
        <5>5. QED
          BY <5>1, <5>2, <5>4
      <4>3. QED
        BY <4>1, <4>2
    <3>5. QED
      BY <3>1, <3>2, <3>3, <3>4 DEF Owned
  <2>15. Shadowed'
    <3>1. ASSUME NEW k \in KSlots, InUse(kern, k)
          PROVE  kern.win[k].for < nextId /\ kern.win[k].for \in Nat /\ kern.win[k].kind = Kind[kern.win[k].owner]
      BY <3>1 DEF WindowsInv, Shadowed, Table, Tables, Shadow
    <3>2. ASSUME NEW k \in KSlots, NEW t \in Slots, InUse(kern, k), Used(t)', kern.win[k].for = win'[t].id
          PROVE  kern.win[k].owner = conn'[win'[t].fd].client
      <4>1. t # s
        <5>1. SUFFICES ASSUME t = s PROVE FALSE
          OBVIOUS
        <5>2. kern.win[k].for = nextId
          BY <2>6, <2>8, <3>2, <5>1
        <5>3. QED
          BY <1>t, <3>1, <3>2, <5>2
      <4>2. Used(t) /\ win'[t] = win[t]
        BY <2>8, <2>13, <3>2, <4>1
      <4>3. kern.win[k].owner = conn[win[t].fd].client /\ win[t].fd \in Fds
        BY <3>2, <4>2 DEF WindowsInv, Shadowed, Owned
      <4>4. QED
        BY <2>10, <4>2, <4>3
    <3>3. \A k \in KSlots : InUse(kern, k) => kern.win[k].for < nextId + 1
      BY <1>t, <3>1
    <3>4. QED
      BY <1>1, <2>2, <3>1, <3>2, <3>3 DEF Shadowed
  <2>16. Ordered'
    <3>1. ASSUME NEW t \in Slots, Bound(t)' PROVE Bound(t) /\ t # s /\ win'[t].kid = win[t].kid
      <4>1. t # s
        BY <2>6, <2>8, <3>1 DEF Bound
      <4>2. win'[t] = win[t]
        BY <2>8, <4>1
      <4>3. QED
        BY <1>1, <3>1, <4>1, <4>2 DEF Bound
    <3>2. \A a, b \in Slots : Bound(a)' /\ Bound(b)' /\ Above(z', a, b) => Above(z, a, b)
      BY <2>11, <3>1
    <3>3. \A t \in Slots : Bound(t)' => /\ Bound(t) /\ win'[t].kid = win[t].kid
                                        /\ kern'.win[win'[t].kid].pass = kern.win[win[t].kid].pass
      BY <1>1, <3>1
    <3>4. \A a, b \in Slots : Bound(a)' /\ Bound(b)' /\ Above(kern.z, win[a].kid, win[b].kid) =>
              Above(kern'.z, win[a].kid, win[b].kid)
      BY <1>1
    <3>5. QED
      BY <1>1, <3>2, <3>3, <3>4, OrderStays DEF WindowsInv
  <2>17. QED
    BY <1>1, <2>10, <2>12, <2>14, <2>15, <2>16, Gathered DEF WindowsInv
<1>4. QED
  BY <1>2, <1>3
(***************************************************************************)
(* The composition.                                                        *)
(***************************************************************************)
\* The start, when there are no windows.
LEMMA WindowsStart == WindowsInit => WindowsInv
<1> SUFFICES ASSUME WindowsInit PROVE WindowsInv
  OBVIOUS
<1>1. /\ kern = KInit /\ cl = [c \in Clients |-> OffClient] /\ conn = [f \in Fds |-> FreeConn]
      /\ win = [s \in Slots |-> FreeWin] /\ z = <<>> /\ nextId = 1 /\ screen = [x \in Cells |-> 0] /\ grab = 0
      /\ astray = FALSE
  BY DEF WindowsInit
<1>2. Table(kern) /\ Paired(kern)
  BY <1>1, TableStarts
<1>3. OffClient \in Progs /\ OffClient.st = "off" /\ OffClient.id = 0 /\ OffClient.fd = 0
  BY DEF OffClient, Progs
<1>4. FreeConn \in Conns /\ FreeConn.st = "free"
  BY DEF FreeConn, NoReq, Conns, Reqs
<1>5. FreeWin \in Wins /\ FreeWin.id = 0 /\ FreeWin.kid = -1
  BY DEF FreeWin, Wins, Kinds
<1>6. ServerTypes
  <2>1. cl \in [Clients -> Progs]
    BY <1>1, <1>3
  <2>2. conn \in [Fds -> Conns]
    BY <1>1, <1>4
  <2>3. win \in [Slots -> Wins]
    BY <1>1, <1>5
  <2>4. z \in Seq(Slots) /\ screen \in [Cells -> Slots \union {0}]
    BY <1>1
  <2>5. nextId \in Nat \ {0} /\ grab \in Slots \union {0} /\ astray \in BOOLEAN
    <3>1. nextId = 1 /\ grab = 0
      BY DEF WindowsInit
    <3>2. astray = FALSE
      BY DEF WindowsInit
    <3>3. astray \in BOOLEAN
      BY <3>2
    <3>4. QED
      BY <3>1, <3>3
  <2>6. QED
    BY <2>1, <2>2, <2>3, <2>4, <2>5 DEF ServerTypes
<1>7. Sessions
  BY <1>1, <1>3, <1>4 DEF Sessions
<1>8. Owned
  BY <1>1, <1>5 DEF Owned, Used
<1>9. \A k \in KSlots : ~InUse(kern, k)
  BY <1>1 DEF KInit, InUse, FreeShadow
<1>10. Shadowed /\ Ordered
  BY <1>9 DEF Shadowed, Ordered, Bound, InUse
<1>11. QED
  BY <1>2, <1>6, <1>7, <1>8, <1>10 DEF WindowsInv

\* Every step of a program, a worker, the poller and the kernel's own pointer.
LEMMA WindowsKeep == WindowsInv /\ [WindowsNext]_windowsVars => WindowsInv'
<1> SUFFICES ASSUME WindowsInv, [WindowsNext]_windowsVars PROVE WindowsInv'
  OBVIOUS
<1>1. CASE UNCHANGED windowsVars
  <2>1. kern' = kern /\ cl' = cl /\ conn' = conn /\ win' = win /\ z' = z /\ nextId' = nextId /\ screen' = screen
        /\ grab' = grab /\ astray' = astray
    BY <1>1 DEF windowsVars
  <2>2. cl' \in [Clients -> Progs] /\ conn' \in [Fds -> Conns]
    BY <2>1 DEF WindowsInv, ServerTypes
  <2>3. Sessions'
    BY <2>1 DEF WindowsInv, Sessions, Waiting
  <2>4. QED
    BY <2>1, <2>2, <2>3, WindowsRest
<1>2. ASSUME NEW c \in Clients, ClientStep(c) PROVE WindowsInv'
  <2>1. CASE Connect(c)
    BY <2>1, ConnectKeeps
  <2>2. CASE SendCreate(c)
    BY <2>2, RequestKeeps DEF SendCreate
  <2>3. CASE SendBind(c)
    BY <2>3, RequestKeeps DEF SendBind
  <2>4. CASE SendDestroy(c)
    BY <2>4, RequestKeeps DEF SendDestroy
  <2>5. CASE MakeShadow(c)
    BY <2>5, MakeShadowKeeps
  <2>6. CASE DropShadow(c)
    BY <2>6, DropShadowKeeps
  <2>7. CASE ExitShadows(c)
    BY <2>7, ExitShadowsKeeps
  <2>8. CASE ExitClose(c)
    BY <2>8, ExitCloseKeeps
  <2>9. QED
    BY <1>2, <2>1, <2>2, <2>3, <2>4, <2>5, <2>6, <2>7, <2>8 DEF ClientStep
<1>3. ASSUME NEW f \in Fds, WorkerStep(f) PROVE WindowsInv'
  <2>1. CASE HandleCreate(f)
    BY <2>1, HandleCreateKeeps
  <2>2. CASE HandleBind(f)
    BY <2>2, HandleBindKeeps
  <2>3. CASE HandleDestroy(f)
    BY <2>3, HandleDestroyKeeps
  <2>4. CASE HandleMove(f) \/ HandleDamage(f)
    BY <2>4, MovesKeep
  <2>5. CASE Collect(f)
    BY <2>5, CollectKeeps
  <2>6. CASE CloseFd(f)
    BY <2>6, CloseFdKeeps
  <2>7. QED
    BY <1>3, <2>1, <2>2, <2>3, <2>4, <2>5, <2>6 DEF WorkerStep
<1>4. CASE HandleRestore
  BY <1>4, RestoreKeeps
<1>5. CASE HandleMinimize
  <2>1. PICK s \in Slots : Hide(s)
    BY <1>5 DEF HandleMinimize
  <2>2. QED
    BY <1>5, <2>1, HideKeeps DEF HandleMinimize, clientVars
<1>6. CASE KernelPress
  BY <1>6, KernelPressKeeps
<1>7. CASE PollerStep
  BY <1>7, PollPressKeeps, MovesKeep DEF PollerStep
<1>8. QED
  BY <1>1, <1>2, <1>3, <1>4, <1>5, <1>6, <1>7 DEF WindowsNext

\* No connection ever owns the windows of another program: descriptors are handed out again
\* only when the windows behind them are gone (gc_conn_windows before close), and a shadow is
\* made only for a window of the program that makes it.
THEOREM WindowsStayOwn == WindowsSpec => []WindowsAreOwn
<1>1. WindowsInv => WindowsAreOwn
  BY DEF WindowsInv, Owned, Shadowed, WindowsAreOwn
<1>2. QED
  BY <1>1, WindowsStart, WindowsKeep, PTL DEF WindowsSpec

\* The positions of a stack of n elements are n.
LEMMA UpToFacts ==
  ASSUME NEW n \in Nat
  PROVE  IsFiniteSet(1 .. n) /\ Cardinality(1 .. n) = n
<1>1. /\ IsFiniteSet(1 .. n)
      /\ Cardinality(1 .. n) = IF 1 > n THEN 0 ELSE n - 1 + 1
  BY FS_Interval
<1>2. (IF 1 > n THEN 0 ELSE n - 1 + 1) = n
  OBVIOUS
<1>3. QED
  BY <1>1, <1>2

\* A stack that names each of its windows once is as long as they are many.
LEMMA OnceEach ==
  ASSUME NEW T, NEW q \in Seq(T), Distinct(q)
  PROVE  Len(q) = Cardinality(ToSet(q))
<1>1. Len(q) \in Nat /\ DOMAIN q = 1 .. Len(q)
  OBVIOUS
<1>2. IsFiniteSet(1 .. Len(q)) /\ Cardinality(1 .. Len(q)) = Len(q)
  BY <1>1, UpToFacts
<1>3. q \in Bijection(1 .. Len(q), ToSet(q))
  <2>1. q \in [1 .. Len(q) -> ToSet(q)] /\ \A t \in ToSet(q) : \E i \in 1 .. Len(q) : q[i] = t
    BY <1>1 DEF ToSet
  <2>2. QED
    BY <2>1 DEF Distinct, Bijection, Injection, Surjection, IsInjective
<1>4. ExistsBijection(1 .. Len(q), ToSet(q))
  BY <1>3 DEF ExistsBijection
<1>5. QED
  BY <1>2, <1>4, FS_Bijection

\* As long as no call of the server has reached the shadow of another window, of two bound
\* windows the one above on the screen has its shadow above in the kernel, whatever clients and
\* pointer do meanwhile (handle_bind_kernel, poller_tick, wm_raise_window and the exits).
THEOREM StacksStayAgreed == WindowsSpec => []StacksAgree
<1>1. WindowsInv => StacksAgree
  <2> SUFFICES ASSUME WindowsInv PROVE StacksAgree
    OBVIOUS
  <2>1. /\ \A k \in KSlots : kern.win[k].owner \in Clients \union {NoClient}
                             /\ kern.win[k].kind \in Kinds /\ kern.down[k] \subseteq Keys
        /\ kern.focus \in KSlots \union {-1} /\ (kern.focus # -1 => InUse(kern, kern.focus))
        /\ ToSet(kern.z) = {k \in KSlots : InUse(kern, k)} /\ kern.z \in Seq(KSlots) /\ Distinct(kern.z)
    BY DEF WindowsInv, Table, Tables, Shadow
  <2>2. Len(kern.z) = Cardinality(ToSet(kern.z))
    BY <2>1, OnceEach
  <2>3. /\ \A c \in Clients : cl[c].st \in {"off", "idle", "made", "shadowed", "up", "undone", "exiting"}
        /\ \A f \in Fds : conn[f].client \in Clients \union {NoClient}
        /\ \A s \in Slots : win[s].kid \in KSlots \union {-1} /\ win[s].place \subseteq Cells
        /\ screen \in [Cells -> Slots \union {0}] /\ grab \in Slots \union {0}
    <3>1. /\ \A c \in Clients : cl[c] \in Progs
          /\ \A f \in Fds : conn[f] \in Conns
          /\ \A s \in Slots : win[s] \in Wins
      BY DEF WindowsInv, ServerTypes
    <3>2. \A s \in Slots : win[s].kid \in KSlots \union {-1} /\ win[s].place \subseteq Cells
      BY <3>1 DEF Wins
    <3>3. QED
      BY <3>1, <3>2 DEF WindowsInv, ServerTypes, Progs, Conns
  <2>4. WindowsTypeOK
    BY <2>1, <2>2, <2>3 DEF WindowsTypeOK
  <2>5. QED
    BY <2>4 DEF WindowsInv, Ordered, StacksAgree
<1>2. QED
  BY <1>1, WindowsStart, WindowsKeep, PTL DEF WindowsSpec
(***************************************************************************)
(* The server's stack.                                                     *)
(***************************************************************************)
Piled(q, w) ==
    /\ Distinct(q) /\ ToSet(q) = {s \in Slots : w[s].id # 0}
    /\ \A a, b \in Slots : Above(q, a, b) /\ w[a].kind = "wall" => w[b].kind = "wall"

\* A window that moves within the stack, or changes where it is and what it shows.
LEMMA PiledRaise ==
  ASSUME ServerTypes, Piled(z, win), NEW s \in Slots,
         \A t \in Slots : win'[t].id = win[t].id /\ win'[t].kind = win[t].kind
  PROVE  Piled(ZRaise(s), win') /\ Piled(z, win')
<1>1. z \in Seq(Slots) /\ Range(z) = ToSet(z)
  BY DEF ServerTypes, Range, ToSet
<1>2. /\ ZRaise(s) \in Seq(Slots) /\ ToSet(ZRaise(s)) = ToSet(z)
      /\ \A a, b : a # s /\ b # s => (Above(ZRaise(s), a, b) <=> Above(z, a, b))
      /\ win[s].kind # "wall" => \A a : ~Above(ZRaise(s), a, s)
  BY ZRaiseFacts
<1>3. Piled(z, win')
  BY DEF Piled
<1>4. CASE win[s].kind = "wall" \/ s \notin Range(z)
  BY <1>3, <1>4 DEF ZRaise
<1>5. CASE win[s].kind # "wall" /\ s \in Range(z)
  <2> DEFINE w == Without(z, {s})
  <2>1. ZRaise(s) = Append(w, s)
    BY <1>5 DEF ZRaise
  <2>2. w \in Seq(Slots) /\ ToSet(w) = ToSet(z) \ {s} /\ Distinct(w)
    BY <1>1, WithoutFacts DEF Piled
  <2> HIDE DEF w
  <2>3. Distinct(ZRaise(s))
    BY <2>1, <2>2, OnTop
  <2>4. ASSUME NEW a \in Slots, NEW b \in Slots, Above(ZRaise(s), a, b), win'[a].kind = "wall"
        PROVE  win'[b].kind = "wall"
    <3>1. a # s /\ b # s
      BY <1>2, <1>5, <2>4
    <3>2. QED
      BY <1>2, <2>4, <3>1 DEF Piled
  <2>5. ToSet(ZRaise(s)) = {t \in Slots : win'[t].id # 0}
    BY <1>2 DEF Piled
  <2>6. QED
    BY <1>3, <2>3, <2>4, <2>5 DEF Piled
<1>6. QED
  BY <1>3, <1>4, <1>5

\* A window that goes.
LEMMA PiledGo ==
  ASSUME ServerTypes, Piled(z, win), NEW ss \in SUBSET Slots, DropWins(ss)
  PROVE  Piled(z', win')
<1>1. z \in Seq(Slots) /\ win \in [Slots -> Wins]
  BY DEF ServerTypes
<1>2. z' = Without(z, ss) /\ win' = [s \in Slots |-> IF s \in ss THEN FreeWin ELSE win[s]]
  BY DEF DropWins
<1>3. /\ ToSet(z') = ToSet(z) \ ss /\ Distinct(z')
      /\ \A a, b : Above(z', a, b) <=> Above(z, a, b) /\ a \notin ss /\ b \notin ss
  BY <1>1, <1>2, WithoutFacts DEF Piled
<1>4. FreeWin.id = 0
  BY DEF FreeWin
<1>5. \A t \in Slots : IF t \in ss THEN win'[t].id = 0 ELSE win'[t] = win[t]
  BY <1>2, <1>4
<1>6. ToSet(z') = {t \in Slots : win'[t].id # 0}
  <2>1. ToSet(z) = {t \in Slots : win[t].id # 0}
    BY DEF Piled
  <2>2. \A t : t \in ToSet(z') <=> t \in Slots /\ win'[t].id # 0
    BY <1>3, <1>5, <2>1
  <2>3. QED
    BY <2>2
<1>7. ASSUME NEW a \in Slots, NEW b \in Slots, Above(z', a, b), win'[a].kind = "wall" PROVE win'[b].kind = "wall"
  BY <1>3, <1>5, <1>7 DEF Piled
<1>8. QED
  BY <1>3, <1>6, <1>7 DEF Piled

\* What is put below everything.
LEMMA AtBottom ==
  ASSUME NEW q \in Seq(Slots), NEW s \in Slots, Distinct(q), s \notin ToSet(q)
  PROVE  /\ Distinct(<<s>> \o q) /\ ToSet(<<s>> \o q) = ToSet(q) \union {s}
         /\ \A a : ~Above(<<s>> \o q, s, a)
<1> DEFINE r == <<s>> \o q
<1>1. /\ r \in Seq(Slots) /\ Len(r) = Len(q) + 1 /\ Len(q) \in Nat /\ DOMAIN q = 1 .. Len(q)
      /\ DOMAIN r = 1 .. Len(q) + 1
      /\ \A i \in 1 .. Len(q) + 1 : r[i] = IF i = 1 THEN s ELSE q[i - 1]
  OBVIOUS
<1> HIDE DEF r
<1>2. \A i \in 1 .. Len(q) : q[i] # s
  BY <1>1 DEF ToSet
<1>3. Distinct(r)
  <2> SUFFICES ASSUME NEW i \in 1 .. Len(q) + 1, NEW j \in 1 .. Len(q) + 1, r[i] = r[j] PROVE i = j
    BY <1>1 DEF Distinct
  <2>1. i # 1 => i - 1 \in 1 .. Len(q)
    BY <1>1
  <2>2. j # 1 => j - 1 \in 1 .. Len(q)
    BY <1>1
  <2>3. CASE i = 1 \/ j = 1
    BY <1>1, <1>2, <2>1, <2>2, <2>3
  <2>4. CASE i # 1 /\ j # 1
    <3>1. i - 1 = j - 1
      BY <1>1, <2>1, <2>2, <2>4 DEF Distinct
    <3>2. QED
      BY <1>1, <3>1
  <2>5. QED
    BY <2>3, <2>4
<1>4. ToSet(r) = ToSet(q) \union {s}
  <2>1. ASSUME NEW y \in ToSet(r) PROVE y \in ToSet(q) \union {s}
    <3>1. PICK i \in 1 .. Len(q) + 1 : y = r[i]
      BY <1>1, <2>1 DEF ToSet
    <3>2. i # 1 => i - 1 \in 1 .. Len(q)
      BY <1>1
    <3>3. QED
      BY <1>1, <3>1, <3>2 DEF ToSet
  <2>2. ASSUME NEW y \in ToSet(q) PROVE y \in ToSet(r)
    <3>1. PICK i \in 1 .. Len(q) : y = q[i]
      BY <1>1, <2>2 DEF ToSet
    <3>2. i + 1 \in 1 .. Len(q) + 1 /\ r[i + 1] = q[i]
      BY <1>1
    <3>3. QED
      BY <1>1, <3>1, <3>2 DEF ToSet
  <2>3. s \in ToSet(r)
    <3>1. 1 \in 1 .. Len(q) + 1 /\ r[1] = s
      BY <1>1
    <3>2. QED
      BY <1>1, <3>1 DEF ToSet
  <2>4. QED
    BY <2>1, <2>2, <2>3
<1>5. ASSUME NEW a, Above(r, s, a) PROVE FALSE
  <2>1. PICK i, j \in 1 .. Len(q) + 1 : i > j /\ r[i] = s
    BY <1>1, <1>5 DEF Above
  <2>2. i # 1 /\ i - 1 \in 1 .. Len(q)
    BY <1>1, <2>1
  <2>3. QED
    BY <1>1, <1>2, <2>1, <2>2
<1>6. QED
  BY <1>3, <1>4, <1>5 DEF r

\* A window that comes: pinned ones to the bottom.
LEMMA PiledPush ==
  ASSUME ServerTypes, Piled(z, win), NEW s \in Slots, ~Used(s), win'[s].id # 0,
         \A t \in Slots \ {s} : win'[t] = win[t], z' = ZPush(win', z, s)
  PROVE  Piled(z', win')
<1>1. z \in Seq(Slots) /\ Distinct(z) /\ ToSet(z) = {t \in Slots : win[t].id # 0} /\ s \notin ToSet(z)
  BY DEF ServerTypes, Piled, Used
<1>2. \A a, b : a # s /\ b # s /\ Above(z', a, b) => Above(z, a, b)
  BY <1>1, ZPushFacts
<1>3. Distinct(z') /\ ToSet(z') = ToSet(z) \union {s}
  BY <1>1, OnTop, AtBottom DEF ZPush
<1>4. ToSet(z') = {t \in Slots : win'[t].id # 0}
  <2>1. \A t : t \in ToSet(z') <=> t \in Slots /\ win'[t].id # 0
    BY <1>1, <1>3
  <2>2. QED
    BY <2>1
<1>5. win'[s].kind = "wall" => \A a : ~Above(z', s, a)
  BY <1>1, AtBottom DEF ZPush
<1>6. ASSUME win'[s].kind # "wall", NEW a, Above(z', a, s) PROVE FALSE
  <2>1. z' = Append(z, s)
    BY <1>6 DEF ZPush
  <2>2. Above(z, a, s) \/ (a = s /\ s \in ToSet(z))
    BY <1>1, <1>6, <2>1, OnTop
  <2>3. ~Above(z, a, s)
    BY <1>1 DEF Above, ToSet
  <2>4. QED
    BY <1>1, <2>2, <2>3
<1>7. ASSUME NEW a \in Slots, NEW b \in Slots, Above(z', a, b), win'[a].kind = "wall" PROVE win'[b].kind = "wall"
  <2>1. CASE a = s
    BY <1>5, <1>7, <2>1
  <2>2. CASE b = s /\ a # s
    BY <1>6, <1>7, <2>2
  <2>3. CASE a # s /\ b # s
    BY <1>2, <1>7, <2>3 DEF Piled
  <2>4. QED
    BY <2>1, <2>2, <2>3
<1>8. QED
  BY <1>3, <1>4, <1>7 DEF Piled
\* What changes where a window is, whether it shows and which shadow it has makes no other window of it.
LEMMA SameKinds ==
  ASSUME ServerTypes, NEW s \in Slots, NEW v,
         \/ win' = [win EXCEPT ![s].place = v]
         \/ win' = [win EXCEPT ![s].hidden = v]
         \/ win' = [win EXCEPT ![s].kid = v]
  PROVE  \A t \in Slots : win'[t].id = win[t].id /\ win'[t].kind = win[t].kind
<1>1. win \in [Slots -> Wins] /\ win[s] \in Wins
  BY DEF ServerTypes
<1> DEFINE p == [win[s] EXCEPT !.place = v]
<1> DEFINE h == [win[s] EXCEPT !.hidden = v]
<1> DEFINE k == [win[s] EXCEPT !.kid = v]
<1>2. p.id = win[s].id /\ p.kind = win[s].kind
  BY <1>1 DEF Wins
<1>3. h.id = win[s].id /\ h.kind = win[s].kind
  BY <1>1 DEF Wins
<1>4. k.id = win[s].id /\ k.kind = win[s].kind
  BY <1>1 DEF Wins
<1>5. win' = [win EXCEPT ![s] = p] \/ win' = [win EXCEPT ![s] = h] \/ win' = [win EXCEPT ![s] = k]
  OBVIOUS
<1> HIDE DEF p, h, k
<1>6. QED
  BY <1>1, <1>2, <1>3, <1>4, <1>5

\* Every step keeps the stack.
LEMMA PiledKeeps == WindowsInv /\ Piled(z, win) /\ [WindowsNext]_windowsVars => Piled(z', win')
<1> SUFFICES ASSUME WindowsInv, Piled(z, win), [WindowsNext]_windowsVars PROVE Piled(z', win')
  OBVIOUS
<1>t. ServerTypes
  BY DEF WindowsInv
<1>0. ASSUME win' = win, z' = z PROVE Piled(z', win')
  BY <1>0
<1>r. ASSUME NEW s \in Slots, win' = win, z' = ZRaise(s) PROVE Piled(z', win')
  BY <1>t, <1>r, PiledRaise
<1>s. ASSUME NEW s \in Slots, NEW v, z' = z \/ z' = ZRaise(s),
             \/ win' = [win EXCEPT ![s].place = v]
             \/ win' = [win EXCEPT ![s].hidden = v]
             \/ win' = [win EXCEPT ![s].kid = v]
      PROVE  Piled(z', win')
  <2>1. \A t \in Slots : win'[t].id = win[t].id /\ win'[t].kind = win[t].kind
    BY <1>t, <1>s, SameKinds
  <2>2. Piled(ZRaise(s), win') /\ Piled(z, win')
    BY <1>t, <2>1, PiledRaise
  <2>3. QED
    BY <1>s, <2>2
<1>1. CASE UNCHANGED windowsVars
  BY <1>0, <1>1 DEF windowsVars
<1>2. ASSUME NEW c \in Clients, ClientStep(c) PROVE Piled(z', win')
  BY <1>0, <1>2 DEF ClientStep, Connect, SendCreate, SendBind, SendDestroy, Request, MakeShadow,
                    DropShadow, ExitShadows, ExitClose, ServerUnchanged
<1>3. ASSUME NEW f \in Fds, HandleCreate(f) PROVE Piled(z', win')
  <2> DEFINE free == {s \in Slots : ~Used(s)}
  <2> DEFINE s == Min(free)
  <2> DEFINE d == conn[f].client
  <2>1. CASE free = {}
    BY <1>0, <1>3, <2>1 DEF HandleCreate
  <2>2. CASE free # {}
    <3>1. s \in free
      <4>1. free \in SUBSET Slots
        OBVIOUS
      <4>2. free # {}
        BY <2>2
      <4> HIDE DEF free
      <4>3. free \in SUBSET Nat /\ IsFiniteSet(free)
        BY <4>1, WindowsAssumption, FS_Subset
      <4>4. QED
        BY <4>2, <4>3, ExtremesExist
    <3>2. PICK p \in Places[Kind[d]] :
             /\ win' = [win EXCEPT ![s] = [FreeWin EXCEPT !.id = nextId, !.fd = f, !.place = p, !.kind = Kind[d]]]
             /\ z' = ZPush(win', z, s)
      BY <1>3, <2>2 DEF HandleCreate
    <3>3. s \in Slots /\ ~Used(s)
      BY <3>1
    <3> HIDE DEF free, s, d
    <3> DEFINE r == [FreeWin EXCEPT !.id = nextId, !.fd = f, !.place = p, !.kind = Kind[d]]
    <3>4. r.id = nextId /\ nextId # 0 /\ win \in [Slots -> Wins]
      BY <1>t DEF FreeWin, ServerTypes
    <3>5. win' = [win EXCEPT ![s] = r]
      BY <3>2
    <3> HIDE DEF r
    <3>6. win'[s].id # 0 /\ \A t \in Slots \ {s} : win'[t] = win[t]
      BY <3>3, <3>4, <3>5
    <3>7. QED
      BY <1>t, <3>2, <3>3, <3>6, PiledPush
  <2>3. QED
    BY <2>1, <2>2
<1>4. ASSUME NEW f \in Fds, HandleBind(f) PROVE Piled(z', win')
  <2>1. PICK s \in OwnWin(f) : win' = [win EXCEPT ![s].kid = conn[f].req.kid] /\ z' = ZRaise(s)
    BY <1>4 DEF HandleBind
  <2>2. QED
    BY <1>s, <2>1 DEF OwnWin
<1>5. ASSUME NEW f \in Fds, HandleDestroy(f) PROVE Piled(z', win')
  <2>1. PICK s \in OwnWin(f) : DropWins({s})
    BY <1>5 DEF HandleDestroy
  <2>2. {s} \in SUBSET Slots
    BY DEF OwnWin
  <2>3. QED
    BY <1>t, <2>1, <2>2, PiledGo
<1>6. ASSUME NEW f \in Fds, Collect(f) PROVE Piled(z', win')
  <2> DEFINE ss == {s \in Slots : Used(s) /\ win[s].fd = f}
  <2>1. DropWins(ss) /\ ss \in SUBSET Slots
    BY <1>6 DEF Collect
  <2> HIDE DEF ss
  <2>2. QED
    BY <1>t, <2>1, PiledGo
<1>7. ASSUME NEW f \in Fds, HandleMove(f) PROVE Piled(z', win')
  BY <1>s, <1>7 DEF HandleMove, OwnedBy
<1>8. ASSUME NEW f \in Fds, HandleDamage(f) \/ CloseFd(f) PROVE Piled(z', win')
  BY <1>0, <1>8 DEF HandleDamage, CloseFd, ServerUnchanged
<1>9. CASE HandleRestore
  <2>1. PICK s \in Slots : win' = [win EXCEPT ![s].hidden = FALSE] /\ z' = ZRaise(s)
    BY <1>9 DEF HandleRestore
  <2>2. QED
    BY <1>s, <2>1
<1>10. CASE HandleMinimize
  BY <1>s, <1>10 DEF HandleMinimize, Hide
<1>11. CASE KernelPress
  BY <1>0, <1>11 DEF KernelPress, ServerUnchanged
<1>12. CASE PollPress
  <2>1. CASE UNCHANGED <<kern, win, z, screen, grab, astray>>
    BY <1>0, <2>1
  <2>2. ASSUME NEW x \in Cells, Shown(win, z, x) # 0,
               \/ PressFrame(Shown(win, z, x)) \/ PressClose(Shown(win, z, x))
               \/ PressMinimize(Shown(win, z, x)) \/ PressBody(Shown(win, z, x))
        PROVE  Piled(z', win')
    <3> DEFINE s == Shown(win, z, x)
    <3>1. s \in Slots
      BY <1>t, <2>2, PaintedFacts DEF ServerTypes
    <3> HIDE DEF s
    <3>2. ASSUME PressFrame(s) PROVE Piled(z', win')
      BY <1>r, <3>1, <3>2 DEF PressFrame, RaiseBoth
    <3>3. ASSUME PressClose(s) PROVE Piled(z', win')
      BY <1>0, <3>3 DEF PressClose
    <3>4. ASSUME PressMinimize(s) PROVE Piled(z', win')
      BY <1>s, <3>1, <3>4 DEF PressMinimize, Hide
    <3>5. ASSUME PressBody(s) PROVE Piled(z', win')
      BY <1>0, <1>r, <3>1, <3>5 DEF PressBody, RaiseBoth
    <3>6. QED
      BY <2>2, <3>2, <3>3, <3>4, <3>5 DEF s
  <2>3. QED
    BY <1>12, <2>1, <2>2 DEF PollPress
<1>13. CASE PollDrag
  <2>1. CASE Used(grab) /\ Decorated(grab)
    BY <1>s, <1>13, <2>1 DEF PollDrag, Used
  <2>2. CASE ~(Used(grab) /\ Decorated(grab))
    BY <1>0, <1>13, <2>2 DEF PollDrag
  <2>3. QED
    BY <2>1, <2>2
<1>14. CASE PollRelease \/ PollMove
  BY <1>0, <1>14 DEF PollRelease, PollMove
<1>15. QED
  BY <1>1, <1>2, <1>3, <1>4, <1>5, <1>6, <1>7, <1>8, <1>9, <1>10, <1>11, <1>12, <1>13, <1>14
  DEF WindowsNext, WorkerStep, PollerStep

\* The server's stack holds every window in use once and nothing else, and nothing comes below a
\* pinned window (z_push, z_raise, z_remove and the slots they are called for).
THEOREM StackIsExact == WindowsSpec => []ZOrderExact
<1>1. WindowsInit => Piled(z, win)
  <2> SUFFICES ASSUME WindowsInit PROVE Piled(z, win)
    OBVIOUS
  <2>1. z = <<>> /\ win = [s \in Slots |-> FreeWin] /\ FreeWin.id = 0
    BY DEF WindowsInit, FreeWin
  <2>2. Distinct(<<>>) /\ ToSet(<<>>) = {} /\ \A a, b : ~Above(<<>>, a, b)
    BY DEF Distinct, ToSet, Above
  <2>3. {s \in Slots : win[s].id # 0} = {}
    BY <2>1
  <2>4. QED
    BY <2>1, <2>2, <2>3 DEF Piled
<1>2. WindowsInv /\ Piled(z, win) => ZOrderExact
  <2> SUFFICES ASSUME WindowsInv, Piled(z, win) PROVE ZOrderExact
    OBVIOUS
  <2>1. z \in Seq(Slots)
    BY DEF WindowsInv, ServerTypes
  <2>2. Len(z) = Cardinality(ToSet(z))
    BY <2>1, OnceEach DEF Piled
  <2>3. ToSet(z) = {s \in Slots : Used(s)}
    BY DEF Piled, Used
  <2>4. ASSUME NEW i \in 1 .. Len(z), NEW j \in 1 .. Len(z), i < j, win[z[j]].kind = "wall"
        PROVE  win[z[i]].kind = "wall"
    <3>1. z[i] \in Slots /\ z[j] \in Slots /\ j > i
      BY <2>1, <2>4
    <3>2. Above(z, z[j], z[i])
      BY <3>1 DEF Above
    <3>3. QED
      BY <2>4, <3>1, <3>2 DEF Piled
  <2>5. QED
    BY <2>2, <2>3, <2>4 DEF ZOrderExact
<1>3. WindowsInv /\ Piled(z, win) /\ [WindowsNext]_windowsVars => Piled(z, win)'
  BY PiledKeeps DEF Piled, Distinct, ToSet, Above
<1>4. QED
  BY <1>1, <1>2, <1>3, WindowsStart, WindowsKeep, PTL DEF WindowsSpec
=============================================================================
