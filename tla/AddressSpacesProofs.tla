------------------------ MODULE AddressSpacesProofs ------------------------
(***************************************************************************)
(* The books of user memory stay exact and the TLB sound, and programs see *)
(* memories of their own, for any number of address spaces, frames and     *)
(* pages, any files and any size of the page cache.                        *)
(***************************************************************************)
EXTENDS AddressSpaces, FiniteSetTheorems, SequenceTheorems, TLAPS

Slot == AS \X Page
PageTables == [AS -> [Page -> Entries \union {None}]]
LineType == [key : Nat, frame : Frame, refs : Nat]

\* The page tables p have at a, v an entry for frame f, of the page cache or not.
Maps(p, a, v, f, c) == p[a][v] # None /\ p[a][v].frame = f /\ p[a][v].cached = c
Holders(p, f, c) == { w \in Slot : Maps(p, w[1], w[2], f, c) }
Owners(p, f) == Holders(p, f, FALSE)
Borrowers(p, f) == Holders(p, f, TRUE)

InCache(ca, f) == \E i \in DOMAIN ca : ca[i].frame = f

\* What FramesExact says, of any page tables p, counts r, free frames fr and page cache ca.
CountsAre(p, r) ==
    \A f \in Frame : IF r[f] = 0 THEN Cardinality(Owners(p, f)) <= 1
                     ELSE Cardinality(Owners(p, f)) = r[f]
Placed(p, fr, ca) ==
    \A f \in Frame :
        /\ f \in fr => Owners(p, f) = {} /\ ~InCache(ca, f)
        /\ f \notin fr => (InCache(ca, f) <=> Owners(p, f) = {})
        /\ ~InCache(ca, f) => Borrowers(p, f) = {}
LinesApart(ca) == \A i, j \in DOMAIN ca : ca[i].frame = ca[j].frame => i = j
LinesCount(p, ca) == \A i \in DOMAIN ca : ca[i].refs = Cardinality(Borrowers(p, ca[i].frame))
PrivateWrites(p) ==
    \A a \in AS, v \in Page : p[a][v] # None /\ p[a][v].rw =>
        ~p[a][v].cached /\ Owners(p, p[a][v].frame) = {<<a, v>>}

\* An address space maps a frame of its own at one page only, and never writes to the page cache.
OwnOnce(p) == \A f \in Frame : \A w, x \in Owners(p, f) : w[1] = x[1] => w = x
CachedPlain(p) == \A a \in AS, v \in Page : p[a][v] # None /\ p[a][v].cached => ~p[a][v].cow

BookTypes(p, r, fr, ca) ==
    p \in PageTables /\ r \in [Frame -> Nat] /\ fr \subseteq Frame /\ ca \in Seq(LineType)
Books(p, r, fr, ca) ==
    /\ BookTypes(p, r, fr, ca)
    /\ CountsAre(p, r) /\ Placed(p, fr, ca) /\ LinesApart(ca) /\ LinesCount(p, ca)
    /\ PrivateWrites(p) /\ OwnOnce(p) /\ CachedPlain(p)
-----------------------------------------------------------------------------
LEMMA SlotsAreFinite == IsFiniteSet(Page) /\ IsFiniteSet(Slot)
<1>1. Page \subseteq 0 .. MmapMax
  <2>1. HeapBase \in Nat /\ HeapMax \in Nat /\ MmapBase \in Nat /\ MmapMax \in Nat
    BY AddressSpacesAssumption
  <2>2. QED
    BY <2>1, AddressSpacesAssumption DEF Page, Heap, Mapping
<1>2. IsFiniteSet(0 .. MmapMax)
  BY FS_Interval, AddressSpacesAssumption
<1>3. IsFiniteSet(Page)
  BY <1>1, <1>2, FS_Subset
<1>4. QED
  BY <1>3, FS_Product, AddressSpacesAssumption DEF Slot

LEMMA HoldersAreFinite ==
  ASSUME NEW p, NEW f, NEW c
  PROVE  IsFiniteSet(Holders(p, f, c)) /\ Cardinality(Holders(p, f, c)) \in Nat
<1>1. Holders(p, f, c) \in SUBSET Slot
  BY DEF Holders
<1>2. QED
  BY <1>1, SlotsAreFinite, FS_Subset, FS_CardinalityType

LEMMA HoldersAt ==
  ASSUME NEW p, NEW f, NEW c
  PROVE  /\ \A a \in AS, v \in Page : <<a, v>> \in Holders(p, f, c) <=> Maps(p, a, v, f, c)
         /\ \A w \in Holders(p, f, c) : w[1] \in AS /\ w[2] \in Page /\ w = <<w[1], w[2]>>
BY DEF Holders, Slot

LEMMA HoldersSame ==
  ASSUME NEW p, NEW q, NEW f, NEW c,
         \A a \in AS, v \in Page : Maps(q, a, v, f, c) <=> Maps(p, a, v, f, c)
  PROVE  Holders(q, f, c) = Holders(p, f, c)
BY DEF Holders, Slot

LEMMA OwnersSame ==
  ASSUME NEW p, NEW q, NEW f,
         \A a \in AS, v \in Page : Maps(q, a, v, f, FALSE) <=> Maps(p, a, v, f, FALSE)
  PROVE  Owners(q, f) = Owners(p, f)
BY DEF Owners, Holders, Slot

LEMMA BorrowersSame ==
  ASSUME NEW p, NEW q, NEW f,
         \A a \in AS, v \in Page : Maps(q, a, v, f, TRUE) <=> Maps(p, a, v, f, TRUE)
  PROVE  Borrowers(q, f) = Borrowers(p, f)
BY DEF Borrowers, Holders, Slot

LEMMA EntryOf ==
  ASSUME NEW p \in PageTables, NEW a \in AS, NEW v \in Page, p[a][v] # None
  PROVE  /\ p[a][v] \in Entries
         /\ p[a][v].frame \in Frame /\ p[a][v].rw \in BOOLEAN /\ p[a][v].cow \in BOOLEAN
         /\ p[a][v].cached \in BOOLEAN
BY DEF PageTables, Entries

\* A frame that nobody owns has a count of zero.
LEMMA UnownedIsUncounted ==
  ASSUME NEW p, NEW r \in [Frame -> Nat], CountsAre(p, r), NEW f \in Frame, Owners(p, f) = {}
  PROVE  r[f] = 0
<1>1. Cardinality(Owners(p, f)) = 0
  BY FS_EmptySet
<1>2. QED
  BY <1>1 DEF CountsAre
-----------------------------------------------------------------------------
\* An entry for frame f, which is the address space's own.
OwnEntry(e, f) == e \in Entries /\ e # None /\ e.frame = f /\ ~e.cow /\ e.cached = FALSE

\* New frames F for the pages S of a, which were not mapped.
LoadsAt(p, q, a, S, F) ==
    /\ \A v \in S : p[a][v] = None /\ OwnEntry(q[a][v], F[v])
    /\ \A b \in AS, v \in Page : b # a \/ v \notin S => q[b][v] = p[b][v]

LEMMA LoadKeeps ==
  ASSUME NEW p, NEW q \in PageTables, NEW r, NEW fr, NEW ca, Books(p, r, fr, ca),
         NEW a \in AS, NEW S \in SUBSET Page, NEW F \in [S -> fr], IsInjective(F),
         LoadsAt(p, q, a, S, F)
  PROVE  Books(q, r, fr \ Range(F), ca)
<1> USE DEF Books, BookTypes
<1>1. /\ p \in PageTables /\ Range(F) \subseteq fr /\ fr \subseteq Frame
      /\ \A v \in S : F[v] \in Frame /\ F[v] \in Range(F)
  BY DEF Range
<1>2. \A v \in S : /\ p[a][v] = None /\ q[a][v] # None
                   /\ q[a][v].frame = F[v] /\ ~q[a][v].cow /\ ~q[a][v].cached /\ q[a][v].cached = FALSE
  BY <1>1 DEF LoadsAt, OwnEntry, Entries
<1>3. \A b \in AS, v \in Page : b # a \/ v \notin S => q[b][v] = p[b][v]
  BY DEF LoadsAt
<1>4. \A f \in Range(F) : /\ Owners(p, f) = {} /\ Borrowers(p, f) = {} /\ ~InCache(ca, f)
                          /\ \E v \in S : F[v] = f /\ Owners(q, f) = {<<a, v>>}
                          /\ Borrowers(q, f) = {}
  <2> SUFFICES ASSUME NEW f \in Range(F)
               PROVE  /\ Owners(p, f) = {} /\ Borrowers(p, f) = {} /\ ~InCache(ca, f)
                      /\ \E v \in S : F[v] = f /\ Owners(q, f) = {<<a, v>>}
                      /\ Borrowers(q, f) = {}
    OBVIOUS
  <2>1. Owners(p, f) = {} /\ Borrowers(p, f) = {} /\ ~InCache(ca, f)
    BY <1>1 DEF Placed
  <2>2. PICK v \in S : F[v] = f
    BY DEF Range
  <2>3. \A b \in AS, u \in Page, c \in BOOLEAN : ~Maps(p, b, u, f, c)
    <3>1. \A c \in BOOLEAN : Holders(p, f, c) = {}
      BY <2>1 DEF Owners, Borrowers
    <3>2. QED
      BY <3>1, HoldersAt
  <2>4. \A b \in AS, u \in Page, c \in BOOLEAN : Maps(q, b, u, f, c) <=> b = a /\ u = v /\ c = FALSE
    <3> SUFFICES ASSUME NEW b \in AS, NEW u \in Page, NEW c \in BOOLEAN
                 PROVE  Maps(q, b, u, f, c) <=> b = a /\ u = v /\ c = FALSE
      OBVIOUS
    <3>1. CASE b = a /\ u \in S
      <4>1. F[u] = f <=> u = v
        BY <3>1, <2>2 DEF IsInjective
      <4>2. QED
        BY <3>1, <4>1, <2>2, <1>2, <1>1 DEF Maps
    <3>2. CASE ~(b = a /\ u \in S)
      BY <3>2, <1>3, <2>2, <2>3 DEF Maps
    <3>3. QED
      BY <3>1, <3>2
  <2>5. Owners(q, f) = {<<a, v>>}
    <3>1. <<a, v>> \in Holders(q, f, FALSE)
      BY <2>2, <2>4, HoldersAt
    <3>2. \A x \in Holders(q, f, FALSE) : x = <<a, v>>
      <4> TAKE x \in Holders(q, f, FALSE)
      <4>1. x[1] \in AS /\ x[2] \in Page /\ x = <<x[1], x[2]>> /\ Maps(q, x[1], x[2], f, FALSE)
        BY HoldersAt
      <4>2. QED
        BY <2>4, <4>1
    <3>3. QED
      BY <3>1, <3>2 DEF Owners
  <2>6. Borrowers(q, f) = {}
    <3> SUFFICES ASSUME NEW x \in Holders(q, f, TRUE) PROVE FALSE
      BY DEF Borrowers
    <3>1. x[1] \in AS /\ x[2] \in Page /\ Maps(q, x[1], x[2], f, TRUE)
      BY HoldersAt
    <3>2. QED
      BY <2>4, <3>1
  <2>7. QED
    BY <2>1, <2>2, <2>5, <2>6
<1>5. \A f \in Frame \ Range(F) : Owners(q, f) = Owners(p, f) /\ Borrowers(q, f) = Borrowers(p, f)
  <2> SUFFICES ASSUME NEW f \in Frame \ Range(F), NEW c \in BOOLEAN
               PROVE  Holders(q, f, c) = Holders(p, f, c)
    BY DEF Owners, Borrowers
  <2>1. \A b \in AS, u \in Page : Maps(q, b, u, f, c) <=> Maps(p, b, u, f, c)
    BY <1>1, <1>2, <1>3 DEF Maps
  <2>2. QED
    BY <2>1, HoldersSame
<1>6. CountsAre(q, r)
  <2>1. \A f \in Range(F) : r[f] = 0 /\ Cardinality(Owners(q, f)) = 1
    <3> TAKE f \in Range(F)
    <3>1. r[f] = 0
      BY <1>1, <1>4, UnownedIsUncounted
    <3>2. QED
      <4>1. PICK v \in S : Owners(q, f) = {<<a, v>>}
        BY <1>4
      <4>2. QED
        BY <3>1, <4>1, FS_Singleton
  <2>2. QED
    BY <2>1, <1>5 DEF CountsAre
<1>7. Placed(q, fr \ Range(F), ca)
  BY <1>1, <1>4, <1>5 DEF Placed
<1>8. LinesCount(q, ca)
  <2>1. \A i \in DOMAIN ca : ca[i].frame \in Frame
    <3>1. \A i \in DOMAIN ca : ca[i] \in LineType
      OBVIOUS
    <3>2. QED
      BY <3>1 DEF LineType
  <2>2. \A i \in DOMAIN ca : ca[i].frame \notin Range(F)
    BY <1>4 DEF InCache
  <2>3. QED
    BY <2>1, <2>2, <1>5 DEF LinesCount
<1>9. PrivateWrites(q)
  <2> SUFFICES ASSUME NEW b \in AS, NEW u \in Page, q[b][u] # None, q[b][u].rw
               PROVE  ~q[b][u].cached /\ Owners(q, q[b][u].frame) = {<<b, u>>}
    BY DEF PrivateWrites
  <2>1. CASE b = a /\ u \in S
    <3>1. <<b, u>> \in Owners(q, q[b][u].frame) /\ q[b][u].frame \in Range(F)
      <4>1. Maps(q, b, u, F[u], FALSE) /\ q[b][u].frame = F[u] /\ F[u] \in Range(F)
        BY <2>1, <1>1, <1>2 DEF Maps
      <4>2. QED
        BY <4>1, HoldersAt DEF Owners
    <3>2. QED
      BY <2>1, <3>1, <1>2, <1>4
  <2>2. CASE ~(b = a /\ u \in S)
    <3>1. q[b][u] = p[b][u]
      BY <2>2, <1>3
    <3>2. ~p[b][u].cached /\ Owners(p, p[b][u].frame) = {<<b, u>>}
      BY <3>1 DEF PrivateWrites
    <3>3. p[b][u].frame \in Frame /\ p[b][u].frame \notin Range(F)
      BY <3>1, <3>2, <1>1, <1>4, EntryOf
    <3>4. QED
      BY <3>1, <3>2, <3>3, <1>5
  <2>3. QED
    BY <2>1, <2>2
<1>10. OwnOnce(q)
  BY <1>4, <1>5 DEF OwnOnce
<1>11. CachedPlain(q)
  BY <1>2, <1>3 DEF CachedPlain
<1>12. QED
  BY <1>1, <1>6, <1>7, <1>8, <1>9, <1>10, <1>11
-----------------------------------------------------------------------------
\* The pages V of a are no longer mapped.
ClearedAt(p, q, a, V) ==
    /\ \A v \in V : q[a][v] = None
    /\ \A b \in AS, v \in Page : b # a \/ v \notin V => q[b][v] = p[b][v]

LEMMA OwnAndLent ==
  ASSUME pte \in PageTables, NEW a \in AS, NEW V \in SUBSET Page
  PROVE  /\ \A f : f \in Own(a, V) <=> \E v \in V : Maps(pte, a, v, f, FALSE)
         /\ \A f : Lent(a, V, f) = { v \in V : Maps(pte, a, v, f, TRUE) }
         /\ Own(a, V) \subseteq Frame
<1>1. \A v \in V : pte[a][v] # None => pte[a][v].cached \in BOOLEAN /\ pte[a][v].frame \in Frame
  BY EntryOf
<1>2. \A f : f \in Own(a, V) <=> \E v \in V : Maps(pte, a, v, f, FALSE)
  BY <1>1 DEF Own, Present, Maps
<1>3. \A f : Lent(a, V, f) = { v \in V : Maps(pte, a, v, f, TRUE) }
  BY <1>1 DEF Lent, Present, Maps
<1>4. QED
  BY <1>1, <1>2, <1>3 DEF Maps

\* As many borrowers go as there were pages that borrow.
LEMMA LentLeave ==
  ASSUME pte \in PageTables, NEW q, NEW a \in AS, NEW V \in SUBSET Page,
         ClearedAt(pte, q, a, V), NEW f
  PROVE  Cardinality(Borrowers(q, f)) = Cardinality(Borrowers(pte, f)) - Cardinality(Lent(a, V, f))
<1> DEFINE L == Lent(a, V, f)
<1> DEFINE B == Borrowers(pte, f)
<1>1. L = { v \in V : Maps(pte, a, v, f, TRUE) } /\ L \subseteq Page
  <2>1. \A g : Lent(a, V, g) = { v \in V : Maps(pte, a, v, g, TRUE) }
    BY OwnAndLent
  <2>2. L = { v \in V : Maps(pte, a, v, f, TRUE) }
    BY <2>1
  <2>3. QED
    BY <2>2
<1>2. IsFiniteSet(L) /\ Cardinality(L) \in Nat
  BY <1>1, SlotsAreFinite, FS_Subset, FS_CardinalityType
<1>3. Cardinality({a} \X L) = Cardinality(L)
  <2>1. IsFiniteSet({a}) /\ Cardinality({a}) = 1
    BY FS_Singleton
  <2>2. Cardinality({a} \X L) = 1 * Cardinality(L)
    BY <1>2, <2>1, FS_Product
  <2>3. QED
    BY <1>2, <2>2
<1>4. B \cap ({a} \X L) = {a} \X L
  <2>1. \A v \in L : <<a, v>> \in Borrowers(pte, f)
    BY <1>1, HoldersAt DEF Borrowers
  <2>2. \A w \in {a} \X L : w \in B
    BY <2>1
  <2>3. QED
    BY <2>2
<1>5. Borrowers(q, f) = B \ ({a} \X L)
  <2>1. \A b \in AS, v \in Page : Maps(q, b, v, f, TRUE) <=> Maps(pte, b, v, f, TRUE) /\ ~(b = a /\ v \in L)
    BY <1>1 DEF ClearedAt, Maps
  <2>2. \A b \in AS, v \in Page : <<b, v>> \in Borrowers(q, f) <=> <<b, v>> \in B \ ({a} \X L)
    BY <2>1, HoldersAt DEF Borrowers
  <2>3. Borrowers(q, f) \subseteq Slot /\ B \subseteq Slot
    BY DEF Borrowers, Holders
  <2>4. QED
    BY <2>2, <2>3 DEF Slot
<1>6. IsFiniteSet(B)
  BY HoldersAreFinite DEF Borrowers
<1> HIDE DEF L, B
<1>7. Cardinality(B \ ({a} \X L)) = Cardinality(B) - Cardinality(B \cap ({a} \X L))
  BY <1>6, FS_Difference
<1>8. Cardinality(Borrowers(q, f)) = Cardinality(B) - Cardinality(L)
  BY <1>3, <1>4, <1>5, <1>7
<1>9. QED
  BY <1>8 DEF L, B

LEMMA ClearKeeps ==
  ASSUME Books(pte, rc, free, cache), NEW a \in AS, NEW V \in SUBSET Page,
         NEW q \in PageTables, ClearedAt(pte, q, a, V)
  PROVE  /\ Books(q, Dropped(a, V), free \union Freed(a, V), Released(a, V))
         /\ Freed(a, V) \cap free = {} /\ Len(Released(a, V)) = Len(cache)
<1> USE DEF Books, BookTypes
<1>1. /\ \A f : f \in Own(a, V) <=> \E v \in V : Maps(pte, a, v, f, FALSE)
      /\ Own(a, V) \subseteq Frame
  BY OwnAndLent
<1>2. \A f \in Own(a, V) : \E w \in Owners(pte, f) : Owners(q, f) = Owners(pte, f) \ {w}
  <2> TAKE f \in Own(a, V)
  <2>1. PICK v \in V : Maps(pte, a, v, f, FALSE)
    BY <1>1
  <2>2. <<a, v>> \in Owners(pte, f) /\ f \in Frame
    BY <1>1, <2>1, HoldersAt DEF Owners
  <2>3. \A u \in Page : Maps(pte, a, u, f, FALSE) => u = v
    <3> TAKE u \in Page
    <3> HAVE Maps(pte, a, u, f, FALSE)
    <3>1. <<a, u>> \in Owners(pte, f)
      BY HoldersAt DEF Owners
    <3>2. <<a, u>> = <<a, v>>
      BY <2>2, <3>1 DEF OwnOnce
    <3>3. QED
      BY <3>2
  <2>4. \A b \in AS, u \in Page : Maps(q, b, u, f, FALSE) <=> Maps(pte, b, u, f, FALSE) /\ ~(b = a /\ u = v)
    BY <2>1, <2>3 DEF ClearedAt, Maps
  <2>5. \A b \in AS, u \in Page : <<b, u>> \in Owners(q, f) <=> <<b, u>> \in Owners(pte, f) \ {<<a, v>>}
    BY <2>4, HoldersAt DEF Owners
  <2>6. Owners(q, f) \subseteq Slot /\ Owners(pte, f) \subseteq Slot
    BY DEF Owners, Holders
  <2>7. Owners(q, f) = Owners(pte, f) \ {<<a, v>>}
    BY <2>5, <2>6 DEF Slot
  <2>8. QED
    BY <2>2, <2>7
<1>3. \A f : f \notin Own(a, V) => Owners(q, f) = Owners(pte, f)
  <2> TAKE f
  <2> HAVE f \notin Own(a, V)
  <2>1. \A b \in AS, u \in Page : Maps(q, b, u, f, FALSE) <=> Maps(pte, b, u, f, FALSE)
    BY <1>1 DEF ClearedAt, Maps
  <2>2. QED
    BY <2>1, OwnersSame
<1>4. \A f : Borrowers(q, f) \subseteq Borrowers(pte, f)
  <2> TAKE f
  <2>1. \A b \in AS, u \in Page : Maps(q, b, u, f, TRUE) => Maps(pte, b, u, f, TRUE)
    BY DEF ClearedAt, Maps
  <2>2. SUFFICES ASSUME NEW x \in Holders(q, f, TRUE) PROVE x \in Holders(pte, f, TRUE)
    BY DEF Borrowers
  <2>3. x[1] \in AS /\ x[2] \in Page /\ x = <<x[1], x[2]>> /\ Maps(q, x[1], x[2], f, TRUE)
    BY HoldersAt
  <2>4. <<x[1], x[2]>> \in Holders(pte, f, TRUE)
    BY <2>1, <2>3, HoldersAt
  <2>5. QED
    BY <2>3, <2>4
<1>5. \A f \in Own(a, V) :
         /\ rc[f] = 0 => Cardinality(Owners(pte, f)) = 1
         /\ rc[f] # 0 => Cardinality(Owners(pte, f)) = rc[f]
         /\ Cardinality(Owners(q, f)) = Cardinality(Owners(pte, f)) - 1
         /\ Cardinality(Owners(q, f)) = 0 <=> Owners(q, f) = {}
         /\ f \notin free /\ ~InCache(cache, f) /\ Borrowers(pte, f) = {}
  <2> TAKE f \in Own(a, V)
  <2>1. PICK w \in Owners(pte, f) : Owners(q, f) = Owners(pte, f) \ {w}
    BY <1>2
  <2>2. /\ IsFiniteSet(Owners(pte, f)) /\ Cardinality(Owners(pte, f)) \in Nat
        /\ IsFiniteSet(Owners(q, f)) /\ Cardinality(Owners(q, f)) \in Nat
    BY HoldersAreFinite DEF Owners
  <2>3. Cardinality(Owners(q, f)) = Cardinality(Owners(pte, f)) - 1
    BY <2>1, <2>2, FS_RemoveElement
  <2>4. f \in Frame /\ rc[f] \in Nat
    BY <1>1
  <2>5. IF rc[f] = 0 THEN Cardinality(Owners(pte, f)) <= 1 ELSE Cardinality(Owners(pte, f)) = rc[f]
    BY <2>4 DEF CountsAre
  <2>6. Cardinality(Owners(q, f)) = 0 <=> Owners(q, f) = {}
    BY <2>2, FS_EmptySet
  <2>7. f \notin free /\ ~InCache(cache, f) /\ Borrowers(pte, f) = {}
    BY <2>1, <2>4 DEF Placed
  <2>8. QED
    BY <2>2, <2>3, <2>4, <2>5, <2>6, <2>7
<1>6. CountsAre(q, Dropped(a, V)) /\ Dropped(a, V) \in [Frame -> Nat]
  <2>1. ASSUME NEW f \in Own(a, V), f \in Frame
        PROVE  /\ IF Dropped(a, V)[f] = 0 THEN Cardinality(Owners(q, f)) <= 1
                  ELSE Cardinality(Owners(q, f)) = Dropped(a, V)[f]
               /\ Dropped(a, V)[f] \in Nat
    BY <2>1, <1>5 DEF Dropped
  <2>2. \A f \in Frame \ Own(a, V) : Dropped(a, V)[f] = rc[f] /\ Dropped(a, V)[f] \in Nat
    BY DEF Dropped
  <2>3. Dropped(a, V) \in [Frame -> Nat]
    BY <2>1, <2>2 DEF Dropped
  <2>4. QED
    BY <2>1, <2>2, <2>3, <1>3 DEF CountsAre
<1>7. /\ \A f : InCache(Released(a, V), f) <=> InCache(cache, f)
      /\ DOMAIN Released(a, V) = DOMAIN cache
      /\ \A i \in DOMAIN cache : /\ Released(a, V)[i].frame = cache[i].frame
                                 /\ Released(a, V)[i].key = cache[i].key
                                 /\ Released(a, V)[i].refs = cache[i].refs - Cardinality(Lent(a, V, cache[i].frame))
                                 /\ Released(a, V)[i] = [cache[i] EXCEPT !.refs = cache[i].refs - Cardinality(Lent(a, V, cache[i].frame))]
  <2>1. \A i \in DOMAIN cache : cache[i] \in LineType
    OBVIOUS
  <2>2. QED
    BY <2>1 DEF Released, InCache, LineType
<1>8. Placed(q, free \union Freed(a, V), Released(a, V))
  <2> SUFFICES ASSUME NEW f \in Frame
               PROVE  /\ f \in free \union Freed(a, V) => Owners(q, f) = {} /\ ~InCache(cache, f)
                      /\ f \notin free \union Freed(a, V) => (InCache(cache, f) <=> Owners(q, f) = {})
                      /\ ~InCache(cache, f) => Borrowers(q, f) = {}
    BY <1>7 DEF Placed
  <2>1. CASE f \in Own(a, V)
    <3>1. f \in Freed(a, V) <=> rc[f] <= 1
      BY <2>1 DEF Freed
    <3>2. rc[f] \in Nat
      OBVIOUS
    <3>3. Owners(q, f) = {} <=> rc[f] <= 1
      BY <2>1, <3>2, <1>5
    <3>4. QED
      BY <2>1, <3>1, <3>3, <1>4, <1>5
  <2>2. CASE f \notin Own(a, V)
    BY <2>2, <1>3, <1>4 DEF Placed, Freed
  <2>3. QED
    BY <2>1, <2>2
<1>9. LinesCount(q, Released(a, V)) /\ Released(a, V) \in Seq(LineType)
  <2>1. ASSUME NEW i \in DOMAIN cache
        PROVE  /\ Released(a, V)[i].refs = Cardinality(Borrowers(q, Released(a, V)[i].frame))
               /\ Released(a, V)[i].refs \in Nat
    <3>1. cache[i].refs = Cardinality(Borrowers(pte, cache[i].frame))
      BY DEF LinesCount
    <3>2. Cardinality(Borrowers(q, cache[i].frame)) = Cardinality(Borrowers(pte, cache[i].frame)) - Cardinality(Lent(a, V, cache[i].frame))
      BY LentLeave
    <3>3. Cardinality(Borrowers(q, cache[i].frame)) \in Nat
      BY HoldersAreFinite DEF Borrowers
    <3>4. QED
      BY <3>1, <3>2, <3>3, <1>7
  <2>2. \A i \in DOMAIN cache : Released(a, V)[i] \in LineType
    <3> TAKE i \in DOMAIN cache
    <3>1. cache[i] \in LineType
      OBVIOUS
    <3>2. QED
      BY <2>1, <3>1, <1>7 DEF LineType
  <2>3. Released(a, V) \in Seq(LineType)
    <3>1. Len(cache) \in Nat /\ DOMAIN cache = 1 .. Len(cache)
      OBVIOUS
    <3>2. Released(a, V) \in [1 .. Len(cache) -> LineType]
      BY <2>2, <3>1 DEF Released
    <3>3. QED
      BY <3>1, <3>2, SeqDef
  <2>4. QED
    BY <2>1, <2>3, <1>7 DEF LinesCount
<1>10. LinesApart(Released(a, V))
  BY <1>7 DEF LinesApart
<1>11. PrivateWrites(q)
  <2> SUFFICES ASSUME NEW b \in AS, NEW u \in Page, q[b][u] # None, q[b][u].rw
               PROVE  ~q[b][u].cached /\ Owners(q, q[b][u].frame) = {<<b, u>>}
    BY DEF PrivateWrites
  <2>1. q[b][u] = pte[b][u]
    BY DEF ClearedAt
  <2>2. ~q[b][u].cached /\ Owners(pte, q[b][u].frame) = {<<b, u>>}
    BY <2>1 DEF PrivateWrites
  <2>3. q[b][u].cached = FALSE
    BY <2>2, EntryOf
  <2>4. <<b, u>> \in Owners(q, q[b][u].frame)
    BY <2>3, HoldersAt DEF Owners, Maps
  <2>5. Owners(q, q[b][u].frame) \subseteq Owners(pte, q[b][u].frame)
    BY <1>2, <1>3
  <2>6. QED
    BY <2>2, <2>4, <2>5
<1>12. OwnOnce(q)
  <2>1. \A f : Owners(q, f) \subseteq Owners(pte, f)
    BY <1>2, <1>3
  <2>2. QED
    BY <2>1 DEF OwnOnce
<1>13. CachedPlain(q)
  BY DEF CachedPlain, ClearedAt
<1>14. free \union Freed(a, V) \subseteq Frame /\ Freed(a, V) \cap free = {}
  BY <1>1, <1>5 DEF Freed
<1>15. Len(Released(a, V)) = Len(cache)
  BY <1>7, <1>9
<1>16. QED
  BY <1>6, <1>8, <1>9, <1>10, <1>11, <1>12, <1>13, <1>14, <1>15
-----------------------------------------------------------------------------
\* The lines of a cache without its i-th.
LEMMA RemoveAtFacts ==
  ASSUME NEW S, NEW s \in Seq(S), NEW i \in DOMAIN s
  PROVE  /\ RemoveAt(s, i) \in Seq(S) /\ Len(RemoveAt(s, i)) = Len(s) - 1
         /\ \A j \in 1 .. Len(s) - 1 : RemoveAt(s, i)[j] = IF j < i THEN s[j] ELSE s[j + 1]
<1>1. i \in 1 .. Len(s) /\ Len(s) \in Nat
  OBVIOUS
<1>2. /\ SubSeq(s, 1, i - 1) \in Seq(S) /\ Len(SubSeq(s, 1, i - 1)) = i - 1
      /\ \A j \in 1 .. i - 1 : SubSeq(s, 1, i - 1)[j] = s[j]
  BY <1>1, SubSeqProperties
<1>3. /\ SubSeq(s, i + 1, Len(s)) \in Seq(S) /\ Len(SubSeq(s, i + 1, Len(s))) = Len(s) - i
      /\ \A j \in 1 .. Len(s) - i : SubSeq(s, i + 1, Len(s))[j] = s[i + j]
  BY <1>1, SubSeqProperties
<1> DEFINE u == SubSeq(s, 1, i - 1)
<1> DEFINE w == SubSeq(s, i + 1, Len(s))
<1> HIDE DEF u, w
<1>4. RemoveAt(s, i) = u \o w
  BY DEF RemoveAt, u, w
<1>5. /\ u \in Seq(S) /\ w \in Seq(S) /\ Len(u) = i - 1 /\ Len(w) = Len(s) - i
      /\ \A j \in 1 .. i - 1 : u[j] = s[j]
      /\ \A j \in 1 .. Len(s) - i : w[j] = s[i + j]
  BY <1>2, <1>3 DEF u, w
<1>6. /\ u \o w \in Seq(S) /\ Len(u \o w) = Len(u) + Len(w)
      /\ \A j \in 1 .. Len(u) + Len(w) : (u \o w)[j] = IF j <= Len(u) THEN u[j] ELSE w[j - Len(u)]
  BY <1>5, ConcatProperties
<1>7. ASSUME NEW j \in 1 .. Len(s) - 1
      PROVE  (u \o w)[j] = IF j < i THEN s[j] ELSE s[j + 1]
  <2>1. j \in 1 .. Len(u) + Len(w) /\ (j <= Len(u) <=> j < i)
    BY <1>1, <1>5
  <2>2. CASE j < i
    <3>1. (u \o w)[j] = u[j]
      BY <2>1, <2>2, <1>6
    <3>2. j \in 1 .. i - 1
      BY <2>2, <1>1
    <3>3. QED
      BY <2>2, <3>1, <3>2, <1>5
  <2>3. CASE ~(j < i)
    <3>1. (u \o w)[j] = w[j - Len(u)]
      BY <2>1, <2>3, <1>6
    <3>2. j - Len(u) \in 1 .. Len(s) - i /\ i + (j - Len(u)) = j + 1
      BY <2>3, <1>1, <1>5
    <3>3. QED
      BY <2>3, <3>1, <3>2, <1>5
  <2>4. QED
    BY <2>2, <2>3
<1>8. Len(u \o w) = Len(s) - 1
  BY <1>1, <1>5, <1>6
<1>9. QED
  BY <1>4, <1>6, <1>7, <1>8

\* Every other line is still there, once.
LEMMA OtherLines ==
  ASSUME NEW ca \in Seq(LineType), NEW i \in DOMAIN ca
  PROVE  /\ RemoveAt(ca, i) \in Seq(LineType)
         /\ \A j \in DOMAIN RemoveAt(ca, i) : \E k \in DOMAIN ca : k # i /\ RemoveAt(ca, i)[j] = ca[k]
         /\ \A k \in DOMAIN ca : k # i => \E j \in DOMAIN RemoveAt(ca, i) : RemoveAt(ca, i)[j] = ca[k]
         /\ LinesApart(ca) => LinesApart(RemoveAt(ca, i))
<1> DEFINE t == RemoveAt(ca, i)
<1>1. /\ t \in Seq(LineType) /\ Len(t) = Len(ca) - 1
      /\ \A j \in 1 .. Len(ca) - 1 : t[j] = IF j < i THEN ca[j] ELSE ca[j + 1]
  BY RemoveAtFacts
<1>2. i \in 1 .. Len(ca) /\ Len(ca) \in Nat /\ DOMAIN ca = 1 .. Len(ca) /\ DOMAIN t = 1 .. Len(ca) - 1
  BY <1>1
<1> HIDE DEF t
<1>3. \A j \in DOMAIN t : \E k \in DOMAIN ca : k # i /\ t[j] = ca[k]
  <2> TAKE j \in DOMAIN t
  <2>1. CASE j < i
    BY <2>1, <1>1, <1>2
  <2>2. CASE ~(j < i)
    <3>1. j + 1 \in DOMAIN ca /\ j + 1 # i /\ t[j] = ca[j + 1]
      BY <2>2, <1>1, <1>2
    <3>2. QED
      BY <3>1
  <2>3. QED
    BY <2>1, <2>2
<1>4. \A k \in DOMAIN ca : k # i => \E j \in DOMAIN t : t[j] = ca[k]
  <2> TAKE k \in DOMAIN ca
  <2> HAVE k # i
  <2>1. CASE k < i
    BY <2>1, <1>1, <1>2
  <2>2. CASE k > i
    <3>1. k - 1 \in DOMAIN t /\ t[k - 1] = ca[k]
      BY <2>2, <1>1, <1>2
    <3>2. QED
      BY <3>1
  <2>3. QED
    BY <2>1, <2>2, <1>2
<1>5. ASSUME LinesApart(ca) PROVE LinesApart(t)
  <2> SUFFICES ASSUME NEW j \in DOMAIN t, NEW m \in DOMAIN t, t[j].frame = t[m].frame PROVE j = m
    BY DEF LinesApart
  <2>1. t[j] = ca[IF j < i THEN j ELSE j + 1] /\ t[m] = ca[IF m < i THEN m ELSE m + 1]
    BY <1>1, <1>2
  <2>2. (IF j < i THEN j ELSE j + 1) \in DOMAIN ca /\ (IF m < i THEN m ELSE m + 1) \in DOMAIN ca
    BY <1>2
  <2>3. (IF j < i THEN j ELSE j + 1) = (IF m < i THEN m ELSE m + 1)
    BY <1>5, <2>1, <2>2 DEF LinesApart
  <2>4. QED
    BY <2>3, <1>2
<1>6. QED
  BY <1>1, <1>3, <1>4, <1>5 DEF t

\* The lines of a cache with one more.
LEMMA AppendLine ==
  ASSUME NEW ca \in Seq(LineType), NEW x \in LineType
  PROVE  /\ Append(ca, x) \in Seq(LineType)
         /\ \A j \in DOMAIN Append(ca, x) : \/ j \in DOMAIN ca /\ Append(ca, x)[j] = ca[j]
                                            \/ j = Len(ca) + 1 /\ Append(ca, x)[j] = x
         /\ \A j \in DOMAIN ca : j \in DOMAIN Append(ca, x) /\ Append(ca, x)[j] = ca[j]
         /\ Len(ca) + 1 \in DOMAIN Append(ca, x) /\ Append(ca, x)[Len(ca) + 1] = x
         /\ LinesApart(ca) /\ ~InCache(ca, x.frame) => LinesApart(Append(ca, x))
         /\ \A f : InCache(Append(ca, x), f) <=> InCache(ca, f) \/ f = x.frame
<1> DEFINE t == Append(ca, x)
<1>1. /\ t \in Seq(LineType) /\ DOMAIN t = 1 .. Len(ca) + 1 /\ t[Len(ca) + 1] = x
      /\ \A j \in 1 .. Len(ca) : t[j] = ca[j]
      /\ Len(ca) \in Nat /\ DOMAIN ca = 1 .. Len(ca)
  OBVIOUS
<1> HIDE DEF t
<1>2. \A j \in DOMAIN t : \/ j \in DOMAIN ca /\ t[j] = ca[j]
                          \/ j = Len(ca) + 1 /\ t[j] = x
  BY <1>1
<1>3. /\ \A j \in DOMAIN ca : j \in DOMAIN t /\ t[j] = ca[j]
      /\ Len(ca) + 1 \in DOMAIN t
  BY <1>1
<1>4. ASSUME LinesApart(ca), ~InCache(ca, x.frame) PROVE LinesApart(t)
  BY <1>2, <1>4 DEF LinesApart, InCache
<1>5. \A f : InCache(t, f) <=> InCache(ca, f) \/ f = x.frame
  BY <1>1, <1>2, <1>3 DEF InCache
<1>6. QED
  BY <1>1, <1>2, <1>3, <1>4, <1>5 DEF t

\* A line that nobody borrows leaves the cache and its frame is free.
LEMMA EvictKeeps ==
  ASSUME NEW p, NEW r, NEW fr, NEW ca, Books(p, r, fr, ca), NEW i \in DOMAIN ca, ca[i].refs = 0
  PROVE  /\ Books(p, r, fr \union {ca[i].frame}, RemoveAt(ca, i))
         /\ Lines(ca) \ Lines(RemoveAt(ca, i)) = {ca[i].frame}
<1> USE DEF Books, BookTypes
<1> DEFINE t == RemoveAt(ca, i)
<1> DEFINE g == ca[i].frame
<1>1. /\ t \in Seq(LineType) /\ LinesApart(t)
      /\ \A j \in DOMAIN t : \E k \in DOMAIN ca : k # i /\ t[j] = ca[k]
      /\ \A k \in DOMAIN ca : k # i => \E j \in DOMAIN t : t[j] = ca[k]
  BY OtherLines
<1>2. \A k \in DOMAIN ca : ca[k] \in LineType /\ ca[k].frame \in Frame
  <2>1. \A k \in DOMAIN ca : ca[k] \in LineType
    OBVIOUS
  <2>2. QED
    BY <2>1 DEF LineType
<1>3. g \in Frame /\ InCache(ca, g) /\ g \notin fr /\ Owners(p, g) = {}
  <2>1. g \in Frame /\ InCache(ca, g)
    BY <1>2 DEF InCache
  <2>2. QED
    BY <2>1 DEF Placed
<1>4. Borrowers(p, g) = {}
  <2>1. Cardinality(Borrowers(p, g)) = 0
    BY DEF LinesCount
  <2>2. IsFiniteSet(Borrowers(p, g))
    BY HoldersAreFinite DEF Borrowers
  <2>3. QED
    BY <2>1, <2>2, FS_EmptySet
<1> HIDE DEF t
<1>5. \A f : InCache(t, f) <=> InCache(ca, f) /\ f # g
  <2> TAKE f
  <2>1. InCache(t, f) => InCache(ca, f) /\ f # g
    BY <1>1 DEF InCache, LinesApart
  <2>2. InCache(ca, f) /\ f # g => InCache(t, f)
    BY <1>1 DEF InCache
  <2>3. QED
    BY <2>1, <2>2
<1> HIDE DEF g
<1>6. Placed(p, fr \union {g}, t)
  BY <1>3, <1>4, <1>5 DEF Placed
<1>7. LinesCount(p, t)
  BY <1>1 DEF LinesCount
<1>8. \A f : f \in Lines(ca) <=> InCache(ca, f)
  BY DEF Lines, InCache
<1>9. \A f : f \in Lines(t) <=> InCache(t, f)
  BY DEF Lines, InCache
<1>10. Lines(ca) \ Lines(t) = {g}
  BY <1>3, <1>5, <1>8, <1>9
<1>11. QED
  BY <1>1, <1>3, <1>6, <1>7, <1>10 DEF t, g

\* Page v of a borrows frame f.
BorrowsAt(p, q, a, v, f) ==
    /\ p[a][v] = None
    /\ q[a][v] # None /\ q[a][v].frame = f /\ q[a][v].cached = TRUE /\ ~q[a][v].rw /\ ~q[a][v].cow
    /\ \A b \in AS, u \in Page : b # a \/ u # v => q[b][u] = p[b][u]

\* The lines t are those of ca with one more borrower of f.
Lends(p, ca, t, f) ==
    /\ t \in Seq(LineType) /\ LinesApart(t)
    /\ \A g : InCache(t, g) <=> InCache(ca, g) \/ g = f
    /\ \A j \in DOMAIN t :
          \/ t[j].frame = f /\ t[j].refs = Cardinality(Borrowers(p, f)) + 1
          \/ t[j].frame # f /\ \E k \in DOMAIN ca : t[j] = ca[k]

LEMMA BorrowKeeps ==
  ASSUME NEW p, NEW q \in PageTables, NEW r, NEW fr, NEW ca, Books(p, r, fr, ca),
         NEW a \in AS, NEW v \in Page, NEW f \in Frame, BorrowsAt(p, q, a, v, f),
         NEW t, Lends(p, ca, t, f), f \in fr \/ InCache(ca, f)
  PROVE  Books(q, r, fr \ {f}, t)
<1> USE DEF Books, BookTypes
<1>1. Owners(p, f) = {}
  BY DEF Placed
<1>2. \A b \in AS, u \in Page : q[b][u] # p[b][u] => b = a /\ u = v
  BY DEF BorrowsAt
<1>3. \A g : Owners(q, g) = Owners(p, g)
  <2> TAKE g
  <2>1. \A b \in AS, u \in Page : Maps(q, b, u, g, FALSE) <=> Maps(p, b, u, g, FALSE)
    BY DEF BorrowsAt, Maps
  <2>2. QED
    BY <2>1, OwnersSame
<1>4. \A g : g # f => Borrowers(q, g) = Borrowers(p, g)
  <2> TAKE g
  <2> HAVE g # f
  <2>1. \A b \in AS, u \in Page : Maps(q, b, u, g, TRUE) <=> Maps(p, b, u, g, TRUE)
    BY DEF BorrowsAt, Maps
  <2>2. QED
    BY <2>1, BorrowersSame
<1>5. Borrowers(q, f) = Borrowers(p, f) \union {<<a, v>>} /\ <<a, v>> \notin Borrowers(p, f)
  <2>1. \A b \in AS, u \in Page : Maps(q, b, u, f, TRUE) <=> Maps(p, b, u, f, TRUE) \/ (b = a /\ u = v)
    BY DEF BorrowsAt, Maps
  <2>2. ~Maps(p, a, v, f, TRUE)
    BY DEF BorrowsAt, Maps
  <2>3. \A b \in AS, u \in Page : <<b, u>> \in Borrowers(q, f) <=> <<b, u>> \in Borrowers(p, f) \union {<<a, v>>}
    BY <2>1, HoldersAt DEF Borrowers
  <2>4. Borrowers(q, f) \subseteq Slot /\ Borrowers(p, f) \union {<<a, v>>} \subseteq Slot
    <3>1. Borrowers(q, f) \subseteq Slot /\ Borrowers(p, f) \subseteq Slot
      BY DEF Borrowers, Holders
    <3>2. <<a, v>> \in Slot
      BY DEF Slot
    <3>3. QED
      BY <3>1, <3>2
  <2>5. Borrowers(q, f) = Borrowers(p, f) \union {<<a, v>>}
    BY <2>3, <2>4 DEF Slot
  <2>6. QED
    BY <2>2, <2>5, HoldersAt DEF Borrowers
<1>6. Cardinality(Borrowers(q, f)) = Cardinality(Borrowers(p, f)) + 1
  <2>1. IsFiniteSet(Borrowers(p, f))
    BY HoldersAreFinite DEF Borrowers
  <2>2. QED
    BY <1>5, <2>1, FS_AddElement
<1>7. CountsAre(q, r)
  BY <1>3 DEF CountsAre
<1>8. Placed(q, fr \ {f}, t)
  BY <1>1, <1>3, <1>4 DEF Placed, Lends
<1>9. LinesCount(q, t)
  BY <1>4, <1>6 DEF LinesCount, Lends
<1>10. PrivateWrites(q)
  <2> SUFFICES ASSUME NEW b \in AS, NEW u \in Page, q[b][u] # None, q[b][u].rw
               PROVE  ~q[b][u].cached /\ Owners(q, q[b][u].frame) = {<<b, u>>}
    BY DEF PrivateWrites
  <2>1. q[b][u] = p[b][u]
    BY <1>2 DEF BorrowsAt
  <2>2. QED
    BY <2>1, <1>3 DEF PrivateWrites
<1>11. OwnOnce(q)
  BY <1>3 DEF OwnOnce
<1>12. CachedPlain(q)
  BY DEF CachedPlain, BorrowsAt
<1>13. QED
  BY <1>7, <1>8, <1>9, <1>10, <1>11, <1>12 DEF Lends

LEMMA CountedLine ==
  ASSUME NEW e \in LineType
  PROVE  /\ [e EXCEPT !.refs = @ + 1] \in LineType
         /\ [e EXCEPT !.refs = @ + 1].key = e.key /\ [e EXCEPT !.refs = @ + 1].frame = e.frame
         /\ [e EXCEPT !.refs = @ + 1].refs = e.refs + 1
BY DEF LineType

\* A hit in the page cache.
LEMMA HitLends ==
  ASSUME NEW p, NEW r, NEW fr, NEW ca, Books(p, r, fr, ca), NEW i \in DOMAIN ca,
         NEW x, x = [ca[i] EXCEPT !.refs = @ + 1]
  PROVE  Lends(p, ca, Append(RemoveAt(ca, i), x), ca[i].frame)
<1> USE DEF Books, BookTypes
<1> DEFINE t == RemoveAt(ca, i)
<1>1. ca[i] \in LineType
  OBVIOUS
<1>2. /\ x \in LineType /\ x.frame = ca[i].frame
      /\ x.refs = Cardinality(Borrowers(p, ca[i].frame)) + 1
  <2>1. ca[i].refs = Cardinality(Borrowers(p, ca[i].frame))
    BY DEF LinesCount
  <2>2. ca[i] \in [key : Nat, frame : Frame, refs : Nat]
    BY <1>1 DEF LineType
  <2>3. x \in LineType /\ x.frame = ca[i].frame /\ x.refs = ca[i].refs + 1
    BY <1>1, CountedLine
  <2>4. QED
    BY <2>1, <2>2, <2>3
<1>3. /\ t \in Seq(LineType) /\ LinesApart(t)
      /\ \A j \in DOMAIN t : \E k \in DOMAIN ca : k # i /\ t[j] = ca[k]
      /\ \A k \in DOMAIN ca : k # i => \E j \in DOMAIN t : t[j] = ca[k]
  BY OtherLines
<1> HIDE DEF t
<1>4. \A j \in DOMAIN t : t[j].frame # ca[i].frame
  BY <1>3 DEF LinesApart
<1>5. /\ Append(t, x) \in Seq(LineType) /\ LinesApart(Append(t, x))
      /\ \A g : InCache(Append(t, x), g) <=> InCache(t, g) \/ g = x.frame
      /\ \A j \in DOMAIN Append(t, x) : \/ j \in DOMAIN t /\ Append(t, x)[j] = t[j]
                                        \/ Append(t, x)[j] = x
  <2>1. ~InCache(t, x.frame)
    BY <1>2, <1>4 DEF InCache
  <2>2. t \in Seq(LineType) /\ x \in LineType /\ LinesApart(t)
    BY <1>2, <1>3
  <2> HIDE DEF Books, BookTypes
  <2>3. QED
    BY ONLY <2>1, <2>2, AppendLine
<1>6. \A g : InCache(ca, g) \/ g = x.frame <=> InCache(t, g) \/ g = x.frame
  BY <1>2, <1>3 DEF InCache
<1>7. \A j \in DOMAIN Append(t, x) :
          \/ Append(t, x)[j] = x
          \/ Append(t, x)[j].frame # x.frame /\ \E k \in DOMAIN ca : Append(t, x)[j] = ca[k]
  BY <1>2, <1>3, <1>4, <1>5
<1>8. QED
  BY <1>2, <1>5, <1>6, <1>7 DEF Lends, t

\* A page that was read into frame f.
LEMMA MissLends ==
  ASSUME NEW p, NEW r, NEW fr, NEW ca, Books(p, r, fr, ca), NEW f \in fr, NEW k \in Nat
  PROVE  Lends(p, ca, Append(ca, Line(k, f, 1)), f)
<1> USE DEF Books, BookTypes
<1> DEFINE x == Line(k, f, 1)
<1>1. x \in LineType /\ x.frame = f /\ x.refs = 1
  BY DEF LineType, Line
<1>2. ~InCache(ca, f) /\ Borrowers(p, f) = {}
  BY DEF Placed
<1>3. Cardinality(Borrowers(p, f)) = 0
  BY <1>2, FS_EmptySet
<1> HIDE DEF x
<1>4. /\ Append(ca, x) \in Seq(LineType) /\ LinesApart(Append(ca, x))
      /\ \A g : InCache(Append(ca, x), g) <=> InCache(ca, g) \/ g = x.frame
      /\ \A j \in DOMAIN Append(ca, x) : \/ j \in DOMAIN ca /\ Append(ca, x)[j] = ca[j]
                                         \/ Append(ca, x)[j] = x
  BY <1>1, <1>2, AppendLine
<1>5. \A j \in DOMAIN ca : ca[j].frame # f
  BY <1>2 DEF InCache
<1>6. QED
  BY <1>1, <1>3, <1>4, <1>5 DEF Lends, x
-----------------------------------------------------------------------------
\* The entries of q are those of p, but for what may be done through them.
SameFrames(p, q) ==
    \A a \in AS, v \in Page :
        /\ q[a][v] # None <=> p[a][v] # None
        /\ p[a][v] # None => q[a][v].frame = p[a][v].frame /\ q[a][v].cached = p[a][v].cached

\* One owner may be counted as none or as one.
SameCounts(p, r, l) ==
    \A f \in Frame : \/ l[f] = r[f]
                     \/ l[f] = 0 /\ r[f] = 1
                     \/ l[f] = 1 /\ r[f] = 0 /\ Owners(p, f) # {}

LEMMA SameFramesKeep ==
  ASSUME NEW p, NEW q \in PageTables, NEW r, NEW fr, NEW ca, Books(p, r, fr, ca),
         SameFrames(p, q), NEW l \in [Frame -> Nat], SameCounts(p, r, l),
         CachedPlain(q),
         \A a \in AS, v \in Page : q[a][v] # None /\ q[a][v].rw =>
             ~q[a][v].cached /\ Owners(p, q[a][v].frame) = {<<a, v>>}
  PROVE  Books(q, l, fr, ca)
<1> USE DEF Books, BookTypes
<1>1. \A f : Owners(q, f) = Owners(p, f) /\ Borrowers(q, f) = Borrowers(p, f)
  <2> TAKE f
  <2>1. \A a \in AS, v \in Page : Maps(q, a, v, f, FALSE) <=> Maps(p, a, v, f, FALSE)
    BY DEF SameFrames, Maps
  <2>2. \A a \in AS, v \in Page : Maps(q, a, v, f, TRUE) <=> Maps(p, a, v, f, TRUE)
    BY DEF SameFrames, Maps
  <2>3. QED
    BY <2>1, <2>2, OwnersSame, BorrowersSame
<1>2. CountsAre(q, l)
  <2> SUFFICES ASSUME NEW f \in Frame
               PROVE  IF l[f] = 0 THEN Cardinality(Owners(p, f)) <= 1 ELSE Cardinality(Owners(p, f)) = l[f]
    BY <1>1 DEF CountsAre
  <2>1. IF r[f] = 0 THEN Cardinality(Owners(p, f)) <= 1 ELSE Cardinality(Owners(p, f)) = r[f]
    BY DEF CountsAre
  <2>2. IsFiniteSet(Owners(p, f)) /\ Cardinality(Owners(p, f)) \in Nat
    BY HoldersAreFinite DEF Owners
  <2>3. Owners(p, f) # {} => Cardinality(Owners(p, f)) # 0
    BY <2>2, FS_EmptySet
  <2>4. QED
    BY <2>1, <2>2, <2>3 DEF SameCounts
<1>3. Placed(q, fr, ca) /\ LinesCount(q, ca) /\ OwnOnce(q) /\ PrivateWrites(q)
  BY <1>1 DEF Placed, LinesCount, OwnOnce, PrivateWrites
<1>4. QED
  BY <1>2, <1>3

\* After a fork b owns what a owns, and neither may write to it.
SharesAt(p, q, a, b) ==
    /\ a # b /\ \A v \in Page : p[b][v] = None
    /\ \A v \in Page :
          IF p[a][v] # None /\ ~p[a][v].cached
          THEN /\ q[a][v] # None /\ q[a][v].frame = p[a][v].frame /\ q[a][v].cached = FALSE /\ ~q[a][v].rw
               /\ q[b][v] = q[a][v]
          ELSE q[a][v] = p[a][v] /\ q[b][v] = None
    /\ \A d \in AS \ {a, b} : \A v \in Page : q[d][v] = p[d][v]

LEMMA ShareKeeps ==
  ASSUME Books(pte, rc, free, cache), NEW a \in AS, NEW b \in AS,
         NEW q \in PageTables, SharesAt(pte, q, a, b),
         NEW l, l = [f \in Frame |-> IF f \in Own(a, Page) THEN Shared(f) ELSE rc[f]]
  PROVE  Books(q, l, free, cache)
<1> USE DEF Books, BookTypes
<1>1. /\ \A f : f \in Own(a, Page) <=> \E v \in Page : Maps(pte, a, v, f, FALSE)
      /\ Own(a, Page) \subseteq Frame
  BY OwnAndLent
<1>2. \A f : Borrowers(q, f) = Borrowers(pte, f)
  <2> TAKE f
  <2>1. \A d \in AS, u \in Page : Maps(q, d, u, f, TRUE) <=> Maps(pte, d, u, f, TRUE)
    <3> TAKE d \in AS, u \in Page
    <3>1. CASE d = a
      BY <3>1 DEF SharesAt, Maps
    <3>2. CASE d = b
      BY <3>2 DEF SharesAt, Maps
    <3>3. CASE d # a /\ d # b
      BY <3>3 DEF SharesAt, Maps
    <3>4. QED
      BY <3>1, <3>2, <3>3
  <2>2. QED
    BY <2>1, BorrowersSame
<1>3. \A d \in AS, u \in Page, f \in Frame :
         Maps(q, d, u, f, FALSE) <=> \/ Maps(pte, d, u, f, FALSE)
                                     \/ d = b /\ Maps(pte, a, u, f, FALSE)
  <2> TAKE d \in AS, u \in Page, f \in Frame
  <2>1. pte[a][u] # None => pte[a][u].cached \in BOOLEAN
    BY EntryOf
  <2>2. CASE d = a
    BY <2>1, <2>2 DEF SharesAt, Maps
  <2>3. CASE d = b
    BY <2>1, <2>3 DEF SharesAt, Maps
  <2>4. CASE d # a /\ d # b
    BY <2>4 DEF SharesAt, Maps
  <2>5. QED
    BY <2>2, <2>3, <2>4
<1>4. \A f \in Frame : f \notin Own(a, Page) => Owners(q, f) = Owners(pte, f)
  BY <1>1, <1>3, OwnersSame
<1>5. \A f \in Own(a, Page) : \E v \in Page : /\ <<a, v>> \in Owners(pte, f)
                                              /\ <<b, v>> \notin Owners(pte, f)
                                              /\ Owners(q, f) = Owners(pte, f) \union {<<b, v>>}
  <2> TAKE f \in Own(a, Page)
  <2>1. PICK v \in Page : Maps(pte, a, v, f, FALSE)
    BY <1>1
  <2>2. f \in Frame
    BY <1>1
  <2>3. <<a, v>> \in Owners(pte, f)
    BY <2>1, HoldersAt DEF Owners
  <2>4. \A u \in Page : Maps(pte, a, u, f, FALSE) => u = v
    <3> TAKE u \in Page
    <3> HAVE Maps(pte, a, u, f, FALSE)
    <3>1. <<a, u>> \in Owners(pte, f)
      BY HoldersAt DEF Owners
    <3>2. <<a, u>> = <<a, v>>
      BY <2>2, <2>3, <3>1 DEF OwnOnce
    <3>3. QED
      BY <3>2
  <2>5. \A u \in Page : ~Maps(pte, b, u, f, FALSE)
    BY DEF SharesAt, Maps
  <2>6. <<b, v>> \notin Owners(pte, f)
    BY <2>5, HoldersAt DEF Owners
  <2>7. \A d \in AS, u \in Page :
            <<d, u>> \in Owners(q, f) <=> <<d, u>> \in Owners(pte, f) \union {<<b, v>>}
    <3> TAKE d \in AS, u \in Page
    <3>1. Maps(q, d, u, f, FALSE) <=> Maps(pte, d, u, f, FALSE) \/ (d = b /\ u = v)
      BY <2>1, <2>2, <2>4, <1>3
    <3>2. QED
      BY <3>1, HoldersAt DEF Owners
  <2>8. Owners(q, f) \subseteq Slot /\ Owners(pte, f) \subseteq Slot /\ <<b, v>> \in Slot
    BY DEF Owners, Holders, Slot
  <2>9. Owners(q, f) = Owners(pte, f) \union {<<b, v>>}
    BY <2>7, <2>8 DEF Slot
  <2>10. QED
    BY <2>3, <2>6, <2>9
<1>6. CountsAre(q, l) /\ l \in [Frame -> Nat]
  <2>1. ASSUME NEW f \in Frame, f \in Own(a, Page)
        PROVE  l[f] \in Nat /\ l[f] # 0 /\ Cardinality(Owners(q, f)) = l[f]
    <3>1. PICK v \in Page : /\ <<a, v>> \in Owners(pte, f) /\ <<b, v>> \notin Owners(pte, f)
                            /\ Owners(q, f) = Owners(pte, f) \union {<<b, v>>}
      BY <2>1, <1>5
    <3>2. IsFiniteSet(Owners(pte, f)) /\ Cardinality(Owners(pte, f)) \in Nat
      BY HoldersAreFinite DEF Owners
    <3>3. Cardinality(Owners(pte, f)) # 0
      BY <3>1, <3>2, FS_EmptySet
    <3>4. Cardinality(Owners(q, f)) = Cardinality(Owners(pte, f)) + 1
      <4>1. Cardinality(Owners(pte, f) \union {<<b, v>>}) = Cardinality(Owners(pte, f)) + 1
        BY <3>1, <3>2, FS_AddElement, Zenon
      <4>2. QED
        BY <3>1, <4>1
    <3>5. IF rc[f] = 0 THEN Cardinality(Owners(pte, f)) <= 1 ELSE Cardinality(Owners(pte, f)) = rc[f]
      BY DEF CountsAre
    <3>6. l[f] = IF rc[f] = 0 THEN 2 ELSE rc[f] + 1
      BY <2>1 DEF Shared
    <3>7. rc[f] \in Nat
      OBVIOUS
    <3>8. QED
      BY <3>2, <3>3, <3>4, <3>5, <3>6, <3>7
  <2>2. \A f \in Frame : f \notin Own(a, Page) => l[f] = rc[f] /\ l[f] \in Nat
    OBVIOUS
  <2>3. l \in [Frame -> Nat]
    BY <2>1, <2>2
  <2>4. \A f \in Frame : IF l[f] = 0 THEN Cardinality(Owners(q, f)) <= 1 ELSE Cardinality(Owners(q, f)) = l[f]
    <3> TAKE f \in Frame
    <3>1. CASE f \in Own(a, Page)
      BY <2>1, <3>1
    <3>2. CASE f \notin Own(a, Page)
      BY <2>2, <3>2, <1>4 DEF CountsAre
    <3>3. QED
      BY <3>1, <3>2
  <2>5. QED
    BY <2>3, <2>4 DEF CountsAre
<1>7. \A f \in Frame : Owners(q, f) = {} <=> Owners(pte, f) = {}
  BY <1>4, <1>5
<1>8. Placed(q, free, cache) /\ LinesCount(q, cache)
  <2>1. Placed(q, free, cache)
    BY <1>2, <1>7 DEF Placed
  <2>2. QED
    BY <2>1, <1>2 DEF LinesCount
<1>9. PrivateWrites(q)
  <2> SUFFICES ASSUME NEW d \in AS, NEW u \in Page, q[d][u] # None, q[d][u].rw
               PROVE  ~q[d][u].cached /\ Owners(q, q[d][u].frame) = {<<d, u>>}
    BY DEF PrivateWrites
  <2>1. d # a /\ d # b /\ q[d][u] = pte[d][u]
    BY DEF SharesAt, PrivateWrites
  <2>2. ~q[d][u].cached /\ Owners(pte, q[d][u].frame) = {<<d, u>>} /\ q[d][u].frame \in Frame
    BY <2>1, EntryOf DEF PrivateWrites
  <2>3. \A v \in Page : <<a, v>> \notin Owners(pte, q[d][u].frame)
    BY <2>1, <2>2
  <2>4. q[d][u].frame \notin Own(a, Page)
    BY <2>3, <1>5
  <2>5. QED
    BY <2>2, <2>4, <1>4
<1>10. OwnOnce(q)
  <2> SUFFICES ASSUME NEW f \in Frame, NEW w \in Owners(q, f), NEW x \in Owners(q, f), w[1] = x[1]
               PROVE  w = x
    BY DEF OwnOnce
  <2>1. CASE f \notin Own(a, Page)
    BY <2>1, <1>4 DEF OwnOnce
  <2>2. CASE f \in Own(a, Page)
    <3>1. PICK v \in Page : Owners(q, f) = Owners(pte, f) \union {<<b, v>>}
      BY <2>2, <1>5
    <3>2. \A y \in Owners(pte, f) : y[1] # b
      <4> TAKE y \in Owners(pte, f)
      <4>1. y[1] \in AS /\ y[2] \in Page /\ Maps(pte, y[1], y[2], f, FALSE)
        BY HoldersAt DEF Owners
      <4>2. QED
        BY <4>1 DEF SharesAt, Maps
    <3>3. <<b, v>>[1] = b
      OBVIOUS
    <3>4. QED
      BY <3>1, <3>2, <3>3 DEF OwnOnce
  <2>3. QED
    BY <2>1, <2>2
<1>11. CachedPlain(q)
  BY DEF CachedPlain, SharesAt
<1>12. QED
  BY <1>6, <1>8, <1>9, <1>10, <1>11
-----------------------------------------------------------------------------
\* A free struct is as address_space_create leaves it; the running address space is in use.
FreshWhenFree ==
    /\ \A a \in AS : refs[a] = 0 =>
          /\ \A v \in Page : pte[a][v] = None
          /\ brk[a] = HeapBase /\ vmas[a] = {} /\ mmapBrk[a] = MmapBase
    /\ cur # None => refs[cur] > 0

RestTypes ==
    /\ refs \in [AS -> Nat]
    /\ brk \in [AS -> HeapBase .. HeapMax]
    /\ vmas \in [AS -> SUBSET Regions]
    /\ mmapBrk \in [AS -> MmapBase .. MmapMax]
    /\ cur \in AS \union {None}
    /\ tlb \in [Page -> Entries \union {None}]
    /\ content \in [Frame -> Value]
    /\ Len(cache) <= CacheSlots

BooksNow == Books(pte, rc, free, cache)

FramesInv == BooksNow /\ RestTypes /\ FreshWhenFree /\ TlbSound

LEMMA NumberFacts ==
  /\ HeapBase \in Nat /\ HeapMax \in Nat /\ MmapBase \in Nat /\ MmapMax \in Nat /\ CacheSlots \in Nat
  /\ HeapBase <= HeapMax /\ HeapMax <= MmapBase /\ MmapBase <= MmapMax
  /\ None \notin AS /\ None \notin Value /\ None \notin Entries /\ Zero \in Value
  /\ Key \subseteq Nat /\ FileData \in [Key -> Value] /\ Written \subseteq Value
BY AddressSpacesAssumption

LEMMA FramesStart == Init => FramesInv
<1> SUFFICES ASSUME Init PROVE FramesInv
  OBVIOUS
<1> USE DEF Init
<1>1. pte \in PageTables /\ \A a \in AS, v \in Page : pte[a][v] = None
  BY DEF PageTables, NoPages
<1>2. \A f, c : Holders(pte, f, c) = {}
  BY <1>1 DEF Holders, Slot, Maps
<1>3. \A f : Owners(pte, f) = {} /\ Borrowers(pte, f) = {}
  BY <1>2 DEF Owners, Borrowers
<1>4. CountsAre(pte, rc)
  <2>1. Cardinality({}) = 0
    BY FS_EmptySet
  <2>2. \A f \in Frame : rc[f] = 0 /\ Cardinality(Owners(pte, f)) = 0
    BY <1>3, <2>1
  <2>3. QED
    BY <2>2 DEF CountsAre
<1>5. cache \in Seq(LineType) /\ DOMAIN cache = {} /\ Len(cache) = 0
  OBVIOUS
<1>6. BooksNow
  BY <1>1, <1>3, <1>4, <1>5 DEF BooksNow, Books, BookTypes, Placed, InCache, LinesApart, LinesCount,
     PrivateWrites, OwnOnce, CachedPlain
<1>7. RestTypes
  BY <1>5, NumberFacts DEF RestTypes, Flushed, NoPages
<1>8. FreshWhenFree /\ TlbSound
  BY <1>1 DEF FreshWhenFree, TlbSound, Flushed, NoPages
<1>9. QED
  BY <1>6, <1>7, <1>8 DEF FramesInv

\* What the run checks follows.
LEMMA FramesInvSuffices == FramesInv => FramesExact /\ TlbSound
<1> SUFFICES ASSUME FramesInv PROVE FramesExact
  BY DEF FramesInv
<1> USE DEF FramesInv, BooksNow, Books, BookTypes
<1>1. TypeOK
  BY DEF TypeOK, RestTypes, PageTables, LineType
<1>2. \A f : Mapped(f, FALSE) = Owners(pte, f) /\ Mapped(f, TRUE) = Borrowers(pte, f)
  BY DEF Mapped, Owners, Borrowers, Holders, Slot, Maps
<1>3. RefcountExact
  BY <1>2 DEF RefcountExact, CountsAre
<1>4. FramesAccounted
  <2> SUFFICES ASSUME NEW f \in Frame
               PROVE  LET lines == { i \in DOMAIN cache : cache[i].frame = f }
                      IN  /\ f \in free => lines = {} /\ Mapped(f, TRUE) = {} /\ Mapped(f, FALSE) = {}
                          /\ f \notin free => (lines = {}) = (Mapped(f, FALSE) # {})
                          /\ Mapped(f, TRUE) # {} => lines # {}
                          /\ \A i \in lines : lines = {i} /\ cache[i].refs = Cardinality(Mapped(f, TRUE))
    BY DEF FramesAccounted
  <2> DEFINE lines == { i \in DOMAIN cache : cache[i].frame = f }
  <2>1. lines = {} <=> ~InCache(cache, f)
    BY DEF InCache
  <2>2. \A i \in lines : lines = {i}
    BY DEF LinesApart
  <2>3. \A i \in lines : cache[i].refs = Cardinality(Mapped(f, TRUE))
    BY <1>2 DEF LinesCount
  <2>4. /\ f \in free => lines = {} /\ Mapped(f, TRUE) = {} /\ Mapped(f, FALSE) = {}
        /\ f \notin free => ((lines = {}) <=> (Mapped(f, FALSE) # {}))
        /\ Mapped(f, TRUE) # {} => lines # {}
    BY <1>2, <2>1 DEF Placed
  <2> HIDE DEF lines
  <2>5. f \notin free => (lines = {}) = (Mapped(f, FALSE) # {})
    BY <2>4
  <2>6. QED
    BY <2>2, <2>3, <2>4, <2>5 DEF lines
<1>5. WritableIsPrivate
  <2> SUFFICES ASSUME NEW a \in AS, NEW v \in Page,
                      pte[a][v] # None, pte[a][v].rw
               PROVE  Mapped(pte[a][v].frame, FALSE) \subseteq {<<a, v>>} /\ Mapped(pte[a][v].frame, TRUE) = {}
    BY DEF WritableIsPrivate, TlbSound
  <2>1. Owners(pte, pte[a][v].frame) = {<<a, v>>} /\ pte[a][v].frame \in Frame
    BY EntryOf DEF PrivateWrites
  <2>2. Borrowers(pte, pte[a][v].frame) = {}
    BY <2>1 DEF Placed
  <2>3. QED
    BY <2>1, <2>2, <1>2
<1>6. QED
  BY <1>1, <1>3, <1>4, <1>5 DEF FramesExact
-----------------------------------------------------------------------------
\* A step that leaves the books alone.
LEMMA BooksUntouched ==
  ASSUME BooksNow, UNCHANGED <<pte, rc, free, cache>>
  PROVE  BooksNow'
BY DEF BooksNow

LEMMA TableTypes == BooksNow => pte \in PageTables
BY DEF BooksNow, Books, BookTypes

LEMMA ClearMoves ==
  ASSUME BooksNow, NEW a \in AS, NEW V \in SUBSET Page, Clear(a, V)
  PROVE  /\ BooksNow' /\ Len(cache') = Len(cache) /\ content' = content
         /\ pte' \in PageTables /\ ClearedAt(pte, pte', a, V)
<1>1. pte \in PageTables
  BY TableTypes
<1>2. Without(a, V) \in [Page -> Entries \union {None}]
  BY <1>1 DEF Without, PageTables
<1>3. pte' \in PageTables
  BY <1>1, <1>2 DEF Clear, PageTables
<1>4. ClearedAt(pte, pte', a, V)
  BY <1>1 DEF Clear, ClearedAt, Without, PageTables
<1>5. /\ Books(pte', Dropped(a, V), free \union Freed(a, V), Released(a, V))
      /\ Len(Released(a, V)) = Len(cache)
  BY <1>3, <1>4, ClearKeeps DEF BooksNow
<1>6. QED
  BY <1>3, <1>4, <1>5 DEF Clear, BooksNow

LEMMA NewEntry ==
  ASSUME NEW f \in Frame
  PROVE  OwnEntry(Entry(f, TRUE, FALSE, FALSE), f)
<1>1. Entry(f, TRUE, FALSE, FALSE) \in Entries /\ Entry(f, TRUE, FALSE, FALSE).frame = f
  BY DEF Entry, Entries
<1>2. ~Entry(f, TRUE, FALSE, FALSE).cow /\ Entry(f, TRUE, FALSE, FALSE).cached = FALSE
  BY DEF Entry
<1>3. QED
  BY <1>1, <1>2, NumberFacts DEF OwnEntry

\* The image of a program.
LEMMA LoadedFacts ==
  ASSUME NEW F \in [Image -> Frame]
  PROVE  /\ Loaded(F) \in [Page -> Entries \union {None}]
         /\ \A v \in Image : v \in Page /\ OwnEntry(Loaded(F)[v], F[v])
         /\ \A v \in Page : v \notin Image => Loaded(F)[v] = None
<1>1. Image \subseteq Page
  BY DEF Page
<1>2. \A f \in Frame : OwnEntry(Entry(f, TRUE, FALSE, FALSE), f)
  BY NewEntry
<1>3. \A v \in Image : Loaded(F)[v] = Entry(F[v], TRUE, FALSE, FALSE) /\ F[v] \in Frame
  BY <1>1 DEF Loaded
<1>4. \A v \in Page : v \notin Image => Loaded(F)[v] = None
  BY DEF Loaded
<1>5. Loaded(F) \in [Page -> Entries \union {None}]
  BY <1>2, <1>3, <1>4 DEF Loaded, OwnEntry
<1>6. QED
  BY <1>1, <1>2, <1>3, <1>4, <1>5

LEMMA ZeroedType == ASSUME NEW S, content \in [Frame -> Value] PROVE Zeroed(S) \in [Frame -> Value]
BY NumberFacts DEF Zeroed

LEMMA SpawnKeeps ==
  ASSUME FramesInv, NEW a \in AS, Spawn(a)
  PROVE  /\ FramesInv'
         /\ \E F \in [Image -> free] : /\ LoadsAt(pte, pte', a, Image, F)
                                      /\ content' = Zeroed(Range(F))
<1> USE DEF FramesInv
<1>1. PICK F \in [Image -> free] :
         /\ IsInjective(F)
         /\ pte' = [pte EXCEPT ![a] = Loaded(F)]
         /\ free' = free \ Range(F)
         /\ content' = Zeroed(Range(F))
  BY DEF Spawn, Loads
<1>2. refs[a] = 0 /\ \A v \in Page : pte[a][v] = None
  BY DEF Spawn, FreshWhenFree
<1>3. pte \in PageTables /\ free \subseteq Frame
  BY DEF BooksNow, Books, BookTypes
<1>4. F \in [Image -> Frame]
  BY <1>3
<1>5. /\ Loaded(F) \in [Page -> Entries \union {None}]
      /\ \A v \in Image : v \in Page /\ OwnEntry(Loaded(F)[v], F[v])
      /\ \A v \in Page : v \notin Image => Loaded(F)[v] = None
  BY <1>4, LoadedFacts
<1>6. pte' \in PageTables /\ pte'[a] = Loaded(F) /\ \A b \in AS : b # a => pte'[b] = pte[b]
  BY <1>1, <1>3, <1>5 DEF PageTables
<1>7. LoadsAt(pte, pte', a, Image, F)
  BY <1>2, <1>5, <1>6 DEF LoadsAt
<1>8. Image \in SUBSET Page
  BY <1>5
<1>9. BooksNow'
  <2>1. Books(pte', rc, free \ Range(F), cache)
    BY <1>1, <1>6, <1>7, <1>8, LoadKeeps DEF BooksNow
  <2>2. QED
    BY <1>1, <2>1 DEF Spawn, BooksNow
<1>10. RestTypes'
  BY <1>1, ZeroedType DEF RestTypes, Spawn
<1>11. FreshWhenFree'
  BY <1>6 DEF FreshWhenFree, Spawn, RestTypes
<1>12. TlbSound'
  BY <1>2, <1>6 DEF TlbSound, FreshWhenFree, Spawn, RestTypes
<1>13. QED
  BY <1>1, <1>7, <1>9, <1>10, <1>11, <1>12

LEMMA ExecKeeps ==
  ASSUME FramesInv, NEW b \in AS, Exec(b)
  PROVE  /\ FramesInv' /\ cur \in AS /\ b # cur /\ \A v \in Page : pte[b][v] = None
         /\ \E p, F : /\ ClearedAt(pte, p, cur, IF refs[cur] = 1 THEN Page ELSE {})
                     /\ F \in [Image -> free] /\ LoadsAt(p, pte', b, Image, F)
                     /\ content' = Zeroed(Range(F))
         /\ \A a \in AS : /\ a # cur => vmas'[a] = vmas[a] /\ mmapBrk'[a] = mmapBrk[a]
                          /\ refs[cur] = 1 => vmas'[cur] = {}
                          /\ refs[cur] # 1 => vmas'[cur] = vmas[cur] /\ mmapBrk'[cur] = mmapBrk[cur]
<1> USE DEF FramesInv
<1> DEFINE gone == IF refs[cur] = 1 THEN Page ELSE {}
<1> DEFINE p == [pte EXCEPT ![cur] = Without(cur, gone)]
<1>1. PICK F \in [Image -> free] :
         /\ IsInjective(F)
         /\ pte' = [pte EXCEPT ![b] = Loaded(F), ![cur] = Without(cur, gone)]
         /\ free' = (free \ Range(F)) \union Freed(cur, gone)
         /\ content' = Zeroed(Range(F))
  BY DEF Exec, Loads
<1>2. /\ cur \in AS /\ refs[b] = 0 /\ refs[cur] > 0 /\ refs[cur] \in Nat /\ b # cur
      /\ \A v \in Page : pte[b][v] = None
  BY DEF Exec, FreshWhenFree, RestTypes
<1>3. pte \in PageTables /\ free \subseteq Frame
  BY DEF BooksNow, Books, BookTypes
<1>4. F \in [Image -> Frame]
  BY <1>3
<1>5. /\ Loaded(F) \in [Page -> Entries \union {None}]
      /\ \A v \in Image : v \in Page /\ OwnEntry(Loaded(F)[v], F[v])
      /\ \A v \in Page : v \notin Image => Loaded(F)[v] = None
  BY <1>4, LoadedFacts
<1>6. gone \in SUBSET Page
  OBVIOUS
<1>7. Without(cur, gone) \in [Page -> Entries \union {None}]
  BY <1>2, <1>3 DEF Without, PageTables
<1>8. /\ p \in PageTables /\ p[cur] = Without(cur, gone) /\ \A a \in AS : a # cur => p[a] = pte[a]
  BY <1>2, <1>3, <1>7 DEF PageTables
<1>9. /\ pte' \in PageTables /\ pte'[cur] = Without(cur, gone) /\ pte'[b] = Loaded(F)
      /\ \A a \in AS : a # cur /\ a # b => pte'[a] = pte[a]
  BY <1>1, <1>2, <1>3, <1>5, <1>7 DEF PageTables
<1> HIDE DEF gone, p
<1>10. ClearedAt(pte, p, cur, gone)
  BY <1>3, <1>6, <1>8 DEF ClearedAt, Without
<1>11. /\ Books(p, Dropped(cur, gone), free \union Freed(cur, gone), Released(cur, gone))
       /\ Freed(cur, gone) \cap free = {} /\ Len(Released(cur, gone)) = Len(cache)
  BY <1>2, <1>6, <1>8, <1>10, ClearKeeps DEF BooksNow
<1>12. LoadsAt(p, pte', b, Image, F)
  BY <1>2, <1>5, <1>8, <1>9 DEF LoadsAt
<1>13. Image \in SUBSET Page /\ F \in [Image -> free \union Freed(cur, gone)]
  BY <1>5
<1>14. Books(pte', Dropped(cur, gone), (free \union Freed(cur, gone)) \ Range(F), Released(cur, gone))
  BY <1>1, <1>9, <1>11, <1>12, <1>13, LoadKeeps
<1>15. (free \union Freed(cur, gone)) \ Range(F) = (free \ Range(F)) \union Freed(cur, gone)
  BY <1>11 DEF Range
<1>16. /\ rc' = Dropped(cur, gone) /\ cache' = Released(cur, gone)
       /\ refs' = [refs EXCEPT ![b] = 1, ![cur] = @ - 1]
       /\ Reset(cur, refs[cur] = 1) /\ cur' = b /\ tlb' = Flushed
  BY <1>2 DEF Exec, Activate, gone
<1>17. BooksNow'
  BY <1>1, <1>14, <1>15, <1>16 DEF BooksNow
<1>18. /\ refs' \in [AS -> Nat] /\ refs'[b] = 1 /\ refs'[cur] = refs[cur] - 1
       /\ \A a \in AS : a # b /\ a # cur => refs'[a] = refs[a]
  BY <1>2, <1>16 DEF RestTypes
<1>19. /\ \A a \in AS : a # cur => brk'[a] = brk[a] /\ vmas'[a] = vmas[a] /\ mmapBrk'[a] = mmapBrk[a]
       /\ brk'[cur] = IF refs[cur] = 1 THEN HeapBase ELSE brk[cur]
       /\ vmas'[cur] = IF refs[cur] = 1 THEN {} ELSE vmas[cur]
       /\ mmapBrk'[cur] = IF refs[cur] = 1 THEN MmapBase ELSE mmapBrk[cur]
       /\ brk' \in [AS -> HeapBase .. HeapMax] /\ mmapBrk' \in [AS -> MmapBase .. MmapMax]
       /\ vmas' \in [AS -> SUBSET Regions]
  BY <1>2, <1>16, NumberFacts DEF Reset, RestTypes

<1>20. RestTypes'
  BY <1>1, <1>11, <1>16, <1>18, <1>19, ZeroedType DEF RestTypes, Flushed, NoPages
<1>21. FreshWhenFree'
  <2>1. ASSUME NEW a \in AS, refs'[a] = 0
        PROVE  /\ \A v \in Page : pte'[a][v] = None
               /\ brk'[a] = HeapBase /\ vmas'[a] = {} /\ mmapBrk'[a] = MmapBase
    <3>1. CASE a = cur
      <4>1. refs[cur] = 1
        BY <2>1, <3>1, <1>2, <1>18
      <4>2. QED
        BY <3>1, <4>1, <1>9, <1>19 DEF gone, Without
    <3>2. CASE a # cur
      <4>1. a # b /\ refs[a] = 0
        BY <2>1, <3>2, <1>18
      <4>2. QED
        BY <3>2, <4>1, <1>9, <1>19 DEF FreshWhenFree
    <3>3. QED
      BY <3>1, <3>2
  <2>2. QED
    BY <2>1, <1>16, <1>18 DEF FreshWhenFree
<1>22. TlbSound'
  BY <1>16 DEF TlbSound, Flushed, NoPages
<1>23. ClearedAt(pte, p, cur, IF refs[cur] = 1 THEN Page ELSE {})
  BY <1>10 DEF gone
<1>24. FramesInv'
  BY <1>17, <1>20, <1>21, <1>22
<1>25. QED
  BY <1>1, <1>2, <1>12, <1>19, <1>23, <1>24

LEMMA ShareRefKeeps ==
  ASSUME FramesInv, Share
  PROVE  FramesInv'
<1>1. BooksNow'
  BY BooksUntouched DEF FramesInv, Share, frames
<1>2. cur \in AS /\ refs' = [refs EXCEPT ![cur] = refs[cur] + 1] /\ refs \in [AS -> Nat]
  BY DEF FramesInv, RestTypes, Share
<1>3. refs' \in [AS -> Nat] /\ \A a \in AS : refs'[a] = IF a = cur THEN refs[a] + 1 ELSE refs[a]
  BY <1>2
<1>4. \A a \in AS : refs'[a] = 0 => refs[a] = 0
  BY <1>2, <1>3
<1>5. RestTypes' /\ FreshWhenFree' /\ TlbSound'
  BY <1>2, <1>3, <1>4 DEF FramesInv, RestTypes, FreshWhenFree, TlbSound, Share, frames
<1>6. QED
  BY <1>1, <1>5 DEF FramesInv

LEMMA DestroyKeeps ==
  ASSUME FramesInv, NEW a \in AS, Destroy(a)
  PROVE  /\ FramesInv' /\ ClearedAt(pte, pte', a, IF refs[a] = 1 THEN Page ELSE {})
         /\ \A b \in AS : b # a => vmas'[b] = vmas[b] /\ mmapBrk'[b] = mmapBrk[b]
         /\ refs[a] = 1 => vmas'[a] = {}
         /\ refs[a] # 1 => vmas'[a] = vmas[a] /\ mmapBrk'[a] = mmapBrk[a]
<1> USE DEF FramesInv
<1> DEFINE V == IF refs[a] = 1 THEN Page ELSE {}
<1>1. /\ refs[a] \in Nat /\ refs[a] > 0 /\ (a = cur => refs[a] > 1)
      /\ refs' = [refs EXCEPT ![a] = refs[a] - 1] /\ Clear(a, V) /\ Reset(a, refs[a] = 1)
      /\ cur' = cur /\ tlb' = tlb
  BY DEF Destroy, RestTypes
<1>2. /\ BooksNow' /\ Len(cache') = Len(cache) /\ content' = content
      /\ pte' \in PageTables /\ ClearedAt(pte, pte', a, V)
  BY <1>1, ClearMoves
<1>3. /\ refs' \in [AS -> Nat] /\ refs'[a] = refs[a] - 1
      /\ \A b \in AS : b # a => refs'[b] = refs[b]
  BY <1>1 DEF RestTypes
<1>4. /\ \A b \in AS : b # a => brk'[b] = brk[b] /\ vmas'[b] = vmas[b] /\ mmapBrk'[b] = mmapBrk[b]
      /\ brk'[a] = IF refs[a] = 1 THEN HeapBase ELSE brk[a]
      /\ vmas'[a] = IF refs[a] = 1 THEN {} ELSE vmas[a]
      /\ mmapBrk'[a] = IF refs[a] = 1 THEN MmapBase ELSE mmapBrk[a]
      /\ brk' \in [AS -> HeapBase .. HeapMax] /\ mmapBrk' \in [AS -> MmapBase .. MmapMax]
      /\ vmas' \in [AS -> SUBSET Regions]
  BY <1>1, NumberFacts DEF Reset, RestTypes
<1>5. RestTypes'
  BY <1>1, <1>2, <1>3, <1>4 DEF RestTypes
<1>6. FreshWhenFree'
  <2>1. ASSUME NEW b \in AS, refs'[b] = 0
        PROVE  /\ \A v \in Page : pte'[b][v] = None
               /\ brk'[b] = HeapBase /\ vmas'[b] = {} /\ mmapBrk'[b] = MmapBase
    <3>1. CASE b = a
      BY <2>1, <3>1, <1>1, <1>2, <1>3, <1>4 DEF ClearedAt
    <3>2. CASE b # a
      <4>1. /\ \A v \in Page : pte[b][v] = None
            /\ brk[b] = HeapBase /\ vmas[b] = {} /\ mmapBrk[b] = MmapBase
        BY <2>1, <3>2, <1>3 DEF FreshWhenFree
      <4>2. \A v \in Page : pte'[b][v] = pte[b][v]
        BY <3>2, <1>2 DEF ClearedAt
      <4>3. QED
        BY <3>2, <4>1, <4>2, <1>4
    <3>3. QED
      BY <3>1, <3>2
  <2>2. cur' # None => refs'[cur'] > 0
    BY <1>1, <1>3 DEF FreshWhenFree, RestTypes
  <2>3. QED
    BY <2>1, <2>2 DEF FreshWhenFree
<1>7. TlbSound'
  <2> SUFFICES ASSUME NEW v \in Page, tlb[v] # None
               PROVE  cur # None /\ tlb[v] = pte'[cur][v]
    BY <1>1 DEF TlbSound
  <2>1. cur \in AS /\ cur # None /\ tlb[v] = pte[cur][v]
    BY DEF TlbSound, RestTypes
  <2>2. cur # a \/ v \notin V
    BY <1>1
  <2>3. pte'[cur][v] = pte[cur][v]
    BY <2>1, <2>2, <1>2 DEF ClearedAt
  <2>4. QED
    BY <2>1, <2>3
<1>8. QED
  BY <1>2, <1>4, <1>5, <1>6, <1>7

LEMMA SwitchKeeps ==
  ASSUME FramesInv, NEW a \in AS \union {None}, Switch(a)
  PROVE  FramesInv'
<1>1. BooksNow'
  BY BooksUntouched DEF FramesInv, Switch, frames
<1>2. RestTypes' /\ FreshWhenFree'
  BY DEF FramesInv, RestTypes, FreshWhenFree, Switch, Activate, spaces, frames, Flushed, NoPages
<1>3. TlbSound'
  BY DEF TlbSound, Switch, Activate, Flushed, NoPages
<1>4. QED
  BY <1>1, <1>2, <1>3 DEF FramesInv

LEMMA CowFacts ==
  ASSUME NEW e \in Entries
  PROVE  /\ Cow(e) \in Entries /\ Cow(e) # None
         /\ Cow(e).frame = e.frame /\ Cow(e).cached = FALSE /\ ~Cow(e).rw
<1>1. Cow(e) \in Entries /\ Cow(e).frame = e.frame
  BY DEF Cow, Entry, Entries
<1>2. Cow(e).cached = FALSE /\ ~Cow(e).rw
  BY DEF Cow, Entry
<1>3. QED
  BY <1>1, <1>2, NumberFacts

LEMMA ForkKeeps ==
  ASSUME FramesInv, NEW b \in AS, Fork(b)
  PROVE  FramesInv' /\ cur \in AS /\ refs[b] = 0 /\ SharesAt(pte, pte', cur, b)
<1> USE DEF FramesInv
<1> DEFINE S == Shareable(cur)
<1>1. /\ cur \in AS /\ cur # None /\ refs[b] = 0 /\ refs[cur] > 0 /\ b # cur
      /\ \A v \in Page : pte[b][v] = None
  BY DEF Fork, FreshWhenFree, RestTypes
<1>2. pte \in PageTables
  BY TableTypes
<1>3. \A v \in Page : v \in S <=> pte[cur][v] # None /\ ~pte[cur][v].cached
  BY DEF Shareable, Present
<1>4. \A v \in Page : pte[cur][v] # None => pte[cur][v] \in Entries
  BY <1>1, <1>2, EntryOf
<1>5. \A v \in S : /\ Cow(pte[cur][v]) \in Entries /\ Cow(pte[cur][v]) # None
                   /\ Cow(pte[cur][v]).frame = pte[cur][v].frame
                   /\ Cow(pte[cur][v]).cached = FALSE /\ ~Cow(pte[cur][v]).rw
  <2> TAKE v \in S
  <2>1. pte[cur][v] \in Entries
    BY <1>3, <1>4 DEF Shareable, Present
  <2>2. QED
    BY <2>1, CowFacts
<1>6. pte' = [pte EXCEPT
                 ![cur] = [v \in Page |-> IF v \in S THEN Cow(pte[cur][v]) ELSE pte[cur][v]],
                 ![b] = [v \in Page |-> IF v \in S THEN Cow(pte[cur][v]) ELSE None]]
  BY DEF Fork
<1> HIDE DEF S
<1>7. /\ pte' \in PageTables
      /\ \A v \in Page : pte'[cur][v] = IF v \in S THEN Cow(pte[cur][v]) ELSE pte[cur][v]
      /\ \A v \in Page : pte'[b][v] = IF v \in S THEN Cow(pte[cur][v]) ELSE None
      /\ \A a \in AS : a # cur /\ a # b => pte'[a] = pte[a]
  <2>1. [v \in Page |-> IF v \in S THEN Cow(pte[cur][v]) ELSE pte[cur][v]] \in [Page -> Entries \union {None}]
    BY <1>1, <1>2, <1>5 DEF PageTables
  <2>2. [v \in Page |-> IF v \in S THEN Cow(pte[cur][v]) ELSE None] \in [Page -> Entries \union {None}]
    BY <1>5
  <2>3. QED
    BY <1>1, <1>2, <1>6, <2>1, <2>2 DEF PageTables
<1>8. SharesAt(pte, pte', cur, b)
  BY <1>1, <1>3, <1>5, <1>7 DEF SharesAt
<1>9. BooksNow'
  <2>1. rc' = [f \in Frame |-> IF f \in Own(cur, Page) THEN Shared(f) ELSE rc[f]]
    BY DEF Fork
  <2>2. Books(pte', rc', free, cache)
    BY <1>1, <1>7, <1>8, <2>1, ShareKeeps DEF BooksNow
  <2>3. QED
    BY <2>2 DEF BooksNow, Fork
<1>10. /\ refs' \in [AS -> Nat] /\ refs'[b] = 1 /\ \A a \in AS : a # b => refs'[a] = refs[a]
       /\ brk' \in [AS -> HeapBase .. HeapMax] /\ \A a \in AS : a # b => brk'[a] = brk[a]
  BY <1>1 DEF Fork, RestTypes
<1>11. RestTypes'
  BY <1>10 DEF RestTypes, Fork, Flushed, NoPages
<1>12. FreshWhenFree'
  BY <1>1, <1>7, <1>10 DEF FreshWhenFree, Fork
<1>13. TlbSound'
  BY DEF TlbSound, Fork, Flushed, NoPages
<1>14. QED
  BY <1>1, <1>8, <1>9, <1>11, <1>12, <1>13

LEMMA ForkFailsKeeps ==
  ASSUME FramesInv, NEW w \in Page, ForkFails(w)
  PROVE  FramesInv' /\ SameFrames(pte, pte')
<1> USE DEF FramesInv
<1> DEFINE S == { v \in Shareable(cur) : v < w }
<1>1. cur \in AS /\ cur # None
  BY DEF ForkFails, RestTypes
<1>2. pte \in PageTables /\ rc \in [Frame -> Nat] /\ Books(pte, rc, free, cache)
  BY DEF BooksNow, Books, BookTypes
<1>3. \A v \in S : v \in Page /\ pte[cur][v] # None /\ ~pte[cur][v].cached
  BY DEF Shareable, Present
<1>4. \A v \in S : /\ pte[cur][v] \in Entries /\ pte[cur][v].frame \in Frame /\ pte[cur][v].cached = FALSE
  <2> TAKE v \in S
  <2>1. pte[cur][v] \in Entries /\ pte[cur][v].frame \in Frame /\ pte[cur][v].cached \in BOOLEAN
    BY <1>1, <1>2, <1>3, EntryOf
  <2>2. QED
    BY <2>1, <1>3
<1>5. \A v \in S : /\ Cow(pte[cur][v]) \in Entries /\ Cow(pte[cur][v]) # None
                   /\ Cow(pte[cur][v]).frame = pte[cur][v].frame
                   /\ Cow(pte[cur][v]).cached = FALSE /\ ~Cow(pte[cur][v]).rw
  BY <1>4, CowFacts
<1>6. /\ pte' = [pte EXCEPT ![cur] = [v \in Page |-> IF v \in S THEN Cow(pte[cur][v]) ELSE pte[cur][v]]]
      /\ rc' = [f \in Frame |-> IF f \in Own(cur, S) THEN Shared(f) - 1 ELSE rc[f]]
      /\ tlb' = IF S = {} THEN tlb ELSE Flushed
  BY DEF ForkFails
<1>7. S \in SUBSET Page
  BY <1>3
<1> HIDE DEF S
<1>8. /\ pte' \in PageTables
      /\ \A v \in Page : pte'[cur][v] = IF v \in S THEN Cow(pte[cur][v]) ELSE pte[cur][v]
      /\ \A a \in AS : a # cur => pte'[a] = pte[a]
  <2>1. [v \in Page |-> IF v \in S THEN Cow(pte[cur][v]) ELSE pte[cur][v]] \in [Page -> Entries \union {None}]
    BY <1>1, <1>2, <1>5 DEF PageTables
  <2>2. QED
    BY <1>1, <1>2, <1>6, <2>1 DEF PageTables
<1>9. SameFrames(pte, pte')
  <2> SUFFICES ASSUME NEW a \in AS, NEW v \in Page
               PROVE  /\ pte'[a][v] # None <=> pte[a][v] # None
                      /\ pte[a][v] # None => /\ pte'[a][v].frame = pte[a][v].frame
                                             /\ pte'[a][v].cached = pte[a][v].cached
    BY DEF SameFrames
  <2>1. CASE a = cur /\ v \in S
    BY <2>1, <1>3, <1>4, <1>5, <1>8
  <2>2. CASE ~(a = cur /\ v \in S)
    <3>1. pte'[a][v] = pte[a][v]
      BY <2>2, <1>8
    <3>2. QED
      BY <3>1
  <2>3. QED
    BY <2>1, <2>2
<1>10. rc' \in [Frame -> Nat] /\ SameCounts(pte, rc, rc')
  <2>1. ASSUME NEW f \in Frame
        PROVE  rc'[f] \in Nat /\ (rc'[f] = rc[f] \/ (rc'[f] = 1 /\ rc[f] = 0 /\ Owners(pte, f) # {}))
    <3>1. CASE f \in Own(cur, S)
      <4>1. rc'[f] = (IF rc[f] = 0 THEN 2 ELSE rc[f] + 1) - 1 /\ rc[f] \in Nat
        BY <1>2, <1>6, <3>1 DEF Shared
      <4>2. PICK v \in S : Maps(pte, cur, v, f, FALSE)
        BY <1>1, <1>2, <1>7, <3>1, OwnAndLent
      <4>3. <<cur, v>> \in Owners(pte, f)
        BY <1>1, <1>7, <4>2, HoldersAt DEF Owners
      <4>4. Owners(pte, f) # {}
        BY <4>3
      <4>5. rc'[f] \in Nat /\ (rc'[f] = rc[f] \/ (rc'[f] = 1 /\ rc[f] = 0))
        BY <4>1
      <4>6. QED
        BY <4>4, <4>5
    <3>2. CASE f \notin Own(cur, S)
      <4>1. rc'[f] = rc[f]
        BY <1>6, <3>2
      <4>2. QED
        BY <1>2, <4>1
    <3>3. QED
      BY <3>1, <3>2
  <2>2. QED
    BY <1>6, <2>1 DEF SameCounts
<1>11. CachedPlain(pte')
  BY <1>2, <1>5, <1>8 DEF Books, CachedPlain
<1>12. \A a \in AS, v \in Page : pte'[a][v] # None /\ pte'[a][v].rw =>
            ~pte'[a][v].cached /\ Owners(pte, pte'[a][v].frame) = {<<a, v>>}
  <2> TAKE a \in AS, v \in Page
  <2> HAVE pte'[a][v] # None /\ pte'[a][v].rw
  <2>1. pte'[a][v] = pte[a][v]
    BY <1>5, <1>8
  <2>2. QED
    BY <2>1, <1>2 DEF Books, PrivateWrites
<1>13. BooksNow'
  <2>1. Books(pte', rc', free, cache)
    BY <1>2, <1>8, <1>9, <1>10, <1>11, <1>12, SameFramesKeep
  <2>2. QED
    BY <2>1 DEF BooksNow, ForkFails
<1>14. RestTypes'
  BY <1>6 DEF RestTypes, ForkFails, spaces, Flushed, NoPages
<1>15. FreshWhenFree'
  BY <1>1, <1>8 DEF FreshWhenFree, ForkFails, spaces
<1>16. TlbSound'
  BY <1>1, <1>6, <1>8 DEF TlbSound, ForkFails, Flushed, NoPages
<1>17. QED
  BY <1>9, <1>13, <1>14, <1>15, <1>16

LEMMA WalkKeeps ==
  ASSUME FramesInv, NEW v \in Page, Walk(v)
  PROVE  FramesInv'
<1>1. BooksNow'
  BY BooksUntouched DEF FramesInv, Walk, frames
<1>2. cur \in AS /\ cur # None /\ pte \in PageTables /\ tlb \in [Page -> Entries \union {None}]
  BY TableTypes DEF FramesInv, RestTypes, Walk
<1>3. tlb' = [tlb EXCEPT ![v] = pte[cur][v]] /\ tlb' \in [Page -> Entries \union {None}]
  BY <1>2 DEF Walk, PageTables
<1>4. RestTypes' /\ FreshWhenFree'
  BY <1>3 DEF FramesInv, RestTypes, FreshWhenFree, Walk, spaces, frames
<1>5. TlbSound'
  BY <1>2, <1>3 DEF FramesInv, TlbSound, Walk
<1>6. QED
  BY <1>1, <1>4, <1>5 DEF FramesInv

LEMMA StoreKeeps ==
  ASSUME FramesInv, NEW v \in Page, NEW x \in Written, Store(v, x)
  PROVE  FramesInv'
<1>1. BooksNow'
  BY BooksUntouched DEF FramesInv, Store
<1>2. content' \in [Frame -> Value]
  BY NumberFacts DEF FramesInv, RestTypes, Store
<1>3. RestTypes' /\ FreshWhenFree' /\ TlbSound'
  BY <1>2 DEF FramesInv, RestTypes, FreshWhenFree, TlbSound, Store, spaces
<1>4. QED
  BY <1>1, <1>3 DEF FramesInv
-----------------------------------------------------------------------------
LEMMA InstallFacts ==
  ASSUME pte \in PageTables, cur \in AS, NEW v \in Page, NEW e \in Entries, Install(v, e)
  PROVE  /\ pte' \in PageTables /\ pte'[cur][v] = e
         /\ \A a \in AS, u \in Page : a # cur \/ u # v => pte'[a][u] = pte[a][u]
<1>1. pte' = [pte EXCEPT ![cur] = [pte[cur] EXCEPT ![v] = e]]
  BY DEF Install
<1>2. pte[cur] \in [Page -> Entries \union {None}]
  BY DEF PageTables
<1>3. [pte[cur] EXCEPT ![v] = e] \in [Page -> Entries \union {None}]
  BY <1>2
<1>4. QED
  BY <1>1, <1>2, <1>3 DEF PageTables

\* A fault changes the entry of its page, which the TLB does not hold then.
LEMMA FaultFrame ==
  ASSUME FramesInv, NEW v \in Page, cur \in AS,
         \A a \in AS, u \in Page : a # cur \/ u # v => pte'[a][u] = pte[a][u],
         UNCHANGED <<spaces, cur>>, tlb' \in [Page -> Entries \union {None}],
         tlb'[v] = None, \A u \in Page : u # v => tlb'[u] = tlb[u]
  PROVE  FreshWhenFree' /\ TlbSound'
<1>1. cur # None /\ refs[cur] > 0 /\ refs[cur] \in Nat
  BY NumberFacts DEF FramesInv, FreshWhenFree, RestTypes
<1>2. FreshWhenFree'
  BY <1>1 DEF FramesInv, FreshWhenFree, spaces
<1>3. TlbSound'
  BY <1>1 DEF FramesInv, TlbSound
<1>4. QED
  BY <1>2, <1>3

LEMMA TouchFacts ==
  ASSUME FramesInv, NEW v \in Page, NEW m, Touches(v, m)
  PROVE  cur \in AS /\ cur # None /\ tlb[v] = None /\ pte[cur][v] = None
BY DEF FramesInv, RestTypes, Touches, Translation

LEMMA OnlyOwner ==
  ASSUME NEW S, IsFiniteSet(S), NEW x \in S, Cardinality(S) <= 1
  PROVE  S = {x}
<1>1. Cardinality(S) \in Nat /\ Cardinality(S) # 0
  BY FS_CardinalityType, FS_EmptySet
<1>2. Cardinality(S) = 1
  BY <1>1
<1>3. QED
  BY <1>2, FS_Singleton

\* The last owner of a frame may write to it again.
LEMMA ReclaimKeeps ==
  ASSUME FramesInv, NEW v \in Page, cur \in AS, NEW old,
         pte[cur][v] # None, pte[cur][v].cow, old = pte[cur][v].frame, rc[old] <= 1,
         rc' = [rc EXCEPT ![old] = 0], Install(v, Entry(old, TRUE, FALSE, FALSE)),
         UNCHANGED <<free, cache>>
  PROVE  /\ BooksNow' /\ pte'[cur][v].frame = old /\ pte'[cur][v] # None
         /\ \A a \in AS, u \in Page : a # cur \/ u # v => pte'[a][u] = pte[a][u]
<1> DEFINE e == Entry(old, TRUE, FALSE, FALSE)
<1>1. Books(pte, rc, free, cache) /\ pte \in PageTables /\ rc \in [Frame -> Nat]
  BY DEF FramesInv, BooksNow, Books, BookTypes
<1>2. old \in Frame /\ pte[cur][v].cached = FALSE /\ rc[old] \in Nat
  <2>1. pte[cur][v].frame \in Frame /\ pte[cur][v].cached \in BOOLEAN
    BY <1>1, EntryOf
  <2>2. ~pte[cur][v].cached
    BY <1>1 DEF Books, CachedPlain
  <2>3. QED
    BY <1>1, <2>1, <2>2
<1>3. e \in Entries /\ e # None /\ e.frame = old /\ e.cached = FALSE /\ ~e.cow
  BY <1>2, NewEntry DEF OwnEntry
<1> HIDE DEF e
<1>4. /\ pte' \in PageTables /\ pte'[cur][v] = e
      /\ \A a \in AS, u \in Page : a # cur \/ u # v => pte'[a][u] = pte[a][u]
  BY <1>1, <1>3, InstallFacts DEF e
<1>5. rc' \in [Frame -> Nat]
  BY <1>1, <1>2
<1>6. SameFrames(pte, pte')
  <2> SUFFICES ASSUME NEW a \in AS, NEW u \in Page
               PROVE  /\ pte'[a][u] # None <=> pte[a][u] # None
                      /\ pte[a][u] # None => /\ pte'[a][u].frame = pte[a][u].frame
                                             /\ pte'[a][u].cached = pte[a][u].cached
    BY DEF SameFrames
  <2>1. CASE a = cur /\ u = v
    BY <2>1, <1>2, <1>3, <1>4
  <2>2. CASE ~(a = cur /\ u = v)
    <3>1. pte'[a][u] = pte[a][u]
      BY <2>2, <1>4
    <3>2. QED
      BY <3>1
  <2>3. QED
    BY <2>1, <2>2
<1>7. SameCounts(pte, rc, rc')
  BY <1>1, <1>2 DEF SameCounts
<1>8. CachedPlain(pte')
  <2> SUFFICES ASSUME NEW a \in AS, NEW u \in Page, pte'[a][u] # None, pte'[a][u].cached
               PROVE  ~pte'[a][u].cow
    BY DEF CachedPlain
  <2>1. pte'[a][u] = pte[a][u]
    BY <1>3, <1>4
  <2>2. QED
    BY <2>1, <1>1 DEF Books, CachedPlain
<1>9. Owners(pte, old) = {<<cur, v>>}
  <2>1. <<cur, v>> \in Owners(pte, old)
    BY <1>2, HoldersAt DEF Owners, Maps
  <2>2. IsFiniteSet(Owners(pte, old))
    BY HoldersAreFinite DEF Owners
  <2>3. Cardinality(Owners(pte, old)) <= 1
    BY <1>1, <1>2 DEF Books, CountsAre
  <2>4. QED
    BY <2>1, <2>2, <2>3, OnlyOwner
<1>10. \A a \in AS, u \in Page : pte'[a][u] # None /\ pte'[a][u].rw =>
            ~pte'[a][u].cached /\ Owners(pte, pte'[a][u].frame) = {<<a, u>>}
  <2> SUFFICES ASSUME NEW a \in AS, NEW u \in Page, pte'[a][u] # None, pte'[a][u].rw
               PROVE  ~pte'[a][u].cached /\ Owners(pte, pte'[a][u].frame) = {<<a, u>>}
    OBVIOUS
  <2>1. CASE a = cur /\ u = v
    BY <2>1, <1>3, <1>4, <1>9
  <2>2. CASE ~(a = cur /\ u = v)
    <3>1. pte'[a][u] = pte[a][u]
      BY <2>2, <1>4
    <3>2. QED
      BY <3>1, <1>1 DEF Books, PrivateWrites
  <2>3. QED
    BY <2>1, <2>2
<1>11. Books(pte', rc', free, cache)
  <2>1. pte' \in PageTables
    BY <1>4
  <2>2. QED
    BY ONLY <2>1, <1>1, <1>5, <1>6, <1>7, <1>8, <1>10, SameFramesKeep
<1>12. QED
  BY <1>3, <1>4, <1>11 DEF BooksNow

\* A frame of the address space's own at a page that was not mapped.
LEMMA FreshFrame ==
  ASSUME NEW p, NEW q \in PageTables, NEW r, NEW fr, NEW ca, Books(p, r, fr, ca),
         NEW a \in AS, NEW v \in Page, NEW f \in fr, p[a][v] = None, OwnEntry(q[a][v], f),
         \A b \in AS, u \in Page : b # a \/ u # v => q[b][u] = p[b][u]
  PROVE  Books(q, r, fr \ {f}, ca)
<1> DEFINE F == [u \in {v} |-> f]
<1>1. F \in [{v} -> fr] /\ IsInjective(F) /\ Range(F) = {f} /\ F[v] = f
  BY DEF IsInjective, Range
<1> HIDE DEF F
<1>2. LoadsAt(p, q, a, {v}, F)
  BY <1>1 DEF LoadsAt
<1>3. {v} \in SUBSET Page
  OBVIOUS
<1>4. Books(q, r, fr \ Range(F), ca)
  BY <1>1, <1>2, <1>3, LoadKeeps
<1>5. QED
  BY <1>1, <1>4

\* The copy that a write to a shared frame makes.
LEMMA CopyKeeps ==
  ASSUME FramesInv, NEW v \in Page, cur \in AS, NEW old,
         pte[cur][v] # None, pte[cur][v].cow, old = pte[cur][v].frame, rc[old] > 1,
         NEW new \in free, free' = free \ {new},
         rc' = [rc EXCEPT ![old] = @ - 1], Install(v, Entry(new, TRUE, FALSE, FALSE)),
         UNCHANGED cache
  PROVE  /\ BooksNow' /\ pte'[cur][v].frame = new /\ pte'[cur][v] # None
         /\ \A a \in AS, u \in Page : a # cur \/ u # v => pte'[a][u] = pte[a][u]
<1> DEFINE e == Entry(new, TRUE, FALSE, FALSE)
<1> DEFINE p == [pte EXCEPT ![cur] = [pte[cur] EXCEPT ![v] = None]]
<1>1. /\ Books(pte, rc, free, cache) /\ pte \in PageTables /\ rc \in [Frame -> Nat]
      /\ free \subseteq Frame /\ cache \in Seq(LineType)
  BY DEF FramesInv, BooksNow, Books, BookTypes
<1>2. old \in Frame /\ pte[cur][v].cached = FALSE /\ rc[old] \in Nat
  <2>1. pte[cur][v].frame \in Frame /\ pte[cur][v].cached \in BOOLEAN
    BY <1>1, EntryOf
  <2>2. ~pte[cur][v].cached
    BY <1>1 DEF Books, CachedPlain
  <2>3. QED
    BY <1>1, <2>1, <2>2
<1>3. OwnEntry(e, new) /\ e \in Entries /\ e # None /\ e.frame = new
  <2>1. OwnEntry(e, new)
    BY <1>1, NewEntry
  <2>2. QED
    BY <2>1 DEF OwnEntry
<1>4. p \in PageTables /\ p[cur][v] = None /\ \A a \in AS, u \in Page : a # cur \/ u # v => p[a][u] = pte[a][u]
  <2>1. pte[cur] \in [Page -> Entries \union {None}]
    BY <1>1 DEF PageTables
  <2>2. [pte[cur] EXCEPT ![v] = None] \in [Page -> Entries \union {None}]
    BY <2>1
  <2>3. QED
    BY <1>1, <2>1, <2>2 DEF PageTables
<1> HIDE DEF e, p
<1>5. /\ pte' \in PageTables /\ pte'[cur][v] = e
      /\ \A a \in AS, u \in Page : a # cur \/ u # v => pte'[a][u] = pte[a][u]
  BY <1>1, <1>3, InstallFacts DEF e
<1>6. ClearedAt(pte, p, cur, {v})
  BY <1>4 DEF ClearedAt
<1>7. /\ \A f : f \in Own(cur, {v}) <=> f = old
      /\ \A f : Lent(cur, {v}, f) = {}
  BY <1>2 DEF Own, Lent, Present
<1>8. Dropped(cur, {v}) = rc'
  <2>1. \A f \in Frame : (f \in Own(cur, {v}) /\ rc[f] > 0) <=> f = old
    <3>1. rc[old] > 0
      BY <1>2
    <3>2. QED
      BY <3>1, <1>7, Zenon
  <2>2. Dropped(cur, {v}) = [f \in Frame |-> IF f = old THEN rc[f] - 1 ELSE rc[f]]
    BY <2>1 DEF Dropped
  <2>3. rc' = [f \in Frame |-> IF f = old THEN rc[f] - 1 ELSE rc[f]]
    BY <1>1, <1>2
  <2>4. QED
    BY <2>2, <2>3
<1>9. Freed(cur, {v}) = {}
  BY <1>2, <1>7 DEF Freed
<1>10. Released(cur, {v}) = cache
  <2>1. \A i \in DOMAIN cache : [cache[i] EXCEPT !.refs = @ - Cardinality(Lent(cur, {v}, cache[i].frame))] = cache[i]
    <3> TAKE i \in DOMAIN cache
    <3>1. cache[i] \in LineType
      BY <1>1
    <3>2. Cardinality(Lent(cur, {v}, cache[i].frame)) = 0
      BY <1>7, FS_EmptySet
    <3>3. QED
      BY <3>1, <3>2 DEF LineType
  <2>2. Released(cur, {v}) = [i \in DOMAIN cache |-> cache[i]]
    BY <2>1 DEF Released
  <2>3. QED
    BY <1>1, <2>2
<1>11. Books(p, rc', free, cache)
  <2>1. {v} \in SUBSET Page
    OBVIOUS
  <2>2. Books(p, Dropped(cur, {v}), free \union Freed(cur, {v}), Released(cur, {v}))
    BY <1>1, <1>4, <1>6, <2>1, ClearKeeps
  <2>3. QED
    BY <2>2, <1>8, <1>9, <1>10
<1>12. Books(pte', rc', free \ {new}, cache)
  BY <1>3, <1>4, <1>5, <1>11, FreshFrame
<1>13. QED
  BY <1>3, <1>5, <1>12 DEF BooksNow

LEMMA CowFaultKeeps ==
  ASSUME FramesInv, NEW v \in Page, CowFault(v)
  PROVE  /\ FramesInv' /\ cur \in AS /\ pte[cur][v] # None
         /\ pte'[cur][v] # None /\ pte'[cur][v].cached = FALSE
         /\ content'[pte'[cur][v].frame] = content[pte[cur][v].frame]
         /\ \A a \in AS, u \in Page : a # cur \/ u # v => pte'[a][u] = pte[a][u]
         /\ \A f \in Frame : f \notin free => content'[f] = content[f]
<1> DEFINE old == pte[cur][v].frame
<1>1. cur \in AS /\ pte[cur][v] # None /\ pte[cur][v].cow
  BY DEF FramesInv, RestTypes, CowFault
<1>2. old \in Frame
  BY <1>1, TableTypes, EntryOf DEF FramesInv
<1> DEFINE Copied == /\ BooksNow' /\ pte'[cur][v] # None /\ pte'[cur][v].cached = FALSE
                     /\ content'[pte'[cur][v].frame] = content[old]
                     /\ \A a \in AS, u \in Page : a # cur \/ u # v => pte'[a][u] = pte[a][u]
                     /\ \A f \in Frame : f \notin free => content'[f] = content[f]
                     /\ content' \in [Frame -> Value]
<1>3. ASSUME NEW f \in Frame, Install(v, Entry(f, TRUE, FALSE, FALSE))
      PROVE  pte'[cur][v].cached = FALSE
  <2>1. Entry(f, TRUE, FALSE, FALSE) \in Entries /\ Entry(f, TRUE, FALSE, FALSE).cached = FALSE
    BY NewEntry DEF OwnEntry
  <2>2. QED
    BY <1>1, <1>3, <2>1, TableTypes, InstallFacts DEF FramesInv
<1>4. Copied
  <2>1. CASE /\ rc[old] <= 1 /\ rc' = [rc EXCEPT ![old] = 0]
             /\ Install(v, Entry(old, TRUE, FALSE, FALSE)) /\ UNCHANGED <<free, content>>
    <3>1. /\ BooksNow' /\ pte'[cur][v].frame = old /\ pte'[cur][v] # None
          /\ \A a \in AS, u \in Page : a # cur \/ u # v => pte'[a][u] = pte[a][u]
      BY <1>1, <2>1, ReclaimKeeps DEF CowFault
    <3>2. QED
      BY <1>2, <1>3, <2>1, <3>1 DEF FramesInv, RestTypes
  <2>2. CASE /\ rc[old] > 1
             /\ \E new \in free :
                    /\ free' = free \ {new}
                    /\ content' = [content EXCEPT ![new] = content[old]]
                    /\ Install(v, Entry(new, TRUE, FALSE, FALSE))
             /\ rc' = [rc EXCEPT ![old] = @ - 1]
    <3>1. PICK new \in free : /\ free' = free \ {new}
                              /\ content' = [content EXCEPT ![new] = content[old]]
                              /\ Install(v, Entry(new, TRUE, FALSE, FALSE))
      BY <2>2
    <3>2. content' \in [Frame -> Value]
      BY <1>2, <3>1 DEF FramesInv, RestTypes
    <3>3. UNCHANGED cache
      BY DEF CowFault
    <3>4. /\ BooksNow' /\ pte'[cur][v].frame = new /\ pte'[cur][v] # None
          /\ \A a \in AS, u \in Page : a # cur \/ u # v => pte'[a][u] = pte[a][u]
      BY <1>1, <2>2, <3>1, <3>3, CopyKeeps
    <3>5. new \in Frame
      BY DEF FramesInv, BooksNow, Books, BookTypes
    <3>6. /\ content'[new] = content[old]
          /\ \A f \in Frame : f \notin free => content'[f] = content[f]
      BY <3>1, <3>5 DEF FramesInv, RestTypes
    <3>7. QED
      BY <1>3, <3>1, <3>2, <3>4, <3>5, <3>6
  <2>3. QED
    BY <2>1, <2>2 DEF CowFault
<1>5. /\ tlb' \in [Page -> Entries \union {None}] /\ tlb'[v] = None
      /\ \A u \in Page : u # v => tlb'[u] = tlb[u]
  BY DEF CowFault, FramesInv, RestTypes
<1>6. UNCHANGED <<spaces, cur>> /\ cache' = cache
  BY DEF CowFault
<1>7. FreshWhenFree' /\ TlbSound'
  BY <1>1, <1>4, <1>5, <1>6, FaultFrame
<1>8. RestTypes'
  BY <1>4, <1>5, <1>6 DEF FramesInv, RestTypes, spaces
<1>9. QED
  BY <1>1, <1>4, <1>7, <1>8 DEF FramesInv
-----------------------------------------------------------------------------
LEMMA PageNumbers == Page \subseteq 0 .. MmapMax
<1>1. HeapBase \in Nat /\ HeapMax \in Nat /\ MmapBase \in Nat /\ MmapMax \in Nat
  BY NumberFacts
<1>2. QED
  BY <1>1, AddressSpacesAssumption DEF Page, Heap, Mapping

LEMMA RegionFacts ==
  ASSUME NEW m \in Regions
  PROVE  /\ m.va \in Mapping /\ m.len \in Nat /\ m.len > 0 /\ m.writable \in BOOLEAN /\ m.off \in Nat
<1>1. \A n \in Lengths : n \in Nat /\ n > 0
  BY NumberFacts DEF Lengths
<1>2. CASE m \in [kind : {"anon"}, va : Mapping, len : Lengths, writable : BOOLEAN, off : {0}]
  <2>1. m.va \in Mapping /\ m.len \in Lengths /\ m.off \in {0}
    BY <1>2
  <2>2. m.writable \in BOOLEAN
    BY <1>2, Zenon
  <2>3. m.len \in Nat /\ m.len > 0
    BY <1>1, <2>1
  <2>4. m.off \in Nat
    BY <2>1
  <2>5. QED
    BY <2>1, <2>2, <2>3, <2>4, Zenon
<1>3. CASE m \in [kind : {"file"}, va : Mapping, len : Lengths, writable : {FALSE}, off : Key]
  BY <1>1, <1>3, NumberFacts
<1>4. QED
  BY <1>2, <1>3 DEF Regions

LEMMA TouchedKey ==
  ASSUME NEW m \in Regions, NEW v \in Page, Covers(m, v)
  PROVE  KeyAt(m, v) \in Nat /\ Data(KeyAt(m, v)) \in Value
<1>1. m.va \in Nat /\ m.off \in Nat /\ v \in Nat /\ m.va <= v
  <2>1. v \in Nat /\ m.va \in Nat /\ m.off \in Nat
    BY PageNumbers, RegionFacts, NumberFacts DEF Mapping
  <2>2. QED
    BY <2>1 DEF Covers
<1>2. KeyAt(m, v) \in Nat
  BY <1>1 DEF KeyAt
<1>3. QED
  BY <1>2, NumberFacts DEF Data

LEMMA AnonFaultKeeps ==
  ASSUME FramesInv, NEW v \in Page, NEW m \in Regions, AnonFault(v, m)
  PROVE  /\ FramesInv' /\ cur \in AS /\ pte[cur][v] = None
         /\ \A a \in AS, u \in Page : a # cur \/ u # v => pte'[a][u] = pte[a][u]
         /\ \E f \in free : content' = Zeroed({f}) /\ OwnEntry(pte'[cur][v], f)
<1>1. cur \in AS /\ cur # None /\ tlb[v] = None /\ pte[cur][v] = None
  BY TouchFacts DEF AnonFault
<1>2. PICK f \in free : /\ free' = free \ {f}
                        /\ content' = Zeroed({f})
                        /\ Install(v, Entry(f, m.writable, FALSE, FALSE))
  BY DEF AnonFault
<1>3. UNCHANGED <<spaces, cur, tlb, rc, cache>>
  BY DEF AnonFault
<1> DEFINE e == Entry(f, m.writable, FALSE, FALSE)
<1>4. f \in Frame /\ pte \in PageTables /\ Books(pte, rc, free, cache)
  BY DEF FramesInv, BooksNow, Books, BookTypes
<1>5. OwnEntry(e, f) /\ e \in Entries
  <2>1. m.writable \in BOOLEAN
    BY RegionFacts
  <2>2. e \in Entries /\ e.frame = f /\ ~e.cow /\ e.cached = FALSE
    BY <2>1, <1>4 DEF Entry, Entries
  <2>3. QED
    BY <2>2, NumberFacts DEF OwnEntry
<1>6. Install(v, e)
  BY <1>2
<1> HIDE DEF e
<1>7. /\ pte' \in PageTables /\ pte'[cur][v] = e
      /\ \A a \in AS, u \in Page : a # cur \/ u # v => pte'[a][u] = pte[a][u]
  BY <1>1, <1>4, <1>5, <1>6, InstallFacts
<1>8. BooksNow'
  <2>1. Books(pte', rc, free \ {f}, cache)
    BY <1>1, <1>4, <1>5, <1>7, FreshFrame
  <2>2. QED
    BY <2>1, <1>2, <1>3 DEF BooksNow
<1>9. RestTypes'
  BY <1>2, <1>3, ZeroedType DEF FramesInv, RestTypes, spaces
<1>10. FreshWhenFree' /\ TlbSound'
  <2>1. tlb' \in [Page -> Entries \union {None}] /\ tlb'[v] = None
    BY <1>1, <1>3 DEF FramesInv, RestTypes
  <2>2. QED
    BY <2>1, <1>1, <1>3, <1>7, FaultFrame
<1>11. QED
  BY <1>1, <1>2, <1>5, <1>7, <1>8, <1>9, <1>10 DEF FramesInv

\* The entry of a page of the page cache.
LEMMA LentEntry ==
  ASSUME NEW f \in Frame
  PROVE  /\ Entry(f, FALSE, FALSE, TRUE) \in Entries /\ Entry(f, FALSE, FALSE, TRUE) # None
         /\ Entry(f, FALSE, FALSE, TRUE).frame = f /\ Entry(f, FALSE, FALSE, TRUE).cached = TRUE
         /\ ~Entry(f, FALSE, FALSE, TRUE).rw /\ ~Entry(f, FALSE, FALSE, TRUE).cow
<1>1. Entry(f, FALSE, FALSE, TRUE) \in Entries
  BY DEF Entry, Entries
<1>2. QED
  BY <1>1, NumberFacts DEF Entry

\* A page of the running address space that borrows frame f.
LEMMA LendKeeps ==
  ASSUME FramesInv, NEW v \in Page, cur \in AS, tlb[v] = None, pte[cur][v] = None,
         NEW f \in Frame, Install(v, Entry(f, FALSE, FALSE, TRUE)), UNCHANGED <<spaces, cur, tlb, rc>>,
         NEW fr, NEW ca, Books(pte, rc, fr, ca), f \in fr \/ InCache(ca, f),
         free' = fr \ {f}, Lends(pte, ca, cache', f), Len(cache') <= CacheSlots,
         content' \in [Frame -> Value]
  PROVE  FramesInv' /\ BorrowsAt(pte, pte', cur, v, f)
<1> DEFINE e == Entry(f, FALSE, FALSE, TRUE)
<1>1. e \in Entries /\ e # None /\ e.frame = f /\ e.cached = TRUE /\ ~e.rw /\ ~e.cow
  BY LentEntry
<1>2. pte \in PageTables
  BY TableTypes DEF FramesInv
<1>3. Install(v, e)
  OBVIOUS
<1> HIDE DEF e
<1>4. /\ pte' \in PageTables /\ pte'[cur][v] = e
      /\ \A a \in AS, u \in Page : a # cur \/ u # v => pte'[a][u] = pte[a][u]
  BY <1>1, <1>2, <1>3, InstallFacts
<1>5. BorrowsAt(pte, pte', cur, v, f)
  BY <1>1, <1>4 DEF BorrowsAt
<1>6. BooksNow'
  <2>1. Books(pte', rc, fr \ {f}, cache')
    <3>1. pte' \in PageTables
      BY <1>4
    <3>2. QED
      BY <3>1, <1>5, BorrowKeeps
  <2>2. QED
    BY <2>1 DEF BooksNow
<1>7. RestTypes'
  BY DEF FramesInv, RestTypes, spaces
<1>8. FreshWhenFree' /\ TlbSound'
  <2>1. tlb' \in [Page -> Entries \union {None}] /\ tlb'[v] = None
    BY DEF FramesInv, RestTypes
  <2>2. QED
    BY <2>1, <1>4, FaultFrame
<1>9. QED
  BY <1>5, <1>6, <1>7, <1>8 DEF FramesInv

LEMMA FileHitKeeps ==
  ASSUME FramesInv, NEW v \in Page, NEW m \in Regions, FileHit(v, m)
  PROVE  /\ FramesInv' /\ cur \in AS /\ pte[cur][v] = None
         /\ \E i \in DOMAIN cache :
                /\ cache[i].key = KeyAt(m, v) /\ BorrowsAt(pte, pte', cur, v, cache[i].frame)
                /\ cache' = Append(RemoveAt(cache, i), [cache[i] EXCEPT !.refs = @ + 1])
<1>1. cur \in AS /\ cur # None /\ tlb[v] = None /\ pte[cur][v] = None
  BY TouchFacts DEF FileHit
<1>2. PICK i \in Cached(KeyAt(m, v)) :
         /\ cache' = Append(RemoveAt(cache, i), [cache[i] EXCEPT !.refs = @ + 1])
         /\ Install(v, Entry(cache[i].frame, FALSE, FALSE, TRUE))
  BY DEF FileHit
<1>3. UNCHANGED <<spaces, cur, tlb, free, rc, content>>
  BY DEF FileHit, frames
<1>4. i \in DOMAIN cache
  BY DEF Cached
<1>5. Books(pte, rc, free, cache) /\ cache \in Seq(LineType)
  BY DEF FramesInv, BooksNow, Books, BookTypes
<1>6. cache[i] \in LineType /\ cache[i].frame \in Frame
  <2>1. cache[i] \in LineType
    BY <1>4, <1>5
  <2>2. QED
    BY <2>1 DEF LineType
<1>7. InCache(cache, cache[i].frame)
  BY <1>4 DEF InCache
<1>8. free \ {cache[i].frame} = free
  BY <1>5, <1>6, <1>7 DEF Books, Placed
<1>9. Lends(pte, cache, cache', cache[i].frame)
  BY <1>2, <1>4, <1>5, HitLends
<1>10. Len(cache') <= CacheSlots
  <2>1. RemoveAt(cache, i) \in Seq(LineType) /\ Len(RemoveAt(cache, i)) = Len(cache) - 1
    BY <1>4, <1>5, RemoveAtFacts
  <2>2. Len(cache) \in Nat /\ Len(cache) <= CacheSlots
    BY <1>5 DEF FramesInv, RestTypes
  <2>3. Len(cache') = Len(RemoveAt(cache, i)) + 1
    BY <2>1, <1>2
  <2>4. QED
    BY <2>1, <2>2, <2>3
<1>11. content' \in [Frame -> Value]
  BY <1>3 DEF FramesInv, RestTypes
<1> DEFINE g == cache[i].frame
<1>12. /\ g \in Frame /\ InCache(cache, g) /\ free' = free \ {g} /\ Lends(pte, cache, cache', g)
       /\ Install(v, Entry(g, FALSE, FALSE, TRUE))
  BY <1>2, <1>3, <1>6, <1>7, <1>8, <1>9
<1> HIDE DEF g
<1>13. UNCHANGED <<spaces, cur, tlb, rc>>
  BY <1>3
<1>14. FramesInv' /\ BorrowsAt(pte, pte', cur, v, g)
  BY <1>1, <1>5, <1>10, <1>11, <1>12, <1>13, LendKeeps
<1>15. cache[i].key = KeyAt(m, v)
  BY DEF Cached
<1>16. QED
  BY <1>1, <1>2, <1>4, <1>14, <1>15 DEF g

LEMMA FileMissKeeps ==
  ASSUME FramesInv, NEW v \in Page, NEW m \in Regions, FileMiss(v, m)
  PROVE  /\ FramesInv' /\ cur \in AS /\ pte[cur][v] = None
         /\ \E kept, unused, f :
                /\ Books(pte, rc, unused, kept) /\ f \in unused
                /\ \A j \in DOMAIN kept : \E i \in DOMAIN cache : kept[j] = cache[i]
                /\ content' = [content EXCEPT ![f] = Data(KeyAt(m, v))]
                /\ cache' = Append(kept, Line(KeyAt(m, v), f, 1))
                /\ BorrowsAt(pte, pte', cur, v, f)
<1>1. cur \in AS /\ cur # None /\ tlb[v] = None /\ pte[cur][v] = None /\ Covers(m, v)
  BY TouchFacts DEF FileMiss, Touches
<1> DEFINE k == KeyAt(m, v)
<1>2. PICK kept \in Kept : \E f \in free \union (Lines(cache) \ Lines(kept)) :
         /\ free' = (free \union (Lines(cache) \ Lines(kept))) \ {f}
         /\ content' = [content EXCEPT ![f] = Data(k)]
         /\ cache' = Append(kept, Line(k, f, 1))
         /\ Install(v, Entry(f, FALSE, FALSE, TRUE))
  BY DEF FileMiss
<1> DEFINE unused == free \union (Lines(cache) \ Lines(kept))
<1>3. PICK f \in unused : /\ free' = unused \ {f}
                          /\ content' = [content EXCEPT ![f] = Data(k)]
                          /\ cache' = Append(kept, Line(k, f, 1))
                          /\ Install(v, Entry(f, FALSE, FALSE, TRUE))
  BY <1>2
<1>4. UNCHANGED <<spaces, cur, tlb, rc>>
  BY DEF FileMiss
<1>5. Books(pte, rc, free, cache) /\ cache \in Seq(LineType)
  BY DEF FramesInv, BooksNow, Books, BookTypes
<1>6. /\ Books(pte, rc, unused, kept) /\ Len(kept) + 1 <= CacheSlots /\ Len(kept) \in Nat
      /\ \A j \in DOMAIN kept : \E i \in DOMAIN cache : kept[j] = cache[i]
  <2>1. Len(cache) \in Nat /\ Len(cache) <= CacheSlots /\ CacheSlots \in Nat
    BY <1>5, NumberFacts DEF FramesInv, RestTypes
  <2>2. CASE Len(cache) < CacheSlots
    <3>1. kept = cache
      BY <2>2 DEF Kept
    <3>2. unused = free
      BY <3>1
    <3>3. Len(kept) + 1 <= CacheSlots /\ Len(kept) \in Nat
      BY <2>1, <2>2, <3>1
    <3>4. QED
      BY <3>1, <3>2, <3>3, <1>5
  <2>3. CASE ~(Len(cache) < CacheSlots)
    <3>1. PICK i \in Victim : kept = RemoveAt(cache, i)
      BY <2>3 DEF Kept
    <3>2. i \in DOMAIN cache /\ cache[i].refs = 0
      BY DEF Victim, Idle
    <3>3. /\ Books(pte, rc, free \union {cache[i].frame}, kept)
          /\ Lines(cache) \ Lines(kept) = {cache[i].frame}
      BY <3>1, <3>2, <1>5, EvictKeeps
    <3>4. Len(kept) = Len(cache) - 1 /\ kept \in Seq(LineType)
      BY <3>1, <3>2, <1>5, RemoveAtFacts
    <3>5. Len(kept) + 1 <= CacheSlots /\ Len(kept) \in Nat
      <4>1. Len(kept) \in Nat
        BY <3>4
      <4>2. QED
        BY <2>1, <3>4, <4>1
    <3>6. unused = free \union {cache[i].frame}
      BY <3>3
    <3>7. \A j \in DOMAIN kept : \E l \in DOMAIN cache : kept[j] = cache[l]
      BY <3>1, <3>2, <1>5, OtherLines
    <3>8. QED
      BY <3>3, <3>5, <3>6, <3>7
  <2>4. QED
    BY <2>2, <2>3
<1>7. k \in Nat /\ Data(k) \in Value
  BY <1>1, TouchedKey
<1> HIDE DEF k, unused
<1>8. f \in Frame /\ kept \in Seq(LineType)
  BY <1>6 DEF Books, BookTypes
<1>9. Lends(pte, kept, cache', f)
  BY <1>3, <1>6, <1>7, MissLends
<1>10. Len(cache') <= CacheSlots
  <2>1. Len(cache') = Len(kept) + 1
    BY <1>3, <1>8
  <2>2. QED
    BY <2>1, <1>6
<1>11. content' \in [Frame -> Value]
  BY <1>3, <1>7 DEF FramesInv, RestTypes
<1>12. FramesInv' /\ BorrowsAt(pte, pte', cur, v, f)
  BY <1>1, <1>3, <1>4, <1>6, <1>8, <1>9, <1>10, <1>11, LendKeeps
<1>13. QED
  BY <1>1, <1>3, <1>6, <1>12 DEF k
-----------------------------------------------------------------------------
\* Only the running address space changed, and it is in use.
LEMMA FreshKept ==
  ASSUME FramesInv, cur \in AS, cur # None, UNCHANGED <<refs, cur>>,
         \A a \in AS : a # cur => /\ \A v \in Page : pte'[a][v] = pte[a][v]
                                 /\ brk'[a] = brk[a] /\ vmas'[a] = vmas[a] /\ mmapBrk'[a] = mmapBrk[a]
  PROVE  FreshWhenFree'
<1>1. refs[cur] > 0 /\ refs[cur] \in Nat
  BY DEF FramesInv, FreshWhenFree, RestTypes
<1>2. \A a \in AS : refs'[a] = 0 => a # cur
  BY <1>1
<1>3. QED
  BY <1>1, <1>2 DEF FramesInv, FreshWhenFree

LEMMA GrowKeeps ==
  ASSUME ~Retries, FramesInv, NEW n \in HeapBase .. HeapMax, Grow(n)
  PROVE  /\ FramesInv' /\ cur \in AS
         /\ \E S \in SUBSET Heap : \E F \in [S -> free] :
                LoadsAt(pte, pte', cur, S, F) /\ content' = Zeroed(Range(F))
<1> DEFINE end == IF n - brk[cur] <= Cardinality(free) THEN n ELSE brk[cur] + Cardinality(free)
<1> DEFINE S == brk[cur] .. end - 1
<1>1. PICK F \in [S -> free] :
         /\ IsInjective(F)
         /\ pte' = [pte EXCEPT ![cur] = [v \in Page |->
                       IF v \in S THEN Entry(F[v], TRUE, FALSE, FALSE) ELSE pte[cur][v]]]
         /\ free' = free \ Range(F)
         /\ content' = Zeroed(Range(F))
  BY DEF Grow
<1>2. /\ cur \in AS /\ cur # None /\ brk[cur] \in HeapBase .. HeapMax /\ brk[cur] < n /\ n <= HeapMax
      /\ Present(cur, brk[cur] .. n - 1) = {}
      /\ brk' = [brk EXCEPT ![cur] = IF end = n THEN n ELSE brk[cur]]
  BY DEF Grow, FramesInv, RestTypes
<1>3. UNCHANGED <<refs, vmas, mmapBrk, cur, tlb, rc, cache>>
  BY DEF Grow
<1>4. /\ pte \in PageTables /\ free \subseteq Frame /\ Books(pte, rc, free, cache)
  BY DEF FramesInv, BooksNow, Books, BookTypes
<1>5. Cardinality(free) \in Nat
  <2>1. IsFiniteSet(Frame)
    BY AddressSpacesAssumption
  <2>2. QED
    BY <2>1, <1>4, FS_Subset, FS_CardinalityType
<1>6. S \subseteq brk[cur] .. n - 1 /\ brk[cur] .. n - 1 \subseteq Heap
  BY SMTT(40), <1>2, <1>5, NumberFacts DEF Heap
<1> HIDE DEF end, S
<1>7. S \in SUBSET Page /\ \A v \in S : pte[cur][v] = None
  BY <1>2, <1>6 DEF Present, Page
<1>8. \A v \in S : OwnEntry(Entry(F[v], TRUE, FALSE, FALSE), F[v])
  <2>1. \A v \in S : F[v] \in Frame
    BY <1>4
  <2>2. QED
    BY <2>1, NewEntry
<1>9. /\ pte' \in PageTables
      /\ \A v \in Page : pte'[cur][v] = IF v \in S THEN Entry(F[v], TRUE, FALSE, FALSE) ELSE pte[cur][v]
      /\ \A a \in AS : a # cur => pte'[a] = pte[a]
  <2>1. [v \in Page |-> IF v \in S THEN Entry(F[v], TRUE, FALSE, FALSE) ELSE pte[cur][v]]
            \in [Page -> Entries \union {None}]
    BY <1>2, <1>4, <1>8 DEF PageTables, OwnEntry
  <2>2. QED
    BY <1>1, <1>2, <1>4, <2>1 DEF PageTables
<1>10. LoadsAt(pte, pte', cur, S, F)
  BY <1>7, <1>8, <1>9 DEF LoadsAt
<1>11. BooksNow'
  <2>1. pte' \in PageTables
    BY <1>9
  <2>2. Books(pte', rc, free \ Range(F), cache)
    BY <2>1, <1>1, <1>2, <1>4, <1>7, <1>10, LoadKeeps
  <2>3. QED
    BY <2>2, <1>1, <1>3 DEF BooksNow
<1>12. brk' \in [AS -> HeapBase .. HeapMax] /\ \A a \in AS : a # cur => brk'[a] = brk[a]
  BY <1>2 DEF FramesInv, RestTypes
<1>13. RestTypes'
  BY <1>1, <1>3, <1>12, ZeroedType DEF FramesInv, RestTypes
<1>14. FreshWhenFree'
  BY <1>2, <1>3, <1>9, <1>12, FreshKept
<1>15. TlbSound'
  BY <1>2, <1>3, <1>7, <1>9 DEF FramesInv, TlbSound
<1>16. FramesInv'
  BY <1>11, <1>13, <1>14, <1>15 DEF FramesInv
<1>17. S \in SUBSET Heap
  BY <1>6
<1>18. QED
  BY <1>1, <1>2, <1>10, <1>16, <1>17

LEMMA ShrinkKeeps ==
  ASSUME FramesInv, NEW n \in HeapBase .. HeapMax, Shrink(n)
  PROVE  /\ FramesInv' /\ cur \in AS
         /\ \E V \in SUBSET Heap : Clear(cur, V) /\ ClearedAt(pte, pte', cur, V)
<1>1. /\ cur \in AS /\ cur # None /\ brk[cur] \in HeapBase .. HeapMax
      /\ Clear(cur, n .. brk[cur] - 1) /\ brk' = [brk EXCEPT ![cur] = n] /\ tlb' = Flushed
      /\ UNCHANGED <<refs, vmas, mmapBrk, cur>>
  BY DEF Shrink, FramesInv, RestTypes
<1> DEFINE V == n .. brk[cur] - 1
<1>2. V \in SUBSET Page /\ V \in SUBSET Heap
  BY <1>1, NumberFacts DEF Page, Heap
<1> HIDE DEF V
<1>3. /\ BooksNow' /\ Len(cache') = Len(cache) /\ content' = content
      /\ pte' \in PageTables /\ ClearedAt(pte, pte', cur, V)
  BY <1>1, <1>2, ClearMoves DEF FramesInv, V
<1>4. brk' \in [AS -> HeapBase .. HeapMax] /\ \A a \in AS : a # cur => brk'[a] = brk[a]
  BY <1>1 DEF FramesInv, RestTypes
<1>5. RestTypes'
  BY <1>1, <1>3, <1>4 DEF FramesInv, RestTypes, Flushed, NoPages
<1>6. FreshWhenFree'
  <2>1. \A a \in AS : a # cur => \A v \in Page : pte'[a][v] = pte[a][v]
    BY <1>3 DEF ClearedAt
  <2>2. QED
    BY <1>1, <1>4, <2>1, FreshKept
<1>7. TlbSound'
  BY <1>1 DEF TlbSound, Flushed, NoPages
<1>8. Clear(cur, V)
  BY <1>1 DEF V
<1>9. QED
  BY <1>1, <1>2, <1>3, <1>5, <1>6, <1>7, <1>8 DEF FramesInv

LEMMA MmapKeeps ==
  ASSUME FramesInv, NEW m \in Regions, Mmap(m)
  PROVE  FramesInv'
<1>1. /\ cur \in AS /\ cur # None
      /\ m.va = mmapBrk[cur] /\ m.va + m.len <= MmapMax
      /\ mmapBrk' = [mmapBrk EXCEPT ![cur] = m.va + m.len]
      /\ vmas' = [vmas EXCEPT ![cur] = vmas[cur] \union {m}]
      /\ UNCHANGED <<refs, brk, pte, cur, tlb, free, rc, content, cache>>
  BY DEF Mmap, FramesInv, RestTypes, frames
<1>2. BooksNow'
  BY <1>1, BooksUntouched DEF FramesInv
<1>3. m.va + m.len \in MmapBase .. MmapMax
  BY <1>1, RegionFacts, NumberFacts DEF FramesInv, RestTypes
<1>4. /\ mmapBrk' \in [AS -> MmapBase .. MmapMax] /\ vmas' \in [AS -> SUBSET Regions]
      /\ \A a \in AS : a # cur => mmapBrk'[a] = mmapBrk[a] /\ vmas'[a] = vmas[a]
  BY <1>1, <1>3 DEF FramesInv, RestTypes
<1>5. RestTypes' /\ FreshWhenFree' /\ TlbSound'
  BY <1>1, <1>4 DEF FramesInv, RestTypes, FreshWhenFree, TlbSound
<1>6. QED
  BY <1>2, <1>5 DEF FramesInv

LEMMA MunmapKeeps ==
  ASSUME FramesInv, NEW m \in Regions, Munmap(m)
  PROVE  FramesInv' /\ cur \in AS /\ ClearedAt(pte, pte', cur, { v \in Page : Covers(m, v) })
<1> DEFINE V == { v \in Page : Covers(m, v) }
<1>1. /\ cur \in AS /\ cur # None
      /\ vmas' = [vmas EXCEPT ![cur] = vmas[cur] \ {m}]
      /\ Clear(cur, V) /\ tlb' = Flushed
      /\ UNCHANGED <<refs, brk, mmapBrk, cur>>
  BY DEF Munmap, FramesInv, RestTypes
<1>2. V \in SUBSET Page
  OBVIOUS
<1> HIDE DEF V
<1>3. /\ BooksNow' /\ Len(cache') = Len(cache) /\ content' = content
      /\ pte' \in PageTables /\ ClearedAt(pte, pte', cur, V)
  BY <1>1, <1>2, ClearMoves DEF FramesInv
<1>4. vmas' \in [AS -> SUBSET Regions] /\ \A a \in AS : a # cur => vmas'[a] = vmas[a]
  BY <1>1 DEF FramesInv, RestTypes
<1>5. RestTypes'
  BY <1>1, <1>3, <1>4 DEF FramesInv, RestTypes, Flushed, NoPages
<1>6. FreshWhenFree'
  <2>1. \A a \in AS : a # cur => \A v \in Page : pte'[a][v] = pte[a][v]
    BY <1>3 DEF ClearedAt
  <2>2. QED
    BY <1>1, <1>4, <2>1, FreshKept
<1>7. TlbSound'
  BY <1>1 DEF TlbSound, Flushed, NoPages
<1>8. QED
  BY <1>1, <1>3, <1>5, <1>6, <1>7 DEF FramesInv, V
-----------------------------------------------------------------------------
LEMMA FramesStutter == FramesInv /\ UNCHANGED vars => FramesInv'
<1> SUFFICES ASSUME FramesInv, UNCHANGED vars PROVE FramesInv'
  OBVIOUS
<1>1. UNCHANGED <<refs, brk, vmas, mmapBrk, pte, cur, tlb, free, rc, content, cache>>
  BY DEF vars, spaces, frames
<1>2. BooksNow' /\ RestTypes' /\ FreshWhenFree' /\ TlbSound'
  BY <1>1 DEF FramesInv, BooksNow, RestTypes, FreshWhenFree, TlbSound
<1>3. QED
  BY <1>2 DEF FramesInv

LEMMA FramesStep == ~Retries /\ FramesInv /\ Next => FramesInv'
<1> SUFFICES ASSUME ~Retries, FramesInv, Next PROVE FramesInv'
  OBVIOUS
<1>1. ASSUME NEW a \in AS, Spawn(a) \/ Exec(a) \/ Destroy(a) \/ Fork(a) PROVE FramesInv'
  BY <1>1, SpawnKeeps, ExecKeeps, DestroyKeeps, ForkKeeps
<1>2. ASSUME NEW a \in AS \union {None}, Switch(a) PROVE FramesInv'
  BY <1>2, SwitchKeeps
<1>3. ASSUME Share PROVE FramesInv'
  BY <1>3, ShareRefKeeps
<1>4. ASSUME NEW v \in Page, Walk(v) \/ CowFault(v) \/ ForkFails(v) PROVE FramesInv'
  BY <1>4, WalkKeeps, CowFaultKeeps, ForkFailsKeeps
<1>5. ASSUME NEW v \in Page, NEW x \in Written, Store(v, x) PROVE FramesInv'
  BY <1>5, StoreKeeps
<1>6. ASSUME NEW v \in Page, NEW m \in Regions, AnonFault(v, m) \/ FileHit(v, m) \/ FileMiss(v, m)
      PROVE FramesInv'
  BY <1>6, AnonFaultKeeps, FileHitKeeps, FileMissKeeps
<1>7. ASSUME NEW n \in HeapBase .. HeapMax, Grow(n) \/ Shrink(n) PROVE FramesInv'
  BY <1>7, GrowKeeps, ShrinkKeeps
<1>8. ASSUME NEW m \in Regions, Mmap(m) \/ Munmap(m) PROVE FramesInv'
  BY <1>8, MmapKeeps, MunmapKeeps
<1>9. QED
  BY <1>1, <1>2, <1>3, <1>4, <1>5, <1>6, <1>7, <1>8 DEF Next

\* FramesExact of address_space.c, pmem_refcount.c and page_cache.c: the count of a frame is the
\* number of page tables that map it, no frame is lost or given out twice, and no page can be
\* written that another address space or the page cache sees.  ~Retries: a program does not ask
\* again for a heap that it did not get.
THEOREM BooksStayExact == ASSUME ~Retries PROVE Spec => []FramesExact
<1>1. Init => FramesInv
  BY FramesStart
<1>2. FramesInv /\ [Next]_vars => FramesInv'
  BY FramesStep, FramesStutter
<1>3. FramesInv => FramesExact
  BY FramesInvSuffices
<1>4. QED
  BY <1>1, <1>2, <1>3, PTL DEF Spec

\* TlbSound of address_space.c: each change of a page table that takes a page or a permission away
\* is followed by the flush it needs.
THEOREM TlbStaysSound == ASSUME ~Retries PROVE Spec => []TlbSound
<1>1. Init => FramesInv
  BY FramesStart
<1>2. FramesInv /\ [Next]_vars => FramesInv'
  BY FramesStep, FramesStutter
<1>3. FramesInv => TlbSound
  BY DEF FramesInv
<1>4. QED
  BY <1>1, <1>2, <1>3, PTL DEF Spec
-----------------------------------------------------------------------------
(* What the address spaces read, by the page tables alone.                  *)

\* What page v of the mappings V reads as before it is touched.
Lazy(V, v) == IF \E m \in V : Covers(m, v) THEN Promised(CHOOSE m \in V : Covers(m, v), v) ELSE None
View(a, v) == IF pte[a][v] # None THEN content[pte[a][v].frame] ELSE Lazy(vmas[a], v)
NewPage == {Zero} \union Range(FileData)

\* The mappings of an address space do not overlap, the page cache holds what the files hold, and
\* only pages of mappings are borrowed from it.
Apart(V) == \A m, n \in V : m # n => m.va + m.len <= n.va \/ n.va + n.len <= m.va
VmasApart == \A a \in AS : Apart(vmas[a]) /\ \A m \in vmas[a] : m.va + m.len <= mmapBrk[a]
CacheHolds == \A i \in DOMAIN cache : content[cache[i].frame] = Data(cache[i].key)
FilesAreMapped ==
    \A a \in AS, v \in Page : pte[a][v] # None /\ pte[a][v].cached => \E m \in vmas[a] : Covers(m, v)

ViewInv == VmasApart /\ CacheHolds /\ FilesAreMapped

\* A step that writes to no page: pages come and go.
PagesMove ==
    \A a \in AS, v \in Page : \/ View(a, v)' = View(a, v)
                              \/ View(a, v)' = None
                              \/ View(a, v) = None /\ View(a, v)' \in NewPage

LEMMA VmasAreRegions == FramesInv => \A a \in AS : vmas[a] \subseteq Regions
BY DEF FramesInv, RestTypes

LEMMA DataFacts == \A k : Data(k) \in NewPage
BY NumberFacts DEF Data, NewPage, Range

LEMMA LazyFacts ==
  ASSUME NEW V, NEW v
  PROVE  /\ (\A m \in V : ~Covers(m, v)) => Lazy(V, v) = None
         /\ Lazy(V, v) \in NewPage \union {None}
<1>1. \A m : Promised(m, v) \in NewPage
  BY DataFacts DEF Promised, NewPage
<1>2. QED
  BY <1>1 DEF Lazy

\* A page is covered by one mapping at most.
LEMMA OneCovers ==
  ASSUME NEW V \in SUBSET Regions, Apart(V), NEW m \in V, NEW n \in V, NEW v \in Page,
         Covers(m, v), Covers(n, v)
  PROVE  m = n
<1> SUFFICES ASSUME m # n PROVE FALSE
  OBVIOUS
<1>1. m \in Regions /\ n \in Regions
  OBVIOUS
<1>2. m.va \in Nat /\ m.len \in Nat /\ n.va \in Nat /\ n.len \in Nat /\ v \in Nat
  BY <1>1, RegionFacts, PageNumbers, NumberFacts DEF Mapping
<1>3. m.va + m.len <= n.va \/ n.va + n.len <= m.va
  BY DEF Apart
<1>4. m.va <= v /\ v < m.va + m.len /\ n.va <= v /\ v < n.va + n.len
  BY DEF Covers
<1>5. QED
  BY <1>2, <1>3, <1>4

LEMMA LazyOf ==
  ASSUME NEW V \in SUBSET Regions, Apart(V), NEW m \in V, NEW v \in Page, Covers(m, v)
  PROVE  Lazy(V, v) = Promised(m, v)
<1>1. \A n \in V : Covers(n, v) => n = m
  BY OneCovers
<1>2. (CHOOSE n \in V : Covers(n, v)) = m
  BY <1>1
<1>3. QED
  BY <1>2 DEF Lazy

\* Mappings that cover the same page read the same.
LEMMA LazySame ==
  ASSUME NEW V \in SUBSET Regions, NEW W \in SUBSET Regions, Apart(V), Apart(W), NEW v \in Page,
         \A m : Covers(m, v) => (m \in V <=> m \in W)
  PROVE  Lazy(V, v) = Lazy(W, v)
<1>1. CASE \E m \in V : Covers(m, v)
  <2>1. PICK m \in V : Covers(m, v)
    BY <1>1
  <2>2. m \in W
    BY <2>1
  <2>3. QED
    BY <2>1, <2>2, LazyOf
<1>2. CASE \A m \in V : ~Covers(m, v)
  <2>1. \A m \in W : ~Covers(m, v)
    BY <1>2
  <2>2. QED
    BY <1>2, <2>1, LazyFacts
<1>3. QED
  BY <1>1, <1>2

\* What is below the mappings is not mapped by one.
LEMMA LowIsUncovered ==
  ASSUME NEW V \in SUBSET Regions, NEW v \in Image \union Heap
  PROVE  Lazy(V, v) = None /\ v \in Page /\ \A m \in V : ~Covers(m, v)
<1>1. v \in Page
  BY DEF Page
<1>2. v \in Nat /\ v < MmapBase
  BY NumberFacts, AddressSpacesAssumption DEF Heap
<1>3. \A m \in V : ~Covers(m, v)
  <2> TAKE m \in V
  <2>1. m.va \in MmapBase .. MmapMax - 1
    BY RegionFacts DEF Mapping
  <2>2. m.va \in Nat /\ MmapBase <= m.va
    BY <2>1, NumberFacts
  <2>3. QED
    BY <1>2, <2>2, NumberFacts DEF Covers
<1>4. QED
  BY <1>1, <1>3, LazyFacts

LEMMA ViewTypes ==
  ASSUME FramesInv
  PROVE  \A a \in AS, v \in Page : View(a, v) \in Value \union {None}
<1>1. NewPage \subseteq Value
  BY NumberFacts DEF NewPage, Range
<1> TAKE a \in AS, v \in Page
<1>2. CASE pte[a][v] # None
  <2>1. pte[a][v].frame \in Frame
    BY <1>2, TableTypes, EntryOf DEF FramesInv
  <2>2. QED
    BY <1>2, <2>1 DEF View, FramesInv, RestTypes
<1>3. CASE pte[a][v] = None
  BY <1>1, <1>3, LazyFacts DEF View
<1>4. QED
  BY <1>2, <1>3

\* The TLB shows nothing else.
LEMMA SeenIsView ==
  ASSUME FramesInv
  PROVE  \A a \in AS, v \in Page : Seen(a, v) = View(a, v)
<1> TAKE a \in AS, v \in Page
<1>1. CASE a = cur /\ tlb[v] # None
  <2>1. pte[a][v] = tlb[v]
    BY <1>1 DEF FramesInv, TlbSound
  <2>2. QED
    BY <1>1, <2>1 DEF Seen, View
<1>2. CASE ~(a = cur /\ tlb[v] # None)
  BY <1>2 DEF Seen, View, Lazy
<1>3. QED
  BY <1>1, <1>2

\* A frame that is mapped or in the page cache is not free.
LEMMA MappedIsTaken ==
  ASSUME NEW p, NEW r, NEW fr, NEW ca, Books(p, r, fr, ca)
  PROVE  /\ \A a \in AS, v \in Page : p[a][v] # None => p[a][v].frame \in Frame /\ p[a][v].frame \notin fr
         /\ \A i \in DOMAIN ca : ca[i].frame \in Frame /\ ca[i].frame \notin fr
<1>1. \A i \in DOMAIN ca : ca[i].frame \in Frame /\ ca[i].frame \notin fr
  <2> TAKE i \in DOMAIN ca
  <2>1. ca[i] \in LineType
    BY DEF Books, BookTypes
  <2>2. InCache(ca, ca[i].frame)
    BY DEF InCache
  <2>3. QED
    BY <2>1, <2>2 DEF Books, Placed, LineType
<1>2. ASSUME NEW a \in AS, NEW v \in Page, p[a][v] # None
      PROVE  p[a][v].frame \in Frame /\ p[a][v].frame \notin fr
  <2> DEFINE f == p[a][v].frame
  <2>1. f \in Frame /\ p[a][v].cached \in BOOLEAN
    BY <1>2, EntryOf DEF Books, BookTypes
  <2>2. CASE p[a][v].cached = TRUE
    <3>1. Maps(p, a, v, f, TRUE)
      BY <1>2, <2>2 DEF Maps
    <3>2. <<a, v>> \in Borrowers(p, f)
      BY <3>1, HoldersAt DEF Borrowers
    <3>3. QED
      BY <2>1, <3>2 DEF Books, Placed
  <2>3. CASE p[a][v].cached = FALSE
    <3>1. Maps(p, a, v, f, FALSE)
      BY <1>2, <2>3 DEF Maps
    <3>2. <<a, v>> \in Owners(p, f)
      BY <3>1, HoldersAt DEF Owners
    <3>3. QED
      BY <2>1, <3>2 DEF Books, Placed
  <2>4. QED
    BY <2>1, <2>2, <2>3
<1>3. QED
  BY <1>1, <1>2

\* Frames that were free change at most.
OnlyFreeChange == \A f \in Frame : f \notin free => content'[f] = content[f]

LEMMA PageStays ==
  ASSUME FramesInv, OnlyFreeChange, NEW a \in AS, NEW v \in Page,
         pte'[a][v] = pte[a][v], Lazy(vmas[a], v)' = Lazy(vmas[a], v)
  PROVE  View(a, v)' = View(a, v)
<1>1. pte[a][v] # None => pte[a][v].frame \in Frame /\ pte[a][v].frame \notin free
  BY MappedIsTaken DEF FramesInv, BooksNow
<1>2. QED
  BY <1>1 DEF View, OnlyFreeChange

LEMMA CacheStays ==
  ASSUME FramesInv, ViewInv, OnlyFreeChange,
         \A i \in DOMAIN cache' : \E j \in DOMAIN cache :
             cache'[i].key = cache[j].key /\ cache'[i].frame = cache[j].frame
  PROVE  CacheHolds'
<1>1. \A j \in DOMAIN cache : content'[cache[j].frame] = Data(cache[j].key)
  BY MappedIsTaken DEF FramesInv, BooksNow, OnlyFreeChange, ViewInv, CacheHolds
<1>2. QED
  BY <1>1 DEF CacheHolds

LEMMA ReleasedLines ==
  ASSUME FramesInv, NEW a, NEW V, cache' = Released(a, V)
  PROVE  \A i \in DOMAIN cache' : \E j \in DOMAIN cache :
             cache'[i].key = cache[j].key /\ cache'[i].frame = cache[j].frame
<1>1. DOMAIN cache' = DOMAIN cache
  BY DEF Released
<1>2. \A i \in DOMAIN cache : cache'[i].key = cache[i].key /\ cache'[i].frame = cache[i].frame
  <2> TAKE i \in DOMAIN cache
  <2>1. cache[i] \in LineType
    BY DEF FramesInv, BooksNow, Books, BookTypes
  <2>2. QED
    BY <2>1 DEF Released, LineType
<1>3. QED
  BY <1>1, <1>2

\* Pages S of a appear, zeroed.
LEMMA ZeroesAppear ==
  ASSUME FramesInv, NEW p, NEW a \in AS, NEW S \in SUBSET Page, NEW F \in [S -> free],
         LoadsAt(p, pte', a, S, F), content' = Zeroed(Range(F))
  PROVE  /\ OnlyFreeChange
         /\ \A v \in S : /\ pte'[a][v] # None /\ content'[pte'[a][v].frame] = Zero
                         /\ ~pte'[a][v].cached /\ View(a, v)' = Zero
<1>1. free \subseteq Frame
  BY DEF FramesInv, BooksNow, Books, BookTypes
<1>2. \A v \in S : F[v] \in free /\ F[v] \in Range(F)
  BY DEF Range
<1>3. OnlyFreeChange
  BY DEF OnlyFreeChange, Zeroed, Range
<1>4. \A v \in S : /\ pte'[a][v] # None /\ pte'[a][v].frame = F[v] /\ pte'[a][v].cached = FALSE
                   /\ content'[F[v]] = Zero
  BY <1>1, <1>2 DEF LoadsAt, OwnEntry, Zeroed
<1>5. QED
  BY <1>3, <1>4 DEF View

LEMMA ViewStarts == Init => ViewInv
<1> SUFFICES ASSUME Init PROVE ViewInv
  OBVIOUS
<1>1. /\ \A a \in AS : vmas[a] = {} /\ \A v \in Page : pte[a][v] = None
      /\ DOMAIN cache = {}
  BY DEF Init, NoPages
<1>2. QED
  BY <1>1 DEF ViewInv, VmasApart, Apart, CacheHolds, FilesAreMapped

\* Nothing but permissions changed.
LEMMA StillSees ==
  ASSUME FramesInv, ViewInv, SameFrames(pte, pte'), UNCHANGED <<content, vmas, mmapBrk, cache>>
  PROVE  PagesMove /\ ViewInv'
<1>1. PagesMove
  BY DEF PagesMove, View, SameFrames
<1>2. ViewInv'
  BY DEF ViewInv, VmasApart, CacheHolds, FilesAreMapped, SameFrames
<1>3. QED
  BY <1>1, <1>2

LEMMA SpawnSees ==
  ASSUME FramesInv, ViewInv, NEW a \in AS, Spawn(a)
  PROVE  PagesMove /\ ViewInv'
<1>1. PICK F \in [Image -> free] : LoadsAt(pte, pte', a, Image, F) /\ content' = Zeroed(Range(F))
  BY SpawnKeeps
<1>2. UNCHANGED <<vmas, mmapBrk, cache>>
  BY DEF Spawn
<1>3. Image \in SUBSET Page /\ \A v \in Image : Lazy(vmas[a], v) = None /\ pte[a][v] = None
  BY <1>1, VmasAreRegions, LowIsUncovered DEF LoadsAt, Page
<1>4. /\ OnlyFreeChange
      /\ \A v \in Image : pte'[a][v] # None /\ ~pte'[a][v].cached /\ View(a, v)' = Zero
  BY <1>1, <1>3, ZeroesAppear
<1>5. \A b \in AS, v \in Page : b # a \/ v \notin Image => pte'[b][v] = pte[b][v]
  BY <1>1 DEF LoadsAt
<1>6. PagesMove
  <2> SUFFICES ASSUME NEW b \in AS, NEW v \in Page
               PROVE  \/ View(b, v)' = View(b, v)
                      \/ View(b, v) = None /\ View(b, v)' \in NewPage
    BY DEF PagesMove
  <2>1. CASE b = a /\ v \in Image
    BY <2>1, <1>3, <1>4 DEF View, NewPage
  <2>2. CASE ~(b = a /\ v \in Image)
    BY <2>2, <1>2, <1>4, <1>5, PageStays
  <2>3. QED
    BY <2>1, <2>2
<1>7. VmasApart' /\ CacheHolds'
  BY <1>2, <1>4, CacheStays DEF ViewInv, VmasApart
<1>8. FilesAreMapped'
  BY <1>2, <1>4, <1>5 DEF ViewInv, FilesAreMapped
<1>9. QED
  BY <1>6, <1>7, <1>8 DEF ViewInv

LEMMA GrowSees ==
  ASSUME ~Retries, FramesInv, ViewInv, NEW n \in HeapBase .. HeapMax, Grow(n)
  PROVE  PagesMove /\ ViewInv'
<1>1. cur \in AS
  BY GrowKeeps
<1>2. PICK S \in SUBSET Heap : \E F \in [S -> free] :
          LoadsAt(pte, pte', cur, S, F) /\ content' = Zeroed(Range(F))
  BY GrowKeeps
<1>3. PICK F \in [S -> free] : LoadsAt(pte, pte', cur, S, F) /\ content' = Zeroed(Range(F))
  BY <1>2
<1>4. UNCHANGED <<vmas, mmapBrk, cache>>
  BY DEF Grow
<1>5. S \in SUBSET Page /\ \A v \in S : Lazy(vmas[cur], v) = None /\ pte[cur][v] = None
  BY <1>3, <1>1, VmasAreRegions, LowIsUncovered DEF LoadsAt, Page
<1>6. /\ OnlyFreeChange
      /\ \A v \in S : /\ pte'[cur][v] # None /\ content'[pte'[cur][v].frame] = Zero
                      /\ ~pte'[cur][v].cached
  BY <1>3, <1>1, <1>5, ZeroesAppear
<1>7. \A b \in AS, v \in Page : b # cur \/ v \notin S => pte'[b][v] = pte[b][v]
  BY <1>3 DEF LoadsAt
<1>8. PagesMove
  <2> SUFFICES ASSUME NEW b \in AS, NEW v \in Page
               PROVE  \/ View(b, v)' = View(b, v)
                      \/ View(b, v) = None /\ View(b, v)' \in NewPage
    BY DEF PagesMove
  <2>1. CASE b = cur /\ v \in S
    <3>1. View(b, v) = None
      BY <2>1, <1>5 DEF View
    <3>2. pte'[b][v] # None /\ content'[pte'[b][v].frame] = Zero
      BY <2>1, <1>6
    <3>3. View(b, v)' = Zero
      BY <3>2 DEF View
    <3>4. QED
      BY <3>1, <3>3 DEF NewPage
  <2>2. CASE ~(b = cur /\ v \in S)
    BY <2>2, <1>4, <1>6, <1>7, PageStays
  <2>3. QED
    BY <2>1, <2>2
<1>9. VmasApart' /\ CacheHolds'
  BY <1>4, <1>6, CacheStays DEF ViewInv, VmasApart
<1>10. FilesAreMapped'
  BY <1>4, <1>6, <1>7 DEF ViewInv, FilesAreMapped
<1>11. QED
  BY <1>8, <1>9, <1>10 DEF ViewInv

LEMMA ExecSees ==
  ASSUME FramesInv, ViewInv, NEW b \in AS, Exec(b)
  PROVE  PagesMove /\ ViewInv'
<1> DEFINE gone == IF refs[cur] = 1 THEN Page ELSE {}
<1>1. /\ cur \in AS /\ b # cur /\ \A v \in Page : pte[b][v] = None
      /\ \A a \in AS : a # cur => vmas'[a] = vmas[a] /\ mmapBrk'[a] = mmapBrk[a]
      /\ refs[cur] = 1 => vmas'[cur] = {}
      /\ refs[cur] # 1 => vmas'[cur] = vmas[cur] /\ mmapBrk'[cur] = mmapBrk[cur]
  BY ExecKeeps
<1>2. PICK p, F : /\ ClearedAt(pte, p, cur, gone)
                  /\ F \in [Image -> free] /\ LoadsAt(p, pte', b, Image, F)
                  /\ content' = Zeroed(Range(F))
  BY ExecKeeps
<1>3. Image \in SUBSET Page /\ \A v \in Image : Lazy(vmas[b], v) = None
  BY VmasAreRegions, LowIsUncovered DEF Page
<1>4. /\ OnlyFreeChange
      /\ \A v \in Image : pte'[b][v] # None /\ ~pte'[b][v].cached /\ View(b, v)' = Zero
  BY <1>2, <1>3, ZeroesAppear
<1>5. ASSUME NEW a \in AS, NEW v \in Page, ~(a = b /\ v \in Image)
      PROVE  \/ pte'[a][v] = pte[a][v] /\ vmas'[a] = vmas[a]
             \/ pte'[a][v] = None /\ vmas'[a] = {}
  <2>1. pte'[a][v] = p[a][v]
    BY <1>2, <1>5 DEF LoadsAt
  <2>2. CASE a = cur /\ refs[cur] = 1
    BY <1>1, <1>2, <2>1, <2>2 DEF ClearedAt
  <2>3. CASE ~(a = cur /\ refs[cur] = 1)
    BY <1>1, <1>2, <2>1, <2>3 DEF ClearedAt
  <2>4. QED
    BY <2>2, <2>3
<1> HIDE DEF gone
<1>6. PagesMove
  <2> SUFFICES ASSUME NEW a \in AS, NEW v \in Page
               PROVE  \/ View(a, v)' = View(a, v)
                      \/ View(a, v)' = None
                      \/ View(a, v) = None /\ View(a, v)' \in NewPage
    BY DEF PagesMove
  <2>1. CASE a = b /\ v \in Image
    BY <2>1, <1>1, <1>3, <1>4 DEF View, NewPage
  <2>2. CASE ~(a = b /\ v \in Image)
    <3>1. CASE pte'[a][v] = pte[a][v] /\ vmas'[a] = vmas[a]
      BY <3>1, <1>4, PageStays
    <3>2. CASE pte'[a][v] = None /\ vmas'[a] = {}
      BY <3>2, LazyFacts DEF View
    <3>3. QED
      BY <2>2, <3>1, <3>2, <1>5
  <2>3. QED
    BY <2>1, <2>2
<1>7. VmasApart'
  BY <1>1 DEF ViewInv, VmasApart, Apart
<1>8. CacheHolds'
  <2>1. cache' = Released(cur, gone)
    BY DEF Exec, gone
  <2>2. QED
    BY <2>1, <1>4, ReleasedLines, CacheStays
<1>9. FilesAreMapped'
  BY <1>4, <1>5 DEF ViewInv, FilesAreMapped
<1>10. QED
  BY <1>6, <1>7, <1>8, <1>9 DEF ViewInv

\* Pages V of a are no longer mapped, and no mapping covers them.
LEMMA ClearSees ==
  ASSUME FramesInv, ViewInv, NEW a \in AS, NEW V, ClearedAt(pte, pte', a, V), NEW W, Clear(a, W),
         \A b \in AS : vmas'[b] \subseteq vmas[b],
         \A b \in AS, v \in Page : b # a \/ v \notin V =>
             \A m \in vmas[b] : Covers(m, v) => m \in vmas'[b],
         \A v \in V : \A m \in vmas'[a] : ~Covers(m, v)
  PROVE  PagesMove /\ CacheHolds' /\ FilesAreMapped'
<1>1. OnlyFreeChange
  BY DEF OnlyFreeChange, Clear
<1>2. \A b \in AS : vmas[b] \in SUBSET Regions /\ vmas'[b] \in SUBSET Regions
  BY VmasAreRegions
<1>3. \A b \in AS : Apart(vmas[b]) /\ Apart(vmas'[b])
  BY DEF ViewInv, VmasApart, Apart
<1>4. PagesMove
  <2> SUFFICES ASSUME NEW b \in AS, NEW v \in Page
               PROVE  View(b, v)' = View(b, v) \/ View(b, v)' = None
    BY DEF PagesMove
  <2>1. CASE b = a /\ v \in V
    <3>1. pte'[b][v] = None /\ Lazy(vmas'[b], v) = None
      BY <2>1, LazyFacts DEF ClearedAt
    <3>2. QED
      BY <3>1 DEF View
  <2>2. CASE ~(b = a /\ v \in V)
    <3>1. pte'[b][v] = pte[b][v]
      BY <2>2 DEF ClearedAt
    <3>2. \A m : Covers(m, v) => (m \in vmas[b] <=> m \in vmas'[b])
      BY <2>2
    <3>3. Lazy(vmas[b], v) = Lazy(vmas'[b], v)
      BY <3>2, <1>2, <1>3, LazySame
    <3>4. QED
      BY <1>1, <3>1, <3>3, PageStays
  <2>3. QED
    BY <2>1, <2>2
<1>5. CacheHolds'
  BY <1>1, ReleasedLines, CacheStays DEF Clear
<1>6. FilesAreMapped'
  <2> SUFFICES ASSUME NEW b \in AS, NEW v \in Page, pte'[b][v] # None, pte'[b][v].cached
               PROVE  \E m \in vmas'[b] : Covers(m, v)
    BY DEF FilesAreMapped
  <2>1. (b # a \/ v \notin V) /\ pte'[b][v] = pte[b][v]
    BY DEF ClearedAt
  <2>2. PICK m \in vmas[b] : Covers(m, v)
    BY <2>1 DEF ViewInv, FilesAreMapped
  <2>3. QED
    BY <2>1, <2>2
<1>7. QED
  BY <1>4, <1>5, <1>6

LEMMA DestroySees ==
  ASSUME FramesInv, ViewInv, NEW a \in AS, Destroy(a)
  PROVE  PagesMove /\ ViewInv'
<1> DEFINE V == IF refs[a] = 1 THEN Page ELSE {}
<1>1. /\ ClearedAt(pte, pte', a, V)
      /\ \A b \in AS : b # a => vmas'[b] = vmas[b] /\ mmapBrk'[b] = mmapBrk[b]
      /\ refs[a] = 1 => vmas'[a] = {}
      /\ refs[a] # 1 => vmas'[a] = vmas[a] /\ mmapBrk'[a] = mmapBrk[a]
  BY DestroyKeeps
<1>2. Clear(a, V)
  BY DEF Destroy
<1>3. /\ \A b \in AS : vmas'[b] \subseteq vmas[b]
      /\ \A b \in AS, v \in Page : b # a \/ v \notin V => vmas'[b] = vmas[b]
      /\ \A v \in V : vmas'[a] = {}
  BY <1>1
<1> HIDE DEF V
<1>4. PagesMove /\ CacheHolds' /\ FilesAreMapped'
  BY <1>1, <1>2, <1>3, ClearSees
<1>5. VmasApart'
  BY <1>1 DEF ViewInv, VmasApart, Apart
<1>6. QED
  BY <1>4, <1>5 DEF ViewInv

LEMMA ShrinkSees ==
  ASSUME FramesInv, ViewInv, NEW n \in HeapBase .. HeapMax, Shrink(n)
  PROVE  PagesMove /\ ViewInv'
<1>1. cur \in AS
  BY ShrinkKeeps
<1>2. PICK V \in SUBSET Heap : Clear(cur, V) /\ ClearedAt(pte, pte', cur, V)
  BY ShrinkKeeps
<1>3. UNCHANGED <<vmas, mmapBrk>>
  BY DEF Shrink
<1>4. \A v \in V : \A m \in vmas[cur] : ~Covers(m, v)
  BY <1>1, VmasAreRegions, LowIsUncovered
<1>5. PagesMove /\ CacheHolds' /\ FilesAreMapped'
  BY <1>1, <1>2, <1>3, <1>4, ClearSees
<1>6. VmasApart'
  BY <1>3 DEF ViewInv, VmasApart
<1>7. QED
  BY <1>5, <1>6 DEF ViewInv

LEMMA MunmapSees ==
  ASSUME FramesInv, ViewInv, NEW m \in Regions, Munmap(m)
  PROVE  PagesMove /\ ViewInv'
<1> DEFINE V == { v \in Page : Covers(m, v) }
<1>1. cur \in AS /\ ClearedAt(pte, pte', cur, V)
  BY MunmapKeeps
<1>2. /\ m \in vmas[cur] /\ Clear(cur, V) /\ mmapBrk' = mmapBrk
      /\ vmas' = [vmas EXCEPT ![cur] = vmas[cur] \ {m}]
  BY DEF Munmap
<1>3. vmas'[cur] = vmas[cur] \ {m} /\ \A b \in AS : b # cur => vmas'[b] = vmas[b]
  BY <1>1, <1>2 DEF FramesInv, RestTypes
<1>4. \A v \in V : \A n \in vmas'[cur] : ~Covers(n, v)
  <2> TAKE v \in V
  <2> TAKE n \in vmas'[cur]
  <2>1. vmas[cur] \in SUBSET Regions /\ Apart(vmas[cur])
    BY <1>1, VmasAreRegions DEF ViewInv, VmasApart
  <2>2. QED
    BY <2>1, <1>2, <1>3, OneCovers
<1>5. \A b \in AS, v \in Page : b # cur \/ v \notin V =>
          \A n \in vmas[b] : Covers(n, v) => n \in vmas'[b]
  BY <1>3
<1> HIDE DEF V
<1>6. PagesMove /\ CacheHolds' /\ FilesAreMapped'
  BY <1>1, <1>2, <1>3, <1>4, <1>5, ClearSees
<1>7. VmasApart'
  BY <1>2, <1>3 DEF ViewInv, VmasApart, Apart
<1>8. QED
  BY <1>6, <1>7 DEF ViewInv

LEMMA MmapSees ==
  ASSUME FramesInv, ViewInv, NEW m \in Regions, Mmap(m)
  PROVE  PagesMove /\ ViewInv'
<1>1. /\ cur \in AS /\ m.va = mmapBrk[cur]
      /\ mmapBrk' = [mmapBrk EXCEPT ![cur] = m.va + m.len]
      /\ vmas' = [vmas EXCEPT ![cur] = vmas[cur] \union {m}]
      /\ UNCHANGED <<pte, free, content, cache>>
  BY DEF Mmap, FramesInv, RestTypes, frames
<1>2. /\ vmas'[cur] = vmas[cur] \union {m} /\ \A b \in AS : b # cur => vmas'[b] = vmas[b]
      /\ mmapBrk'[cur] = m.va + m.len /\ \A b \in AS : b # cur => mmapBrk'[b] = mmapBrk[b]
  BY <1>1 DEF FramesInv, RestTypes
<1>3. \A n \in vmas[cur] : n \in Regions /\ n.va + n.len <= m.va
  BY <1>1, VmasAreRegions DEF ViewInv, VmasApart
<1>4. \A n \in Regions : n.va \in Nat /\ n.len \in Nat
  BY RegionFacts, NumberFacts DEF Mapping
<1>5. VmasApart'
  <2>1. Apart(vmas'[cur])
    BY <1>2, <1>3, <1>1 DEF ViewInv, VmasApart, Apart
  <2>2. \A n \in vmas'[cur] : n.va + n.len <= mmapBrk'[cur]
    <3> TAKE n \in vmas'[cur]
    <3>1. CASE n = m
      BY <3>1, <1>2, <1>4
    <3>2. CASE n # m
      <4>1. n \in Regions /\ n.va + n.len <= m.va
        BY <3>2, <1>2, <1>3
      <4>2. QED
        BY <4>1, <1>2, <1>4
    <3>3. QED
      BY <3>1, <3>2
  <2>3. QED
    BY <2>1, <2>2, <1>2 DEF ViewInv, VmasApart
<1>6. PagesMove
  <2> SUFFICES ASSUME NEW b \in AS, NEW v \in Page
               PROVE  \/ View(b, v)' = View(b, v)
                      \/ View(b, v)' = None
                      \/ View(b, v) = None /\ View(b, v)' \in NewPage
    BY DEF PagesMove
  <2>1. CASE pte[b][v] # None
    BY <2>1, <1>1 DEF View
  <2>2. CASE pte[b][v] = None /\ b = cur /\ Covers(m, v)
    <3>1. \A n \in vmas[b] : ~Covers(n, v)
      <4> SUFFICES ASSUME NEW n \in vmas[b], Covers(n, v) PROVE FALSE
        OBVIOUS
      <4>1. n \in Regions /\ n.va + n.len <= m.va
        BY <2>2, <1>3
      <4>2. v \in Nat /\ m.va <= v /\ v < n.va + n.len
        BY <2>2, PageNumbers, NumberFacts DEF Covers
      <4>3. QED
        BY <4>1, <4>2, <1>4
    <3>2. View(b, v) = None
      BY <2>2, <3>1, LazyFacts DEF View
    <3>3. View(b, v)' \in NewPage \union {None}
      BY <2>2, <1>1, LazyFacts DEF View
    <3>4. QED
      BY <3>2, <3>3
  <2>3. CASE pte[b][v] = None /\ ~(b = cur /\ Covers(m, v))
    <3>1. \A n : Covers(n, v) => (n \in vmas[b] <=> n \in vmas'[b])
      BY <2>3, <1>2
    <3>2. /\ vmas[b] \in SUBSET Regions /\ Apart(vmas[b])
          /\ vmas'[b] \in SUBSET Regions /\ Apart(vmas'[b])
      BY <1>2, <1>5, VmasAreRegions DEF ViewInv, VmasApart
    <3>3. Lazy(vmas[b], v) = Lazy(vmas'[b], v)
      BY <3>1, <3>2, LazySame
    <3>4. QED
      BY <2>3, <3>3, <1>1 DEF View
  <2>4. QED
    BY <2>1, <2>2, <2>3
<1>7. CacheHolds' /\ FilesAreMapped'
  BY <1>1, <1>2 DEF ViewInv, CacheHolds, FilesAreMapped
<1>8. QED
  BY <1>5, <1>6, <1>7 DEF ViewInv

\* A fault changes nothing that is seen.
LEMMA FaultSees ==
  ASSUME FramesInv, ViewInv, cur \in AS, NEW v \in Page, UNCHANGED <<vmas, mmapBrk>>,
         \A a \in AS, u \in Page : a # cur \/ u # v => /\ pte'[a][u] = pte[a][u]
                                                       /\ pte[a][u] # None => content'[pte[a][u].frame] = content[pte[a][u].frame],
         pte'[cur][v] # None, content'[pte'[cur][v].frame] = View(cur, v),
         pte'[cur][v].cached => \E m \in vmas[cur] : Covers(m, v), CacheHolds'
  PROVE  PagesMove /\ ViewInv'
<1>1. PagesMove
  <2> SUFFICES ASSUME NEW a \in AS, NEW u \in Page PROVE View(a, u)' = View(a, u)
    BY DEF PagesMove
  <2>1. CASE a = cur /\ u = v
    <3>1. View(a, u)' = content'[pte'[a][u].frame]
      BY <2>1 DEF View
    <3>2. QED
      BY <2>1, <3>1
  <2>2. CASE ~(a = cur /\ u = v)
    BY <2>2 DEF View
  <2>3. QED
    BY <2>1, <2>2
<1>2. VmasApart'
  BY DEF ViewInv, VmasApart
<1>3. FilesAreMapped'
  BY DEF ViewInv, FilesAreMapped
<1>4. QED
  BY <1>1, <1>2, <1>3 DEF ViewInv

LEMMA CowFaultSees ==
  ASSUME FramesInv, ViewInv, NEW v \in Page, CowFault(v)
  PROVE  PagesMove /\ ViewInv'
<1>1. /\ cur \in AS /\ pte[cur][v] # None
      /\ pte'[cur][v] # None /\ pte'[cur][v].cached = FALSE
      /\ content'[pte'[cur][v].frame] = content[pte[cur][v].frame]
      /\ \A a \in AS, u \in Page : a # cur \/ u # v => pte'[a][u] = pte[a][u]
      /\ OnlyFreeChange
  BY CowFaultKeeps DEF OnlyFreeChange
<1>2. UNCHANGED <<vmas, mmapBrk, cache>>
  BY DEF CowFault, spaces
<1>3. CacheHolds'
  BY <1>1, <1>2, CacheStays
<1>4. \A a \in AS, u \in Page : pte[a][u] # None => content'[pte[a][u].frame] = content[pte[a][u].frame]
  BY <1>1, MappedIsTaken DEF FramesInv, BooksNow, OnlyFreeChange
<1>5. content'[pte'[cur][v].frame] = View(cur, v)
  BY <1>1 DEF View
<1>6. QED
  BY <1>1, <1>2, <1>3, <1>4, <1>5, FaultSees

\* The mapping that a touched page belongs to is the one it reads from.
LEMMA TouchedView ==
  ASSUME FramesInv, ViewInv, NEW v \in Page, NEW m \in Regions, Touches(v, m)
  PROVE  View(cur, v) = Promised(m, v) /\ m \in vmas[cur] /\ Covers(m, v)
<1>1. cur \in AS /\ pte[cur][v] = None
  BY TouchFacts
<1>2. m \in vmas[cur] /\ Covers(m, v)
  BY DEF Touches
<1>3. vmas[cur] \in SUBSET Regions /\ Apart(vmas[cur])
  BY <1>1, VmasAreRegions DEF ViewInv, VmasApart
<1>4. QED
  BY <1>1, <1>2, <1>3, LazyOf DEF View

LEMMA AnonFaultSees ==
  ASSUME FramesInv, ViewInv, NEW v \in Page, NEW m \in Regions, AnonFault(v, m)
  PROVE  PagesMove /\ ViewInv'
<1>1. /\ cur \in AS /\ pte[cur][v] = None
      /\ \A a \in AS, u \in Page : a # cur \/ u # v => pte'[a][u] = pte[a][u]
  BY AnonFaultKeeps
<1>2. PICK f \in free : content' = Zeroed({f}) /\ OwnEntry(pte'[cur][v], f)
  BY AnonFaultKeeps
<1>3. UNCHANGED <<vmas, mmapBrk, cache>> /\ Touches(v, m) /\ m.kind = "anon"
  BY DEF AnonFault, spaces
<1>4. f \in Frame
  BY DEF FramesInv, BooksNow, Books, BookTypes
<1>5. OnlyFreeChange /\ content'[f] = Zero
  BY <1>2, <1>4 DEF OnlyFreeChange, Zeroed
<1>6. CacheHolds'
  BY <1>3, <1>5, CacheStays
<1>7. \A a \in AS, u \in Page : pte[a][u] # None => content'[pte[a][u].frame] = content[pte[a][u].frame]
  BY <1>5, MappedIsTaken DEF FramesInv, BooksNow, OnlyFreeChange
<1>8. pte'[cur][v] # None /\ ~pte'[cur][v].cached /\ content'[pte'[cur][v].frame] = View(cur, v)
  BY <1>2, <1>3, <1>5, TouchedView DEF OwnEntry, Promised
<1>9. QED
  BY <1>1, <1>3, <1>6, <1>7, <1>8, FaultSees

LEMMA FileHitSees ==
  ASSUME FramesInv, ViewInv, NEW v \in Page, NEW m \in Regions, FileHit(v, m)
  PROVE  PagesMove /\ ViewInv'
<1>1. PICK i \in DOMAIN cache :
          /\ cache[i].key = KeyAt(m, v) /\ BorrowsAt(pte, pte', cur, v, cache[i].frame)
          /\ cache' = Append(RemoveAt(cache, i), [cache[i] EXCEPT !.refs = @ + 1])
  BY FileHitKeeps
<1>2. cur \in AS
  BY FileHitKeeps
<1>3. UNCHANGED <<vmas, mmapBrk, content>> /\ Touches(v, m) /\ m.kind = "file"
  BY DEF FileHit, spaces, frames
<1>4. content[cache[i].frame] = View(cur, v)
  <2>1. Promised(m, v) = Data(KeyAt(m, v))
    BY <1>3 DEF Promised
  <2>2. QED
    BY <1>1, <1>3, <2>1, TouchedView DEF ViewInv, CacheHolds
<1>5. CacheHolds'
  <2> DEFINE x == [cache[i] EXCEPT !.refs = @ + 1]
  <2> DEFINE t == RemoveAt(cache, i)
  <2>1. cache \in Seq(LineType) /\ cache[i] \in LineType
    BY DEF FramesInv, BooksNow, Books, BookTypes
  <2>2. x \in LineType /\ x.key = cache[i].key /\ x.frame = cache[i].frame
    BY <2>1, CountedLine
  <2>3. t \in Seq(LineType) /\ \A j \in DOMAIN t : \E k \in DOMAIN cache : t[j] = cache[k]
    BY <2>1, OtherLines
  <2>4. cache' = Append(t, x)
    BY <1>1
  <2> HIDE DEF x, t
  <2>5. \A j \in DOMAIN cache' : (j \in DOMAIN t /\ cache'[j] = t[j]) \/ cache'[j] = x
    BY <2>2, <2>3, <2>4, AppendLine
  <2>6. \A j \in DOMAIN cache' : \E k \in DOMAIN cache :
            cache'[j].key = cache[k].key /\ cache'[j].frame = cache[k].frame
    BY <2>2, <2>3, <2>5
  <2>7. OnlyFreeChange
    BY <1>3 DEF OnlyFreeChange
  <2>8. QED
    BY <2>6, <2>7, CacheStays
<1>6. /\ pte'[cur][v] # None /\ pte'[cur][v].frame = cache[i].frame
      /\ \A a \in AS, u \in Page : a # cur \/ u # v => pte'[a][u] = pte[a][u]
  BY <1>1 DEF BorrowsAt
<1>7. \E n \in vmas[cur] : Covers(n, v)
  BY <1>3 DEF Touches
<1>8. QED
  BY <1>2, <1>3, <1>4, <1>5, <1>6, <1>7, FaultSees

LEMMA FileMissSees ==
  ASSUME FramesInv, ViewInv, NEW v \in Page, NEW m \in Regions, FileMiss(v, m)
  PROVE  PagesMove /\ ViewInv'
<1> DEFINE k == KeyAt(m, v)
<1>1. PICK kept, unused, f :
          /\ Books(pte, rc, unused, kept) /\ f \in unused
          /\ \A j \in DOMAIN kept : \E i \in DOMAIN cache : kept[j] = cache[i]
          /\ content' = [content EXCEPT ![f] = Data(k)]
          /\ cache' = Append(kept, Line(k, f, 1))
          /\ BorrowsAt(pte, pte', cur, v, f)
  BY FileMissKeeps
<1>2. cur \in AS
  BY FileMissKeeps
<1>3. UNCHANGED <<vmas, mmapBrk>> /\ Touches(v, m) /\ m.kind = "file"
  BY DEF FileMiss, spaces
<1>4. f \in Frame /\ kept \in Seq(LineType) /\ k \in Nat
  <2>1. Covers(m, v)
    BY <1>3 DEF Touches
  <2>2. k \in Nat
    BY <2>1, TouchedKey
  <2>3. QED
    BY <1>1, <2>2 DEF Books, BookTypes
<1> HIDE DEF k
<1>5. content'[f] = Data(k) /\ \A g \in Frame : g # f => content'[g] = content[g]
  BY <1>1, <1>4 DEF FramesInv, RestTypes
<1>6. content'[f] = View(cur, v)
  BY <1>3, <1>5, TouchedView DEF Promised, k
<1>7. /\ \A a \in AS, u \in Page : pte[a][u] # None => pte[a][u].frame \in Frame /\ pte[a][u].frame # f
      /\ \A j \in DOMAIN kept : kept[j].frame \in Frame /\ kept[j].frame # f
  BY <1>1, MappedIsTaken
<1>8. CacheHolds'
  <2> DEFINE x == Line(k, f, 1)
  <2>1. x \in LineType /\ x.key = k /\ x.frame = f
    BY <1>4 DEF Line, LineType
  <2>2. cache' = Append(kept, x)
    BY <1>1
  <2> HIDE DEF x
  <2>3. \A j \in DOMAIN cache' : (j \in DOMAIN kept /\ cache'[j] = kept[j]) \/ cache'[j] = x
    BY <2>1, <2>2, <1>4, AppendLine
  <2>4. \A j \in DOMAIN kept : content'[kept[j].frame] = Data(kept[j].key)
    BY <1>1, <1>5, <1>7 DEF ViewInv, CacheHolds
  <2>5. QED
    BY <2>1, <2>3, <2>4, <1>5 DEF CacheHolds
<1>9. /\ pte'[cur][v] # None /\ pte'[cur][v].frame = f
      /\ \A a \in AS, u \in Page : a # cur \/ u # v => pte'[a][u] = pte[a][u]
  BY <1>1 DEF BorrowsAt
<1>10. \E n \in vmas[cur] : Covers(n, v)
  BY <1>3 DEF Touches
<1>11. \A a \in AS, u \in Page : pte[a][u] # None => content'[pte[a][u].frame] = content[pte[a][u].frame]
  BY <1>5, <1>7
<1>12. QED
  BY <1>2, <1>3, <1>6, <1>8, <1>9, <1>10, <1>11, FaultSees

\* A store is seen by the address space that makes it.
LEMMA StoreSees ==
  ASSUME FramesInv, ViewInv, NEW v \in Page, NEW x \in Written, Store(v, x)
  PROVE  /\ ViewInv' /\ cur \in AS /\ View(cur, v) # None
         /\ \A a \in AS, u \in Page : View(a, u)' = IF a = cur /\ u = v THEN x ELSE View(a, u)
<1> DEFINE f == pte[cur][v].frame
<1>1. /\ cur \in AS /\ pte[cur][v] # None /\ pte[cur][v].rw
      /\ content' = [content EXCEPT ![f] = x]
  BY DEF FramesInv, RestTypes, TlbSound, Store, Translation
<1>2. UNCHANGED <<pte, vmas, mmapBrk, cache>>
  BY DEF Store, spaces
<1>3. Books(pte, rc, free, cache)
  BY DEF FramesInv, BooksNow
<1>4. f \in Frame /\ Owners(pte, f) = {<<cur, v>>}
  BY <1>1, <1>3, EntryOf DEF Books, BookTypes, PrivateWrites
<1>5. ~InCache(cache, f) /\ Borrowers(pte, f) = {}
  BY <1>3, <1>4 DEF Books, Placed
<1> HIDE DEF f
<1>6. content'[f] = x /\ \A g \in Frame : g # f => content'[g] = content[g]
  BY <1>1, <1>4 DEF FramesInv, RestTypes
<1>7. ASSUME NEW a \in AS, NEW u \in Page, pte[a][u] # None, ~(a = cur /\ u = v)
      PROVE  pte[a][u].frame \in Frame /\ pte[a][u].frame # f
  <2>1. pte[a][u].frame \in Frame /\ pte[a][u].cached \in BOOLEAN
    BY <1>3, <1>7, EntryOf DEF Books, BookTypes
  <2>2. SUFFICES ASSUME pte[a][u].frame = f PROVE FALSE
    BY <2>1
  <2>3. CASE pte[a][u].cached = TRUE
    <3>1. Maps(pte, a, u, f, TRUE)
      BY <1>7, <2>2, <2>3 DEF Maps
    <3>2. QED
      BY <3>1, <1>5, HoldersAt DEF Borrowers
  <2>4. CASE pte[a][u].cached = FALSE
    <3>1. Maps(pte, a, u, f, FALSE)
      BY <1>7, <2>2, <2>4 DEF Maps
    <3>2. <<a, u>> \in {<<cur, v>>}
      BY <3>1, <1>4, HoldersAt DEF Owners
    <3>3. QED
      BY <3>2, <1>7
  <2>5. QED
    BY <2>1, <2>3, <2>4
<1>8. \A a \in AS, u \in Page : View(a, u)' = IF a = cur /\ u = v THEN x ELSE View(a, u)
  <2> TAKE a \in AS, u \in Page
  <2>1. CASE a = cur /\ u = v
    BY <2>1, <1>1, <1>2, <1>6 DEF View, f
  <2>2. CASE ~(a = cur /\ u = v)
    BY <2>2, <1>2, <1>6, <1>7 DEF View
  <2>3. QED
    BY <2>1, <2>2
<1>9. View(cur, v) # None
  BY <1>1, <1>4, NumberFacts DEF View, f, FramesInv, RestTypes
<1>10. CacheHolds'
  <2>1. \A i \in DOMAIN cache : cache[i].frame \in Frame /\ cache[i].frame # f
    BY <1>3, <1>5, MappedIsTaken DEF InCache
  <2>2. QED
    BY <2>1, <1>2, <1>6 DEF ViewInv, CacheHolds
<1>11. VmasApart' /\ FilesAreMapped'
  BY <1>2 DEF ViewInv, VmasApart, FilesAreMapped
<1>12. QED
  BY <1>1, <1>8, <1>9, <1>10, <1>11 DEF ViewInv

\* The child reads what the parent reads, but for some pages of mappings.
LEMMA ForkSees ==
  ASSUME FramesInv, ViewInv, NEW b \in AS, Fork(b)
  PROVE  /\ ViewInv' /\ cur \in AS /\ \A v \in Page : View(b, v) = None
         /\ \A a \in AS, v \in Page : a # b => View(a, v)' = View(a, v)
         /\ \A v \in Page : View(b, v)' = View(cur, v) \/ (View(b, v)' = None /\ v \in Mapping)
<1>1. cur \in AS /\ refs[b] = 0 /\ SharesAt(pte, pte', cur, b)
  BY ForkKeeps
<1>2. UNCHANGED <<vmas, mmapBrk, content, cache>>
  BY DEF Fork
<1>3. /\ b # cur /\ vmas[b] = {} /\ \A v \in Page : pte[b][v] = None
      /\ \A d \in AS \ {cur, b} : \A v \in Page : pte'[d][v] = pte[d][v]
  BY <1>1 DEF SharesAt, FramesInv, FreshWhenFree
<1>4. \A v \in Page : IF pte[cur][v] # None /\ ~pte[cur][v].cached
                      THEN /\ pte'[cur][v] # None /\ pte'[cur][v].frame = pte[cur][v].frame
                           /\ pte'[cur][v].cached = FALSE /\ pte'[b][v] = pte'[cur][v]
                      ELSE pte'[cur][v] = pte[cur][v] /\ pte'[b][v] = None
  BY <1>1 DEF SharesAt
<1>5. \A v \in Page : View(b, v) = None
  BY <1>3, LazyFacts DEF View
<1>6. ASSUME NEW a \in AS, NEW v \in Page, a # b PROVE View(a, v)' = View(a, v)
  BY <1>2, <1>3, <1>4, <1>6 DEF View
<1>7. ASSUME NEW v \in Page PROVE View(b, v)' = View(cur, v) \/ (View(b, v)' = None /\ v \in Mapping)
  <2>1. CASE pte[cur][v] # None /\ ~pte[cur][v].cached
    BY <2>1, <1>2, <1>4 DEF View
  <2>2. CASE ~(pte[cur][v] # None /\ ~pte[cur][v].cached)
    <3>1. View(b, v)' = None
      BY <2>2, <1>2, <1>3, <1>4, LazyFacts DEF View
    <3>2. CASE \E m \in vmas[cur] : Covers(m, v)
      <4>1. v \in Mapping
        BY <3>2, <1>1, VmasAreRegions, LowIsUncovered DEF Page
      <4>2. QED
        BY <3>1, <4>1
    <3>3. CASE \A m \in vmas[cur] : ~Covers(m, v)
      <4>1. pte[cur][v] = None
        BY <2>2, <3>3, <1>1 DEF ViewInv, FilesAreMapped
      <4>2. View(cur, v) = None
        BY <4>1, <3>3, LazyFacts DEF View
      <4>3. QED
        BY <3>1, <4>2
    <3>4. QED
      BY <3>2, <3>3
  <2>3. QED
    BY <2>1, <2>2
<1>8. FilesAreMapped'
  <2> SUFFICES ASSUME NEW a \in AS, NEW v \in Page, pte'[a][v] # None, pte'[a][v].cached
               PROVE  \E m \in vmas[a] : Covers(m, v)
    BY <1>2 DEF FilesAreMapped
  <2>1. a # b /\ pte'[a][v] = pte[a][v]
    BY <1>3, <1>4
  <2>2. QED
    BY <2>1 DEF ViewInv, FilesAreMapped
<1>9. VmasApart' /\ CacheHolds'
  BY <1>2 DEF ViewInv, VmasApart, CacheHolds
<1>10. QED
  BY <1>1, <1>5, <1>6, <1>7, <1>8, <1>9 DEF ViewInv
-----------------------------------------------------------------------------
PageStored ==
    \E a \in AS, v \in Page, x \in Value :
        /\ View(a, v) # None
        /\ \A c \in AS, u \in Page : View(c, u)' = IF c = a /\ u = v THEN x ELSE View(c, u)

Forked ==
    \E a \in AS, b \in AS :
        /\ \A v \in Page : View(b, v) = None
        /\ \A c \in AS, v \in Page : c # b => View(c, v)' = View(c, v)
        /\ \A v \in Page : View(b, v)' = View(a, v) \/ (View(b, v)' = None /\ v \in Mapping)

LEMMA ViewStep ==
  ASSUME ~Retries, FramesInv, ViewInv, [Next]_vars
  PROVE  ViewInv' /\ (PagesMove \/ PageStored \/ Forked)
<1>1. ASSUME UNCHANGED <<pte, content, vmas, mmapBrk, cache>> PROVE ViewInv' /\ PagesMove
  <2>1. SameFrames(pte, pte')
    BY <1>1 DEF SameFrames
  <2>2. QED
    BY <1>1, <2>1, StillSees
<1>2. ASSUME NEW a \in AS, Spawn(a) \/ Exec(a) \/ Destroy(a) PROVE ViewInv' /\ PagesMove
  BY <1>2, SpawnSees, ExecSees, DestroySees
<1>3. ASSUME NEW b \in AS, Fork(b) PROVE ViewInv' /\ Forked
  BY <1>3, ForkSees DEF Forked
<1>4. ASSUME NEW a \in AS \union {None}, Switch(a) PROVE ViewInv' /\ PagesMove
  BY <1>1, <1>4 DEF Switch, spaces, frames
<1>5. ASSUME Share PROVE ViewInv' /\ PagesMove
  BY <1>1, <1>5 DEF Share, frames
<1>6. ASSUME NEW v \in Page, Walk(v) PROVE ViewInv' /\ PagesMove
  BY <1>1, <1>6 DEF Walk, spaces, frames
<1>7. ASSUME NEW v \in Page, CowFault(v) PROVE ViewInv' /\ PagesMove
  BY <1>7, CowFaultSees
<1>8. ASSUME NEW v \in Page, ForkFails(v) PROVE ViewInv' /\ PagesMove
  <2>1. SameFrames(pte, pte')
    BY <1>8, ForkFailsKeeps
  <2>2. UNCHANGED <<content, vmas, mmapBrk, cache>>
    BY <1>8 DEF ForkFails, spaces
  <2>3. QED
    BY <2>1, <2>2, StillSees
<1>9. ASSUME NEW v \in Page, NEW x \in Written, Store(v, x) PROVE ViewInv' /\ PageStored
  <2>1. /\ ViewInv' /\ cur \in AS /\ View(cur, v) # None
        /\ \A a \in AS, u \in Page : View(a, u)' = IF a = cur /\ u = v THEN x ELSE View(a, u)
    BY <1>9, StoreSees
  <2>2. x \in Value
    BY NumberFacts
  <2>3. QED
    BY <2>1, <2>2 DEF PageStored
<1>10. ASSUME NEW v \in Page, NEW m \in Regions, AnonFault(v, m) \/ FileHit(v, m) \/ FileMiss(v, m)
       PROVE  ViewInv' /\ PagesMove
  BY <1>10, AnonFaultSees, FileHitSees, FileMissSees
<1>11. ASSUME NEW n \in HeapBase .. HeapMax, Grow(n) \/ Shrink(n) PROVE ViewInv' /\ PagesMove
  BY <1>11, GrowSees, ShrinkSees
<1>12. ASSUME NEW m \in Regions, Mmap(m) \/ Munmap(m) PROVE ViewInv' /\ PagesMove
  BY <1>12, MmapSees, MunmapSees
<1>13. ASSUME UNCHANGED vars PROVE ViewInv' /\ PagesMove
  BY <1>1, <1>13 DEF vars, spaces, frames
<1>14. QED
  BY <1>2, <1>3, <1>4, <1>5, <1>6, <1>7, <1>8, <1>9, <1>10, <1>11, <1>12, <1>13 DEF Next

\* What the mapping of the refinement needs in every state.
MemoryInv ==
    /\ FramesInv /\ ViewInv
    /\ \A a \in AS, v \in Page : Seen(a, v) = View(a, v) /\ View(a, v) \in Value \union {None}

LEMMA MemoryFacts == FramesInv /\ ViewInv => MemoryInv
BY SeenIsView, ViewTypes DEF MemoryInv

LEMMA MemoryInvariant == ASSUME ~Retries PROVE Spec => []MemoryInv
<1>1. Init => FramesInv /\ ViewInv
  BY FramesStart, ViewStarts
<1>2. FramesInv /\ ViewInv /\ [Next]_vars => FramesInv' /\ ViewInv'
  BY FramesStep, FramesStutter, ViewStep
<1>3. QED
  BY <1>1, <1>2, MemoryFacts, PTL DEF Spec

LEMMA StepIsPrivate ==
  ASSUME ~Retries, MemoryInv, MemoryInv', [Next]_vars
  PROVE  PM!Next
<1> DEFINE M == [a \in AS |-> [v \in Page |-> View(a, v)]]
<1> DEFINE N == [a \in AS |-> [v \in Page |-> View(a, v)']]
<1>1. [a \in AS |-> [v \in Page |-> Seen(a, v)]] = M
  BY DEF MemoryInv
<1>2. [a \in AS |-> [v \in Page |-> Seen(a, v)]]' = N
  BY DEF MemoryInv
<1>3. /\ M \in [AS -> [Page -> Value \union {None}]] /\ N \in [AS -> [Page -> Value \union {None}]]
      /\ \A a \in AS, v \in Page : M[a][v] = View(a, v) /\ N[a][v] = View(a, v)'
  BY DEF MemoryInv
<1> HIDE DEF M, N
<1>4. CASE PagesMove
  <2>1. \A a \in AS, v \in Page :
            N[a][v] \in {M[a][v], None} \union IF M[a][v] = None THEN NewPage ELSE {}
    BY <1>3, <1>4 DEF PagesMove
  <2>2. PM!Remap
    BY <1>1, <1>2, <1>3, <2>1 DEF PM!Remap, NewPage
  <2>3. QED
    BY <2>2 DEF PM!Next
<1>5. CASE PageStored
  <2>1. PICK a \in AS, v \in Page, x \in Value :
            /\ View(a, v) # None
            /\ \A c \in AS, u \in Page : View(c, u)' = IF c = a /\ u = v THEN x ELSE View(c, u)
    BY <1>5 DEF PageStored
  <2>2. M[a][v] # None /\ N = [M EXCEPT ![a] = [M[a] EXCEPT ![v] = x]]
    BY <1>3, <2>1
  <2>3. PM!Store(a, v, x)
    BY <1>1, <1>2, <2>2 DEF PM!Store
  <2>4. QED
    BY <2>3 DEF PM!Next
<1>6. CASE Forked
  <2>1. PICK a \in AS, b \in AS :
            /\ \A v \in Page : View(b, v) = None
            /\ \A c \in AS, v \in Page : c # b => View(c, v)' = View(c, v)
            /\ \A v \in Page : View(b, v)' = View(a, v) \/ (View(b, v)' = None /\ v \in Mapping)
    BY <1>6 DEF Forked
  <2> DEFINE lost == { v \in Mapping : v \in Page /\ N[b][v] = None }
  <2>2. N = [M EXCEPT ![b] = [v \in Page |-> IF v \in lost THEN None ELSE M[a][v]]]
    BY <1>3, <2>1
  <2>3. lost \in SUBSET Mapping
    OBVIOUS
  <2> HIDE DEF lost
  <2>4. \A v \in Page : M[b][v] = None
    BY <1>3, <2>1
  <2>5. PM!Fork(a, b)
    <3> DEFINE S == [c \in AS |-> [v \in Page |-> Seen(c, v)]]
    <3>1. S = M /\ S' = N
      BY <1>1, <1>2
    <3>2. SUFFICES /\ \A v \in Page : S[b][v] = None
                   /\ \E X \in SUBSET Mapping :
                          S' = [S EXCEPT ![b] = [v \in Page |-> IF v \in X THEN None ELSE S[a][v]]]
      BY Zenon DEF PM!Fork
    <3> HIDE DEF S
    <3>3. S' = [S EXCEPT ![b] = [v \in Page |-> IF v \in lost THEN None ELSE S[a][v]]]
      BY ONLY <2>2, <3>1, Zenon
    <3>4. QED
      BY ONLY <2>3, <2>4, <3>1, <3>3, Zenon
  <2>6. QED
    BY <2>5 DEF PM!Next
<1>7. QED
  BY <1>4, <1>5, <1>6, ViewStep DEF MemoryInv

\* ImplementsPrivateMemory of address_space.c: whatever is shared copy-on-write, mapped at the first
\* touch or taken from the page cache, every program reads a memory of its own, in which a page
\* changes only when that program writes to it, and which a fork copies.  ~Retries as above.
THEOREM MemoryIsPrivate == ASSUME ~Retries PROVE Spec => ImplementsPrivateMemory
<1>1. Init => PM!Init
  <2> SUFFICES ASSUME Init PROVE PM!Init
    OBVIOUS
  <2>1. MemoryInv
    BY FramesStart, ViewStarts, MemoryFacts
  <2>2. \A a \in AS, v \in Page : View(a, v) = None
    <3> TAKE a \in AS, v \in Page
    <3>1. pte[a][v] = None /\ vmas[a] = {}
      BY DEF Init, NoPages
    <3>2. QED
      BY <3>1, LazyFacts DEF View
  <2>3. QED
    BY <2>1, <2>2 DEF PM!Init, MemoryInv
<1>2. MemoryInv /\ MemoryInv' /\ [Next]_vars => PM!Next
  BY StepIsPrivate
<1>3. QED
  BY <1>1, <1>2, MemoryInvariant, PTL DEF Spec, PM!Spec, ImplementsPrivateMemory
=============================================================================
