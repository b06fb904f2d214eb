------------------------------- MODULE WinFb -------------------------------
(***************************************************************************)
(* One shared frame buffer (kernel/core/win_fb.c): the window server       *)
(* allocates it, its clients map it, and a resize gives it new pages while *)
(* clients still draw through the old ones.                                *)
(*                                                                         *)
(* The pages of one size are a run of pages.  A resize parks the old run   *)
(* in a stale generation for the clients that have it mapped; each client  *)
(* moves on to the current run at its next map call, and the last one to   *)
(* leave a generation frees its run.  Every process has one thread here,   *)
(* and none calls exec while it has a frame buffer mapped.                 *)
(***************************************************************************)
EXTENDS Integers, FiniteSets, FiniteSetsExt

CONSTANTS Mappers,   \* the processes that may map the frame buffer
          Server,    \* its owner
          MaxMaps,   \* WIN_FB_MAX_MAPPINGS
          MaxStale   \* WIN_FB_MAX_STALE_GEN

ASSUME FbAssumption ==
    IsFiniteSet(Mappers) /\ Server \notin Mappers /\ MaxMaps \in Nat /\ MaxStale \in Nat \ {0}

Runs == 1 .. MaxStale + 2     \* runs of pages: the current, the stale and a new one
Gens == 0 .. MaxStale - 1

VARIABLES run,       \* fb->pages: the current run, 0 for no frame buffer
          ownerVa,   \* whether fb->owner_va is not 0
          maps,      \* fb->mappings: the mappers with an entry, what run its va shows (0 for
                     \*   va = 0), and the generation, -1 for the current
          stale,     \* fb->stale: the run (0 for an unused entry) and ref_count
          allocated, \* the runs taken from the page allocator
          installed, \* per process: the runs its page table maps
          forced     \* history: the processes whose mapping was taken away by a recycle

fbVars == <<run, ownerVa, maps, stale, allocated, installed, forced>>

NoMap == [used |-> FALSE, shows |-> 0, gen |-> -1]
NoGen == [run |-> 0, refs |-> 0]

FbInit ==
    /\ run = 0 /\ ownerVa = FALSE
    /\ maps = [p \in Mappers |-> NoMap]
    /\ stale = [g \in Gens |-> NoGen]
    /\ allocated = {}
    /\ installed = [p \in Mappers \union {Server} |-> {}]
    /\ forced = {}

UsedMaps == {p \in Mappers : maps[p].used}
Current  == {p \in Mappers : maps[p].used /\ maps[p].gen < 0 /\ maps[p].shows # 0}
FreeRun  == Min(Runs \ allocated)

\* stale_gen_unref: the last referent frees the run.
Unref(st, g) == IF st[g].refs <= 1 THEN [st EXCEPT ![g] = NoGen] ELSE [st EXCEPT ![g].refs = @ - 1]
Freed(st, g) == IF g >= 0 /\ st[g].refs <= 1 THEN {st[g].run} ELSE {}

\* sys_win_fb_alloc: nothing stays behind when the pages, the mapping or the copy out fail.
Alloc ==
    /\ run = 0 /\ run' = FreeRun /\ ownerVa' = TRUE
    /\ allocated' = allocated \union {run'}
    /\ installed' = [installed EXCEPT ![Server] = {run'}]
    /\ UNCHANGED <<maps, stale, forced>>

\* sys_win_fb_map by a process with no entry (one with a current mapping gets its va again):
\* -ENOSPC when all entries are taken; a failing install leaves nothing.
MapNew(p) ==
    /\ run # 0 /\ ~maps[p].used /\ Cardinality(UsedMaps) < MaxMaps
    /\ maps' = [maps EXCEPT ![p] = [used |-> TRUE, shows |-> run, gen |-> -1]]
    /\ installed' = [installed EXCEPT ![p] = @ \union {run}]
    /\ UNCHANGED <<run, ownerVa, stale, allocated, forced>>

\* Mutant: the entry moves on, its reference stays.
Refresh_NoUnref(p) ==
    LET m == maps[p]
    IN  /\ run # 0 /\ m.used /\ (m.gen >= 0 \/ m.shows = 0)
        /\ maps' = [maps EXCEPT ![p] = [m EXCEPT !.shows = run, !.gen = -1]]
        /\ installed' = [installed EXCEPT ![p] = (@ \ {m.shows}) \union {run}]
        /\ UNCHANGED <<run, ownerVa, stale, allocated, forced>>

\* sys_win_fb_map by a process whose entry is stale or was emptied: the old va goes, then the
\* reference on its generation, then the current run is installed; when that fails the entry
\* is dropped.
Refresh(p) ==
    LET m == maps[p]
    IN  /\ run # 0 /\ m.used /\ (m.gen >= 0 \/ m.shows = 0)
        /\ stale' = IF m.gen >= 0 THEN Unref(stale, m.gen) ELSE stale
        /\ allocated' = allocated \ Freed(stale, m.gen)
        /\ \E ok \in BOOLEAN :
              /\ maps' = [maps EXCEPT ![p] = IF ok THEN [m EXCEPT !.shows = run, !.gen = -1] ELSE NoMap]
              /\ installed' = [installed EXCEPT ![p] = (@ \ {m.shows}) \union (IF ok THEN {run} ELSE {})]
        /\ UNCHANGED <<run, ownerVa, forced>>

\* stale_gen_alloc: an unused generation, or the first of those with the fewest references,
\* whose mappings are taken away.
GenFor ==
    LET unused == {g \in Gens : stale[g].run = 0}
        fewest == {g \in Gens : \A h \in Gens : stale[g].refs <= stale[h].refs}
    IN  IF unused # {} THEN Min(unused) ELSE Min(fewest)

\* sys_win_fb_resize: any thread of the owner; without the pages or the array nothing happens.
\* The owner's own mapping is replaced at once, and lost when that install fails.
Resize ==
    LET new   == FreeRun
        g     == GenFor
        taken == IF Current = {} THEN {} ELSE {p \in Mappers : maps[p].used /\ maps[p].gen = g}
        gone  == IF Current = {} THEN {run} ELSE {stale[g].run} \ {0}
    IN  /\ run # 0 /\ run' = new
        /\ stale' = IF Current = {} THEN stale
                    ELSE [stale EXCEPT ![g] = [run |-> run, refs |-> Cardinality(Current)]]
        /\ maps' = [p \in Mappers |->
                       IF p \in Current THEN [maps[p] EXCEPT !.gen = g]
                       ELSE IF p \in taken THEN [maps[p] EXCEPT !.shows = 0, !.gen = -1]
                       ELSE maps[p]]
        /\ forced' = forced \union taken
        /\ allocated' = (allocated \ gone) \union {new}
        /\ ownerVa' \in BOOLEAN
        /\ installed' = [p \in DOMAIN installed |->
                            IF p = Server THEN IF ownerVa' THEN {new} ELSE {}
                            ELSE IF p \in taken THEN installed[p] \ {maps[p].shows}
                            ELSE installed[p]]

\* destroy_fb, of sys_win_fb_free and of the owner's exit: every mapping is uninstalled, then
\* every run freed.
Destroyed(skip) ==
    /\ run # 0 /\ run' = 0 /\ ownerVa' = FALSE
    /\ maps' = [p \in Mappers |-> NoMap]
    /\ stale' = [g \in Gens |-> NoGen]
    /\ allocated' = allocated \ ({run} \union {stale[g].run : g \in Gens})
    /\ installed' = [p \in DOMAIN installed |->
                        IF p = Server THEN IF skip \/ ownerVa THEN {} ELSE installed[p]
                        ELSE IF maps[p].used THEN installed[p] \ {maps[p].shows} ELSE installed[p]]
    /\ UNCHANGED forced

FreeFb    == Destroyed(FALSE)
OwnerExit == Destroyed(TRUE)

\* win_fb_release_pid of a mapper: its page table is about to go, so only its entry and its
\* reference are dropped.
MapperExit(p) ==
    LET m == maps[p]
    IN  /\ installed[p] # {} \/ m.used
        /\ maps' = [maps EXCEPT ![p] = NoMap]
        /\ stale' = IF m.gen >= 0 THEN Unref(stale, m.gen) ELSE stale
        /\ allocated' = allocated \ Freed(stale, m.gen)
        /\ installed' = [installed EXCEPT ![p] = {}]
        /\ UNCHANGED <<run, ownerVa, forced>>

FbNext == \/ Alloc \/ Resize \/ FreeFb \/ OwnerExit
          \/ \E p \in Mappers : MapNew(p) \/ Refresh(p) \/ MapperExit(p)

FbSpec == FbInit /\ [][FbNext]_fbVars

(***************************************************************************)
(* Properties.                                                             *)
(***************************************************************************)
FbTypeOK ==
    /\ run \in Runs \union {0} /\ ownerVa \in BOOLEAN
    /\ \A p \in Mappers : maps[p].used \in BOOLEAN /\ maps[p].shows \in Runs \union {0}
                          /\ maps[p].gen \in Gens \union {-1}
    /\ \A g \in Gens : stale[g].run \in Runs \union {0} /\ stale[g].refs \in 0 .. MaxMaps
    /\ allocated \subseteq Runs

\* The kernel's accounts agree with the page tables through every resize, late remap, failed
\* install, exit and free: a process maps what its entry says, a generation has as many
\* references as mappings and is freed with the last, and no other page is kept.  With it, no
\* process can reach a page that was given back.
GenerationsExact ==
    /\ \A p \in Mappers : installed[p] = {maps[p].shows} \ {0}
    /\ \A g \in Gens :
          LET users == {p \in Mappers : maps[p].used /\ maps[p].gen = g}
          IN  /\ stale[g].refs = Cardinality(users) /\ (stale[g].run # 0) = (users # {})
              /\ \A p \in users : maps[p].shows = stale[g].run
    /\ \A p \in Current : maps[p].shows = run
    /\ allocated = ({run} \union {stale[g].run : g \in Gens}) \ {0}

\* However far a client lags behind the resizes, the page it draws on is not taken from it: the
\* recycling of a generation in use (stale_gen_alloc), which win_fb.c expects to crash such a
\* client, never happens when there are no more entries for mappings than for generations.
NeverForced == MaxMaps <= MaxStale => forced = {}

FrameBuffersSound == FbTypeOK /\ GenerationsExact /\ NeverForced
=============================================================================
