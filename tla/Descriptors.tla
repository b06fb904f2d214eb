---------------------------- MODULE Descriptors ----------------------------
(***************************************************************************)
(* The descriptor tables of the processes (kernel/core/vfs.c, syscall.c,   *)
(* thread.c) and the objects with a reference count that they point at:    *)
(* pipes (pipe.c), ptys (pty.c), which own two pipes each, and the         *)
(* channels of mounted user file systems (userfs.c).                       *)
(*                                                                         *)
(* A system call is one step, but for those that ask the daemon of a user  *)
(* file system and block until it answers (userfs_call): opening one of    *)
(* its files, closing one, and a last exit that comes to one.  Interrupts  *)
(* inside a call are not modelled here.  What a pipe holds, and who is     *)
(* blocked on it, is left out.  Sockets and /srv descriptors have a single *)
(* owner and no counter and are left out.                                  *)
(***************************************************************************)
EXTENDS Naturals, FiniteSets, FiniteSetsExt

CONSTANTS Proc,          \* the threads of one execution, born or not yet
          FirstProc,     \* the one that starts with a table of its own
          FdTableSize,   \* FD_TABLE_SIZE
          FirstFd,       \* the first descriptor close() really closes (3)
          Pipe, Pty, Chan,   \* the objects that may be allocated
          Calls,         \* the system calls each of them makes
          DupKind,       \* the kinds of descriptors dup2 and spawn_redir meet
          Careful,       \* threads leave a shared table alone while one waits
          None

ASSUME DescriptorsAssumption ==
    /\ FirstProc \in Proc
    /\ FirstFd \in Nat \ {0} /\ FdTableSize \in Nat /\ FirstFd < FdTableSize
    /\ IsFiniteSet(Proc)
    /\ None \notin Proc
    /\ Careful \in BOOLEAN

Fd == 0..(FdTableSize - 1)
Table == Proc   \* a table is named after the thread it was created for

\* The two pipes of a pty: what the master writes and what the slave writes.
M2S(y) == <<y, "m2s">>
S2M(y) == <<y, "s2m">>
AnyPipe == Pipe \union { M2S(y) : y \in Pty } \union { S2M(y) : y \in Pty }

\* The two counters of a pipe, r_refs and w_refs.
R(q) == <<q, "r">>
W(q) == <<q, "w">>
End == { R(q) : q \in AnyPipe } \union { W(q) : q \in AnyPipe }

\* Every counter: those of the pipes, refs of a pty, open_fds of a channel.
Counter == End \union Pty \union Chan
Object == AnyPipe \union Pty

\* The objects, and the counters in them, lie in different places.
ASSUME ObjectsAssumption ==
    /\ Pipe \cap Pty = {} /\ Chan \cap (Pipe \union Pty) = {}
    /\ (Pipe \union Pty \union Chan) \cap (End \union ({M2S(y) : y \in Pty} \union {S2M(y) : y \in Pty})) = {}

Free == [kind |-> "free", obj |-> None]
Console == [kind |-> "console", obj |-> None]
File == [kind |-> "file", obj |-> None]   \* any file the kernel serves
Fresh == [f \in Fd |-> IF f < FirstFd THEN Console ELSE Free]

VARIABLES
    fdt,       \* the table of each thread, None before its birth and after its end
    refcount,  \* of each table: the threads that share it
    fds,       \* the entries of each table
    refs,      \* the reference counters of the objects
    heap,      \* each object: "unborn", "live" or "freed"
    asked      \* the daemon's answer each thread waits for

descVars == <<fdt, refcount, fds, refs, heap, asked>>

\* The counters in which a descriptor is counted.
Counted(e) ==
    CASE e.kind = "pipe_r" -> {R(e.obj)}
      [] e.kind = "pipe_w" -> {W(e.obj)}
      [] e.kind = "master" -> {e.obj, R(S2M(e.obj)), W(M2S(e.obj))}
      [] e.kind = "slave"  -> {e.obj, R(M2S(e.obj)), W(S2M(e.obj))}
      [] e.kind = "userfs" -> {e.obj}
      [] OTHER -> {}

\* dup2 counts the pipes and the ptys; thread_inherit_fds the channels too.
Bumped(e) == IF e.kind = "userfs" THEN {} ELSE Counted(e)

Alive(p) == fdt[p] # None

\* The file of a daemon's, and the calls that wait for its channel c: what is
\* asked, and for which descriptor.
Theirs(c) == [kind |-> "userfs", obj |-> c]
Nothing == [op |-> "none", fd |-> 0, obj |-> None]
Asking(p, op, f, c) == asked' = [asked EXCEPT ![p] = [op |-> op, fd |-> f, obj |-> c]]
Answered(p) == asked' = [asked EXCEPT ![p] = Nothing]

\* p runs in user mode and may call the kernel; with Careful, no other thread
\* of its table is in the middle of a call that will write to the table.
Running(p) == Alive(p) /\ asked[p] = Nothing
Owns(p) == Running(p) /\ (Careful => \A r \in Proc : fdt[r] = fdt[p] => asked[r] = Nothing)

DescInit ==
    /\ fdt = [p \in Proc |-> IF p = FirstProc THEN FirstProc ELSE None]
    /\ refcount = [T \in Table |-> IF T = FirstProc THEN 1 ELSE 0]
    /\ fds = [T \in Table |-> Fresh]
    /\ refs = [k \in Counter |-> 0]
    /\ heap = [o \in Object |-> "unborn"]
    /\ asked = [p \in Proc |-> Nothing]

-----------------------------------------------------------------------------
(* pipe_unref, pty_close_master, pty_close_slave and the end of the        *)
(* channel's close: take n[k] from each counter, then free the pipes with  *)
(* neither readers nor writers and the ptys without a descriptor.          *)
Less(r, n) == [k \in Counter |-> IF n[k] < r[k] THEN r[k] - n[k] ELSE 0]

\* Mutant: a pipe goes away with its last writer.
Unused_NoWriter(r, n, o) ==
    IF o \in Pty THEN n[o] > 0 /\ r[o] = 0
    ELSE n[R(o)] + n[W(o)] > 0 /\ r[W(o)] = 0

Unused(r, n, o) ==
    IF o \in Pty THEN n[o] > 0 /\ r[o] = 0
    ELSE n[R(o)] + n[W(o)] > 0 /\ r[R(o)] = 0 /\ r[W(o)] = 0

Released(r, n) ==
    [o \in Object |-> IF Unused(r, n, o) THEN "freed" ELSE heap[o]]

Once(S) == [k \in Counter |-> IF k \in S THEN 1 ELSE 0]
Plus(r, n) == [k \in Counter |-> r[k] + n[k]]

\* The entry e is dropped and d takes its place.
Replace(dropped, bumped) ==
    LET r == Less(refs, Once(dropped))
    IN  /\ refs' = Plus(r, Once(bumped))
        /\ heap' = Released(r, Once(dropped))

\* The lowest free descriptors of p, from FirstFd on.
FreeFds(p) == { f \in Fd : f >= FirstFd /\ fds[fdt[p]][f] = Free }
Lowest(S) == CHOOSE f \in S : \A g \in S : f <= g

\* sys_pipe: both ends in the first two free slots, or -EMFILE.
SysPipe(p, q) ==
    /\ "pipe" \in Calls[p] /\ Owns(p)
    /\ heap[q] = "unborn"
    /\ Cardinality(FreeFds(p)) >= 2
    /\ LET rfd == Lowest(FreeFds(p))
           wfd == Lowest(FreeFds(p) \ {rfd})
       IN  fds' = [fds EXCEPT ![fdt[p]][rfd] = [kind |-> "pipe_r", obj |-> q],
                              ![fdt[p]][wfd] = [kind |-> "pipe_w", obj |-> q]]
    /\ refs' = Plus(refs, Once({R(q), W(q)}))
    /\ heap' = [heap EXCEPT ![q] = "live"]
    /\ UNCHANGED <<fdt, refcount, asked>>

\* sys_openpty: a pty with its two pipes, one reference on each side.
SysOpenpty(p, y) ==
    /\ "openpty" \in Calls[p] /\ Owns(p)
    /\ heap[y] = "unborn"
    /\ Cardinality(FreeFds(p)) >= 2
    /\ LET mfd == Lowest(FreeFds(p))
           sfd == Lowest(FreeFds(p) \ {mfd})
           m == [kind |-> "master", obj |-> y]
           s == [kind |-> "slave", obj |-> y]
       IN  /\ fds' = [fds EXCEPT ![fdt[p]][mfd] = m, ![fdt[p]][sfd] = s]
           /\ refs' = Plus(Plus(refs, Once(Counted(m))), Once(Counted(s)))
    /\ heap' = [o \in Object |-> IF o \in {y, M2S(y), S2M(y)} THEN "live" ELSE heap[o]]
    /\ UNCHANGED <<fdt, refcount, asked>>

\* vfs_open of a daemon's file: the lowest free slot is chosen, then the
\* daemon is asked.
OpenUserfs(p, c) ==
    /\ "open" \in Calls[p] /\ Owns(p)
    /\ FreeFds(p) # {}
    /\ Asking(p, "open", Lowest(FreeFds(p)), c)
    /\ UNCHANGED <<fdt, refcount, fds, refs, heap>>

\* It answers with an error, or userfs_op_open fills the slot and counts it.
OpenAnswered(p) ==
    /\ asked[p].op = "open" /\ Answered(p)
    /\ \/ UNCHANGED <<fds, refs>>
       \/ /\ fds' = [fds EXCEPT ![fdt[p]][asked[p].fd] = Theirs(asked[p].obj)]
          /\ refs' = Plus(refs, Once({asked[p].obj}))
    /\ UNCHANGED <<fdt, refcount, heap>>

\* sys_dup2: newfd is dropped first, then counted as what oldfd is.
SysDup2(p, old, new) ==
    /\ "dup2" \in Calls[p] /\ Owns(p)
    /\ old # new
    /\ LET src == fds[fdt[p]][old]
           dst == fds[fdt[p]][new]
       IN  /\ src # Free
           /\ {src.kind, dst.kind} \subseteq DupKind
           /\ fds' = [fds EXCEPT ![fdt[p]][new] = src]
           /\ Replace(Bumped(dst), Bumped(src))
    /\ UNCHANGED <<fdt, refcount, asked>>

\* vfs_close: nothing below FirstFd is closed.
VfsClose(p, f) ==
    /\ "close" \in Calls[p] /\ Owns(p)
    /\ f >= FirstFd /\ fds[fdt[p]][f].kind \notin {"free", "userfs"}
    /\ fds' = [fds EXCEPT ![fdt[p]][f] = Free]
    /\ Replace(Counted(fds[fdt[p]][f]), {})
    /\ UNCHANGED <<fdt, refcount, asked>>

\* vfs_close of a daemon's file: the daemon is told first, and whatever it
\* answers (userfs_op_close) the entry goes.
CloseUserfs(p, f) ==
    /\ "close" \in Calls[p] /\ Owns(p)
    /\ f >= FirstFd /\ fds[fdt[p]][f].kind = "userfs"
    /\ Asking(p, "close", f, fds[fdt[p]][f].obj)
    /\ UNCHANGED <<fdt, refcount, fds, refs, heap>>

CloseAnswered(p) ==
    /\ asked[p].op = "close" /\ Answered(p)
    /\ fds' = [fds EXCEPT ![fdt[p]][asked[p].fd] = Free]
    /\ Replace({asked[p].obj}, {})
    /\ UNCHANGED <<fdt, refcount>>

-----------------------------------------------------------------------------
\* c is born with table T; no table has been created for it before.
Born(c, T) ==
    /\ ~Alive(c) /\ fds[c] = Fresh /\ \A r \in Proc : fdt[r] # c
    /\ fdt' = [fdt EXCEPT ![c] = T]
    /\ UNCHANGED asked

\* How many entries of table t are counted in each counter.
Tally(t) == [k \in Counter |-> Cardinality({ f \in Fd : k \in Counted(t[f]) })]

\* thread_inherit_fds over a fresh table: fork and every spawn.  Where the
\* parent has no descriptor the child keeps its own.
Inherited(p) == [f \in Fd |-> IF fds[fdt[p]][f] = Free THEN Fresh[f] ELSE fds[fdt[p]][f]]

Child(p, c) ==
    /\ Running(p) /\ Born(c, c)
    /\ refcount' = [refcount EXCEPT ![c] = 1]

\* Mutant: the child shares the descriptors without counting them.
Fork_NoCount(p, c) ==
    /\ "fork" \in Calls[p] /\ Child(p, c)
    /\ fds' = [fds EXCEPT ![c] = Inherited(p)]
    /\ UNCHANGED <<refs, heap>>

\* thread_fork_user and sys_spawn.
Fork(p, c) ==
    /\ "fork" \in Calls[p] /\ Child(p, c)
    /\ fds' = [fds EXCEPT ![c] = Inherited(p)]
    /\ refs' = Plus(refs, Tally(Inherited(p)))
    /\ UNCHANGED heap

\* dup_parent_fd_into_child, on the child's table t with the counters r:
\* the new table, the new counters, and the objects that went away.
Redirected(s, src, f) ==
    LET drop == Once(Counted(s.tab[f]))
        less == Less(s.refs, drop)
    IN  [tab |-> [s.tab EXCEPT ![f] = src],
         refs |-> Plus(less, Once(Counted(src))),
         freed |-> s.freed \union { o \in Object : Unused(less, drop, o) }]

\* sys_spawn_pipe: fd 0 and fd 1 of the child are descriptors of its parent.
SpawnPipe(p, c, sin, sout) ==
    /\ "spawn_pipe" \in Calls[p] /\ Child(p, c)
    /\ LET tab == fds[fdt[p]]
           start == [tab |-> Inherited(p), refs |-> Plus(refs, Tally(Inherited(p))), freed |-> {}]
           input == IF sin = None THEN start ELSE Redirected(start, tab[sin], 0)
           both == IF sout = None THEN input ELSE Redirected(input, tab[sout], 1)
       IN  /\ sin # None \/ sout # None
           /\ sin # None => tab[sin] # Free
           /\ sout # None => tab[sout] # Free
           /\ fds' = [fds EXCEPT ![c] = both.tab]
           /\ refs' = both.refs
           /\ heap' = [o \in Object |-> IF o \in both.freed THEN "freed" ELSE heap[o]]

\* sys_spawn_redir: vfs_open_into drops fd 0 of the child, unless it is of a
\* user file system, and opens a file there.
SpawnRedir(p, c) ==
    /\ "spawn_redir" \in Calls[p] /\ Child(p, c)
    /\ LET tab == Inherited(p)
           drop == Once(Bumped(tab[0]))
           less == Less(Plus(refs, Tally(tab)), drop)
       IN  /\ tab[0].kind \in DupKind
           /\ fds' = [fds EXCEPT ![c] = [tab EXCEPT ![0] = File]]
           /\ refs' = less
           /\ heap' = Released(less, drop)

\* sys_clone without CLONE_FILES: a table of its own, nothing inherited.
CloneFresh(p, c) ==
    /\ "clone" \in Calls[p] /\ Child(p, c)
    /\ UNCHANGED <<fds, refs, heap>>

\* sys_clone with CLONE_FILES: fd_table_share.
Clone(p, c) ==
    /\ "clone" \in Calls[p]
    /\ Running(p) /\ Born(c, fdt[p])
    /\ refcount' = [refcount EXCEPT ![fdt[p]] = @ + 1]
    /\ UNCHANGED <<fds, refs, heap>>

\* The entries S of table T are dropped, one after the other.
Drop(T, S) ==
    LET gone == Tally([f \in Fd |-> IF f \in S THEN fds[T][f] ELSE Free])
        less == Less(refs, gone)
    IN  /\ refs' = less
        /\ heap' = Released(less, gone)
        /\ fds' = [fds EXCEPT ![T] = [f \in Fd |-> IF f \in S THEN Free ELSE fds[T][f]]]

\* fd_table_unref closes what is left of the table of p.  The first daemon's
\* file from descriptor f on is where it blocks; with none p is gone.
CloseRest(p, f) ==
    LET T == fdt[p]
        theirs == { g \in Fd : g >= f /\ fds[T][g].kind = "userfs" }
        next == Lowest(theirs)
    IN  \/ /\ theirs = {}
           /\ Drop(T, Fd)
           /\ fdt' = [fdt EXCEPT ![p] = None]
           /\ Answered(p)
        \/ /\ theirs # {}
           /\ Drop(T, { g \in Fd : g < next })
           /\ Asking(p, "exit", next, fds[T][next].obj)
           /\ UNCHANGED fdt

\* Mutant: the reaper drops the table again.
Exit_Twice(p) ==
    /\ "exit" \in Calls[p] /\ Running(p)
    /\ refcount' = [refcount EXCEPT ![fdt[p]] = @ - 2]
    /\ fdt' = [fdt EXCEPT ![p] = None]
    /\ UNCHANGED <<fds, refs, heap, asked>>

\* vfs_close_all: the last thread to leave a table closes everything in it.
Exit(p) ==
    /\ "exit" \in Calls[p] /\ Running(p)
    /\ refcount' = [refcount EXCEPT ![fdt[p]] = @ - 1]
    /\ \/ /\ refcount[fdt[p]] > 1
          /\ fdt' = [fdt EXCEPT ![p] = None]
          /\ UNCHANGED <<fds, refs, heap, asked>>
       \/ refcount[fdt[p]] <= 1 /\ CloseRest(p, 0)

\* The daemon answers the exiting p, and the closing goes on behind its file.
ExitAnswered(p) ==
    /\ asked[p].op = "exit"
    /\ CloseRest(p, asked[p].fd + 1)
    /\ UNCHANGED refcount

DescNext ==
    \E p \in Proc :
        \/ \E q \in Pipe : SysPipe(p, q)
        \/ \E y \in Pty : SysOpenpty(p, y)
        \/ \E c \in Chan : OpenUserfs(p, c)
        \/ \E old, new \in Fd : SysDup2(p, old, new)
        \/ \E f \in Fd : VfsClose(p, f) \/ CloseUserfs(p, f)
        \/ \E c \in Proc : Fork(p, c) \/ SpawnRedir(p, c) \/ Clone(p, c) \/ CloneFresh(p, c)
        \/ \E c \in Proc : \E sin, sout \in Fd \union {None} : SpawnPipe(p, c, sin, sout)
        \/ Exit(p)
        \/ OpenAnswered(p) \/ CloseAnswered(p) \/ ExitAnswered(p)

DescSpec == DescInit /\ [][DescNext]_descVars
-----------------------------------------------------------------------------
EntryKind == {"free", "console", "file", "pipe_r", "pipe_w", "master", "slave", "userfs"}

Entry ==
    {Free, Console, File} \union [kind : {"pipe_r", "pipe_w"}, obj : Pipe]
    \union [kind : {"master", "slave"}, obj : Pty] \union [kind : {"userfs"}, obj : Chan]

Question == {Nothing} \union [op : {"open", "close", "exit"}, fd : Fd, obj : Chan]

DescTypeOK ==
    /\ fdt \in [Proc -> Table \union {None}]
    /\ refcount \in [Table -> Nat]
    /\ fds \in [Table -> [Fd -> Entry]]
    /\ refs \in [Counter -> Nat]
    /\ heap \in [Object -> {"unborn", "live", "freed"}]
    /\ asked \in [Proc -> Question]

(* vfs.h: the count of a table is that of the threads that share it and    *)
(* are not leaving it, and when the last has left it has closed what was   *)
(* in it.                                                                  *)
TablesExact ==
    \A T \in Table :
        /\ refcount[T] = Cardinality({ p \in Proc : fdt[p] = T /\ asked[p].op # "exit" })
        /\ (\A p \in Proc : fdt[p] # T) => \A f \in Fd : Counted(fds[T][f]) = {}

(* pipe.h: r_refs and w_refs are the "number of fds pointing here"; pty.h: *)
(* refs are the "outstanding fd references"; syscall.c: "the channel       *)
(* tracks how many fd entries (across all processes) reference it".        *)
RefsExact ==
    \A k \in Counter :
        refs[k] = Cardinality({ e \in Table \X Fd : k \in Counted(fds[e[1]][e[2]]) })

(* No thread has a descriptor of a pipe or a pty that has been freed, and  *)
(* what no thread can reach has been freed.                                *)
Reached(o) ==
    \E p \in Proc, f \in Fd :
        /\ Alive(p)
        /\ LET C == Counted(fds[fdt[p]][f])
           IN  o \in C \/ (o \in AnyPipe /\ {R(o), W(o)} \cap C # {})

FreedWhenUnreached == \A o \in Object : heap[o] = "live" <=> Reached(o)

(* The counters are exact and the objects live as long as their descriptors,*)
(* through every dup2, redirection, inheritance and shared table.           *)
CountsExact == TablesExact /\ RefsExact /\ FreedWhenUnreached

(* pipe.h: "closing the last writer causes pipe_read to return 0 (EOF)",   *)
(* and closing the last reader makes pipe_write fail: neither is taken     *)
(* back, because no new descriptor for that side can appear.               *)
EndIsFinal ==
    [][\A k \in End : heap[k[1]] # "unborn" /\ refs[k] = 0 => refs'[k] = 0]_descVars
=============================================================================
