------------------------------ MODULE Uobject ------------------------------
(***************************************************************************)
(* Life cycle of the user objects (ib_uobject) of one open uverbs file,    *)
(* drivers/infiniband/core/rdma_core.c, driven by the system calls of      *)
(* uverbs_ioctl.c / uverbs_main.c, by close() of the file, by close() of   *)
(* FD objects and by removal of the device.                                *)
(*                                                                         *)
(* Four mechanisms have to agree for this to be right: the kref of an      *)
(* object (ref), its try-lock counter (usecnt), the hw_destroy_rwsem of    *)
(* the file (rsem, wsem) and the SRCU section of the device (srcu).        *)
(***************************************************************************)
EXTENDS Integers, FiniteSets

CONSTANTS
    Threads,  \* threads that run commands (ioctl/write) on the file
    Uobjs,    \* memory for ib_uobjects; each is allocated at most once
    FdUobjs,  \* those of uverbs_fd_class; the others are uverbs_idr_class
    Handles,  \* indices of ufile->idr
    Free,     \* an index of ufile->idr that is not allocated
    Null      \* a NULL pointer; in ufile->idr, a reserved index (XA_ZERO)

ASSUME ConstantsAssumption ==
    /\ IsFiniteSet(Threads) /\ IsFiniteSet(Uobjs)
    /\ FdUobjs \subseteq Uobjs
    /\ Threads \cap Uobjs = {}
    /\ Free \notin Uobjs /\ Null \notin Uobjs \cup Threads /\ Free # Null
    /\ Null \notin Handles /\ Null \notin {"close", "remove"}

VARIABLES
    born,      \* uobjects whose memory has been allocated
    ref,       \* uobj->ref
    usecnt,    \* uobj->usecnt: -1 exclusive, n > 0 shared, 0 unlocked
    object,    \* uobjects with uobj->object # NULL: the HW object (or struct file) exists
    list,      \* rank of uobj->list in ufile->uobjects, 0 when unlinked
    head,      \* rank last given by list_add, that of the newest uobject
    id,        \* uobj->id
    idr,       \* ufile->idr
    filp,      \* references on the struct file of an FD uobject
    fd,        \* FD uobjects whose descriptor is open in the process
    rel,       \* progress of uverbs_uobject_fd_release for an FD uobject
    ucontext,  \* ufile->ucontext # NULL
    fref,      \* ufile->ref
    onlist,    \* the file is on dev->uverbs_file_list
    rsem,      \* holders of hw_destroy_rwsem for read
    wsem,      \* holder of hw_destroy_rwsem for write
    srcu,      \* threads inside disassociate_srcu
    grace,     \* threads that synchronize_srcu still waits for
    pc, cur, new, mode,    \* program counter and locals of a thread
    cpc, todo, progress    \* the same for uverbs_destroy_ufile_hw

uvars == <<born, ref, usecnt, object, list, head, id, idr, filp, fd, rel>>
fvars == <<ucontext, fref, onlist>>
svars == <<rsem, wsem, srcu, grace>>
tvars == <<pc, cur, new, mode>>
cvars == <<cpc, todo, progress>>
vars  == <<uvars, fvars, svars, tvars, cvars>>

IdrUobjs == Uobjs \ FdUobjs
Cleaners == {"close", "remove"}
Modes    == {"READ", "WRITE", "DESTROY"}

(* The process still has the uverbs file open. *)
open == cpc["close"] = "idle"

(* dev->ib_dev # NULL *)
ibdev == cpc["remove"] = "idle"

(* What t may have got from srcu_dereference(ib_dev) in its command: a     *)
(* thread that removal still waits for can have read it before the store.  *)
SeesDev(t) == ibdev \/ t \in grace

Init ==
    /\ born = {}
    /\ ref = [u \in Uobjs |-> 0]
    /\ usecnt = [u \in Uobjs |-> 0]
    /\ object = {}
    /\ list = [u \in Uobjs |-> 0]
    /\ head = 0
    /\ id = [u \in Uobjs |-> Null]
    /\ idr = [h \in Handles |-> Free]
    /\ filp = [u \in Uobjs |-> 0]
    /\ fd = {}
    /\ rel = [u \in Uobjs |-> "none"]
    /\ ucontext = FALSE
    /\ fref = 1
    /\ onlist = TRUE
    /\ rsem = {}
    /\ wsem = Null
    /\ srcu = {}
    /\ grace = {}
    /\ pc = [t \in Threads |-> "idle"]
    /\ cur = [t \in Threads |-> Null]
    /\ new = [t \in Threads |-> Null]
    /\ mode = [t \in Threads |-> "READ"]
    /\ cpc = [c \in Cleaners |-> "idle"]
    /\ todo = {}
    /\ progress = FALSE

----------------------------------------------------------------------------
(* The primitives. *)

(* down_read and down_read_trylock of hw_destroy_rwsem: a queued writer    *)
(* keeps new readers out; the former then sleeps, the latter fails.        *)
CanRead == wsem = Null /\ \A c \in Cleaners : cpc[c] # "down_write"

(* Slip: a shared lock is granted without looking for an exclusive owner.  *)
BugCanLock(u, m) == m \in {"READ", "DESTROY"} \/ usecnt[u] = 0

(* uverbs_try_lock_object *)
CanLock(u, m) ==
    \/ m = "READ" /\ usecnt[u] # -1
    \/ m = "WRITE" /\ usecnt[u] = 0
    \/ m = "DESTROY"

Lock(u, m) == IF m = "READ" THEN usecnt[u] + 1 ELSE IF m = "WRITE" THEN -1 ELSE usecnt[u]

(* The rdma_lookup_put_uobject side of the same counter. *)
Unlock(u, m) == IF m = "READ" THEN usecnt[u] - 1 ELSE IF m = "WRITE" THEN 0 ELSE usecnt[u]

(* Where a command continues once its last step on a uobject is over. *)
Leave(t) == IF cur[t] = Null THEN "exit" ELSE "put"

----------------------------------------------------------------------------
(* Commands. *)

(* A command enters the SRCU section; the file is pinned by its fd. *)
ib_uverbs_ioctl(t) ==
    /\ pc[t] = "idle" /\ open
    /\ pc' = [pc EXCEPT ![t] = "cmd"]
    /\ srcu' = srcu \cup {t}
    /\ UNCHANGED <<uvars, fvars, rsem, wsem, grace, cur, new, mode, cvars>>

(* ... and leaves it. *)
ib_uverbs_ioctl_end(t) ==
    /\ pc[t] = "exit"
    /\ pc' = [pc EXCEPT ![t] = "idle"]
    /\ srcu' = srcu \ {t}
    /\ grace' = grace \ {t}
    /\ UNCHANGED <<uvars, fvars, rsem, wsem, cur, new, mode, cvars>>

(* GET_CONTEXT, the ioctl method or (after ib_uverbs_get_context below)    *)
(* the write command: one ucontext per file, none once disassociated. It   *)
(* may fail for other reasons too; the write command then gives up its FD. *)
ib_init_ucontext(t) ==
    /\ pc[t] \in {"cmd", "context"}
    /\ \/ /\ CanRead /\ SeesDev(t) /\ ~ucontext
          /\ ucontext' = TRUE
          /\ pc' = [pc EXCEPT ![t] = IF @ = "cmd" THEN "exit" ELSE "commit"]
       \/ /\ UNCHANGED ucontext
          /\ pc' = [pc EXCEPT ![t] = IF @ = "cmd" THEN "exit" ELSE "abort"]
    /\ UNCHANGED <<uvars, fref, onlist, svars, cur, new, mode, cvars>>

(* Slip: allocation does not look at ib_dev. *)
BugMayAlloc(t) == CanRead /\ ucontext

(* The tests of rdma_alloc_begin_uobject and alloc_uobj. *)
MayAlloc(t) == CanRead /\ SeesDev(t) /\ ucontext

(* alloc_uobj: write locked, one kref that belongs to the thread. *)
alloc_uobj(t, u, next) ==
    /\ born' = born \cup {u}
    /\ ref' = [ref EXCEPT ![u] = 1]
    /\ usecnt' = [usecnt EXCEPT ![u] = -1]
    /\ rsem' = rsem \cup {t}
    /\ new' = [new EXCEPT ![t] = u]
    /\ pc' = [pc EXCEPT ![t] = next]

(* An index is reserved with a NULL entry. *)
alloc_begin_idr_uobject(t, u, h) ==
    /\ idr[h] = Free
    /\ alloc_uobj(t, u, "new")
    /\ idr' = [idr EXCEPT ![h] = Null]
    /\ id' = [id EXCEPT ![u] = h]
    /\ UNCHANGED <<object, filp>>

(* A struct file is created, not yet reachable. *)
alloc_begin_fd_uobject(t, u, next) ==
    /\ alloc_uobj(t, u, next)
    /\ object' = object \cup {u}
    /\ filp' = [filp EXCEPT ![u] = 1]
    /\ UNCHANGED <<idr, id>>

(* The write command GET_CONTEXT creates the FD for asynchronous events    *)
(* before the ucontext: ib_alloc_ucontext has set attrs->context, so       *)
(* alloc_uobj does not ask for ufile->ucontext.                            *)
ib_uverbs_get_context(t) ==
    /\ pc[t] = "cmd" /\ CanRead /\ SeesDev(t)
    /\ \E u \in FdUobjs \ born : alloc_begin_fd_uobject(t, u, "context")

(* The one command that allocates while it holds a uobject for write. *)
Rereg(t) == cur[t] # Null /\ mode[t] = "WRITE"

(* A command creates a uobject, possibly while it holds another one: a     *)
(* parent for read, or the MR that is being re-registered for write.       *)
rdma_alloc_begin_uobject(t) ==
    /\ pc[t] \in {"cmd", "locked"}
    /\ Rereg(t) => cur[t] \in IdrUobjs
    /\ \/ /\ MayAlloc(t)
          /\ \E u \in Uobjs \ born :
                \/ u \in IdrUobjs /\ \E h \in Handles : alloc_begin_idr_uobject(t, u, h)
                \/ u \in FdUobjs /\ ~Rereg(t) /\ alloc_begin_fd_uobject(t, u, "new")
       \/ ib_uverbs_get_context(t)
       \/ \* -EIO, -EINVAL, -ENOMEM: nothing is left behind
          /\ pc' = [pc EXCEPT ![t] = Leave(t)]
          /\ UNCHANGED <<born, ref, usecnt, object, id, idr, filp, rsem, new>>
    /\ UNCHANGED <<list, head, fd, rel, fvars, wsem, srcu, grace, cur, mode, cvars>>

(* The handler creates the HW object of an IDR uobject, completes the FD   *)
(* one, or fails.                                                          *)
handler(t) ==
    /\ pc[t] = "new"
    /\ \/ /\ pc' = [pc EXCEPT ![t] = "created"]
          /\ object' = object \cup {new[t]}
       \/ /\ pc' = [pc EXCEPT ![t] = "abort"]
          /\ UNCHANGED object
    /\ UNCHANGED <<born, head, ref, usecnt, list, id, idr, filp, fd, rel, fvars, svars,
                   cur, new, mode, cvars>>

(* Slip: no kref is taken for the list. *)
BugCommit(t) ==
    LET u == new[t] IN
    /\ \/ pc[t] = "created" /\ ~Rereg(t)
       \/ pc[t] = "commit"
    /\ head' = head + 1
    /\ list' = [list EXCEPT ![u] = head + 1]
    /\ usecnt' = [usecnt EXCEPT ![u] = 0]
    /\ \/ u \in IdrUobjs /\ idr' = [idr EXCEPT ![id[u]] = u] /\ UNCHANGED <<fref, fd, rel>>
       \/ /\ u \in FdUobjs /\ fref' = fref + 1 /\ fd' = fd \cup {u}
          /\ rel' = [rel EXCEPT ![u] = "armed"] /\ UNCHANGED idr
    /\ rsem' = rsem \ {t}
    /\ new' = [new EXCEPT ![t] = Null]
    /\ pc' = [pc EXCEPT ![t] = Leave(t)]
    /\ UNCHANGED <<born, ref, object, id, filp, ucontext, onlist, wsem,
                   srcu, grace, cur, mode, cvars>>

(* Slip: commit does not release hw_destroy_rwsem. *)
BugCommitSem(t) ==
    LET u == new[t] IN
    /\ \/ pc[t] = "created" /\ ~Rereg(t)
       \/ pc[t] = "commit"
    /\ ref' = [ref EXCEPT ![u] = @ + 1]
    /\ head' = head + 1
    /\ list' = [list EXCEPT ![u] = head + 1]
    /\ usecnt' = [usecnt EXCEPT ![u] = 0]
    /\ \/ u \in IdrUobjs /\ idr' = [idr EXCEPT ![id[u]] = u] /\ UNCHANGED <<fref, fd, rel>>
       \/ /\ u \in FdUobjs /\ fref' = fref + 1 /\ fd' = fd \cup {u}
          /\ rel' = [rel EXCEPT ![u] = "armed"] /\ UNCHANGED idr
    /\ new' = [new EXCEPT ![t] = Null]
    /\ pc' = [pc EXCEPT ![t] = Leave(t)]
    /\ UNCHANGED <<born, object, id, filp, ucontext, onlist, rsem, wsem,
                   srcu, grace, cur, mode, cvars>>

(* The uobject is linked, unlocked and published: the kref of the thread   *)
(* becomes that of the idr or of the struct file, the list has its own.    *)
rdma_alloc_commit_uobject(t) ==
    LET u == new[t] IN
    /\ \/ pc[t] = "created" /\ ~Rereg(t)
       \/ pc[t] = "commit"
    /\ ref' = [ref EXCEPT ![u] = @ + 1]
    /\ head' = head + 1
    /\ list' = [list EXCEPT ![u] = head + 1]
    /\ usecnt' = [usecnt EXCEPT ![u] = 0]
    /\ \/ /\ u \in IdrUobjs                    \* alloc_commit_idr_uobject
          /\ idr' = [idr EXCEPT ![id[u]] = u]
          /\ UNCHANGED <<fref, fd, rel>>
       \/ /\ u \in FdUobjs                     \* alloc_commit_fd_uobject
          /\ fref' = fref + 1
          /\ fd' = fd \cup {u}
          /\ rel' = [rel EXCEPT ![u] = "armed"]
          /\ UNCHANGED idr
    /\ rsem' = rsem \ {t}
    /\ new' = [new EXCEPT ![t] = Null]
    /\ pc' = [pc EXCEPT ![t] = Leave(t)]
    /\ UNCHANGED <<born, object, id, filp, ucontext, onlist, wsem,
                   srcu, grace, cur, mode, cvars>>

(* Slip: hw_destroy_rwsem is not released on abort. *)
BugAbort(t) ==
    LET u == new[t] IN
    /\ \/ pc[t] = "created" /\ ~Rereg(t)
       \/ pc[t] = "abort"
    /\ object' = object \ {u}
    /\ usecnt' = [usecnt EXCEPT ![u] = 0]
    /\ ref' = [ref EXCEPT ![u] = @ - 1]
    /\ idr' = IF u \in IdrUobjs THEN [idr EXCEPT ![id[u]] = Free] ELSE idr
    /\ filp' = [filp EXCEPT ![u] = 0]
    /\ new' = [new EXCEPT ![t] = Null]
    /\ pc' = [pc EXCEPT ![t] = Leave(t)]
    /\ UNCHANGED <<born, head, list, id, fd, rel, fvars, svars, cur, mode, cvars>>

(* rdma_alloc_abort_uobject after the handler failed without a HW object,  *)
(* or after a later error with one. When the driver cannot destroy that    *)
(* one the uobject is committed instead: that is the action above.         *)
rdma_alloc_abort_uobject(t) ==
    LET u == new[t] IN
    /\ \/ pc[t] = "created" /\ ~Rereg(t)
       \/ pc[t] = "abort"
    /\ object' = object \ {u}
    /\ usecnt' = [usecnt EXCEPT ![u] = 0]
    /\ ref' = [ref EXCEPT ![u] = @ - 1]
    /\ idr' = IF u \in IdrUobjs THEN [idr EXCEPT ![id[u]] = Free] ELSE idr
    /\ filp' = [filp EXCEPT ![u] = 0]
    /\ rsem' = rsem \ {t}
    /\ new' = [new EXCEPT ![t] = Null]
    /\ pc' = [pc EXCEPT ![t] = Leave(t)]
    /\ UNCHANGED <<born, head, list, id, fd, rel, fvars, wsem, srcu, grace, cur, mode, cvars>>

----------------------------------------------------------------------------
(* Lookup. *)

(* Slip: the entry that was read is not compared with NULL. *)
BugXaLoad(t) ==
    /\ pc[t] = "cmd"
    /\ \E h \in Handles, m \in Modes :
         /\ cur' = [cur EXCEPT ![t] = idr[h]]
         /\ mode' = [mode EXCEPT ![t] = m]
    /\ pc' = [pc EXCEPT ![t] = "rcu"]
    /\ UNCHANGED <<uvars, fvars, svars, new, cvars>>

(* lookup_get_idr_uobject up to xa_load, under rcu_read_lock: the entry is *)
(* read without a reference.                                               *)
xa_load(t) ==
    /\ pc[t] = "cmd"
    /\ \E h \in Handles, m \in Modes :
         /\ idr[h] \in Uobjs
         /\ cur' = [cur EXCEPT ![t] = idr[h]]
         /\ mode' = [mode EXCEPT ![t] = m]
    /\ pc' = [pc EXCEPT ![t] = "rcu"]
    /\ UNCHANGED <<uvars, fvars, svars, new, cvars>>

(* Slip: kref_get instead of kref_get_unless_zero. *)
BugLookupGetIdr(t) ==
    /\ pc[t] = "rcu"
    /\ ref' = [ref EXCEPT ![cur[t]] = @ + 1]
    /\ pc' = [pc EXCEPT ![t] = "got"]
    /\ UNCHANGED <<born, head, usecnt, object, list, id, idr, filp, fd, rel, fvars,
                   svars, cur, new, mode, cvars>>

(* kref_get_unless_zero: the uobject may have lost its last reference, the *)
(* lookup then finds nothing.                                              *)
lookup_get_idr_uobject(t) ==
    LET u == cur[t] IN
    /\ pc[t] = "rcu"
    /\ IF ref[u] > 0
       THEN /\ ref' = [ref EXCEPT ![u] = @ + 1]
            /\ pc' = [pc EXCEPT ![t] = "got"]
            /\ UNCHANGED cur
       ELSE /\ pc' = [pc EXCEPT ![t] = "exit"]
            /\ cur' = [cur EXCEPT ![t] = Null]
            /\ UNCHANGED ref
    /\ UNCHANGED <<born, head, usecnt, object, list, id, idr, filp, fd, rel, fvars,
                   svars, new, mode, cvars>>

(* Slip: the struct file is put before the lock is taken. *)
BugLookupGetFd(t) ==
    /\ pc[t] = "cmd"
    /\ \E u \in FdUobjs :
         /\ u \in fd
         /\ ref' = [ref EXCEPT ![u] = @ + 1]
         /\ cur' = [cur EXCEPT ![t] = u]
    /\ mode' = [mode EXCEPT ![t] = "READ"]
    /\ pc' = [pc EXCEPT ![t] = "got"]
    /\ UNCHANGED <<born, head, usecnt, object, list, id, idr, filp, fd, rel, fvars,
                   svars, new, cvars>>

(* fget pins the struct file, so the uobject cannot be released. *)
lookup_get_fd_uobject(t) ==
    /\ pc[t] = "cmd"
    /\ \E u \in FdUobjs :
         /\ u \in fd
         /\ filp' = [filp EXCEPT ![u] = @ + 1]
         /\ ref' = [ref EXCEPT ![u] = @ + 1]
         /\ cur' = [cur EXCEPT ![t] = u]
    /\ mode' = [mode EXCEPT ![t] = "READ"]
    /\ pc' = [pc EXCEPT ![t] = "got"]
    /\ UNCHANGED <<born, head, usecnt, object, list, id, idr, fd, rel, fvars, svars,
                   new, cvars>>

(* Dropping what lookup_get took: the file reference of an FD uobject,     *)
(* which is its uobj->object, and the kref. Ends the command. When cleanup *)
(* has made uobj->object NULL, the thread does not get past fput.          *)
lookup_put(t) ==
    LET u == cur[t] IN
    /\ u \in FdUobjs => u \in object
    /\ filp' = IF u \in FdUobjs THEN [filp EXCEPT ![u] = @ - 1] ELSE filp
    /\ ref' = [ref EXCEPT ![u] = @ - 1]
    /\ cur' = [cur EXCEPT ![t] = Null]
    /\ pc' = [pc EXCEPT ![t] = "exit"]

(* Slip: a disassociated device is not noticed. *)
BugLookupGet(t) ==
    /\ pc[t] = "got"
    /\ \/ /\ mode[t] # "DESTROY" /\ CanLock(cur[t], mode[t])
          /\ usecnt' = [usecnt EXCEPT ![cur[t]] = Lock(cur[t], mode[t])]
          /\ pc' = [pc EXCEPT ![t] = "locked"]
          /\ UNCHANGED <<ref, filp, cur>>
       \/ mode[t] # "DESTROY" /\ lookup_put(t) /\ UNCHANGED usecnt
    /\ UNCHANGED <<born, head, object, list, id, idr, fd, rel, fvars, svars, new, mode, cvars>>

(* The rest of rdma_lookup_get_uobject: after disassociation only DESTROY  *)
(* gets through, and goes on in uobj_destroy. Otherwise it fails when the  *)
(* device is gone, when the uobject is locked and when its type is not the *)
(* one asked for; a destroy command for the wrong type is one of these.    *)
rdma_lookup_get_uobject(t) ==
    /\ pc[t] = "got"
    /\ \/ /\ mode[t] # "DESTROY" /\ SeesDev(t) /\ CanLock(cur[t], mode[t])
          /\ usecnt' = [usecnt EXCEPT ![cur[t]] = Lock(cur[t], mode[t])]
          /\ pc' = [pc EXCEPT ![t] = "locked"]
          /\ UNCHANGED <<ref, filp, cur>>
       \/ mode[t] # "DESTROY" /\ lookup_put(t) /\ UNCHANGED usecnt
    /\ UNCHANGED <<born, head, object, list, id, idr, fd, rel, fvars, svars, new, mode, cvars>>

rdma_lookup_put_uobject(t) ==
    /\ pc[t] \in {"locked", "put"}
    /\ usecnt' = [usecnt EXCEPT ![cur[t]] = Unlock(cur[t], mode[t])]
    /\ lookup_put(t)
    /\ UNCHANGED <<born, head, object, list, id, idr, fd, rel, fvars, svars, new, mode, cvars>>

----------------------------------------------------------------------------
(* Destruction. *)

(* uobj_destroy up to the write lock. down_read sleeps behind a writer. *)
uobj_destroy(t) ==
    /\ pc[t] = "got" /\ mode[t] = "DESTROY"
    /\ CanRead
    /\ IF CanLock(cur[t], "WRITE")
       THEN /\ usecnt' = [usecnt EXCEPT ![cur[t]] = -1]
            /\ rsem' = rsem \cup {t}
            /\ pc' = [pc EXCEPT ![t] = "destroy"]
       ELSE /\ pc' = [pc EXCEPT ![t] = "put"]
            /\ UNCHANGED <<usecnt, rsem>>
    /\ UNCHANGED <<born, head, ref, object, list, id, idr, filp, fd, rel, fvars, wsem,
                   srcu, grace, cur, new, mode, cvars>>

(* rdma_assign_uobject, called when re-registration made a new HW object:  *)
(* swap_idr_uobjects hands the index of the old uobject to the new one.    *)
rdma_assign_uobject(t) ==
    LET to == cur[t] IN
    /\ pc[t] = "created" /\ Rereg(t)
    /\ idr' = [idr EXCEPT ![id[to]] = Null, ![id[new[t]]] = to]
    /\ id' = [id EXCEPT ![to] = id[new[t]], ![new[t]] = id[to]]
    /\ mode' = [mode EXCEPT ![t] = "DESTROY"]
    /\ pc' = [pc EXCEPT ![t] = "destroy"]
    /\ UNCHANGED <<born, head, ref, usecnt, object, list, filp, fd, rel, fvars, svars,
                   cur, new, cvars>>

(* The destroy_hw call of uverbs_destroy_uobject(DESTROY): the driver may  *)
(* refuse. uobj_destroy then unlocks the uobject, rdma_assign_uobject does *)
(* not.                                                                    *)
destroy_hw(t) ==
    /\ pc[t] = "destroy"
    /\ \/ /\ object' = object \ {cur[t]}
          /\ pc' = [pc EXCEPT ![t] = "unlink"]
          /\ UNCHANGED <<usecnt, rsem>>
       \/ /\ cur[t] \in object /\ new[t] = Null
          /\ usecnt' = [usecnt EXCEPT ![cur[t]] = 0]
          /\ rsem' = rsem \ {t}
          /\ pc' = [pc EXCEPT ![t] = "put"]
          /\ UNCHANGED object
       \/ /\ cur[t] \in object /\ new[t] # Null
          /\ pc' = [pc EXCEPT ![t] = "commit"]
          /\ UNCHANGED <<object, usecnt, rsem>>
    /\ UNCHANGED <<born, head, ref, list, id, idr, filp, fd, rel, fvars, wsem, srcu,
                   grace, cur, new, mode, cvars>>

(* The rest of uverbs_destroy_uobject(DESTROY): remove_handle drops the    *)
(* kref of the idr, list_del that of the list. The uobject stays locked.   *)
uverbs_destroy_uobject(t) ==
    LET u == cur[t] IN
    /\ pc[t] = "unlink"
    /\ idr' = [idr EXCEPT ![id[u]] = Free]
    /\ list' = [list EXCEPT ![u] = 0]
    /\ ref' = [ref EXCEPT ![u] = @ - (IF list[u] = 0 THEN 1 ELSE 2)]
    /\ IF new[t] = Null
       THEN rsem' = rsem \ {t} /\ pc' = [pc EXCEPT ![t] = "put"]
       ELSE pc' = [pc EXCEPT ![t] = "commit"] /\ UNCHANGED rsem
    /\ UNCHANGED <<born, head, usecnt, object, id, filp, fd, rel, fvars, wsem, srcu,
                   grace, cur, new, mode, cvars>>

----------------------------------------------------------------------------
(* FD uobjects: close() of the descriptor and release of the struct file. *)

fd_close(u) ==
    /\ u \in fd
    /\ fd' = fd \ {u}
    /\ filp' = [filp EXCEPT ![u] = @ - 1]
    /\ UNCHANGED <<born, head, ref, usecnt, object, list, id, idr, rel, fvars, svars,
                   tvars, cvars>>

(* When cleanup has the file, or is about to, it destroys the uobject. *)
uverbs_uobject_fd_release(u) ==
    /\ rel[u] = "armed" /\ filp[u] = 0
    /\ IF CanRead
       THEN /\ rel' = [rel EXCEPT ![u] = "held"]
            /\ usecnt' = IF CanLock(u, "WRITE") THEN [usecnt EXCEPT ![u] = -1] ELSE usecnt
            /\ rsem' = rsem \cup {u}
       ELSE /\ rel' = [rel EXCEPT ![u] = "drop"]
            /\ UNCHANGED <<usecnt, rsem>>
    /\ UNCHANGED <<born, head, ref, object, list, id, idr, filp, fd, fvars, wsem, srcu,
                   grace, tvars, cvars>>

(* uverbs_destroy_uobject(CLOSE) of an FD uobject, and up_read. *)
fd_release_destroy(u) ==
    /\ rel[u] = "held"
    /\ rel' = [rel EXCEPT ![u] = "drop"]
    /\ object' = object \ {u}
    /\ usecnt' = [usecnt EXCEPT ![u] = 0]
    /\ list' = [list EXCEPT ![u] = 0]
    /\ ref' = [ref EXCEPT ![u] = @ - (IF list[u] = 0 THEN 0 ELSE 1)]
    /\ rsem' = rsem \ {u}
    /\ UNCHANGED <<born, head, id, idr, filp, fd, fvars, wsem, srcu, grace, tvars, cvars>>

(* Slip: the uobjects left in the idr are not put. *)
BugReleaseUfile(r) ==
    /\ fref' = fref - 1
    /\ ref' = r
    /\ idr' = IF fref = 1 THEN [h \in Handles |-> Free] ELSE idr

(* kref_put(&ufile->ref, ib_uverbs_release_file), which on the last        *)
(* reference runs release_ufile_idr_uobject: r is ref after the other puts *)
(* of the step.                                                            *)
release_ufile(r) ==
    /\ fref' = fref - 1
    /\ IF fref = 1
       THEN /\ ref' = [u \in Uobjs |-> IF \E h \in Handles : idr[h] = u
                                       THEN r[u] - 1 ELSE r[u]]
            /\ idr' = [h \in Handles |-> Free]
       ELSE ref' = r /\ UNCHANGED idr

(* The puts at the end of uverbs_uobject_fd_release. *)
fd_release_put(u) ==
    /\ rel[u] = "drop"
    /\ rel' = [rel EXCEPT ![u] = "done"]
    /\ release_ufile([ref EXCEPT ![u] = @ - 1])
    /\ UNCHANGED <<born, head, usecnt, object, list, id, filp, fd, ucontext,
                   onlist, svars, tvars, cvars>>

----------------------------------------------------------------------------
(* Cleanup of the whole file: ib_uverbs_close and ib_uverbs_remove_one,    *)
(* both through uverbs_destroy_ufile_hw.                                   *)

(* Slip: the file leaves the list of the device before its cleanup. *)
BugClose ==
    /\ open /\ \A t \in Threads : pc[t] = "idle"
    /\ onlist' = FALSE
    /\ cpc' = [cpc EXCEPT !["close"] = "down_write"]
    /\ UNCHANGED <<uvars, ucontext, fref, svars, tvars, todo, progress>>

(* The last reference on the uverbs file is gone: no command is running.   *)
ib_uverbs_close ==
    /\ open /\ \A t \in Threads : pc[t] = "idle"
    /\ cpc' = [cpc EXCEPT !["close"] = "down_write"]
    /\ UNCHANGED <<uvars, ucontext, fref, onlist, svars, tvars, todo, progress>>

(* uverbs_disassociate_api_pre *)
ib_uverbs_remove_one ==
    /\ cpc["remove"] = "idle"
    /\ grace' = srcu
    /\ cpc' = [cpc EXCEPT !["remove"] = "sync"]
    /\ UNCHANGED <<uvars, ucontext, fref, onlist, rsem, wsem, srcu, tvars,
                   todo, progress>>

(* Slip: cleanup does not wait for the commands that still see the device. *)
BugFreeHw ==
    /\ cpc["remove"] = "sync"
    /\ IF onlist
       THEN /\ onlist' = FALSE
            /\ fref' = fref + 1
            /\ cpc' = [cpc EXCEPT !["remove"] = "down_write"]
       ELSE cpc' = [cpc EXCEPT !["remove"] = "done"] /\ UNCHANGED <<onlist, fref>>
    /\ UNCHANGED <<uvars, ucontext, svars, tvars, todo, progress>>

(* ib_uverbs_free_hw_resources takes the file off the list of the device,  *)
(* unless close has; with an empty list removal is over.                   *)
ib_uverbs_free_hw_resources ==
    /\ cpc["remove"] = "sync" /\ grace = {}
    /\ IF onlist
       THEN /\ onlist' = FALSE
            /\ fref' = fref + 1
            /\ cpc' = [cpc EXCEPT !["remove"] = "down_write"]
       ELSE /\ cpc' = [cpc EXCEPT !["remove"] = "done"]
            /\ UNCHANGED <<onlist, fref>>
    /\ UNCHANGED <<uvars, ucontext, svars, tvars, todo, progress>>

Linked == {u \in Uobjs : list[u] # 0}

(* down_write, and the test of ufile->ucontext *)
uverbs_destroy_ufile_hw(c) ==
    /\ cpc[c] = "down_write" /\ rsem = {} /\ wsem = Null
    /\ wsem' = c
    /\ todo' = IF ucontext THEN Linked ELSE {}
    /\ progress' = FALSE
    /\ cpc' = [cpc EXCEPT ![c] = IF ucontext THEN "pass" ELSE "up_write"]
    /\ UNCHANGED <<uvars, fvars, rsem, srcu, grace, tvars>>

(* uverbs_destroy_uobject of u for a reason other than DESTROY: the kref   *)
(* of the list goes, that of the idr stays, the uobject is unlocked.       *)
Cleaned(u) ==
    /\ object' = object \ {u}
    /\ usecnt' = [usecnt EXCEPT ![u] = 0]
    /\ list' = [list EXCEPT ![u] = 0]
    /\ ref' = [ref EXCEPT ![u] = @ - 1]

Next2Clean(u) == u \in todo /\ \A v \in todo : list[v] <= list[u]

(* One turn of the loop of __uverbs_cleanup_ufile, newest uobject first;   *)
(* destroy_hw of an IDR uobject may fail, the uobject then stays linked.   *)
uverbs_cleanup_ufile(c) ==
    /\ cpc[c] = "pass"
    /\ \E u \in Uobjs :
         /\ Next2Clean(u)
         /\ todo' = todo \ {u}
         /\ \/ Cleaned(u) /\ progress' = TRUE
            \/ /\ u \in IdrUobjs /\ u \in object
               /\ usecnt' = [usecnt EXCEPT ![u] = 0]
               /\ UNCHANGED <<object, list, ref, progress>>
    /\ UNCHANGED <<born, head, id, idr, filp, fd, rel, fvars, svars, tvars, cpc>>

(* Slip: uobjects that could not be destroyed are left linked. *)
BugPassEnd(c) ==
    /\ cpc[c] = "pass" /\ todo = {}
    /\ \/ /\ Linked # {} /\ progress
          /\ todo' = Linked
          /\ progress' = FALSE
          /\ UNCHANGED <<uvars, ucontext, cpc>>
       \/ /\ Linked # {} => ~progress
          /\ ucontext' = FALSE
          /\ cpc' = [cpc EXCEPT ![c] = "up_write"]
          /\ UNCHANGED <<uvars, todo, progress>>
    /\ UNCHANGED <<fref, onlist, svars, tvars>>

(* The end of a pass: another one when it destroyed something and left     *)
(* something; with no progress the HW objects are given up (the pass with  *)
(* RDMA_REMOVE_DRIVER_FAILURE); then ufile_destroy_ucontext.               *)
cleanup_pass_end(c) ==
    /\ cpc[c] = "pass" /\ todo = {}
    /\ \/ /\ Linked # {} /\ progress
          /\ todo' = Linked
          /\ progress' = FALSE
          /\ UNCHANGED <<uvars, ucontext, cpc>>
       \/ /\ Linked # {} => ~progress
          /\ object' = object \ Linked
          /\ usecnt' = [u \in Uobjs |-> IF u \in Linked THEN 0 ELSE usecnt[u]]
          /\ list' = [u \in Uobjs |-> 0]
          /\ ref' = [u \in Uobjs |-> IF u \in Linked THEN ref[u] - 1 ELSE ref[u]]
          /\ ucontext' = FALSE
          /\ cpc' = [cpc EXCEPT ![c] = "up_write"]
          /\ UNCHANGED <<born, head, id, idr, filp, fd, rel, todo, progress>>
    /\ UNCHANGED <<fref, onlist, svars, tvars>>

up_write(c) ==
    /\ cpc[c] = "up_write"
    /\ wsem' = Null
    /\ cpc' = [cpc EXCEPT ![c] = "put"]
    /\ UNCHANGED <<uvars, fvars, rsem, srcu, grace, tvars, todo, progress>>

(* The end of ib_uverbs_close. *)
close_put ==
    /\ cpc["close"] = "put"
    /\ onlist' = FALSE
    /\ release_ufile(ref)
    /\ cpc' = [cpc EXCEPT !["close"] = "done"]
    /\ UNCHANGED <<born, head, usecnt, object, list, id, filp, fd, rel, ucontext,
                   svars, tvars, todo, progress>>

(* The end of the loop body of ib_uverbs_free_hw_resources; the list of    *)
(* this device has no other file.                                          *)
remove_put ==
    /\ cpc["remove"] = "put"
    /\ release_ufile(ref)
    /\ cpc' = [cpc EXCEPT !["remove"] = "done"]
    /\ UNCHANGED <<born, head, usecnt, object, list, id, filp, fd, rel, ucontext,
                   onlist, svars, tvars, todo, progress>>

----------------------------------------------------------------------------
Command(t) ==
    \/ ib_uverbs_ioctl(t)
    \/ ib_uverbs_ioctl_end(t)
    \/ ib_init_ucontext(t)
    \/ rdma_alloc_begin_uobject(t)
    \/ handler(t)
    \/ rdma_alloc_commit_uobject(t)
    \/ rdma_alloc_abort_uobject(t)
    \/ xa_load(t)
    \/ lookup_get_idr_uobject(t)
    \/ lookup_get_fd_uobject(t)
    \/ rdma_lookup_get_uobject(t)
    \/ rdma_lookup_put_uobject(t)
    \/ uobj_destroy(t)
    \/ rdma_assign_uobject(t)
    \/ destroy_hw(t)
    \/ uverbs_destroy_uobject(t)

FdRelease(u) ==
    \/ uverbs_uobject_fd_release(u)
    \/ fd_release_destroy(u)
    \/ fd_release_put(u)

Cleanup(c) ==
    \/ uverbs_destroy_ufile_hw(c)
    \/ uverbs_cleanup_ufile(c)
    \/ cleanup_pass_end(c)
    \/ up_write(c)

Next ==
    \/ \E t \in Threads : Command(t)
    \/ \E u \in FdUobjs : fd_close(u) \/ FdRelease(u)
    \/ \E c \in Cleaners : Cleanup(c)
    \/ ib_uverbs_close \/ close_put
    \/ ib_uverbs_remove_one \/ ib_uverbs_free_hw_resources \/ remove_put

Spec == Init /\ [][Next]_vars

----------------------------------------------------------------------------
(* Fairness: a thread in a command runs on, work that the kernel has begun *)
(* (release of a struct file, cleanup, removal) is finished. Nothing       *)
(* obliges a process to issue a command or to close anything.              *)
Fairness ==
    /\ \A t \in Threads : WF_vars(pc[t] # "idle" /\ Command(t))
    /\ \A u \in FdUobjs : WF_vars(FdRelease(u))
    /\ \A c \in Cleaners : WF_vars(Cleanup(c))
    /\ WF_vars(close_put) /\ WF_vars(ib_uverbs_free_hw_resources \/ remove_put)

FairSpec == Spec /\ Fairness

----------------------------------------------------------------------------
(* Properties. *)

PCs == {"idle", "cmd", "context", "exit", "rcu", "got", "locked", "put", "new", "created",
        "abort", "commit", "destroy", "unlink"}

TypeUobj ==
    /\ born \in SUBSET Uobjs
    /\ ref \in [Uobjs -> Int] /\ usecnt \in [Uobjs -> Int]
    /\ object \in SUBSET Uobjs /\ fd \in SUBSET FdUobjs
    /\ list \in [Uobjs -> Nat] /\ head \in Nat
    /\ id \in [Uobjs -> Handles \cup {Null}]
    /\ idr \in [Handles -> Uobjs \cup {Free, Null}]
    /\ filp \in [Uobjs -> Int]
    /\ rel \in [Uobjs -> {"none", "armed", "held", "drop", "done"}]

TypeFile ==
    /\ ucontext \in BOOLEAN /\ onlist \in BOOLEAN
    /\ fref \in Int

TypeLock ==
    /\ rsem \in SUBSET (Threads \cup FdUobjs)
    /\ wsem \in Cleaners \cup {Null}
    /\ srcu \in SUBSET Threads /\ grace \in SUBSET Threads

TypeThread ==
    /\ pc \in [Threads -> PCs]
    /\ cur \in [Threads -> Uobjs \cup {Null}]
    /\ new \in [Threads -> Uobjs \cup {Null}]
    /\ mode \in [Threads -> Modes]

TypeClean ==
    /\ cpc \in [Cleaners -> {"idle", "sync", "down_write", "pass", "up_write", "put", "done"}]
    /\ todo \in SUBSET Uobjs
    /\ progress \in BOOLEAN

(* Every variable has the type the code gives it. *)
TypeOK == TypeUobj /\ TypeFile /\ TypeLock /\ TypeThread /\ TypeClean

(* t has its uobject locked for read or write, from the try-lock of        *)
(* rdma_lookup_get_uobject to rdma_lookup_put_uobject.                     *)
Holding(t) == cur[t] # Null /\ mode[t] # "DESTROY" /\ pc[t] \notin {"rcu", "got"}

Readers(u) == {t \in Threads : Holding(t) /\ cur[t] = u /\ mode[t] = "READ"}

(* t owns u exclusively: for write, because it allocates it, or because it *)
(* destroys it.                                                            *)
Owns(t, u) ==
    \/ Holding(t) /\ cur[t] = u /\ mode[t] = "WRITE"
    \/ cur[t] = u /\ pc[t] \in {"destroy", "unlink"}
    \/ new[t] = u

(* usecnt is an exact reader/writer lock: shared holders are counted, an   *)
(* exclusive holder (a thread, or the release of an FD) is alone and shows *)
(* as -1 (uverbs_try_lock_object, assert_uverbs_usecnt).                   *)
UsecntIsALock ==
    \A u \in Uobjs :
       /\ usecnt[u] # -1 => usecnt[u] = Cardinality(Readers(u))
       /\ usecnt[u] = -1 => Readers(u) = {}
       /\ rel[u] = "held" => usecnt[u] = -1
       /\ \A t \in Threads : Owns(t, u) =>
             /\ usecnt[u] = -1 /\ rel[u] # "held"
             /\ \A s \in Threads : Owns(s, u) => s = t

(* Memory that has been freed is never used again: a lookup cannot revive  *)
(* a uobject whose last reference is gone.                                 *)
FreedStaysFreed ==
    [][\A u \in born : ref[u] = 0 => ref'[u] = 0]_vars

One(b) == IF b THEN 1 ELSE 0

(* The owners of a reference on u: the threads that looked it up, the one  *)
(* that creates it, the idr, the list and the struct file.                 *)
Krefs(u)    == {t \in Threads : cur[t] = u /\ pc[t] # "rcu"}
Creating(u) == \E t \in Threads : new[t] = u
Indexed(u)  == \E h \in Handles : idr[h] = u
Filed(u)    == rel[u] \in {"armed", "held", "drop"}

Owners(u) == Cardinality(Krefs(u)) + One(Creating(u)) + One(Indexed(u))
             + One(list[u] # 0) + One(Filed(u))

(* The kref of a uobject is the number of its owners (uverbs_uobject_get   *)
(* and _put throughout rdma_core.c): it is freed once, by the last of      *)
(* them, and not before.                                                   *)
KrefIsExact == \A u \in Uobjs : ref[u] = Owners(u)

(* t has looked up an FD uobject and has not locked it. When it is refused *)
(* now, lookup_put_fd_uobject calls fput(NULL).                            *)
Faults(t) == pc[t] = "got" /\ cur[t] \in FdUobjs \ object

(* While a command has a uobject locked for read or write its HW object    *)
(* exists: neither DESTROY, nor release of an FD, nor cleanup of the file  *)
(* can take it away. And as long as t may see the device, also a refused   *)
(* lookup finds the struct file that lookup_put_fd_uobject gives to fput.  *)
HwObjectStable ==
    \A t \in Threads : (Holding(t) => cur[t] \in object) /\ (SeesDev(t) => ~Faults(t))

(* "If we have been disassociated block every command except for DESTROY   *)
(* based commands": rdma_lookup_get_uobject gives such a command its error *)
(* and puts what it had looked up. It does not do so for an FD uobject.    *)
RefusedIsPut == \A t \in Threads : ~Faults(t)

(* The WARN_ON of __uverbs_cleanup_ufile: cleanup never meets a uobject    *)
(* that a command, or the release of an FD, has locked.                    *)
CleanupMeetsNoCommand ==
    \A c \in Cleaners : cpc[c] = "pass" =>
       \A u \in todo : /\ Readers(u) = {} /\ rel[u] # "held"
                       /\ \A t \in Threads : ~Owns(t, u)

(* The WARN_ON of uverbs_uobject_fd_release: when it gets hw_destroy_rwsem *)
(* it gets the write lock of the uobject too.                              *)
FdReleaseGetsLock ==
    \A u \in FdUobjs : rel[u] = "armed" /\ filp[u] = 0 => usecnt[u] = 0

(* When ib_uverbs_remove_one returns, the device may go: no ucontext and   *)
(* no HW object of this file is left, whoever destroyed them.              *)
RemovalLeavesNothing ==
    cpc["remove"] = "done" => ~ucontext /\ object = {}

(* The WARN_ON of release_ufile_idr_uobject: with the last reference on    *)
(* the file no HW object is left.                                          *)
ReleaseFindsNoHw == fref = 0 => object = {}

(* No HW object is created after synchronize_srcu has returned.            *)
NoCreationAfterGrace ==
    [][cpc["remove"] \notin {"idle", "sync"} => object' \subseteq object]_vars

(* Once the process has closed the file and its FDs, all memory is freed.  *)
CloseFreesAll ==
    [](~open /\ fd = {}
         => <>(fref = 0 /\ \A u \in Uobjs : ref[u] = 0))

(* No command waits for ever, for hw_destroy_rwsem in particular           *)
(* (down_read of uobj_destroy), apart from one that dies in fput.          *)
CommandsEnd == \A t \in Threads : pc[t] # "idle" ~> pc[t] = "idle" \/ Faults(t)

(* ib_uverbs_remove_one returns: neither synchronize_srcu nor the cleanup  *)
(* of the file waits for ever.                                             *)
RemovalEnds == cpc["remove"] = "sync" ~> cpc["remove"] = "done"
============================================================================
