----------------------------- MODULE UobjectInv -----------------------------
(***************************************************************************)
(* The invariants of the uobject life cycle from which its properties      *)
(* follow, and the proof that IInv is inductive: every step preserves the  *)
(* types, what a thread refers to, who holds hw_destroy_rwsem, what close  *)
(* and disassociation exclude, who can reach a uobject, who has its HW     *)
(* object, and how far teardown has come. IInv stands by itself; LockInv,  *)
(* RefInv and HwObjects are inductive given IInv (and LockInv): UobjectUse *)
(* has LockInv, UobjectProofs RefInv. Which uobjects can be found, and     *)
(* which of them have their HW object, is at the end: every step other     *)
(* than the release of the file preserves the agreement of ufile->idr with *)
(* the ids of the uobjects, cleanup goes through linked uobjects only, and *)
(* HwObjects is inductive.                                                 *)
(***************************************************************************)
EXTENDS Uobject, TLAPS

USE Zenon

----------------------------------------------------------------------------
(* IInv, by concern. *)

(* What a thread refers to at each point of a command. *)
ThreadShape ==
    \A t \in Threads :
       /\ pc[t] \in {"idle", "cmd", "exit", "context"} => cur[t] = Null
       /\ pc[t] \in {"rcu", "got", "locked", "put", "destroy", "unlink"} => cur[t] # Null
       /\ pc[t] \in {"new", "context", "created", "abort", "commit"} => new[t] # Null
       /\ pc[t] \in {"idle", "cmd", "exit", "rcu", "got", "locked", "put"} => new[t] = Null
       /\ pc[t] \in {"destroy", "unlink"} => mode[t] = "DESTROY"
       /\ cur[t] # Null /\ pc[t] = "commit" => mode[t] = "DESTROY"
       /\ cur[t] # Null /\ pc[t] \in {"locked", "new", "created", "abort"} => mode[t] # "DESTROY"
       /\ cur[t] \in FdUobjs => mode[t] = "READ" /\ pc[t] # "rcu"
       /\ Rereg(t) /\ new[t] # Null => new[t] \in IdrUobjs

(* Who holds hw_destroy_rwsem. *)
SemShape ==
    /\ \A t \in Threads : t \in rsem <=> new[t] # Null \/ pc[t] \in {"destroy", "unlink"}
    /\ \A u \in FdUobjs : u \in rsem <=> rel[u] = "held"
    /\ \A c \in Cleaners : cpc[c] \in {"pass", "up_write"} <=> wsem = c
    /\ wsem # Null => rsem = {}

(* What closing the file and disassociation exclude. *)
Gates ==
    /\ cpc["close"] # "idle" => \A t \in Threads : pc[t] = "idle"
    /\ cpc["close"] # "sync"
    /\ cpc["remove"] # "sync" => grace = {}
    /\ \A t \in Threads : t \in srcu <=> pc[t] # "idle"
    /\ \A t \in Threads : cpc["remove"] # "idle" /\ (new[t] # Null \/ Holding(t)) => t \in grace

(* A uobject is unreachable until it is committed. *)
Publication ==
    /\ \A t \in Threads : new[t] # Null =>
          /\ new[t] \in born \ fd /\ rel[new[t]] = "none" /\ list[new[t]] = 0
          /\ \A s \in Threads : cur[s] # new[t] /\ (s # t => new[s] # new[t])
          /\ \A h \in Handles : idr[h] # new[t]
    /\ \A t \in Threads : cur[t] # Null => cur[t] \in born
    /\ \A h \in Handles : idr[h] \in Uobjs => idr[h] \in born /\ idr[h] \notin FdUobjs
    /\ \A u \in Uobjs : rel[u] # "none" => u \in born /\ u \in FdUobjs
    /\ \A u \in Uobjs : list[u] # 0 => u \in born
    /\ \A u \in Uobjs : u \in fd => u \in born

(* Destruction takes the HW object before the uobject is unlinked: a HW    *)
(* object is in the hands of its creator or on the list of the file.       *)
OldObject == \A t \in Threads : pc[t] = "unlink" => cur[t] \notin object

ObjectOwned == \A u \in object : list[u] # 0 \/ \E t \in Threads : new[t] = u

Owned == OldObject /\ ObjectOwned

HasContext ==
    /\ \A u \in Uobjs : list[u] # 0 => ucontext
    /\ \A t \in Threads : new[t] # Null /\ pc[t] \notin {"context", "abort"} => ucontext

(* How far teardown has come. *)
Teardown ==
    /\ \A c \in Cleaners : cpc[c] \in {"up_write", "put", "done"} => ~ucontext
    /\ ~onlist => cpc["close"] = "done" \/ cpc["remove"] \notin {"idle", "sync"}

IInv ==
    /\ TypeOK
    /\ ThreadShape
    /\ SemShape
    /\ Gates
    /\ Publication
    /\ Owned
    /\ HasContext
    /\ Teardown

----------------------------------------------------------------------------
(* LockInv: the try-lock of a uobject, and the struct file of an FD        *)
(* uobject.                                                                *)

(* The struct file of an FD uobject: one reference for the descriptor and  *)
(* one for each lookup in progress.                                        *)
Filps ==
    \A u \in FdUobjs :
       /\ Creating(u) => filp[u] = 1
       /\ u \in fd => rel[u] = "armed"
       /\ \A t \in Threads : cur[t] = u => rel[u] = "armed"
       /\ rel[u] = "armed" => filp[u] = Cardinality(Krefs(u)) + One(u \in fd)

(* Only its creation and its release lock an FD uobject exclusively. *)
FdLocks == \A u \in FdUobjs : usecnt[u] = -1 => Creating(u) \/ rel[u] = "held"

LockInv == UsecntIsALock /\ Filps /\ FdLocks

----------------------------------------------------------------------------
(* RefInv: the references on uobjects and on the file. *)

(* The uobject u is found at its id. *)
AtIndex(u) == id[u] \in Handles /\ idr[id[u]] = u

(* A command has looked u up, and it may yet be granted the lock or has it. *)
Kept(u) == \E t \in Threads : cur[t] = u /\ (usecnt[u] # -1 \/ Owns(t, u))

(* The idr and the ids of the uobjects agree: a uobject has one index, an  *)
(* index that a creating command has reserved is its own, and a uobject is *)
(* indexed as long as it is linked or a command can still lock it.         *)
Indices ==
    /\ \A h \in Handles : idr[h] \in Uobjs => id[idr[h]] = h
    /\ \A t \in Threads : new[t] \in IdrUobjs => id[new[t]] \in Handles /\ idr[id[new[t]]] = Null
    /\ \A s, t \in Threads : s # t /\ new[s] \in IdrUobjs /\ new[t] \in IdrUobjs
          => id[new[s]] # id[new[t]]
    /\ \A u \in IdrUobjs : Kept(u) \/ list[u] # 0 => AtIndex(u)

(* Cleanup goes through uobjects that are linked. *)
ToClean == \A c \in Cleaners : cpc[c] = "pass" => todo \subseteq Linked

(* The struct files and the tasks that hold a reference on the file. *)
FiledUobjs == {u \in FdUobjs : Filed(u)}

Removing == cpc["remove"] \in {"down_write", "pass", "up_write", "put"}

FileRefs == fref = Cardinality(FiledUobjs) + One(cpc["close"] # "done") + One(Removing)

RefInv == Indices /\ ToClean /\ FileRefs /\ KrefIsExact

----------------------------------------------------------------------------
(* HwObjects: who can count on the HW object of a uobject. *)

(* Cleanup has not begun. *)
Undisturbed == cpc["close"] = "idle" /\ cpc["remove"] \in {"idle", "sync"}

(* A uobject has its HW object from the end of its handler on, *)
HwNew == \A t \in Threads : new[t] # Null /\ pc[t] \notin {"new", "abort"} => new[t] \in object

(* ... and keeps it while it can be found and is not locked for write.     *)
Reachable(u) == Indexed(u) \/ u \in fd \/ \E t \in Threads : cur[t] = u

HwReach == Undisturbed => \A u \in Uobjs : usecnt[u] # -1 /\ Reachable(u) => u \in object

(* Who has locked a uobject has its HW object, also when cleanup begins.   *)
HwLocked == \A t \in Threads : Holding(t) => cur[t] \in object

HwObjects == HwNew /\ HwReach /\ HwLocked

----------------------------------------------------------------------------
(* What the steps do, for use in all the proofs. *)

(* The two outcomes of rdma_lookup_get_uobject. *)
Granted(t) ==
    /\ mode[t] # "DESTROY" /\ SeesDev(t) /\ CanLock(cur[t], mode[t])
    /\ usecnt' = [usecnt EXCEPT ![cur[t]] = Lock(cur[t], mode[t])]
    /\ pc' = [pc EXCEPT ![t] = "locked"]
    /\ UNCHANGED <<ref, filp, cur>>

Refused(t) == lookup_put(t) /\ UNCHANGED usecnt

(* A try-lock for read or write succeeds only when nobody has u exclusively. *)
LEMMA CanLockMeans ==
    ASSUME NEW u, NEW m \in {"READ", "WRITE"}, CanLock(u, m)
    PROVE  usecnt[u] # -1
  BY SMT DEF CanLock

(* What a lookup that succeeds has found. *)
LEMMA GrantedMeans ==
    ASSUME IInv, NEW t \in Threads, pc[t] = "got", Granted(t)
    PROVE  /\ mode[t] \in {"READ", "WRITE"} /\ cur[t] \in Uobjs /\ SeesDev(t)
           /\ CanLock(cur[t], mode[t]) /\ usecnt[cur[t]] # -1
<1>0. TypeOK /\ ThreadShape
  BY DEF IInv
<1> USE <1>0
<1>1. mode[t] \in {"READ", "WRITE"} /\ cur[t] \in Uobjs
  BY DEF Granted, ThreadShape, TypeOK, TypeThread, Modes
<1>2. SeesDev(t) /\ CanLock(cur[t], mode[t])
  BY DEF Granted
<1> QED
  BY <1>1, <1>2, CanLockMeans

(* rdma_lookup_get_uobject either grants the lock or drops what the lookup *)
(* took; it changes nothing else.                                          *)
LEMMA LookupGet ==
    ASSUME NEW t \in Threads, rdma_lookup_get_uobject(t)
    PROVE  /\ Granted(t) \/ Refused(t)
           /\ pc[t] = "got"
           /\ UNCHANGED <<born, head, object, list, id, idr, fd, rel, fvars, svars, new, mode, cvars>>
  BY DEF rdma_lookup_get_uobject, Granted, Refused

(* The outcomes of rdma_alloc_begin_uobject. *)
AllocIdr(t, u, h) == u \in IdrUobjs \ born /\ h \in Handles /\ alloc_begin_idr_uobject(t, u, h)

AllocFd(t, u) ==
    u \in FdUobjs \ born /\ \E next \in {"new", "context"} : alloc_begin_fd_uobject(t, u, next)

AllocNone(t) ==
    pc' = [pc EXCEPT ![t] = Leave(t)] /\ UNCHANGED <<born, ref, usecnt, object, id, idr, filp, rsem, new>>

(* rdma_alloc_begin_uobject reserves an index for an IDR uobject, creates  *)
(* the struct file of an FD one, or leaves nothing behind.                 *)
LEMMA AllocBegin ==
    ASSUME NEW t \in Threads, rdma_alloc_begin_uobject(t)
    PROVE  /\ \/ AllocNone(t)
              \/ \E u \in Uobjs, h \in Handles : AllocIdr(t, u, h)
              \/ \E u \in Uobjs : AllocFd(t, u)
           /\ pc[t] \in {"cmd", "locked"}
           /\ UNCHANGED <<list, head, fd, rel, fvars, wsem, srcu, grace, cur, mode, cvars>>
<1>1. CASE MayAlloc(t) /\ \E u \in Uobjs \ born :
              \/ u \in IdrUobjs /\ \E h \in Handles : alloc_begin_idr_uobject(t, u, h)
              \/ u \in FdUobjs /\ ~Rereg(t) /\ alloc_begin_fd_uobject(t, u, "new")
  <2>1. \/ \E u \in Uobjs, h \in Handles : AllocIdr(t, u, h)
        \/ \E u \in Uobjs : AllocFd(t, u)
    BY <1>1 DEF AllocIdr, AllocFd
  <2> QED
    BY <2>1 DEF rdma_alloc_begin_uobject
<1>2. CASE ib_uverbs_get_context(t)
  <2>1. FdUobjs \subseteq Uobjs
    BY ConstantsAssumption
  <2>2. \E u \in Uobjs : AllocFd(t, u)
    BY <1>2, <2>1 DEF ib_uverbs_get_context, AllocFd
  <2> QED
    BY <2>2 DEF rdma_alloc_begin_uobject
<1>3. CASE AllocNone(t)
  BY <1>3 DEF rdma_alloc_begin_uobject
<1> QED
  BY <1>1, <1>2, <1>3 DEF rdma_alloc_begin_uobject, AllocNone

(* What this means for the command and for hw_destroy_rwsem. *)
LEMMA AllocThread ==
    ASSUME NEW t \in Threads, rdma_alloc_begin_uobject(t)
    PROVE  /\ UNCHANGED <<cur, mode, wsem, srcu, grace, rel, cvars>>
           /\ pc[t] \in {"cmd", "locked"}
           /\ \/ pc' = [pc EXCEPT ![t] = Leave(t)] /\ UNCHANGED <<new, rsem>>
              \/ \E u \in Uobjs, next \in {"new", "context"} :
                    /\ new' = [new EXCEPT ![t] = u] /\ pc' = [pc EXCEPT ![t] = next]
                    /\ rsem' = rsem \cup {t} /\ CanRead /\ SeesDev(t)
                    /\ Rereg(t) /\ pc[t] # "cmd" => u \in IdrUobjs
                    /\ next = "context" => pc[t] = "cmd"
<1>1. ASSUME NEW u \in Uobjs, u \in IdrUobjs, NEW h, alloc_begin_idr_uobject(t, u, h)
      PROVE  /\ new' = [new EXCEPT ![t] = u] /\ pc' = [pc EXCEPT ![t] = "new"]
             /\ rsem' = rsem \cup {t}
  BY <1>1 DEF alloc_begin_idr_uobject, alloc_uobj
<1>2. ASSUME NEW u \in FdUobjs, NEW next, alloc_begin_fd_uobject(t, u, next)
      PROVE  /\ new' = [new EXCEPT ![t] = u] /\ pc' = [pc EXCEPT ![t] = next]
             /\ rsem' = rsem \cup {t} /\ u \in Uobjs
  BY <1>2, ConstantsAssumption DEF alloc_begin_fd_uobject, alloc_uobj
<1>3. CASE MayAlloc(t) /\ \E u \in Uobjs \ born :
              \/ u \in IdrUobjs /\ \E h \in Handles : alloc_begin_idr_uobject(t, u, h)
              \/ u \in FdUobjs /\ ~Rereg(t) /\ alloc_begin_fd_uobject(t, u, "new")
  <2>1. \E u \in Uobjs : /\ new' = [new EXCEPT ![t] = u] /\ pc' = [pc EXCEPT ![t] = "new"]
                         /\ rsem' = rsem \cup {t} /\ (Rereg(t) => u \in IdrUobjs)
    BY <1>1, <1>2, <1>3
  <2> QED
    BY <1>3, <2>1 DEF MayAlloc, rdma_alloc_begin_uobject
<1>4. CASE ib_uverbs_get_context(t)
  <2>1. \E u \in Uobjs : /\ new' = [new EXCEPT ![t] = u] /\ pc' = [pc EXCEPT ![t] = "context"]
                         /\ rsem' = rsem \cup {t}
    BY <1>2, <1>4 DEF ib_uverbs_get_context
  <2> QED
    BY <1>4, <2>1 DEF ib_uverbs_get_context, rdma_alloc_begin_uobject
<1>5. CASE pc' = [pc EXCEPT ![t] = Leave(t)] /\ UNCHANGED <<new, rsem>>
  BY <1>5 DEF rdma_alloc_begin_uobject
<1> QED
  BY <1>3, <1>4, <1>5 DEF rdma_alloc_begin_uobject

(* During cleanup no command holds, creates or destroys a uobject. *)
LEMMA CleanerAlone ==
    ASSUME IInv, NEW c \in Cleaners, cpc[c] = "pass"
    PROVE  /\ \A t \in Threads : /\ ~Holding(t) /\ new[t] = Null
                                 /\ pc[t] \notin {"destroy", "unlink"}
           /\ \A u \in FdUobjs : rel[u] # "held"
<1>0. TypeOK /\ ThreadShape /\ SemShape /\ Gates
  BY DEF IInv
<1> USE <1>0
<1>1. rsem = {}
  BY ConstantsAssumption DEF SemShape, Cleaners
<1>2. \A t \in Threads : new[t] = Null /\ pc[t] \notin {"destroy", "unlink"}
  BY <1>1 DEF SemShape
<1>3. \A u \in FdUobjs : rel[u] # "held"
  BY <1>1 DEF SemShape
<1>4. CASE c = "close"
  BY <1>2, <1>3, <1>4 DEF Gates, ThreadShape, Holding
<1>5. CASE c = "remove"
  BY <1>2, <1>3, <1>5 DEF Gates
<1> QED
  BY <1>4, <1>5 DEF Cleaners

(* t has u locked for read. *)
Reads(t, u) == Holding(t) /\ cur[t] = u /\ mode[t] = "READ"

(* The locals of the threads other than t stay as they are. *)
OthersSame(t) ==
    \A s \in Threads \ {t} : /\ pc'[s] = pc[s] /\ cur'[s] = cur[s]
                             /\ new'[s] = new[s] /\ mode'[s] = mode[s]

(* A command only changes the locals of its own thread. *)
LEMMA OthersStay ==
    ASSUME TypeOK, NEW t \in Threads, Command(t)
    PROVE  OthersSame(t)
<1>0. TypeThread
  BY DEF TypeOK
<1>1. CASE \/ ib_uverbs_ioctl(t) \/ ib_uverbs_ioctl_end(t) \/ ib_init_ucontext(t) \/ handler(t)
           \/ uobj_destroy(t) \/ destroy_hw(t) \/ uverbs_destroy_uobject(t)
  <2>1. UNCHANGED <<cur, new, mode>> /\ \E p : pc' = [pc EXCEPT ![t] = p]
    BY <1>1 DEF ib_uverbs_ioctl, ib_uverbs_ioctl_end, ib_init_ucontext, handler, uobj_destroy,
       destroy_hw, uverbs_destroy_uobject
  <2> QED
    BY <1>0, <2>1 DEF OthersSame, TypeThread
<1>2. CASE rdma_alloc_begin_uobject(t)
  <2>1. /\ UNCHANGED <<cur, mode>> /\ \E p : pc' = [pc EXCEPT ![t] = p]
        /\ new' = new \/ \E u : new' = [new EXCEPT ![t] = u]
    BY <1>2 DEF rdma_alloc_begin_uobject, ib_uverbs_get_context, alloc_begin_fd_uobject,
       alloc_begin_idr_uobject, alloc_uobj
  <2> QED
    BY <1>0, <2>1 DEF OthersSame, TypeThread
<1>3. CASE rdma_alloc_commit_uobject(t) \/ rdma_alloc_abort_uobject(t)
  <2>1. /\ UNCHANGED <<cur, mode>> /\ \E p : pc' = [pc EXCEPT ![t] = p]
        /\ new' = [new EXCEPT ![t] = Null]
    BY <1>3 DEF rdma_alloc_commit_uobject, rdma_alloc_abort_uobject
  <2> QED
    BY <1>0, <2>1 DEF OthersSame, TypeThread
<1>4. CASE \/ xa_load(t) \/ lookup_get_idr_uobject(t) \/ lookup_get_fd_uobject(t)
           \/ rdma_lookup_get_uobject(t) \/ rdma_lookup_put_uobject(t) \/ rdma_assign_uobject(t)
  <2>1. /\ new' = new /\ \E p : pc' = [pc EXCEPT ![t] = p]
        /\ cur' = cur \/ \E u : cur' = [cur EXCEPT ![t] = u]
        /\ mode' = mode \/ \E m : mode' = [mode EXCEPT ![t] = m]
    BY <1>4 DEF xa_load, lookup_get_idr_uobject, lookup_get_fd_uobject, lookup_put,
       rdma_lookup_get_uobject, rdma_lookup_put_uobject, rdma_assign_uobject
  <2> QED
    BY <1>0, <2>1 DEF OthersSame, TypeThread
<1> QED
  BY <1>1, <1>2, <1>3, <1>4 DEF Command

(* So the locks of the other threads are not disturbed. *)
LEMMA OthersGrip ==
    ASSUME NEW t \in Threads, OthersSame(t), NEW s \in Threads, s # t, NEW u
    PROVE  (Reads(s, u)' <=> Reads(s, u)) /\ (Owns(s, u)' <=> Owns(s, u))
  BY DEF OthersSame, Reads, Owns, Holding

(* The threads do not move. *)
LEMMA ThreadsRest ==
    ASSUME UNCHANGED tvars, NEW s, NEW u
    PROVE  (Reads(s, u)' <=> Reads(s, u)) /\ (Owns(s, u)' <=> Owns(s, u))
  BY DEF tvars, Reads, Owns, Holding

----------------------------------------------------------------------------
(* One lemma for each part of the invariant. *)

(* Every step keeps the types of the fields of a uobject and of            *)
(* ufile->idr.                                                             *)
LEMMA TypeUobjStep ==
    ASSUME IInv, Next
    PROVE  TypeUobj'
<1>0. TypeOK /\ ThreadShape
  BY DEF IInv
<1> USE <1>0
<1> USE ConstantsAssumption
<1>1. ASSUME NEW t \in Threads, ib_uverbs_ioctl(t) \/ ib_uverbs_ioctl_end(t)
             \/ ib_init_ucontext(t) \/ xa_load(t) \/ rdma_alloc_begin_uobject(t)
             \/ handler(t) \/ rdma_alloc_commit_uobject(t)
             \/ rdma_alloc_abort_uobject(t)
      PROVE  TypeUobj'
  <2>1. CASE ib_uverbs_ioctl(t) \/ ib_uverbs_ioctl_end(t) \/ ib_init_ucontext(t)
             \/ xa_load(t)
    <3>1. UNCHANGED <<born, ref, usecnt, object, list, head, id, idr, filp, fd, rel>>
      BY <2>1 DEF ib_uverbs_ioctl, ib_uverbs_ioctl_end, ib_init_ucontext, xa_load, uvars
    <3> QED
      BY <3>1 DEF TypeOK, TypeUobj
  <2>2. CASE rdma_alloc_begin_uobject(t)
    <3>0. UNCHANGED <<list, head, fd, rel>>
      BY <2>2, AllocBegin
    <3>1. CASE AllocNone(t)
      BY <3>0, <3>1 DEF AllocNone, TypeOK, TypeUobj
    <3>2. ASSUME NEW u \in Uobjs, NEW h \in Handles, AllocIdr(t, u, h)
          PROVE  TypeUobj'
      BY <3>0, <3>2, SMT DEF AllocIdr, alloc_begin_idr_uobject, alloc_uobj, TypeOK, TypeUobj
    <3>3. ASSUME NEW u \in Uobjs, AllocFd(t, u)
          PROVE  TypeUobj'
      BY <3>0, <3>3, SMT DEF AllocFd, alloc_begin_fd_uobject, alloc_uobj, TypeOK, TypeUobj
    <3> QED
      BY <2>2, <3>1, <3>2, <3>3, AllocBegin
  <2>3. CASE handler(t)
    BY <2>3, SMT DEF handler, fvars, svars, cvars, TypeUobj, TypeOK,
       TypeThread, PCs, ThreadShape, TypeClean, IdrUobjs
  <2>4. CASE rdma_alloc_commit_uobject(t)
    BY <2>4, SMT DEF rdma_alloc_commit_uobject, Rereg, Leave, cvars,
       TypeUobj, TypeOK, TypeThread, PCs, ThreadShape, TypeClean, IdrUobjs
  <2>5. CASE rdma_alloc_abort_uobject(t)
    <3>1. new[t] \in Uobjs
      BY <2>5 DEF rdma_alloc_abort_uobject, TypeOK, TypeThread, ThreadShape
    <3>2. ref' \in [Uobjs -> Int]
      BY <2>5, <3>1, SMT DEF rdma_alloc_abort_uobject, TypeOK, TypeUobj
    <3>3. idr' \in [Handles -> Uobjs \cup {Free, Null}]
      BY <2>5 DEF rdma_alloc_abort_uobject, TypeOK, TypeUobj
    <3> QED
      BY <2>5, <3>2, <3>3, SMT DEF rdma_alloc_abort_uobject, TypeOK, TypeUobj
  <2> QED
    BY <1>1, <2>1, <2>2, <2>3, <2>4, <2>5
<1>2. ASSUME NEW t \in Threads, lookup_get_idr_uobject(t) \/ lookup_get_fd_uobject(t)
             \/ rdma_lookup_get_uobject(t) \/ rdma_lookup_put_uobject(t)
             \/ uobj_destroy(t)
      PROVE  TypeUobj'
  <2>1. CASE lookup_get_idr_uobject(t)
    BY <2>1, SMT DEF lookup_get_idr_uobject, fvars, svars, cvars,
       TypeUobj, TypeOK, TypeThread, PCs, ThreadShape, TypeClean, IdrUobjs
  <2>2. CASE lookup_get_fd_uobject(t)
    BY <2>2, SMT DEF lookup_get_fd_uobject, fvars, svars, cvars,
       TypeUobj, TypeOK, TypeThread, PCs, ThreadShape, TypeClean, IdrUobjs
  <2>3. CASE rdma_lookup_get_uobject(t)
    <3>1. cur[t] \in Uobjs
      BY <2>3 DEF rdma_lookup_get_uobject, TypeOK, TypeThread, ThreadShape
    <3>2. Granted(t) => Lock(cur[t], mode[t]) \in Int
      BY <2>3, <3>1, LookupGet, GrantedMeans, SMT DEF Lock, TypeOK, TypeUobj
    <3>3. usecnt' \in [Uobjs -> Int] /\ ref' \in [Uobjs -> Int] /\ filp' \in [Uobjs -> Int]
      BY <2>3, <3>1, <3>2, LookupGet, SMT DEF Granted, Refused, lookup_put, TypeOK, TypeUobj
    <3> QED
      BY <2>3, <3>3 DEF rdma_lookup_get_uobject, TypeOK, TypeUobj
  <2>4. CASE rdma_lookup_put_uobject(t)
    <3>1. cur[t] \in Uobjs /\ mode[t] \in {"READ", "WRITE", "DESTROY"}
      BY <2>4 DEF rdma_lookup_put_uobject, TypeOK, TypeThread, ThreadShape, Modes
    <3>2. Unlock(cur[t], mode[t]) \in Int
      BY <3>1, SMT DEF Unlock, TypeOK, TypeUobj
    <3> QED
      BY <2>4, <3>1, <3>2, SMT DEF rdma_lookup_put_uobject, lookup_put, TypeOK, TypeUobj
  <2>5. CASE uobj_destroy(t)
    BY <2>5, SMT DEF uobj_destroy, CanRead, CanLock, fvars, cvars,
       TypeUobj, TypeOK, TypeThread, PCs, ThreadShape, TypeClean, IdrUobjs
  <2> QED
    BY <1>2, <2>1, <2>2, <2>3, <2>4, <2>5
<1>3. ASSUME NEW t \in Threads, rdma_assign_uobject(t) \/ destroy_hw(t)
             \/ uverbs_destroy_uobject(t)
      PROVE  TypeUobj'
  <2>1. CASE rdma_assign_uobject(t)
    <3>1. cur[t] \in Uobjs /\ new[t] \in Uobjs
      BY <2>1 DEF rdma_assign_uobject, Rereg, TypeOK, TypeThread, ThreadShape
    <3>2. id[cur[t]] \in Handles \cup {Null} /\ id[new[t]] \in Handles \cup {Null}
      BY <3>1 DEF TypeOK, TypeUobj
    <3>3. idr' \in [Handles -> Uobjs \cup {Free, Null}]
      BY <2>1, <3>1 DEF rdma_assign_uobject, TypeOK, TypeUobj
    <3>4. id' \in [Uobjs -> Handles \cup {Null}]
      BY <2>1, <3>1, <3>2 DEF rdma_assign_uobject, TypeOK, TypeUobj
    <3> QED
      BY <2>1, <3>3, <3>4 DEF rdma_assign_uobject, TypeOK, TypeUobj
  <2>2. CASE destroy_hw(t)
    BY <2>2, SMT DEF destroy_hw, fvars, cvars, TypeUobj, TypeOK,
       TypeThread, PCs, ThreadShape, TypeClean, IdrUobjs
  <2>3. CASE uverbs_destroy_uobject(t)
    <3>1. cur[t] \in Uobjs
      BY <2>3 DEF uverbs_destroy_uobject, TypeOK, TypeThread, ThreadShape
    <3>2. ref' \in [Uobjs -> Int]
      BY <2>3, <3>1, SMT DEF uverbs_destroy_uobject, TypeOK, TypeUobj
    <3>3. idr' \in [Handles -> Uobjs \cup {Free, Null}]
      BY <2>3 DEF uverbs_destroy_uobject, TypeOK, TypeUobj
    <3> QED
      BY <2>3, <3>2, <3>3 DEF uverbs_destroy_uobject, TypeOK, TypeUobj
  <2> QED
    BY <1>3, <2>1, <2>2, <2>3
<1>4. ASSUME NEW u \in FdUobjs, fd_close(u) \/ uverbs_uobject_fd_release(u)
             \/ fd_release_destroy(u) \/ fd_release_put(u)
      PROVE  TypeUobj'
  <2>1. CASE fd_close(u)
    BY <2>1, SMT DEF fd_close, fvars, svars, tvars, cvars, TypeUobj,
       TypeOK, TypeThread, PCs, ThreadShape, TypeClean, IdrUobjs
  <2>2. CASE uverbs_uobject_fd_release(u)
    BY <2>2, SMT DEF uverbs_uobject_fd_release, CanRead, CanLock, fvars,
       tvars, cvars, TypeUobj, TypeOK, TypeThread, PCs, ThreadShape, TypeClean, IdrUobjs
  <2>3. CASE fd_release_destroy(u)
    BY <2>3, SMT DEF fd_release_destroy, fvars, tvars, cvars, TypeUobj,
       TypeOK, TypeThread, PCs, ThreadShape, TypeClean, IdrUobjs
  <2>4. CASE fd_release_put(u)
    BY <2>4, SMT DEF fd_release_put, release_ufile, svars, tvars, cvars,
       TypeUobj, TypeOK, TypeThread, PCs, ThreadShape, TypeClean, IdrUobjs
  <2> QED
    BY <1>4, <2>1, <2>2, <2>3, <2>4
<1>5. ASSUME NEW c \in Cleaners, uverbs_destroy_ufile_hw(c) \/ up_write(c)
             \/ uverbs_cleanup_ufile(c) \/ cleanup_pass_end(c)
      PROVE  TypeUobj'
  <2>1. CASE uverbs_destroy_ufile_hw(c) \/ up_write(c)
    <3>1. UNCHANGED <<born, ref, usecnt, object, list, head, id, idr, filp, fd, rel>>
      BY <2>1 DEF uverbs_destroy_ufile_hw, up_write, uvars
    <3> QED
      BY <3>1 DEF TypeOK, TypeUobj
  <2>2. CASE uverbs_cleanup_ufile(c)
    BY <2>2, SMT DEF uverbs_cleanup_ufile, Next2Clean, Cleaned, fvars,
       svars, tvars, TypeUobj, TypeOK, TypeThread, PCs, ThreadShape, TypeClean, IdrUobjs
  <2>3. CASE cleanup_pass_end(c)
    BY <2>3, SMT DEF cleanup_pass_end, Linked, uvars, svars, tvars,
       TypeUobj, TypeOK, TypeThread, PCs, ThreadShape, TypeClean, IdrUobjs
  <2> QED
    BY <1>5, <2>1, <2>2, <2>3
<1>6. ASSUME ib_uverbs_close \/ ib_uverbs_remove_one \/ ib_uverbs_free_hw_resources
             \/ close_put \/ remove_put
      PROVE  TypeUobj'
  <2>1. CASE ib_uverbs_close \/ ib_uverbs_remove_one \/ ib_uverbs_free_hw_resources
    <3>1. UNCHANGED <<born, ref, usecnt, object, list, head, id, idr, filp, fd, rel>>
      BY <2>1 DEF ib_uverbs_close, ib_uverbs_remove_one, ib_uverbs_free_hw_resources,
         uvars
    <3> QED
      BY <3>1 DEF TypeOK, TypeUobj
  <2>2. CASE close_put
    BY <2>2, SMT DEF close_put, release_ufile, svars, tvars, TypeUobj,
       TypeOK, TypeThread, PCs, ThreadShape, TypeClean, IdrUobjs
  <2>3. CASE remove_put
    BY <2>3, SMT DEF remove_put, release_ufile, svars, tvars, TypeUobj,
       TypeOK, TypeThread, PCs, ThreadShape, TypeClean, IdrUobjs
  <2> QED
    BY <1>6, <2>1, <2>2, <2>3
<1> QED
  BY <1>1, <1>2, <1>3, <1>4, <1>5, <1>6 DEF Next, Command, FdRelease, Cleanup, Cleaners

(* Every step keeps the types of the fields of the file. *)
LEMMA TypeFileStep ==
    ASSUME IInv, Next
    PROVE  TypeFile'
<1>0. TypeOK
  BY DEF IInv
<1> USE <1>0
<1>1. ASSUME NEW t \in Threads, ib_uverbs_ioctl(t) \/ ib_uverbs_ioctl_end(t)
             \/ rdma_alloc_begin_uobject(t) \/ handler(t)
             \/ rdma_alloc_abort_uobject(t) \/ xa_load(t) \/ lookup_get_idr_uobject(t)
             \/ lookup_get_fd_uobject(t) \/ rdma_lookup_get_uobject(t)
             \/ rdma_lookup_put_uobject(t) \/ uobj_destroy(t) \/ rdma_assign_uobject(t)
             \/ destroy_hw(t) \/ uverbs_destroy_uobject(t) \/ ib_init_ucontext(t)
             \/ rdma_alloc_commit_uobject(t)
      PROVE  TypeFile'
  <2>1. CASE ib_uverbs_ioctl(t) \/ ib_uverbs_ioctl_end(t)
             \/ rdma_alloc_begin_uobject(t) \/ handler(t)
             \/ rdma_alloc_abort_uobject(t) \/ xa_load(t)
             \/ lookup_get_idr_uobject(t) \/ lookup_get_fd_uobject(t)
             \/ rdma_lookup_get_uobject(t) \/ rdma_lookup_put_uobject(t)
             \/ uobj_destroy(t) \/ rdma_assign_uobject(t) \/ destroy_hw(t)
             \/ uverbs_destroy_uobject(t)
    <3>1. UNCHANGED <<ucontext, fref, onlist>>
      BY <2>1 DEF ib_uverbs_ioctl, ib_uverbs_ioctl_end, rdma_alloc_begin_uobject,
         handler, rdma_alloc_abort_uobject, xa_load, lookup_get_idr_uobject,
         lookup_get_fd_uobject, rdma_lookup_get_uobject, rdma_lookup_put_uobject,
         uobj_destroy, rdma_assign_uobject, destroy_hw, uverbs_destroy_uobject, fvars
    <3> QED
      BY <3>1 DEF TypeOK, TypeFile
  <2>2. CASE ib_init_ucontext(t)
    <3>1. fref' \in Int
      BY <2>2 DEF ib_init_ucontext, TypeOK, TypeFile
    <3>2. ucontext' \in BOOLEAN /\ onlist' \in BOOLEAN
      BY <2>2 DEF ib_init_ucontext, TypeOK, TypeFile
    <3> QED
      BY <3>1, <3>2 DEF TypeFile
  <2>3. CASE rdma_alloc_commit_uobject(t)
    BY <2>3, SMT DEF rdma_alloc_commit_uobject, Rereg, Leave, cvars, TypeFile, TypeOK
  <2> QED
    BY <1>1, <2>1, <2>2, <2>3
<1>2. ASSUME NEW u \in FdUobjs, fd_close(u) \/ uverbs_uobject_fd_release(u)
             \/ fd_release_destroy(u) \/ fd_release_put(u)
      PROVE  TypeFile'
  <2>1. CASE fd_close(u) \/ uverbs_uobject_fd_release(u) \/ fd_release_destroy(u)
    <3>1. UNCHANGED <<ucontext, fref, onlist>>
      BY <2>1 DEF fd_close, uverbs_uobject_fd_release, fd_release_destroy, fvars
    <3> QED
      BY <3>1 DEF TypeOK, TypeFile
  <2>2. CASE fd_release_put(u)
    BY <2>2, SMT DEF fd_release_put, release_ufile, svars, tvars, cvars, TypeFile, TypeOK
  <2> QED
    BY <1>2, <2>1, <2>2
<1>3. ASSUME NEW c \in Cleaners, uverbs_destroy_ufile_hw(c) \/ uverbs_cleanup_ufile(c)
             \/ up_write(c) \/ cleanup_pass_end(c)
      PROVE  TypeFile'
  <2>1. CASE uverbs_destroy_ufile_hw(c) \/ uverbs_cleanup_ufile(c) \/ up_write(c)
    <3>1. UNCHANGED <<ucontext, fref, onlist>>
      BY <2>1 DEF uverbs_destroy_ufile_hw, uverbs_cleanup_ufile, up_write, fvars
    <3> QED
      BY <3>1 DEF TypeOK, TypeFile
  <2>2. CASE cleanup_pass_end(c)
    <3>1. fref' \in Int
      BY <2>2 DEF cleanup_pass_end, TypeOK, TypeFile
    <3>2. ucontext' \in BOOLEAN /\ onlist' \in BOOLEAN
      BY <2>2 DEF cleanup_pass_end, TypeOK, TypeFile
    <3> QED
      BY <3>1, <3>2 DEF TypeFile
  <2> QED
    BY <1>3, <2>1, <2>2
<1>4. ASSUME ib_uverbs_close \/ ib_uverbs_remove_one \/ close_put
             \/ ib_uverbs_free_hw_resources \/ remove_put
      PROVE  TypeFile'
  <2>1. CASE ib_uverbs_close \/ ib_uverbs_remove_one
    <3>1. UNCHANGED <<ucontext, fref, onlist>>
      BY <2>1 DEF ib_uverbs_close, ib_uverbs_remove_one
    <3> QED
      BY <3>1 DEF TypeOK, TypeFile
  <2>2. CASE close_put
    <3>1. fref' \in Int
      BY <2>2, SMT DEF close_put, release_ufile, TypeOK, TypeFile
    <3>2. ucontext' \in BOOLEAN /\ onlist' \in BOOLEAN
      BY <2>2 DEF close_put, release_ufile, TypeOK, TypeFile
    <3> QED
      BY <3>1, <3>2 DEF TypeFile
  <2>3. CASE ib_uverbs_free_hw_resources
    <3>1. fref' \in Int
      BY <2>3, SMT DEF ib_uverbs_free_hw_resources, TypeOK, TypeFile
    <3>2. ucontext' \in BOOLEAN /\ onlist' \in BOOLEAN
      BY <2>3 DEF ib_uverbs_free_hw_resources, TypeOK, TypeFile
    <3> QED
      BY <3>1, <3>2 DEF TypeFile
  <2>4. CASE remove_put
    BY <2>4, SMT DEF remove_put, release_ufile, svars, tvars, TypeFile, TypeOK
  <2> QED
    BY <1>4, <2>1, <2>2, <2>3, <2>4
<1> QED
  BY <1>1, <1>2, <1>3, <1>4 DEF Next, Command, FdRelease, Cleanup, Cleaners

(* Every step keeps the types of hw_destroy_rwsem and of the SRCU section. *)
LEMMA TypeLockStep ==
    ASSUME IInv, Next
    PROVE  TypeLock'
<1>0. TypeOK
  BY DEF IInv
<1> USE <1>0
<1>1. ASSUME NEW t \in Threads, ib_init_ucontext(t) \/ handler(t) \/ xa_load(t)
             \/ lookup_get_idr_uobject(t) \/ lookup_get_fd_uobject(t)
             \/ rdma_lookup_get_uobject(t) \/ rdma_lookup_put_uobject(t)
             \/ rdma_assign_uobject(t) \/ ib_uverbs_ioctl(t) \/ ib_uverbs_ioctl_end(t)
             \/ rdma_alloc_begin_uobject(t) \/ rdma_alloc_commit_uobject(t)
      PROVE  TypeLock'
  <2>1. CASE ib_init_ucontext(t) \/ handler(t) \/ xa_load(t)
             \/ lookup_get_idr_uobject(t) \/ lookup_get_fd_uobject(t)
             \/ rdma_lookup_get_uobject(t) \/ rdma_lookup_put_uobject(t)
             \/ rdma_assign_uobject(t)
    <3>1. UNCHANGED <<rsem, wsem, srcu, grace>>
      BY <2>1 DEF ib_init_ucontext, handler, xa_load, lookup_get_idr_uobject,
         lookup_get_fd_uobject, rdma_lookup_get_uobject, rdma_lookup_put_uobject,
         rdma_assign_uobject, svars
    <3> QED
      BY <3>1 DEF TypeOK, TypeLock, Cleaners
  <2>2. CASE ib_uverbs_ioctl(t)
    BY <2>2 DEF ib_uverbs_ioctl, open, uvars, fvars, cvars, TypeLock, Cleaners, TypeOK
  <2>3. CASE ib_uverbs_ioctl_end(t)
    BY <2>3 DEF ib_uverbs_ioctl_end, uvars, fvars, cvars, TypeLock, Cleaners, TypeOK
  <2>4. CASE rdma_alloc_begin_uobject(t)
    BY <2>4 DEF rdma_alloc_begin_uobject, Rereg, MayAlloc, alloc_begin_idr_uobject,
       alloc_begin_fd_uobject, ib_uverbs_get_context, Leave, CanRead, SeesDev,
       alloc_uobj, ibdev, fvars, cvars, TypeLock, Cleaners, TypeOK
  <2>5. CASE rdma_alloc_commit_uobject(t)
    BY <2>5 DEF rdma_alloc_commit_uobject, Rereg, Leave, cvars, TypeLock, Cleaners, TypeOK
  <2> QED
    BY <1>1, <2>1, <2>2, <2>3, <2>4, <2>5
<1>2. ASSUME NEW t \in Threads, rdma_alloc_abort_uobject(t) \/ uobj_destroy(t)
             \/ destroy_hw(t) \/ uverbs_destroy_uobject(t)
      PROVE  TypeLock'
  <2>1. CASE rdma_alloc_abort_uobject(t)
    BY <2>1 DEF rdma_alloc_abort_uobject, Rereg, Leave, fvars, cvars, TypeLock, Cleaners,
       TypeOK
  <2>2. CASE uobj_destroy(t)
    BY <2>2 DEF uobj_destroy, CanRead, fvars, cvars, TypeLock, Cleaners, TypeOK
  <2>3. CASE destroy_hw(t)
    BY <2>3 DEF destroy_hw, fvars, cvars, TypeLock, Cleaners, TypeOK
  <2>4. CASE uverbs_destroy_uobject(t)
    BY <2>4 DEF uverbs_destroy_uobject, fvars, cvars, TypeLock, Cleaners, TypeOK
  <2> QED
    BY <1>2, <2>1, <2>2, <2>3, <2>4
<1>3. ASSUME NEW u \in FdUobjs, fd_close(u) \/ fd_release_put(u)
             \/ uverbs_uobject_fd_release(u) \/ fd_release_destroy(u)
      PROVE  TypeLock'
  <2>1. CASE fd_close(u) \/ fd_release_put(u)
    <3>1. UNCHANGED <<rsem, wsem, srcu, grace>>
      BY <2>1 DEF fd_close, fd_release_put, svars
    <3> QED
      BY <3>1 DEF TypeOK, TypeLock, Cleaners
  <2>2. CASE uverbs_uobject_fd_release(u)
    BY <2>2 DEF uverbs_uobject_fd_release, CanRead, fvars, tvars, cvars, TypeLock,
       Cleaners, TypeOK
  <2>3. CASE fd_release_destroy(u)
    BY <2>3 DEF fd_release_destroy, fvars, tvars, cvars, TypeLock, Cleaners, TypeOK
  <2> QED
    BY <1>3, <2>1, <2>2, <2>3
<1>4. ASSUME NEW c \in Cleaners, uverbs_cleanup_ufile(c) \/ cleanup_pass_end(c)
             \/ uverbs_destroy_ufile_hw(c) \/ up_write(c)
      PROVE  TypeLock'
  <2>1. CASE uverbs_cleanup_ufile(c) \/ cleanup_pass_end(c)
    <3>1. UNCHANGED <<rsem, wsem, srcu, grace>>
      BY <2>1 DEF uverbs_cleanup_ufile, cleanup_pass_end, svars
    <3> QED
      BY <3>1 DEF TypeOK, TypeLock, Cleaners
  <2>2. CASE uverbs_destroy_ufile_hw(c)
    BY <2>2 DEF uverbs_destroy_ufile_hw, Linked, uvars, fvars, tvars, TypeLock,
       Cleaners, TypeOK
  <2>3. CASE up_write(c)
    BY <2>3 DEF up_write, uvars, fvars, tvars, TypeLock, Cleaners, TypeOK
  <2> QED
    BY <1>4, <2>1, <2>2, <2>3
<1>5. ASSUME ib_uverbs_close \/ close_put \/ ib_uverbs_free_hw_resources \/ remove_put
             \/ ib_uverbs_remove_one
      PROVE  TypeLock'
  <2>1. CASE ib_uverbs_close \/ close_put \/ ib_uverbs_free_hw_resources \/ remove_put
    <3>1. UNCHANGED <<rsem, wsem, srcu, grace>>
      BY <2>1 DEF ib_uverbs_close, close_put, ib_uverbs_free_hw_resources, remove_put,
         svars
    <3> QED
      BY <3>1 DEF TypeOK, TypeLock, Cleaners
  <2>2. CASE ib_uverbs_remove_one
    BY <2>2 DEF ib_uverbs_remove_one, uvars, tvars, TypeLock, Cleaners, TypeOK
  <2> QED
    BY <1>5, <2>1, <2>2
<1> QED
  BY <1>1, <1>2, <1>3, <1>4, <1>5 DEF Next, Command, FdRelease, Cleanup, Cleaners

(* Every step keeps the types of the locals of a thread. *)
LEMMA TypeThreadStep ==
    ASSUME IInv, Next
    PROVE  TypeThread'
<1>0. TypeOK
  BY DEF IInv
<1> USE <1>0
<1> USE ConstantsAssumption
<1>1. ASSUME NEW t \in Threads, ib_uverbs_ioctl(t) \/ ib_uverbs_ioctl_end(t)
             \/ ib_init_ucontext(t) \/ rdma_alloc_begin_uobject(t) \/ handler(t)
             \/ rdma_alloc_commit_uobject(t)
      PROVE  TypeThread'
  <2>1. CASE ib_uverbs_ioctl(t)
    BY <2>1 DEF ib_uverbs_ioctl, open, uvars, fvars, cvars,
       TypeThread, PCs, Modes, TypeOK, TypeUobj
  <2>2. CASE ib_uverbs_ioctl_end(t)
    BY <2>2 DEF ib_uverbs_ioctl_end, uvars, fvars, cvars,
       TypeThread, PCs, Modes, TypeOK, TypeUobj
  <2>3. CASE ib_init_ucontext(t)
    BY <2>3 DEF ib_init_ucontext, CanRead, SeesDev, ibdev, uvars,
       svars, cvars, TypeThread, PCs, Modes, TypeOK, TypeUobj
  <2>4. CASE rdma_alloc_begin_uobject(t)
    <3>1. UNCHANGED <<cur, mode>>
      BY <2>4, AllocThread
    <3>2. \E p \in {"new", "context", "exit", "put"} : pc' = [pc EXCEPT ![t] = p]
      BY <2>4, AllocThread DEF Leave
    <3>3. new' = new \/ \E u \in Uobjs : new' = [new EXCEPT ![t] = u]
      BY <2>4, AllocThread
    <3> QED
      BY <3>1, <3>2, <3>3, SMT DEF TypeOK, TypeThread, PCs
  <2>5. CASE handler(t)
    BY <2>5 DEF handler, fvars, svars, cvars, TypeThread, PCs,
       Modes, TypeOK, TypeUobj
  <2>6. CASE rdma_alloc_commit_uobject(t)
    BY <2>6 DEF rdma_alloc_commit_uobject, Rereg, Leave, cvars,
       TypeThread, PCs, Modes, TypeOK, TypeUobj
  <2> QED
    BY <1>1, <2>1, <2>2, <2>3, <2>4, <2>5, <2>6
<1>2. ASSUME NEW t \in Threads, rdma_alloc_abort_uobject(t) \/ xa_load(t)
             \/ lookup_get_idr_uobject(t) \/ lookup_get_fd_uobject(t)
             \/ rdma_lookup_get_uobject(t) \/ rdma_lookup_put_uobject(t)
      PROVE  TypeThread'
  <2>1. CASE rdma_alloc_abort_uobject(t)
    BY <2>1 DEF rdma_alloc_abort_uobject, Rereg, Leave, fvars,
       cvars, TypeThread, PCs, Modes, TypeOK, TypeUobj
  <2>2. CASE xa_load(t)
    BY <2>2, SMT DEF xa_load, uvars, fvars, svars, cvars, TypeThread,
       PCs, Modes, TypeOK, TypeUobj
  <2>3. CASE lookup_get_idr_uobject(t)
    BY <2>3, SMT DEF lookup_get_idr_uobject, fvars, svars, cvars,
       TypeThread, PCs, Modes, TypeOK, TypeUobj
  <2>4. CASE lookup_get_fd_uobject(t)
    BY <2>4, SMT DEF lookup_get_fd_uobject, fvars, svars, cvars,
       TypeThread, PCs, Modes, TypeOK, TypeUobj
  <2>5. CASE rdma_lookup_get_uobject(t)
    BY <2>5 DEF rdma_lookup_get_uobject, lookup_put, TypeThread, PCs, TypeOK
  <2>6. CASE rdma_lookup_put_uobject(t)
    BY <2>6 DEF rdma_lookup_put_uobject, lookup_put, fvars, svars,
       cvars, TypeThread, PCs, Modes, TypeOK, TypeUobj
  <2> QED
    BY <1>2, <2>1, <2>2, <2>3, <2>4, <2>5, <2>6
<1>3. ASSUME NEW t \in Threads, uobj_destroy(t) \/ rdma_assign_uobject(t)
             \/ destroy_hw(t) \/ uverbs_destroy_uobject(t)
      PROVE  TypeThread'
  <2>1. CASE uobj_destroy(t)
    BY <2>1, SMT DEF uobj_destroy, CanRead, fvars, cvars, TypeThread,
       PCs, Modes, TypeOK, TypeUobj
  <2>2. CASE rdma_assign_uobject(t)
    BY <2>2 DEF rdma_assign_uobject, Rereg, fvars, svars, cvars,
       TypeThread, PCs, Modes, TypeOK, TypeUobj
  <2>3. CASE destroy_hw(t)
    BY <2>3 DEF destroy_hw, TypeThread, PCs, TypeOK
  <2>4. CASE uverbs_destroy_uobject(t)
    BY <2>4, SMT DEF uverbs_destroy_uobject, fvars, cvars, TypeThread,
       PCs, Modes, TypeOK, TypeUobj
  <2> QED
    BY <1>3, <2>1, <2>2, <2>3, <2>4
<1>4. ASSUME NEW u \in FdUobjs, fd_close(u) \/ uverbs_uobject_fd_release(u)
             \/ fd_release_destroy(u) \/ fd_release_put(u)
      PROVE  TypeThread'
  <2>1. UNCHANGED <<pc, cur, new, mode>>
    BY <1>4 DEF fd_close, uverbs_uobject_fd_release, fd_release_destroy,
       fd_release_put, tvars
  <2> QED
    BY <2>1 DEF TypeOK, TypeThread, PCs, Modes
<1>5. ASSUME NEW c \in Cleaners, uverbs_destroy_ufile_hw(c) \/ uverbs_cleanup_ufile(c)
             \/ cleanup_pass_end(c) \/ up_write(c)
      PROVE  TypeThread'
  <2>1. UNCHANGED <<pc, cur, new, mode>>
    BY <1>5 DEF uverbs_destroy_ufile_hw, uverbs_cleanup_ufile, cleanup_pass_end,
       up_write, tvars
  <2> QED
    BY <2>1 DEF TypeOK, TypeThread, PCs, Modes
<1>6. ASSUME ib_uverbs_close \/ close_put \/ ib_uverbs_remove_one
             \/ ib_uverbs_free_hw_resources \/ remove_put
      PROVE  TypeThread'
  <2>1. UNCHANGED <<pc, cur, new, mode>>
    BY <1>6 DEF ib_uverbs_close, close_put, ib_uverbs_remove_one,
       ib_uverbs_free_hw_resources, remove_put, tvars
  <2> QED
    BY <2>1 DEF TypeOK, TypeThread, PCs, Modes
<1> QED
  BY <1>1, <1>2, <1>3, <1>4, <1>5, <1>6 DEF Next, Command, FdRelease, Cleanup, Cleaners

(* Every step keeps the types of the locals of uverbs_destroy_ufile_hw.    *)
LEMMA TypeCleanStep ==
    ASSUME IInv, Next
    PROVE  TypeClean'
<1>0. TypeOK
  BY DEF IInv
<1> USE <1>0
<1>1. ASSUME NEW t \in Threads, ib_init_ucontext(t) \/ handler(t) \/ xa_load(t)
             \/ lookup_get_idr_uobject(t) \/ lookup_get_fd_uobject(t)
             \/ rdma_lookup_get_uobject(t) \/ rdma_lookup_put_uobject(t)
             \/ rdma_assign_uobject(t) \/ ib_uverbs_ioctl(t) \/ ib_uverbs_ioctl_end(t)
             \/ rdma_alloc_begin_uobject(t) \/ rdma_alloc_commit_uobject(t)
      PROVE  TypeClean'
  <2>1. CASE ib_init_ucontext(t) \/ handler(t) \/ xa_load(t)
             \/ lookup_get_idr_uobject(t) \/ lookup_get_fd_uobject(t)
             \/ rdma_lookup_get_uobject(t) \/ rdma_lookup_put_uobject(t)
             \/ rdma_assign_uobject(t)
    <3>1. UNCHANGED <<rsem, wsem, srcu, grace, cpc, todo, progress>>
      BY <2>1 DEF ib_init_ucontext, handler, xa_load, lookup_get_idr_uobject,
         lookup_get_fd_uobject, rdma_lookup_get_uobject, rdma_lookup_put_uobject,
         rdma_assign_uobject, cvars, svars
    <3> QED
      BY <3>1 DEF TypeOK, TypeClean, Cleaners, up_write
  <2>2. CASE ib_uverbs_ioctl(t)
    BY <2>2 DEF ib_uverbs_ioctl, open, uvars, fvars, cvars, TypeClean, Cleaners,
       up_write, TypeOK
  <2>3. CASE ib_uverbs_ioctl_end(t)
    BY <2>3 DEF ib_uverbs_ioctl_end, uvars, fvars, cvars, TypeClean, Cleaners, up_write,
       TypeOK
  <2>4. CASE rdma_alloc_begin_uobject(t)
    BY <2>4 DEF rdma_alloc_begin_uobject, Rereg, MayAlloc, alloc_begin_idr_uobject,
       alloc_begin_fd_uobject, ib_uverbs_get_context, Leave, CanRead, SeesDev,
       alloc_uobj, ibdev, fvars, cvars, TypeClean, Cleaners, up_write, TypeOK
  <2>5. CASE rdma_alloc_commit_uobject(t)
    BY <2>5 DEF rdma_alloc_commit_uobject, Rereg, Leave, cvars, TypeClean, Cleaners,
       up_write, TypeOK
  <2> QED
    BY <1>1, <2>1, <2>2, <2>3, <2>4, <2>5
<1>2. ASSUME NEW t \in Threads, rdma_alloc_abort_uobject(t) \/ uobj_destroy(t)
             \/ destroy_hw(t) \/ uverbs_destroy_uobject(t)
      PROVE  TypeClean'
  <2>1. CASE rdma_alloc_abort_uobject(t)
    BY <2>1 DEF rdma_alloc_abort_uobject, Rereg, Leave, fvars, cvars, TypeClean,
       Cleaners, up_write, TypeOK
  <2>2. CASE uobj_destroy(t)
    BY <2>2 DEF uobj_destroy, CanRead, fvars, cvars, TypeClean, Cleaners, up_write, TypeOK
  <2>3. CASE destroy_hw(t)
    BY <2>3 DEF destroy_hw, fvars, cvars, TypeClean, Cleaners, up_write, TypeOK
  <2>4. CASE uverbs_destroy_uobject(t)
    BY <2>4 DEF uverbs_destroy_uobject, fvars, cvars, TypeClean, Cleaners, up_write,
       TypeOK
  <2> QED
    BY <1>2, <2>1, <2>2, <2>3, <2>4
<1>3. ASSUME NEW u \in FdUobjs, fd_close(u) \/ fd_release_put(u)
             \/ uverbs_uobject_fd_release(u) \/ fd_release_destroy(u)
      PROVE  TypeClean'
  <2>1. CASE fd_close(u) \/ fd_release_put(u)
    <3>1. UNCHANGED <<rsem, wsem, srcu, grace, cpc, todo, progress>>
      BY <2>1 DEF fd_close, fd_release_put, cvars, svars
    <3> QED
      BY <3>1 DEF TypeOK, TypeClean, Cleaners, up_write
  <2>2. CASE uverbs_uobject_fd_release(u)
    BY <2>2 DEF uverbs_uobject_fd_release, CanRead, fvars, tvars, cvars, TypeClean,
       Cleaners, up_write, TypeOK
  <2>3. CASE fd_release_destroy(u)
    BY <2>3 DEF fd_release_destroy, fvars, tvars, cvars, TypeClean, Cleaners, up_write,
       TypeOK
  <2> QED
    BY <1>3, <2>1, <2>2, <2>3
<1>4. ASSUME NEW c \in Cleaners, uverbs_destroy_ufile_hw(c) \/ uverbs_cleanup_ufile(c)
             \/ cleanup_pass_end(c) \/ up_write(c)
      PROVE  TypeClean'
  <2>1. CASE uverbs_destroy_ufile_hw(c)
    <3>1. cpc' \in [Cleaners -> {"idle", "sync", "down_write", "pass", "up_write", "put",
    "done"}]
      BY <2>1 DEF uverbs_destroy_ufile_hw, TypeOK, TypeClean
    <3>2. todo' \in SUBSET Uobjs
      BY <2>1 DEF uverbs_destroy_ufile_hw, Linked, TypeOK, TypeClean
    <3>3. progress' \in BOOLEAN
      BY <2>1 DEF uverbs_destroy_ufile_hw, TypeOK, TypeClean
    <3> QED
      BY <3>1, <3>2, <3>3 DEF TypeClean
  <2>2. CASE uverbs_cleanup_ufile(c)
    <3>1. cpc' \in [Cleaners -> {"idle", "sync", "down_write", "pass", "up_write", "put",
    "done"}]
      BY <2>2 DEF uverbs_cleanup_ufile, TypeOK, TypeClean
    <3>2. todo' \in SUBSET Uobjs
      BY <2>2 DEF uverbs_cleanup_ufile, Linked, TypeOK, TypeClean
    <3>3. progress' \in BOOLEAN
      BY <2>2 DEF uverbs_cleanup_ufile, TypeOK, TypeClean
    <3> QED
      BY <3>1, <3>2, <3>3 DEF TypeClean
  <2>3. CASE cleanup_pass_end(c)
    <3>1. cpc' \in [Cleaners -> {"idle", "sync", "down_write", "pass", "up_write", "put",
    "done"}]
      BY <2>3 DEF cleanup_pass_end, TypeOK, TypeClean
    <3>2. todo' \in SUBSET Uobjs
      BY <2>3 DEF cleanup_pass_end, Linked, TypeOK, TypeClean
    <3>3. progress' \in BOOLEAN
      BY <2>3 DEF cleanup_pass_end, TypeOK, TypeClean
    <3> QED
      BY <3>1, <3>2, <3>3 DEF TypeClean
  <2>4. CASE up_write(c)
    BY <2>4 DEF up_write, uvars, fvars, tvars, TypeClean, Cleaners, TypeOK
  <2> QED
    BY <1>4, <2>1, <2>2, <2>3, <2>4
<1>5. ASSUME ib_uverbs_close \/ close_put \/ ib_uverbs_remove_one
             \/ ib_uverbs_free_hw_resources \/ remove_put
      PROVE  TypeClean'
  <2>1. CASE ib_uverbs_close
    BY <2>1 DEF ib_uverbs_close, open, uvars, svars, tvars, TypeClean, Cleaners,
       up_write, TypeOK
  <2>2. CASE close_put
    BY <2>2 DEF close_put, release_ufile, svars, tvars, TypeClean, Cleaners, up_write,
       TypeOK
  <2>3. CASE ib_uverbs_remove_one
    BY <2>3 DEF ib_uverbs_remove_one, uvars, tvars, TypeClean, Cleaners, up_write, TypeOK
  <2>4. CASE ib_uverbs_free_hw_resources
    BY <2>4 DEF ib_uverbs_free_hw_resources, uvars, svars, tvars, TypeClean, Cleaners,
       up_write, TypeOK
  <2>5. CASE remove_put
    BY <2>5 DEF remove_put, release_ufile, svars, tvars, TypeClean, Cleaners, up_write,
       TypeOK
  <2> QED
    BY <1>5, <2>1, <2>2, <2>3, <2>4, <2>5
<1> QED
  BY <1>1, <1>2, <1>3, <1>4, <1>5 DEF Next, Command, FdRelease, Cleanup, Cleaners

(* Every step leaves a thread with the uobjects that its point in the      *)
(* command calls for.                                                      *)
LEMMA ThreadShapeStep ==
    ASSUME IInv, Next
    PROVE  ThreadShape'
<1>0. TypeOK /\ ThreadShape /\ Publication
  BY DEF IInv
<1> USE <1>0
<1> USE ConstantsAssumption
<1>1. ASSUME NEW t \in Threads, ib_uverbs_ioctl(t) \/ ib_uverbs_ioctl_end(t)
             \/ ib_init_ucontext(t) \/ rdma_alloc_begin_uobject(t) \/ handler(t)
             \/ rdma_alloc_commit_uobject(t)
      PROVE  ThreadShape'
  <2>1. CASE ib_uverbs_ioctl(t)
    BY <2>1, SMT DEF ib_uverbs_ioctl, ThreadShape, Rereg, TypeOK, TypeThread
  <2>2. CASE ib_uverbs_ioctl_end(t)
    BY <2>2, SMT DEF ib_uverbs_ioctl_end, ThreadShape, Rereg, TypeOK, TypeThread
  <2>3. CASE ib_init_ucontext(t)
    BY <2>3, SMT DEF ib_init_ucontext, ThreadShape, Rereg, TypeOK, TypeThread
  <2>4. CASE rdma_alloc_begin_uobject(t)
    <3>1. UNCHANGED <<cur, mode>> /\ pc[t] \in {"cmd", "locked"}
      BY <2>4, AllocThread
    <3>2. CASE pc' = [pc EXCEPT ![t] = Leave(t)] /\ UNCHANGED new
      BY <3>1, <3>2, SMT DEF Leave, ThreadShape, Rereg, TypeOK, TypeThread
    <3>3. ASSUME NEW u \in Uobjs, NEW next \in {"new", "context"},
                 new' = [new EXCEPT ![t] = u], pc' = [pc EXCEPT ![t] = next],
                 Rereg(t) /\ pc[t] # "cmd" => u \in IdrUobjs, next = "context" => pc[t] = "cmd"
          PROVE  ThreadShape'
      BY <3>1, <3>3, SMT DEF ThreadShape, Rereg, TypeOK, TypeThread
    <3> QED
      BY <2>4, <3>2, <3>3, AllocThread
  <2>5. CASE handler(t)
    BY <2>5, SMT DEF handler, ThreadShape, Rereg, TypeOK, TypeThread
  <2>6. CASE rdma_alloc_commit_uobject(t)
    BY <2>6, SMT DEF rdma_alloc_commit_uobject, Rereg, Leave, ThreadShape, TypeOK,
       TypeThread
  <2> QED
    BY <1>1, <2>1, <2>2, <2>3, <2>4, <2>5, <2>6
<1>2. ASSUME NEW t \in Threads, rdma_alloc_abort_uobject(t) \/ xa_load(t)
             \/ lookup_get_idr_uobject(t) \/ lookup_get_fd_uobject(t)
             \/ rdma_lookup_get_uobject(t) \/ rdma_lookup_put_uobject(t)
      PROVE  ThreadShape'
  <2>1. CASE rdma_alloc_abort_uobject(t)
    BY <2>1, SMT DEF rdma_alloc_abort_uobject, Rereg, Leave, ThreadShape, TypeOK,
       TypeThread
  <2>2. CASE xa_load(t)
    BY <2>2, SMT DEF xa_load, ThreadShape, Rereg, TypeOK, TypeThread, Publication
  <2>3. CASE lookup_get_idr_uobject(t)
    BY <2>3, SMT DEF lookup_get_idr_uobject, ThreadShape, Rereg, TypeOK, TypeThread
  <2>4. CASE lookup_get_fd_uobject(t)
    BY <2>4, SMT DEF lookup_get_fd_uobject, ThreadShape, Rereg, TypeOK, TypeThread
  <2>5. CASE rdma_lookup_get_uobject(t)
    BY <2>5, SMT DEF rdma_lookup_get_uobject, lookup_put, ThreadShape, Rereg, TypeOK,
       TypeThread
  <2>6. CASE rdma_lookup_put_uobject(t)
    BY <2>6, SMT DEF rdma_lookup_put_uobject, lookup_put, ThreadShape, Rereg, TypeOK, TypeThread
  <2> QED
    BY <1>2, <2>1, <2>2, <2>3, <2>4, <2>5, <2>6
<1>3. ASSUME NEW t \in Threads, uobj_destroy(t) \/ rdma_assign_uobject(t)
             \/ destroy_hw(t) \/ uverbs_destroy_uobject(t)
      PROVE  ThreadShape'
  <2>1. CASE uobj_destroy(t)
    BY <2>1, SMT DEF uobj_destroy, ThreadShape, Rereg, TypeOK, TypeThread
  <2>2. CASE rdma_assign_uobject(t)
    BY <2>2, SMT DEF rdma_assign_uobject, Rereg, ThreadShape, TypeOK, TypeThread
  <2>3. CASE destroy_hw(t)
    BY <2>3, SMTT(30) DEF destroy_hw, ThreadShape, Rereg, TypeOK, TypeThread
  <2>4. CASE uverbs_destroy_uobject(t)
    BY <2>4, SMT DEF uverbs_destroy_uobject, ThreadShape, Rereg, TypeOK, TypeThread
  <2> QED
    BY <1>3, <2>1, <2>2, <2>3, <2>4
<1>4. ASSUME NEW u \in FdUobjs, fd_close(u) \/ uverbs_uobject_fd_release(u)
             \/ fd_release_destroy(u) \/ fd_release_put(u)
      PROVE  ThreadShape'
  <2>1. UNCHANGED <<pc, cur, new, mode>>
    BY <1>4 DEF fd_close, uverbs_uobject_fd_release, fd_release_destroy,
       fd_release_put, tvars
  <2> QED
    BY <2>1 DEF ThreadShape, Rereg, IdrUobjs
<1>5. ASSUME NEW c \in Cleaners, uverbs_destroy_ufile_hw(c) \/ uverbs_cleanup_ufile(c)
             \/ cleanup_pass_end(c) \/ up_write(c)
      PROVE  ThreadShape'
  <2>1. UNCHANGED <<pc, cur, new, mode>>
    BY <1>5 DEF uverbs_destroy_ufile_hw, uverbs_cleanup_ufile, cleanup_pass_end,
       up_write, tvars
  <2> QED
    BY <2>1 DEF ThreadShape, Rereg, IdrUobjs
<1>6. ASSUME ib_uverbs_close \/ close_put \/ ib_uverbs_remove_one
             \/ ib_uverbs_free_hw_resources \/ remove_put
      PROVE  ThreadShape'
  <2>1. UNCHANGED <<pc, cur, new, mode>>
    BY <1>6 DEF ib_uverbs_close, close_put, ib_uverbs_remove_one,
       ib_uverbs_free_hw_resources, remove_put, tvars
  <2> QED
    BY <2>1 DEF ThreadShape, Rereg, IdrUobjs
<1> QED
  BY <1>1, <1>2, <1>3, <1>4, <1>5, <1>6 DEF Next, Command, FdRelease, Cleanup, Cleaners

----------------------------------------------------------------------------
(* Every step keeps the conjuncts of IInv. *)

(* Every step keeps the account of who holds hw_destroy_rwsem. *)
LEMMA SemShapeStep ==
    ASSUME IInv, Next
    PROVE  SemShape'
<1>0. TypeOK /\ ThreadShape /\ SemShape /\ Publication
  BY DEF IInv
<1> USE <1>0
<1> USE ConstantsAssumption
<1>1. ASSUME NEW t \in Threads, ib_uverbs_ioctl(t) \/ ib_uverbs_ioctl_end(t)
             \/ ib_init_ucontext(t) \/ rdma_alloc_begin_uobject(t) \/ handler(t)
             \/ rdma_alloc_commit_uobject(t)
      PROVE  SemShape'
  <2>1. CASE ib_uverbs_ioctl(t)
    BY <2>1, SMT DEF ib_uverbs_ioctl, open, uvars, fvars, cvars,
       SemShape, Cleaners, up_write, TypeOK, TypeThread, TypeUobj, TypeLock, TypeClean,
       PCs, ThreadShape
  <2>2. CASE ib_uverbs_ioctl_end(t)
    BY <2>2, SMT DEF ib_uverbs_ioctl_end, uvars, fvars, cvars, SemShape,
       Cleaners, up_write, TypeOK, TypeThread, TypeUobj, TypeLock, TypeClean, PCs,
       ThreadShape
  <2>3. CASE ib_init_ucontext(t)
    BY <2>3, SMT DEF ib_init_ucontext, CanRead, SeesDev, ibdev, uvars,
       svars, cvars, SemShape, Cleaners, up_write, TypeOK, TypeThread, TypeUobj,
       TypeLock, TypeClean, PCs, ThreadShape
  <2>4. CASE rdma_alloc_begin_uobject(t)
    <3>1. UNCHANGED <<rel, wsem, cpc>> /\ pc[t] \in {"cmd", "locked"}
      BY <2>4, AllocThread DEF cvars
    <3>2. CASE pc' = [pc EXCEPT ![t] = Leave(t)] /\ UNCHANGED <<new, rsem>>
      BY <3>1, <3>2, SMT DEF Leave, SemShape, TypeOK, TypeThread
    <3>3. ASSUME NEW u \in Uobjs, NEW next \in {"new", "context"},
                 new' = [new EXCEPT ![t] = u], pc' = [pc EXCEPT ![t] = next],
                 rsem' = rsem \cup {t}, CanRead
          PROVE  SemShape'
      BY <3>1, <3>3, SMT DEF CanRead, SemShape, TypeOK, TypeThread
    <3> QED
      BY <2>4, <3>2, <3>3, AllocThread
  <2>5. CASE handler(t)
    BY <2>5, SMT DEF handler, fvars, svars, cvars, SemShape, Cleaners,
       up_write, TypeOK, TypeThread, TypeUobj, TypeLock, TypeClean, PCs, ThreadShape
  <2>6. CASE rdma_alloc_commit_uobject(t)
    <3>1. new[t] \in Uobjs /\ rel[new[t]] = "none" /\ t \in rsem /\ pc[t] \notin
    {"destroy", "unlink"}
      BY <2>6, SMT DEF rdma_alloc_commit_uobject, TypeOK, TypeThread, ThreadShape, SemShape,
         Publication
    <3>2. /\ new' = [new EXCEPT ![t] = Null] /\ pc' = [pc EXCEPT ![t] = Leave(t)]
          /\ rsem' = rsem \ {t} /\ wsem' = wsem /\ cpc' = cpc
          /\ rel' = rel \/ rel' = [rel EXCEPT ![new[t]] = "armed"]
      BY <2>6 DEF rdma_alloc_commit_uobject, cvars
    <3> QED
      BY <3>1, <3>2, SMT DEF SemShape, Leave, TypeOK, TypeThread, TypeUobj
  <2> QED
    BY <1>1, <2>1, <2>2, <2>3, <2>4, <2>5, <2>6
<1>2. ASSUME NEW t \in Threads, rdma_alloc_abort_uobject(t) \/ xa_load(t)
             \/ lookup_get_idr_uobject(t) \/ lookup_get_fd_uobject(t)
             \/ rdma_lookup_get_uobject(t) \/ rdma_lookup_put_uobject(t)
      PROVE  SemShape'
  <2>1. CASE rdma_alloc_abort_uobject(t)
    BY <2>1, SMT DEF rdma_alloc_abort_uobject, Rereg, Leave, fvars,
       cvars, SemShape, Cleaners, up_write, TypeOK, TypeThread, TypeUobj, TypeLock,
       TypeClean, PCs, ThreadShape
  <2>2. CASE xa_load(t)
    BY <2>2, SMT DEF xa_load, uvars, fvars, svars, cvars, SemShape,
       Cleaners, up_write, TypeOK, TypeThread, TypeUobj, TypeLock, TypeClean, PCs,
       ThreadShape
  <2>3. CASE lookup_get_idr_uobject(t)
    BY <2>3, SMT DEF lookup_get_idr_uobject, fvars, svars, cvars,
       SemShape, Cleaners, up_write, TypeOK, TypeThread, TypeUobj, TypeLock, TypeClean,
       PCs, ThreadShape
  <2>4. CASE lookup_get_fd_uobject(t)
    BY <2>4, SMT DEF lookup_get_fd_uobject, fvars, svars, cvars,
       SemShape, Cleaners, up_write, TypeOK, TypeThread, TypeUobj, TypeLock, TypeClean,
       PCs, ThreadShape
  <2>5. CASE rdma_lookup_get_uobject(t)
    BY <2>5, SMT DEF rdma_lookup_get_uobject, SeesDev, lookup_put,
       ibdev, fvars, svars, cvars, SemShape, Cleaners, up_write, TypeOK, TypeThread,
       TypeUobj, TypeLock, TypeClean, PCs, ThreadShape
  <2>6. CASE rdma_lookup_put_uobject(t)
    BY <2>6, SMT DEF rdma_lookup_put_uobject, lookup_put, fvars, svars,
       cvars, SemShape, Cleaners, up_write, TypeOK, TypeThread, TypeUobj, TypeLock,
       TypeClean, PCs, ThreadShape
  <2> QED
    BY <1>2, <2>1, <2>2, <2>3, <2>4, <2>5, <2>6
<1>3. ASSUME NEW t \in Threads, uobj_destroy(t) \/ rdma_assign_uobject(t)
             \/ destroy_hw(t) \/ uverbs_destroy_uobject(t)
      PROVE  SemShape'
  <2>1. CASE uobj_destroy(t)
    BY <2>1, SMT DEF uobj_destroy, CanRead, fvars, cvars, SemShape,
       Cleaners, up_write, TypeOK, TypeThread, TypeUobj, TypeLock, TypeClean, PCs,
       ThreadShape
  <2>2. CASE rdma_assign_uobject(t)
    BY <2>2, SMT DEF rdma_assign_uobject, Rereg, fvars, svars, cvars,
       SemShape, Cleaners, up_write, TypeOK, TypeThread, TypeUobj, TypeLock, TypeClean,
       PCs, ThreadShape
  <2>3. CASE destroy_hw(t)
    BY <2>3, SMT DEF destroy_hw, fvars, cvars, SemShape, Cleaners,
       up_write, TypeOK, TypeThread, TypeUobj, TypeLock, TypeClean, PCs, ThreadShape
  <2>4. CASE uverbs_destroy_uobject(t)
    BY <2>4, SMT DEF uverbs_destroy_uobject, fvars, cvars, SemShape,
       Cleaners, up_write, TypeOK, TypeThread, TypeUobj, TypeLock, TypeClean, PCs,
       ThreadShape
  <2> QED
    BY <1>3, <2>1, <2>2, <2>3, <2>4
<1>4. ASSUME NEW u \in FdUobjs, fd_close(u) \/ uverbs_uobject_fd_release(u)
             \/ fd_release_destroy(u) \/ fd_release_put(u)
      PROVE  SemShape'
  <2>1. CASE fd_close(u)
    <3>1. UNCHANGED <<rel, rsem, wsem, srcu, grace, pc, new, cpc, todo, progress>>
      BY <2>1 DEF fd_close, cvars, svars, tvars
    <3> QED
      BY <3>1 DEF SemShape, Cleaners, up_write
  <2>2. CASE uverbs_uobject_fd_release(u)
    BY <2>2, SMT DEF uverbs_uobject_fd_release, CanRead, fvars, tvars,
       cvars, SemShape, Cleaners, up_write, TypeOK, TypeThread, TypeUobj, TypeLock,
       TypeClean, PCs, ThreadShape
  <2>3. CASE fd_release_destroy(u)
    BY <2>3, SMT DEF fd_release_destroy, fvars, tvars, cvars, SemShape,
       Cleaners, up_write, TypeOK, TypeThread, TypeUobj, TypeLock, TypeClean, PCs,
       ThreadShape
  <2>4. CASE fd_release_put(u)
    BY <2>4, SMT DEF fd_release_put, release_ufile, svars, tvars, cvars,
       SemShape, Cleaners, up_write, TypeOK, TypeThread, TypeUobj, TypeLock, TypeClean,
       PCs, ThreadShape
  <2> QED
    BY <1>4, <2>1, <2>2, <2>3, <2>4
<1>5. ASSUME NEW c \in Cleaners, uverbs_destroy_ufile_hw(c) \/ uverbs_cleanup_ufile(c)
             \/ cleanup_pass_end(c) \/ up_write(c)
      PROVE  SemShape'
  <2>1. CASE uverbs_destroy_ufile_hw(c)
    BY <2>1 DEF uverbs_destroy_ufile_hw, Linked, uvars, fvars,
       tvars, SemShape, Cleaners, up_write, TypeOK, TypeThread, TypeUobj, TypeLock,
       TypeClean, PCs, ThreadShape
  <2>2. CASE uverbs_cleanup_ufile(c)
    BY <2>2 DEF uverbs_cleanup_ufile, Next2Clean, Cleaned, fvars,
       svars, tvars, SemShape, Cleaners, up_write, TypeOK, TypeThread, TypeUobj,
       TypeLock, TypeClean, PCs, ThreadShape
  <2>3. CASE cleanup_pass_end(c)
    BY <2>3, SMT DEF cleanup_pass_end, Linked, uvars, svars, tvars,
       SemShape, Cleaners, up_write, TypeOK, TypeThread, TypeUobj, TypeLock, TypeClean,
       PCs, ThreadShape
  <2>4. CASE up_write(c)
    BY <2>4 DEF up_write, uvars, fvars, tvars, SemShape, Cleaners,
       TypeOK, TypeThread, TypeUobj, TypeLock, TypeClean, PCs, ThreadShape
  <2> QED
    BY <1>5, <2>1, <2>2, <2>3, <2>4
<1>6. ASSUME ib_uverbs_close \/ close_put \/ ib_uverbs_remove_one
             \/ ib_uverbs_free_hw_resources \/ remove_put
      PROVE  SemShape'
  <2>1. CASE ib_uverbs_close
    BY <2>1 DEF ib_uverbs_close, open, uvars, svars, tvars,
       SemShape, Cleaners, up_write, TypeOK, TypeThread, TypeUobj, TypeLock, TypeClean,
       PCs, ThreadShape
  <2>2. CASE close_put
    BY <2>2 DEF close_put, release_ufile, svars, tvars, SemShape,
       Cleaners, up_write, TypeOK, TypeThread, TypeUobj, TypeLock, TypeClean, PCs,
       ThreadShape
  <2>3. CASE ib_uverbs_remove_one
    BY <2>3 DEF ib_uverbs_remove_one, uvars, tvars, SemShape,
       Cleaners, up_write, TypeOK, TypeThread, TypeUobj, TypeLock, TypeClean, PCs,
       ThreadShape
  <2>4. CASE ib_uverbs_free_hw_resources
    BY <2>4, SMT DEF ib_uverbs_free_hw_resources, uvars, svars, tvars,
       SemShape, Cleaners, up_write, TypeOK, TypeThread, TypeUobj, TypeLock, TypeClean,
       PCs, ThreadShape
  <2>5. CASE remove_put
    BY <2>5 DEF remove_put, release_ufile, svars, tvars, SemShape,
       Cleaners, up_write, TypeOK, TypeThread, TypeUobj, TypeLock, TypeClean, PCs,
       ThreadShape
  <2> QED
    BY <1>6, <2>1, <2>2, <2>3, <2>4, <2>5
<1> QED
  BY <1>1, <1>2, <1>3, <1>4, <1>5, <1>6 DEF Next, Command, FdRelease, Cleanup, Cleaners

(* No step lets a command run on a closed file, or hold a uobject after    *)
(* the grace period of disassociation.                                     *)
LEMMA GatesStep ==
    ASSUME IInv, Next
    PROVE  Gates'
<1>0. TypeOK /\ ThreadShape /\ SemShape /\ Gates
  BY DEF IInv
<1> USE <1>0
<1> USE ConstantsAssumption
<1>1. ASSUME NEW t \in Threads, ib_uverbs_ioctl(t) \/ ib_uverbs_ioctl_end(t)
             \/ ib_init_ucontext(t) \/ rdma_alloc_begin_uobject(t) \/ handler(t)
             \/ rdma_alloc_commit_uobject(t)
      PROVE  Gates'
  <2>1. CASE ib_uverbs_ioctl(t)
    BY <2>1, SMT DEF ib_uverbs_ioctl, open, uvars, fvars, cvars, Gates,
       Holding, TypeOK, TypeThread, TypeFile, TypeLock, TypeClean, PCs, Modes,
       ThreadShape, SemShape
  <2>2. CASE ib_uverbs_ioctl_end(t)
    BY <2>2, SMT DEF ib_uverbs_ioctl_end, uvars, fvars, cvars, Gates,
       Holding, TypeOK, TypeThread, TypeFile, TypeLock, TypeClean, PCs, Modes,
       ThreadShape, SemShape
  <2>3. CASE ib_init_ucontext(t)
    BY <2>3, SMT DEF ib_init_ucontext, CanRead, SeesDev, ibdev, uvars,
       svars, cvars, Gates, Holding, TypeOK, TypeThread, TypeFile, TypeLock, TypeClean,
       PCs, Modes, ThreadShape, SemShape
  <2>4. CASE rdma_alloc_begin_uobject(t)
    <3>1. UNCHANGED <<srcu, grace, cur, mode, cpc>> /\ pc[t] \in {"cmd", "locked"}
      BY <2>4, AllocThread DEF cvars
    <3>2. CASE pc' = [pc EXCEPT ![t] = Leave(t)] /\ UNCHANGED new
      BY <3>1, <3>2, SMT DEF Leave, Gates, Holding, TypeOK, TypeThread
    <3>3. ASSUME NEW u \in Uobjs, NEW next \in {"new", "context"}, SeesDev(t),
                 new' = [new EXCEPT ![t] = u], pc' = [pc EXCEPT ![t] = next]
          PROVE  Gates'
      BY <3>1, <3>3, SMT DEF SeesDev, ibdev, Gates, Holding, TypeOK, TypeThread
    <3> QED
      BY <2>4, <3>2, <3>3, AllocThread
  <2>5. CASE handler(t)
    BY <2>5, SMT DEF handler, fvars, svars, cvars, Gates, Holding,
       TypeOK, TypeThread, TypeFile, TypeLock, TypeClean, PCs, Modes, ThreadShape,
       SemShape
  <2>6. CASE rdma_alloc_commit_uobject(t)
    <3>1. /\ new' = [new EXCEPT ![t] = Null] /\ pc' = [pc EXCEPT ![t] = Leave(t)]
          /\ UNCHANGED <<srcu, grace, cur, mode, cpc>> /\ pc[t] \in {"created", "commit"}
      BY <2>6 DEF rdma_alloc_commit_uobject, cvars
    <3> QED
      BY <3>1, SMT DEF Leave, Gates, Holding, TypeOK, TypeThread
  <2> QED
    BY <1>1, <2>1, <2>2, <2>3, <2>4, <2>5, <2>6
<1>2. ASSUME NEW t \in Threads, rdma_alloc_abort_uobject(t) \/ xa_load(t)
             \/ lookup_get_idr_uobject(t) \/ lookup_get_fd_uobject(t)
             \/ rdma_lookup_get_uobject(t) \/ rdma_lookup_put_uobject(t)
      PROVE  Gates'
  <2>1. CASE rdma_alloc_abort_uobject(t)
    BY <2>1, SMT DEF rdma_alloc_abort_uobject, Rereg, Leave, fvars,
       cvars, Gates, Holding, TypeOK, TypeThread, TypeFile, TypeLock, TypeClean, PCs,
       Modes, ThreadShape, SemShape
  <2>2. CASE xa_load(t)
    BY <2>2, SMT DEF xa_load, uvars, fvars, svars, cvars, Gates, Holding,
       TypeOK, TypeThread, TypeFile, TypeLock, TypeClean, PCs, Modes, ThreadShape,
       SemShape
  <2>3. CASE lookup_get_idr_uobject(t)
    BY <2>3, SMT DEF lookup_get_idr_uobject, fvars, svars, cvars, Gates,
       Holding, TypeOK, TypeThread, TypeFile, TypeLock, TypeClean, PCs, Modes,
       ThreadShape, SemShape
  <2>4. CASE lookup_get_fd_uobject(t)
    <3>1. /\ pc[t] = "cmd" /\ pc' = [pc EXCEPT ![t] = "got"] /\ mode' = [mode EXCEPT ![t] = "READ"]
          /\ UNCHANGED <<srcu, grace, new, cpc>>
      BY <2>4 DEF lookup_get_fd_uobject, svars, cvars
    <3>2. \A s \in Threads : s # t => cur'[s] = cur[s]
      BY <2>4 DEF lookup_get_fd_uobject, TypeOK, TypeThread
    <3> QED
      BY <3>1, <3>2, SMT DEF Gates, Holding, TypeOK, TypeThread
  <2>5. CASE rdma_lookup_get_uobject(t)
    <3>1. /\ pc[t] = "got" /\ UNCHANGED <<srcu, grace, new, mode, cpc>>
          /\ \/ SeesDev(t) /\ pc' = [pc EXCEPT ![t] = "locked"] /\ cur' = cur
             \/ cur' = [cur EXCEPT ![t] = Null] /\ pc' = [pc EXCEPT ![t] = "exit"]
      BY <2>5 DEF rdma_lookup_get_uobject, lookup_put, svars, cvars
    <3> QED
      BY <3>1, SMT DEF SeesDev, ibdev, Gates, Holding, TypeOK, TypeThread
  <2>6. CASE rdma_lookup_put_uobject(t)
    BY <2>6, SMT DEF rdma_lookup_put_uobject, lookup_put, fvars, svars,
       cvars, Gates, Holding, TypeOK, TypeThread, TypeFile, TypeLock, TypeClean, PCs,
       Modes, ThreadShape, SemShape
  <2> QED
    BY <1>2, <2>1, <2>2, <2>3, <2>4, <2>5, <2>6
<1>3. ASSUME NEW t \in Threads, uobj_destroy(t) \/ rdma_assign_uobject(t)
             \/ destroy_hw(t) \/ uverbs_destroy_uobject(t)
      PROVE  Gates'
  <2>1. CASE uobj_destroy(t)
    BY <2>1, SMT DEF uobj_destroy, CanRead, fvars, cvars, Gates,
       Holding, TypeOK, TypeThread, TypeFile, TypeLock, TypeClean, PCs, Modes,
       ThreadShape, SemShape
  <2>2. CASE rdma_assign_uobject(t)
    BY <2>2, SMT DEF rdma_assign_uobject, Rereg, fvars, svars, cvars,
       Gates, Holding, TypeOK, TypeThread, TypeFile, TypeLock, TypeClean, PCs, Modes,
       ThreadShape, SemShape
  <2>3. CASE destroy_hw(t)
    <3>1. /\ pc[t] = "destroy" /\ UNCHANGED <<srcu, grace, cur, new, mode, cpc>>
          /\ \E next \in {"unlink", "put", "commit"} : pc' = [pc EXCEPT ![t] = next]
      BY <2>3 DEF destroy_hw, cvars
    <3> QED
      BY <3>1, SMT DEF Gates, Holding, TypeOK, TypeThread
  <2>4. CASE uverbs_destroy_uobject(t)
    BY <2>4, SMT DEF uverbs_destroy_uobject, fvars, cvars, Gates,
       Holding, TypeOK, TypeThread, TypeFile, TypeLock, TypeClean, PCs, Modes,
       ThreadShape, SemShape
  <2> QED
    BY <1>3, <2>1, <2>2, <2>3, <2>4
<1>4. ASSUME NEW u \in FdUobjs, fd_close(u) \/ uverbs_uobject_fd_release(u)
             \/ fd_release_destroy(u) \/ fd_release_put(u)
      PROVE  Gates'
  <2>1. UNCHANGED <<srcu, grace, pc, cur, new, mode, cpc>>
    BY <1>4 DEF fd_close, uverbs_uobject_fd_release, fd_release_destroy,
       fd_release_put, cvars, svars, tvars
  <2> QED
    BY <2>1 DEF Gates, Holding
<1>5. ASSUME NEW c \in Cleaners, uverbs_cleanup_ufile(c) \/ uverbs_destroy_ufile_hw(c)
             \/ cleanup_pass_end(c) \/ up_write(c)
      PROVE  Gates'
  <2>1. CASE uverbs_cleanup_ufile(c)
    <3>1. UNCHANGED <<srcu, grace, pc, cur, new, mode, cpc>>
      BY <2>1 DEF uverbs_cleanup_ufile, svars, tvars
    <3> QED
      BY <3>1 DEF Gates, Holding
  <2>2. CASE uverbs_destroy_ufile_hw(c)
    BY <2>2, SMT DEF uverbs_destroy_ufile_hw, Linked, uvars, fvars,
       tvars, Gates, Holding, TypeOK, TypeThread, TypeFile, TypeLock, TypeClean, PCs,
       Modes, ThreadShape, SemShape
  <2>3. CASE cleanup_pass_end(c)
    <3>1. UNCHANGED <<pc, cur, new, mode, srcu, grace>>
      BY <2>3 DEF cleanup_pass_end, svars, tvars
    <3>2. /\ cpc'["close"] = "idle" <=> cpc["close"] = "idle"
          /\ cpc'["close"] # "sync"
          /\ cpc'["remove"] = "idle" <=> cpc["remove"] = "idle"
          /\ cpc'["remove"] = "sync" <=> cpc["remove"] = "sync"
      BY <2>3 DEF cleanup_pass_end, Gates, TypeOK, TypeClean, Cleaners
    <3> QED
      BY <3>1, <3>2 DEF Gates, Holding
  <2>4. CASE up_write(c)
    BY <2>4, SMT DEF up_write, uvars, fvars, tvars, Gates, Holding,
       TypeOK, TypeThread, TypeFile, TypeLock, TypeClean, PCs, Modes, ThreadShape,
       SemShape
  <2> QED
    BY <1>5, <2>1, <2>2, <2>3, <2>4
<1>6. ASSUME ib_uverbs_close \/ close_put \/ ib_uverbs_remove_one
             \/ ib_uverbs_free_hw_resources \/ remove_put
      PROVE  Gates'
  <2>1. CASE ib_uverbs_close
    BY <2>1, SMT DEF ib_uverbs_close, open, uvars, svars, tvars, Gates,
       Holding, TypeOK, TypeThread, TypeFile, TypeLock, TypeClean, PCs, Modes,
       ThreadShape, SemShape
  <2>2. CASE close_put
    BY <2>2, SMT DEF close_put, release_ufile, svars, tvars, Gates,
       Holding, TypeOK, TypeThread, TypeFile, TypeLock, TypeClean, PCs, Modes,
       ThreadShape, SemShape
  <2>3. CASE ib_uverbs_remove_one
    <3>1. UNCHANGED <<pc, cur, new, mode, srcu>>
      BY <2>3 DEF ib_uverbs_remove_one, svars, tvars
    <3>2. /\ cpc'["close"] = "idle" <=> cpc["close"] = "idle"
          /\ cpc'["close"] # "sync"
          /\ cpc'["remove"] = "sync" /\ cpc["remove"] = "idle" /\ grace' = srcu
      BY <2>3 DEF ib_uverbs_remove_one, Gates, TypeOK, TypeClean, Cleaners
    <3> QED
      BY <3>1, <3>2 DEF ThreadShape, Gates, Holding
  <2>4. CASE ib_uverbs_free_hw_resources
    <3>1. UNCHANGED <<pc, cur, new, mode, srcu, grace>>
      BY <2>4 DEF ib_uverbs_free_hw_resources, svars, tvars
    <3>2. /\ cpc'["close"] = "idle" <=> cpc["close"] = "idle"
          /\ cpc'["close"] # "sync"
          /\ cpc'["remove"] # "idle" /\ cpc["remove"] # "idle" /\ grace = {}
      BY <2>4 DEF ib_uverbs_free_hw_resources, Gates, TypeOK, TypeClean, Cleaners
    <3> QED
      BY <3>1, <3>2 DEF Gates, Holding
  <2>5. CASE remove_put
    BY <2>5, SMT DEF remove_put, release_ufile, svars, tvars, Gates,
       Holding, TypeOK, TypeThread, TypeFile, TypeLock, TypeClean, PCs, Modes,
       ThreadShape, SemShape
  <2> QED
    BY <1>6, <2>1, <2>2, <2>3, <2>4, <2>5
<1> QED
  BY <1>1, <1>2, <1>3, <1>4, <1>5, <1>6 DEF Next, Command, FdRelease, Cleanup, Cleaners

(* A uobject that has been committed. *)
Public(u) == u \in born /\ \A t \in Threads : new[t] # u

(* What has been found or indexed is public. *)
LEMMA PublicSeen ==
    ASSUME TypeOK, Publication
    PROVE  /\ \A t \in Threads : cur[t] # Null => Public(cur[t])
           /\ \A h \in Handles : idr[h] \in Uobjs => Public(idr[h]) /\ idr[h] \notin FdUobjs
           /\ \A u \in FdUobjs : u \in fd => Public(u)
<1>1. \A t \in Threads : new[t] # Null => \A s \in Threads : cur[s] # new[t]
  BY DEF Publication
<1>2. \A t \in Threads : new[t] # Null => new[t] \notin fd /\ \A h \in Handles : idr[h] # new[t]
  BY DEF Publication
<1>3. Null \notin Uobjs /\ FdUobjs \subseteq Uobjs
  BY ConstantsAssumption
<1>4. \A t \in Threads : cur[t] # Null => Public(cur[t])
  BY <1>1 DEF Publication, Public
<1>5. \A h \in Handles : idr[h] \in Uobjs => Public(idr[h]) /\ idr[h] \notin FdUobjs
  BY <1>2, <1>3 DEF Publication, Public
<1>6. \A u \in FdUobjs : u \in fd => Public(u)
  BY <1>2, <1>3 DEF Publication, Public
<1> QED
  BY <1>4, <1>5, <1>6

(* Publication holds on when no uobject is created or committed and only   *)
(* public ones are found or indexed.                                       *)
LEMMA PublicationKept ==
    ASSUME TypeOK, Publication, UNCHANGED <<born, new>>,
           \A u \in Uobjs : u \in fd' => u \in fd,
           \A u \in Uobjs : rel'[u] # "none" => rel[u] # "none",
           \A u \in Uobjs : list'[u] # 0 => list[u] # 0,
           \A t \in Threads : cur'[t] # Null => Public(cur'[t]),
           \A h \in Handles : idr'[h] \in Uobjs => Public(idr'[h]) /\ idr'[h] \notin FdUobjs
    PROVE  Publication'
<1>1. ASSUME NEW t \in Threads, new[t] # Null
      PROVE  /\ new[t] \in born \ fd' /\ rel'[new[t]] = "none" /\ list'[new[t]] = 0
             /\ \A s \in Threads : cur'[s] # new[t] /\ (s # t => new[s] # new[t])
             /\ \A h \in Handles : idr'[h] # new[t]
  <2>1. new[t] \in born /\ new[t] \in Uobjs /\ new[t] \notin fd
        /\ rel[new[t]] = "none" /\ list[new[t]] = 0
    BY <1>1 DEF Publication, TypeOK, TypeUobj
  <2>2. \A s \in Threads : s # t => new[s] # new[t]
    BY <1>1 DEF Publication
  <2>3. \A s \in Threads : cur'[s] # new[t]
    BY <1>1 DEF Public
  <2>4. \A h \in Handles : idr'[h] # new[t]
    BY <1>1, <2>1 DEF Public
  <2> QED
    BY <2>1, <2>2, <2>3, <2>4
<1>2. /\ \A t \in Threads : cur'[t] # Null => cur'[t] \in born
      /\ \A h \in Handles : idr'[h] \in Uobjs => idr'[h] \in born /\ idr'[h] \notin FdUobjs
  BY DEF Public
<1>3. /\ \A u \in Uobjs : rel'[u] # "none" => u \in born /\ u \in FdUobjs
      /\ \A u \in Uobjs : list'[u] # 0 => u \in born
      /\ \A u \in Uobjs : u \in fd' => u \in born
  BY DEF Publication
<1> QED
  BY <1>1, <1>2, <1>3 DEF Publication

(* No step makes a uobject reachable before it is committed. *)
LEMMA PublicationStep ==
    ASSUME IInv, Next
    PROVE  Publication'
<1>0. TypeOK /\ ThreadShape /\ Publication
  BY DEF IInv
<1> USE <1>0
<1> USE ConstantsAssumption
<1>1. ASSUME NEW t \in Threads, ib_uverbs_ioctl(t) \/ ib_uverbs_ioctl_end(t)
             \/ ib_init_ucontext(t) \/ handler(t) \/ uobj_destroy(t) \/ destroy_hw(t)
             \/ rdma_alloc_begin_uobject(t) \/ rdma_alloc_commit_uobject(t)
             \/ rdma_alloc_abort_uobject(t) \/ xa_load(t) \/ lookup_get_idr_uobject(t)
      PROVE  Publication'
  <2>1. CASE ib_uverbs_ioctl(t) \/ ib_uverbs_ioctl_end(t) \/ ib_init_ucontext(t)
             \/ handler(t) \/ uobj_destroy(t) \/ destroy_hw(t)
    <3>1. UNCHANGED <<born, list, idr, fd, rel, cur, new>>
      BY <2>1 DEF ib_uverbs_ioctl, ib_uverbs_ioctl_end, ib_init_ucontext, handler,
         uobj_destroy, destroy_hw, uvars
    <3> QED
      BY <3>1 DEF Publication
  <2>2. CASE rdma_alloc_begin_uobject(t)
    <3>1. UNCHANGED <<list, fd, rel, cur>>
      BY <2>2 DEF rdma_alloc_begin_uobject
    <3>2. \/ UNCHANGED <<born, idr, new>>
          \/ \E u \in Uobjs \ born :
               /\ born' = born \cup {u}
               /\ new' = [new EXCEPT ![t] = u]
               /\ idr' = idr \/ \E h \in Handles : idr' = [idr EXCEPT ![h] = Null]
      BY <2>2 DEF rdma_alloc_begin_uobject, ib_uverbs_get_context, alloc_begin_idr_uobject,
         alloc_begin_fd_uobject, alloc_uobj
    <3>3. CASE UNCHANGED <<born, idr, new>>
      BY <3>1, <3>3 DEF Publication
    <3>4. ASSUME NEW u \in Uobjs \ born, born' = born \cup {u}, new' = [new EXCEPT ![t] = u],
                 idr' = idr \/ \E h \in Handles : idr' = [idr EXCEPT ![h] = Null]
          PROVE  Publication'
      BY <3>1, <3>4, SMT DEF Publication, TypeOK, TypeUobj
    <3> QED
      BY <3>2, <3>3, <3>4
  <2>3. CASE rdma_alloc_commit_uobject(t)
    <3>v. PICK v \in Uobjs : v = new[t] /\ v # Null
      BY <2>3 DEF rdma_alloc_commit_uobject, ThreadShape, TypeOK, TypeThread
    <3>1. /\ new' = [new EXCEPT ![t] = Null] /\ UNCHANGED <<born, cur>>
          /\ list' = [list EXCEPT ![v] = head + 1]
          /\ \/ UNCHANGED <<fd, rel>> /\ v \in IdrUobjs /\ \E h : idr' = [idr EXCEPT ![h] = v]
             \/ /\ UNCHANGED idr /\ v \in FdUobjs /\ fd' = fd \cup {v}
                /\ rel' = [rel EXCEPT ![v] = "armed"]
      BY <2>3, <3>v DEF rdma_alloc_commit_uobject
    <3>2. \A u \in Uobjs \ {v} : /\ u \in fd' <=> u \in fd
                                 /\ rel'[u] = rel[u] /\ list'[u] = list[u]
      BY <3>1 DEF TypeOK, TypeUobj
    <3>3. \A h \in Handles : \/ idr'[h] = idr[h]
                             \/ idr'[h] = v /\ v \notin FdUobjs
      BY <3>1 DEF IdrUobjs, TypeOK, TypeUobj
    <3>4. v \in born /\ \A s \in Threads : s # t => new[s] # v
      BY <3>v DEF Publication
    <3>5. \A s \in Threads : new'[s] # Null => s # t /\ new'[s] = new[s] /\ new[s] # v
      BY <3>1, <3>4 DEF TypeOK, TypeThread
    <3>6. ASSUME NEW s \in Threads, new'[s] # Null
          PROVE  /\ new'[s] \in born' \ fd' /\ rel'[new'[s]] = "none" /\ list'[new'[s]] = 0
                 /\ \A r \in Threads : cur'[r] # new'[s] /\ (r # s => new'[r] # new'[s])
                 /\ \A h \in Handles : idr'[h] # new'[s]
      <4>1. s # t /\ new'[s] = new[s] /\ new[s] # v /\ new[s] # Null
        BY <3>5, <3>6
      <4>2. /\ new[s] \in born /\ new[s] \in Uobjs \ {v} /\ new[s] \notin fd
            /\ rel[new[s]] = "none" /\ list[new[s]] = 0
        BY <4>1 DEF Publication, TypeOK, TypeUobj
      <4>3. new'[s] \in born' \ fd' /\ rel'[new'[s]] = "none" /\ list'[new'[s]] = 0
        BY <3>1, <3>2, <4>1, <4>2, SMT
      <4>4. \A r \in Threads : cur'[r] # new'[s] /\ (r # s => new'[r] # new'[s])
        BY <3>1, <3>5, <3>6, <4>1, SMT DEF Publication
      <4>5. \A h \in Handles : idr'[h] # new'[s]
        BY <3>3, <4>1 DEF Publication
      <4> QED
        BY <4>3, <4>4, <4>5
    <3>7. /\ \A s \in Threads : cur'[s] # Null => cur'[s] \in born'
          /\ \A h \in Handles : idr'[h] \in Uobjs => idr'[h] \in born' /\ idr'[h] \notin FdUobjs
      BY <3>1, <3>3, <3>4 DEF Publication
    <3>8. /\ \A u \in Uobjs : rel'[u] # "none" => u \in born' /\ u \in FdUobjs
          /\ \A u \in Uobjs : list'[u] # 0 => u \in born'
          /\ \A u \in Uobjs : u \in fd' => u \in born'
      BY <3>1, <3>2, <3>4, SMT DEF Publication
    <3> QED
      BY <3>6, <3>7, <3>8 DEF Publication
  <2>4. CASE rdma_alloc_abort_uobject(t)
    <3>1. /\ new' = [new EXCEPT ![t] = Null] /\ UNCHANGED <<born, cur, fd, rel, list>>
          /\ idr' = idr \/ \E h : idr' = [idr EXCEPT ![h] = Free]
      BY <2>4 DEF rdma_alloc_abort_uobject
    <3>2. \A h \in Handles : idr'[h] = idr[h] \/ idr'[h] = Free
      BY <3>1 DEF TypeOK, TypeUobj
    <3>3. \A s \in Threads : new'[s] # Null => new'[s] = new[s] /\ new[s] \in Uobjs
      BY <3>1 DEF TypeOK, TypeThread
    <3>4. ASSUME NEW s \in Threads, new'[s] # Null
          PROVE  /\ new'[s] \in born' \ fd' /\ rel'[new'[s]] = "none" /\ list'[new'[s]] = 0
                 /\ \A r \in Threads : cur'[r] # new'[s] /\ (r # s => new'[r] # new'[s])
                 /\ \A h \in Handles : idr'[h] # new'[s]
      <4>1. new'[s] = new[s] /\ new[s] # Null /\ new[s] \in Uobjs
        BY <3>3, <3>4
      <4>2. new'[s] \in born' \ fd' /\ rel'[new'[s]] = "none" /\ list'[new'[s]] = 0
        BY <3>1, <4>1 DEF Publication
      <4>3. \A r \in Threads : cur'[r] # new'[s] /\ (r # s => new'[r] # new'[s])
        BY <3>1, <3>3, <4>1 DEF Publication
      <4>4. \A h \in Handles : idr'[h] # new'[s]
        BY <3>2, <4>1, SMT DEF Publication
      <4> QED
        BY <4>2, <4>3, <4>4
    <3>5. \A h \in Handles : idr'[h] \in Uobjs => idr'[h] \in born' /\ idr'[h] \notin FdUobjs
      BY <3>1, <3>2 DEF Publication
    <3> QED
      BY <3>1, <3>4, <3>5 DEF Publication
  <2>5. CASE xa_load(t)
    <3>1. UNCHANGED <<born, new, fd, rel, list, idr>>
      BY <2>5 DEF xa_load, uvars
    <3>2. \E h \in Handles : idr[h] \in Uobjs /\ cur' = [cur EXCEPT ![t] = idr[h]]
      BY <2>5 DEF xa_load
    <3>3. \A s \in Threads : cur'[s] # Null => Public(cur'[s])
      BY <3>2, PublicSeen DEF TypeOK, TypeThread
    <3> QED
      BY <3>1, <3>3, PublicSeen, PublicationKept
  <2>6. CASE lookup_get_idr_uobject(t)
    <3>1. UNCHANGED <<born, new, fd, rel, list, idr>>
      BY <2>6 DEF lookup_get_idr_uobject
    <3>2. cur' = cur \/ cur' = [cur EXCEPT ![t] = Null]
      BY <2>6 DEF lookup_get_idr_uobject
    <3>3. \A s \in Threads : cur'[s] # Null => Public(cur'[s])
      BY <3>2, PublicSeen DEF TypeOK, TypeThread
    <3> QED
      BY <3>1, <3>3, PublicSeen, PublicationKept
  <2> QED
    BY <1>1, <2>1, <2>2, <2>3, <2>4, <2>5, <2>6
<1>2. ASSUME NEW t \in Threads, lookup_get_fd_uobject(t) \/ rdma_lookup_get_uobject(t)
             \/ rdma_lookup_put_uobject(t) \/ rdma_assign_uobject(t)
             \/ uverbs_destroy_uobject(t)
      PROVE  Publication'
  <2>1. CASE lookup_get_fd_uobject(t)
    <3>1. UNCHANGED <<born, new, fd, rel, list, idr>>
      BY <2>1 DEF lookup_get_fd_uobject
    <3>2. \E u \in FdUobjs : u \in fd /\ cur' = [cur EXCEPT ![t] = u]
      BY <2>1 DEF lookup_get_fd_uobject
    <3>3. \A s \in Threads : cur'[s] # Null => Public(cur'[s])
      BY <3>2, PublicSeen DEF TypeOK, TypeThread
    <3> QED
      BY <3>1, <3>3, PublicSeen, PublicationKept
  <2>2. CASE rdma_lookup_get_uobject(t) \/ rdma_lookup_put_uobject(t)
    <3>1. UNCHANGED <<born, new, fd, rel, list, idr>>
      BY <2>2 DEF rdma_lookup_get_uobject, rdma_lookup_put_uobject
    <3>2. cur' = cur \/ cur' = [cur EXCEPT ![t] = Null]
      BY <2>2 DEF rdma_lookup_get_uobject, rdma_lookup_put_uobject, lookup_put
    <3>3. \A s \in Threads : cur'[s] # Null => Public(cur'[s])
      BY <3>2, PublicSeen DEF TypeOK, TypeThread
    <3> QED
      BY <3>1, <3>3, PublicSeen, PublicationKept
  <2>4. CASE rdma_assign_uobject(t)
    <3>1. UNCHANGED <<born, new, fd, rel, list, cur>>
      BY <2>4 DEF rdma_assign_uobject
    <3>2. idr' = [idr EXCEPT ![id[cur[t]]] = Null, ![id[new[t]]] = cur[t]]
      BY <2>4 DEF rdma_assign_uobject
    <3>3. cur[t] # Null /\ cur[t] \notin FdUobjs
      BY <2>4 DEF rdma_assign_uobject, Rereg, ThreadShape
    <3>4. \A h \in Handles : idr'[h] \in Uobjs => idr'[h] = cur[t] \/ idr'[h] = idr[h]
      BY <3>2, ConstantsAssumption, SMT DEF TypeOK, TypeUobj
    <3>5. \A h \in Handles : idr'[h] \in Uobjs => Public(idr'[h]) /\ idr'[h] \notin FdUobjs
      BY <3>3, <3>4, PublicSeen
    <3> QED
      BY <3>1, <3>5, PublicSeen, PublicationKept
  <2>5. CASE uverbs_destroy_uobject(t)
    <3>1. /\ UNCHANGED <<born, new, fd, rel, cur>>
          /\ list' = [list EXCEPT ![cur[t]] = 0] /\ idr' = [idr EXCEPT ![id[cur[t]]] = Free]
      BY <2>5 DEF uverbs_destroy_uobject
    <3>2. \A u \in Uobjs : list'[u] # 0 => list[u] # 0
      BY <3>1 DEF TypeOK, TypeUobj
    <3>3. \A h \in Handles : idr'[h] \in Uobjs => idr'[h] = idr[h]
      BY <3>1, ConstantsAssumption DEF TypeOK, TypeUobj
    <3> QED
      BY <3>1, <3>2, <3>3, PublicSeen, PublicationKept
  <2> QED
    BY <1>2, <2>1, <2>2, <2>4, <2>5
<1>3. ASSUME NEW u \in FdUobjs, fd_close(u) \/ uverbs_uobject_fd_release(u)
             \/ fd_release_destroy(u) \/ fd_release_put(u)
      PROVE  Publication'
  <2>0. u \in Uobjs
    BY ConstantsAssumption
  <2>1. CASE fd_close(u)
    <3>1. UNCHANGED <<born, new, rel, list, cur, idr>> /\ fd' = fd \ {u}
      BY <2>1 DEF fd_close, tvars
    <3> QED
      BY <3>1, PublicSeen, PublicationKept
  <2>2. CASE uverbs_uobject_fd_release(u)
    <3>1. UNCHANGED <<born, new, list, fd, cur, idr>> /\ rel[u] # "none"
      BY <2>2 DEF uverbs_uobject_fd_release, tvars
    <3>2. \E r : rel' = [rel EXCEPT ![u] = r]
      BY <2>2 DEF uverbs_uobject_fd_release
    <3>3. \A v \in Uobjs : rel'[v] # "none" => rel[v] # "none"
      BY <3>1, <3>2 DEF TypeOK, TypeUobj
    <3> QED
      BY <3>1, <3>3, PublicSeen, PublicationKept
  <2>3. CASE fd_release_destroy(u)
    <3>1. UNCHANGED <<born, new, fd, cur, idr>> /\ rel[u] # "none"
      BY <2>3 DEF fd_release_destroy, tvars
    <3>2. rel' = [rel EXCEPT ![u] = "drop"] /\ list' = [list EXCEPT ![u] = 0]
      BY <2>3 DEF fd_release_destroy
    <3>3. \A v \in Uobjs : /\ rel'[v] # "none" => rel[v] # "none"
                           /\ list'[v] # 0 => list[v] # 0
      BY <3>1, <3>2 DEF TypeOK, TypeUobj
    <3> QED
      BY <3>1, <3>3, PublicSeen, PublicationKept
  <2>4. CASE fd_release_put(u)
    <3>1. UNCHANGED <<born, new, list, fd, cur>> /\ rel[u] # "none"
      BY <2>4 DEF fd_release_put, tvars
    <3>2. /\ \E r : rel' = [rel EXCEPT ![u] = r]
          /\ idr' = idr \/ idr' = [h \in Handles |-> Free]
      BY <2>4 DEF fd_release_put, release_ufile
    <3>3. \A v \in Uobjs : rel'[v] # "none" => rel[v] # "none"
      BY <3>1, <3>2 DEF TypeOK, TypeUobj
    <3>4. \A h \in Handles : idr'[h] \in Uobjs => idr'[h] = idr[h]
      BY <3>2, ConstantsAssumption
    <3> QED
      BY <3>1, <3>3, <3>4, PublicSeen, PublicationKept
  <2> QED
    BY <1>3, <2>1, <2>2, <2>3, <2>4
<1>4. ASSUME NEW c \in Cleaners, uverbs_destroy_ufile_hw(c) \/ up_write(c)
             \/ uverbs_cleanup_ufile(c) \/ cleanup_pass_end(c)
      PROVE  Publication'
  <2>1. CASE uverbs_destroy_ufile_hw(c) \/ up_write(c)
    <3>1. UNCHANGED <<born, list, idr, fd, rel, cur, new>>
      BY <2>1 DEF uverbs_destroy_ufile_hw, up_write, tvars, uvars
    <3> QED
      BY <3>1 DEF Publication
  <2>2. CASE uverbs_cleanup_ufile(c)
    <3>1. UNCHANGED <<born, new, rel, fd, cur, idr>>
      BY <2>2 DEF uverbs_cleanup_ufile, tvars
    <3>2. list' = list \/ \E u : list' = [list EXCEPT ![u] = 0]
      BY <2>2 DEF uverbs_cleanup_ufile, Cleaned
    <3>3. \A v \in Uobjs : list'[v] # 0 => list[v] # 0
      BY <3>2 DEF TypeOK, TypeUobj
    <3> QED
      BY <3>1, <3>3, PublicSeen, PublicationKept
  <2>3. CASE cleanup_pass_end(c)
    <3>1. UNCHANGED <<born, new, rel, fd, cur, idr>>
      BY <2>3 DEF cleanup_pass_end, uvars, tvars
    <3>2. list' = list \/ list' = [u \in Uobjs |-> 0]
      BY <2>3 DEF cleanup_pass_end, uvars
    <3>3. \A v \in Uobjs : list'[v] # 0 => list[v] # 0
      BY <3>2
    <3> QED
      BY <3>1, <3>3, PublicSeen, PublicationKept
  <2> QED
    BY <1>4, <2>1, <2>2, <2>3
<1>5. ASSUME ib_uverbs_close \/ ib_uverbs_remove_one \/ ib_uverbs_free_hw_resources
             \/ close_put \/ remove_put
      PROVE  Publication'
  <2>1. UNCHANGED <<born, list, fd, rel, cur, new>>
    BY <1>5 DEF ib_uverbs_close, ib_uverbs_remove_one, ib_uverbs_free_hw_resources,
       close_put, remove_put, tvars, uvars
  <2>2. idr' = idr \/ idr' = [h \in Handles |-> Free]
    BY <1>5 DEF ib_uverbs_close, ib_uverbs_remove_one, ib_uverbs_free_hw_resources,
       close_put, remove_put, release_ufile, uvars
  <2>3. \A h \in Handles : idr'[h] \in Uobjs => idr'[h] = idr[h]
    BY <2>2, ConstantsAssumption
  <2> QED
    BY <2>1, <2>3, PublicSeen, PublicationKept
<1> QED
  BY <1>1, <1>2, <1>3, <1>4, <1>5 DEF Next, Command, FdRelease, Cleanup, Cleaners

(* A HW object is made by the creation of its uobject only. *)
LEMMA ObjectAfter ==
    ASSUME TypeOK, NEW t \in Threads, Command(t)
    PROVE  \A u \in object' : u \in object \/ u = new'[t]
<1>1. CASE rdma_alloc_begin_uobject(t)
  <2>1. CASE AllocNone(t)
    BY <2>1 DEF AllocNone
  <2>2. ASSUME NEW u \in Uobjs, NEW h \in Handles, AllocIdr(t, u, h)
        PROVE  object' = object
    BY <2>2 DEF AllocIdr, alloc_begin_idr_uobject
  <2>3. ASSUME NEW u \in Uobjs, AllocFd(t, u)
        PROVE  object' = object \cup {u} /\ new'[t] = u
    BY <2>3 DEF AllocFd, alloc_begin_fd_uobject, alloc_uobj, TypeOK, TypeThread
  <2> QED
    BY <1>1, <2>1, <2>2, <2>3, AllocBegin
<1>2. CASE handler(t)
  BY <1>2 DEF handler
<1>3. CASE rdma_alloc_abort_uobject(t) \/ destroy_hw(t)
  BY <1>3 DEF rdma_alloc_abort_uobject, destroy_hw
<1>4. CASE \/ ib_uverbs_ioctl(t) \/ ib_uverbs_ioctl_end(t) \/ ib_init_ucontext(t)
           \/ rdma_alloc_commit_uobject(t) \/ xa_load(t) \/ lookup_get_idr_uobject(t)
           \/ lookup_get_fd_uobject(t) \/ rdma_lookup_get_uobject(t)
           \/ rdma_lookup_put_uobject(t) \/ uobj_destroy(t) \/ rdma_assign_uobject(t)
           \/ uverbs_destroy_uobject(t)
  <2>1. object' = object
    BY <1>4 DEF ib_uverbs_ioctl, ib_uverbs_ioctl_end, ib_init_ucontext, uvars,
       rdma_alloc_commit_uobject, xa_load, lookup_get_idr_uobject, lookup_get_fd_uobject,
       rdma_lookup_get_uobject, rdma_lookup_put_uobject, uobj_destroy,
       rdma_assign_uobject, uverbs_destroy_uobject
  <2> QED
    BY <2>1
<1> QED
  BY <1>1, <1>2, <1>3, <1>4 DEF Command

(* Only destroy_hw brings a command to the unlinking of its uobject. *)
LEMMA UnlinkAfter ==
    ASSUME TypeOK, NEW t \in Threads, Command(t), ~destroy_hw(t)
    PROVE  pc'[t] # "unlink"
<1>0. pc \in [Threads -> PCs]
  BY DEF TypeOK, TypeThread
<1>1. CASE \/ ib_uverbs_ioctl(t) \/ ib_uverbs_ioctl_end(t) \/ ib_init_ucontext(t) \/ handler(t)
  BY <1>0, <1>1 DEF ib_uverbs_ioctl, ib_uverbs_ioctl_end, ib_init_ucontext, handler
<1>2. CASE rdma_alloc_begin_uobject(t)
  <2>1. \E p \in {"new", "context", "exit", "put"} : pc' = [pc EXCEPT ![t] = p]
    BY <1>2 DEF rdma_alloc_begin_uobject, ib_uverbs_get_context, alloc_begin_fd_uobject,
       alloc_begin_idr_uobject, alloc_uobj, Leave
  <2> QED
    BY <1>0, <2>1
<1>3. CASE rdma_alloc_commit_uobject(t) \/ rdma_alloc_abort_uobject(t)
  BY <1>0, <1>3 DEF rdma_alloc_commit_uobject, rdma_alloc_abort_uobject, Leave
<1>4. CASE \/ xa_load(t) \/ lookup_get_idr_uobject(t) \/ lookup_get_fd_uobject(t)
           \/ rdma_lookup_get_uobject(t) \/ rdma_lookup_put_uobject(t)
  <2>1. \E p \in {"rcu", "got", "locked", "exit"} : pc' = [pc EXCEPT ![t] = p]
    BY <1>4 DEF xa_load, lookup_get_idr_uobject, lookup_get_fd_uobject, lookup_put,
       rdma_lookup_get_uobject, rdma_lookup_put_uobject
  <2> QED
    BY <1>0, <2>1
<1>5. CASE uobj_destroy(t) \/ rdma_assign_uobject(t) \/ uverbs_destroy_uobject(t)
  BY <1>0, <1>5 DEF uobj_destroy, rdma_assign_uobject, uverbs_destroy_uobject
<1> QED
  BY <1>1, <1>2, <1>3, <1>4, <1>5 DEF Command

(* ufile->uobjects changes in commit and in destruction only, *)
LEMMA ListAfter ==
    ASSUME NEW t \in Threads, Command(t), ~rdma_alloc_commit_uobject(t), ~uverbs_destroy_uobject(t)
    PROVE  list' = list
<1>1. CASE \/ ib_uverbs_ioctl(t) \/ ib_uverbs_ioctl_end(t) \/ ib_init_ucontext(t) \/ handler(t)
           \/ rdma_alloc_begin_uobject(t) \/ rdma_alloc_abort_uobject(t) \/ destroy_hw(t)
  BY <1>1 DEF ib_uverbs_ioctl, ib_uverbs_ioctl_end, ib_init_ucontext, handler, uvars,
     rdma_alloc_begin_uobject, rdma_alloc_abort_uobject, destroy_hw
<1>2. CASE \/ xa_load(t) \/ lookup_get_idr_uobject(t) \/ lookup_get_fd_uobject(t)
           \/ rdma_lookup_get_uobject(t) \/ rdma_lookup_put_uobject(t)
           \/ uobj_destroy(t) \/ rdma_assign_uobject(t)
  BY <1>2 DEF xa_load, lookup_get_idr_uobject, lookup_get_fd_uobject, uvars,
     rdma_lookup_get_uobject, rdma_lookup_put_uobject, uobj_destroy, rdma_assign_uobject
<1> QED
  BY <1>1, <1>2 DEF Command

(* ... and what a command creates in the functions of creation. *)
LEMMA NewAfter ==
    ASSUME NEW t \in Threads, Command(t), ~rdma_alloc_begin_uobject(t),
           ~rdma_alloc_commit_uobject(t), ~rdma_alloc_abort_uobject(t)
    PROVE  new' = new
<1>1. CASE \/ ib_uverbs_ioctl(t) \/ ib_uverbs_ioctl_end(t) \/ ib_init_ucontext(t) \/ handler(t)
           \/ destroy_hw(t) \/ uverbs_destroy_uobject(t)
  BY <1>1 DEF ib_uverbs_ioctl, ib_uverbs_ioctl_end, ib_init_ucontext, handler,
     destroy_hw, uverbs_destroy_uobject
<1>2. CASE \/ xa_load(t) \/ lookup_get_idr_uobject(t) \/ lookup_get_fd_uobject(t)
           \/ rdma_lookup_get_uobject(t) \/ rdma_lookup_put_uobject(t)
           \/ uobj_destroy(t) \/ rdma_assign_uobject(t)
  BY <1>2 DEF xa_load, lookup_get_idr_uobject, lookup_get_fd_uobject,
     rdma_lookup_get_uobject, rdma_lookup_put_uobject, uobj_destroy, rdma_assign_uobject
<1> QED
  BY <1>1, <1>2 DEF Command

(* No command takes the ucontext away. *)
LEMMA ContextAfter ==
    ASSUME NEW t \in Threads, Command(t), ucontext
    PROVE  ucontext'
<1>1. CASE ib_init_ucontext(t)
  BY <1>1 DEF ib_init_ucontext
<1>2. CASE \/ ib_uverbs_ioctl(t) \/ ib_uverbs_ioctl_end(t) \/ handler(t)
           \/ rdma_alloc_begin_uobject(t) \/ rdma_alloc_abort_uobject(t) \/ destroy_hw(t)
           \/ rdma_alloc_commit_uobject(t) \/ uverbs_destroy_uobject(t)
  BY <1>2 DEF ib_uverbs_ioctl, ib_uverbs_ioctl_end, handler, fvars, rdma_alloc_begin_uobject,
     rdma_alloc_abort_uobject, destroy_hw, rdma_alloc_commit_uobject, uverbs_destroy_uobject
<1>3. CASE \/ xa_load(t) \/ lookup_get_idr_uobject(t) \/ lookup_get_fd_uobject(t)
           \/ rdma_lookup_get_uobject(t) \/ rdma_lookup_put_uobject(t)
           \/ uobj_destroy(t) \/ rdma_assign_uobject(t)
  BY <1>3 DEF xa_load, lookup_get_idr_uobject, lookup_get_fd_uobject, fvars,
     rdma_lookup_get_uobject, rdma_lookup_put_uobject, uobj_destroy, rdma_assign_uobject
<1> QED
  BY <1>1, <1>2, <1>3 DEF Command

(* A uobject is unlinked by uverbs_destroy_uobject only after destroy_hw   *)
(* has taken its HW object.                                                *)
LEMMA OldObjectStep ==
    ASSUME IInv, Next
    PROVE  OldObject'
<1>0. TypeOK /\ ThreadShape /\ SemShape /\ Gates /\ Publication /\ Owned
  BY DEF IInv
<1> USE <1>0
<1> USE ConstantsAssumption
<1>1. ASSUME NEW t \in Threads, Command(t)
      PROVE  OldObject'
  <2>1. OthersSame(t)
    BY <1>1, OthersStay
  <2>2. ASSUME NEW s \in Threads \ {t}, pc'[s] = "unlink"
        PROVE  cur'[s] \notin object'
    <3>1. cur[s] \notin object /\ cur'[s] = cur[s] /\ cur[s] # Null
      BY <2>1, <2>2 DEF OthersSame, Owned, OldObject, ThreadShape
    <3>2. Publication'
      BY PublicationStep
    <3>3. cur'[s] # new'[t]
      BY <3>1, <3>2 DEF Publication
    <3> QED
      BY <1>1, <3>1, <3>3, ObjectAfter
  <2>3. pc'[t] = "unlink" => cur'[t] \notin object'
    <3>1. CASE destroy_hw(t)
      <4>1. pc \in [Threads -> PCs] /\ cur' = cur
        BY <3>1 DEF destroy_hw, TypeOK, TypeThread
      <4> QED
        BY <3>1, <4>1 DEF destroy_hw
    <3> QED
      BY <1>1, <3>1, UnlinkAfter
  <2> QED
    BY <2>2, <2>3 DEF OldObject
<1>2. ASSUME NEW u \in FdUobjs, fd_close(u) \/ uverbs_uobject_fd_release(u)
             \/ fd_release_put(u) \/ fd_release_destroy(u)
      PROVE  OldObject'
  <2>1. CASE fd_close(u) \/ uverbs_uobject_fd_release(u) \/ fd_release_put(u)
    <3>1. UNCHANGED <<object, pc, cur>>
      BY <2>1 DEF fd_close, uverbs_uobject_fd_release, fd_release_put, tvars
    <3> QED
      BY <3>1 DEF Owned, OldObject
  <2>2. CASE fd_release_destroy(u)
    BY <2>2 DEF fd_release_destroy, fvars, tvars, cvars, OldObject,
       TypeOK, TypeThread, TypeUobj, PCs, ThreadShape, Publication, Owned
  <2> QED
    BY <1>2, <2>1, <2>2
<1>3. ASSUME NEW c \in Cleaners, uverbs_destroy_ufile_hw(c) \/ up_write(c)
             \/ uverbs_cleanup_ufile(c) \/ cleanup_pass_end(c)
      PROVE  OldObject'
  <2>1. CASE uverbs_destroy_ufile_hw(c) \/ up_write(c)
    <3>1. UNCHANGED <<object, pc, cur>>
      BY <2>1 DEF uverbs_destroy_ufile_hw, up_write, tvars, uvars
    <3> QED
      BY <3>1 DEF Owned, OldObject
  <2>2. CASE uverbs_cleanup_ufile(c)
    <3>1. /\ \A s \in Threads : /\ ~Holding(s) /\ new[s] = Null
                                /\ pc[s] \notin {"destroy", "unlink"}
          /\ \A v \in FdUobjs : rel[v] # "held"
      BY <2>2, CleanerAlone DEF uverbs_cleanup_ufile
    <3>2. UNCHANGED <<pc, cur, new, mode, id, idr, rel>>
      BY <2>2 DEF uverbs_cleanup_ufile, tvars, uvars, cvars
    <3> QED
      BY <3>1, <3>2, SMT DEF OldObject
  <2>3. CASE cleanup_pass_end(c)
    <3>1. /\ \A s \in Threads : /\ ~Holding(s) /\ new[s] = Null
                                /\ pc[s] \notin {"destroy", "unlink"}
          /\ \A v \in FdUobjs : rel[v] # "held"
      BY <2>3, CleanerAlone DEF cleanup_pass_end
    <3>2. UNCHANGED <<pc, cur, new, mode, id, idr, rel>>
      BY <2>3 DEF cleanup_pass_end, tvars, uvars, cvars
    <3> QED
      BY <3>1, <3>2, SMT DEF OldObject
  <2> QED
    BY <1>3, <2>1, <2>2, <2>3
<1>4. ASSUME ib_uverbs_close \/ close_put \/ ib_uverbs_remove_one
             \/ ib_uverbs_free_hw_resources \/ remove_put
      PROVE  OldObject'
  <2>1. UNCHANGED <<object, pc, cur>>
    BY <1>4 DEF ib_uverbs_close, close_put, ib_uverbs_remove_one,
       ib_uverbs_free_hw_resources, remove_put, tvars, uvars
  <2> QED
    BY <2>1 DEF Owned, OldObject
<1> QED
  BY <1>1, <1>2, <1>3, <1>4 DEF Next, FdRelease, Cleanup, Cleaners

(* A HW object stays in the hands of its creator or on ufile->uobjects.    *)
LEMMA ObjectOwnedStep ==
    ASSUME IInv, Next
    PROVE  ObjectOwned'
<1>0. TypeOK /\ ThreadShape /\ Publication /\ Owned
  BY DEF IInv
<1> USE <1>0
<1> USE ConstantsAssumption
<1>1. ASSUME NEW t \in Threads, Command(t)
      PROVE  ObjectOwned'
  <2>1. OthersSame(t)
    BY <1>1, OthersStay
  <2>2. ASSUME NEW u \in object', u \in object, list[u] # 0
        PROVE  list'[u] # 0
    <3>0. u \in Uobjs
      BY <2>2 DEF TypeOK, TypeUobj
    <3>1. CASE rdma_alloc_commit_uobject(t)
      BY <2>2, <3>0, <3>1, SMT DEF rdma_alloc_commit_uobject, TypeOK, TypeUobj
    <3>2. CASE uverbs_destroy_uobject(t)
      <4>1. cur[t] # u
        BY <2>2, <3>2 DEF uverbs_destroy_uobject, Owned, OldObject
      <4>2. list' = [list EXCEPT ![cur[t]] = 0]
        BY <3>2 DEF uverbs_destroy_uobject
      <4> QED
        BY <2>2, <3>0, <4>1, <4>2 DEF TypeOK, TypeUobj
    <3>3. CASE ~rdma_alloc_commit_uobject(t) /\ ~uverbs_destroy_uobject(t)
      BY <1>1, <2>2, <3>3, ListAfter
    <3> QED
      BY <3>1, <3>2, <3>3
  <2>3. ASSUME NEW u \in object', u \in object, NEW s \in Threads, new[s] = u
        PROVE  list'[u] # 0 \/ \E r \in Threads : new'[r] = u
    <3>0. u \in Uobjs /\ u # Null
      BY <2>3 DEF TypeOK, TypeUobj
    <3>1. CASE s # t
      BY <2>1, <2>3, <3>1 DEF OthersSame
    <3>2. CASE s = t /\ rdma_alloc_commit_uobject(t)
      BY <2>3, <3>0, <3>2, SMT DEF rdma_alloc_commit_uobject, TypeOK, TypeUobj
    <3>3. CASE s = t /\ rdma_alloc_abort_uobject(t)
      BY <2>3, <3>3 DEF rdma_alloc_abort_uobject
    <3>4. CASE s = t /\ rdma_alloc_begin_uobject(t)
      BY <2>3, <3>0, <3>4 DEF rdma_alloc_begin_uobject, ThreadShape
    <3>5. CASE s = t /\ new' = new
      BY <2>3, <3>5
    <3> QED
      BY <1>1, <3>1, <3>2, <3>3, <3>4, <3>5, NewAfter
  <2> QED
    BY <1>1, <2>2, <2>3, ObjectAfter DEF Owned, ObjectOwned
<1>2. ASSUME NEW u \in FdUobjs, fd_close(u) \/ uverbs_uobject_fd_release(u)
             \/ fd_release_put(u) \/ fd_release_destroy(u)
      PROVE  ObjectOwned'
  <2>1. CASE fd_close(u) \/ uverbs_uobject_fd_release(u) \/ fd_release_put(u)
    <3>1. UNCHANGED <<object, list, new>>
      BY <2>1 DEF fd_close, uverbs_uobject_fd_release, fd_release_put, tvars
    <3> QED
      BY <3>1 DEF Owned, ObjectOwned
  <2>2. CASE fd_release_destroy(u)
    <3>1. new' = new /\ object' = object \ {u} /\ list' = [list EXCEPT ![u] = 0]
      BY <2>2 DEF fd_release_destroy, tvars
    <3>2. \A v \in object' : v \in object /\ list'[v] = list[v]
      BY <3>1 DEF TypeOK, TypeUobj
    <3> QED
      BY <3>1, <3>2 DEF Owned, ObjectOwned
  <2> QED
    BY <1>2, <2>1, <2>2
<1>3. ASSUME NEW c \in Cleaners, uverbs_destroy_ufile_hw(c) \/ up_write(c)
             \/ uverbs_cleanup_ufile(c) \/ cleanup_pass_end(c)
      PROVE  ObjectOwned'
  <2>1. CASE uverbs_destroy_ufile_hw(c) \/ up_write(c)
    <3>1. UNCHANGED <<object, list, new>>
      BY <2>1 DEF uverbs_destroy_ufile_hw, up_write, tvars, uvars
    <3> QED
      BY <3>1 DEF Owned, ObjectOwned
  <2>2. CASE uverbs_cleanup_ufile(c)
    <3>1. new' = new
      BY <2>2 DEF uverbs_cleanup_ufile, tvars
    <3>2. object' \subseteq object /\ \A v \in object' : list'[v] = list[v]
      BY <2>2 DEF uverbs_cleanup_ufile, Cleaned, TypeOK, TypeUobj
    <3> QED
      BY <3>1, <3>2 DEF Owned, ObjectOwned
  <2>3. CASE cleanup_pass_end(c)
    <3>1. new' = new
      BY <2>3 DEF cleanup_pass_end, tvars
    <3>2. UNCHANGED <<object, list>> \/ object' = object \ Linked
      BY <2>3 DEF cleanup_pass_end, uvars
    <3>3. CASE UNCHANGED <<object, list>>
      BY <3>1, <3>3 DEF Owned, ObjectOwned
    <3>4. CASE object' = object \ Linked
      <4>1. \A v \in object' : v \in object /\ list[v] = 0
        BY <3>4 DEF Linked, TypeOK, TypeUobj
      <4> QED
        BY <3>1, <4>1 DEF Owned, ObjectOwned
    <3> QED
      BY <3>2, <3>3, <3>4
  <2> QED
    BY <1>3, <2>1, <2>2, <2>3
<1>4. ASSUME ib_uverbs_close \/ close_put \/ ib_uverbs_remove_one
             \/ ib_uverbs_free_hw_resources \/ remove_put
      PROVE  ObjectOwned'
  <2>1. UNCHANGED <<object, list, new>>
    BY <1>4 DEF ib_uverbs_close, close_put, ib_uverbs_remove_one,
       ib_uverbs_free_hw_resources, remove_put, tvars, uvars
  <2> QED
    BY <2>1 DEF Owned, ObjectOwned
<1> QED
  BY <1>1, <1>2, <1>3, <1>4 DEF Next, FdRelease, Cleanup, Cleaners

(* Uobjects exist on the list only as long as the ucontext does.           *)
LEMMA HasContextStep ==
    ASSUME IInv, Next
    PROVE  HasContext'
<1>0. TypeOK /\ ThreadShape /\ SemShape /\ Gates /\ HasContext
  BY DEF IInv
<1> USE <1>0
<1> USE ConstantsAssumption
<1>1. ASSUME NEW t \in Threads, Command(t)
      PROVE  HasContext'
  <2>0. pc \in [Threads -> PCs] /\ new \in [Threads -> Uobjs \cup {Null}]
    BY DEF TypeOK, TypeThread
  <2>1. OthersSame(t)
    BY <1>1, OthersStay
  <2>2. ucontext => ucontext'
    BY <1>1, ContextAfter
  <2>3. ASSUME NEW u \in Uobjs, list'[u] # 0
        PROVE  ucontext'
    <3>1. CASE rdma_alloc_commit_uobject(t)
      <4>1. pc[t] \in {"created", "commit"}
        BY <3>1 DEF rdma_alloc_commit_uobject
      <4>2. ucontext
        BY <4>1 DEF HasContext, ThreadShape
      <4> QED
        BY <2>2, <4>2
    <3>2. CASE uverbs_destroy_uobject(t)
      <4>1. list[u] # 0
        BY <2>3, <3>2 DEF uverbs_destroy_uobject, TypeOK, TypeUobj
      <4> QED
        BY <2>2, <4>1 DEF HasContext
    <3>3. CASE list' = list
      BY <2>2, <2>3, <3>3 DEF HasContext
    <3> QED
      BY <1>1, <3>1, <3>2, <3>3, ListAfter
  <2>4. ASSUME NEW s \in Threads \ {t}, new'[s] # Null, pc'[s] \notin {"context", "abort"}
        PROVE  ucontext'
    BY <2>1, <2>2, <2>4 DEF OthersSame, HasContext
  <2>5. ASSUME new'[t] # Null, pc'[t] \notin {"context", "abort"}
        PROVE  ucontext'
    <3>1. CASE rdma_alloc_begin_uobject(t)
      <4>1. CASE MayAlloc(t)
        BY <2>2, <4>1 DEF MayAlloc
      <4>2. CASE ib_uverbs_get_context(t)
        BY <2>0, <2>5, <4>2 DEF ib_uverbs_get_context, alloc_begin_fd_uobject, alloc_uobj
      <4>3. CASE new' = new
        BY <2>5, <3>1, <4>3 DEF rdma_alloc_begin_uobject, ThreadShape
      <4> QED
        BY <3>1, <4>1, <4>2, <4>3 DEF rdma_alloc_begin_uobject
    <3>2. CASE ib_init_ucontext(t)
      <4>1. CASE ucontext' = TRUE
        BY <4>1
      <4>2. CASE pc' = [pc EXCEPT ![t] = IF @ = "cmd" THEN "exit" ELSE "abort"]
        <5>1. pc[t] = "cmd"
          BY <2>0, <2>5, <4>2
        <5>2. new[t] = Null /\ new' = new
          BY <3>2, <5>1 DEF ib_init_ucontext, ThreadShape
        <5> QED
          BY <2>5, <5>2
      <4> QED
        BY <3>2, <4>1, <4>2 DEF ib_init_ucontext
    <3>3. CASE rdma_alloc_commit_uobject(t) \/ rdma_alloc_abort_uobject(t)
      BY <2>0, <2>5, <3>3 DEF rdma_alloc_commit_uobject, rdma_alloc_abort_uobject
    <3>4. CASE \/ ib_uverbs_ioctl(t) \/ ib_uverbs_ioctl_end(t) \/ xa_load(t)
               \/ lookup_get_idr_uobject(t) \/ lookup_get_fd_uobject(t)
               \/ rdma_lookup_get_uobject(t) \/ rdma_lookup_put_uobject(t) \/ uobj_destroy(t)
      <4>1. pc[t] \in {"idle", "cmd", "exit", "rcu", "got", "locked", "put"} /\ new' = new
        BY <3>4 DEF ib_uverbs_ioctl, ib_uverbs_ioctl_end, xa_load, lookup_get_idr_uobject,
           lookup_get_fd_uobject, rdma_lookup_get_uobject, rdma_lookup_put_uobject, uobj_destroy
      <4> QED
        BY <2>5, <4>1 DEF ThreadShape
    <3>5. CASE \/ handler(t) \/ rdma_assign_uobject(t) \/ destroy_hw(t)
               \/ uverbs_destroy_uobject(t)
      <4>1. pc[t] \in {"new", "created", "destroy", "unlink"} /\ new' = new
        BY <3>5 DEF handler, rdma_assign_uobject, destroy_hw, uverbs_destroy_uobject
      <4> QED
        BY <2>2, <2>5, <4>1 DEF HasContext
    <3> QED
      BY <1>1, <3>1, <3>2, <3>3, <3>4, <3>5 DEF Command
  <2> QED
    BY <2>3, <2>4, <2>5 DEF HasContext
<1>2. ASSUME NEW u \in FdUobjs, fd_close(u) \/ uverbs_uobject_fd_release(u)
             \/ fd_release_put(u) \/ fd_release_destroy(u)
      PROVE  HasContext'
  <2>1. CASE fd_close(u) \/ uverbs_uobject_fd_release(u) \/ fd_release_put(u)
    <3>1. UNCHANGED <<list, ucontext, pc, new>>
      BY <2>1 DEF fd_close, uverbs_uobject_fd_release, fd_release_put, fvars, tvars
    <3> QED
      BY <3>1 DEF HasContext
  <2>2. CASE fd_release_destroy(u)
    BY <2>2 DEF fd_release_destroy, fvars, tvars, HasContext, TypeOK, TypeThread,
       TypeUobj
  <2> QED
    BY <1>2, <2>1, <2>2
<1>3. ASSUME NEW c \in Cleaners, uverbs_destroy_ufile_hw(c) \/ up_write(c)
             \/ uverbs_cleanup_ufile(c) \/ cleanup_pass_end(c)
      PROVE  HasContext'
  <2>1. CASE uverbs_destroy_ufile_hw(c) \/ up_write(c)
    <3>1. UNCHANGED <<list, ucontext, pc, new>>
      BY <2>1 DEF uverbs_destroy_ufile_hw, up_write, fvars, tvars, uvars
    <3> QED
      BY <3>1 DEF HasContext
  <2>2. CASE uverbs_cleanup_ufile(c)
    BY <2>2, SMT DEF uverbs_cleanup_ufile, Next2Clean, Cleaned, fvars,
       svars, tvars, HasContext, TypeOK, TypeThread, TypeUobj, PCs, ThreadShape,
       TypeFile, SemShape
  <2>3. CASE cleanup_pass_end(c)
    <3>1. /\ \A s \in Threads : /\ ~Holding(s) /\ new[s] = Null
                                /\ pc[s] \notin {"destroy", "unlink"}
          /\ \A v \in FdUobjs : rel[v] # "held"
      BY <2>3, CleanerAlone DEF cleanup_pass_end
    <3>2. UNCHANGED <<new>>
      BY <2>3 DEF cleanup_pass_end, tvars, uvars, cvars
    <3>3. UNCHANGED <<list, ucontext>> \/ \A v \in Uobjs : list'[v] = 0
      BY <2>3 DEF cleanup_pass_end, uvars
    <3> QED
      BY <3>1, <3>2, <3>3, SMT DEF HasContext
  <2> QED
    BY <1>3, <2>1, <2>2, <2>3
<1>4. ASSUME ib_uverbs_close \/ close_put \/ ib_uverbs_remove_one
             \/ ib_uverbs_free_hw_resources \/ remove_put
      PROVE  HasContext'
  <2>1. UNCHANGED <<list, ucontext, pc, new>>
    BY <1>4 DEF ib_uverbs_close, close_put, ib_uverbs_remove_one,
       ib_uverbs_free_hw_resources, remove_put, tvars, uvars
  <2> QED
    BY <2>1 DEF HasContext
<1> QED
  BY <1>1, <1>2, <1>3, <1>4 DEF Next, FdRelease, Cleanup, Cleaners

(* The ucontext is gone once cleanup gives up hw_destroy_rwsem, and the    *)
(* file stays on the list of the device until close or removal has begun   *)
(* to clean it up.                                                         *)
LEMMA TeardownStep ==
    ASSUME IInv, Next
    PROVE  Teardown'
<1>0. TypeOK /\ SemShape /\ Gates /\ Teardown
  BY DEF IInv
<1> USE <1>0
<1> USE ConstantsAssumption
<1>1. ASSUME NEW t \in Threads, handler(t) \/ xa_load(t) \/ lookup_get_idr_uobject(t)
             \/ lookup_get_fd_uobject(t) \/ rdma_lookup_get_uobject(t)
             \/ rdma_lookup_put_uobject(t) \/ rdma_assign_uobject(t)
             \/ ib_uverbs_ioctl(t) \/ ib_uverbs_ioctl_end(t) \/ ib_init_ucontext(t)
             \/ rdma_alloc_begin_uobject(t)
      PROVE  Teardown'
  <2>1. CASE handler(t) \/ xa_load(t) \/ lookup_get_idr_uobject(t)
             \/ lookup_get_fd_uobject(t) \/ rdma_lookup_get_uobject(t)
             \/ rdma_lookup_put_uobject(t) \/ rdma_assign_uobject(t)
    <3>1. UNCHANGED <<ucontext, onlist, rsem, wsem, srcu, grace, cpc, todo, progress>>
      BY <2>1 DEF handler, xa_load, lookup_get_idr_uobject, lookup_get_fd_uobject,
         rdma_lookup_get_uobject, rdma_lookup_put_uobject, rdma_assign_uobject, cvars,
         fvars, svars
    <3> QED
      BY <3>1 DEF Teardown, Cleaners, up_write
  <2>2. CASE ib_uverbs_ioctl(t)
    BY <2>2 DEF ib_uverbs_ioctl, open, uvars, fvars, cvars,
       Teardown, Cleaners, up_write, TypeOK, TypeFile, TypeClean, SemShape, Gates
  <2>3. CASE ib_uverbs_ioctl_end(t)
    BY <2>3 DEF ib_uverbs_ioctl_end, uvars, fvars, cvars, Teardown,
       Cleaners, up_write, TypeOK, TypeFile, TypeClean, SemShape, Gates
  <2>4. CASE ib_init_ucontext(t)
    BY <2>4, SMT DEF ib_init_ucontext, CanRead, SeesDev, ibdev, uvars,
       svars, cvars, Teardown, Cleaners, up_write, TypeOK, TypeFile, TypeClean, SemShape,
       Gates
  <2>5. CASE rdma_alloc_begin_uobject(t)
    BY <2>5 DEF rdma_alloc_begin_uobject, Rereg, MayAlloc,
       alloc_begin_idr_uobject, alloc_begin_fd_uobject, ib_uverbs_get_context, Leave,
       CanRead, SeesDev, alloc_uobj, ibdev, fvars, cvars, Teardown, Cleaners, up_write,
       TypeOK, TypeFile, TypeClean, SemShape, Gates
  <2> QED
    BY <1>1, <2>1, <2>2, <2>3, <2>4, <2>5
<1>2. ASSUME NEW t \in Threads, rdma_alloc_commit_uobject(t)
             \/ rdma_alloc_abort_uobject(t) \/ uobj_destroy(t) \/ destroy_hw(t)
             \/ uverbs_destroy_uobject(t)
      PROVE  Teardown'
  <2>1. CASE rdma_alloc_commit_uobject(t)
    BY <2>1 DEF rdma_alloc_commit_uobject, Rereg, Leave, cvars,
       Teardown, Cleaners, up_write, TypeOK, TypeFile, TypeClean, SemShape, Gates
  <2>2. CASE rdma_alloc_abort_uobject(t)
    BY <2>2 DEF rdma_alloc_abort_uobject, Rereg, Leave, fvars,
       cvars, Teardown, Cleaners, up_write, TypeOK, TypeFile, TypeClean, SemShape, Gates
  <2>3. CASE uobj_destroy(t)
    BY <2>3 DEF uobj_destroy, CanRead, fvars, cvars, Teardown,
       Cleaners, up_write, TypeOK, TypeFile, TypeClean, SemShape, Gates
  <2>4. CASE destroy_hw(t)
    BY <2>4 DEF destroy_hw, fvars, cvars, Teardown, Cleaners,
       up_write, TypeOK, TypeFile, TypeClean, SemShape, Gates
  <2>5. CASE uverbs_destroy_uobject(t)
    BY <2>5 DEF uverbs_destroy_uobject, fvars, cvars, Teardown,
       Cleaners, up_write, TypeOK, TypeFile, TypeClean, SemShape, Gates
  <2> QED
    BY <1>2, <2>1, <2>2, <2>3, <2>4, <2>5
<1>3. ASSUME NEW u \in FdUobjs, fd_close(u) \/ fd_release_put(u)
             \/ uverbs_uobject_fd_release(u) \/ fd_release_destroy(u)
      PROVE  Teardown'
  <2>1. CASE fd_close(u) \/ fd_release_put(u)
    <3>1. UNCHANGED <<ucontext, onlist, rsem, wsem, srcu, grace, cpc, todo, progress>>
      BY <2>1 DEF fd_close, fd_release_put, cvars, fvars, svars
    <3> QED
      BY <3>1 DEF Teardown, Cleaners, up_write
  <2>2. CASE uverbs_uobject_fd_release(u)
    BY <2>2 DEF uverbs_uobject_fd_release, CanRead, fvars, tvars,
       cvars, Teardown, Cleaners, up_write, TypeOK, TypeFile, TypeClean, SemShape, Gates
  <2>3. CASE fd_release_destroy(u)
    BY <2>3 DEF fd_release_destroy, fvars, tvars, cvars, Teardown,
       Cleaners, up_write, TypeOK, TypeFile, TypeClean, SemShape, Gates
  <2> QED
    BY <1>3, <2>1, <2>2, <2>3
<1>4. ASSUME NEW c \in Cleaners, uverbs_destroy_ufile_hw(c) \/ uverbs_cleanup_ufile(c)
             \/ cleanup_pass_end(c) \/ up_write(c)
      PROVE  Teardown'
  <2>1. CASE uverbs_destroy_ufile_hw(c)
    BY <2>1 DEF uverbs_destroy_ufile_hw, Linked, uvars, fvars,
       tvars, Teardown, Cleaners, up_write, TypeOK, TypeFile, TypeClean, SemShape, Gates
  <2>2. CASE uverbs_cleanup_ufile(c)
    BY <2>2 DEF uverbs_cleanup_ufile, Next2Clean, Cleaned, fvars,
       svars, tvars, Teardown, Cleaners, up_write, TypeOK, TypeFile, TypeClean, SemShape,
       Gates
  <2>3. CASE cleanup_pass_end(c)
    BY <2>3, SMT DEF cleanup_pass_end, Linked, uvars, svars, tvars,
       Teardown, Cleaners, up_write, TypeOK, TypeFile, TypeClean, SemShape, Gates
  <2>4. CASE up_write(c)
    BY <2>4 DEF up_write, uvars, fvars, tvars, Teardown, Cleaners,
       TypeOK, TypeFile, TypeClean, SemShape, Gates
  <2> QED
    BY <1>4, <2>1, <2>2, <2>3, <2>4
<1>5. ASSUME ib_uverbs_close \/ close_put \/ ib_uverbs_remove_one
             \/ ib_uverbs_free_hw_resources \/ remove_put
      PROVE  Teardown'
  <2>1. CASE ib_uverbs_close
    BY <2>1 DEF ib_uverbs_close, open, uvars, svars, tvars,
       Teardown, Cleaners, up_write, TypeOK, TypeFile, TypeClean, SemShape, Gates
  <2>2. CASE close_put
    BY <2>2 DEF close_put, release_ufile, svars, tvars, Teardown,
       Cleaners, up_write, TypeOK, TypeFile, TypeClean, SemShape, Gates
  <2>3. CASE ib_uverbs_remove_one
    BY <2>3 DEF ib_uverbs_remove_one, uvars, tvars, Teardown,
       Cleaners, up_write, TypeOK, TypeFile, TypeClean, SemShape, Gates
  <2>4. CASE ib_uverbs_free_hw_resources
    BY <2>4 DEF ib_uverbs_free_hw_resources, uvars, svars, tvars,
       Teardown, Cleaners, up_write, TypeOK, TypeFile, TypeClean, SemShape, Gates
  <2>5. CASE remove_put
    BY <2>5 DEF remove_put, release_ufile, svars, tvars, Teardown,
       Cleaners, up_write, TypeOK, TypeFile, TypeClean, SemShape, Gates
  <2> QED
    BY <1>5, <2>1, <2>2, <2>3, <2>4, <2>5
<1> QED
  BY <1>1, <1>2, <1>3, <1>4, <1>5 DEF Next, Command, FdRelease, Cleanup, Cleaners

(* IInv holds when ib_uverbs_open returns. *)
LEMMA InitIInv == Init => IInv
<1> SUFFICES ASSUME Init
             PROVE  IInv
  OBVIOUS
<1> USE ConstantsAssumption DEF Init
<1>1. TypeUobj /\ TypeLock /\ TypeThread
  BY SMT DEF TypeUobj, TypeLock, TypeThread, PCs, Modes
<1>2. TypeFile /\ TypeClean
  <2>1. fref \in Int /\ todo \in SUBSET Uobjs
    BY SMT
  <2>2. ucontext \in BOOLEAN /\ onlist \in BOOLEAN /\ progress \in BOOLEAN
    OBVIOUS
  <2>3. cpc \in [Cleaners -> {"idle", "sync", "down_write", "pass", "up_write", "put", "done"}]
    OBVIOUS
  <2> QED
    BY <2>1, <2>2, <2>3 DEF TypeFile, TypeClean
<1>3. ThreadShape /\ SemShape /\ Gates
  BY DEF ThreadShape, SemShape, Gates, Rereg, Holding, Cleaners
<1>4. Publication
  BY DEF Publication
<1>5. Owned
  BY DEF Owned, OldObject, ObjectOwned
<1>6. HasContext
  BY DEF HasContext
<1>7. Teardown
  BY DEF Teardown, Cleaners
<1> QED
  BY <1>1, <1>2, <1>3, <1>4, <1>5, <1>6, <1>7 DEF IInv, TypeOK

(* Every step preserves IInv. *)
LEMMA NextIInv ==
    ASSUME IInv, Next
    PROVE  IInv'
<1>1. TypeOK'
  BY TypeUobjStep, TypeFileStep, TypeLockStep, TypeThreadStep, TypeCleanStep DEF TypeOK
<1>2. Owned'
  BY OldObjectStep, ObjectOwnedStep DEF Owned
<1> QED
  BY <1>1, <1>2, ThreadShapeStep, SemShapeStep, GatesStep, PublicationStep, HasContextStep,
     TeardownStep DEF IInv

(* IInv depends on the variables only. *)
LEMMA StutterIInv ==
    ASSUME IInv, UNCHANGED vars
    PROVE  IInv'
<1>1. UNCHANGED <<born, ref, usecnt, object, list, head, id, idr, filp, fd, rel, ucontext,
    fref, onlist, rsem, wsem, srcu, grace, pc, cur, new, mode, cpc, todo, progress>>
  BY DEF vars, uvars, fvars, svars, tvars, cvars
<1>0. /\ TypeOK /\ ThreadShape /\ SemShape /\ Gates /\ Publication /\ Owned /\ HasContext
      /\ Teardown
  BY DEF IInv
<1>2. TypeOK'
  BY <1>0, <1>1 DEF TypeOK, TypeUobj, TypeLock, TypeThread, TypeFile, TypeClean
<1>3. ThreadShape' /\ SemShape'
  BY <1>0, <1>1 DEF ThreadShape, SemShape, Rereg
<1>4. Gates' /\ Publication'
  BY <1>0, <1>1 DEF Gates, Publication, Holding
<1>5. Owned' /\ HasContext' /\ Teardown'
  BY <1>0, <1>1 DEF Owned, OldObject, ObjectOwned, HasContext, Teardown
<1> QED
  BY <1>2, <1>3, <1>4, <1>5 DEF IInv

(* Without a ucontext and a creating command there is no HW object. *)
LEMMA NoContextNoHw ==
    ASSUME IInv, ~ucontext, \A t \in Threads : new[t] = Null
    PROVE  object = {}
<1>1. \A u \in Uobjs : list[u] = 0
  BY DEF IInv, HasContext
<1>2. \A u \in object : u \in Uobjs
  BY DEF IInv, TypeOK, TypeUobj
<1> QED
  BY <1>1, <1>2, ConstantsAssumption, SMT DEF IInv, Owned, ObjectOwned

----------------------------------------------------------------------------
(* Which uobjects can be found, and which of them have their HW object. *)

(* A uobject stays where it is found when its id and that entry stay.      *)
LEMMA AtIndexSame ==
    ASSUME NEW u, AtIndex(u), id'[u] = id[u], idr'[id[u]] = idr[id[u]]
    PROVE  AtIndex(u)'
  BY DEF AtIndex

(* Indices holds on when idr and id stay and no uobject comes in reach.    *)
LEMMA IndicesSame ==
    ASSUME Indices, idr' = idr, id' = id,
           \A t \in Threads : new'[t] \in IdrUobjs => new'[t] = new[t],
           \A u \in IdrUobjs : Kept(u)' \/ list'[u] # 0 => Kept(u) \/ list[u] # 0 \/ AtIndex(u)
    PROVE  Indices'
<1>1. \A u \in IdrUobjs : Kept(u)' \/ list'[u] # 0 => AtIndex(u)'
  BY AtIndexSame DEF Indices
<1>2. \A h \in Handles : idr'[h] \in Uobjs => id'[idr'[h]] = h
  BY DEF Indices
<1>3. /\ \A t \in Threads : new'[t] \in IdrUobjs => id'[new'[t]] \in Handles /\ idr'[id'[new'[t]]] = Null
      /\ \A s, t \in Threads : s # t /\ new'[s] \in IdrUobjs /\ new'[t] \in IdrUobjs
            => id'[new'[s]] # id'[new'[t]]
  BY SMT DEF Indices
<1>4. IdrUobjs' = IdrUobjs
  BY DEF IdrUobjs
<1> QED
  BY <1>1, <1>2, <1>3, <1>4 DEF Indices

(* A command that changes neither usecnt nor what it has looked up. *)
LEMMA KeptSame ==
    ASSUME usecnt' = usecnt, cur' = cur, NEW u, \A t \in Threads : Owns(t, u)' => Owns(t, u)
    PROVE  Kept(u)' => Kept(u)
  BY DEF Kept

(* Commands that do not write ufile->idr: a lookup finds an indexed        *)
(* uobject.                                                                *)
LEMMA IndicesQuietSteps ==
    ASSUME IInv, LockInv, Indices, NEW t \in Threads,
           \/ ib_uverbs_ioctl(t) \/ ib_uverbs_ioctl_end(t) \/ ib_init_ucontext(t) \/ handler(t)
           \/ xa_load(t) \/ lookup_get_idr_uobject(t) \/ lookup_get_fd_uobject(t)
    PROVE  Indices'
<1>0. TypeThread /\ ThreadShape /\ Publication
  BY DEF IInv, TypeOK
<1>1. OthersSame(t)
  BY OthersStay DEF Command, IInv
<1>2. UNCHANGED <<idr, id, new, list, usecnt>>
  BY DEF ib_uverbs_ioctl, ib_uverbs_ioctl_end, ib_init_ucontext, handler, xa_load,
     lookup_get_idr_uobject, lookup_get_fd_uobject, uvars
<1>3. ASSUME NEW u \in IdrUobjs, Kept(u)' PROVE Kept(u) \/ AtIndex(u)
  <2>s. PICK s \in Threads : cur'[s] = u /\ (usecnt[u] # -1 \/ Owns(s, u)')
    BY <1>2, <1>3 DEF Kept
  <2>u. u # Null /\ u \in Uobjs /\ u \notin FdUobjs
    BY ConstantsAssumption DEF IdrUobjs
  <2>1. CASE s # t
    BY <1>1, <2>1, <2>s, OthersGrip DEF Kept, OthersSame
  <2>2. CASE s = t
    <3>1. CASE ib_uverbs_ioctl(t) \/ ib_uverbs_ioctl_end(t) \/ ib_init_ucontext(t)
      <4>1. cur' = cur /\ cur[t] = Null
        BY <1>0, <3>1 DEF ib_uverbs_ioctl, ib_uverbs_ioctl_end, ib_init_ucontext, ThreadShape
      <4> QED
        BY <2>2, <2>s, <2>u, <4>1
    <3>2. CASE handler(t)
      <4>1. UNCHANGED <<cur, new, mode>> /\ pc[t] = "new" /\ pc'[t] \in {"created", "abort"}
        BY <1>0, <3>2 DEF handler, TypeThread
      <4>2. Owns(t, u)' => Owns(t, u)
        BY <4>1 DEF Owns, Holding
      <4> QED
        BY <2>2, <2>s, <4>1, <4>2 DEF Kept
    <3>3. CASE xa_load(t)
      <4>1. \E h \in Handles : idr[h] \in Uobjs /\ cur'[t] = idr[h]
        BY <1>0, <3>3 DEF xa_load, TypeThread
      <4> QED
        BY <2>2, <2>s, <4>1 DEF Indices, AtIndex
    <3>4. CASE lookup_get_idr_uobject(t)
      <4>1. (pc'[t] = "got" /\ cur' = cur) \/ cur'[t] = Null
        BY <1>0, <3>4 DEF lookup_get_idr_uobject, TypeThread
      <4>2. pc[t] = "rcu" /\ new[t] = Null
        BY <1>0, <3>4 DEF lookup_get_idr_uobject, ThreadShape
      <4>3. ~Owns(t, u)'
        BY <1>2, <2>u, <4>1, <4>2 DEF Owns, Holding
      <4> QED
        BY <2>2, <2>s, <2>u, <4>1, <4>3 DEF Kept
    <3>5. CASE lookup_get_fd_uobject(t)
      <4>1. cur'[t] \in FdUobjs
        BY <1>0, <3>5 DEF lookup_get_fd_uobject, TypeThread
      <4> QED
        BY <2>2, <2>s, <2>u, <4>1
    <3> QED
      BY <3>1, <3>2, <3>3, <3>4, <3>5
  <2> QED
    BY <2>1, <2>2
<1> QED
  BY <1>2, <1>3, IndicesSame

(* Steps on a uobject that was looked up. *)
LEMMA IndicesLookupSteps ==
    ASSUME IInv, LockInv, Indices, NEW t \in Threads,
           \/ rdma_lookup_get_uobject(t) \/ rdma_lookup_put_uobject(t)
           \/ uobj_destroy(t) \/ destroy_hw(t)
    PROVE  Indices'
<1>0. TypeThread /\ TypeUobj /\ ThreadShape /\ UsecntIsALock
  BY DEF IInv, TypeOK, LockInv
<1>1. OthersSame(t)
  BY OthersStay DEF Command, IInv
<1>2. UNCHANGED <<idr, id, new, list, mode>> /\ pc[t] \in {"got", "locked", "put", "destroy"}
  BY LookupGet DEF rdma_lookup_get_uobject, rdma_lookup_put_uobject, uobj_destroy, destroy_hw
<1>v. PICK v \in Uobjs : v = cur[t]
  BY <1>0, <1>2 DEF TypeThread, ThreadShape
<1>3. /\ cur'[t] \in {v, Null} /\ \A u \in Uobjs : u # v => usecnt'[u] = usecnt[u]
      /\ usecnt'[v] # usecnt[v] => usecnt[v] # -1 \/ Owns(t, v)
      /\ cur'[t] = v /\ Owns(t, v)' => usecnt[v] # -1 \/ Owns(t, v)
  <2>1. CASE rdma_lookup_get_uobject(t)
    <3>1. CASE Refused(t)
      BY <1>0, <3>1, ConstantsAssumption DEF Refused, lookup_put, TypeThread
    <3>2. CASE Granted(t)
      <4>1. pc[t] = "got"
        BY <2>1, LookupGet
      <4>2. usecnt[v] # -1
        BY <3>2, <4>1, <1>v, GrantedMeans
      <4> QED
        BY <1>0, <1>v, <3>2, <4>2 DEF Granted, TypeUobj
    <3> QED
      BY <2>1, <3>1, <3>2, LookupGet
  <2>2. CASE rdma_lookup_put_uobject(t)
    <3>1. /\ cur'[t] = Null /\ usecnt' = [usecnt EXCEPT ![v] = Unlock(v, mode[t])]
          /\ pc[t] \in {"locked", "put"}
      BY <1>0, <1>v, <2>2 DEF rdma_lookup_put_uobject, lookup_put, TypeThread
    <3>2. mode[t] \in {"READ", "WRITE", "DESTROY"} /\ v # Null /\ usecnt[v] \in Int
      BY <1>0, ConstantsAssumption DEF TypeThread, Modes, TypeUobj
    <3>3. CASE mode[t] = "READ"
      <4>1. t \in Readers(v)
        BY <1>v, <3>1, <3>2, <3>3 DEF Readers, Holding
      <4>2. usecnt[v] # -1
        BY <1>0, <4>1 DEF UsecntIsALock
      <4> QED
        BY <1>0, <3>1, <3>2, <4>2 DEF TypeUobj
    <3>4. CASE mode[t] = "WRITE"
      <4>1. Owns(t, v)
        BY <1>v, <3>1, <3>2, <3>4 DEF Owns, Holding
      <4> QED
        BY <1>0, <3>1, <3>2, <4>1 DEF TypeUobj
    <3>5. CASE mode[t] = "DESTROY"
      BY <1>0, <3>1, <3>2, <3>5 DEF TypeUobj, Unlock
    <3> QED
      BY <3>2, <3>3, <3>4, <3>5
  <2>3. CASE uobj_destroy(t)
    <3>1. cur' = cur /\ pc[t] = "got" /\ mode[t] = "DESTROY" /\ new[t] = Null
      BY <1>0, <2>3 DEF uobj_destroy, ThreadShape
    <3>2. \/ usecnt[v] = 0 /\ usecnt' = [usecnt EXCEPT ![v] = -1]
          \/ usecnt' = usecnt /\ pc'[t] = "put"
      BY <1>0, <1>v, <2>3 DEF uobj_destroy, CanLock, TypeThread
    <3>3. CASE usecnt[v] = 0 /\ usecnt' = [usecnt EXCEPT ![v] = -1]
      BY <1>0, <1>v, <3>1, <3>3, SMT DEF TypeUobj
    <3>4. CASE usecnt' = usecnt /\ pc'[t] = "put"
      <4>1. ~Owns(t, v)'
        BY <1>2, <3>1, <3>4, ConstantsAssumption DEF Owns, Holding
      <4> QED
        BY <1>v, <3>1, <3>4, <4>1
    <3> QED
      BY <3>2, <3>3, <3>4
  <2>4. CASE destroy_hw(t)
    <3>1. /\ cur' = cur /\ Owns(t, v)
          /\ usecnt' = usecnt \/ usecnt' = [usecnt EXCEPT ![v] = 0]
      BY <1>v, <2>4 DEF destroy_hw, Owns
    <3> QED
      BY <1>0, <1>v, <3>1 DEF TypeUobj
  <2> QED
    BY <2>1, <2>2, <2>3, <2>4
<1>4. ASSUME NEW u \in IdrUobjs, Kept(u)' PROVE Kept(u)
  <2>u. u # Null /\ u \in Uobjs
    BY ConstantsAssumption DEF IdrUobjs
  <2>s. PICK s \in Threads : cur'[s] = u /\ (usecnt'[u] # -1 \/ Owns(s, u)')
    BY <1>4 DEF Kept
  <2>1. CASE u # v
    <3>1. s # t /\ usecnt'[u] = usecnt[u]
      BY <1>3, <2>1, <2>u, <2>s
    <3> QED
      BY <1>1, <2>s, <3>1, OthersGrip DEF Kept, OthersSame
  <2>2. CASE u = v /\ usecnt'[v] # usecnt[v]
    BY <1>3, <1>v, <2>2 DEF Kept
  <2>3. CASE u = v /\ usecnt'[v] = usecnt[v]
    <3>1. CASE s = t
      BY <1>3, <1>v, <2>3, <2>s, <3>1 DEF Kept
    <3>2. CASE s # t
      BY <1>1, <2>3, <2>s, <3>2, OthersGrip DEF Kept, OthersSame
    <3> QED
      BY <3>1, <3>2
  <2> QED
    BY <2>1, <2>2, <2>3
<1> QED
  BY <1>2, <1>4, IndicesSame

(* alloc_begin_idr_uobject reserves an index that nobody has. *)
LEMMA IndicesAllocStep ==
    ASSUME IInv, LockInv, Indices, NEW t \in Threads, rdma_alloc_begin_uobject(t)
    PROVE  Indices'
<1>0. TypeThread /\ TypeUobj /\ ThreadShape /\ Publication /\ Indices
  BY DEF IInv, TypeOK
<1>1. OthersSame(t)
  BY OthersStay DEF Command, IInv
<1>2. UNCHANGED <<list, cur, mode>> /\ pc[t] \in {"cmd", "locked"} /\ new[t] = Null
  BY <1>0, AllocBegin DEF ThreadShape
<1>3. pc'[t] \in {"put", "exit", "new", "context"}
  BY <1>0, AllocBegin, SMT DEF AllocNone, AllocIdr, AllocFd, alloc_begin_fd_uobject,
     alloc_begin_idr_uobject, alloc_uobj, TypeThread, Leave
<1>4. ASSUME NEW s \in Threads, NEW u, cur[s] = u, Owns(s, u)' PROVE Owns(s, u) \/ new'[s] = u
  <2>1. CASE s # t
    BY <1>1, <1>4, <2>1, OthersGrip
  <2>2. CASE s = t
    BY <1>2, <1>3, <1>4, <2>2 DEF Owns, Holding
  <2> QED
    BY <2>1, <2>2
<1>5. CASE AllocNone(t)
  <2>1. UNCHANGED <<idr, id, new, usecnt>>
    BY <1>5 DEF AllocNone
  <2>2. \A u \in IdrUobjs : Kept(u)' => Kept(u)
    BY <1>2, <1>4, <2>1 DEF Kept, Owns
  <2> QED
    BY <1>2, <2>1, <2>2, IndicesSame
<1>6. ASSUME NEW v \in Uobjs, v \notin born, usecnt' = [usecnt EXCEPT ![v] = -1],
             new' = [new EXCEPT ![t] = v]
      PROVE  /\ \A u \in IdrUobjs : Kept(u)' => Kept(u) /\ u # v
             /\ \A s \in Threads \ {t} : new'[s] = new[s] /\ new[s] # v
             /\ new'[t] = v /\ \A h \in Handles : idr[h] # v
             /\ list[v] = 0
  <2>1. \A s \in Threads : cur[s] # v /\ new[s] # v
    <3>1. v # Null
      BY <1>6, ConstantsAssumption
    <3>2. \A s \in Threads : /\ cur[s] # Null => cur[s] \in born
                             /\ new[s] # Null => new[s] \in born
      BY <1>0 DEF Publication
    <3> QED
      BY <1>6, <3>1, <3>2
  <2>2. \A s \in Threads \ {t} : new'[s] = new[s]
    BY <1>1 DEF OthersSame
  <2>3. new'[t] = v
    BY <1>0, <1>6 DEF TypeThread
  <2>4. ASSUME NEW u \in IdrUobjs, Kept(u)' PROVE Kept(u) /\ u # v
    <3>s. PICK s \in Threads : cur[s] = u /\ (usecnt'[u] # -1 \/ Owns(s, u)')
      BY <1>2, <2>4 DEF Kept
    <3>1. u # v /\ u \in Uobjs
      BY <2>1, <3>s DEF IdrUobjs
    <3>2. usecnt'[u] = usecnt[u]
      BY <1>0, <1>6, <3>1 DEF TypeUobj
    <3>3. Owns(s, u)' => Owns(s, u)
      BY <1>1, <1>4, <2>2, <2>3, <3>1, <3>s DEF Owns
    <3> QED
      BY <3>s, <3>1, <3>2, <3>3 DEF Kept
  <2> QED
    BY <1>0, <1>6, <2>1, <2>2, <2>3, <2>4 DEF Publication
<1>7. ASSUME NEW v \in Uobjs, AllocFd(t, v) PROVE Indices'
  <2>1. /\ v \notin born /\ v \in FdUobjs /\ UNCHANGED <<idr, id>>
        /\ usecnt' = [usecnt EXCEPT ![v] = -1] /\ new' = [new EXCEPT ![t] = v]
    BY <1>7 DEF AllocFd, alloc_begin_fd_uobject, alloc_uobj
  <2>2. \A s \in Threads : new'[s] \in IdrUobjs => new'[s] = new[s]
    <3>1. v \notin IdrUobjs
      BY <2>1 DEF IdrUobjs
    <3>2. new'[t] = v /\ \A s \in Threads \ {t} : new'[s] = new[s]
      BY <1>6, <2>1
    <3> QED
      BY <3>1, <3>2
  <2> QED
    BY <1>2, <1>6, <2>1, <2>2, IndicesSame
<1>8. ASSUME NEW v \in Uobjs, NEW h \in Handles, AllocIdr(t, v, h) PROVE Indices'
  <2>1. /\ v \notin born /\ v \in IdrUobjs /\ idr[h] = Free
        /\ idr' = [idr EXCEPT ![h] = Null] /\ id' = [id EXCEPT ![v] = h]
        /\ usecnt' = [usecnt EXCEPT ![v] = -1] /\ new' = [new EXCEPT ![t] = v]
    BY <1>8 DEF AllocIdr, alloc_begin_idr_uobject, alloc_uobj
  <2>2. /\ idr'[h] = Null /\ \A g \in Handles : g # h => idr'[g] = idr[g]
        /\ id'[v] = h /\ \A u \in Uobjs : u # v => id'[u] = id[u]
    BY <1>0, <2>1 DEF TypeUobj
  <2>3. /\ \A u \in IdrUobjs : Kept(u)' => Kept(u) /\ u # v
        /\ \A s \in Threads \ {t} : new'[s] = new[s] /\ new[s] # v
        /\ new'[t] = v /\ (\A g \in Handles : idr[g] # v) /\ list[v] = 0
    BY <1>6, <2>1
  <2>c. Null \notin Uobjs /\ Free \notin Uobjs /\ Free # Null
    BY ConstantsAssumption
  <2>4. \A g \in Handles : idr'[g] \in Uobjs => id'[idr'[g]] = g
    <3> SUFFICES ASSUME NEW g \in Handles, idr'[g] \in Uobjs PROVE id'[idr'[g]] = g
      OBVIOUS
    <3>1. g # h /\ idr'[g] = idr[g]
      BY <2>2, <2>c
    <3>2. idr[g] # v /\ idr[g] \in Uobjs
      BY <2>3, <3>1
    <3>3. id[idr[g]] = g
      BY <1>0, <3>2 DEF Indices
    <3> QED
      BY <2>2, <3>1, <3>2, <3>3
  <2>5. \A s \in Threads \ {t} : new'[s] \in IdrUobjs
           => id'[new'[s]] = id[new[s]] /\ id[new[s]] \in Handles /\ id[new[s]] # h /\ idr'[id[new[s]]] = Null
    <3> SUFFICES ASSUME NEW s \in Threads \ {t}, new'[s] \in IdrUobjs
                 PROVE  /\ id'[new'[s]] = id[new[s]] /\ id[new[s]] \in Handles
                        /\ id[new[s]] # h /\ idr'[id[new[s]]] = Null
      OBVIOUS
    <3>1. new'[s] = new[s] /\ new[s] # v /\ new[s] \in Uobjs
      BY <2>3 DEF IdrUobjs
    <3>2. id[new[s]] \in Handles /\ idr[id[new[s]]] = Null
      BY <1>0, <3>1 DEF Indices
    <3>3. id[new[s]] # h
      BY <2>1, <2>c, <3>2
    <3> QED
      BY <2>2, <3>1, <3>2, <3>3
  <2>6. \A s \in Threads : new'[s] \in IdrUobjs => id'[new'[s]] \in Handles /\ idr'[id'[new'[s]]] = Null
    <3> SUFFICES ASSUME NEW s \in Threads, new'[s] \in IdrUobjs
                 PROVE  id'[new'[s]] \in Handles /\ idr'[id'[new'[s]]] = Null
      OBVIOUS
    <3>1. CASE s = t
      BY <2>2, <2>3, <3>1
    <3>2. CASE s # t
      BY <2>5, <3>2
    <3> QED
      BY <3>1, <3>2
  <2>7. \A r, s \in Threads : r # s /\ new'[r] \in IdrUobjs /\ new'[s] \in IdrUobjs
            => id'[new'[r]] # id'[new'[s]]
    <3> SUFFICES ASSUME NEW r \in Threads, NEW s \in Threads, r # s,
                        new'[r] \in IdrUobjs, new'[s] \in IdrUobjs
                 PROVE  id'[new'[r]] # id'[new'[s]]
      OBVIOUS
    <3>1. CASE r = t
      BY <2>2, <2>3, <2>5, <3>1
    <3>2. CASE s = t
      BY <2>2, <2>3, <2>5, <3>2
    <3>3. CASE r # t /\ s # t
      <4>1. new'[r] = new[r] /\ new'[s] = new[s]
        BY <2>3, <3>3
      <4>2. id[new[r]] # id[new[s]]
        BY <1>0, <4>1 DEF Indices
      <4> QED
        BY <2>5, <3>3, <4>2
    <3> QED
      BY <3>1, <3>2, <3>3
  <2>8. ASSUME NEW u \in IdrUobjs, Kept(u)' \/ list'[u] # 0 PROVE AtIndex(u)'
    <3>1. u # v /\ AtIndex(u) /\ u \in Uobjs
      BY <1>0, <1>2, <2>3, <2>8 DEF Indices, IdrUobjs
    <3>2. id[u] \in Handles /\ id[u] # h
      BY <2>1, <2>c, <3>1 DEF AtIndex
    <3> QED
      BY <2>2, <3>1, <3>2, AtIndexSame
  <2> QED
    BY <2>4, <2>6, <2>7, <2>8 DEF Indices, IdrUobjs
<1> QED
  BY <1>5, <1>7, <1>8, AllocBegin

(* Commit stores the uobject at the index it reserved, abort frees the     *)
(* index.                                                                  *)
LEMMA IndicesEndStep ==
    ASSUME IInv, LockInv, Indices, NEW t \in Threads,
           rdma_alloc_commit_uobject(t) \/ rdma_alloc_abort_uobject(t)
    PROVE  Indices'
<1>0. TypeThread /\ TypeUobj /\ ThreadShape /\ Publication /\ Indices
  BY DEF IInv, TypeOK
<1>1. OthersSame(t)
  BY OthersStay DEF Command, IInv
<1>2. /\ UNCHANGED <<cur, mode, id>> /\ pc[t] \in {"created", "commit", "abort"}
      /\ pc'[t] \in {"put", "exit"} /\ new[t] \in Uobjs /\ new' = [new EXCEPT ![t] = Null]
      /\ usecnt' = [usecnt EXCEPT ![new[t]] = 0]
  BY <1>0 DEF rdma_alloc_commit_uobject, rdma_alloc_abort_uobject, TypeThread, Leave, ThreadShape
<1>v. PICK v \in Uobjs : v = new[t]
  BY <1>2
<1>c. Null \notin Uobjs /\ Free \notin Uobjs /\ Free # Null
  BY ConstantsAssumption
<1>3. /\ list[v] = 0 /\ (\A s \in Threads : cur[s] # v /\ (s # t => new[s] # v))
      /\ \A h \in Handles : idr[h] # v
  BY <1>0, <1>2, <1>v, <1>c DEF Publication
<1>4. new'[t] = Null /\ \A s \in Threads : s # t => new'[s] = new[s]
  BY <1>0, <1>2 DEF TypeThread
<1>5. ASSUME NEW u \in IdrUobjs, Kept(u)' PROVE Kept(u) /\ u # v
  <2>s. PICK s \in Threads : cur[s] = u /\ (usecnt'[u] # -1 \/ Owns(s, u)')
    BY <1>2, <1>5 DEF Kept
  <2>1. u # v /\ u \in Uobjs
    BY <1>3, <2>s DEF IdrUobjs
  <2>2. usecnt'[u] = usecnt[u]
    BY <1>0, <1>2, <1>v, <2>1 DEF TypeUobj
  <2>3. Owns(s, u)' => Owns(s, u)
    <3>1. CASE s = t
      BY <1>c, <1>2, <1>4, <2>1, <3>1 DEF Owns, Holding
    <3>2. CASE s # t
      BY <1>1, <3>2, OthersGrip
    <3> QED
      BY <3>1, <3>2
  <2> QED
    BY <2>s, <2>1, <2>2, <2>3 DEF Kept
<1>6. CASE v \in FdUobjs
  <2>1. idr' = idr /\ \A u \in IdrUobjs : list'[u] = list[u]
    BY <1>0, <1>v, <1>6 DEF rdma_alloc_commit_uobject, rdma_alloc_abort_uobject, IdrUobjs, TypeUobj
  <2> QED
    BY <1>2, <1>4, <1>5, <1>c, <2>1, IndicesSame DEF IdrUobjs
<1>7. CASE v \in IdrUobjs
  <2> DEFINE h == id[v]
  <2>1. h \in Handles /\ idr[h] = Null /\ h' = h
    BY <1>0, <1>2, <1>v, <1>7 DEF Indices
  <2>2. \A s \in Threads : s # t /\ new[s] \in IdrUobjs => id[new[s]] # h
    BY <1>0, <1>v, <1>7 DEF Indices
  <2>3. /\ idr'[h] \in {v, Free} /\ \A g \in Handles : g # h => idr'[g] = idr[g]
    <3>1. \E x \in {v, Free} : idr' = [idr EXCEPT ![h] = x]
      BY <1>v, <1>7 DEF rdma_alloc_commit_uobject, rdma_alloc_abort_uobject, IdrUobjs
    <3> QED
      BY <1>0, <2>1, <3>1 DEF TypeUobj
  <2>4. \A g \in Handles : idr'[g] \in Uobjs => id'[idr'[g]] = g
    <3> SUFFICES ASSUME NEW g \in Handles, idr'[g] \in Uobjs PROVE id'[idr'[g]] = g
      OBVIOUS
    <3>1. CASE g = h
      BY <1>2, <1>c, <2>3, <3>1
    <3>2. CASE g # h
      BY <1>0, <1>2, <2>3, <3>2 DEF Indices
    <3> QED
      BY <3>1, <3>2
  <2>5. \A s \in Threads : new'[s] \in IdrUobjs
           => s # t /\ id'[new'[s]] = id[new[s]] /\ id[new[s]] \in Handles /\ idr'[id[new[s]]] = Null
    <3> SUFFICES ASSUME NEW s \in Threads, new'[s] \in IdrUobjs
                 PROVE  /\ s # t /\ id'[new'[s]] = id[new[s]] /\ id[new[s]] \in Handles
                        /\ idr'[id[new[s]]] = Null
      OBVIOUS
    <3>1. s # t /\ new'[s] = new[s]
      BY <1>4, <1>c DEF IdrUobjs
    <3>2. id[new[s]] \in Handles /\ idr[id[new[s]]] = Null /\ id[new[s]] # h
      BY <1>0, <2>2, <3>1 DEF Indices
    <3> QED
      BY <1>2, <2>3, <3>1, <3>2
  <2>6. \A r, s \in Threads : r # s /\ new'[r] \in IdrUobjs /\ new'[s] \in IdrUobjs
            => id'[new'[r]] # id'[new'[s]]
    <3> SUFFICES ASSUME NEW r \in Threads, NEW s \in Threads, r # s,
                        new'[r] \in IdrUobjs, new'[s] \in IdrUobjs
                 PROVE  id'[new'[r]] # id'[new'[s]]
      OBVIOUS
    <3>1. /\ new'[r] = new[r] /\ id'[new'[r]] = id[new[r]]
          /\ new'[s] = new[s] /\ id'[new'[s]] = id[new[s]]
      BY <1>4, <2>5
    <3>2. id[new[r]] # id[new[s]]
      BY <1>0, <3>1 DEF Indices
    <3> QED
      BY <3>1, <3>2
  <2>7. ASSUME NEW u \in IdrUobjs, Kept(u)' \/ list'[u] # 0 PROVE AtIndex(u)'
    <3>1. CASE u # v
      <4>1. list'[u] = list[u]
        BY <1>0, <1>v, <3>1 DEF rdma_alloc_commit_uobject, rdma_alloc_abort_uobject, IdrUobjs, TypeUobj
      <4>2. AtIndex(u)
        BY <1>0, <1>5, <2>7, <4>1 DEF Indices
      <4>3. id[u] \in Handles /\ id[u] # h
        BY <1>c, <2>1, <4>2 DEF AtIndex, IdrUobjs
      <4> QED
        BY <1>2, <2>3, <4>2, <4>3, AtIndexSame
    <3>2. CASE u = v
      <4>1. list'[v] # 0
        BY <1>5, <2>7, <3>2
      <4>2. rdma_alloc_commit_uobject(t)
        BY <1>3, <4>1 DEF rdma_alloc_abort_uobject
      <4>3. idr'[h] = v
        BY <1>0, <1>v, <1>7, <2>1, <4>2 DEF rdma_alloc_commit_uobject, IdrUobjs, TypeUobj
      <4> QED
        BY <1>2, <2>1, <3>2, <4>3 DEF AtIndex
    <3> QED
      BY <3>1, <3>2
  <2> QED
    BY <2>4, <2>5, <2>6, <2>7 DEF Indices, IdrUobjs
<1> QED
  BY <1>6, <1>7 DEF IdrUobjs

(* swap_idr_uobjects: the uobject that is kept is found at the new index,  *)
(* the new uobject has reserved the old one.                               *)
LEMMA IndicesAssignStep ==
    ASSUME IInv, LockInv, Indices, NEW t \in Threads, rdma_assign_uobject(t)
    PROVE  Indices'
<1>0. TypeThread /\ TypeUobj /\ ThreadShape /\ Publication /\ Indices
  BY DEF IInv, TypeOK
<1>c. Null \notin Uobjs /\ Free \notin Uobjs /\ Free # Null
  BY ConstantsAssumption
<1>1. OthersSame(t)
  BY OthersStay DEF Command, IInv
<1>2. /\ pc[t] = "created" /\ cur[t] # Null /\ mode[t] = "WRITE" /\ new[t] # Null
      /\ UNCHANGED <<list, usecnt, cur, new>>
  BY <1>0 DEF rdma_assign_uobject, Rereg, ThreadShape
<1>v. PICK v \in IdrUobjs : v = cur[t]
  BY <1>0, <1>2 DEF ThreadShape, TypeThread, IdrUobjs
<1>n. PICK n \in IdrUobjs : n = new[t]
  BY <1>0, <1>2 DEF ThreadShape, Rereg
<1>3. Owns(t, v)
  BY <1>2, <1>v DEF Owns, Holding
<1>a. PICK a \in Handles : a = id[v] /\ idr[a] = v
  BY <1>0, <1>3, <1>v DEF Indices, Kept, AtIndex
<1>b. PICK b \in Handles : b = id[n] /\ idr[b] = Null
  BY <1>0, <1>n DEF Indices
<1>4. v \in Uobjs /\ n \in Uobjs /\ v # n /\ a # b
  BY <1>0, <1>2, <1>v, <1>n, <1>a, <1>b, <1>c DEF Publication, IdrUobjs
<1>5. idr' = [idr EXCEPT ![a] = Null, ![b] = v] /\ id' = [id EXCEPT ![v] = b, ![n] = a]
  BY <1>v, <1>n, <1>a, <1>b DEF rdma_assign_uobject
<1>6. /\ idr'[a] = Null /\ idr'[b] = v /\ \A g \in Handles : g # a /\ g # b => idr'[g] = idr[g]
      /\ id'[v] = b /\ id'[n] = a /\ \A u \in Uobjs : u # v /\ u # n => id'[u] = id[u]
  BY <1>0, <1>4, <1>5 DEF TypeUobj
<1>m. \A g \in Handles : idr[g] # n
  BY <1>0, <1>2, <1>n DEF Publication
<1>7. \A g \in Handles : idr'[g] \in Uobjs => id'[idr'[g]] = g
  <2>1. \A g \in Handles : idr[g] = v => g = a
    BY <1>0, <1>4, <1>a DEF Indices
  <2> QED
    <3> SUFFICES ASSUME NEW g \in Handles, idr'[g] \in Uobjs PROVE id'[idr'[g]] = g
      OBVIOUS
    <3>1. CASE g = b
      BY <1>6, <3>1
    <3>2. CASE g # b
      <4>1. g # a /\ idr'[g] = idr[g] /\ idr[g] # v /\ idr[g] # n
        BY <1>6, <1>c, <1>m, <2>1, <3>2
      <4>2. id[idr[g]] = g
        BY <1>0, <4>1 DEF Indices
      <4> QED
        BY <1>6, <4>1, <4>2
    <3> QED
      BY <3>1, <3>2
<1>8. ASSUME NEW s \in Threads, s # t, new[s] \in IdrUobjs
      PROVE  /\ id'[new[s]] = id[new[s]] /\ id[new[s]] \in Handles /\ idr'[id[new[s]]] = Null
             /\ id[new[s]] # a
  <2>1. new[s] \in Uobjs /\ new[s] # v /\ new[s] # n
    BY <1>0, <1>2, <1>8, <1>c, <1>v, <1>n DEF Publication, IdrUobjs
  <2>2. id[new[s]] \in Handles /\ idr[id[new[s]]] = Null /\ id[new[s]] # b
    BY <1>0, <1>8, <1>n, <1>b DEF Indices
  <2> QED
    BY <1>4, <1>6, <1>a, <1>c, <2>1, <2>2
<1>9. ASSUME NEW u \in IdrUobjs, Kept(u)' \/ list'[u] # 0 PROVE AtIndex(u)'
  <2>1. CASE u = v
    BY <1>6, <2>1 DEF AtIndex
  <2>2. CASE u # v
    <3>1. Kept(u)' => Kept(u)
      <4>1. \A s \in Threads : Owns(s, u)' => Owns(s, u)
        <5>1. Owns(t, u)' => Owns(t, u)
          BY <1>2, <1>v, <2>2 DEF Owns
        <5> QED
          BY <1>1, <5>1, OthersGrip
      <4> QED
        BY <1>2, <4>1, KeptSame
    <3>2. AtIndex(u)
      BY <1>0, <1>2, <1>9, <3>1 DEF Indices
    <3>3. u # n
      BY <1>m, <3>2 DEF AtIndex
    <3>4. id[u] \in Handles /\ id[u] # a /\ id[u] # b /\ u \in Uobjs
      BY <1>a, <1>b, <1>c, <2>2, <3>2 DEF AtIndex, IdrUobjs
    <3> QED
      BY <1>6, <2>2, <3>2, <3>3, <3>4, AtIndexSame
  <2> QED
    BY <2>1, <2>2
<1>10. \A s \in Threads : new'[s] \in IdrUobjs => id'[new'[s]] \in Handles /\ idr'[id'[new'[s]]] = Null
  <2> SUFFICES ASSUME NEW s \in Threads, new'[s] \in IdrUobjs
               PROVE  id'[new'[s]] \in Handles /\ idr'[id'[new'[s]]] = Null
    OBVIOUS
  <2>0. new' = new
    BY <1>2
  <2>1. CASE s = t
    BY <1>6, <1>n, <2>0, <2>1
  <2>2. CASE s # t
    BY <1>8, <2>0, <2>2
  <2> QED
    BY <2>1, <2>2
<1>11. \A r, s \in Threads : r # s /\ new'[r] \in IdrUobjs /\ new'[s] \in IdrUobjs
            => id'[new'[r]] # id'[new'[s]]
  <2> SUFFICES ASSUME NEW r \in Threads, NEW s \in Threads, r # s,
                      new'[r] \in IdrUobjs, new'[s] \in IdrUobjs
               PROVE  id'[new'[r]] # id'[new'[s]]
    OBVIOUS
  <2>0. new' = new
    BY <1>2
  <2>1. CASE r = t
    BY <1>6, <1>8, <1>n, <2>0, <2>1
  <2>2. CASE s = t
    BY <1>6, <1>8, <1>n, <2>0, <2>2
  <2>3. CASE r # t /\ s # t
    <3>1. id[new[r]] # id[new[s]]
      BY <1>0, <2>0 DEF Indices
    <3> QED
      BY <1>8, <2>0, <2>3, <3>1
  <2> QED
    BY <2>1, <2>2, <2>3
<1> QED
  BY <1>7, <1>9, <1>10, <1>11 DEF Indices, IdrUobjs

(* remove_handle frees the index of a uobject that nobody else can lock.   *)
LEMMA IndicesDestroyStep ==
    ASSUME IInv, LockInv, Indices, NEW t \in Threads, uverbs_destroy_uobject(t)
    PROVE  Indices'
<1>0. TypeThread /\ TypeUobj /\ ThreadShape /\ Publication /\ Indices /\ UsecntIsALock
  BY DEF IInv, TypeOK, LockInv
<1>c. Null \notin Uobjs /\ Free \notin Uobjs /\ Free # Null
  BY ConstantsAssumption
<1>1. OthersSame(t)
  BY OthersStay DEF Command, IInv
<1>2. /\ pc[t] = "unlink" /\ cur[t] # Null /\ mode[t] = "DESTROY" /\ pc'[t] \in {"put", "commit"}
      /\ UNCHANGED <<id, usecnt, cur, new, mode>>
  BY <1>0 DEF uverbs_destroy_uobject, ThreadShape, TypeThread
<1>v. PICK v \in IdrUobjs : v = cur[t]
  BY <1>0, <1>2 DEF ThreadShape, TypeThread, IdrUobjs
<1>3. Owns(t, v) /\ v \in Uobjs
  BY <1>2, <1>v DEF Owns, IdrUobjs
<1>a. PICK a \in Handles : a = id[v] /\ idr[a] = v
  BY <1>0, <1>3, <1>v DEF Indices, Kept, AtIndex
<1>4. idr' = [idr EXCEPT ![a] = Free] /\ list' = [list EXCEPT ![v] = 0]
  BY <1>v, <1>a DEF uverbs_destroy_uobject
<1>5. /\ idr'[a] = Free /\ \A g \in Handles : g # a => idr'[g] = idr[g]
      /\ list'[v] = 0 /\ \A u \in Uobjs : u # v => list'[u] = list[u]
  BY <1>0, <1>3, <1>4 DEF TypeUobj
<1>6. \A g \in Handles : idr'[g] \in Uobjs => id'[idr'[g]] = g
  BY <1>0, <1>2, <1>5, <1>c DEF Indices
<1>7. \A s \in Threads : new'[s] \in IdrUobjs => id'[new'[s]] \in Handles /\ idr'[id'[new'[s]]] = Null
  <2>1. \A s \in Threads : new[s] \in IdrUobjs => id[new[s]] \in Handles /\ idr[id[new[s]]] = Null
    BY <1>0 DEF Indices
  <2> QED
    <3> SUFFICES ASSUME NEW s \in Threads, new'[s] \in IdrUobjs
                 PROVE  id'[new'[s]] \in Handles /\ idr'[id'[new'[s]]] = Null
      OBVIOUS
    <3>1. id[new[s]] \in Handles /\ idr[id[new[s]]] = Null
      BY <1>2, <2>1
    <3>2. id[new[s]] # a
      BY <1>3, <1>a, <1>c, <3>1
    <3> QED
      BY <1>2, <1>5, <3>1, <3>2
<1>8. \A r, s \in Threads : r # s /\ new'[r] \in IdrUobjs /\ new'[s] \in IdrUobjs
            => id'[new'[r]] # id'[new'[s]]
  BY <1>0, <1>2 DEF Indices
<1>9. ASSUME NEW u \in IdrUobjs, Kept(u)' \/ list'[u] # 0 PROVE AtIndex(u)'
  <2>u. u \in Uobjs
    BY DEF IdrUobjs
  <2>1. \A s \in Threads : Owns(s, u)' => Owns(s, u)
    <3>1. Owns(t, u)' => Owns(t, u)
      BY <1>2 DEF Owns, Holding
    <3> QED
      BY <1>1, <3>1, OthersGrip
  <2>2. CASE u = v
    <3>1. usecnt'[v] = -1 /\ \A s \in Threads : Owns(s, v) => s = t
      BY <1>0, <1>2, <1>3 DEF UsecntIsALock
    <3>2. new[t] # v
      BY <1>0, <1>2, <1>v DEF Publication
    <3>3. ~Owns(t, v)'
      BY <1>2, <3>2 DEF Owns, Holding
    <3>4. ~Kept(v)'
      BY <2>1, <2>2, <3>1, <3>3 DEF Kept
    <3> QED
      BY <1>5, <1>9, <2>2, <3>4
  <2>3. CASE u # v
    <3>1. Kept(u)' => Kept(u)
      BY <1>2, <2>1, KeptSame
    <3>2. AtIndex(u)
      BY <1>0, <1>5, <1>9, <2>3, <2>u, <3>1 DEF Indices
    <3>3. id[u] \in Handles /\ id[u] # a
      BY <1>a, <2>3, <3>2 DEF AtIndex
    <3> QED
      BY <1>2, <1>5, <3>2, <3>3, AtIndexSame
  <2> QED
    BY <2>2, <2>3
<1> QED
  BY <1>6, <1>7, <1>8, <1>9 DEF Indices, IdrUobjs

(* Indices holds of an empty idr when no uobject is in use. *)
LEMMA IndicesEmpty ==
    ASSUME idr' = [h \in Handles |-> Free],
           \A t \in Threads : cur'[t] = Null /\ new'[t] = Null, \A u \in Uobjs : list'[u] = 0
    PROVE  Indices'
<1>1. \A h \in Handles : idr'[h] = Free
  OBVIOUS
<1>2. Free \notin Uobjs /\ Null \notin IdrUobjs /\ IdrUobjs \subseteq Uobjs
  BY ConstantsAssumption DEF IdrUobjs
<1>3. \A u \in IdrUobjs : ~Kept(u)'
  BY <1>2 DEF Kept
<1> QED
  BY <1>1, <1>2, <1>3 DEF Indices, IdrUobjs

(* The release of a struct file does not touch ufile->idr. *)
LEMMA IndicesFdStep ==
    ASSUME IInv, LockInv, Indices, NEW v \in FdUobjs,
           fd_close(v) \/ uverbs_uobject_fd_release(v) \/ fd_release_destroy(v)
    PROVE  Indices'
<1>1. UNCHANGED <<id, idr, tvars>>
  BY DEF fd_close, uverbs_uobject_fd_release, fd_release_destroy
<1>2. \A u \in IdrUobjs : usecnt'[u] = usecnt[u] /\ list'[u] = list[u]
  BY DEF fd_close, uverbs_uobject_fd_release, fd_release_destroy, IdrUobjs, IInv, TypeOK, TypeUobj
<1>3. \A u \in IdrUobjs : Kept(u)' => Kept(u)
  BY <1>1, <1>2, ThreadsRest DEF Kept, tvars
<1> QED
  BY <1>1, <1>2, <1>3, IndicesSame DEF tvars

(* Cleanup touches linked uobjects only. *)
LEMMA CleanLinked ==
    ASSUME TypeUobj, ToClean, NEW c \in Cleaners, Cleanup(c), NEW u \in Uobjs
    PROVE  (usecnt'[u] = usecnt[u] \/ list[u] # 0) /\ (list'[u] = list[u] \/ list'[u] = 0)
<1>1. CASE uverbs_destroy_ufile_hw(c) \/ up_write(c)
  <2>1. usecnt' = usecnt /\ list' = list
    BY <1>1 DEF uverbs_destroy_ufile_hw, up_write, uvars
  <2> QED
    BY <2>1
<1>2. CASE uverbs_cleanup_ufile(c)
  <2>1. cpc[c] = "pass" /\ \E v \in todo : usecnt' = [usecnt EXCEPT ![v] = 0]
                                           /\ (list' = list \/ list' = [list EXCEPT ![v] = 0])
    BY <1>2 DEF uverbs_cleanup_ufile, Cleaned, Next2Clean
  <2>2. PICK v \in Uobjs : /\ list[v] # 0 /\ usecnt' = [usecnt EXCEPT ![v] = 0]
                           /\ (list' = list \/ list' = [list EXCEPT ![v] = 0])
    BY <2>1 DEF ToClean, Linked
  <2> QED
    BY <2>2 DEF TypeUobj
<1>3. CASE cleanup_pass_end(c)
  <2>1. \/ usecnt' = usecnt /\ list' = list
        \/ usecnt' = [w \in Uobjs |-> IF w \in Linked THEN 0 ELSE usecnt[w]]
           /\ list' = [w \in Uobjs |-> 0]
    BY <1>3 DEF cleanup_pass_end, uvars
  <2> QED
    BY <2>1 DEF Linked
<1> QED
  BY <1>1, <1>2, <1>3 DEF Cleanup

(* Cleanup unlinks and unlocks uobjects, and leaves them at their index.   *)
LEMMA IndicesCleanStep ==
    ASSUME IInv, LockInv, Indices, ToClean, NEW c \in Cleaners, Cleanup(c)
    PROVE  Indices'
<1>0. TypeUobj
  BY DEF IInv, TypeOK
<1>1. UNCHANGED <<id, idr, tvars>>
  BY DEF Cleanup, uverbs_destroy_ufile_hw, uverbs_cleanup_ufile, cleanup_pass_end, up_write, uvars
<1>2. ASSUME NEW u \in IdrUobjs, Kept(u)' \/ list'[u] # 0 PROVE Kept(u) \/ list[u] # 0
  <2>1. (usecnt'[u] = usecnt[u] \/ list[u] # 0) /\ (list'[u] = list[u] \/ list'[u] = 0)
    BY <1>0, CleanLinked DEF IdrUobjs
  <2>2. Kept(u)' => Kept(u) \/ list[u] # 0
    BY <1>1, <2>1, ThreadsRest DEF Kept, tvars
  <2> QED
    BY <1>2, <2>1, <2>2
<1> QED
  BY <1>1, <1>2, IndicesSame DEF tvars

(* Nobody but the cleaner unlinks a uobject during a pass of               *)
(* __uverbs_cleanup_ufile.                                                 *)
LEMMA ToCleanStep ==
    ASSUME IInv, ToClean, Next
    PROVE  ToClean'
<1>0. TypeUobj /\ TypeThread /\ TypeClean /\ ThreadShape /\ SemShape /\ FdUobjs \subseteq Uobjs
  BY ConstantsAssumption DEF IInv, TypeOK
<1>1. ASSUME NEW t \in Threads, Command(t) PROVE ToClean'
  <2> SUFFICES ASSUME NEW c \in Cleaners, cpc'[c] = "pass" PROVE todo' \subseteq Linked'
    BY DEF ToClean
  <2>1. cpc' = cpc /\ todo' = todo
    BY <1>1 DEF Command, ib_uverbs_ioctl, ib_uverbs_ioctl_end, ib_init_ucontext, xa_load,
       rdma_alloc_begin_uobject, handler,
       rdma_alloc_commit_uobject, rdma_alloc_abort_uobject, lookup_get_idr_uobject,
       lookup_get_fd_uobject, rdma_lookup_get_uobject, rdma_lookup_put_uobject, uobj_destroy,
       rdma_assign_uobject, destroy_hw, uverbs_destroy_uobject, uvars, fvars, cvars
  <2>2. todo \subseteq Linked /\ new[t] = Null /\ pc[t] \notin {"destroy", "unlink"}
    BY <2>1, CleanerAlone DEF ToClean
  <2>3. pc[t] \notin {"created", "commit", "abort"}
    BY <1>0, <2>2 DEF ThreadShape
  <2>4. ~rdma_alloc_commit_uobject(t) /\ ~uverbs_destroy_uobject(t)
    BY <2>2, <2>3 DEF rdma_alloc_commit_uobject, uverbs_destroy_uobject
  <2>5. list' = list
    BY <1>1, <2>4 DEF Command, ib_uverbs_ioctl, ib_uverbs_ioctl_end, ib_init_ucontext, xa_load,
       rdma_alloc_begin_uobject, handler,
       rdma_alloc_abort_uobject, lookup_get_idr_uobject,
       lookup_get_fd_uobject, rdma_lookup_get_uobject, rdma_lookup_put_uobject, uobj_destroy,
       rdma_assign_uobject, destroy_hw, uvars
  <2> QED
    BY <2>1, <2>2, <2>5 DEF Linked
<1>2. ASSUME NEW v \in FdUobjs, fd_close(v) \/ FdRelease(v) PROVE ToClean'
  <2> SUFFICES ASSUME NEW c \in Cleaners, cpc'[c] = "pass" PROVE todo' \subseteq Linked'
    BY DEF ToClean
  <2>1. cpc' = cpc /\ todo' = todo
    BY <1>2 DEF FdRelease, fd_close, uverbs_uobject_fd_release, fd_release_destroy, fd_release_put, cvars
  <2>2. todo \subseteq Linked /\ rel[v] # "held"
    BY <2>1, CleanerAlone DEF ToClean
  <2>3. list' = list
    BY <1>2, <2>2 DEF FdRelease, fd_close, uverbs_uobject_fd_release, fd_release_destroy, fd_release_put
  <2> QED
    BY <2>1, <2>2, <2>3 DEF Linked
<1>3. ASSUME NEW c \in Cleaners, Cleanup(c) PROVE ToClean'
  <2> SUFFICES ASSUME NEW d \in Cleaners, cpc'[d] = "pass" PROVE todo' \subseteq Linked'
    BY DEF ToClean
  <2>n. Null \notin Cleaners
    BY ConstantsAssumption DEF Cleaners
  <2>1. CASE uverbs_destroy_ufile_hw(c)
    <3>1. list' = list /\ wsem = Null /\ cpc'[c] = IF ucontext THEN "pass" ELSE "up_write"
      BY <1>0, <2>1 DEF uverbs_destroy_ufile_hw, uvars, TypeClean
    <3>2. d = c
      <4>1. d # c => cpc[d] = "pass"
        BY <1>0, <2>1 DEF uverbs_destroy_ufile_hw, TypeClean
      <4> QED
        BY <1>0, <2>n, <3>1, <4>1 DEF SemShape
    <3>3. todo' = Linked
      BY <2>1, <3>1, <3>2, SMT DEF uverbs_destroy_ufile_hw
    <3> QED
      BY <3>1, <3>3 DEF Linked
  <2>2. CASE uverbs_cleanup_ufile(c)
    <3>1. PICK v \in Uobjs : todo' = todo \ {v} /\ (list' = list \/ list' = [list EXCEPT ![v] = 0])
      BY <2>2 DEF uverbs_cleanup_ufile, Cleaned
    <3>2. todo \subseteq Linked
      BY <2>2 DEF uverbs_cleanup_ufile, ToClean
    <3> QED
      BY <1>0, <3>1, <3>2 DEF Linked, TypeUobj
  <2>3. CASE cleanup_pass_end(c)
    <3>1. CASE todo' = Linked /\ UNCHANGED uvars
      BY <3>1 DEF Linked, uvars
    <3>2. CASE cpc' = [cpc EXCEPT ![c] = "up_write"]
      <4>1. cpc[c] = "pass" /\ cpc[d] = "pass" /\ d # c
        BY <1>0, <2>3, <3>2 DEF cleanup_pass_end, TypeClean
      <4> QED
        BY <1>0, <4>1 DEF SemShape
    <3> QED
      BY <2>3, <3>1, <3>2 DEF cleanup_pass_end
  <2>4. CASE up_write(c)
    <3>1. list' = list /\ todo' = todo /\ cpc[d] = "pass"
      BY <1>0, <2>4 DEF up_write, uvars, TypeClean
    <3> QED
      BY <3>1 DEF ToClean, Linked
  <2> QED
    BY <1>3, <2>1, <2>2, <2>3, <2>4 DEF Cleanup
<1>4. ASSUME \/ ib_uverbs_close \/ close_put \/ ib_uverbs_remove_one
             \/ ib_uverbs_free_hw_resources \/ remove_put
      PROVE  ToClean'
  <2>1. list' = list /\ todo' = todo
    BY <1>4 DEF ib_uverbs_close, close_put, ib_uverbs_remove_one, ib_uverbs_free_hw_resources,
       remove_put, uvars
  <2>2. \A c \in Cleaners : cpc'[c] = "pass" => cpc[c] = "pass"
    BY <1>0, <1>4 DEF ib_uverbs_close, close_put, ib_uverbs_remove_one, ib_uverbs_free_hw_resources,
       remove_put, TypeClean
  <2> QED
    BY <2>1, <2>2 DEF ToClean, Linked
<1> QED
  BY <1>1, <1>2, <1>3, <1>4 DEF Next

----------------------------------------------------------------------------
(* The HW objects. *)

(* Cleanup once begun has begun for good. *)
LEMMA UndisturbedBefore ==
    ASSUME TypeClean, Next, Undisturbed'
    PROVE  /\ Undisturbed /\ ~close_put /\ ~remove_put /\ \A c \in Cleaners : ~Cleanup(c)
<1>1. ASSUME NEW c \in Cleaners, Cleanup(c) PROVE FALSE
  <2>1. cpc[c] \in {"down_write", "pass", "up_write"} /\ cpc'[c] \in {"pass", "up_write", "put"}
    BY <1>1 DEF Cleanup, uverbs_destroy_ufile_hw, uverbs_cleanup_ufile, cleanup_pass_end, up_write,
       TypeClean
  <2> QED
    BY <2>1 DEF Undisturbed, Cleaners
<1>2. ~close_put /\ ~remove_put
  BY DEF close_put, remove_put, Undisturbed, TypeClean, Cleaners
<1>3. ASSUME NEW t \in Threads, Command(t) PROVE Undisturbed
  <2>1. cpc' = cpc
    BY <1>3 DEF Command, ib_uverbs_ioctl, ib_uverbs_ioctl_end, ib_init_ucontext, xa_load,
       rdma_alloc_begin_uobject, handler,
       rdma_alloc_commit_uobject, rdma_alloc_abort_uobject, lookup_get_idr_uobject,
       lookup_get_fd_uobject, rdma_lookup_get_uobject, rdma_lookup_put_uobject, uobj_destroy,
       rdma_assign_uobject, destroy_hw, uverbs_destroy_uobject, uvars, fvars, cvars
  <2> QED
    BY <2>1 DEF Undisturbed
<1>4. CASE \E v \in FdUobjs : fd_close(v) \/ FdRelease(v)
  <2>1. cpc' = cpc
    BY <1>4 DEF FdRelease, fd_close, uverbs_uobject_fd_release, fd_release_destroy, fd_release_put, cvars
  <2> QED
    BY <1>1, <1>2, <2>1 DEF Undisturbed
<1>5. CASE ib_uverbs_close \/ ib_uverbs_remove_one \/ ib_uverbs_free_hw_resources
  BY <1>1, <1>2, <1>5 DEF ib_uverbs_close, ib_uverbs_remove_one, ib_uverbs_free_hw_resources,
     Undisturbed, TypeClean, Cleaners
<1> QED
  BY <1>1, <1>2, <1>3, <1>4, <1>5 DEF Next

(* Who destroys a HW object. *)
LEMMA ObjectGoes ==
    ASSUME TypeUobj, Next, NEW u \in object, u \notin object'
    PROVE  \/ \E t \in Threads : rdma_alloc_abort_uobject(t) /\ new[t] = u
           \/ \E t \in Threads : destroy_hw(t) /\ cur[t] = u
           \/ u \in FdUobjs /\ fd_release_destroy(u)
           \/ \E c \in Cleaners : Cleanup(c) /\ cpc[c] = "pass"
<1>1. ASSUME NEW t \in Threads, Command(t), ~rdma_alloc_abort_uobject(t), ~destroy_hw(t)
      PROVE  FALSE
  <2>1. CASE rdma_alloc_begin_uobject(t)
    <3>1. object' = object \/ \E v : object' = object \cup {v}
      BY <2>1, AllocBegin DEF AllocNone, AllocIdr, AllocFd, alloc_begin_fd_uobject,
         alloc_begin_idr_uobject
    <3> QED
      BY <3>1
  <2>2. CASE handler(t)
    BY <2>2 DEF handler
  <2>3. CASE ~rdma_alloc_begin_uobject(t) /\ ~handler(t)
    <3>1. object' = object
      BY <1>1, <2>3 DEF Command, ib_uverbs_ioctl, ib_uverbs_ioctl_end, ib_init_ucontext, xa_load,
         rdma_alloc_commit_uobject, lookup_get_idr_uobject,
         lookup_get_fd_uobject, rdma_lookup_get_uobject, rdma_lookup_put_uobject, uobj_destroy,
         rdma_assign_uobject, uverbs_destroy_uobject, uvars
    <3> QED
      BY <3>1
  <2> QED
    BY <2>1, <2>2, <2>3
<1>2. ASSUME NEW t \in Threads, rdma_alloc_abort_uobject(t) \/ destroy_hw(t)
      PROVE  \/ rdma_alloc_abort_uobject(t) /\ new[t] = u
             \/ destroy_hw(t) /\ cur[t] = u
  BY <1>2 DEF rdma_alloc_abort_uobject, destroy_hw
<1>3. ASSUME NEW v \in FdUobjs, fd_close(v) \/ FdRelease(v)
      PROVE  u \in FdUobjs /\ fd_release_destroy(u)
  BY <1>3 DEF FdRelease, fd_close, uverbs_uobject_fd_release, fd_release_destroy, fd_release_put
<1>4. ASSUME NEW c \in Cleaners, Cleanup(c) PROVE cpc[c] = "pass"
  BY <1>4 DEF Cleanup, uverbs_destroy_ufile_hw, uverbs_cleanup_ufile, cleanup_pass_end, up_write, uvars
<1>5. ASSUME \/ ib_uverbs_close \/ close_put \/ ib_uverbs_remove_one
             \/ ib_uverbs_free_hw_resources \/ remove_put
      PROVE  FALSE
  BY <1>5 DEF ib_uverbs_close, close_put, ib_uverbs_remove_one, ib_uverbs_free_hw_resources,
     remove_put, uvars
<1> QED
  BY <1>1, <1>2, <1>3, <1>4, <1>5 DEF Next

(* Every step preserves HwNew: the HW object of a uobject that is being    *)
(* created is nobody else's to destroy.                                    *)
LEMMA HwNewStep ==
    ASSUME IInv, HwNew, Next
    PROVE  HwNew'
<1>0. TypeThread /\ TypeUobj /\ ThreadShape /\ Publication /\ Null \notin Uobjs
  BY ConstantsAssumption DEF IInv, TypeOK
<1> SUFFICES ASSUME NEW t \in Threads, new'[t] # Null, pc'[t] \notin {"new", "abort"}
             PROVE  new'[t] \in object'
  BY DEF HwNew
<1>1. CASE new'[t] = new[t] /\ pc[t] \notin {"new", "abort"}
  <2>1. new[t] \in object /\ new[t] # Null
    BY <1>1 DEF HwNew
  <2> SUFFICES ASSUME new[t] \notin object' PROVE FALSE
    BY <1>1
  <2>2. ASSUME NEW s \in Threads, rdma_alloc_abort_uobject(s), new[s] = new[t] PROVE FALSE
    <3>1. s = t
      BY <1>0, <2>1, <2>2 DEF Publication
    <3>2. new'[t] = Null
      BY <1>0, <2>2, <3>1 DEF rdma_alloc_abort_uobject, TypeThread
    <3> QED
      BY <3>2
  <2>3. ASSUME NEW s \in Threads, cur[s] = new[t] PROVE FALSE
    BY <1>0, <2>1, <2>3 DEF Publication
  <2>4. ASSUME new[t] \in FdUobjs, fd_release_destroy(new[t]) PROVE FALSE
    BY <1>0, <2>1, <2>4 DEF Publication, fd_release_destroy
  <2>5. ASSUME NEW c \in Cleaners, cpc[c] = "pass" PROVE FALSE
    BY <2>1, <2>5, CleanerAlone
  <2> QED
    BY <1>0, <2>1, <2>2, <2>3, <2>4, <2>5, ObjectGoes
<1>2. ASSUME NEW s \in Threads, Command(s) PROVE new'[t] \in object'
  <2>1. CASE s # t
    <3>1. OthersSame(s)
      BY <1>2, OthersStay DEF IInv
    <3> QED
      BY <1>1, <2>1, <3>1 DEF OthersSame
  <2>2. CASE s = t
    <3>1. CASE rdma_alloc_begin_uobject(t)
      <4>1. CASE AllocNone(t)
        BY <1>0, <3>1, <4>1, AllocBegin DEF AllocNone, ThreadShape
      <4>2. ASSUME NEW v \in Uobjs, AllocFd(t, v) PROVE new'[t] \in object'
        BY <1>0, <4>2 DEF AllocFd, alloc_begin_fd_uobject, alloc_uobj, TypeThread
      <4>3. ASSUME NEW v \in Uobjs, NEW h \in Handles, AllocIdr(t, v, h) PROVE FALSE
        BY <1>0, <4>3 DEF AllocIdr, alloc_begin_idr_uobject, alloc_uobj, TypeThread
      <4> QED
        BY <3>1, <4>1, <4>2, <4>3, AllocBegin
    <3>2. CASE handler(t)
      BY <1>0, <3>2 DEF handler, TypeThread
    <3>3. CASE rdma_alloc_commit_uobject(t) \/ rdma_alloc_abort_uobject(t)
      BY <1>0, <3>3 DEF rdma_alloc_commit_uobject, rdma_alloc_abort_uobject, TypeThread
    <3>4. CASE ib_init_ucontext(t) \/ rdma_assign_uobject(t) \/ destroy_hw(t) \/ uverbs_destroy_uobject(t)
      <4>1. new' = new /\ pc[t] \notin {"new", "abort"}
        BY <3>4 DEF ib_init_ucontext, rdma_assign_uobject, destroy_hw, uverbs_destroy_uobject
      <4> QED
        BY <1>1, <4>1
    <3>5. CASE \/ ib_uverbs_ioctl(t) \/ ib_uverbs_ioctl_end(t) \/ xa_load(t)
               \/ lookup_get_idr_uobject(t) \/ lookup_get_fd_uobject(t)
               \/ rdma_lookup_get_uobject(t) \/ rdma_lookup_put_uobject(t) \/ uobj_destroy(t)
      <4>1. new' = new /\ pc[t] \in {"idle", "exit", "cmd", "rcu", "got", "locked", "put"}
        BY <3>5 DEF ib_uverbs_ioctl, ib_uverbs_ioctl_end, xa_load, lookup_get_idr_uobject,
           lookup_get_fd_uobject, rdma_lookup_get_uobject, rdma_lookup_put_uobject, uobj_destroy
      <4> QED
        BY <1>0, <4>1 DEF ThreadShape
    <3> QED
      BY <1>2, <2>2, <3>1, <3>2, <3>3, <3>4, <3>5 DEF Command
  <2> QED
    BY <2>1, <2>2
<1>3. CASE UNCHANGED tvars
  BY <1>1, <1>3 DEF tvars
<1>4. (\E s \in Threads : Command(s)) \/ UNCHANGED tvars
  BY DEF Next, FdRelease, fd_close, uverbs_uobject_fd_release, fd_release_destroy,
     fd_release_put, Cleanup, uverbs_destroy_ufile_hw, uverbs_cleanup_ufile, cleanup_pass_end,
     up_write, ib_uverbs_close, close_put, ib_uverbs_remove_one, ib_uverbs_free_hw_resources, remove_put
<1> QED
  BY <1>2, <1>3, <1>4

(* Every step preserves HwLocked: the lock that is held keeps              *)
(* DESTROY out, the struct file release, the gates cleanup.                *)
LEMMA HwStableStep ==
    ASSUME IInv, IInv', LockInv, HwObjects, Next
    PROVE  HwLocked'
<1>0. TypeThread /\ TypeUobj /\ TypeClean /\ ThreadShape /\ Publication /\ Null \notin Uobjs
  BY ConstantsAssumption DEF IInv, TypeOK
<1> SUFFICES ASSUME NEW t \in Threads, Holding(t)' PROVE cur'[t] \in object'
  BY DEF HwLocked
<1>1. Undisturbed'
  <2>1. cpc'["close"] = "idle"
    BY DEF IInv, Gates, ThreadShape, Holding
  <2>2. cpc'["remove"] \in {"idle", "sync"}
    BY DEF IInv, Gates
  <2> QED
    BY <2>1, <2>2 DEF Undisturbed
<1>2. Undisturbed /\ \A c \in Cleaners : ~Cleanup(c)
  BY <1>0, <1>1, UndisturbedBefore
<1>3. CASE Holding(t) /\ cur'[t] = cur[t]
  <2>v. PICK v \in Uobjs : v = cur[t]
    BY <1>0, <1>3 DEF Holding, TypeThread
  <2>1. v \in object
    BY <1>3, <2>v DEF HwObjects, HwLocked
  <2> SUFFICES ASSUME v \notin object' PROVE FALSE
    BY <1>3, <2>v
  <2>2. ASSUME NEW s \in Threads, new[s] = v PROVE FALSE
    BY <1>0, <2>2, <2>v DEF Publication
  <2>3. ASSUME NEW s \in Threads, destroy_hw(s), cur[s] = v PROVE FALSE
    <3>1. Owns(s, v) /\ mode[s] = "DESTROY"
      BY <1>0, <2>3 DEF destroy_hw, Owns, ThreadShape
    <3>2. /\ usecnt[v] = -1 /\ Readers(v) = {} /\ \A r \in Threads : Owns(r, v) => r = s
      BY <3>1 DEF LockInv, UsecntIsALock
    <3>3. mode[t] = "WRITE"
      BY <1>0, <1>3, <2>v, <3>2 DEF Readers, Holding, TypeThread, Modes
    <3>4. Owns(t, v)
      BY <1>3, <2>v, <3>3 DEF Owns
    <3> QED
      BY <3>1, <3>2, <3>3, <3>4
  <2>4. ASSUME v \in FdUobjs, fd_release_destroy(v) PROVE FALSE
    BY <2>4, <2>v DEF fd_release_destroy, LockInv, Filps
  <2> QED
    BY <1>0, <1>2, <2>1, <2>2, <2>3, <2>4, ObjectGoes
<1>4. ASSUME NEW s \in Threads, Command(s) PROVE cur'[t] \in object'
  <2>1. CASE s # t
    <3>1. OthersSame(s)
      BY <1>4, OthersStay DEF IInv
    <3> QED
      BY <1>3, <2>1, <3>1 DEF OthersSame, Holding
  <2>2. CASE s = t
    <3>1. CASE rdma_lookup_get_uobject(t)
      <4>1. CASE Granted(t)
        <5>1. cur' = cur /\ object' = object /\ pc[t] = "got"
          BY <3>1, <4>1, LookupGet DEF Granted
        <5>2. cur[t] \in Uobjs /\ usecnt[cur[t]] # -1
          BY <4>1, <5>1, GrantedMeans
        <5>3. Reachable(cur[t])
          BY DEF Reachable
        <5> QED
          BY <1>2, <5>1, <5>2, <5>3 DEF HwObjects, HwReach
      <4>2. CASE Refused(t)
        BY <1>0, <4>2 DEF Refused, lookup_put, TypeThread, Holding
      <4> QED
        BY <3>1, <4>1, <4>2, LookupGet
    <3>2. CASE rdma_lookup_put_uobject(t)
      BY <1>0, <3>2 DEF rdma_lookup_put_uobject, lookup_put, TypeThread, Holding
    <3>3. CASE \/ ib_uverbs_ioctl(t) \/ ib_uverbs_ioctl_end(t) \/ ib_init_ucontext(t)
      <4>1. cur' = cur /\ cur[t] = Null
        BY <1>0, <3>3 DEF ib_uverbs_ioctl, ib_uverbs_ioctl_end, ib_init_ucontext, ThreadShape
      <4> QED
        BY <4>1 DEF Holding
    <3>4. CASE xa_load(t) \/ lookup_get_idr_uobject(t) \/ lookup_get_fd_uobject(t)
      <4>1. pc'[t] \in {"rcu", "got"} \/ cur'[t] = Null
        BY <1>0, <3>4 DEF xa_load, lookup_get_idr_uobject, lookup_get_fd_uobject, TypeThread
      <4> QED
        BY <4>1 DEF Holding
    <3>5. CASE rdma_assign_uobject(t)
      BY <1>0, <3>5 DEF rdma_assign_uobject, TypeThread, Holding
    <3>6. CASE uobj_destroy(t) \/ destroy_hw(t) \/ uverbs_destroy_uobject(t)
      <4>1. mode' = mode /\ mode[t] = "DESTROY"
        BY <1>0, <3>6 DEF uobj_destroy, destroy_hw, uverbs_destroy_uobject, ThreadShape
      <4> QED
        BY <4>1 DEF Holding
    <3>7. CASE \/ rdma_alloc_begin_uobject(t) \/ handler(t)
               \/ rdma_alloc_commit_uobject(t) \/ rdma_alloc_abort_uobject(t)
      <4>1. cur' = cur /\ mode' = mode /\ pc[t] \notin {"rcu", "got"}
        BY <3>7, AllocBegin DEF handler, rdma_alloc_commit_uobject, rdma_alloc_abort_uobject
      <4> QED
        BY <1>3, <4>1 DEF Holding
    <3> QED
      BY <1>4, <2>2, <3>1, <3>2, <3>3, <3>4, <3>5, <3>6, <3>7 DEF Command
  <2> QED
    BY <2>1, <2>2
<1>5. CASE UNCHANGED tvars
  BY <1>3, <1>5 DEF tvars, Holding
<1>6. (\E s \in Threads : Command(s)) \/ UNCHANGED tvars
  BY DEF Next, FdRelease, fd_close, uverbs_uobject_fd_release, fd_release_destroy,
     fd_release_put, Cleanup, uverbs_destroy_ufile_hw, uverbs_cleanup_ufile, cleanup_pass_end,
     up_write, ib_uverbs_close, close_put, ib_uverbs_remove_one, ib_uverbs_free_hw_resources, remove_put
<1> QED
  BY <1>4, <1>5, <1>6

(* Every step preserves HwReach: who destroys a HW object leaves its       *)
(* uobject write locked or out of reach.                                   *)
LEMMA HwReachStep ==
    ASSUME IInv, LockInv, HwObjects, Next
    PROVE  HwReach'
<1>0. /\ TypeThread /\ TypeUobj /\ TypeClean /\ ThreadShape /\ Publication /\ UsecntIsALock
      /\ Null \notin Uobjs /\ Free \notin Uobjs /\ FdUobjs \subseteq Uobjs
  BY ConstantsAssumption DEF IInv, TypeOK, LockInv
<1> SUFFICES ASSUME Undisturbed', NEW u \in Uobjs, usecnt'[u] # -1, Reachable(u)'
             PROVE  u \in object'
  BY DEF HwReach
<1>1. Undisturbed /\ ~close_put /\ ~remove_put /\ \A c \in Cleaners : ~Cleanup(c)
  BY <1>0, UndisturbedBefore
<1>2. ASSUME usecnt[u] # -1, Reachable(u) PROVE u \in object
  BY <1>1, <1>2 DEF HwObjects, HwReach
<1>3. ASSUME NEW t \in Threads, Command(t) PROVE u \in object'
  <2>0. OthersSame(t)
    BY <1>3, OthersStay DEF IInv
  <2>1. CASE ib_uverbs_ioctl(t) \/ ib_uverbs_ioctl_end(t) \/ ib_init_ucontext(t)
    <3>1. UNCHANGED <<usecnt, object, idr, fd, cur>>
      BY <2>1 DEF ib_uverbs_ioctl, ib_uverbs_ioctl_end, ib_init_ucontext, uvars
    <3> QED
      BY <1>2, <3>1 DEF Reachable, Indexed
  <2>2. CASE handler(t)
    <3>1. UNCHANGED <<usecnt, idr, fd, cur>> /\ object \subseteq object'
      BY <2>2 DEF handler
    <3> QED
      BY <1>2, <3>1 DEF Reachable, Indexed
  <2>3. CASE rdma_alloc_begin_uobject(t)
    <3>1. CASE AllocNone(t)
      <4>1. UNCHANGED <<usecnt, object, idr, fd, cur>>
        BY <2>3, <3>1, AllocBegin DEF AllocNone
      <4> QED
        BY <1>2, <4>1 DEF Reachable, Indexed
    <3>2. ASSUME NEW v \in Uobjs, AllocFd(t, v) PROVE u \in object'
      <4>1. /\ UNCHANGED <<idr, fd, cur>> /\ object \subseteq object'
            /\ usecnt' = [usecnt EXCEPT ![v] = -1]
        BY <2>3, <3>2, AllocBegin DEF AllocFd, alloc_begin_fd_uobject, alloc_uobj
      <4>2. usecnt'[u] = usecnt[u]
        BY <1>0, <4>1 DEF TypeUobj
      <4> QED
        BY <1>2, <4>1, <4>2 DEF Reachable, Indexed
    <3>3. ASSUME NEW v \in Uobjs, NEW h \in Handles, AllocIdr(t, v, h) PROVE u \in object'
      <4>1. /\ UNCHANGED <<fd, cur, object>> /\ usecnt' = [usecnt EXCEPT ![v] = -1]
            /\ idr' = [idr EXCEPT ![h] = Null]
        BY <2>3, <3>3, AllocBegin DEF AllocIdr, alloc_begin_idr_uobject, alloc_uobj
      <4>2. usecnt'[u] = usecnt[u] /\ (Indexed(u)' => Indexed(u))
        BY <1>0, <4>1 DEF TypeUobj, Indexed
      <4> QED
        BY <1>2, <4>1, <4>2 DEF Reachable
    <3> QED
      BY <2>3, <3>1, <3>2, <3>3, AllocBegin
  <2>4. CASE rdma_alloc_commit_uobject(t)
    <3>1. /\ UNCHANGED <<object, cur>> /\ usecnt' = [usecnt EXCEPT ![new[t]] = 0]
          /\ pc[t] \in {"created", "commit"} /\ new[t] # Null
          /\ fd' \subseteq fd \cup {new[t]}
          /\ (idr' = idr \/ idr' = [idr EXCEPT ![id[new[t]]] = new[t]])
      BY <1>0, <2>4 DEF rdma_alloc_commit_uobject, ThreadShape
    <3>2. CASE u = new[t]
      BY <3>1, <3>2 DEF HwObjects, HwNew
    <3>3. CASE u # new[t]
      <4>1. usecnt'[u] = usecnt[u] /\ (u \in fd' => u \in fd)
        BY <1>0, <3>1, <3>3 DEF TypeUobj
      <4>2. Indexed(u)' => Indexed(u)
        BY <1>0, <3>1, <3>3 DEF TypeUobj, Indexed
      <4> QED
        BY <1>2, <3>1, <4>1, <4>2 DEF Reachable
    <3> QED
      BY <3>2, <3>3
  <2>5. CASE rdma_alloc_abort_uobject(t)
    <3>1. /\ UNCHANGED <<fd, cur>> /\ usecnt' = [usecnt EXCEPT ![new[t]] = 0] /\ object' = object \ {new[t]}
          /\ pc[t] \in {"created", "abort"} /\ new[t] # Null
          /\ (idr' = idr \/ idr' = [idr EXCEPT ![id[new[t]]] = Free])
      BY <1>0, <2>5 DEF rdma_alloc_abort_uobject, ThreadShape
    <3>2. Reachable(u)
      BY <1>0, <3>1 DEF Reachable, Indexed, TypeUobj
    <3>3. u # new[t]
      BY <1>0, <3>1, <3>2, SMTT(30) DEF Reachable, Indexed, Publication
    <3>4. usecnt'[u] = usecnt[u]
      BY <1>0, <3>1, <3>3 DEF TypeUobj
    <3> QED
      BY <1>2, <3>1, <3>2, <3>3, <3>4
  <2>6. CASE xa_load(t) \/ lookup_get_idr_uobject(t) \/ lookup_get_fd_uobject(t)
    <3>1. UNCHANGED <<usecnt, object, idr, fd>>
      BY <2>6 DEF xa_load, lookup_get_idr_uobject, lookup_get_fd_uobject, uvars
    <3>2. cur'[t] \in fd \/ (\E h \in Handles : cur'[t] = idr[h]) \/ cur'[t] = Null \/ cur'[t] = cur[t]
      BY <1>0, <2>6 DEF xa_load, lookup_get_idr_uobject, lookup_get_fd_uobject, TypeThread
    <3>3. Reachable(u)
      BY <1>0, <2>0, <3>1, <3>2 DEF Reachable, Indexed, OthersSame
    <3> QED
      BY <1>2, <3>1, <3>3
  <2>7. CASE rdma_lookup_get_uobject(t) \/ rdma_lookup_put_uobject(t)
    <3>1. UNCHANGED <<object, idr, fd>> /\ pc[t] \in {"got", "locked", "put"}
      BY <2>7, LookupGet DEF rdma_lookup_put_uobject
    <3>v. PICK v \in Uobjs : v = cur[t]
      BY <1>0, <3>1 DEF TypeThread, ThreadShape
    <3>2. cur'[t] \in {cur[t], Null}
      BY <1>0, <2>7, LookupGet DEF Granted, Refused, rdma_lookup_put_uobject, lookup_put, TypeThread
    <3>3. Reachable(u)
      BY <1>0, <2>0, <3>1, <3>2 DEF Reachable, Indexed, OthersSame
    <3>4. CASE usecnt[u] # -1
      BY <1>2, <3>1, <3>3, <3>4
    <3>5. CASE usecnt[u] = -1
      <4>1. usecnt'[u] # usecnt[u]
        BY <3>5
      <4>2. CASE rdma_lookup_get_uobject(t)
        <5>1. CASE Refused(t)
          BY <4>1, <5>1 DEF Refused
        <5>2. CASE Granted(t)
          <6>1. usecnt[v] # -1 /\ usecnt' = [usecnt EXCEPT ![v] = Lock(v, mode[t])]
            BY <3>v, <4>2, <5>2, GrantedMeans, LookupGet DEF Granted
          <6> QED
            BY <1>0, <3>5, <4>1, <6>1 DEF TypeUobj
        <5> QED
          BY <4>2, <5>1, <5>2, LookupGet
      <4>3. CASE rdma_lookup_put_uobject(t)
        <5>1. usecnt' = [usecnt EXCEPT ![v] = Unlock(v, mode[t])] /\ pc[t] \in {"locked", "put"}
          BY <3>v, <4>3 DEF rdma_lookup_put_uobject
        <5>2. u = v
          BY <1>0, <4>1, <5>1 DEF TypeUobj
        <5>3. mode[t] # "DESTROY"
          BY <1>0, <4>1, <5>1, <5>2 DEF TypeUobj, Unlock
        <5>4. Holding(t)
          BY <1>0, <3>v, <5>1, <5>3 DEF Holding
        <5> QED
          BY <3>1, <3>v, <5>2, <5>4 DEF HwObjects, HwLocked
      <4> QED
        BY <2>7, <4>2, <4>3
    <3> QED
      BY <3>4, <3>5
  <2>8. CASE uobj_destroy(t)
    <3>1. UNCHANGED <<object, idr, fd, cur>> /\ (usecnt' = usecnt \/ usecnt' = [usecnt EXCEPT ![cur[t]] = -1])
      BY <2>8 DEF uobj_destroy
    <3>2. usecnt'[u] = usecnt[u]
      BY <1>0, <3>1 DEF TypeUobj
    <3> QED
      BY <1>2, <3>1, <3>2 DEF Reachable, Indexed
  <2>9. CASE rdma_assign_uobject(t) \/ uverbs_destroy_uobject(t)
    <3>1. /\ UNCHANGED <<object, fd, usecnt, cur>> /\ cur[t] # Null
          /\ \/ idr' = [idr EXCEPT ![id[cur[t]]] = Null, ![id[new[t]]] = cur[t]]
             \/ idr' = [idr EXCEPT ![id[cur[t]]] = Free]
      BY <1>0, <2>9 DEF rdma_assign_uobject, uverbs_destroy_uobject, Rereg, ThreadShape
    <3>2. \A h \in Handles : idr'[h] \in {idr[h], Null, Free, cur[t]}
      BY <1>0, <3>1 DEF TypeUobj
    <3>3. Reachable(u)
      BY <1>0, <3>1, <3>2 DEF Reachable, Indexed
    <3> QED
      BY <1>2, <3>1, <3>3
  <2>10. CASE destroy_hw(t)
    <3>1. UNCHANGED <<idr, fd, cur>> /\ pc[t] = "destroy"
      BY <2>10 DEF destroy_hw
    <3>v. PICK v \in Uobjs : v = cur[t]
      BY <1>0, <3>1 DEF TypeThread, ThreadShape
    <3>2. Owns(t, v) /\ Reachable(u)
      BY <3>1, <3>v DEF Owns, Reachable, Indexed
    <3>3. usecnt[v] = -1
      BY <1>0, <3>2 DEF UsecntIsALock
    <3>4. \/ object' = object \ {v} /\ usecnt' = usecnt
          \/ object' = object /\ v \in object /\ usecnt' = [usecnt EXCEPT ![v] = 0]
          \/ object' = object /\ usecnt' = usecnt
      BY <2>10, <3>v DEF destroy_hw
    <3>5. CASE u = v
      BY <3>3, <3>4, <3>5
    <3>6. CASE u # v
      <4>1. usecnt'[u] = usecnt[u]
        BY <1>0, <3>4, <3>6 DEF TypeUobj
      <4> QED
        BY <1>2, <3>2, <3>4, <3>6, <4>1
    <3> QED
      BY <3>5, <3>6
  <2> QED
    BY <1>3, <2>1, <2>2, <2>3, <2>4, <2>5, <2>6, <2>7, <2>8, <2>9, <2>10 DEF Command
<1>4. ASSUME NEW v \in FdUobjs, fd_close(v) \/ FdRelease(v) PROVE u \in object'
  <2>1. UNCHANGED cur /\ fd' \subseteq fd
    BY <1>4 DEF FdRelease, fd_close, uverbs_uobject_fd_release, fd_release_destroy, fd_release_put, tvars
  <2>2. idr' = idr \/ idr' = [h \in Handles |-> Free]
    BY <1>4 DEF FdRelease, fd_close, uverbs_uobject_fd_release, fd_release_destroy, fd_release_put,
       release_ufile
  <2>3. Reachable(u)
    BY <1>0, <2>1, <2>2 DEF Reachable, Indexed
  <2>4. CASE fd_release_destroy(v)
    <3>1. rel[v] = "held" /\ usecnt' = [usecnt EXCEPT ![v] = 0] /\ object' = object \ {v}
      BY <2>4 DEF fd_release_destroy
    <3>2. v \notin fd /\ \A t \in Threads : cur[t] # v
      BY <3>1 DEF LockInv, Filps
    <3>3. ~Indexed(v)
      BY <1>0 DEF Publication, Indexed
    <3>4. u # v
      BY <2>3, <3>2, <3>3 DEF Reachable
    <3>5. usecnt'[u] = usecnt[u]
      BY <1>0, <3>1, <3>4 DEF TypeUobj
    <3> QED
      BY <1>2, <2>3, <3>1, <3>4, <3>5
  <2>5. CASE fd_close(v) \/ fd_release_put(v)
    <3>1. usecnt' = usecnt /\ object' = object
      BY <2>5 DEF fd_close, fd_release_put
    <3> QED
      BY <1>2, <2>3, <3>1
  <2>6. CASE uverbs_uobject_fd_release(v)
    <3>1. object' = object /\ (usecnt' = usecnt \/ usecnt' = [usecnt EXCEPT ![v] = -1])
      BY <2>6 DEF uverbs_uobject_fd_release
    <3>2. usecnt'[u] = usecnt[u]
      BY <1>0, <3>1 DEF TypeUobj
    <3> QED
      BY <1>2, <2>3, <3>1, <3>2
  <2> QED
    BY <1>4, <2>4, <2>5, <2>6 DEF FdRelease
<1>5. ASSUME ib_uverbs_close \/ ib_uverbs_remove_one \/ ib_uverbs_free_hw_resources
      PROVE  u \in object'
  <2>1. UNCHANGED <<usecnt, object, idr, fd, cur>>
    BY <1>5 DEF ib_uverbs_close, ib_uverbs_remove_one, ib_uverbs_free_hw_resources, uvars, tvars
  <2> QED
    BY <1>2, <2>1 DEF Reachable, Indexed
<1> QED
  BY <1>1, <1>3, <1>4, <1>5 DEF Next

(* HwObjects is inductive, given IInv and LockInv. *)
LEMMA HwObjectsStep ==
    ASSUME IInv, IInv', LockInv, HwObjects, [Next]_vars
    PROVE  HwObjects'
<1>1. CASE Next
  BY <1>1, HwNewStep, HwReachStep, HwStableStep DEF HwObjects
<1>2. CASE UNCHANGED vars
  <2>1. UNCHANGED <<usecnt, object, idr, fd, cpc, pc, cur, new, mode>>
    BY <1>2 DEF vars, uvars, tvars, cvars
  <2> QED
    BY <2>1 DEF HwObjects, HwNew, HwReach, HwLocked, Undisturbed, Reachable, Indexed, Holding
<1> QED
  BY <1>1, <1>2

(* HwObjects holds in the initial state. *)
LEMMA HwObjectsInit == Init => HwObjects
<1> SUFFICES ASSUME Init PROVE HwObjects
  OBVIOUS
<1>1. /\ \A h \in Handles : idr[h] = Free
      /\ fd = {} /\ \A t \in Threads : cur[t] = Null /\ new[t] = Null
  BY DEF Init
<1> QED
  BY <1>1, ConstantsAssumption DEF HwObjects, HwNew, HwReach, HwLocked, Reachable, Indexed,
     Holding

============================================================================
