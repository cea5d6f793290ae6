----------------------------- MODULE UobjectUse -----------------------------
(***************************************************************************)
(* LockInv is inductive, given IInv: usecnt is an exact reader/writer      *)
(* lock, and the struct file of an FD uobject lives as long as its         *)
(* descriptor or a lookup.                                                 *)
(***************************************************************************)
EXTENDS UobjectInv, FiniteSetTheorems

USE Zenon

(* What UsecntIsALock says of one uobject. *)
LockAt(u) ==
    /\ usecnt[u] # -1 => usecnt[u] = Cardinality(Readers(u))
    /\ usecnt[u] = -1 => Readers(u) = {}
    /\ rel[u] = "held" => usecnt[u] = -1
    /\ \A t \in Threads : Owns(t, u) =>
          /\ usecnt[u] = -1 /\ rel[u] # "held"
          /\ \A s \in Threads : Owns(s, u) => s = t

(* UsecntIsALock can be shown uobject by uobject. *)
LEMMA LockIsLockAt == UsecntIsALock <=> \A u \in Uobjs : LockAt(u)
  BY DEF UsecntIsALock, LockAt

(* The set of the readers of a uobject is finite. *)
LEMMA ReadersFinite ==
    ASSUME NEW u
    PROVE  IsFiniteSet(Readers(u)) /\ Cardinality(Readers(u)) \in Nat
<1>1. Readers(u) \subseteq Threads
  BY DEF Readers
<1> QED
  BY <1>1, FS_Subset, FS_CardinalityType, ConstantsAssumption

(* The lock of u is undisturbed when its counter and its holders stay.     *)
LEMMA LockSame ==
    ASSUME NEW u \in Uobjs, LockAt(u), usecnt'[u] = usecnt[u],
           rel'[u] = "held" => rel[u] = "held",
           \A t \in Threads : Reads(t, u)' <=> Reads(t, u),
           \A t \in Threads : Owns(t, u)' => Owns(t, u)
    PROVE  LockAt(u)'
<1>1. Readers(u)' = Readers(u)
  BY DEF Readers, Reads
<1> QED
  BY <1>1 DEF LockAt

(* uverbs_try_lock_object for read: one more reader is counted. *)
LEMMA LockShared ==
    ASSUME NEW u \in Uobjs, LockAt(u), usecnt[u] \in Int, usecnt[u] # -1,
           usecnt'[u] = usecnt[u] + 1, rel'[u] = "held" => rel[u] = "held",
           NEW t \in Threads, ~Reads(t, u), Reads(t, u)',
           \A s \in Threads : s # t => (Reads(s, u)' <=> Reads(s, u)),
           \A s \in Threads : Owns(s, u)' => Owns(s, u)
    PROVE  LockAt(u)'
<1>1. Readers(u)' = Readers(u) \cup {t} /\ t \notin Readers(u)
  BY DEF Readers, Reads
<1>2. Cardinality(Readers(u)') = Cardinality(Readers(u)) + 1
  BY <1>1, ReadersFinite, FS_AddElement
<1>3. usecnt[u] = Cardinality(Readers(u)) /\ Cardinality(Readers(u)) \in Nat
  BY ReadersFinite DEF LockAt
<1> QED
  BY <1>2, <1>3, SMT DEF LockAt

(* rdma_lookup_put_uobject of a reader: one reader less is counted.        *)
LEMMA LockUnshared ==
    ASSUME NEW u \in Uobjs, LockAt(u), usecnt[u] \in Int,
           usecnt'[u] = usecnt[u] - 1, rel'[u] = "held" => rel[u] = "held",
           NEW t \in Threads, Reads(t, u), ~Reads(t, u)',
           \A s \in Threads : s # t => (Reads(s, u)' <=> Reads(s, u)),
           \A s \in Threads : Owns(s, u)' => Owns(s, u)
    PROVE  LockAt(u)'
<1>1. Readers(u)' = Readers(u) \ {t} /\ t \in Readers(u)
  BY DEF Readers, Reads
<1>2. usecnt[u] # -1
  BY <1>1 DEF LockAt
<1>3. usecnt'[u] = Cardinality(Readers(u)') /\ Cardinality(Readers(u)') \in Nat
  BY <1>1, <1>2, ReadersFinite, FS_RemoveElement, FS_CardinalityType, SMT DEF LockAt
<1> QED
  BY <1>2, <1>3, SMT DEF LockAt

(* With usecnt 0 nobody holds the lock. *)
LEMMA LockFree ==
    ASSUME NEW u \in Uobjs, LockAt(u), usecnt[u] = 0
    PROVE  Readers(u) = {} /\ rel[u] # "held" /\ \A t \in Threads : ~Owns(t, u) /\ ~Reads(t, u)
<1>1. Readers(u) = {}
  BY ReadersFinite, FS_EmptySet DEF LockAt
<1> QED
  BY <1>1, SMT DEF LockAt, Readers, Reads

(* uverbs_try_lock_object for write: from 0 to -1, with one owner.         *)
LEMMA LockTaken ==
    ASSUME NEW u \in Uobjs, LockAt(u), usecnt[u] = 0, usecnt'[u] = -1,
           \A s \in Threads : ~Reads(s, u)',
           \A s, t \in Threads : Owns(s, u)' /\ Owns(t, u)' => s = t,
           \A s \in Threads : Owns(s, u)' => rel'[u] # "held"
    PROVE  LockAt(u)'
  BY DEF LockAt, Readers, Reads

(* A counter of 0 is right when nobody holds the lock. *)
LEMMA LockDropped ==
    ASSUME NEW u \in Uobjs, usecnt'[u] = 0, rel'[u] # "held",
           \A s \in Threads : ~Reads(s, u)' /\ ~Owns(s, u)'
    PROVE  LockAt(u)'
<1>1. Readers(u)' = {}
  BY DEF Readers, Reads
<1> QED
  BY <1>1, FS_EmptySet DEF LockAt

(* A command that changes neither usecnt nor what its thread holds.        *)
LEMMA LockQuiet ==
    ASSUME UsecntIsALock, usecnt' = usecnt, NEW t \in Threads, OthersSame(t),
           \A u \in Uobjs : rel'[u] = "held" => rel[u] = "held",
           \A u \in Uobjs : Reads(t, u)' <=> Reads(t, u),
           \A u \in Uobjs : Owns(t, u)' => Owns(t, u)
    PROVE  UsecntIsALock'
<1>1. ASSUME NEW u \in Uobjs PROVE LockAt(u)'
  <2>1. LockAt(u)
    BY LockIsLockAt
  <2>2. \A s \in Threads : (Reads(s, u)' <=> Reads(s, u)) /\ (Owns(s, u)' => Owns(s, u))
    BY OthersGrip
  <2> QED
    BY <2>1, <2>2, LockSame
<1> QED
  BY <1>1 DEF UsecntIsALock, LockAt

(* The steps of a command that change the lock of no uobject. *)
LEMMA LockQuietSteps ==
    ASSUME IInv, LockInv, NEW t \in Threads,
           \/ ib_uverbs_ioctl(t) \/ ib_uverbs_ioctl_end(t) \/ ib_init_ucontext(t) \/ handler(t)
           \/ xa_load(t) \/ lookup_get_idr_uobject(t) \/ lookup_get_fd_uobject(t)
           \/ rdma_assign_uobject(t) \/ uverbs_destroy_uobject(t)
    PROVE  UsecntIsALock'
<1>0. TypeThread /\ ThreadShape /\ UsecntIsALock
  BY DEF IInv, TypeOK, LockInv
<1>1. OthersSame(t)
  BY OthersStay DEF Command, IInv
<1>2. usecnt' = usecnt /\ rel' = rel
  BY DEF ib_uverbs_ioctl, ib_uverbs_ioctl_end, ib_init_ucontext, handler, xa_load,
     lookup_get_idr_uobject, lookup_get_fd_uobject, rdma_assign_uobject, uverbs_destroy_uobject,
     uvars
<1>3. ASSUME NEW u \in Uobjs
      PROVE  (Reads(t, u)' <=> Reads(t, u)) /\ (Owns(t, u)' => Owns(t, u))
  <2>1. CASE ib_uverbs_ioctl(t) \/ ib_uverbs_ioctl_end(t) \/ ib_init_ucontext(t)
    <3>1. UNCHANGED <<cur, new, mode>> /\ cur[t] = Null
      BY <1>0, <2>1 DEF ib_uverbs_ioctl, ib_uverbs_ioctl_end, ib_init_ucontext, ThreadShape
    <3> QED
      BY <3>1, ConstantsAssumption DEF Reads, Owns, Holding
  <2>2. CASE handler(t)
    <3>1. UNCHANGED <<cur, new, mode>> /\ pc[t] = "new" /\ pc'[t] \in {"created", "abort"}
      BY <1>0, <2>2 DEF handler, TypeThread
    <3> QED
      BY <3>1, ConstantsAssumption DEF Reads, Owns, Holding
  <2>3. CASE xa_load(t)
    <3>1. new' = new /\ pc'[t] = "rcu" /\ cur[t] = Null
      BY <1>0, <2>3 DEF xa_load, TypeThread, ThreadShape
    <3> QED
      BY <3>1, ConstantsAssumption DEF Reads, Owns, Holding
  <2>4. CASE lookup_get_idr_uobject(t)
    <3>1. new' = new /\ pc[t] = "rcu" /\ (pc'[t] = "got" \/ cur'[t] = Null)
      BY <1>0, <2>4 DEF lookup_get_idr_uobject, TypeThread
    <3> QED
      BY <3>1, ConstantsAssumption DEF Reads, Owns, Holding
  <2>5. CASE lookup_get_fd_uobject(t)
    <3>1. new' = new /\ pc'[t] = "got" /\ cur[t] = Null
      BY <1>0, <2>5 DEF lookup_get_fd_uobject, TypeThread, ThreadShape
    <3> QED
      BY <3>1, ConstantsAssumption DEF Reads, Owns, Holding
  <2>6. CASE rdma_assign_uobject(t)
    <3>1. /\ UNCHANGED <<cur, new>> /\ pc[t] = "created" /\ pc'[t] = "destroy"
          /\ mode[t] = "WRITE" /\ mode'[t] = "DESTROY" /\ cur[t] # Null
      BY <1>0, <2>6 DEF rdma_assign_uobject, TypeThread, Rereg
    <3> QED
      BY <3>1, ConstantsAssumption DEF Reads, Owns, Holding
  <2>7. CASE uverbs_destroy_uobject(t)
    <3>1. /\ UNCHANGED <<cur, new, mode>> /\ pc[t] = "unlink" /\ pc'[t] \in {"put", "commit"}
          /\ mode[t] = "DESTROY"
      BY <1>0, <2>7 DEF uverbs_destroy_uobject, TypeThread, ThreadShape
    <3> QED
      BY <3>1, ConstantsAssumption DEF Reads, Owns, Holding
  <2> QED
    BY <2>1, <2>2, <2>3, <2>4, <2>5, <2>6, <2>7
<1> QED
  BY <1>0, <1>1, <1>2, <1>3, LockQuiet

(* The uobject a command touches, and the rest. *)
LEMMA LockTouched ==
    ASSUME UsecntIsALock, NEW v \in Uobjs, NEW t \in Threads, OthersSame(t),
           \A u \in Uobjs \ {v} :
              /\ usecnt'[u] = usecnt[u] /\ (rel'[u] = "held" => rel[u] = "held")
              /\ (Reads(t, u)' <=> Reads(t, u)) /\ (Owns(t, u)' => Owns(t, u)),
           LockAt(v)'
    PROVE  UsecntIsALock'
<1>1. ASSUME NEW u \in Uobjs, u # v PROVE LockAt(u)'
  <2>1. LockAt(u)
    BY LockIsLockAt
  <2>2. \A s \in Threads : (Reads(s, u)' <=> Reads(s, u)) /\ (Owns(s, u)' => Owns(s, u))
    BY <1>1, OthersGrip
  <2> QED
    BY <1>1, <2>1, <2>2, LockSame
<1> QED
  BY <1>1, SMT DEF UsecntIsALock, LockAt

(* alloc_uobj creates a uobject write locked; it has no other holder.      *)
LEMMA LockAllocStep ==
    ASSUME IInv, LockInv, NEW t \in Threads, rdma_alloc_begin_uobject(t)
    PROVE  UsecntIsALock'
<1>0. TypeThread /\ TypeUobj /\ ThreadShape /\ UsecntIsALock /\ Publication
  BY DEF IInv, TypeOK, LockInv
<1>1. OthersSame(t)
  BY OthersStay DEF Command, IInv
<1>2. /\ UNCHANGED <<cur, mode, rel>> /\ pc[t] \in {"cmd", "locked"}
      /\ pc'[t] \in {"put", "exit", "new", "context"}
  BY <1>0 DEF rdma_alloc_begin_uobject, ib_uverbs_get_context, alloc_begin_fd_uobject,
       alloc_begin_idr_uobject, alloc_uobj, TypeThread, Leave
<1>3. \A u \in Uobjs : Reads(t, u)' <=> Reads(t, u)
  BY <1>2 DEF Reads, Holding
<1>4. CASE UNCHANGED <<usecnt, new>>
  <2>1. \A u \in Uobjs : Owns(t, u)' => Owns(t, u)
    BY <1>2, <1>4 DEF Owns, Holding
  <2> QED
    BY <1>0, <1>1, <1>2, <1>3, <1>4, <2>1, LockQuiet
<1>5. CASE \E u \in Uobjs \ born, next \in {"new", "context"} : alloc_uobj(t, u, next)
  <2> PICK v \in Uobjs \ born, next \in {"new", "context"} : alloc_uobj(t, v, next)
    BY <1>5
  <2>1. /\ usecnt' = [usecnt EXCEPT ![v] = -1] /\ new' = [new EXCEPT ![t] = v]
    BY DEF alloc_uobj
  <2>2. \A u \in Uobjs \ {v} : usecnt'[u] = usecnt[u] /\ (Owns(t, u)' => Owns(t, u))
    BY <1>0, <1>2, <2>1 DEF Owns, Holding, TypeUobj, TypeThread
  <2>3. \A s \in Threads : cur[s] # v /\ new[s] # v
    BY <1>0, ConstantsAssumption, SMT DEF Publication, TypeThread
  <2>4. /\ usecnt'[v] = -1 /\ rel'[v] # "held"
        /\ \A s \in Threads : ~Reads(s, v)' /\ (Owns(s, v)' => s = t)
    BY <1>0, <1>1, <1>2, <2>1, <2>3, SMT DEF Publication, Reads, Owns, OthersSame, TypeUobj
  <2>5. LockAt(v)'
    BY <2>4 DEF LockAt, Readers, Reads
  <2> QED
    BY <1>0, <1>1, <1>2, <1>3, <2>2, <2>5, LockTouched
<1>6. FdUobjs \subseteq Uobjs
  BY ConstantsAssumption
<1>7. CASE MayAlloc(t) /\ \E u \in Uobjs \ born :
              \/ u \in IdrUobjs /\ \E h \in Handles : alloc_begin_idr_uobject(t, u, h)
              \/ u \in FdUobjs /\ ~Rereg(t) /\ alloc_begin_fd_uobject(t, u, "new")
  BY <1>5, <1>7 DEF alloc_begin_fd_uobject, alloc_begin_idr_uobject
<1>8. CASE ib_uverbs_get_context(t)
  BY <1>5, <1>6, <1>8 DEF ib_uverbs_get_context, alloc_begin_fd_uobject
<1> QED
  BY <1>4, <1>7, <1>8 DEF rdma_alloc_begin_uobject

(* Commit and abort unlock the uobject that was created. *)
LEMMA LockEndStep ==
    ASSUME IInv, LockInv, NEW t \in Threads,
           rdma_alloc_commit_uobject(t) \/ rdma_alloc_abort_uobject(t)
    PROVE  UsecntIsALock'
<1>0. TypeThread /\ TypeUobj /\ ThreadShape /\ UsecntIsALock /\ Publication
  BY DEF IInv, TypeOK, LockInv
<1>1. OthersSame(t)
  BY OthersStay DEF Command, IInv
<1>2. /\ UNCHANGED <<cur, mode>> /\ pc[t] \in {"created", "commit", "abort"}
      /\ pc'[t] \in {"put", "exit"} /\ new[t] \in Uobjs /\ new' = [new EXCEPT ![t] = Null]
      /\ usecnt' = [usecnt EXCEPT ![new[t]] = 0]
      /\ rel' = rel \/ rel' = [rel EXCEPT ![new[t]] = "armed"]
  BY <1>0 DEF rdma_alloc_commit_uobject, rdma_alloc_abort_uobject, TypeThread, Leave, ThreadShape
<1>v. PICK v \in Uobjs : v = new[t]
  BY <1>2
<1>3. \A u \in Uobjs \ {v} :
              /\ usecnt'[u] = usecnt[u] /\ (rel'[u] = "held" => rel[u] = "held")
              /\ (Reads(t, u)' <=> Reads(t, u)) /\ (Owns(t, u)' => Owns(t, u))
  <2>1. \A u \in Uobjs \ {v} : usecnt'[u] = usecnt[u] /\ (rel'[u] = "held" => rel[u] = "held")
    BY <1>0, <1>2, <1>v DEF TypeUobj
  <2>2. \A u \in Uobjs \ {v} : (Reads(t, u)' <=> Reads(t, u)) /\ (Owns(t, u)' => Owns(t, u))
    BY <1>0, <1>2, <1>v, ConstantsAssumption DEF Reads, Owns, Holding, TypeThread
  <2> QED
    BY <2>1, <2>2
<1>4. /\ rel[v] = "none" /\ \A s \in Threads : cur[s] # v /\ (s # t => new[s] # v)
  BY <1>0, <1>2, <1>v, ConstantsAssumption DEF Publication
<1>5. usecnt'[v] = 0 /\ rel'[v] # "held" /\ new'[t] = Null
  BY <1>0, <1>2, <1>v, <1>4 DEF TypeUobj, TypeThread
<1>6. \A s \in Threads : ~Reads(s, v)' /\ ~Owns(s, v)'
  BY <1>1, <1>2, <1>4, <1>5, ConstantsAssumption, SMT DEF Reads, Owns, OthersSame
<1>7. LockAt(v)'
  BY <1>5, <1>6, LockDropped
<1> QED
  BY <1>0, <1>1, <1>2, <1>3, <1>7, LockTouched

(* rdma_lookup_get_uobject takes the lock that it asks for. *)
LEMMA LockLookupStep ==
    ASSUME IInv, LockInv, NEW t \in Threads, rdma_lookup_get_uobject(t)
    PROVE  UsecntIsALock'
<1>0. TypeThread /\ TypeUobj /\ ThreadShape /\ UsecntIsALock
  BY DEF IInv, TypeOK, LockInv
<1>1. OthersSame(t)
  BY OthersStay DEF Command, IInv
<1>2. rel' = rel /\ new' = new /\ mode' = mode /\ pc[t] = "got" /\ (Granted(t) \/ Refused(t))
  BY LookupGet
<1>3. CASE Refused(t)
  <2>1. usecnt' = usecnt /\ cur'[t] = Null
    BY <1>0, <1>3 DEF Refused, lookup_put, TypeThread
  <2>2. \A u \in Uobjs : (Reads(t, u)' <=> Reads(t, u)) /\ (Owns(t, u)' => Owns(t, u))
    BY <1>2, <2>1, ConstantsAssumption DEF Reads, Owns, Holding
  <2> QED
    BY <1>0, <1>1, <1>2, <2>1, <2>2, LockQuiet
<1>4. CASE Granted(t)
  <2>v. PICK v \in Uobjs : v = cur[t]
    BY <1>2, <1>4, GrantedMeans
  <2>1. /\ cur' = cur /\ pc'[t] = "locked" /\ usecnt' = [usecnt EXCEPT ![v] = Lock(v, mode[t])]
        /\ v # Null
    BY <1>0, <1>2, <1>4, <2>v, ConstantsAssumption DEF Granted, TypeThread, ThreadShape
  <2>2. mode[t] \in {"READ", "WRITE"} /\ CanLock(v, mode[t]) /\ usecnt[v] # -1
    BY <1>2, <1>4, <2>v, GrantedMeans
  <2>3. usecnt[v] \in Int /\ usecnt'[v] = Lock(v, mode[t]) /\ LockAt(v)
    BY <1>0, <2>1, LockIsLockAt DEF TypeUobj
  <2>4. \A s \in Threads : s # t => (Reads(s, v)' <=> Reads(s, v)) /\ (Owns(s, v)' <=> Owns(s, v))
    BY <1>1, OthersGrip
  <2>5. ~Reads(t, v) /\ ~Owns(t, v)
    <3>1. new[t] = Null
      BY <1>0, <1>2 DEF ThreadShape
    <3> QED
      BY <1>2, <2>1, <2>v, <3>1 DEF Reads, Owns, Holding
  <2>6. CASE mode[t] = "READ"
    <3>1. usecnt'[v] = usecnt[v] + 1
      BY <2>3, <2>6 DEF Lock
    <3>2. Reads(t, v)' /\ ~Owns(t, v)'
      <4>1. new'[t] = Null
        BY <1>0, <1>2 DEF ThreadShape
      <4> QED
        BY <1>2, <2>1, <2>v, <2>6, <4>1 DEF Reads, Owns, Holding
    <3> QED
      <4>1. LockAt(v)'
        BY <1>2, <2>1, <2>2, <2>3, <2>4, <2>5, <3>1, <3>2, LockShared
      <4>2. \A u \in Uobjs \ {v} : usecnt'[u] = usecnt[u]
        BY <1>0, <2>1 DEF TypeUobj
      <4>3. \A u \in Uobjs \ {v} : (Reads(t, u)' <=> Reads(t, u)) /\ (Owns(t, u)' => Owns(t, u))
        BY <1>2, <2>1, <2>v, <2>6 DEF Reads, Owns, Holding
      <4> QED
        BY <1>0, <1>1, <1>2, <2>1, <4>1, <4>2, <4>3, LockTouched
  <2>7. CASE mode[t] = "WRITE"
    <3>1. usecnt'[v] = -1 /\ usecnt[v] = 0
      BY <2>2, <2>3, <2>7 DEF Lock, CanLock
    <3>2. Readers(v) = {} /\ rel[v] # "held" /\ \A s \in Threads : ~Owns(s, v) /\ ~Reads(s, v)
      BY <2>1, <2>3, <3>1, LockFree
    <3>3. ~Reads(t, v)'
      BY <1>2, <2>7 DEF Reads
    <3> QED
      <4>1. LockAt(v)'
        BY <1>2, <2>1, <2>3, <2>4, <3>1, <3>2, <3>3, LockTaken
      <4>2. \A u \in Uobjs \ {v} : usecnt'[u] = usecnt[u]
        BY <1>0, <2>1 DEF TypeUobj
      <4>3. \A u \in Uobjs \ {v} : (Reads(t, u)' <=> Reads(t, u)) /\ (Owns(t, u)' => Owns(t, u))
        BY <1>2, <2>1, <2>v, <2>7 DEF Reads, Owns, Holding
      <4> QED
        BY <1>0, <1>1, <1>2, <2>1, <4>1, <4>2, <4>3, LockTouched
  <2> QED
    BY <2>2, <2>6, <2>7
<1> QED
  BY <1>2, <1>3, <1>4

(* rdma_lookup_put_uobject gives back the lock that was taken. *)
LEMMA LockPutStep ==
    ASSUME IInv, LockInv, NEW t \in Threads, rdma_lookup_put_uobject(t)
    PROVE  UsecntIsALock'
<1>0. TypeThread /\ TypeUobj /\ ThreadShape /\ UsecntIsALock
  BY DEF IInv, TypeOK, LockInv
<1>1. OthersSame(t)
  BY OthersStay DEF Command, IInv
<1>v. PICK v \in Uobjs : v = cur[t]
  BY <1>0 DEF rdma_lookup_put_uobject, TypeThread, ThreadShape
<1>2. /\ UNCHANGED <<new, mode, rel>> /\ pc[t] \in {"locked", "put"}
      /\ cur'[t] = Null /\ usecnt' = [usecnt EXCEPT ![v] = Unlock(v, mode[t])]
  BY <1>0, <1>v DEF rdma_lookup_put_uobject, lookup_put, TypeThread
<1>3. new[t] = Null /\ new'[t] = Null
  BY <1>0, <1>2 DEF ThreadShape
<1>4. \A u \in Uobjs : ~Reads(t, u)' /\ ~Owns(t, u)'
  BY <1>2, <1>3, ConstantsAssumption DEF Reads, Owns, Holding
<1>5. \A u \in Uobjs \ {v} : usecnt'[u] = usecnt[u] /\ ~Reads(t, u)
  BY <1>0, <1>2, <1>v DEF TypeUobj, Reads
<1>6. usecnt[v] \in Int /\ usecnt'[v] = Unlock(v, mode[t]) /\ LockAt(v)
  BY <1>0, <1>2, LockIsLockAt DEF TypeUobj
<1>7. \A s \in Threads : s # t => (Reads(s, v)' <=> Reads(s, v)) /\ (Owns(s, v)' <=> Owns(s, v))
  BY <1>1, OthersGrip
<1>8. LockAt(v)'
  <2>1. CASE mode[t] = "READ"
    <3>1. Reads(t, v) /\ usecnt'[v] = usecnt[v] - 1
      BY <1>2, <1>v, <1>6, <2>1, ConstantsAssumption DEF Reads, Holding, Unlock
    <3> QED
      BY <1>2, <1>4, <1>6, <1>7, <3>1, LockUnshared
  <2>2. CASE mode[t] = "WRITE"
    <3>1. Owns(t, v) /\ usecnt'[v] = 0
      BY <1>2, <1>v, <1>6, <2>2, ConstantsAssumption DEF Owns, Holding, Unlock
    <3>2. usecnt[v] = -1 /\ rel[v] # "held" /\ Readers(v) = {} /\ \A s \in Threads : Owns(s, v) => s = t
      BY <1>6, <3>1 DEF LockAt
    <3>3. \A s \in Threads : ~Reads(s, v)
      BY <3>2 DEF Readers, Reads
    <3> QED
      BY <1>2, <1>4, <1>7, <3>1, <3>2, <3>3, LockDropped
  <2>3. CASE mode[t] = "DESTROY"
    <3>1. usecnt'[v] = usecnt[v] /\ ~Reads(t, v)
      BY <1>6, <2>3 DEF Reads, Unlock
    <3> QED
      BY <1>2, <1>4, <1>6, <1>7, <3>1, LockSame
  <2> QED
    BY <1>0, <2>1, <2>2, <2>3 DEF TypeThread, Modes
<1> QED
  BY <1>0, <1>1, <1>2, <1>4, <1>5, <1>8, LockTouched

(* uobj_destroy takes the write lock, a refusal of destroy_hw gives it     *)
(* back.                                                                   *)
LEMMA LockDestroyStep ==
    ASSUME IInv, LockInv, NEW t \in Threads, uobj_destroy(t) \/ destroy_hw(t)
    PROVE  UsecntIsALock'
<1>0. TypeThread /\ TypeUobj /\ ThreadShape /\ UsecntIsALock
  BY DEF IInv, TypeOK, LockInv
<1>1. OthersSame(t)
  BY OthersStay DEF Command, IInv
<1>v. PICK v \in Uobjs : v = cur[t]
  BY <1>0 DEF uobj_destroy, destroy_hw, TypeThread, ThreadShape
<1>2. /\ UNCHANGED <<cur, new, mode, rel>> /\ pc[t] \in {"got", "destroy"} /\ mode[t] = "DESTROY"
      /\ pc'[t] \in {"put", "destroy", "unlink", "commit"}
  BY <1>0 DEF uobj_destroy, destroy_hw, TypeThread, ThreadShape
<1>3. \A u \in Uobjs : ~Reads(t, u)' /\ ~Reads(t, u)
  BY <1>2 DEF Reads
<1>4. \A u \in Uobjs \ {v} : Owns(t, u)' => Owns(t, u)
  BY <1>2, <1>v DEF Owns, Holding
<1>5. LockAt(v) /\ usecnt[v] \in Int
  BY <1>0, LockIsLockAt DEF TypeUobj
<1>6. \A s \in Threads : s # t => (Reads(s, v)' <=> Reads(s, v)) /\ (Owns(s, v)' <=> Owns(s, v))
  BY <1>1, OthersGrip
<1>7. CASE uobj_destroy(t) /\ usecnt[v] = 0
  <2>1. usecnt' = [usecnt EXCEPT ![v] = -1]
    BY <1>7, <1>v DEF uobj_destroy, CanLock
  <2>2. usecnt'[v] = -1 /\ \A u \in Uobjs \ {v} : usecnt'[u] = usecnt[u]
    BY <1>0, <2>1 DEF TypeUobj
  <2>3. rel[v] # "held" /\ \A s \in Threads : ~Owns(s, v) /\ ~Reads(s, v)
    BY <1>5, <1>7, LockFree
  <2>4. LockAt(v)'
    BY <1>2, <1>3, <1>5, <1>6, <1>7, <2>2, <2>3, LockTaken
  <2> QED
    BY <1>0, <1>1, <1>2, <1>3, <1>4, <2>2, <2>4, LockTouched
<1>8. CASE destroy_hw(t) /\ usecnt' # usecnt
  <2>1. usecnt' = [usecnt EXCEPT ![v] = 0] /\ pc[t] = "destroy" /\ pc'[t] = "put" /\ new[t] = Null
    BY <1>0, <1>8, <1>v DEF destroy_hw, TypeThread
  <2>2. usecnt'[v] = 0 /\ \A u \in Uobjs \ {v} : usecnt'[u] = usecnt[u]
    BY <1>0, <2>1 DEF TypeUobj
  <2>3. Owns(t, v)
    BY <2>1, <1>v DEF Owns
  <2>4. rel[v] # "held" /\ Readers(v) = {} /\ \A s \in Threads : Owns(s, v) => s = t
    BY <1>5, <2>3 DEF LockAt
  <2>5. \A s \in Threads : ~Reads(s, v)' /\ ~Owns(s, v)'
    <3>1. ~Owns(t, v)'
      BY <1>2, <2>1, ConstantsAssumption DEF Owns, Holding
    <3> QED
      BY <1>3, <1>6, <2>4, <3>1 DEF Readers, Reads
  <2>6. LockAt(v)'
    BY <1>2, <2>2, <2>4, <2>5, LockDropped
  <2> QED
    BY <1>0, <1>1, <1>2, <1>3, <1>4, <2>2, <2>6, LockTouched
<1>9. CASE usecnt' = usecnt /\ ~(uobj_destroy(t) /\ usecnt[v] = 0)
  <2>1. Owns(t, v)' => Owns(t, v)
    <3>1. CASE destroy_hw(t)
      BY <1>v, <3>1 DEF destroy_hw, Owns
    <3>2. CASE uobj_destroy(t)
      <4>1. pc'[t] = "put"
        BY <1>0, <1>9, <3>2, <1>v DEF uobj_destroy, CanLock, TypeThread
      <4> QED
        BY <1>2, <4>1 DEF Owns, Holding
    <3> QED
      BY <3>1, <3>2
  <2> QED
    BY <1>0, <1>1, <1>2, <1>3, <1>4, <1>9, <2>1, LockQuiet
<1> QED
  <2>1. uobj_destroy(t) /\ usecnt[v] # 0 => usecnt' = usecnt
    BY <1>v DEF uobj_destroy, CanLock
  <2> QED
    BY <1>7, <1>8, <1>9, <2>1

(* When the last reference on a struct file is gone nobody has, or can     *)
(* get, its uobject.                                                       *)
LEMMA FdUnlocked ==
    ASSUME IInv, LockInv, NEW u \in FdUobjs, rel[u] = "armed", filp[u] = 0
    PROVE  usecnt[u] = 0 /\ u \notin fd /\ \A t \in Threads : cur[t] # u
<1>0. u \in Uobjs /\ TypeUobj /\ ThreadShape /\ Publication /\ LockAt(u) /\ Filps /\ FdLocks
  BY ConstantsAssumption, LockIsLockAt DEF IInv, TypeOK, LockInv
<1>1. IsFiniteSet(Krefs(u)) /\ Cardinality(Krefs(u)) \in Nat
  <2>1. Krefs(u) \subseteq Threads
    BY DEF Krefs
  <2> QED
    BY <2>1, FS_Subset, FS_CardinalityType, ConstantsAssumption
<1>2. Cardinality(Krefs(u)) = 0 /\ u \notin fd
  BY <1>0, <1>1, SMT DEF Filps, One
<1>3. Krefs(u) = {}
  BY <1>1, <1>2, FS_EmptySet
<1>4. \A t \in Threads : cur[t] # u
  BY <1>0, <1>3 DEF Krefs, ThreadShape
<1>5. ~Creating(u)
  BY <1>0, ConstantsAssumption DEF Publication, Creating
<1>6. usecnt[u] # -1
  BY <1>0, <1>5 DEF FdLocks
<1>7. Readers(u) = {}
  BY <1>4 DEF Readers
<1> QED
  BY <1>0, <1>2, <1>4, <1>6, <1>7, FS_EmptySet DEF LockAt

(* The release of a struct file locks its uobject and unlocks it.          *)
LEMMA LockFdStep ==
    ASSUME IInv, LockInv, NEW v \in FdUobjs, fd_close(v) \/ FdRelease(v)
    PROVE  UsecntIsALock'
<1>0. v \in Uobjs /\ TypeUobj /\ ThreadShape /\ Publication /\ UsecntIsALock
  BY ConstantsAssumption DEF IInv, TypeOK, LockInv
<1>1. UNCHANGED tvars
  BY DEF fd_close, FdRelease, uverbs_uobject_fd_release, fd_release_destroy, fd_release_put
<1>2. \A s \in Threads, u \in Uobjs :
         (Reads(s, u)' <=> Reads(s, u)) /\ (Owns(s, u)' <=> Owns(s, u))
  BY <1>1, ThreadsRest
<1>3. \A u \in Uobjs : LockAt(u)
  BY <1>0, LockIsLockAt
<1>4. \A u \in Uobjs \ {v} : usecnt'[u] = usecnt[u] /\ rel'[u] = rel[u]
  BY <1>0 DEF fd_close, FdRelease, uverbs_uobject_fd_release, fd_release_destroy, fd_release_put,
     TypeUobj
<1>5. \A u \in Uobjs \ {v} : LockAt(u)'
  BY <1>2, <1>3, <1>4, LockSame
<1>6. LockAt(v)'
  <2>1. CASE fd_close(v) \/ fd_release_put(v)
    <3>1. usecnt' = usecnt /\ (rel'[v] = "held" => rel[v] = "held")
      BY <1>0, <2>1 DEF fd_close, fd_release_put, TypeUobj
    <3> QED
      BY <1>0, <1>2, <1>3, <3>1, LockSame
  <2>2. CASE uverbs_uobject_fd_release(v) /\ CanRead
    <3>1. usecnt[v] = 0
      BY <2>2, FdUnlocked DEF uverbs_uobject_fd_release
    <3>2. usecnt' = [usecnt EXCEPT ![v] = -1]
      BY <2>2, <3>1 DEF uverbs_uobject_fd_release, CanLock
    <3>3. usecnt'[v] = -1
      BY <1>0, <3>2 DEF TypeUobj
    <3>4. \A s \in Threads : ~Owns(s, v) /\ ~Reads(s, v)
      BY <1>0, <1>3, <3>1, LockFree
    <3> QED
      BY <1>0, <1>2, <1>3, <3>1, <3>3, <3>4, LockTaken
  <2>3. CASE uverbs_uobject_fd_release(v) /\ ~CanRead
    <3>1. usecnt' = usecnt /\ rel'[v] # "held"
      BY <1>0, <2>3 DEF uverbs_uobject_fd_release, TypeUobj
    <3> QED
      BY <1>0, <1>2, <1>3, <3>1, LockSame
  <2>4. CASE fd_release_destroy(v)
    <3>1. usecnt'[v] = 0 /\ rel'[v] # "held" /\ rel[v] = "held"
      BY <1>0, <2>4 DEF fd_release_destroy, TypeUobj
    <3>2. Readers(v) = {} /\ \A s \in Threads : ~Owns(s, v)
      BY <1>0, <1>3, <3>1 DEF LockAt
    <3>3. \A s \in Threads : ~Reads(s, v)' /\ ~Owns(s, v)'
      BY <1>0, <1>2, <3>2 DEF Readers, Reads
    <3> QED
      BY <1>0, <3>1, <3>3, LockDropped
  <2> QED
    BY <2>1, <2>2, <2>3, <2>4 DEF FdRelease
<1> QED
  BY <1>5, <1>6 DEF UsecntIsALock, LockAt

(* Cleanup unlocks, or leaves alone. *)
LEMMA CleanUnlocks ==
    ASSUME TypeUobj, NEW c \in Cleaners, Cleanup(c)
    PROVE  \A u \in Uobjs : usecnt'[u] = usecnt[u] \/ (usecnt'[u] = 0 /\ cpc[c] = "pass")
<1>1. CASE uverbs_destroy_ufile_hw(c) \/ up_write(c)
  <2>1. usecnt' = usecnt
    BY <1>1 DEF uverbs_destroy_ufile_hw, up_write, uvars
  <2> QED
    BY <2>1
<1>2. CASE uverbs_cleanup_ufile(c)
  <2>1. cpc[c] = "pass" /\ \E v \in Uobjs : usecnt' = [usecnt EXCEPT ![v] = 0]
    BY <1>2 DEF uverbs_cleanup_ufile, Cleaned
  <2> QED
    BY <2>1 DEF TypeUobj
<1>3. CASE cleanup_pass_end(c)
  <2>1. \/ usecnt' = usecnt
        \/ usecnt' = [u \in Uobjs |-> IF u \in Linked THEN 0 ELSE usecnt[u]]
    BY <1>3 DEF cleanup_pass_end, uvars
  <2>2. cpc[c] = "pass"
    BY <1>3 DEF cleanup_pass_end
  <2> QED
    BY <2>1, <2>2
<1> QED
  BY <1>1, <1>2, <1>3 DEF Cleanup

(* Cleanup unlocks uobjects that nobody has locked. *)
LEMMA LockCleanStep ==
    ASSUME IInv, LockInv, NEW c \in Cleaners, Cleanup(c)
    PROVE  UsecntIsALock'
<1>0. TypeUobj /\ TypeClean /\ Publication /\ UsecntIsALock
  BY DEF IInv, TypeOK, LockInv
<1>1. UNCHANGED tvars /\ rel' = rel
  BY DEF Cleanup, uverbs_destroy_ufile_hw, uverbs_cleanup_ufile, cleanup_pass_end, up_write, uvars
<1>2. \A s \in Threads, u \in Uobjs :
         (Reads(s, u)' <=> Reads(s, u)) /\ (Owns(s, u)' <=> Owns(s, u))
  BY <1>1, ThreadsRest
<1>3. \A u \in Uobjs : LockAt(u)
  BY <1>0, LockIsLockAt
<1>4. \A u \in Uobjs : usecnt'[u] = usecnt[u] \/ (usecnt'[u] = 0 /\ cpc[c] = "pass")
  BY <1>0, CleanUnlocks
<1>5. ASSUME NEW u \in Uobjs PROVE LockAt(u)'
  <2>1. CASE usecnt'[u] = usecnt[u]
    BY <1>1, <1>2, <1>3, <2>1, LockSame
  <2>2. CASE usecnt'[u] = 0 /\ cpc[c] = "pass"
    <3>1. /\ \A t \in Threads : /\ ~Holding(t) /\ new[t] = Null
                                 /\ pc[t] \notin {"destroy", "unlink"}
          /\ \A f \in FdUobjs : rel[f] # "held"
      BY <2>2, CleanerAlone
    <3>2. rel'[u] # "held"
      BY <1>0, <1>1, <3>1 DEF Publication
    <3>3. \A s \in Threads : ~Reads(s, u) /\ ~Owns(s, u)
      BY <3>1, ConstantsAssumption DEF Reads, Owns
    <3> QED
      BY <1>2, <2>2, <3>2, <3>3, LockDropped
  <2> QED
    BY <1>4, <2>1, <2>2
<1> QED
  BY <1>5 DEF UsecntIsALock, LockAt

(* usecnt stays an exact lock. *)
LEMMA UsecntStep ==
    ASSUME IInv, LockInv, Next
    PROVE  UsecntIsALock'
<1>1. ASSUME NEW t \in Threads, Command(t) PROVE UsecntIsALock'
  BY <1>1, LockQuietSteps, LockAllocStep, LockEndStep, LockLookupStep, LockPutStep,
     LockDestroyStep DEF Command
<1>2. ASSUME \/ ib_uverbs_close \/ close_put \/ ib_uverbs_remove_one
             \/ ib_uverbs_free_hw_resources \/ remove_put
      PROVE  UsecntIsALock'
  <2>1. UNCHANGED <<usecnt, rel, tvars>>
    BY <1>2 DEF ib_uverbs_close, close_put, ib_uverbs_remove_one, ib_uverbs_free_hw_resources,
       remove_put, uvars
  <2>2. \A u \in Uobjs : LockAt(u)
    BY LockIsLockAt DEF LockInv
  <2>3. \A u \in Uobjs : LockAt(u)'
    BY <2>1, <2>2, ThreadsRest, LockSame
  <2> QED
    BY <2>3 DEF UsecntIsALock, LockAt
<1> QED
  BY <1>1, <1>2, LockFdStep, LockCleanStep DEF Next

----------------------------------------------------------------------------
(* The struct files. *)

(* What Filps says of one FD uobject. *)
FilpAt(u) ==
    /\ Creating(u) => filp[u] = 1
    /\ u \in fd => rel[u] = "armed"
    /\ \A t \in Threads : cur[t] = u => rel[u] = "armed"
    /\ rel[u] = "armed" => filp[u] = Cardinality(Krefs(u)) + One(u \in fd)

(* Filps can be shown uobject by uobject. *)
LEMMA FilpsIsFilpAt == Filps <=> \A u \in FdUobjs : FilpAt(u)
  BY DEF Filps, FilpAt

(* The lookups in progress of a uobject are finitely many. *)
LEMMA KrefsFinite ==
    ASSUME NEW u
    PROVE  IsFiniteSet(Krefs(u)) /\ Cardinality(Krefs(u)) \in Nat
<1>1. Krefs(u) \subseteq Threads
  BY DEF Krefs
<1> QED
  BY <1>1, FS_Subset, FS_CardinalityType, ConstantsAssumption

(* How the lookups in progress of u change: not at all, *)
LEMMA KrefsSame ==
    ASSUME NEW u, \A t \in Threads : (cur'[t] = u /\ pc'[t] # "rcu") <=> (cur[t] = u /\ pc[t] # "rcu")
    PROVE  Krefs(u)' = Krefs(u)
  BY DEF Krefs

(* ... by the lookup of t, *)
LEMMA KrefsAdd ==
    ASSUME NEW u, NEW t \in Threads, OthersSame(t), ~(cur[t] = u /\ pc[t] # "rcu"),
           cur'[t] = u, pc'[t] # "rcu"
    PROVE  Cardinality(Krefs(u)') = Cardinality(Krefs(u)) + 1
<1>1. Krefs(u)' = Krefs(u) \cup {t} /\ t \notin Krefs(u)
  BY DEF Krefs, OthersSame
<1> QED
  BY <1>1, KrefsFinite, FS_AddElement

(* ... or by the end of that lookup. *)
LEMMA KrefsRemove ==
    ASSUME NEW u, NEW t \in Threads, OthersSame(t), ~(cur'[t] = u /\ pc'[t] # "rcu"),
           cur[t] = u, pc[t] # "rcu"
    PROVE  Cardinality(Krefs(u)') = Cardinality(Krefs(u)) - 1
<1>1. Krefs(u)' = Krefs(u) \ {t} /\ t \in Krefs(u)
  BY DEF Krefs, OthersSame
<1> QED
  BY <1>1, KrefsFinite, FS_RemoveElement

(* The struct file of u is undisturbed when its users stay. *)
LEMMA FilpSame ==
    ASSUME NEW u \in FdUobjs, FilpAt(u), filp'[u] = filp[u], rel'[u] = rel[u],
           u \in fd' <=> u \in fd,
           \A t \in Threads : cur'[t] = u => cur[t] = u,
           \A t \in Threads : new'[t] = u => new[t] = u,
           Krefs(u)' = Krefs(u)
    PROVE  FilpAt(u)'
  BY DEF FilpAt, Creating, One

(* Commands that leave struct files alone. *)
LEMMA FilpQuietSteps ==
    ASSUME IInv, LockInv, NEW t \in Threads,
           \/ ib_uverbs_ioctl(t) \/ ib_uverbs_ioctl_end(t) \/ ib_init_ucontext(t) \/ handler(t)
           \/ xa_load(t) \/ lookup_get_idr_uobject(t) \/ (Granted(t) /\ rdma_lookup_get_uobject(t))
           \/ rdma_assign_uobject(t)
           \/ uobj_destroy(t) \/ destroy_hw(t) \/ uverbs_destroy_uobject(t)
    PROVE  Filps'
<1>0. TypeThread /\ ThreadShape /\ Publication /\ Filps
  BY DEF IInv, TypeOK, LockInv
<1>1. OthersSame(t)
  BY OthersStay DEF Command, IInv
<1>2. UNCHANGED <<filp, rel, fd, new>>
  BY LookupGet DEF ib_uverbs_ioctl, ib_uverbs_ioctl_end, ib_init_ucontext, handler, xa_load, Granted,
     lookup_get_idr_uobject, rdma_assign_uobject, uobj_destroy, destroy_hw, uverbs_destroy_uobject,
     uvars
<1>3. ASSUME NEW u \in FdUobjs
      PROVE  /\ cur'[t] = u => cur[t] = u
             /\ (cur'[t] = u /\ pc'[t] # "rcu") <=> (cur[t] = u /\ pc[t] # "rcu")
  <2>1. CASE ib_uverbs_ioctl(t) \/ ib_uverbs_ioctl_end(t) \/ ib_init_ucontext(t)
    <3>1. cur' = cur /\ cur[t] = Null
      BY <1>0, <2>1 DEF ib_uverbs_ioctl, ib_uverbs_ioctl_end, ib_init_ucontext, ThreadShape
    <3> QED
      BY <3>1, ConstantsAssumption
  <2>2. CASE \/ handler(t) \/ (Granted(t) /\ rdma_lookup_get_uobject(t)) \/ rdma_assign_uobject(t)
             \/ uobj_destroy(t) \/ destroy_hw(t) \/ uverbs_destroy_uobject(t)
    <3>1. cur' = cur /\ pc[t] # "rcu" /\ pc'[t] # "rcu"
      BY <1>0, <2>2 DEF handler, Granted, rdma_lookup_get_uobject, rdma_assign_uobject,
         uobj_destroy, destroy_hw, uverbs_destroy_uobject, TypeThread
    <3> QED
      BY <3>1
  <2>3. CASE xa_load(t)
    <3>1. cur[t] = Null /\ cur'[t] \notin FdUobjs
      BY <1>0, <2>3 DEF xa_load, ThreadShape, Publication, TypeThread
    <3> QED
      BY <3>1, ConstantsAssumption
  <2>4. CASE lookup_get_idr_uobject(t)
    <3>1. cur[t] \notin FdUobjs /\ cur'[t] \in {cur[t], Null}
      BY <1>0, <2>4 DEF lookup_get_idr_uobject, ThreadShape, TypeThread
    <3> QED
      BY <3>1, ConstantsAssumption
  <2> QED
    BY <2>1, <2>2, <2>3, <2>4
<1>4. ASSUME NEW u \in FdUobjs PROVE FilpAt(u)'
  <2>1. FilpAt(u)
    BY <1>0, FilpsIsFilpAt
  <2>2. \A s \in Threads : /\ cur'[s] = u => cur[s] = u
                           /\ (cur'[s] = u /\ pc'[s] # "rcu") <=> (cur[s] = u /\ pc[s] # "rcu")
    BY <1>1, <1>3 DEF OthersSame
  <2> QED
    BY <1>2, <2>1, <2>2, KrefsSame, FilpSame
<1> QED
  BY <1>4 DEF Filps, FilpAt

(* alloc_begin_fd_uobject creates a struct file with one reference.        *)
LEMMA FilpAllocStep ==
    ASSUME IInv, LockInv, NEW t \in Threads, rdma_alloc_begin_uobject(t)
    PROVE  Filps'
<1>0. TypeThread /\ TypeUobj /\ ThreadShape /\ Publication /\ Filps
  BY DEF IInv, TypeOK, LockInv
<1>1. OthersSame(t)
  BY OthersStay DEF Command, IInv
<1>2. UNCHANGED <<cur, rel, fd>> /\ pc[t] # "rcu" /\ pc'[t] # "rcu"
  <2>1. UNCHANGED <<cur, rel, fd>> /\ pc[t] # "rcu"
    BY AllocBegin
  <2>2. pc'[t] # "rcu"
    BY <1>0, AllocBegin DEF AllocNone, AllocIdr, AllocFd, alloc_begin_idr_uobject,
       alloc_begin_fd_uobject, alloc_uobj, Leave, TypeThread
  <2> QED
    BY <2>1, <2>2
<1>3. \A u \in FdUobjs : FilpAt(u) /\ Krefs(u)' = Krefs(u)
  BY <1>0, <1>1, <1>2, FilpsIsFilpAt, KrefsSame DEF OthersSame
<1>4. CASE UNCHANGED <<filp, new>>
  BY <1>2, <1>3, <1>4, FilpSame DEF Filps, FilpAt
<1>5. ASSUME NEW v \in Uobjs, NEW h \in Handles, AllocIdr(t, v, h) PROVE Filps'
  <2>1. filp' = filp /\ new' = [new EXCEPT ![t] = v] /\ v \notin FdUobjs
    BY <1>5 DEF AllocIdr, alloc_begin_idr_uobject, alloc_uobj, IdrUobjs
  <2>2. \A u \in FdUobjs : \A s \in Threads : new'[s] = u => new[s] = u
    BY <1>0, <2>1 DEF TypeThread
  <2> QED
    BY <1>2, <1>3, <2>1, <2>2, FilpSame DEF Filps, FilpAt
<1>6. ASSUME NEW v \in Uobjs, AllocFd(t, v) PROVE Filps'
  <2>1. /\ filp' = [filp EXCEPT ![v] = 1] /\ new' = [new EXCEPT ![t] = v]
        /\ v \in FdUobjs \ born
    BY <1>6 DEF AllocFd, alloc_begin_fd_uobject, alloc_uobj
  <2>2. \A u \in FdUobjs \ {v} : filp'[u] = filp[u] /\ \A s \in Threads : new'[s] = u => new[s] = u
    BY <1>0, <2>1, ConstantsAssumption DEF TypeThread, TypeUobj
  <2>3. \A u \in FdUobjs \ {v} : FilpAt(u)'
    BY <1>2, <1>3, <2>2, FilpSame
  <2>4. rel[v] = "none" /\ v \notin fd /\ \A s \in Threads : cur[s] # v
    BY <1>0, <2>1, ConstantsAssumption, SMT DEF Publication, TypeUobj
  <2>5. FilpAt(v)'
    BY <1>0, <1>2, <2>1, <2>4 DEF FilpAt, TypeUobj
  <2> QED
    BY <2>3, <2>5 DEF Filps, FilpAt
<1> QED
  BY <1>4, <1>5, <1>6, AllocBegin DEF AllocNone

(* Commit hands that reference to the descriptor, abort drops it.          *)
LEMMA FilpEndStep ==
    ASSUME IInv, LockInv, NEW t \in Threads,
           rdma_alloc_commit_uobject(t) \/ rdma_alloc_abort_uobject(t)
    PROVE  Filps'
<1>0. TypeThread /\ TypeUobj /\ ThreadShape /\ Publication /\ Filps
  BY DEF IInv, TypeOK, LockInv
<1>1. OthersSame(t)
  BY OthersStay DEF Command, IInv
<1>2. /\ cur' = cur /\ pc[t] # "rcu" /\ pc'[t] # "rcu"
      /\ new[t] \in Uobjs /\ new' = [new EXCEPT ![t] = Null]
  BY <1>0 DEF rdma_alloc_commit_uobject, rdma_alloc_abort_uobject, TypeThread, Leave, ThreadShape
<1>v. PICK v \in Uobjs : v = new[t]
  BY <1>2
<1>3. \A u \in FdUobjs : /\ FilpAt(u) /\ Krefs(u)' = Krefs(u)
                         /\ \A s \in Threads : new'[s] = u => new[s] = u
  <2>1. \A u \in FdUobjs : FilpAt(u) /\ Krefs(u)' = Krefs(u)
    BY <1>0, <1>1, <1>2, FilpsIsFilpAt, KrefsSame DEF OthersSame
  <2> QED
    BY <1>0, <1>2, <2>1, ConstantsAssumption DEF TypeThread
<1>4. \A u \in FdUobjs \ {v} : filp'[u] = filp[u] /\ rel'[u] = rel[u] /\ (u \in fd' <=> u \in fd)
  <2>1. CASE rdma_alloc_commit_uobject(t)
    <3>1. /\ filp' = filp
          /\ \/ UNCHANGED <<fd, rel>>
             \/ fd' = fd \cup {v} /\ rel' = [rel EXCEPT ![v] = "armed"]
      BY <2>1, <1>v DEF rdma_alloc_commit_uobject
    <3> QED
      BY <1>0, <3>1, ConstantsAssumption DEF TypeUobj
  <2>2. CASE rdma_alloc_abort_uobject(t)
    <3>1. filp' = [filp EXCEPT ![v] = 0] /\ UNCHANGED <<fd, rel>>
      BY <2>2, <1>v DEF rdma_alloc_abort_uobject
    <3> QED
      BY <1>0, <3>1, ConstantsAssumption DEF TypeUobj
  <2> QED
    BY <2>1, <2>2
<1>5. \A u \in FdUobjs \ {v} : FilpAt(u)'
  BY <1>2, <1>3, <1>4, FilpSame
<1>6. /\ rel[v] = "none" /\ v \notin fd /\ Krefs(v) = {}
      /\ \A s \in Threads : cur[s] # v /\ (s # t => new[s] # v)
  BY <1>0, <1>2, <1>v, ConstantsAssumption DEF Publication, Krefs
<1>7. ~Creating(v)'
  BY <1>0, <1>1, <1>2, <1>6, ConstantsAssumption DEF Creating, OthersSame, TypeThread
<1>8. ASSUME v \in FdUobjs PROVE FilpAt(v)'
  <2>1. filp[v] = 1
    BY <1>3, <1>8, <1>v DEF FilpAt, Creating
  <2>2. CASE rdma_alloc_commit_uobject(t)
    <3>1. filp' = filp /\ rel'[v] = "armed" /\ v \in fd'
      BY <1>0, <1>8, <1>v, <2>2 DEF rdma_alloc_commit_uobject, IdrUobjs, TypeUobj
    <3>2. Cardinality(Krefs(v)') = 0
      BY <1>3, <1>6, <1>8, FS_EmptySet
    <3> QED
      BY <1>2, <1>6, <1>7, <2>1, <3>1, <3>2, SMT DEF FilpAt, One
  <2>3. CASE rdma_alloc_abort_uobject(t)
    <3>1. rel' = rel /\ fd' = fd
      BY <2>3 DEF rdma_alloc_abort_uobject
    <3> QED
      BY <1>2, <1>6, <1>7, <3>1 DEF FilpAt
  <2> QED
    BY <2>2, <2>3
<1> QED
  BY <1>5, <1>8 DEF Filps, FilpAt

(* lookup_get_fd_uobject takes a reference on an open struct file.         *)
LEMMA FilpLookupStep ==
    ASSUME IInv, LockInv, NEW t \in Threads, lookup_get_fd_uobject(t)
    PROVE  Filps'
<1>0. TypeThread /\ TypeUobj /\ ThreadShape /\ Publication /\ Filps
  BY DEF IInv, TypeOK, LockInv
<1>1. OthersSame(t)
  BY OthersStay DEF Command, IInv
<1>v. PICK v \in FdUobjs : /\ v \in fd /\ filp' = [filp EXCEPT ![v] = @ + 1]
                           /\ cur' = [cur EXCEPT ![t] = v]
  BY DEF lookup_get_fd_uobject
<1>2. /\ new' = new /\ rel' = rel /\ fd' = fd /\ pc[t] = "cmd" /\ pc'[t] = "got"
      /\ cur[t] = Null /\ cur'[t] = v /\ v \in Uobjs /\ v # Null
  BY <1>0, <1>v, ConstantsAssumption, SMT DEF lookup_get_fd_uobject, TypeThread, ThreadShape
<1>3. \A u \in FdUobjs : FilpAt(u)
  BY <1>0, FilpsIsFilpAt
<1>4. ASSUME NEW u \in FdUobjs, u # v PROVE FilpAt(u)'
  <2>1. filp'[u] = filp[u]
    BY <1>0, <1>v, <1>4, ConstantsAssumption DEF TypeUobj
  <2>2. Krefs(u)' = Krefs(u)
    BY <1>1, <1>2, <1>4, ConstantsAssumption, KrefsSame DEF OthersSame
  <2>3. \A s \in Threads : cur'[s] = u => cur[s] = u
    BY <1>1, <1>2, <1>4 DEF OthersSame
  <2> QED
    BY <1>2, <1>3, <2>1, <2>2, <2>3, FilpSame
<1>5. FilpAt(v)'
  <2>1. rel[v] = "armed" /\ filp[v] = Cardinality(Krefs(v)) + 1
    BY <1>3, <1>v DEF FilpAt, One
  <2>2. Cardinality(Krefs(v)') = Cardinality(Krefs(v)) + 1
    BY <1>1, <1>2, KrefsAdd
  <2>3. filp'[v] = filp[v] + 1
    BY <1>0, <1>2, <1>v DEF TypeUobj
  <2>4. ~Creating(v)
    BY <1>0, <1>2, <2>1 DEF Publication, Creating
  <2>5. ~Creating(v)'
    BY <1>2, <2>4 DEF Creating
  <2>6. filp'[v] = Cardinality(Krefs(v)') + One(v \in fd)'
    <3>1. One(v \in fd)' = 1
      BY <1>v, <1>2 DEF One
    <3> QED
      BY <2>1, <2>2, <2>3, <3>1, KrefsFinite
  <2> QED
    BY <1>2, <2>1, <2>5, <2>6 DEF FilpAt
<1> QED
  BY <1>4, <1>5 DEF Filps, FilpAt

(* The end of a lookup drops it. *)
LEMMA FilpPutStep ==
    ASSUME IInv, LockInv, NEW t \in Threads,
           (rdma_lookup_get_uobject(t) /\ Refused(t)) \/ rdma_lookup_put_uobject(t)
    PROVE  Filps'
<1>0. TypeThread /\ TypeUobj /\ ThreadShape /\ Publication /\ Filps
  BY DEF IInv, TypeOK, LockInv
<1>1. OthersSame(t)
  BY OthersStay DEF Command, IInv
<1>2. /\ new' = new /\ rel' = rel /\ fd' = fd /\ lookup_put(t)
      /\ pc[t] \in {"got", "locked", "put"}
  BY LookupGet DEF Refused, rdma_lookup_put_uobject
<1>v. PICK v \in Uobjs : v = cur[t]
  BY <1>0, <1>2 DEF TypeThread, ThreadShape
<1>3. pc'[t] = "exit" /\ cur'[t] = Null
  BY <1>0, <1>2 DEF lookup_put, TypeThread
<1>4. \A u \in FdUobjs : FilpAt(u)
  BY <1>0, FilpsIsFilpAt
<1>5. ASSUME NEW u \in FdUobjs, u # v PROVE FilpAt(u)'
  <2>1. filp'[u] = filp[u]
    BY <1>0, <1>2, <1>v, <1>5, ConstantsAssumption DEF TypeUobj, lookup_put
  <2>2. Krefs(u)' = Krefs(u)
    BY <1>1, <1>3, <1>v, <1>5, ConstantsAssumption, KrefsSame DEF OthersSame
  <2>3. \A s \in Threads : cur'[s] = u => cur[s] = u
    BY <1>1, <1>3, <1>5, ConstantsAssumption DEF OthersSame
  <2> QED
    BY <1>2, <1>4, <2>1, <2>2, <2>3, FilpSame
<1>6. ASSUME v \in FdUobjs PROVE FilpAt(v)'
  <2>1. rel[v] = "armed" /\ filp[v] = Cardinality(Krefs(v)) + One(v \in fd)
    BY <1>4, <1>6, <1>v DEF FilpAt
  <2>2. Cardinality(Krefs(v)') = Cardinality(Krefs(v)) - 1
    BY <1>1, <1>2, <1>3, <1>v, ConstantsAssumption, KrefsRemove
  <2>3. filp'[v] = filp[v] - 1
    BY <1>0, <1>2, <1>v, <1>6 DEF TypeUobj, lookup_put
  <2>4. ~Creating(v)
    BY <1>0, <1>v, <2>1, ConstantsAssumption DEF Publication, Creating
  <2>5. ~Creating(v)'
    BY <1>2, <2>4 DEF Creating
  <2>6. filp'[v] = Cardinality(Krefs(v)') + One(v \in fd)'
    <3>1. One(v \in fd)' = One(v \in fd) /\ One(v \in fd) \in Nat
      BY <1>2 DEF One
    <3> QED
      BY <2>1, <2>2, <2>3, <3>1, KrefsFinite, SMT
  <2> QED
    BY <1>2, <2>1, <2>5, <2>6 DEF FilpAt
<1> QED
  BY <1>5, <1>6 DEF Filps, FilpAt

(* close() drops the reference of the descriptor; the release of a struct  *)
(* file begins when no reference is left.                                  *)
LEMMA FilpFdStep ==
    ASSUME IInv, LockInv, NEW v \in FdUobjs, fd_close(v) \/ FdRelease(v)
    PROVE  Filps'
<1>0. TypeUobj /\ Filps /\ v \in Uobjs
  BY ConstantsAssumption DEF IInv, TypeOK, LockInv
<1>1. UNCHANGED <<pc, cur, new>>
  BY DEF fd_close, FdRelease, uverbs_uobject_fd_release, fd_release_destroy, fd_release_put, tvars
<1>2. \A u \in FdUobjs : FilpAt(u) /\ Krefs(u)' = Krefs(u)
  BY <1>0, <1>1, FilpsIsFilpAt, KrefsSame
<1>3. CASE fd_close(v)
  <2>1. rel' = rel /\ v \in fd /\ fd' = fd \ {v} /\ filp' = [filp EXCEPT ![v] = @ - 1]
    BY <1>3 DEF fd_close
  <2>2. \A u \in FdUobjs \ {v} : FilpAt(u)'
    <3>1. \A u \in FdUobjs \ {v} : filp'[u] = filp[u] /\ (u \in fd' <=> u \in fd)
      BY <1>0, <2>1, ConstantsAssumption DEF TypeUobj
    <3> QED
      BY <1>1, <1>2, <2>1, <3>1, FilpSame
  <2>3. FilpAt(v)'
    <3>1. rel[v] = "armed" /\ filp[v] = Cardinality(Krefs(v)) + 1
      BY <1>2, <2>1 DEF FilpAt, One
    <3>2. filp'[v] = Cardinality(Krefs(v)') + One(v \in fd)'
      BY <1>0, <1>2, <2>1, <3>1, KrefsFinite, SMT DEF TypeUobj, One
    <3>3. ~Creating(v)
      BY <1>0, <3>1, ConstantsAssumption DEF IInv, Publication, Creating
    <3>4. ~Creating(v)'
      BY <1>1, <3>3 DEF Creating
    <3> QED
      BY <1>1, <2>1, <3>1, <3>2, <3>4 DEF FilpAt
  <2> QED
    BY <2>2, <2>3 DEF Filps, FilpAt
<1>4. CASE FdRelease(v)
  <2>1. /\ filp' = filp /\ fd' = fd /\ rel'[v] \in {"held", "drop", "done"}
        /\ \A u \in FdUobjs \ {v} : rel'[u] = rel[u]
    <3>1. /\ filp' = filp /\ fd' = fd
          /\ \E r \in {"held", "drop", "done"} : rel' = [rel EXCEPT ![v] = r]
      BY <1>4 DEF FdRelease, uverbs_uobject_fd_release, fd_release_destroy, fd_release_put
    <3> QED
      BY <1>0, <3>1, ConstantsAssumption DEF TypeUobj
  <2>2. \A u \in FdUobjs \ {v} : FilpAt(u)'
    BY <1>1, <1>2, <2>1, FilpSame
  <2>3. v \notin fd /\ \A t \in Threads : cur[t] # v
    <3>1. CASE rel[v] = "armed" /\ filp[v] = 0
      BY <3>1, FdUnlocked
    <3>2. CASE rel[v] # "armed"
      BY <1>2, <3>2 DEF FilpAt
    <3> QED
      BY <1>4, <3>1, <3>2 DEF FdRelease, uverbs_uobject_fd_release, fd_release_destroy,
         fd_release_put
  <2>4. FilpAt(v)'
    BY <1>1, <1>2, <2>1, <2>3 DEF FilpAt, Creating
  <2> QED
    BY <2>2, <2>4 DEF Filps, FilpAt
<1> QED
  BY <1>3, <1>4

(* Every step preserves Filps. *)
LEMMA FilpsStep ==
    ASSUME IInv, LockInv, Next
    PROVE  Filps'
<1>1. ASSUME NEW t \in Threads, Command(t) PROVE Filps'
  BY <1>1, FilpQuietSteps, FilpAllocStep, FilpEndStep, FilpLookupStep, FilpPutStep, LookupGet
     DEF Command
<1>2. ASSUME \/ \E c \in Cleaners : Cleanup(c)
             \/ ib_uverbs_close \/ close_put \/ ib_uverbs_remove_one
             \/ ib_uverbs_free_hw_resources \/ remove_put
      PROVE  Filps'
  <2>1. UNCHANGED <<filp, rel, fd, pc, cur, new>>
    BY <1>2 DEF Cleanup, uverbs_destroy_ufile_hw, uverbs_cleanup_ufile, cleanup_pass_end, up_write,
       ib_uverbs_close, close_put, ib_uverbs_remove_one, ib_uverbs_free_hw_resources,
       remove_put, uvars, tvars
  <2>2. \A u \in FdUobjs : FilpAt(u) /\ Krefs(u)' = Krefs(u)
    BY <2>1, FilpsIsFilpAt, KrefsSame DEF LockInv
  <2> QED
    BY <2>1, <2>2, FilpSame DEF Filps, FilpAt
<1> QED
  BY <1>1, <1>2, FilpFdStep DEF Next

----------------------------------------------------------------------------
(* Every step preserves FdLocks: a command only locks an FD uobject for    *)
(* read.                                                                   *)
LEMMA FdLocksStep ==
    ASSUME IInv, LockInv, Next
    PROVE  FdLocks'
<1>0. TypeThread /\ TypeUobj /\ ThreadShape /\ Publication /\ FdLocks /\ FdUobjs \subseteq Uobjs
  BY ConstantsAssumption DEF IInv, TypeOK, LockInv
<1>l. \A u \in FdUobjs : LockAt(u)
  BY <1>0, LockIsLockAt DEF LockInv
<1>1. ASSUME NEW t \in Threads,
             \/ ib_uverbs_ioctl(t) \/ ib_uverbs_ioctl_end(t) \/ ib_init_ucontext(t) \/ handler(t)
             \/ xa_load(t) \/ lookup_get_idr_uobject(t) \/ lookup_get_fd_uobject(t)
             \/ rdma_assign_uobject(t) \/ uverbs_destroy_uobject(t)
      PROVE  FdLocks'
  <2>1. UNCHANGED <<usecnt, rel, new>>
    BY <1>1 DEF ib_uverbs_ioctl, ib_uverbs_ioctl_end, ib_init_ucontext, handler, xa_load,
       lookup_get_idr_uobject, lookup_get_fd_uobject, rdma_assign_uobject, uverbs_destroy_uobject,
       uvars
  <2> QED
    BY <1>0, <2>1 DEF FdLocks, Creating
<1>2. ASSUME NEW t \in Threads, rdma_alloc_begin_uobject(t) PROVE FdLocks'
  <2>1. rel' = rel
    BY <1>2, AllocBegin
  <2>2. CASE AllocNone(t)
    BY <1>0, <2>1, <2>2 DEF FdLocks, Creating, AllocNone
  <2>3. ASSUME NEW v \in Uobjs, usecnt' = [usecnt EXCEPT ![v] = -1], new' = [new EXCEPT ![t] = v]
        PROVE  FdLocks'
    <3>1. new[t] = Null
      BY <1>0, <1>2, AllocBegin DEF ThreadShape
    <3>2. \A u \in FdUobjs : Creating(u) => Creating(u)'
      BY <1>0, <2>3, <3>1, ConstantsAssumption DEF Creating, TypeThread
    <3>3. Creating(v)'
      BY <1>0, <2>3 DEF Creating, TypeThread
    <3>4. \A u \in FdUobjs : u # v => usecnt'[u] = usecnt[u]
      BY <1>0, <2>3 DEF TypeUobj
    <3> QED
      BY <1>0, <2>1, <3>2, <3>3, <3>4 DEF FdLocks
  <2>4. AllocNone(t) \/ \E v \in Uobjs : usecnt' = [usecnt EXCEPT ![v] = -1] /\ new' = [new EXCEPT ![t] = v]
    BY <1>2, AllocBegin DEF AllocIdr, AllocFd, alloc_begin_idr_uobject, alloc_begin_fd_uobject,
       alloc_uobj
  <2> QED
    BY <2>2, <2>3, <2>4
<1>3. ASSUME NEW t \in Threads, rdma_alloc_commit_uobject(t) \/ rdma_alloc_abort_uobject(t)
      PROVE  FdLocks'
  <2>1. /\ new[t] \in Uobjs /\ new' = [new EXCEPT ![t] = Null]
        /\ usecnt' = [usecnt EXCEPT ![new[t]] = 0]
        /\ rel' = rel \/ rel' = [rel EXCEPT ![new[t]] = "armed"]
    BY <1>0, <1>3 DEF rdma_alloc_commit_uobject, rdma_alloc_abort_uobject, TypeThread, ThreadShape
  <2>2. \A u \in FdUobjs : u # new[t] => usecnt'[u] = usecnt[u] /\ rel'[u] = rel[u] /\ (Creating(u) => Creating(u)')
    <3>1. \A u \in FdUobjs : u # new[t] => usecnt'[u] = usecnt[u] /\ rel'[u] = rel[u]
      BY <1>0, <2>1 DEF TypeUobj
    <3>2. \A u \in FdUobjs : u # new[t] => (Creating(u) => Creating(u)')
      BY <1>0, <2>1 DEF TypeThread, Creating
    <3> QED
      BY <3>1, <3>2
  <2>3. usecnt'[new[t]] = 0
    BY <1>0, <2>1 DEF TypeUobj
  <2> QED
    BY <1>0, <2>2, <2>3, SMT DEF FdLocks
<1>4. ASSUME NEW t \in Threads, rdma_lookup_get_uobject(t) PROVE FdLocks'
  <2>1. rel' = rel /\ new' = new /\ pc[t] = "got" /\ (Granted(t) \/ Refused(t))
    BY <1>4, LookupGet
  <2>2. CASE Refused(t)
    BY <1>0, <2>1, <2>2 DEF FdLocks, Creating, Refused
  <2>3. CASE Granted(t)
    <3>1. /\ usecnt' = [usecnt EXCEPT ![cur[t]] = Lock(cur[t], mode[t])] /\ usecnt[cur[t]] # -1
          /\ cur[t] \in Uobjs
      BY <2>1, <2>3, GrantedMeans DEF Granted
    <3>2. ASSUME NEW u \in FdUobjs, usecnt'[u] = -1
          PROVE  Creating(u)' \/ rel'[u] = "held"
      <4>1. CASE u = cur[t]
        <5>1. usecnt[u] \in Nat
          BY <1>l, <3>1, <4>1, ReadersFinite, SMT DEF LockAt
        <5>2. usecnt'[u] = usecnt[u] + 1
          BY <1>0, <3>1, <4>1 DEF ThreadShape, Lock, TypeUobj
        <5> QED
          BY <3>2, <5>1, <5>2, SMTT(30)
      <4>2. CASE u # cur[t]
        BY <1>0, <2>1, <3>1, <3>2, <4>2 DEF FdLocks, Creating, TypeUobj
      <4> QED
        BY <4>1, <4>2
    <3> QED
      BY <3>2 DEF FdLocks
  <2> QED
    BY <2>1, <2>2, <2>3
<1>5. ASSUME NEW t \in Threads, rdma_lookup_put_uobject(t) PROVE FdLocks'
  <2>1. /\ UNCHANGED <<new, mode, rel>> /\ pc[t] \in {"locked", "put"} /\ cur[t] \in Uobjs
        /\ usecnt' = [usecnt EXCEPT ![cur[t]] = Unlock(cur[t], mode[t])]
    BY <1>0, <1>5 DEF rdma_lookup_put_uobject, lookup_put, TypeThread, ThreadShape
  <2>2. ASSUME NEW u \in FdUobjs, usecnt'[u] = -1
        PROVE  Creating(u)' \/ rel'[u] = "held"
    <3>1. CASE u = cur[t]
      <4>1. mode[t] = "READ"
        BY <1>0, <3>1 DEF ThreadShape
      <4>2. t \in Readers(u)
        BY <2>1, <3>1, <4>1, ConstantsAssumption DEF Readers, Holding
      <4>3. usecnt[u] = Cardinality(Readers(u)) /\ usecnt[u] # 0 /\ usecnt[u] \in Nat
        BY <1>l, <4>2, ReadersFinite, FS_EmptySet DEF LockAt
      <4>4. usecnt'[u] = usecnt[u] - 1
        BY <1>0, <2>1, <3>1, <4>1 DEF Unlock, TypeUobj
      <4> QED
        BY <2>2, <4>3, <4>4, SMT
    <3>2. CASE u # cur[t]
      BY <1>0, <2>1, <2>2, <3>2 DEF FdLocks, Creating, TypeUobj
    <3> QED
      BY <3>1, <3>2
  <2> QED
    BY <2>2 DEF FdLocks
<1>6. ASSUME NEW t \in Threads, uobj_destroy(t) \/ destroy_hw(t) PROVE FdLocks'
  <2>1. /\ new' = new /\ rel' = rel /\ cur[t] \notin FdUobjs
        /\ \/ usecnt' = usecnt \/ \E n : usecnt' = [usecnt EXCEPT ![cur[t]] = n]
    BY <1>0, <1>6 DEF uobj_destroy, destroy_hw, TypeThread, ThreadShape
  <2>2. \A u \in FdUobjs : usecnt'[u] = usecnt[u]
    BY <1>0, <2>1 DEF TypeUobj
  <2> QED
    BY <1>0, <2>1, <2>2 DEF FdLocks, Creating
<1>7. ASSUME NEW v \in FdUobjs, fd_close(v) \/ FdRelease(v) PROVE FdLocks'
  <2>1. new' = new /\ \A u \in FdUobjs : u # v => usecnt'[u] = usecnt[u] /\ rel'[u] = rel[u]
    BY <1>0, <1>7 DEF fd_close, FdRelease, uverbs_uobject_fd_release, fd_release_destroy,
       fd_release_put, TypeUobj, tvars
  <2>2. usecnt'[v] = -1 => Creating(v)' \/ rel'[v] = "held"
    <3>1. CASE fd_close(v) \/ fd_release_put(v)
      <4>1. usecnt' = usecnt /\ (rel[v] = "held" => rel'[v] = "held")
        BY <1>0, <3>1 DEF fd_close, fd_release_put, TypeUobj
      <4> QED
        BY <1>0, <2>1, <4>1 DEF FdLocks, Creating
    <3>2. CASE fd_release_destroy(v)
      BY <1>0, <3>2, SMT DEF fd_release_destroy, TypeUobj
    <3>3. CASE uverbs_uobject_fd_release(v)
      <4>1. usecnt[v] = 0
        BY <3>3, FdUnlocked DEF uverbs_uobject_fd_release
      <4> QED
        BY <1>0, <3>3, <4>1, SMT DEF uverbs_uobject_fd_release, TypeUobj
    <3> QED
      BY <1>7, <3>1, <3>2, <3>3 DEF FdRelease
  <2> QED
    BY <1>0, <2>1, <2>2 DEF FdLocks, Creating
<1>8. ASSUME NEW c \in Cleaners, Cleanup(c) PROVE FdLocks'
  <2>1. rel' = rel /\ new' = new
    BY <1>8 DEF Cleanup, uverbs_destroy_ufile_hw, uverbs_cleanup_ufile, cleanup_pass_end, up_write,
       uvars, tvars
  <2>2. \A u \in FdUobjs : usecnt'[u] = usecnt[u] \/ usecnt'[u] = 0
    BY <1>0, <1>8, CleanUnlocks
  <2> QED
    BY <1>0, <2>1, <2>2, SMT DEF FdLocks, Creating
<1>9. ASSUME \/ ib_uverbs_close \/ close_put \/ ib_uverbs_remove_one
             \/ ib_uverbs_free_hw_resources \/ remove_put
      PROVE  FdLocks'
  <2>1. UNCHANGED <<usecnt, rel, new>>
    BY <1>9 DEF ib_uverbs_close, close_put, ib_uverbs_remove_one, ib_uverbs_free_hw_resources,
       remove_put, uvars, tvars
  <2> QED
    BY <1>0, <2>1 DEF FdLocks, Creating
<1> QED
  BY <1>1, <1>2, <1>3, <1>4, <1>5, <1>6, <1>7, <1>8, <1>9 DEF Next, Command

(* LockInv is inductive, given IInv. *)
LEMMA LockInvStep ==
    ASSUME IInv, LockInv, [Next]_vars
    PROVE  LockInv'
<1>1. CASE Next
  BY <1>1, UsecntStep, FilpsStep, FdLocksStep DEF LockInv
<1>2. CASE UNCHANGED vars
  <2>1. UNCHANGED <<usecnt, rel, fd, filp, pc, cur, new, mode>>
    BY <1>2 DEF vars, uvars, tvars
  <2>2. UsecntIsALock'
    <3>1. \A u \in Uobjs : LockAt(u)
      BY LockIsLockAt DEF LockInv
    <3>2. UNCHANGED tvars
      BY <2>1 DEF tvars
    <3>3. \A u \in Uobjs : LockAt(u)'
      BY <2>1, <3>1, <3>2, ThreadsRest, LockSame
    <3> QED
      BY <3>3 DEF UsecntIsALock, LockAt
  <2>3. Filps'
    <3>1. \A u \in FdUobjs : FilpAt(u) /\ Krefs(u)' = Krefs(u)
      BY <2>1, FilpsIsFilpAt, KrefsSame DEF LockInv
    <3> QED
      BY <2>1, <3>1, FilpSame DEF Filps, FilpAt
  <2>4. FdLocks'
    BY <2>1 DEF LockInv, FdLocks, Creating
  <2> QED
    BY <2>2, <2>3, <2>4 DEF LockInv
<1> QED
  BY <1>1, <1>2

(* LockInv holds in the initial state. *)
LEMMA LockInvInit == Init => LockInv
<1> SUFFICES ASSUME Init PROVE LockInv
  OBVIOUS
<1> USE ConstantsAssumption DEF Init
<1>1. \A u \in Uobjs : Readers(u) = {} /\ \A t \in Threads : ~Owns(t, u)
  BY DEF Readers, Owns, Holding
<1>2. UsecntIsALock
  BY <1>1, FS_EmptySet DEF UsecntIsALock
<1>3. Filps /\ FdLocks
  BY SMT DEF Filps, FdLocks, Creating
<1> QED
  BY <1>2, <1>3 DEF LockInv

============================================================================
