----------------------------- MODULE UobjectProofs -----------------------------
(***************************************************************************)
(* The references on the file and on the uobjects: every step preserves    *)
(* that they are exactly those of the owners that the code gives them.     *)
(* Then the theorems about the uobject life cycle, for any number of       *)
(* threads, uobjects and indices.                                          *)
(***************************************************************************)
EXTENDS UobjectUse

USE Zenon

(* The struct files are finitely many. *)
LEMMA FiledFinite == IsFiniteSet(FiledUobjs) /\ Cardinality(FiledUobjs) \in Nat
<1>1. FiledUobjs \subseteq Uobjs
  BY ConstantsAssumption DEF FiledUobjs
<1> QED
  BY <1>1, FS_Subset, FS_CardinalityType, ConstantsAssumption

(* One counts a condition. *)
LEMMA OneIs == ASSUME NEW b PROVE One(b) \in {0, 1} /\ (b => One(b) = 1) /\ (~b => One(b) = 0)
  BY DEF One

(* The count of references on the file is undisturbed when the holders     *)
(* stay.                                                                   *)
LEMMA FileRefsSame ==
    ASSUME FileRefs, fref' = fref, \A u \in FdUobjs : Filed(u)' <=> Filed(u),
           cpc'["close"] # "done" <=> cpc["close"] # "done", Removing' <=> Removing
    PROVE  FileRefs'
<1>1. FiledUobjs' = FiledUobjs
  BY DEF FiledUobjs
<1> QED
  BY <1>1 DEF FileRefs, One

(* Every step keeps the count of references on the file exact: the open    *)
(* file, each struct file, and removal while it works on it.               *)
LEMMA FileRefsStep ==
    ASSUME IInv, FileRefs, Next
    PROVE  FileRefs'
<1>0. TypeOK /\ TypeUobj /\ TypeClean /\ TypeThread /\ ThreadShape /\ Publication /\ Gates /\ FdUobjs \subseteq Uobjs
  BY ConstantsAssumption DEF IInv, TypeOK
<1>1. ASSUME NEW t \in Threads, Command(t), ~rdma_alloc_commit_uobject(t)
      PROVE  FileRefs'
  <2>1. UNCHANGED <<fref, rel, cpc>>
    BY <1>1 DEF Command, ib_uverbs_ioctl, ib_uverbs_ioctl_end, ib_init_ucontext, xa_load,
       rdma_alloc_begin_uobject, handler,
       rdma_alloc_commit_uobject, rdma_alloc_abort_uobject, lookup_get_idr_uobject,
       lookup_get_fd_uobject, rdma_lookup_get_uobject, rdma_lookup_put_uobject, uobj_destroy,
       rdma_assign_uobject, destroy_hw, uverbs_destroy_uobject, uvars, fvars, cvars
  <2> QED
    BY <2>1, FileRefsSame DEF Filed, Removing
<1>2. ASSUME NEW t \in Threads, rdma_alloc_commit_uobject(t) PROVE FileRefs'
  <2>v. PICK v \in Uobjs : v = new[t]
    BY <1>0, <1>2 DEF rdma_alloc_commit_uobject, ThreadShape, TypeThread
  <2>1. cpc' = cpc /\ rel[v] = "none"
    BY <1>0, <1>2, <2>v, ConstantsAssumption DEF rdma_alloc_commit_uobject, cvars, Publication
  <2>2. CASE v \in IdrUobjs
    <3>1. fref' = fref /\ rel' = rel
      BY <1>2, <2>2, <2>v DEF rdma_alloc_commit_uobject, IdrUobjs
    <3> QED
      BY <2>1, <3>1, FileRefsSame DEF Filed, Removing
  <2>3. CASE v \in FdUobjs
    <3>1. fref' = fref + 1 /\ rel' = [rel EXCEPT ![v] = "armed"]
      BY <1>2, <2>3, <2>v DEF rdma_alloc_commit_uobject, IdrUobjs
    <3>2. FiledUobjs' = FiledUobjs \cup {v} /\ v \notin FiledUobjs
      BY <1>0, <2>1, <2>3, <3>1 DEF FiledUobjs, Filed, TypeUobj
    <3>3. Cardinality(FiledUobjs') = Cardinality(FiledUobjs) + 1
      BY <3>2, FiledFinite, FS_AddElement
    <3>4. One(cpc["close"] # "done")' = One(cpc["close"] # "done") /\ One(Removing)' = One(Removing)
      BY <2>1 DEF One, Removing
    <3> QED
      BY <3>1, <3>3, <3>4, FiledFinite, OneIs, SMT DEF FileRefs
  <2> QED
    BY <2>2, <2>3 DEF IdrUobjs
<1>3. ASSUME NEW v \in FdUobjs,
             fd_close(v) \/ uverbs_uobject_fd_release(v) \/ fd_release_destroy(v)
      PROVE  FileRefs'
  <2>1. UNCHANGED <<fref, cpc>>
    BY <1>3 DEF fd_close, uverbs_uobject_fd_release, fd_release_destroy, fvars, cvars
  <2>2. \A u \in FdUobjs : Filed(u)' <=> Filed(u)
    BY <1>0, <1>3 DEF fd_close, uverbs_uobject_fd_release, fd_release_destroy, Filed, TypeUobj
  <2> QED
    BY <2>1, <2>2, FileRefsSame DEF Removing
<1>4. ASSUME NEW v \in FdUobjs, fd_release_put(v) PROVE FileRefs'
  <2>1. cpc' = cpc /\ fref' = fref - 1 /\ rel[v] = "drop" /\ rel' = [rel EXCEPT ![v] = "done"]
    BY <1>4 DEF fd_release_put, release_ufile, cvars
  <2>2. FiledUobjs' = FiledUobjs \ {v} /\ v \in FiledUobjs
    BY <1>0, <2>1 DEF FiledUobjs, Filed, TypeUobj
  <2>3. Cardinality(FiledUobjs') = Cardinality(FiledUobjs) - 1
    BY <2>2, FiledFinite, FS_RemoveElement
  <2>4. One(cpc["close"] # "done")' = One(cpc["close"] # "done") /\ One(Removing)' = One(Removing)
    BY <2>1 DEF One, Removing
  <2> QED
    BY <2>1, <2>3, <2>4, FiledFinite, OneIs, SMT DEF FileRefs
<1>5. ASSUME NEW c \in Cleaners, Cleanup(c) PROVE FileRefs'
  <2>1. fref' = fref /\ rel' = rel
    BY <1>5 DEF Cleanup, uverbs_destroy_ufile_hw, uverbs_cleanup_ufile, cleanup_pass_end, up_write,
       uvars, fvars
  <2>2. (cpc'["close"] # "done" <=> cpc["close"] # "done") /\ (Removing' <=> Removing)
    BY <1>0, <1>5 DEF Cleanup, uverbs_destroy_ufile_hw, uverbs_cleanup_ufile, cleanup_pass_end,
       up_write, Removing, TypeClean, Cleaners
  <2> QED
    BY <2>1, <2>2, FileRefsSame DEF Filed
<1>6. ASSUME ib_uverbs_close \/ ib_uverbs_remove_one PROVE FileRefs'
  <2>1. fref' = fref /\ rel' = rel
    BY <1>6 DEF ib_uverbs_close, ib_uverbs_remove_one, uvars
  <2>2. (cpc'["close"] # "done" <=> cpc["close"] # "done") /\ (Removing' <=> Removing)
    BY <1>0, <1>6 DEF ib_uverbs_close, ib_uverbs_remove_one, open, Removing, TypeClean, Cleaners
  <2> QED
    BY <2>1, <2>2, FileRefsSame DEF Filed
<1>7. ASSUME close_put \/ remove_put PROVE FileRefs'
  <2>1. fref' = fref - 1 /\ rel' = rel
    BY <1>7 DEF close_put, remove_put, release_ufile
  <2>2. FiledUobjs' = FiledUobjs
    BY <2>1 DEF FiledUobjs, Filed
  <2>3. CASE close_put
    <3>1. /\ cpc["close"] = "put" /\ cpc'["close"] = "done" /\ cpc'["remove"] = cpc["remove"]
      BY <1>0, <2>3 DEF close_put, TypeClean, Cleaners
    <3>2. One(cpc["close"] # "done")' = 0 /\ One(cpc["close"] # "done") = 1 /\ One(Removing)' = One(Removing)
      BY <3>1 DEF One, Removing
    <3> QED
      BY <2>1, <2>2, <3>2, FiledFinite, OneIs, SMT DEF FileRefs
  <2>4. CASE remove_put
    <3>1. /\ cpc["remove"] = "put" /\ cpc'["remove"] = "done" /\ cpc'["close"] = cpc["close"]
      BY <1>0, <2>4 DEF remove_put, TypeClean, Cleaners
    <3>2. One(cpc["close"] # "done")' = One(cpc["close"] # "done") /\ One(Removing)' = 0 /\ One(Removing) = 1
      BY <3>1 DEF One, Removing
    <3> QED
      BY <2>1, <2>2, <3>2, FiledFinite, OneIs, SMT DEF FileRefs
  <2> QED
    BY <1>7, <2>3, <2>4
<1>8. ASSUME ib_uverbs_free_hw_resources PROVE FileRefs'
  <2>1. rel' = rel /\ cpc["remove"] = "sync" /\ cpc'["close"] = cpc["close"]
    BY <1>0, <1>8 DEF ib_uverbs_free_hw_resources, uvars, TypeClean, Cleaners
  <2>2. CASE onlist
    <3>1. fref' = fref + 1 /\ cpc'["remove"] = "down_write"
      BY <1>0, <1>8, <2>2 DEF ib_uverbs_free_hw_resources, TypeClean, Cleaners
    <3>2. FiledUobjs' = FiledUobjs
      BY <2>1 DEF FiledUobjs, Filed
    <3>3. One(cpc["close"] # "done")' = One(cpc["close"] # "done") /\ One(Removing)' = 1 /\ One(Removing) = 0
      BY <2>1, <3>1 DEF One, Removing
    <3> QED
      BY <3>1, <3>2, <3>3, FiledFinite, OneIs, SMT DEF FileRefs
  <2>3. CASE ~onlist
    <3>1. fref' = fref /\ cpc'["remove"] = "done"
      BY <1>0, <1>8, <2>3 DEF ib_uverbs_free_hw_resources, TypeClean, Cleaners
    <3> QED
      BY <2>1, <3>1, FileRefsSame DEF Filed, Removing
  <2> QED
    BY <2>2, <2>3
<1> QED
  BY <1>1, <1>2, <1>3, <1>4, <1>5, <1>6, <1>7, <1>8 DEF Next, FdRelease

(* When the last reference on the file goes it has been closed: no command *)
(* is running and no uobject is linked.                                    *)
LEMMA LastReference ==
    ASSUME IInv, FileRefs, fref = 1,
           (\E u \in FdUobjs : fd_release_put(u)) \/ close_put \/ remove_put
    PROVE  /\ \A t \in Threads : cur[t] = Null /\ new[t] = Null
           /\ \A u \in Uobjs : list[u] = 0
<1>1. cpc["close"] \in {"put", "done"}
  <2>1. CASE close_put
    BY <2>1 DEF close_put
  <2>2. ASSUME NEW u \in FdUobjs, fd_release_put(u) PROVE cpc["close"] = "done"
    <3>1. u \in FiledUobjs
      BY <2>2 DEF fd_release_put, FiledUobjs, Filed
    <3>2. Cardinality(FiledUobjs) # 0
      BY <3>1, FiledFinite, FS_EmptySet
    <3> QED
      BY <3>2, FiledFinite, SMT DEF FileRefs, One
  <2>3. CASE remove_put
    <3>1. Removing
      BY <2>3 DEF remove_put, Removing
    <3> QED
      BY <3>1, FiledFinite, SMT DEF FileRefs, One
  <2> QED
    BY <2>1, <2>2, <2>3
<1>2. \A t \in Threads : pc[t] = "idle"
  BY <1>1 DEF IInv, Gates
<1>3. ~ucontext
  BY <1>1 DEF IInv, Teardown, Cleaners
<1>4. \A t \in Threads : cur[t] = Null /\ new[t] = Null
  BY <1>2 DEF IInv, ThreadShape
<1>5. \A u \in Uobjs : list[u] = 0
  BY <1>3 DEF IInv, HasContext
<1> QED
  BY <1>4, <1>5

----------------------------------------------------------------------------
(* The krefs. *)

(* What KrefIsExact says of one uobject. *)
KrefAt(u) == ref[u] = Owners(u)

(* The owners of u other than the lookups in progress stay. *)
SameOwners(u) ==
    /\ Creating(u)' <=> Creating(u)
    /\ Indexed(u)' <=> Indexed(u)
    /\ list'[u] # 0 <=> list[u] # 0
    /\ Filed(u)' <=> Filed(u)

(* KrefIsExact can be shown uobject by uobject. *)
LEMMA KrefIsKrefAt == KrefIsExact <=> \A u \in Uobjs : KrefAt(u)
  BY DEF KrefIsExact, KrefAt

(* The kref of u follows its lookups when the other owners stay,           *)
LEMMA KrefLookups ==
    ASSUME NEW u, KrefAt(u), SameOwners(u), NEW d \in Int,
           Cardinality(Krefs(u)') = Cardinality(Krefs(u)) + d, ref'[u] = ref[u] + d
    PROVE  KrefAt(u)'
<1>1. /\ One(Creating(u))' = One(Creating(u)) /\ One(Indexed(u))' = One(Indexed(u))
      /\ One(list[u] # 0)' = One(list[u] # 0) /\ One(Filed(u))' = One(Filed(u))
  BY DEF SameOwners, One
<1> QED
  BY <1>1, KrefsFinite, OneIs, SMT DEF KrefAt, Owners

(* ... is undisturbed when all owners stay, *)
LEMMA KrefSame ==
    ASSUME NEW u, KrefAt(u), SameOwners(u), Krefs(u)' = Krefs(u), ref'[u] = ref[u]
    PROVE  KrefAt(u)'
<1>1. /\ One(Creating(u))' = One(Creating(u)) /\ One(Indexed(u))' = One(Indexed(u))
      /\ One(list[u] # 0)' = One(list[u] # 0) /\ One(Filed(u))' = One(Filed(u))
  BY DEF SameOwners, One
<1> QED
  BY <1>1 DEF KrefAt, Owners

(* ... and follows the other owners when the lookups stay. *)
LEMMA KrefMoved ==
    ASSUME NEW u, KrefAt(u), Krefs(u)' = Krefs(u),
           ref'[u] = ref[u] + (One(Creating(u))' - One(Creating(u)))
                            + (One(Indexed(u))' - One(Indexed(u)))
                            + (One(list[u] # 0)' - One(list[u] # 0))
                            + (One(Filed(u))' - One(Filed(u)))
    PROVE  KrefAt(u)'
<1>1. /\ One(Creating(u)) \in Int /\ One(Creating(u))' \in Int
      /\ One(Indexed(u)) \in Int /\ One(Indexed(u))' \in Int
      /\ One(list[u] # 0) \in Int /\ One(list[u] # 0)' \in Int
      /\ One(Filed(u)) \in Int /\ One(Filed(u))' \in Int
  BY SMT DEF One
<1> QED
  BY <1>1, KrefsFinite, SMT DEF KrefAt, Owners

(* A step that leaves idr, list, struct files and creators alone leaves    *)
(* the owners.                                                             *)
LEMMA OwnersRest ==
    ASSUME UNCHANGED <<idr, list, rel, new>>, NEW u
    PROVE  SameOwners(u)
  BY DEF SameOwners, Creating, Indexed, Filed

(* Commands that leave krefs alone. *)
LEMMA KrefQuietSteps ==
    ASSUME IInv, KrefIsExact, NEW t \in Threads,
           \/ ib_uverbs_ioctl(t) \/ ib_uverbs_ioctl_end(t) \/ ib_init_ucontext(t) \/ handler(t)
           \/ xa_load(t) \/ (Granted(t) /\ rdma_lookup_get_uobject(t))
           \/ uobj_destroy(t) \/ destroy_hw(t)
    PROVE  KrefIsExact'
<1>0. TypeThread /\ ThreadShape
  BY DEF IInv, TypeOK
<1>1. OthersSame(t)
  BY OthersStay DEF Command, IInv
<1>2. UNCHANGED <<ref, idr, list, rel, new>>
  BY LookupGet DEF ib_uverbs_ioctl, ib_uverbs_ioctl_end, ib_init_ucontext, handler, xa_load, Granted,
     uobj_destroy, destroy_hw, uvars
<1>3. ASSUME NEW u \in Uobjs
      PROVE  (cur'[t] = u /\ pc'[t] # "rcu") <=> (cur[t] = u /\ pc[t] # "rcu")
  <2>1. CASE ib_uverbs_ioctl(t) \/ ib_uverbs_ioctl_end(t) \/ ib_init_ucontext(t)
    <3>1. cur' = cur /\ cur[t] = Null
      BY <1>0, <2>1 DEF ib_uverbs_ioctl, ib_uverbs_ioctl_end, ib_init_ucontext, ThreadShape
    <3> QED
      BY <3>1, ConstantsAssumption
  <2>2. CASE \/ handler(t) \/ (Granted(t) /\ rdma_lookup_get_uobject(t))
             \/ uobj_destroy(t) \/ destroy_hw(t)
    <3>1. cur' = cur /\ pc[t] # "rcu" /\ pc'[t] # "rcu"
      BY <1>0, <2>2 DEF handler, Granted, rdma_lookup_get_uobject,
         uobj_destroy, destroy_hw, TypeThread
    <3> QED
      BY <3>1
  <2>3. CASE xa_load(t)
    <3>1. cur[t] = Null /\ pc'[t] = "rcu"
      BY <1>0, <2>3 DEF xa_load, ThreadShape, TypeThread
    <3> QED
      BY <3>1, ConstantsAssumption
  <2> QED
    BY <2>1, <2>2, <2>3
<1>4. \A u \in Uobjs : Krefs(u)' = Krefs(u)
  BY <1>1, <1>3, KrefsSame DEF OthersSame
<1>5. \A u \in Uobjs : KrefAt(u)'
  BY <1>2, <1>4, KrefIsKrefAt, OwnersRest, KrefSame
<1> QED
  BY <1>5 DEF KrefIsExact, KrefAt

(* A lookup takes a reference. *)
LEMMA KrefGetSteps ==
    ASSUME IInv, KrefIsExact, NEW t \in Threads,
           lookup_get_idr_uobject(t) \/ lookup_get_fd_uobject(t)
    PROVE  KrefIsExact'
<1>0. TypeThread /\ TypeUobj /\ ThreadShape
  BY DEF IInv, TypeOK
<1>1. OthersSame(t)
  BY OthersStay DEF Command, IInv
<1>2. UNCHANGED <<idr, list, rel, new>>
  BY DEF lookup_get_idr_uobject, lookup_get_fd_uobject
<1>3. \A u \in Uobjs : KrefAt(u) /\ SameOwners(u)
  BY <1>2, OwnersRest, KrefIsKrefAt
<1>4. CASE \E v \in Uobjs : /\ ref' = [ref EXCEPT ![v] = @ + 1]
                            /\ ~(cur[t] = v /\ pc[t] # "rcu") /\ cur'[t] = v /\ pc'[t] # "rcu"
                            /\ (cur[t] = v \/ cur[t] = Null)
  <2>v. PICK v \in Uobjs : /\ ref' = [ref EXCEPT ![v] = @ + 1]
                           /\ ~(cur[t] = v /\ pc[t] # "rcu") /\ cur'[t] = v /\ pc'[t] # "rcu"
                           /\ (cur[t] = v \/ cur[t] = Null)
    BY <1>4
  <2>1. KrefAt(v)'
    <3>1. Cardinality(Krefs(v)') = Cardinality(Krefs(v)) + 1
      BY <1>1, <2>v, KrefsAdd
    <3>2. ref'[v] = ref[v] + 1
      BY <1>0, <2>v DEF TypeUobj
    <3> QED
      BY <1>3, <3>1, <3>2, KrefLookups, SMT
  <2>2. ASSUME NEW u \in Uobjs, u # v PROVE KrefAt(u)'
    <3>1. ref'[u] = ref[u]
      BY <1>0, <2>2, <2>v DEF TypeUobj
    <3>2. Krefs(u)' = Krefs(u)
      BY <1>1, <2>2, <2>v, ConstantsAssumption, KrefsSame DEF OthersSame
    <3> QED
      BY <1>3, <3>1, <3>2, KrefSame
  <2> QED
    BY <2>1, <2>2 DEF KrefIsExact, KrefAt
<1>5. CASE ref' = ref /\ pc[t] = "rcu" /\ cur'[t] = Null
  <2>1. \A u \in Uobjs : Krefs(u)' = Krefs(u)
    BY <1>1, <1>5, ConstantsAssumption, KrefsSame DEF OthersSame
  <2>2. \A u \in Uobjs : KrefAt(u)'
    BY <1>3, <1>5, <2>1, KrefSame
  <2> QED
    BY <2>2 DEF KrefIsExact, KrefAt
<1>6. CASE lookup_get_idr_uobject(t)
  <2>v. PICK v \in Uobjs : v = cur[t]
    BY <1>0, <1>6 DEF lookup_get_idr_uobject, TypeThread, ThreadShape
  <2>1. CASE ref[v] > 0
    <3>1. /\ ref' = [ref EXCEPT ![v] = @ + 1] /\ pc[t] = "rcu" /\ pc'[t] = "got" /\ cur' = cur
      BY <1>0, <1>6, <2>1, <2>v DEF lookup_get_idr_uobject, TypeThread
    <3> QED
      BY <1>4, <2>v, <3>1
  <2>2. CASE ~(ref[v] > 0)
    <3>1. ref' = ref /\ pc[t] = "rcu" /\ cur'[t] = Null
      BY <1>0, <1>6, <2>2, <2>v DEF lookup_get_idr_uobject, TypeThread
    <3> QED
      BY <1>5, <3>1
  <2> QED
    BY <2>1, <2>2
<1>7. CASE lookup_get_fd_uobject(t)
  <2>v. PICK v \in FdUobjs : ref' = [ref EXCEPT ![v] = @ + 1] /\ cur' = [cur EXCEPT ![t] = v]
    BY <1>7 DEF lookup_get_fd_uobject
  <2>1. /\ v \in Uobjs /\ v # Null /\ cur[t] = Null /\ cur'[t] = v /\ pc'[t] = "got"
    <3>1. v \in Uobjs /\ v # Null
      BY ConstantsAssumption
    <3>2. cur[t] = Null
      BY <1>0, <1>7 DEF lookup_get_fd_uobject, ThreadShape
    <3>3. cur'[t] = v /\ pc'[t] = "got"
      BY <1>0, <1>7, <2>v DEF lookup_get_fd_uobject, TypeThread
    <3> QED
      BY <3>1, <3>2, <3>3
  <2> QED
    BY <1>4, <2>v, <2>1
<1> QED
  BY <1>6, <1>7

(* ... and drops it. *)
LEMMA KrefPutSteps ==
    ASSUME IInv, KrefIsExact, NEW t \in Threads,
           (rdma_lookup_get_uobject(t) /\ Refused(t)) \/ rdma_lookup_put_uobject(t)
    PROVE  KrefIsExact'
<1>0. TypeThread /\ TypeUobj /\ ThreadShape
  BY DEF IInv, TypeOK
<1>1. OthersSame(t)
  BY OthersStay DEF Command, IInv
<1>2. UNCHANGED <<idr, list, rel, new>> /\ lookup_put(t) /\ pc[t] \in {"got", "locked", "put"}
  BY LookupGet DEF Refused, rdma_lookup_put_uobject
<1>v. PICK v \in Uobjs : v = cur[t]
  BY <1>0, <1>2 DEF TypeThread, ThreadShape
<1>3. cur'[t] = Null /\ ref' = [ref EXCEPT ![v] = @ - 1] /\ v # Null
  BY <1>0, <1>2, <1>v, ConstantsAssumption DEF lookup_put, TypeThread
<1>4. \A u \in Uobjs : KrefAt(u) /\ SameOwners(u)
  BY <1>2, OwnersRest, KrefIsKrefAt
<1>5. KrefAt(v)'
  <2>1. Cardinality(Krefs(v)') = Cardinality(Krefs(v)) - 1
    BY <1>1, <1>2, <1>3, <1>v, KrefsRemove
  <2>2. ref'[v] = ref[v] + (-1) /\ Cardinality(Krefs(v)') = Cardinality(Krefs(v)) + (-1)
    BY <1>0, <1>3, <2>1, KrefsFinite DEF TypeUobj
  <2> QED
    BY <1>4, <2>2, KrefLookups, SMT
<1>6. ASSUME NEW u \in Uobjs, u # v PROVE KrefAt(u)'
  <2>1. ref'[u] = ref[u]
    BY <1>0, <1>3, <1>6 DEF TypeUobj
  <2>2. Krefs(u)' = Krefs(u)
    BY <1>1, <1>3, <1>6, <1>v, ConstantsAssumption, KrefsSame DEF OthersSame
  <2> QED
    BY <1>4, <2>1, <2>2, KrefSame
<1> QED
  BY <1>5, <1>6 DEF KrefIsExact, KrefAt

(* A uobject is created with the reference of its creator. *)
LEMMA KrefAllocStep ==
    ASSUME IInv, KrefIsExact, NEW t \in Threads, rdma_alloc_begin_uobject(t)
    PROVE  KrefIsExact'
<1>0. TypeThread /\ TypeUobj /\ ThreadShape /\ Publication
  BY DEF IInv, TypeOK
<1>1. OthersSame(t)
  BY OthersStay DEF Command, IInv
<1>c. Null \notin Uobjs /\ Free \notin Uobjs
  BY ConstantsAssumption
<1>2. UNCHANGED <<list, cur, rel>> /\ pc[t] # "rcu" /\ new[t] = Null
  BY <1>0, AllocBegin DEF ThreadShape
<1>3. pc'[t] # "rcu"
  BY <1>0, AllocBegin DEF AllocNone, AllocIdr, AllocFd, alloc_begin_fd_uobject,
     alloc_begin_idr_uobject, alloc_uobj, TypeThread, Leave
<1>4. \A u \in Uobjs : KrefAt(u) /\ Krefs(u)' = Krefs(u)
  BY <1>1, <1>2, <1>3, KrefsSame, KrefIsKrefAt DEF OthersSame
<1>5. CASE AllocNone(t)
  <2>1. UNCHANGED <<ref, idr, new>>
    BY <1>5 DEF AllocNone
  <2>2. \A u \in Uobjs : KrefAt(u)'
    BY <1>2, <1>4, <2>1, OwnersRest, KrefSame
  <2> QED
    BY <2>2 DEF KrefIsExact, KrefAt
<1>6. ASSUME NEW v \in Uobjs, v \notin born, ref' = [ref EXCEPT ![v] = 1],
             new' = [new EXCEPT ![t] = v],
             \A h \in Handles : idr'[h] = idr[h] \/ (idr[h] \notin Uobjs /\ idr'[h] \notin Uobjs)
      PROVE  KrefIsExact'
  <2>1. new'[t] = v
    BY <1>0, <1>6 DEF TypeThread
  <2>2. KrefAt(v)'
    <3>1. \A s \in Threads : cur[s] # v
      BY <1>0, <1>6, <1>c, SMT DEF Publication, TypeThread
    <3>2. Krefs(v)' = {}
      BY <1>4, <3>1 DEF Krefs
    <3>3. \A h \in Handles : idr[h] # v
      BY <1>0, <1>6 DEF Publication
    <3>4. ~Indexed(v)'
      BY <1>6, <3>3 DEF Indexed
    <3>5. list'[v] = 0 /\ ~Filed(v)' /\ Creating(v)'
      BY <1>0, <1>2, <1>6, <2>1 DEF Publication, Filed, Creating
    <3>6. ref'[v] = 1
      BY <1>0, <1>6 DEF TypeUobj
    <3>7. Cardinality(Krefs(v)') = 0
      BY <3>2, FS_EmptySet
    <3>8. One(Creating(v))' = 1 /\ One(Indexed(v))' = 0 /\ One(list[v] # 0)' = 0 /\ One(Filed(v))' = 0
      BY <3>4, <3>5 DEF One
    <3> QED
      BY <3>6, <3>7, <3>8, SMT DEF KrefAt, Owners
  <2>3. ASSUME NEW u \in Uobjs, u # v PROVE KrefAt(u)'
    <3>1. ref'[u] = ref[u]
      BY <1>0, <1>6, <2>3 DEF TypeUobj
    <3>2. Creating(u)' <=> Creating(u)
      BY <1>1, <1>2, <1>c, <2>1, <2>3 DEF Creating, OthersSame
    <3>3. Indexed(u)' <=> Indexed(u)
      BY <1>6 DEF Indexed
    <3>4. SameOwners(u)
      BY <1>2, <3>2, <3>3 DEF SameOwners, Filed
    <3> QED
      BY <1>4, <3>1, <3>4, KrefSame
  <2> QED
    BY <2>2, <2>3 DEF KrefIsExact, KrefAt
<1>7. ASSUME NEW v \in Uobjs, AllocFd(t, v) PROVE KrefIsExact'
  <2>1. /\ v \notin born /\ idr' = idr /\ ref' = [ref EXCEPT ![v] = 1]
        /\ new' = [new EXCEPT ![t] = v]
    BY <1>7 DEF AllocFd, alloc_begin_fd_uobject, alloc_uobj
  <2> QED
    BY <1>6, <2>1
<1>8. ASSUME NEW v \in Uobjs, NEW h \in Handles, AllocIdr(t, v, h) PROVE KrefIsExact'
  <2>1. /\ v \notin born /\ idr[h] = Free /\ idr' = [idr EXCEPT ![h] = Null]
        /\ ref' = [ref EXCEPT ![v] = 1] /\ new' = [new EXCEPT ![t] = v]
    BY <1>8 DEF AllocIdr, alloc_begin_idr_uobject, alloc_uobj
  <2>2. \A g \in Handles : idr'[g] = idr[g] \/ (idr[g] \notin Uobjs /\ idr'[g] \notin Uobjs)
    BY <1>0, <1>c, <2>1 DEF TypeUobj
  <2> QED
    BY <1>6, <2>1, <2>2
<1> QED
  BY <1>5, <1>7, <1>8, AllocBegin

(* Commit turns the reference of the creator into that of the idr or of    *)
(* the struct file and takes one for the list; abort drops it.             *)
LEMMA KrefEndStep ==
    ASSUME IInv, Indices, KrefIsExact, NEW t \in Threads,
           rdma_alloc_commit_uobject(t) \/ rdma_alloc_abort_uobject(t)
    PROVE  KrefIsExact'
<1>0. TypeThread /\ TypeUobj /\ ThreadShape /\ Publication /\ Indices
  BY DEF IInv, TypeOK
<1>c. Null \notin Uobjs /\ Free \notin Uobjs /\ Free # Null
  BY ConstantsAssumption
<1>1. OthersSame(t)
  BY OthersStay DEF Command, IInv
<1>2. /\ cur' = cur /\ pc[t] \in {"created", "commit", "abort"} /\ pc'[t] # "rcu" /\ new[t] \in Uobjs
      /\ new' = [new EXCEPT ![t] = Null]
  BY <1>0 DEF rdma_alloc_commit_uobject, rdma_alloc_abort_uobject, TypeThread, Leave, ThreadShape
<1>v. PICK v \in Uobjs : v = new[t]
  BY <1>2
<1>3. /\ list[v] = 0 /\ rel[v] = "none" /\ (\A s \in Threads : s # t => new[s] # v)
      /\ \A h \in Handles : idr[h] # v
  BY <1>0, <1>2, <1>v, <1>c DEF Publication
<1>4. new'[t] = Null /\ \A s \in Threads : s # t => new'[s] = new[s]
  BY <1>0, <1>2 DEF TypeThread
<1>5. \A u \in Uobjs : KrefAt(u) /\ Krefs(u)' = Krefs(u)
  BY <1>1, <1>2, KrefsSame, KrefIsKrefAt DEF OthersSame
<1>6. /\ Creating(v) /\ ~Creating(v)' /\ ~Indexed(v) /\ ~Filed(v)
      /\ \A u \in Uobjs : u # v => (Creating(u)' <=> Creating(u))
  BY <1>3, <1>4, <1>c, <1>v DEF Creating, Indexed, Filed
<1>7. v \in IdrUobjs => id[v] \in Handles /\ idr[id[v]] = Null
  BY <1>0, <1>v DEF Indices
<1>8. CASE rdma_alloc_commit_uobject(t)
  <2>1. /\ ref' = [ref EXCEPT ![v] = @ + 1] /\ list' = [list EXCEPT ![v] = head + 1]
        /\ \/ v \in IdrUobjs /\ idr' = [idr EXCEPT ![id[v]] = v] /\ rel' = rel
           \/ v \in FdUobjs /\ rel' = [rel EXCEPT ![v] = "armed"] /\ idr' = idr
    BY <1>8, <1>v DEF rdma_alloc_commit_uobject
  <2>2. ASSUME NEW u \in Uobjs, u # v PROVE KrefAt(u)'
    <3>1. ref'[u] = ref[u] /\ list'[u] = list[u] /\ rel'[u] = rel[u]
      BY <1>0, <2>1, <2>2 DEF TypeUobj
    <3>2. Indexed(u)' <=> Indexed(u)
      BY <1>0, <1>7, <1>c, <2>1, <2>2, SMT DEF TypeUobj, Indexed
    <3>3. SameOwners(u)
      BY <1>6, <2>2, <3>1, <3>2 DEF SameOwners, Filed
    <3> QED
      BY <1>5, <3>1, <3>3, KrefSame
  <2>3. KrefAt(v)'
    <3>1. ref'[v] = ref[v] + 1 /\ list'[v] # 0 /\ ref[v] \in Int
      BY <1>0, <2>1, SMT DEF TypeUobj
    <3>2. \/ Indexed(v)' /\ ~Filed(v)'
          \/ ~Indexed(v)' /\ Filed(v)'
      <4>1. CASE v \in IdrUobjs /\ idr' = [idr EXCEPT ![id[v]] = v] /\ rel' = rel
        BY <1>0, <1>6, <1>7, <4>1 DEF TypeUobj, Indexed, Filed
      <4>2. CASE v \in FdUobjs /\ rel' = [rel EXCEPT ![v] = "armed"] /\ idr' = idr
        BY <1>0, <1>6, <4>2 DEF TypeUobj, Indexed, Filed
      <4> QED
        BY <2>1, <4>1, <4>2
    <3>3. One(Creating(v)) = 1 /\ One(Creating(v))' = 0 /\ One(list[v] # 0) = 0 /\ One(list[v] # 0)' = 1
      BY <1>3, <1>6, <3>1 DEF One
    <3>4. /\ One(Indexed(v)) = 0 /\ One(Filed(v)) = 0
          /\ \/ One(Indexed(v))' = 1 /\ One(Filed(v))' = 0
             \/ One(Indexed(v))' = 0 /\ One(Filed(v))' = 1
      BY <1>6, <3>2 DEF One
    <3> QED
      BY <1>5, <3>1, <3>3, <3>4, KrefMoved, SMT
  <2> QED
    BY <2>2, <2>3 DEF KrefIsExact, KrefAt
<1>9. CASE rdma_alloc_abort_uobject(t)
  <2>1. /\ ref' = [ref EXCEPT ![v] = @ - 1] /\ list' = list /\ rel' = rel
        /\ idr' = IF v \in IdrUobjs THEN [idr EXCEPT ![id[v]] = Free] ELSE idr
    BY <1>9, <1>v DEF rdma_alloc_abort_uobject
  <2>2. \A u \in Uobjs : Indexed(u)' <=> Indexed(u)
    BY <1>0, <1>7, <1>c, <2>1 DEF TypeUobj, Indexed
  <2>3. ASSUME NEW u \in Uobjs, u # v PROVE KrefAt(u)'
    <3>1. ref'[u] = ref[u]
      BY <1>0, <2>1, <2>3 DEF TypeUobj
    <3>2. SameOwners(u)
      BY <1>6, <2>1, <2>2, <2>3 DEF SameOwners, Filed
    <3> QED
      BY <1>5, <3>1, <3>2, KrefSame
  <2>4. KrefAt(v)'
    <3>1. ref'[v] = ref[v] - 1 /\ ref[v] \in Int
      BY <1>0, <2>1 DEF TypeUobj
    <3>2. ~Filed(v)' /\ ~Indexed(v)'
      BY <1>6, <2>1, <2>2 DEF Filed
    <3>3. /\ One(Creating(v)) = 1 /\ One(Creating(v))' = 0
          /\ One(list[v] # 0) = 0 /\ One(list[v] # 0)' = 0 /\ One(Indexed(v)) = 0
          /\ One(Indexed(v))' = 0 /\ One(Filed(v)) = 0 /\ One(Filed(v))' = 0
      BY <1>3, <1>6, <2>1, <3>2 DEF One
    <3> QED
      BY <1>5, <3>1, <3>3, KrefMoved, SMT
  <2> QED
    BY <2>3, <2>4 DEF KrefIsExact, KrefAt
<1> QED
  BY <1>8, <1>9

(* rdma_assign_uobject: the uobject that is kept has an index before and   *)
(* after.                                                                  *)
LEMMA KrefAssignStep ==
    ASSUME IInv, Indices, KrefIsExact, NEW t \in Threads, rdma_assign_uobject(t)
    PROVE  KrefIsExact'
<1>0. TypeThread /\ TypeUobj /\ ThreadShape /\ Publication /\ Indices
  BY DEF IInv, TypeOK
<1>c. Null \notin Uobjs /\ Free \notin Uobjs /\ Free # Null
  BY ConstantsAssumption
<1>1. OthersSame(t)
  BY OthersStay DEF Command, IInv
<1>2. /\ pc[t] = "created" /\ cur[t] # Null /\ mode[t] = "WRITE" /\ new[t] # Null
      /\ UNCHANGED <<ref, list, rel, cur, new>> /\ pc'[t] = "destroy"
  BY <1>0 DEF rdma_assign_uobject, Rereg, ThreadShape, TypeThread
<1>v. PICK v \in IdrUobjs : v = cur[t]
  BY <1>0, <1>2 DEF ThreadShape, TypeThread, IdrUobjs
<1>n. PICK n \in IdrUobjs : n = new[t]
  BY <1>0, <1>2 DEF ThreadShape, Rereg
<1>3. Owns(t, v)
  BY <1>2, <1>v DEF Owns, Holding
<1>a. PICK a \in Handles : a = id[v] /\ idr[a] = v
  BY <1>0, <1>3, <1>v DEF Indices, Kept, AtIndex
<1>b. PICK b \in Handles : b = id[n] /\ idr[b] = Null
  BY <1>0, <1>n DEF Indices
<1>5. idr' = [idr EXCEPT ![a] = Null, ![b] = v]
  BY <1>v, <1>n, <1>a, <1>b DEF rdma_assign_uobject
<1>6. idr'[b] = v /\ idr'[a] = Null /\ \A g \in Handles : g # a /\ g # b => idr'[g] = idr[g]
  BY <1>0, <1>5, <1>a, <1>b, <1>c DEF TypeUobj, IdrUobjs
<1>7. \A u \in Uobjs : Indexed(u)' <=> Indexed(u)
  BY <1>6, <1>a, <1>b, <1>c DEF Indexed
<1>8. \A u \in Uobjs : SameOwners(u)
  BY <1>2, <1>7 DEF SameOwners, Creating, Filed
<1>9. \A u \in Uobjs : Krefs(u)' = Krefs(u)
  BY <1>1, <1>2, KrefsSame DEF OthersSame
<1>10. \A u \in Uobjs : KrefAt(u)'
  BY <1>2, <1>8, <1>9, KrefIsKrefAt, KrefSame
<1> QED
  BY <1>10 DEF KrefIsExact, KrefAt

(* Destruction drops the reference of the idr and that of the list. *)
LEMMA KrefDestroyStep ==
    ASSUME IInv, Indices, KrefIsExact, NEW t \in Threads, uverbs_destroy_uobject(t)
    PROVE  KrefIsExact'
<1>0. TypeThread /\ TypeUobj /\ ThreadShape /\ Publication /\ Indices
  BY DEF IInv, TypeOK
<1>c. Null \notin Uobjs /\ Free \notin Uobjs /\ Free # Null
  BY ConstantsAssumption
<1>1. OthersSame(t)
  BY OthersStay DEF Command, IInv
<1>2. /\ pc[t] = "unlink" /\ cur[t] # Null /\ mode[t] = "DESTROY" /\ pc'[t] # "rcu"
      /\ UNCHANGED <<rel, cur, new>>
  BY <1>0 DEF uverbs_destroy_uobject, ThreadShape, TypeThread
<1>v. PICK v \in IdrUobjs : v = cur[t]
  BY <1>0, <1>2 DEF ThreadShape, TypeThread, IdrUobjs
<1>3. Owns(t, v) /\ v \in Uobjs
  BY <1>2, <1>v DEF Owns, IdrUobjs
<1>a. PICK a \in Handles : a = id[v] /\ idr[a] = v
  BY <1>0, <1>3, <1>v DEF Indices, Kept, AtIndex
<1>4. /\ idr' = [idr EXCEPT ![a] = Free] /\ list' = [list EXCEPT ![v] = 0]
      /\ ref' = [ref EXCEPT ![v] = @ - (IF list[v] = 0 THEN 1 ELSE 2)]
  BY <1>v, <1>a DEF uverbs_destroy_uobject
<1>5. \A u \in Uobjs : KrefAt(u) /\ Krefs(u)' = Krefs(u) /\ (Creating(u)' <=> Creating(u))
  BY <1>1, <1>2, KrefsSame, KrefIsKrefAt DEF OthersSame, Creating
<1>6. Indexed(v) /\ ~Indexed(v)'
  <2>1. \A h \in Handles : h # a => idr[h] # v
    BY <1>0, <1>3, <1>a DEF Indices
  <2>2. \A h \in Handles : idr'[h] # v
    BY <1>0, <1>3, <1>4, <1>c, <2>1 DEF TypeUobj
  <2> QED
    BY <1>a, <2>2 DEF Indexed
<1>7. ASSUME NEW u \in Uobjs, u # v PROVE KrefAt(u)'
  <2>1. ref'[u] = ref[u] /\ list'[u] = list[u]
    BY <1>0, <1>4, <1>7 DEF TypeUobj
  <2>2. Indexed(u)' <=> Indexed(u)
    BY <1>0, <1>4, <1>7, <1>a, <1>c DEF TypeUobj, Indexed
  <2>3. SameOwners(u)
    BY <1>2, <1>5, <2>1, <2>2 DEF SameOwners, Filed
  <2> QED
    BY <1>5, <2>1, <2>3, KrefSame
<1>8. KrefAt(v)'
  <2>1. /\ ref[v] \in Int /\ list'[v] = 0
        /\ ref'[v] = ref[v] - (IF list[v] = 0 THEN 1 ELSE 2)
    BY <1>0, <1>3, <1>4 DEF TypeUobj
  <2>2. One(Creating(v))' = One(Creating(v)) /\ One(Creating(v)) \in Int
    BY <1>3, <1>5, SMT DEF One
  <2>3. One(Filed(v))' = One(Filed(v)) /\ One(Filed(v)) \in Int
    BY <1>2, SMT DEF One, Filed
  <2>4. One(Indexed(v)) = 1 /\ One(Indexed(v))' = 0
    BY <1>6 DEF One
  <2>5. One(list[v] # 0) = (IF list[v] = 0 THEN 0 ELSE 1) /\ One(list[v] # 0)' = 0
    BY <2>1 DEF One
  <2>6. ref'[v] = ref[v] + (One(Creating(v))' - One(Creating(v)))
                          + (One(Indexed(v))' - One(Indexed(v)))
                          + (One(list[v] # 0)' - One(list[v] # 0))
                          + (One(Filed(v))' - One(Filed(v)))
    BY <2>1, <2>2, <2>3, <2>4, <2>5, SMT
  <2> QED
    BY <1>3, <1>5, <2>6, KrefMoved
<1> QED
  BY <1>7, <1>8 DEF KrefIsExact, KrefAt

(* A step of the kernel, not of a command, leaves the lookups alone.       *)
LEMMA KrefsRest == ASSUME UNCHANGED tvars, NEW u PROVE Krefs(u)' = Krefs(u) /\ (Creating(u)' <=> Creating(u))
<1>1. UNCHANGED <<pc, cur, new>>
  BY DEF tvars
<1> QED
  BY <1>1 DEF Krefs, Creating

(* The release of an FD uobject drops the reference of the list, if        *)
(* cleanup has not.                                                        *)
LEMMA KrefFdStep ==
    ASSUME IInv, KrefIsExact, NEW v \in FdUobjs,
           fd_close(v) \/ uverbs_uobject_fd_release(v) \/ fd_release_destroy(v)
    PROVE  KrefIsExact'
<1>0. TypeUobj /\ v \in Uobjs
  BY ConstantsAssumption DEF IInv, TypeOK
<1>1. UNCHANGED <<idr, tvars>>
  BY DEF fd_close, uverbs_uobject_fd_release, fd_release_destroy
<1>2. \A u \in Uobjs : /\ KrefAt(u) /\ Krefs(u)' = Krefs(u) /\ (Creating(u)' <=> Creating(u))
                       /\ (Indexed(u)' <=> Indexed(u))
  BY <1>1, KrefsRest, KrefIsKrefAt DEF Indexed
<1>3. \A u \in Uobjs : Filed(u)' <=> Filed(u)
  BY <1>0 DEF fd_close, uverbs_uobject_fd_release, fd_release_destroy, Filed, TypeUobj
<1>4. CASE fd_close(v) \/ uverbs_uobject_fd_release(v)
  <2>1. UNCHANGED <<ref, list>>
    BY <1>4 DEF fd_close, uverbs_uobject_fd_release
  <2>2. \A u \in Uobjs : KrefAt(u)'
    BY <1>2, <1>3, <2>1, KrefSame DEF SameOwners
  <2> QED
    BY <2>2 DEF KrefIsExact, KrefAt
<1>5. CASE fd_release_destroy(v)
  <2>1. /\ list' = [list EXCEPT ![v] = 0]
        /\ ref' = [ref EXCEPT ![v] = @ - (IF list[v] = 0 THEN 0 ELSE 1)]
    BY <1>5 DEF fd_release_destroy
  <2>2. ASSUME NEW u \in Uobjs, u # v PROVE KrefAt(u)'
    <3>1. ref'[u] = ref[u] /\ list'[u] = list[u]
      BY <1>0, <2>1, <2>2 DEF TypeUobj
    <3> QED
      BY <1>2, <1>3, <3>1, KrefSame DEF SameOwners
  <2>3. KrefAt(v)'
    <3>1. /\ ref[v] \in Int /\ list'[v] = 0
          /\ ref'[v] = ref[v] - (IF list[v] = 0 THEN 0 ELSE 1)
      BY <1>0, <2>1 DEF TypeUobj
    <3>2. /\ One(Creating(v))' = One(Creating(v)) /\ One(Creating(v)) \in Int
          /\ One(Filed(v))' = One(Filed(v)) /\ One(Filed(v)) \in Int
          /\ One(Indexed(v))' = One(Indexed(v)) /\ One(Indexed(v)) \in Int
      BY <1>0, <1>2, <1>3, SMT DEF One
    <3>3. One(list[v] # 0) = (IF list[v] = 0 THEN 0 ELSE 1) /\ One(list[v] # 0)' = 0
      BY <3>1 DEF One
    <3>4. ref'[v] = ref[v] + (One(Creating(v))' - One(Creating(v)))
                          + (One(Indexed(v))' - One(Indexed(v)))
                          + (One(list[v] # 0)' - One(list[v] # 0))
                          + (One(Filed(v))' - One(Filed(v)))
      BY <3>1, <3>2, <3>3, SMT
    <3> QED
      BY <1>0, <1>2, <3>4, KrefMoved
  <2> QED
    BY <2>2, <2>3 DEF KrefIsExact, KrefAt
<1> QED
  BY <1>4, <1>5

(* The last reference on the file releases the idr; f is the struct file   *)
(* that is put in the same step, if any.                                   *)
LEMMA KrefRelease ==
    ASSUME IInv, KrefIsExact, UNCHANGED <<list, tvars>>, NEW f, f \in FdUobjs => Filed(f) /\ ~Filed(f)',
           \A u \in Uobjs : u # f => (Filed(u)' <=> Filed(u)),
           NEW r, \A u \in Uobjs : r[u] = IF u = f THEN ref[u] - 1 ELSE ref[u],
           f \in Uobjs => f \in FdUobjs, release_ufile(r)
    PROVE  KrefIsExact'
<1>0. TypeUobj /\ Publication /\ Free \notin Uobjs
  BY ConstantsAssumption DEF IInv, TypeOK
<1> SUFFICES ASSUME NEW u \in Uobjs PROVE KrefAt(u)'
  BY DEF KrefIsExact, KrefAt
<1>1. KrefAt(u) /\ Krefs(u)' = Krefs(u) /\ (Creating(u)' <=> Creating(u)) /\ (list'[u] # 0 <=> list[u] # 0)
  BY KrefIsKrefAt, KrefsRest
<1>2. /\ One(Creating(u))' = One(Creating(u)) /\ One(Creating(u)) \in Int
      /\ One(list[u] # 0)' = One(list[u] # 0) /\ One(list[u] # 0) \in Int
  BY <1>1, SMT DEF One
<1>3. r[u] = ref[u] + (One(Filed(u))' - One(Filed(u))) /\ r[u] \in Int /\ ref[u] \in Int
  BY <1>0, SMT DEF One, TypeUobj
<1>4. One(Filed(u))' \in Int /\ One(Filed(u)) \in Int
  BY SMT DEF One
<1>5. ref'[u] = r[u] + (One(Indexed(u))' - One(Indexed(u)))
  <2>1. CASE fref = 1
    <3>1. ref'[u] = IF Indexed(u) THEN r[u] - 1 ELSE r[u]
      BY <2>1 DEF release_ufile, Indexed
    <3>2. idr' = [h \in Handles |-> Free]
      BY <2>1 DEF release_ufile
    <3>3. ~Indexed(u)'
      BY <1>0, <3>2 DEF Indexed
    <3> QED
      BY <1>3, <3>1, <3>3, SMT DEF One
  <2>2. CASE fref # 1
    <3>1. ref' = r /\ idr' = idr
      BY <2>2 DEF release_ufile
    <3>2. One(Indexed(u))' = One(Indexed(u)) /\ One(Indexed(u)) \in Int
      BY <3>1, SMT DEF Indexed, One
    <3> QED
      BY <1>3, <3>1, <3>2, SMT
  <2> QED
    BY <2>1, <2>2
<1>6. One(Indexed(u))' \in Int /\ One(Indexed(u)) \in Int
  BY SMT DEF One
<1>7. ref'[u] = ref[u] + (One(Creating(u))' - One(Creating(u)))
                          + (One(Indexed(u))' - One(Indexed(u)))
                          + (One(list[u] # 0)' - One(list[u] # 0))
                          + (One(Filed(u))' - One(Filed(u)))
  BY <1>2, <1>3, <1>4, <1>5, <1>6, SMT
<1> QED
  BY <1>1, <1>7, KrefMoved

(* The steps that drop a reference on the file. *)
LEMMA KrefReleaseSteps ==
    ASSUME IInv, KrefIsExact, (\E u \in FdUobjs : fd_release_put(u)) \/ close_put \/ remove_put
    PROVE  KrefIsExact'
<1>0. TypeUobj /\ FdUobjs \subseteq Uobjs
  BY ConstantsAssumption DEF IInv, TypeOK
<1>1. ASSUME NEW v \in FdUobjs, fd_release_put(v) PROVE KrefIsExact'
  <2>1. /\ UNCHANGED <<list, tvars>> /\ release_ufile([ref EXCEPT ![v] = @ - 1])
        /\ rel[v] = "drop" /\ rel' = [rel EXCEPT ![v] = "done"]
    BY <1>1 DEF fd_release_put
  <2>2. Filed(v) /\ ~Filed(v)' /\ \A u \in Uobjs : u # v => (Filed(u)' <=> Filed(u))
    BY <1>0, <2>1 DEF Filed, TypeUobj
  <2>r. PICK r : r = [ref EXCEPT ![v] = @ - 1]
    OBVIOUS
  <2>3. \A u \in Uobjs : r[u] = IF u = v THEN ref[u] - 1 ELSE ref[u]
    BY <1>0, <2>r DEF TypeUobj
  <2>4. release_ufile(r)
    BY <2>1, <2>r
  <2> QED
    BY <2>1, <2>2, <2>3, <2>4, KrefRelease
<1>2. ASSUME close_put \/ remove_put PROVE KrefIsExact'
  <2>1. UNCHANGED <<rel, list, tvars>> /\ release_ufile(ref)
    BY <1>2 DEF close_put, remove_put
  <2>2. \A u \in Uobjs : Filed(u)' <=> Filed(u)
    BY <2>1 DEF Filed
  <2>3. \A u \in Uobjs : u # Null
    BY ConstantsAssumption
  <2>r. PICK r : r = ref
    OBVIOUS
  <2>4. release_ufile(r) /\ \A u \in Uobjs : r[u] = IF u = Null THEN ref[u] - 1 ELSE ref[u]
    BY <2>1, <2>3, <2>r
  <2>n. Null \notin Uobjs /\ Null \notin FdUobjs
    BY <1>0, <2>3
  <2> QED
    BY <2>1, <2>2, <2>4, <2>n, KrefRelease
<1> QED
  BY <1>1, <1>2

(* Cleanup drops the reference of the list. *)
LEMMA KrefCleanStep ==
    ASSUME IInv, ToClean, KrefIsExact, NEW c \in Cleaners, Cleanup(c)
    PROVE  KrefIsExact'
<1>0. TypeUobj
  BY DEF IInv, TypeOK
<1>1. UNCHANGED <<idr, rel, tvars>>
  BY DEF Cleanup, uverbs_destroy_ufile_hw, uverbs_cleanup_ufile, cleanup_pass_end, up_write, uvars
<1> SUFFICES ASSUME NEW u \in Uobjs PROVE KrefAt(u)'
  BY DEF KrefIsExact, KrefAt
<1>2. /\ KrefAt(u) /\ Krefs(u)' = Krefs(u) /\ (Creating(u)' <=> Creating(u))
      /\ (Indexed(u)' <=> Indexed(u)) /\ (Filed(u)' <=> Filed(u))
  BY <1>1, KrefIsKrefAt, KrefsRest DEF Indexed, Filed
<1>3. CASE ref'[u] = ref[u] /\ list'[u] = list[u]
  BY <1>2, <1>3, KrefSame DEF SameOwners
<1>4. CASE ref'[u] = ref[u] - 1 /\ list[u] # 0 /\ list'[u] = 0
  <2>1. ref[u] \in Int
    BY <1>0 DEF TypeUobj
  <2>2. /\ One(Creating(u))' = One(Creating(u)) /\ One(Creating(u)) \in Int
        /\ One(Filed(u))' = One(Filed(u)) /\ One(Filed(u)) \in Int
        /\ One(Indexed(u))' = One(Indexed(u)) /\ One(Indexed(u)) \in Int
    BY <1>2, SMT DEF One
  <2>3. One(list[u] # 0) = 1 /\ One(list[u] # 0)' = 0
    BY <1>4 DEF One
  <2> QED
    BY <1>2, <1>4, <2>1, <2>2, <2>3, KrefMoved, SMT
<1>5. \/ ref'[u] = ref[u] /\ list'[u] = list[u]
      \/ ref'[u] = ref[u] - 1 /\ list[u] # 0 /\ list'[u] = 0
  <2>1. CASE uverbs_destroy_ufile_hw(c) \/ up_write(c)
    <3>1. ref' = ref /\ list' = list
      BY <2>1 DEF uverbs_destroy_ufile_hw, up_write, uvars
    <3> QED
      BY <3>1
  <2>2. CASE uverbs_cleanup_ufile(c)
    <3>1. cpc[c] = "pass" /\ \E v \in todo :
             \/ ref' = ref /\ list' = list
             \/ ref' = [ref EXCEPT ![v] = @ - 1] /\ list' = [list EXCEPT ![v] = 0]
      BY <2>2 DEF uverbs_cleanup_ufile, Cleaned, Next2Clean
    <3>2. PICK v \in Uobjs : /\ list[v] # 0
                             /\ \/ ref' = ref /\ list' = list
                                \/ ref' = [ref EXCEPT ![v] = @ - 1] /\ list' = [list EXCEPT ![v] = 0]
      BY <3>1 DEF ToClean, Linked
    <3> QED
      BY <1>0, <3>2, SMT DEF TypeUobj
  <2>3. CASE cleanup_pass_end(c)
    <3>1. \/ ref' = ref /\ list' = list
          \/ /\ list' = [w \in Uobjs |-> 0]
             /\ ref' = [w \in Uobjs |-> IF w \in Linked THEN ref[w] - 1 ELSE ref[w]]
      BY <2>3 DEF cleanup_pass_end, uvars
    <3> QED
      BY <3>1 DEF Linked
  <2> QED
    BY <2>1, <2>2, <2>3 DEF Cleanup
<1> QED
  BY <1>3, <1>4, <1>5

(* Every step preserves KrefIsExact. *)
LEMMA KrefStep ==
    ASSUME IInv, Indices, ToClean, KrefIsExact, Next
    PROVE  KrefIsExact'
<1>1. ASSUME NEW t \in Threads, Command(t) PROVE KrefIsExact'
  <2>1. CASE rdma_lookup_get_uobject(t)
    BY <2>1, LookupGet, KrefQuietSteps, KrefPutSteps
  <2> QED
    BY <1>1, <2>1, KrefQuietSteps, KrefGetSteps, KrefPutSteps, KrefAllocStep, KrefEndStep,
       KrefAssignStep, KrefDestroyStep DEF Command
<1>2. ASSUME ib_uverbs_close \/ ib_uverbs_remove_one \/ ib_uverbs_free_hw_resources
      PROVE  KrefIsExact'
  <2>1. UNCHANGED <<ref, idr, list, rel, tvars>>
    BY <1>2 DEF ib_uverbs_close, ib_uverbs_remove_one, ib_uverbs_free_hw_resources, uvars
  <2>2. new' = new
    BY <2>1 DEF tvars
  <2>3. \A u \in Uobjs : KrefAt(u)'
    BY <2>1, <2>2, KrefIsKrefAt, KrefsRest, OwnersRest, KrefSame
  <2> QED
    BY <2>3 DEF KrefIsExact, KrefAt
<1> QED
  BY <1>1, <1>2, KrefFdStep, KrefReleaseSteps, KrefCleanStep DEF Next, FdRelease

(* RefInv holds in the initial state. *)
LEMMA RefInvInit == Init => RefInv
<1> SUFFICES ASSUME Init PROVE RefInv
  OBVIOUS
<1>c. Null \notin Uobjs /\ Free \notin Uobjs /\ FdUobjs \subseteq Uobjs
  BY ConstantsAssumption
<1>1. /\ \A h \in Handles : idr[h] = Free
      /\ \A t \in Threads : cur[t] = Null /\ new[t] = Null
      /\ \A u \in Uobjs : list[u] = 0 /\ ref[u] = 0 /\ rel[u] = "none"
      /\ fref = 1 /\ cpc["close"] = "idle" /\ cpc["remove"] = "idle"
  BY DEF Init, Cleaners
<1>2. Indices
  <2>1. \A u \in IdrUobjs : ~Kept(u)
    BY <1>1, <1>c DEF Kept, IdrUobjs
  <2> QED
    BY <1>1, <1>c, <2>1 DEF Indices, IdrUobjs
<1>3. ToClean
  BY <1>1 DEF ToClean, Cleaners
<1>4. FileRefs
  <2>1. FiledUobjs = {}
    BY <1>1, <1>c DEF FiledUobjs, Filed
  <2>2. One(cpc["close"] # "done") = 1 /\ One(Removing) = 0
    BY <1>1 DEF One, Removing
  <2>3. Cardinality(FiledUobjs) = 0
    BY <2>1, FS_EmptySet
  <2> QED
    BY <1>1, <2>2, <2>3, SMT DEF FileRefs
<1>5. ASSUME NEW u \in Uobjs PROVE ref[u] = Owners(u)
  <2>1. Krefs(u) = {} /\ ~Creating(u) /\ ~Indexed(u) /\ ~Filed(u) /\ list[u] = 0
    BY <1>1, <1>c DEF Krefs, Creating, Indexed, Filed
  <2>2. Cardinality(Krefs(u)) = 0
    BY <2>1, FS_EmptySet
  <2>3. One(Creating(u)) = 0 /\ One(Indexed(u)) = 0 /\ One(list[u] # 0) = 0 /\ One(Filed(u)) = 0
    BY <2>1 DEF One
  <2> QED
    BY <1>1, <2>2, <2>3, SMT DEF Owners
<1> QED
  BY <1>2, <1>3, <1>4, <1>5 DEF RefInv, KrefIsExact

(* A reference is only taken by someone who knows that there is another. *)
LEMMA NoRevival ==
    ASSUME IInv, LockInv, KrefIsExact, Next, NEW u \in born, ref[u] = 0
    PROVE  ref'[u] <= 0
<1>0. TypeUobj /\ TypeThread /\ ThreadShape /\ u \in Uobjs /\ FdUobjs \subseteq Uobjs
  BY ConstantsAssumption DEF IInv, TypeOK, TypeUobj
<1>1. ~Creating(u) /\ ~Filed(u)
  <2>1. ref[u] = Cardinality(Krefs(u)) + One(Creating(u)) + One(Indexed(u))
                 + One(list[u] # 0) + One(Filed(u))
    BY <1>0 DEF KrefIsExact, Owners
  <2> QED
    BY <2>1, KrefsFinite, SMTT(30) DEF One
<1>2. ASSUME NEW t \in Threads, Command(t) PROVE ref'[u] <= 0
  <2>1. CASE \/ ib_uverbs_ioctl(t) \/ ib_uverbs_ioctl_end(t) \/ ib_init_ucontext(t) \/ handler(t)
             \/ xa_load(t) \/ uobj_destroy(t) \/ destroy_hw(t) \/ rdma_assign_uobject(t)
    <3>1. ref' = ref
      BY <2>1 DEF ib_uverbs_ioctl, ib_uverbs_ioctl_end, ib_init_ucontext, handler, xa_load,
         uobj_destroy, destroy_hw, rdma_assign_uobject, uvars
    <3> QED
      BY <3>1, SMT
  <2>2. CASE rdma_alloc_begin_uobject(t)
    <3>1. ref' = ref \/ \E v \in Uobjs \ born : ref' = [ref EXCEPT ![v] = 1]
      BY <2>2, AllocBegin DEF AllocNone, AllocIdr, AllocFd, alloc_begin_fd_uobject,
         alloc_begin_idr_uobject, alloc_uobj
    <3> QED
      BY <1>0, <3>1, SMT DEF TypeUobj
  <2>3. CASE rdma_alloc_commit_uobject(t) \/ rdma_alloc_abort_uobject(t)
    <3>1. new[t] # u
      BY <1>1 DEF Creating
    <3>2. ref' = [ref EXCEPT ![new[t]] = @ + 1] \/ ref' = [ref EXCEPT ![new[t]] = @ - 1]
      BY <2>3 DEF rdma_alloc_commit_uobject, rdma_alloc_abort_uobject
    <3> QED
      BY <1>0, <3>1, <3>2, SMT DEF TypeUobj
  <2>4. CASE lookup_get_idr_uobject(t)
    <3>1. ref' = ref \/ (ref[cur[t]] > 0 /\ ref' = [ref EXCEPT ![cur[t]] = @ + 1])
      BY <2>4 DEF lookup_get_idr_uobject
    <3> QED
      BY <1>0, <3>1, SMT DEF TypeUobj
  <2>5. CASE lookup_get_fd_uobject(t)
    <3>1. PICK v \in FdUobjs : v \in fd /\ ref' = [ref EXCEPT ![v] = @ + 1]
      BY <2>5 DEF lookup_get_fd_uobject
    <3>2. Filed(v)
      BY <3>1 DEF LockInv, Filps, Filed
    <3> QED
      BY <1>0, <1>1, <3>1, <3>2, SMT DEF TypeUobj
  <2>6. CASE rdma_lookup_get_uobject(t) \/ rdma_lookup_put_uobject(t)
    <3>1. ref' = ref \/ ref' = [ref EXCEPT ![cur[t]] = @ - 1]
      BY <2>6, LookupGet DEF Granted, Refused, rdma_lookup_put_uobject, lookup_put
    <3> QED
      BY <1>0, <3>1, SMT DEF TypeUobj
  <2>7. CASE uverbs_destroy_uobject(t)
    <3>1. ref' = [ref EXCEPT ![cur[t]] = @ - (IF list[cur[t]] = 0 THEN 1 ELSE 2)]
      BY <2>7 DEF uverbs_destroy_uobject
    <3> QED
      BY <1>0, <3>1, SMT DEF TypeUobj
  <2> QED
    BY <1>2, <2>1, <2>2, <2>3, <2>4, <2>5, <2>6, <2>7 DEF Command
<1>3. ASSUME NEW r, release_ufile(r), r[u] \in Int, r[u] <= 0 PROVE ref'[u] <= 0
  BY <1>0, <1>3, SMT DEF release_ufile
<1>4. ASSUME NEW v \in FdUobjs, fd_close(v) \/ FdRelease(v) PROVE ref'[u] <= 0
  <2>1. CASE fd_close(v) \/ uverbs_uobject_fd_release(v)
    <3>1. ref' = ref
      BY <2>1 DEF fd_close, uverbs_uobject_fd_release
    <3> QED
      BY <3>1, SMT
  <2>2. CASE fd_release_destroy(v)
    <3>1. ref' = [ref EXCEPT ![v] = @ - (IF list[v] = 0 THEN 0 ELSE 1)]
      BY <2>2 DEF fd_release_destroy
    <3> QED
      BY <1>0, <3>1, SMT DEF TypeUobj
  <2>3. CASE fd_release_put(v)
    <3>r. PICK r : r = [ref EXCEPT ![v] = @ - 1]
      OBVIOUS
    <3>1. release_ufile(r)
      BY <2>3, <3>r DEF fd_release_put
    <3>2. r[u] \in Int /\ r[u] <= 0
      BY <1>0, <3>r, SMT DEF TypeUobj
    <3> QED
      BY <1>3, <3>1, <3>2
  <2> QED
    BY <1>4, <2>1, <2>2, <2>3 DEF FdRelease
<1>5. ASSUME NEW c \in Cleaners, Cleanup(c) PROVE ref'[u] <= 0
  <2>1. \/ ref' = ref \/ (\E v \in Uobjs : ref' = [ref EXCEPT ![v] = @ - 1])
        \/ ref' = [v \in Uobjs |-> IF v \in Linked THEN ref[v] - 1 ELSE ref[v]]
    BY <1>5 DEF Cleanup, uverbs_destroy_ufile_hw, uverbs_cleanup_ufile, cleanup_pass_end, up_write,
       Cleaned, uvars
  <2> QED
    BY <1>0, <2>1, SMT DEF TypeUobj
<1>6. ASSUME close_put \/ remove_put PROVE ref'[u] <= 0
  <2>r. PICK r : r = ref
    OBVIOUS
  <2>1. release_ufile(r) /\ r[u] \in Int /\ r[u] <= 0
    BY <1>6, <2>r, SMT DEF close_put, remove_put
  <2> QED
    BY <1>3, <2>1
<1>7. ASSUME ib_uverbs_close \/ ib_uverbs_remove_one \/ ib_uverbs_free_hw_resources
      PROVE  ref'[u] <= 0
  <2>1. ref' = ref
    BY <1>7 DEF ib_uverbs_close, ib_uverbs_remove_one, ib_uverbs_free_hw_resources, uvars
  <2> QED
    BY <2>1, SMT
<1> QED
  BY <1>2, <1>4, <1>5, <1>6, <1>7 DEF Next

----------------------------------------------------------------------------
(* The theorems. *)

(* IInv is an invariant of every behaviour. *)
THEOREM Invariance == Spec => []IInv
<1>1. IInv /\ [Next]_vars => IInv'
  BY NextIInv, StutterIInv
<1> QED
  BY InitIInv, <1>1, PTL DEF Spec

(* Every variable keeps the type the code gives it. *)
THEOREM TypeCorrect == Spec => []TypeOK
<1>1. IInv => TypeOK
  BY DEF IInv
<1> QED
  BY Invariance, <1>1, PTL

(* Cleanup never meets a uobject that a command or an FD release has       *)
(* locked: the WARN_ON of __uverbs_cleanup_ufile is not hit that way.      *)
THEOREM CleanupIsAlone == Spec => []CleanupMeetsNoCommand
<1>1. IInv => CleanupMeetsNoCommand
  <2> SUFFICES ASSUME IInv, NEW c \in Cleaners, cpc[c] = "pass", NEW u \in todo
               PROVE  /\ Readers(u) = {} /\ rel[u] # "held"
                      /\ \A t \in Threads : ~Owns(t, u)
    BY DEF CleanupMeetsNoCommand
  <2>1. u \in Uobjs /\ (rel[u] = "held" => u \in FdUobjs)
    BY DEF IInv, TypeOK, TypeClean, Publication
  <2>2. /\ \A t \in Threads : ~Holding(t) /\ new[t] = Null /\ pc[t] \notin {"destroy", "unlink"}
        /\ \A v \in FdUobjs : rel[v] # "held"
    BY CleanerAlone DEF IInv
  <2> QED
    BY <2>1, <2>2, ConstantsAssumption DEF Readers, Owns
<1> QED
  BY Invariance, <1>1, PTL

(* When ib_uverbs_remove_one returns nothing of the file is left on the    *)
(* device, whether it or a concurrent close did the work.                  *)
THEOREM RemovalIsComplete == Spec => []RemovalLeavesNothing
<1>1. IInv => RemovalLeavesNothing
  <2> SUFFICES ASSUME IInv, cpc["remove"] = "done"
               PROVE  object = {} /\ ~ucontext
    BY DEF RemovalLeavesNothing
  <2>1. \A t \in Threads : new[t] = Null
    BY DEF IInv, Gates
  <2> QED
    BY <2>1, NoContextNoHw DEF IInv, Teardown, Cleaners
<1> QED
  BY Invariance, <1>1, PTL

(* No HW object appears once synchronize_srcu has returned. *)
THEOREM NothingCreatedAfterGrace == Spec => NoCreationAfterGrace
<1>1. ASSUME IInv, [Next]_vars, cpc["remove"] \notin {"idle", "sync"}
      PROVE  object' \subseteq object
  <2>1. \A t \in Threads : new[t] = Null
    BY <1>1 DEF IInv, Gates
  <2>2. ASSUME NEW t \in Threads, rdma_alloc_begin_uobject(t)
        PROVE  object' \subseteq object
    BY <1>1, <2>2 DEF rdma_alloc_begin_uobject, ib_uverbs_get_context, MayAlloc, SeesDev, ibdev,
       IInv, Gates
  <2>3. ASSUME NEW t \in Threads, handler(t)
        PROVE  object' \subseteq object
    BY <1>1, <2>1, <2>3 DEF handler, IInv, ThreadShape
  <2>4. ASSUME NEW t \in Threads, Command(t), ~rdma_alloc_begin_uobject(t), ~handler(t)
        PROVE  object' \subseteq object
    BY <2>4 DEF Command, ib_uverbs_ioctl, ib_uverbs_ioctl_end, ib_init_ucontext, xa_load,
       rdma_alloc_commit_uobject, rdma_alloc_abort_uobject, lookup_get_idr_uobject,
       lookup_get_fd_uobject, rdma_lookup_get_uobject, rdma_lookup_put_uobject, uobj_destroy,
       rdma_assign_uobject, destroy_hw, uverbs_destroy_uobject, uvars
  <2>5. ASSUME NEW u \in FdUobjs, fd_close(u) \/ FdRelease(u)
        PROVE  object' \subseteq object
    BY <2>5 DEF FdRelease, fd_close, uverbs_uobject_fd_release, fd_release_destroy, fd_release_put
  <2>6. ASSUME NEW c \in Cleaners, Cleanup(c)
        PROVE  object' \subseteq object
    BY <2>6 DEF Cleanup, uverbs_destroy_ufile_hw, uverbs_cleanup_ufile, cleanup_pass_end, up_write,
       Cleaned, uvars
  <2>7. ASSUME \/ ib_uverbs_close \/ close_put \/ ib_uverbs_remove_one
               \/ ib_uverbs_free_hw_resources \/ remove_put \/ UNCHANGED vars
        PROVE  object' \subseteq object
    BY <2>7 DEF ib_uverbs_close, close_put, ib_uverbs_remove_one, ib_uverbs_free_hw_resources,
       remove_put, vars, uvars
  <2> QED
    BY <1>1, <2>2, <2>3, <2>4, <2>5, <2>6, <2>7 DEF Next
<1> QED
  BY Invariance, <1>1, PTL DEF Spec, NoCreationAfterGrace

----------------------------------------------------------------------------
(* LockInv is an invariant of the life cycle. *)
THEOREM LockInvariance == Spec => []LockInv
  BY LockInvInit, LockInvStep, Invariance, PTL DEF Spec

(* usecnt is an exact reader/writer lock: uverbs_try_lock_object, the      *)
(* unlock of rdma_lookup_put_uobject and the exclusive locks of creation,  *)
(* destruction and FD release agree on who holds a uobject, for any        *)
(* interleaving.                                                           *)
THEOREM UsecntExact == Spec => []UsecntIsALock
<1>1. LockInv => UsecntIsALock
  BY DEF LockInv
<1> QED
  BY <1>1, LockInvariance, PTL

(* The WARN_ON of uverbs_uobject_fd_release is not hit: when the last      *)
(* reference on the struct file is gone its uobject is unlocked.           *)
THEOREM FdReleaseLocks == Spec => []FdReleaseGetsLock
<1>1. IInv /\ LockInv => FdReleaseGetsLock
  BY FdUnlocked DEF FdReleaseGetsLock
<1> QED
  BY <1>1, Invariance, LockInvariance, PTL

----------------------------------------------------------------------------
(* ib_uverbs_release_file empties the idr when no command is running and   *)
(* no uobject is linked.                                                   *)
LEMMA IndicesReleaseStep ==
    ASSUME IInv, LockInv, Indices, FileRefs,
           (\E u \in FdUobjs : fd_release_put(u)) \/ close_put \/ remove_put
    PROVE  Indices'
<1>1. UNCHANGED <<id, usecnt, list, tvars>>
  BY DEF fd_release_put, close_put, remove_put
<1>2. CASE fref = 1
  <2>1. idr' = [h \in Handles |-> Free]
    BY <1>2 DEF fd_release_put, close_put, remove_put, release_ufile
  <2> QED
    BY <1>1, <1>2, <2>1, LastReference, IndicesEmpty DEF tvars
<1>3. CASE fref # 1
  <2>1. idr' = idr
    BY <1>3 DEF fd_release_put, close_put, remove_put, release_ufile
  <2> QED
    BY <1>1, <2>1, IndicesSame, KeptSame, ThreadsRest DEF tvars
<1> QED
  BY <1>2, <1>3

(* Every step preserves Indices. *)
LEMMA IndicesStep ==
    ASSUME IInv, LockInv, Indices, ToClean, FileRefs, Next
    PROVE  Indices'
<1>1. ASSUME NEW t \in Threads, Command(t) PROVE Indices'
  BY <1>1, IndicesQuietSteps, IndicesLookupSteps, IndicesAllocStep, IndicesEndStep,
     IndicesAssignStep, IndicesDestroyStep DEF Command
<1>2. ASSUME ib_uverbs_close \/ ib_uverbs_remove_one \/ ib_uverbs_free_hw_resources
      PROVE  Indices'
  <2>1. UNCHANGED <<id, idr, usecnt, list, tvars>>
    BY <1>2 DEF ib_uverbs_close, ib_uverbs_remove_one, ib_uverbs_free_hw_resources, uvars
  <2> QED
    BY <2>1, IndicesSame, KeptSame, ThreadsRest DEF tvars
<1> QED
  BY <1>1, <1>2, IndicesFdStep, IndicesReleaseStep, IndicesCleanStep DEF Next, FdRelease

(* RefInv is inductive, given IInv and LockInv. *)
LEMMA RefInvStep ==
    ASSUME IInv, LockInv, RefInv, [Next]_vars
    PROVE  RefInv'
<1>0. Indices /\ ToClean /\ FileRefs /\ KrefIsExact
  BY DEF RefInv
<1>1. CASE Next
  BY <1>0, <1>1, IndicesStep, ToCleanStep, FileRefsStep, KrefStep DEF RefInv
<1>2. CASE UNCHANGED vars
  <2>1. UNCHANGED <<ref, usecnt, list, id, idr, rel, fref, cpc, todo, new, tvars>>
    BY <1>2 DEF vars, uvars, fvars, tvars, cvars
  <2>2. Indices'
    BY <1>0, <2>1, IndicesSame, KeptSame, ThreadsRest DEF tvars
  <2>3. ToClean' /\ FileRefs'
    BY <1>0, <2>1, FileRefsSame DEF ToClean, Linked, Filed, Removing
  <2>4. \A u \in Uobjs : KrefAt(u)'
    BY <1>0, <2>1, KrefIsKrefAt, KrefsRest, OwnersRest, KrefSame
  <2>5. KrefIsExact'
    BY <2>4 DEF KrefIsExact, KrefAt
  <2> QED
    BY <2>2, <2>3, <2>5 DEF RefInv
<1> QED
  BY <1>1, <1>2

(* RefInv is an invariant of the life cycle. *)
THEOREM RefInvariance == Spec => []RefInv
  BY RefInvInit, RefInvStep, Invariance, LockInvariance, PTL DEF Spec

(* The kref of a uobject is the number of its owners at all times: no path *)
(* through rdma_core.c loses a reference or drops one twice.               *)
THEOREM KrefExact == Spec => []KrefIsExact
<1>1. RefInv => KrefIsExact
  BY DEF RefInv
<1> QED
  BY <1>1, RefInvariance, PTL

(* A uobject whose last reference is gone is not used again:               *)
(* kref_get_unless_zero of the RCU lookup, and the other                   *)
(* uverbs_uobject_get, never revive it.                                    *)
THEOREM FreedForGood == Spec => FreedStaysFreed
<1>1. ASSUME IInv, LockInv, RefInv, RefInv', [Next]_vars
      PROVE  [\A u \in born : ref[u] = 0 => ref'[u] = 0]_vars
  <2> SUFFICES ASSUME Next, NEW u \in born, ref[u] = 0 PROVE ref'[u] = 0
    BY <1>1
  <2>0. u \in Uobjs
    BY <1>1 DEF IInv, TypeOK, TypeUobj
  <2>1. ref'[u] <= 0
    BY <1>1, NoRevival DEF RefInv
  <2>2. ref'[u] = Owners(u)'
    BY <1>1, <2>0 DEF RefInv, KrefIsExact
  <2>3. Cardinality(Krefs(u)') \in Nat
    BY KrefsFinite, FS_Subset, FS_CardinalityType, ConstantsAssumption DEF Krefs
  <2>4. Owners(u)' >= 0 /\ Owners(u)' \in Int
    BY <2>3, SMT DEF Owners, One
  <2> QED
    BY <2>1, <2>2, <2>4, SMT
<1> QED
  BY <1>1, RefInvariance, LockInvariance, Invariance, PTL DEF Spec, FreedStaysFreed

(* The WARN_ON of release_ufile_idr_uobject is not hit: with the last      *)
(* reference on the file no HW object is left.                             *)
THEOREM ReleaseClean == Spec => []ReleaseFindsNoHw
<1>1. IInv /\ RefInv => ReleaseFindsNoHw
  <2> SUFFICES ASSUME IInv, RefInv, fref = 0 PROVE object = {}
    BY DEF ReleaseFindsNoHw
  <2>1. cpc["close"] = "done"
    BY FiledFinite, SMT DEF RefInv, FileRefs, One
  <2>2. \A t \in Threads : new[t] = Null
    BY <2>1 DEF IInv, Gates, ThreadShape
  <2>3. ~ucontext
    BY <2>1 DEF IInv, Teardown, Cleaners
  <2> QED
    BY <2>2, <2>3, NoContextNoHw
<1> QED
  BY <1>1, Invariance, RefInvariance, PTL

----------------------------------------------------------------------------
(* The HW object of a uobject that a command has locked for read or write  *)
(* exists until it is unlocked, whatever DESTROY commands, FD releases,    *)
(* close and disassociation do meanwhile; and until synchronize_srcu of    *)
(* the removal has returned, a lookup of an FD uobject finds its file.     *)
THEOREM HwStable == Spec => []HwObjectStable
<1>1. Spec => []HwObjects
  BY HwObjectsInit, HwObjectsStep, Invariance, LockInvariance, PTL DEF Spec
<1>2. ASSUME IInv, LockInv, HwObjects PROVE HwObjectStable
  <2> SUFFICES ASSUME NEW t \in Threads, SeesDev(t), Faults(t) PROVE FALSE
    BY <1>2 DEF HwObjects, HwLocked, HwObjectStable
  <2>1. PICK u \in FdUobjs : u = cur[t] /\ u \notin object
    BY DEF Faults
  <2>2. u \in Uobjs /\ Reachable(u)
    BY <2>1, ConstantsAssumption DEF Reachable
  <2>3. Undisturbed
    BY <1>2 DEF IInv, Gates, Faults, SeesDev, ibdev, Undisturbed
  <2>4. usecnt[u] # -1
    <3>1. ~Creating(u)
      BY <1>2, <2>1, <2>2, ConstantsAssumption DEF IInv, Publication, Creating
    <3>2. rel[u] # "held"
      BY <1>2, <2>1 DEF LockInv, Filps
    <3> QED
      BY <1>2, <3>1, <3>2 DEF LockInv, FdLocks
  <2> QED
    BY <1>2, <2>1, <2>2, <2>3, <2>4 DEF HwObjects, HwReach
<1> QED
  BY <1>1, <1>2, Invariance, LockInvariance, PTL

============================================================================
