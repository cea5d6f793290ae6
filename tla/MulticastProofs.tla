-------------------------- MODULE MulticastProofs --------------------------
(*****************************************************************************)
(* The theorems about Multicast. IInv is inductive, since every step has an  *)
(* effect (MulticastSteps) and every effect keeps each conjunct              *)
(* (MulticastGroups, MulticastMembers); the invariants and the action        *)
(* property that TLC checks follow from it.                                  *)
(*****************************************************************************)
EXTENDS MulticastSteps, MulticastMembers, FiniteSetTheorems

USE Zenon

(* What the lemmas assume of finite sets is what FiniteSetTheorems proves. *)
LEMMA FiniteSetsAre == FiniteSetFacts
<1>1. IsFiniteSet({}) /\ \A x : Cardinality({x}) = 1
  BY FS_EmptySet, FS_Singleton
<1>2. \A S : IsFiniteSet(S) => \A T \in SUBSET S : IsFiniteSet(T)
  BY FS_Subset
<1>3. \A S : IsFiniteSet(S) => Cardinality(S) \in Nat /\ (Cardinality(S) = 0 <=> S = {})
  BY FS_CardinalityType, FS_EmptySet
<1>4. \A S : IsFiniteSet(S) => \A x : IsFiniteSet(S \cup {x})
  BY FS_AddElement
<1>5. \A S : IsFiniteSet(S) => \A x : x \notin S => Cardinality(S \cup {x}) = Cardinality(S) + 1
  BY FS_AddElement
<1>6. \A S : IsFiniteSet(S) => \A x : x \in S => Cardinality(S \ {x}) = Cardinality(S) - 1
  BY FS_RemoveElement
<1>7. ASSUME NEW S, IsFiniteSet(S)
      PROVE  /\ Cardinality(S) \in Nat /\ (Cardinality(S) = 0 <=> S = {})
             /\ \A x : IsFiniteSet(S \cup {x})
             /\ \A x : x \notin S => Cardinality(S \cup {x}) = Cardinality(S) + 1
             /\ \A x : x \in S => Cardinality(S \ {x}) = Cardinality(S) - 1
  <2>1. Cardinality(S) \in Nat /\ (Cardinality(S) = 0 <=> S = {})
    BY <1>3, <1>7
  <2>2. /\ \A x : IsFiniteSet(S \cup {x})
        /\ \A x : x \notin S => Cardinality(S \cup {x}) = Cardinality(S) + 1
    BY <1>4, <1>5, <1>7
  <2>3. \A x : x \in S => Cardinality(S \ {x}) = Cardinality(S) - 1
    BY <1>6, <1>7
  <2> QED
    BY <2>1, <2>2, <2>3
<1> QED
  BY <1>1, <1>2, <1>7 DEF FiniteSetFacts

----------------------------------------------------------------------------
(* The inductive invariant holds. *)

IInv ==
    /\ Typed /\ Shape /\ GroupInv /\ ListInv /\ MemberInv /\ WorkInv /\ CountInv /\ PortInv /\ RetryInv

(* mcast_add_one: no group, no member, nothing queued. *)
LEMMA InitIs ==
    ASSUME Init
    PROVE  /\ \A g \in Groups : /\ grp[g].ref = 0 /\ grp[g].state = "IDLE" /\ grp[g].pending = <<>>
                                /\ grp[g].active = {} /\ grp[g].members = [i \in Types |-> 0]
                                /\ grp[g].retries = Retries /\ query[g].op = "none"
           /\ \A m \in Members : /\ mem[m].ref = 0 /\ mem[m].group = Null /\ mem[m].user = "none"
                                 /\ mem[m].state = "JOINING"
           /\ \A c \in Ctxs : ctx[c].pc = "idle" /\ ctx[c].g = Null /\ ctx[c].m = Null
           /\ wq = <<>> /\ pref = 1 /\ rem = "no"
<1>1. \A g \in Groups : grp[g] = FreeGroup /\ query[g] = NoQuery
  BY DEF Init
<1>2. \A m \in Members : mem[m] = FreeMember
  BY DEF Init
<1>3. \A c \in Ctxs : ctx[c] = IdleCtx
  BY DEF Init
<1>4. \A g \in Groups : /\ grp[g].ref = 0 /\ grp[g].state = "IDLE" /\ grp[g].pending = <<>>
                        /\ grp[g].active = {} /\ grp[g].members = [i \in Types |-> 0]
                        /\ grp[g].retries = Retries /\ query[g].op = "none"
  <2>1. /\ FreeGroup.ref = 0 /\ FreeGroup.state = "IDLE" /\ FreeGroup.pending = <<>>
        /\ FreeGroup.active = {} /\ FreeGroup.members = [i \in Types |-> 0]
        /\ FreeGroup.retries = Retries
    BY DEF FreeGroup
  <2>2. NoQuery.op = "none"
    BY DEF NoQuery
  <2> QED
    BY <1>1, <2>1, <2>2
<1>5. \A m \in Members : /\ mem[m].ref = 0 /\ mem[m].group = Null /\ mem[m].user = "none"
                         /\ mem[m].state = "JOINING"
  <2>1. /\ FreeMember.ref = 0 /\ FreeMember.group = Null /\ FreeMember.user = "none"
        /\ FreeMember.state = "JOINING"
    BY DEF FreeMember
  <2> QED
    BY <1>2, <2>1
<1>6. \A c \in Ctxs : ctx[c].pc = "idle" /\ ctx[c].g = Null /\ ctx[c].m = Null
  <2>1. IdleCtx.pc = "idle" /\ IdleCtx.g = Null /\ IdleCtx.m = Null
    BY DEF IdleCtx
  <2> QED
    BY <1>3, <2>1
<1> QED
  BY <1>4, <1>5, <1>6 DEF Init

(* The initial state has its types. *)
LEMMA InitTyped ==
    ASSUME Init
    PROVE  Typed
<1>1. /\ grp \in [Groups -> GroupRecs] /\ mem \in [Members -> MemberRecs]
      /\ ctx \in [Ctxs -> CtxRecs] /\ query \in [Groups -> QueryRecs]
  BY RecTypes DEF Init
<1>2. scn \in Scenarios /\ scn.events \in Nat
  BY MulticastAssumption DEF Init
<1>3. wq \in Seq(Groups) /\ pref \in Int /\ events \in 0..scn.events
  <2>1. wq = <<>> /\ pref = 1 /\ events = scn.events
    BY DEF Init
  <2> QED
    BY <1>2, <2>1, InitTypes
<1>4. sa \in [AllMgids -> SUBSET Types] /\ pkey \in PkeyIndices \cup {Null}
  BY DEF Init
<1> QED
  BY <1>1, <1>2, <1>3, <1>4 DEF Init, Typed

(* The initial state satisfies the inductive invariant. *)
LEMMA InitInv ==
    ASSUME FiniteSetFacts, Init
    PROVE  IInv
<1>a. Typed
  BY InitTyped
<1>0. Cardinality({}) = 0
  BY CardEmpty
<1>b. Null \notin Groups /\ Null \notin Members
  BY Constants
<1>1. Shape
  <2>1. \A c \in Ctxs : /\ ctx[c].pc = "idle" <=> ctx[c].g = Null
                        /\ ctx[c].pc \in Told \cup {"joinerr"} <=> ctx[c].m # Null
    BY InitIs DEF Told
  <2>2. /\ \A g \in Groups : query[g].op = "join" => query[g].m # Null
        /\ \A m \in Members : mem[m].user = "none" <=> mem[m].group = Null
    BY InitIs
  <2>3. IsInjective(wq)
    BY InitIs, EmptyList
  <2> QED
    BY <2>1, <2>2, <2>3 DEF Shape
<1>2. GroupInv
  <2> SUFFICES ASSUME NEW g \in Groups PROVE SerialAt(g) /\ RefAt(g)
    BY DEF GroupInv
  <2>1. Holders(g) = {} /\ Leaving(g) = {}
    BY <1>b, InitIs DEF Holders, Leaving
  <2>2. g \notin Range(wq)
    BY InitIs, EmptyList
  <2>3. Runs(g) = {}
    BY <1>b, <2>2, InitIs DEF Runs
  <2>4. SerialAt(g)
    BY <2>3, InitIs DEF SerialAt
  <2>5. grp[g].state = "IDLE" /\ grp[g].ref = 0
    BY InitIs
  <2>6. 0 = 0 + 0 + 0
    BY SMT
  <2> QED
    BY <1>0, <2>1, <2>4, <2>5, <2>6 DEF RefAt
<1>3. ListInv
  <2>1. \A g \in Groups : grp[g].active = {} /\ Range(grp[g].pending) = {} /\ IsInjective(grp[g].pending)
    BY InitIs, EmptyList
  <2>2. \A g \in Groups : ListAt(g)
    BY <2>1 DEF ListAt
  <2> QED
    BY <2>2, InitIs DEF ListInv
<1>4. MemberInv
  <2> SUFFICES ASSUME NEW m \in Members PROVE MemberAt(m)
    BY DEF MemberInv
  <2>1. Users(m) = {}
    BY <1>b, InitIs DEF Users
  <2>2. mem[m].user = "none" /\ mem[m].ref = 0
    BY InitIs
  <2>3. 0 = 0 + 0
    BY SMT
  <2> QED
    BY <1>0, <2>1, <2>2, <2>3 DEF MemberAt
<1>5. WorkInv
  <2>1. \A c \in Ctxs : ctx[c].pc \notin Told
    BY InitIs DEF Told
  <2>2. \A g \in Groups : grp[g].active = {}
    BY InitIs
  <2> QED
    BY <2>1, <2>2 DEF WorkInv, WorkAt
<1>6. CountInv
  <2> SUFFICES ASSUME NEW g \in Groups, NEW i \in Types PROVE grp[g].members[i] = Cardinality(Counted(g, i))
    BY DEF CountInv, Counted
  <2>1. Counted(g, i) = {} /\ grp[g].members[i] = 0
    <3>1. grp[g].active = {}
      BY InitIs
    <3>2. grp[g].members[i] = 0
      BY InitIs
    <3> QED
      BY <3>1, <3>2 DEF Counted
  <2> QED
    BY <1>0, <2>1
<1>7. PortInv
  <2>1. ~(0 > 0) /\ 1 = 0 + 1
    BY SMT
  <2>2. Live = {}
    BY <2>1, InitIs DEF Live
  <2> QED
    BY <1>0, <2>1, <2>2, InitIs DEF PortInv
<1>8. RetryInv
  <2>1. \A c \in Ctxs : \A g \in Groups : ~Retrying(c, g)
    BY InitIs DEF Retrying
  <2>2. "wq" \in Ctxs /\ "recv" \in Ctxs /\ "timeout" \in Ctxs
    BY DEF Ctxs
  <2>3. ctx["wq"].pc \notin {"releave", "retry"} /\ \A g \in Groups : grp[g].retries \in -1..Retries
    BY <2>2, InitIs, RetriesBounds
  <2> QED
    BY <2>1, <2>2, <2>3 DEF RetryInv
<1> QED
  BY <1>a, <1>1, <1>2, <1>3, <1>4, <1>5, <1>6, <1>7, <1>8 DEF IInv

(* Every step keeps the inductive invariant. *)
LEMMA NextInv ==
    ASSUME FiniteSetFacts, IInv, [Next]_vars
    PROVE  IInv'
<1>1. /\ Typed /\ Shape /\ GroupInv /\ ListInv /\ MemberInv /\ WorkInv /\ CountInv /\ PortInv /\ RetryInv
  BY DEF IInv
<1>e. Effects
  BY <1>1, NextEffects
<1>2. Typed' /\ Shape'
  BY <1>1, <1>e, ShapeNext
<1>3. GroupInv'
  BY <1>1, <1>e, GroupNext
<1>4. ListInv'
  BY <1>1, <1>e, <1>2, ListNext
<1>5. MemberInv'
  BY <1>1, <1>e, <1>2, MemberNext
<1>6. WorkInv'
  BY <1>1, <1>e, <1>2, WorkNext
<1>7. CountInv'
  BY <1>1, <1>e, <1>2, CountNext
<1>8. PortInv'
  BY <1>1, <1>e, PortNext
<1>9. RetryInv'
  BY <1>1, <1>e, RetryNext
<1> QED
  BY <1>2, <1>3, <1>4, <1>5, <1>6, <1>7, <1>8, <1>9 DEF IInv

(* The inductive invariant holds in every state of every behaviour: the    *)
(* steps of multicast.c keep its lists, counts and references consistent.  *)
THEOREM Invariance == Spec => []IInv
<1>1. Init => IInv
  BY FiniteSetsAre, InitInv
<1>2. IInv /\ [Next]_vars => IInv'
  BY FiniteSetsAre, NextInv
<1> QED
  BY <1>1, <1>2, PTL DEF Spec

(* The inductive invariant implies TypeOK: no count is ever negative. *)
LEMMA TypeFromInv ==
    ASSUME FiniteSetFacts, IInv
    PROVE  TypeOK
<1>0. /\ Typed /\ GroupInv /\ MemberInv /\ CountInv /\ PortInv /\ RetryInv
  BY DEF IInv
<1>1. ASSUME NEW g \in Groups
      PROVE  grp[g] \in GroupRecs /\ grp[g].ref \in Nat /\ grp[g].members \in [Types -> Nat]
             /\ grp[g].retries \in -1..Retries
  <2>1. grp[g] \in GroupRecs
    BY <1>0, <1>1 DEF Typed
  <2>2. grp[g].ref \in Nat
    BY <1>0, <1>1, RefIs
  <2>3. CountAt(g) /\ grp[g].members \in [Types -> Int] /\ \A i : IsFiniteSet(Counted(g, i))
    BY <1>0, <1>1, CountOf
  <2>4. \A i \in Types : Cardinality(Counted(g, i)) \in Nat
    BY <2>3, CardStep
  <2>5. \A i \in Types : grp[g].members[i] \in Nat
    BY <2>3, <2>4 DEF CountAt
  <2>6. grp[g].members \in [Types -> Nat]
    BY <2>3, <2>5
  <2>7. grp[g].retries \in -1..Retries
    BY <1>0, <1>1, RetryIs DEF RetryAt
  <2> QED
    BY <2>1, <2>2, <2>6, <2>7
<1>2. ASSUME NEW m \in Members PROVE mem[m] \in MemberRecs /\ mem[m].ref \in Nat
  <2>1. mem[m] \in MemberRecs
    BY <1>0, <1>2 DEF Typed
  <2>2. IsFiniteSet(Users(m))
    BY <1>2, Finite
  <2>3. Cardinality(Users(m)) \in Nat
    BY <2>2, CardStep
  <2>4. mem[m].ref = Cardinality(Users(m)) + 0 \/ mem[m].ref = Cardinality(Users(m)) + 1
    BY <1>0, <1>2 DEF MemberInv, MemberAt
  <2>5. \A k \in Nat : k + 0 \in Nat /\ k + 1 \in Nat
    BY SMT
  <2> QED
    BY <2>1, <2>3, <2>4, <2>5
<1>3. pref \in Nat
  <2>1. IsFiniteSet(Live)
    BY Finite
  <2>2. Cardinality(Live) \in Nat
    BY <2>1, CardStep
  <2>3. pref = Cardinality(Live) + 0 \/ pref = Cardinality(Live) + 1
    BY <1>0 DEF PortInv
  <2>4. \A k \in Nat : k + 0 \in Nat /\ k + 1 \in Nat
    BY SMT
  <2> QED
    BY <2>2, <2>3, <2>4
<1>4. grp \in [Groups ->
         [ref : Nat, mgid : AllMgids \cup {Zero}, state : {"IDLE", "BUSY", "GROUP_ERROR", "PKEY_EVENT"},
          pending : Seq(Members), active : SUBSET Members, members : [Types -> Nat],
          join_state : SUBSET Types, pkey_index : PkeyIndices \cup {Null},
          retries : -1..Retries]]
  BY <1>0, <1>1, GroupNat DEF Typed
<1>5. mem \in [Members ->
         [ref : Nat, group : Groups \cup {Null}, mgid : AllMgids \cup {Zero},
          join_state : SUBSET Types, state : {"JOINING", "MEMBER", "ERROR"},
          user : {"none", "acquired", "held", "free", "release", "wait"},
          told : {"nothing", "joined", "failed", "reset"}]]
  BY <1>0, <1>2, MemberNat DEF Typed
<1> QED
  BY <1>0, <1>3, <1>4, <1>5 DEF Typed, TypeOK, CtxRecs, QueryRecs

(* Every variable has its type, and no count is ever negative: no          *)
(* reference is dropped that was not taken, members of a type are not      *)
(* counted below zero, and the retries of a leave end at -1.               *)
THEOREM TypeCorrect == Spec => []TypeOK
<1>1. IInv => TypeOK
  BY FiniteSetsAre, TypeFromInv
<1> QED
  BY <1>1, Invariance, PTL

(* The state machine of a busy group is in exactly one place, that of an     *)
(* idle one in none.                                                         *)
LEMMA RunsCount ==
    ASSUME FiniteSetFacts, IInv, NEW g \in Groups
    PROVE  Cardinality(Runs(g)) = IF grp[g].state = "IDLE" THEN 0 ELSE 1
<1>1. SerialAt(g)
  BY DEF IInv, GroupInv
<1>2. Cardinality({}) = 0 /\ \A p : Cardinality({p}) = 1
  BY CardEmpty
<1> QED
  BY <1>1, <1>2 DEF SerialAt

(* "We serialize all join requests to a single group": for any number of   *)
(* groups, members and events, and whatever order the answers and timeouts *)
(* come in, the state machine of a group is queued, runs in one context or *)
(* waits for one query, and is in none of these places when it is idle.    *)
THEOREM SerializedAlways == Spec => []Serialized
<1>1. IInv => Serialized
  BY FiniteSetsAre, RunsCount DEF Serialized
<1> QED
  BY <1>1, Invariance, PTL

(* The refcount of a group is exact: release_group frees it when the last  *)
(* member and the last run of its state machine are through.               *)
THEOREM GroupRefs == Spec => []GroupRefIsExact
<1>1. ASSUME IInv PROVE GroupRefIsExact
  <2> SUFFICES ASSUME NEW g \in Groups
               PROVE  grp[g].ref = Cardinality(Holders(g)) + Cardinality(Runs(g)) + Cardinality(Leaving(g))
    BY DEF GroupRefIsExact, Holders, Leaving
  <2>1. RefAt(g)
    BY <1>1 DEF IInv, GroupInv
  <2>2. Cardinality(Runs(g)) = IF grp[g].state = "IDLE" THEN 0 ELSE 1
    BY FiniteSetsAre, <1>1, RunsCount
  <2> QED
    BY <2>1, <2>2 DEF RefAt
<1> QED
  BY <1>1, Invariance, PTL

(* The refcount of a member is exact, so ib_sa_free_multicast returns only *)
(* when no context is in a callback for it or about to call one.           *)
THEOREM MemberRefs == Spec => []MemberRefIsExact
<1>1. IInv => MemberRefIsExact
  BY DEF IInv, MemberInv, MemberAt, Users, MemberRefIsExact
<1> QED
  BY <1>1, Invariance, PTL

(* A user gets one result of its join, and a reset only after a success.   *)
THEOREM ToldAtMostOnce == Spec => []ToldOnce
<1>1. IInv => ToldOnce
  BY DEF IInv, WorkInv, WorkAt, Told, ToldOnce
<1> QED
  BY <1>1, Invariance, PTL

(* When mcast_remove_one frees the port, no group, queued work or query    *)
(* refers to it: the reference on the port that each group has is enough.  *)
THEOREM RemovalWaits == Spec => []RemovalWaitsForAll
<1>1. ASSUME IInv, rem = "done"
      PROVE  Live = {} /\ wq = <<>> /\ \A g \in Groups : query[g].op = "none"
  <2>0. Typed /\ Shape /\ GroupInv
    BY <1>1 DEF IInv
  <2>1. Live = {}
    BY <1>1 DEF IInv, PortInv
  <2>2. ASSUME NEW g \in Groups PROVE g \notin Range(wq) /\ query[g].op = "none"
    <3>1. ~(grp[g].ref > 0)
      BY <2>1, <2>2 DEF Live
    <3>2. grp[g].state = "IDLE"
      BY FiniteSetsAre, <2>0, <2>2, <3>1, RefIs
    <3>3. Runs(g) = {}
      BY <2>0, <2>2, <3>2 DEF GroupInv, SerialAt
    <3> QED
      BY <3>3 DEF Runs
  <2>3. wq = <<>>
    <3>1. wq \in Seq(Groups) /\ IsInjective(wq)
      BY <2>0, TypedIs DEF Shape
    <3>2. wq # <<>> => Head(wq) \in Groups /\ Head(wq) \in Range(wq)
      BY <3>1, TailList
    <3> QED
      BY <2>2, <3>2
  <2> QED
    BY <2>1, <2>2, <2>3
<1>2. IInv => RemovalWaitsForAll
  BY <1>1 DEF RemovalWaitsForAll
<1> QED
  BY <1>2, Invariance, PTL

============================================================================
