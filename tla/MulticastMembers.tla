------------------------- MODULE MulticastMembers --------------------------
(*****************************************************************************)
(* The lemmas about the members of a group: every effect of MulticastEffects *)
(* keeps the pending and active lists in order, the references of each       *)
(* member equal to what uses it, what a context knows of the member it works *)
(* for, and the counts of active members per type.                           *)
(*****************************************************************************)
EXTENDS MulticastGroups

USE Zenon

----------------------------------------------------------------------------
(* The lists of a group. *)

PendOK(g, n) ==
    /\ mem[n].group = g /\ mem[n].user \in {"held", "free"}
    /\ mem[n].state = "JOINING" /\ mem[n].told = "nothing"
ActOK(g, n) == mem[n].group = g /\ mem[n].user \in {"held", "free"} /\ mem[n].state = "MEMBER"
MemOK(n) ==
    /\ mem[n].state = "MEMBER" /\ mem[n].user \in {"held", "free"} => n \in grp[mem[n].group].active
    /\ mem[n].user = "acquired" => mem[n].state = "JOINING" /\ mem[n].told = "nothing"
SameMem(n) ==
    /\ mem'[n].group = mem[n].group /\ mem'[n].user = mem[n].user
    /\ mem'[n].state = mem[n].state /\ mem'[n].told = mem[n].told

(* What ListInv says of the members on a list and of each member. *)
LEMMA ListIs ==
    ASSUME ListInv
    PROVE  /\ \A g \in Groups : /\ IsInjective(grp[g].pending)
                                /\ \A n \in Range(grp[g].pending) : PendOK(g, n)
                                /\ \A n \in grp[g].active : ActOK(g, n)
           /\ \A n \in Members : MemOK(n)
BY DEF ListInv, ListAt, PendOK, ActOK, MemOK

(* What ListInv needs. *)
LEMMA ListTo ==
    ASSUME \A g \in Groups : /\ IsInjective(grp'[g].pending)
                             /\ \A n \in Range(grp'[g].pending) : PendOK(g, n)'
                             /\ \A n \in grp'[g].active : ActOK(g, n)',
           \A n \in Members : MemOK(n)'
    PROVE  ListInv'
<1>1. \A g \in Groups : ListAt(g)'
  BY DEF ListAt, PendOK, ActOK
<1> QED
  BY <1>1 DEF ListInv, MemOK

(* Only members are on the lists. *)
LEMMA OnList ==
    ASSUME Typed, NEW g \in Groups
    PROVE  Range(grp[g].pending) \subseteq Members /\ grp[g].active \subseteq Members
<1>1. grp[g].pending \in Seq(Members) /\ grp[g].active \subseteq Members
  BY TypedIs DEF IsGroup
<1> QED
  BY <1>1, RangeSeq

(* Only members are on the lists after a step. *)
LEMMA OnListNext ==
    ASSUME Typed', NEW g \in Groups
    PROVE  Range(grp'[g].pending) \subseteq Members /\ grp'[g].active \subseteq Members
<1>1. grp'[g] \in GroupRecs'
  BY DEF Typed
<1>2. grp'[g].pending \in Seq(Members) /\ grp'[g].active \subseteq Members
  BY <1>1, SMT DEF GroupRecs
<1> QED
  BY <1>2, RangeSeq

(* The lists stay, and what they need to know of the members. *)
LEMMA ListSame ==
    ASSUME Typed, Shape, Typed', ListInv,
           \A g \in Groups : /\ IsInjective(grp'[g].pending)
                             /\ Range(grp'[g].pending) = Range(grp[g].pending)
                             /\ grp'[g].active = grp[g].active,
           \A n \in Members : SameMem(n)
    PROVE  ListInv'
<1>1. \A g \in Groups : /\ \A n \in Range(grp'[g].pending) : PendOK(g, n)'
                        /\ \A n \in grp'[g].active : ActOK(g, n)'
  <2> SUFFICES ASSUME NEW g \in Groups
               PROVE  /\ \A n \in Range(grp[g].pending) : PendOK(g, n)'
                      /\ \A n \in grp[g].active : ActOK(g, n)'
    OBVIOUS
  <2>1. \A n \in Range(grp[g].pending) : PendOK(g, n) /\ SameMem(n)
    BY ListIs, OnList
  <2>2. \A n \in grp[g].active : ActOK(g, n) /\ SameMem(n)
    BY ListIs, OnList
  <2>3. \A n \in Range(grp[g].pending) : PendOK(g, n)'
    BY <2>1 DEF PendOK, SameMem
  <2> QED
    BY <2>2, <2>3 DEF ActOK, SameMem
<1>2. \A n \in Members : MemOK(n)'
  <2> SUFFICES ASSUME NEW n \in Members PROVE MemOK(n)'
    OBVIOUS
  <2>1. SameMem(n) /\ MemOK(n)
    BY ListIs
  <2>2. mem[n].user \in {"held", "free"} => mem[n].group \in Groups
    BY UsedMember
  <2> QED
    BY <2>1, <2>2 DEF MemOK, SameMem
<1> QED
  BY <1>1, <1>2, ListTo

(* Group g changes, and member m, which is on no other list. *)
LEMMA ListOne ==
    ASSUME Typed, Shape, Typed', ListInv, NEW g \in Groups, NEW m \in Members,
           \A f \in Groups : f # g => grp'[f] = grp[f],
           \A n \in Members : n # m => mem'[n] = mem[n],
           \A f \in Groups : f # g => m \notin Range(grp[f].pending) /\ m \notin grp[f].active,
           IsInjective(grp'[g].pending),
           \A n : n # m => (n \in Range(grp'[g].pending) => n \in Range(grp[g].pending)),
           \A n : n # m => (n \in grp'[g].active <=> n \in grp[g].active),
           m \in Range(grp'[g].pending) => PendOK(g, m)',
           m \in grp'[g].active => ActOK(g, m)',
           MemOK(m)'
    PROVE  ListInv'
<1>1. \A f \in Groups : IsInjective(grp'[f].pending)
  BY ListIs
<1>2. \A f \in Groups : \A n \in Range(grp'[f].pending) : PendOK(f, n)'
  <2> SUFFICES ASSUME NEW f \in Groups, NEW n \in Range(grp'[f].pending) PROVE PendOK(f, n)'
    OBVIOUS
  <2>1. CASE n = m
    BY <2>1
  <2>2. CASE n # m
    <3>1. n \in Range(grp[f].pending) /\ n \in Members
      BY <2>2, OnListNext
    <3>2. PendOK(f, n) /\ mem'[n] = mem[n]
      BY <2>2, <3>1, ListIs
    <3> QED
      BY <3>2 DEF PendOK
  <2> QED
    BY <2>1, <2>2
<1>3. \A f \in Groups : \A n \in grp'[f].active : ActOK(f, n)'
  <2> SUFFICES ASSUME NEW f \in Groups, NEW n \in grp'[f].active PROVE ActOK(f, n)'
    OBVIOUS
  <2>1. CASE n = m
    BY <2>1
  <2>2. CASE n # m
    <3>1. n \in grp[f].active /\ n \in Members
      BY <2>2, OnListNext
    <3>2. ActOK(f, n) /\ mem'[n] = mem[n]
      BY <2>2, <3>1, ListIs
    <3> QED
      BY <3>2 DEF ActOK
  <2> QED
    BY <2>1, <2>2
<1>4. \A n \in Members : MemOK(n)'
  <2> SUFFICES ASSUME NEW n \in Members, n # m PROVE MemOK(n)'
    OBVIOUS
  <2>1. mem'[n] = mem[n] /\ MemOK(n)
    BY ListIs
  <2>2. mem[n].user \in {"held", "free"} => mem[n].group \in Groups
    BY UsedMember
  <2>3. \A f \in Groups : n \in grp[f].active => n \in grp'[f].active
    OBVIOUS
  <2> QED
    BY <2>1, <2>2, <2>3 DEF MemOK
<1> QED
  BY <1>1, <1>2, <1>3, <1>4, ListTo

(* A member is on no list of another group, and on none unless it is held or *)
(* being freed.                                                              *)
LEMMA Elsewhere ==
    ASSUME ListInv, NEW m \in Members, NEW f \in Groups
    PROVE  /\ mem[m].group # f => m \notin Range(grp[f].pending) /\ m \notin grp[f].active
           /\ mem[m].user \notin {"held", "free"} => m \notin Range(grp[f].pending) /\ m \notin grp[f].active
BY ListIs DEF PendOK, ActOK

(* list_del of m from the lists of its group. *)
LEMMA ListDels ==
    ASSUME Typed, ListInv, NEW g \in Groups, NEW m, grp'[g].pending = Without(grp[g].pending, m)
    PROVE  /\ IsInjective(grp'[g].pending)
           /\ Range(grp'[g].pending) = Range(grp[g].pending) \ {m}
<1>1. grp[g].pending \in Seq(Members) /\ IsInjective(grp[g].pending)
  BY TypedIs, ListIs DEF IsGroup
<1>2. /\ IsInjective(Without(grp[g].pending, m))
      /\ Range(Without(grp[g].pending, m)) = Range(grp[g].pending) \ {m}
  BY <1>1, WithoutSeq
<1> QED
  BY <1>2

(* A group without references has no lists ... *)
LEMMA EmptyLists ==
    ASSUME FiniteSetFacts, GroupInv, ListInv, NEW g \in Groups, NEW x,
           ~(grp[g].ref > 0) \/ (grp[g].ref = 1 /\ (x \in Leaving(g) \/ (x \in Holders(g) /\ mem[x].user = "release")))
    PROVE  \A n \in Members : n \notin Range(grp[g].pending) /\ n \notin grp[g].active
<1> SUFFICES ASSUME NEW n \in Members, n \in Range(grp[g].pending) \/ n \in grp[g].active PROVE FALSE
  OBVIOUS
<1>1. mem[n].group = g /\ mem[n].user \in {"held", "free"}
  BY ListIs DEF PendOK, ActOK
<1>2. n \in Holders(g)
  BY <1>1 DEF Holders
<1> DEFINE h == Cardinality(Holders(g))
           l == Cardinality(Leaving(g))
<1>3. h \in Nat /\ l \in Nat /\ (grp[g].ref = h + l \/ grp[g].ref = h + 1 + l)
  BY RefIs
<1>4. h # 0 /\ (x \in Leaving(g) => l # 0)
  <2>1. IsFiniteSet(Holders(g)) /\ IsFiniteSet(Leaving(g))
    BY Finite
  <2> QED
    BY <1>2, <2>1, CardStep
<1>5. x \in Holders(g) /\ mem[x].user = "release" => h - 1 # 0
  <2> SUFFICES ASSUME x \in Holders(g), mem[x].user = "release" PROVE h - 1 # 0
    OBVIOUS
  <2>1. IsFiniteSet(Holders(g)) /\ n # x
    BY <1>1, Finite
  <2>2. Cardinality(Holders(g) \ {x}) = h - 1
    BY <2>1, CardStep
  <2>3. IsFiniteSet(Holders(g) \ {x}) /\ n \in Holders(g) \ {x}
    BY <1>2, <2>1, SubFinite
  <2>4. Cardinality(Holders(g) \ {x}) # 0
    BY <2>3, CardStep
  <2> QED
    BY <2>2, <2>4
<1> HIDE DEF h, l
<1>6. ~(~(grp[g].ref > 0))
  BY <1>3, <1>4, SMT
<1>7. ~(grp[g].ref = 1 /\ l # 0)
  BY <1>3, <1>4, SMT
<1>8. ~(grp[g].ref = 1 /\ h - 1 # 0)
  BY <1>3, <1>4, SMT
<1> QED
  BY <1>4, <1>5, <1>6, <1>7, <1>8

(* ... so release_group of the last one changes none. *)
LEMMA ReleaseLists ==
    ASSUME FiniteSetFacts, Typed, Typed', GroupInv, ListInv, NEW g \in Groups, Released(g), NEW x,
           x \in Leaving(g) \/ (x \in Holders(g) /\ mem[x].user = "release")
    PROVE  \A f \in Groups : /\ IsInjective(grp'[f].pending)
                             /\ Range(grp'[f].pending) = Range(grp[f].pending)
                             /\ grp'[f].active = grp[f].active
<1>1. \A f \in Groups : f # g => grp'[f] = grp[f]
  BY DEF GrpStep, Released
<1>2. CASE GrpStep(g, grp[g].ref - 1, grp[g].state, grp[g].pending, grp[g].active,
                   grp[g].members, grp[g].retries)
  BY <1>1, <1>2, ListIs DEF GrpStep
<1>3. CASE grp[g].ref = 1 /\ GrpStep(g, 0, "IDLE", <<>>, {}, [i \in Types |-> 0], Retries)
  <2>1. \A n \in Members : n \notin Range(grp[g].pending) /\ n \notin grp[g].active
    BY <1>3, EmptyLists
  <2>2. Range(grp[g].pending) = {} /\ grp[g].active = {}
    BY <2>1, OnList
  <2>3. grp'[g].pending = <<>> /\ grp'[g].active = {}
    BY <1>3 DEF GrpStep
  <2> QED
    BY <1>1, <2>2, <2>3, ListIs, EmptyList
<1> QED
  BY <1>2, <1>3 DEF Released

(* Every step keeps the lists in order. *)
LEMMA ListNext ==
    ASSUME FiniteSetFacts, Typed, Shape, Typed', GroupInv, ListInv, WorkInv, Effects
    PROVE  ListInv'
<1>1. ASSUME NEW m \in Members, NEW js, JoinEffect(m, js)
      PROVE  ListInv'
  <2>1. PICK g \in Groups :
           /\ MemStep(m, 1, g, js, "JOINING", "acquired", "nothing")
           /\ \/ /\ GrpStep(g, grp[g].ref + 1, grp[g].state, grp[g].pending, grp[g].active,
                            grp[g].members, grp[g].retries)
              \/ /\ ~(grp[g].ref > 0)
                 /\ GrpStep(g, 1, "IDLE", <<>>, {}, [i \in Types |-> 0], Retries)
    BY <1>1 DEF JoinEffect
  <2>2. Typed' /\ mem[m].user = "none"
    BY <1>1 DEF JoinEffect
  <2>3. \A f \in Groups : m \notin Range(grp[f].pending) /\ m \notin grp[f].active
    BY <2>2, Elsewhere
  <2>4. MemOK(m)'
    BY <2>1 DEF MemOK, MemStep
  <2>5. /\ \A f \in Groups : f # g => grp'[f] = grp[f]
        /\ \A n \in Members : n # m => mem'[n] = mem[n]
    BY <2>1 DEF GrpStep, MemStep
  <2>6. /\ IsInjective(grp'[g].pending) /\ Range(grp'[g].pending) = Range(grp[g].pending)
        /\ grp'[g].active = grp[g].active
    <3>1. CASE GrpStep(g, grp[g].ref + 1, grp[g].state, grp[g].pending, grp[g].active,
                       grp[g].members, grp[g].retries)
      BY <3>1, ListIs DEF GrpStep
    <3>2. CASE ~(grp[g].ref > 0) /\ GrpStep(g, 1, "IDLE", <<>>, {}, [i \in Types |-> 0], Retries)
      <4>1. \A n \in Members : n \notin Range(grp[g].pending) /\ n \notin grp[g].active
        BY <3>2, EmptyLists
      <4>2. Range(grp[g].pending) = {} /\ grp[g].active = {}
        BY <4>1, OnList
      <4>3. grp'[g].pending = <<>> /\ grp'[g].active = {}
        BY <3>2 DEF GrpStep
      <4> QED
        BY <4>2, <4>3, EmptyList
    <3> QED
      BY <2>1, <3>1, <3>2
  <2> QED
    BY <2>2, <2>3, <2>4, <2>5, <2>6, ListOne
<1>2. ASSUME NEW m \in Members, NEW g, g = mem[m].group,
             NEW ms, ms = IF mem[m].state = "MEMBER"
                          THEN Adjusted(grp[g].members, mem[m].join_state, -1) ELSE grp[g].members,
             FreeEffect(m, g, ms)
      PROVE  ListInv'
  <2>1. Typed' /\ g \in Groups
    BY <1>2 DEF FreeEffect
  <2>2. /\ \E st : GrpStep(g, grp[g].ref, st, Without(grp[g].pending, m), grp[g].active \ {m},
                           ms, grp[g].retries)
        /\ \/ MemStep(m, mem[m].ref - 1, g, mem[m].join_state, mem[m].state, "wait", mem[m].told)
           \/ MemStep(m, mem[m].ref, g, mem[m].join_state, mem[m].state, "release", mem[m].told)
    BY <1>2 DEF FreeEffect
  <2>4. /\ \A f \in Groups : f # g => grp'[f] = grp[f]
        /\ \A n \in Members : n # m => mem'[n] = mem[n]
        /\ grp'[g].pending = Without(grp[g].pending, m) /\ grp'[g].active = grp[g].active \ {m}
    BY <2>2 DEF GrpStep, MemStep
  <2>7. MemOK(m)'
    BY <2>2 DEF MemOK, MemStep
  <2>5. IsInjective(grp'[g].pending) /\ Range(grp'[g].pending) = Range(grp[g].pending) \ {m}
    BY <2>1, <2>4, ListDels
  <2>6. \A f \in Groups : f # g => m \notin Range(grp[f].pending) /\ m \notin grp[f].active
    BY <1>2, Elsewhere
  <2> QED
    BY <2>1, <2>4, <2>5, <2>6, <2>7, ListOne
<1>3. ASSUME NEW m \in Members, NEW g, g = mem[m].group, QueueJoinEffect(m, g)
      PROVE  ListInv'
  <2>1. Typed' /\ g \in Groups /\ mem[m].user = "acquired"
    BY <1>3 DEF QueueJoinEffect
  <2>2. /\ MemStep(m, mem[m].ref, g, mem[m].join_state, mem[m].state, "held", mem[m].told)
        /\ \E ref, st : GrpStep(g, ref, st, Append(grp[g].pending, m), grp[g].active,
                                grp[g].members, grp[g].retries)
    BY <1>3 DEF QueueJoinEffect
  <2>3. \A f \in Groups : m \notin Range(grp[f].pending) /\ m \notin grp[f].active
    <3>1. mem[m].user \notin {"held", "free"}
      BY <2>1
    <3> QED
      BY <3>1, Elsewhere
  <2>4. /\ \A f \in Groups : f # g => grp'[f] = grp[f]
        /\ \A n \in Members : n # m => mem'[n] = mem[n]
        /\ grp'[g].pending = Append(grp[g].pending, m) /\ grp'[g].active = grp[g].active
    BY <2>2 DEF GrpStep, MemStep
  <2>5. IsInjective(grp'[g].pending) /\ Range(grp'[g].pending) = Range(grp[g].pending) \cup {m}
    <3>1. grp[g].pending \in Seq(Members) /\ IsInjective(grp[g].pending)
      BY <2>1, TypedIs, ListIs DEF IsGroup
    <3>2. /\ IsInjective(Append(grp[g].pending, m))
          /\ Range(Append(grp[g].pending, m)) = Range(grp[g].pending) \cup {m}
      <4> DEFINE s == grp[g].pending
      <4>1. s \in Seq(Members) /\ IsInjective(s) /\ m \notin Range(s) /\ m \in Members
        BY <1>3, <2>1, <2>3, <3>1
      <4> HIDE DEF s
      <4>2. IsInjective(Append(s, m)) /\ Range(Append(s, m)) = Range(s) \cup {m}
        BY <4>1, AppendList, SMT
      <4> QED
        BY <4>2 DEF s
    <3> QED
      BY <2>4, <3>2
  <2>6. mem[m].state = "JOINING" /\ mem[m].told = "nothing"
    BY <2>1, ListIs DEF MemOK
  <2>7. PendOK(g, m)' /\ MemOK(m)'
    BY <2>2, <2>6 DEF PendOK, MemOK, MemStep
  <2> QED
    BY <2>1, <2>3, <2>4, <2>5, <2>7, ListOne
<1>4. ASSUME NEW m \in Members, NEW g, g = mem[m].group, FreeReleaseEffect(m, g)
      PROVE  ListInv'
  <2>1. /\ Typed' /\ g \in Groups /\ mem[m].user = "release" /\ Released(g)
        /\ MemStep(m, mem[m].ref - 1, g, mem[m].join_state, mem[m].state, "wait", mem[m].told)
    BY <1>4 DEF FreeReleaseEffect
  <2>2. m \in Holders(g)
    BY <1>4, <2>1 DEF Holders
  <2>3. \A f \in Groups : /\ IsInjective(grp'[f].pending)
                          /\ Range(grp'[f].pending) = Range(grp[f].pending)
                          /\ grp'[f].active = grp[f].active
    BY <2>1, <2>2, ReleaseLists
  <2>4. \A f \in Groups : m \notin Range(grp[f].pending) /\ m \notin grp[f].active
    <3>1. mem[m].user \notin {"held", "free"}
      BY <2>1
    <3> QED
      BY <3>1, Elsewhere
  <2>5. MemOK(m)' /\ \A n \in Members : n # m => mem'[n] = mem[n]
    BY <2>1 DEF MemOK, MemStep
  <2>6. \A f \in Groups : f # g => grp'[f] = grp[f]
    BY <2>1 DEF GrpStep, Released
  <2> QED
    BY <2>1, <2>3, <2>4, <2>5, <2>6, ListOne
<1>5. ASSUME NEW m \in Members, KfreeEffect(m)
      PROVE  ListInv'
  <2>1. /\ Typed' /\ mem[m].user = "wait" /\ grp' = grp
        /\ MemStep(m, 0, Null, {}, "JOINING", "none", "nothing")
    BY <1>5 DEF KfreeEffect
  <2>2. \A f \in Groups : m \notin Range(grp[f].pending) /\ m \notin grp[f].active
    <3>1. mem[m].user \notin {"held", "free"}
      BY <2>1
    <3> QED
      BY <3>1, Elsewhere
  <2>3. MemOK(m)' /\ \A n \in Members : n # m => mem'[n] = mem[n]
    BY <2>1 DEF MemOK, MemStep
  <2>4. CASE Groups = {}
    <3>1. \A n \in Members : MemOK(n)'
      <4> SUFFICES ASSUME NEW n \in Members, n # m PROVE MemOK(n)'
        BY <2>3
      <4>1. mem'[n] = mem[n] /\ grp' = grp /\ MemOK(n)
        BY <2>1, <2>3, ListIs
      <4> QED
        BY <4>1 DEF MemOK
    <3> QED
      BY <2>4, <3>1, ListTo
  <2>5. CASE Groups # {}
    <3>1. PICK g : g \in Groups
      BY <2>5
    <3> QED
      BY <2>1, <2>2, <2>3, <3>1, ListIs, ListOne
  <2> QED
    BY <2>4, <2>5
<1>6. ASSUME WorkStartEffect
      PROVE  ListInv'
  <2>1. Typed' /\ UNCHANGED <<grp, mem>>
    BY <1>6 DEF WorkStartEffect
  <2> QED
    BY <2>1, ListIs, ListSame DEF SameMem
<1>7. ASSUME NEW c \in Ctxs, NEW g, g = ctx[c].g, NEW m, m = Head(grp[g].pending), HandlerEffect(c, g, m)
      PROVE  ListInv'
  <2>1. Typed' /\ g \in Groups
    BY <1>7 DEF HandlerEffect
  <2>2. CASE UNCHANGED <<grp, mem>>
    BY <2>1, <2>2, ListIs, ListSame DEF SameMem
  <2>3. CASE mem' = mem /\ \E st : GrpStep(g, grp[g].ref, st, grp[g].pending, grp[g].active,
                                           grp[g].members, grp[g].retries)
    <3>1. \A f \in Groups : grp'[f].pending = grp[f].pending /\ grp'[f].active = grp[f].active
      BY <2>3 DEF GrpStep
    <3> QED
      BY <2>1, <2>3, <3>1, ListIs, ListSame DEF SameMem
  <2>4. ASSUME grp[g].pending # <<>>, m \in Members,
               \E st : MemStep(m, mem[m].ref + 1, mem[m].group, mem[m].join_state, st, mem[m].user, mem[m].told)
                         /\ (st = "MEMBER" \/ st = mem[m].state),
               \/ grp' = grp /\ mem'[m].state = mem[m].state
               \/ /\ \E ac, ms : GrpStep(g, grp[g].ref, "BUSY", Without(grp[g].pending, m), ac, ms, grp[g].retries)
                  /\ \/ grp'[g].active = grp[g].active \ {m} /\ mem'[m].state = mem[m].state
                     \/ grp'[g].active = grp[g].active \cup {m} /\ mem'[m].state = "MEMBER"
        PROVE  ListInv'
    <3>1. PendOK(g, m) /\ m \in Range(grp[g].pending)
      <4>1. m \in Range(grp[g].pending)
        BY <2>1, <1>7, <2>4, TypedIs, ListIs, TailList DEF IsGroup
      <4> QED
        BY <2>1, <4>1, ListIs
    <3>2. /\ \A n \in Members : n # m => mem'[n] = mem[n]
          /\ mem'[m].group = g /\ mem'[m].user \in {"held", "free"} /\ mem'[m].told = "nothing"
          /\ mem'[m].user = mem[m].user
          /\ mem[m].group = g /\ mem[m].user \in {"held", "free"} /\ mem[m].told = "nothing"
          /\ mem[m].state = "JOINING"
      BY <2>4, <3>1 DEF MemStep, PendOK
    <3>3. CASE grp' = grp /\ mem'[m].state = mem[m].state
      <4>1. \A n \in Members : SameMem(n)
        BY <3>2, <3>3 DEF SameMem
      <4> QED
        BY <2>1, <3>3, <4>1, ListIs, ListSame
    <3>4. CASE /\ \E ac, ms : GrpStep(g, grp[g].ref, "BUSY", Without(grp[g].pending, m), ac, ms, grp[g].retries)
               /\ \/ grp'[g].active = grp[g].active \ {m} /\ mem'[m].state = mem[m].state
                  \/ grp'[g].active = grp[g].active \cup {m} /\ mem'[m].state = "MEMBER"
      <4>1. (\A f \in Groups : f # g => grp'[f] = grp[f]) /\ grp'[g].pending = Without(grp[g].pending, m)
        BY <3>4 DEF GrpStep
      <4>2. IsInjective(grp'[g].pending) /\ Range(grp'[g].pending) = Range(grp[g].pending) \ {m}
        BY <2>1, <4>1, ListDels
      <4>3. \A f \in Groups : f # g => m \notin Range(grp[f].pending) /\ m \notin grp[f].active
        BY <2>4, <3>2, Elsewhere
      <4>4. CASE grp'[g].active = grp[g].active \ {m} /\ mem'[m].state = mem[m].state
        <5>1. MemOK(m)'
          BY <3>2, <4>4 DEF MemOK
        <5> QED
          BY <2>1, <2>4, <3>2, <4>1, <4>2, <4>3, <4>4, <5>1, ListOne
      <4>5. CASE grp'[g].active = grp[g].active \cup {m} /\ mem'[m].state = "MEMBER"
        <5>1. MemOK(m)' /\ ActOK(g, m)'
          BY <3>2, <4>5 DEF MemOK, ActOK
        <5> QED
          BY <2>1, <2>4, <3>2, <4>1, <4>2, <4>3, <4>5, <5>1, ListOne
      <4> QED
        BY <3>4, <4>4, <4>5
    <3> QED
      BY <2>4, <3>3, <3>4
  <2>5. CASE /\ grp[g].pending # <<>> /\ m \in Members
             /\ GrpStep(g, grp[g].ref, "BUSY", Without(grp[g].pending, m), grp[g].active \cup {m},
                        Adjusted(grp[g].members, mem[m].join_state, 1), grp[g].retries)
             /\ MemStep(m, mem[m].ref + 1, mem[m].group, mem[m].join_state, "MEMBER",
                        mem[m].user, mem[m].told)
    <3>1. grp'[g].active = grp[g].active \cup {m} /\ mem'[m].state = "MEMBER"
      BY <2>5 DEF GrpStep, MemStep
    <3> QED
      BY <2>5, <3>1, <2>4
  <2>6. CASE /\ grp[g].pending # <<>> /\ m \in Members
             /\ GrpStep(g, grp[g].ref, "BUSY", Without(grp[g].pending, m), grp[g].active \ {m},
                        grp[g].members, grp[g].retries)
             /\ MemStep(m, mem[m].ref + 1, mem[m].group, mem[m].join_state, mem[m].state,
                        mem[m].user, mem[m].told)
    <3>1. grp'[g].active = grp[g].active \ {m} /\ mem'[m].state = mem[m].state
      BY <2>6 DEF GrpStep, MemStep
    <3> QED
      BY <2>6, <3>1, <2>4
  <2>7. CASE /\ grp[g].pending # <<>> /\ m \in Members /\ grp' = grp
             /\ MemStep(m, mem[m].ref + 1, mem[m].group, mem[m].join_state, mem[m].state,
                        mem[m].user, mem[m].told)
    <3>1. mem'[m].state = mem[m].state
      BY <2>7 DEF MemStep
    <3> QED
      BY <2>7, <3>1, <2>4
  <2> QED
    BY <1>7, <2>2, <2>3, <2>5, <2>6, <2>7 DEF HandlerEffect
<1>8. ASSUME NEW c \in Ctxs, NEW g, g = ctx[c].g, WorkReleaseEffect(c, g)
      PROVE  ListInv'
  <2>1. Typed' /\ g \in Groups /\ ctx[c].pc = "release" /\ Released(g) /\ mem' = mem
    BY <1>8 DEF WorkReleaseEffect
  <2>2. c \in Leaving(g)
    BY <1>8, <2>1 DEF Leaving
  <2>3. \A f \in Groups : /\ IsInjective(grp'[f].pending)
                          /\ Range(grp'[f].pending) = Range(grp[f].pending)
                          /\ grp'[f].active = grp[f].active
    BY <2>1, <2>2, ReleaseLists
  <2> QED
    BY <2>1, <2>3, ListSame DEF SameMem
<1>9. ASSUME NEW c \in Ctxs, NEW g, g = ctx[c].g, NEW m, m = ctx[c].m, SendJoinEffect(c, g, m)
      PROVE  ListInv'
  <2>1. Typed' /\ g \in Groups /\ m \in Members /\ ctx[c].pc = "send"
    BY <1>9 DEF SendJoinEffect
  <2>2. \/ /\ grp' = grp
           /\ MemStep(m, mem[m].ref - 1, mem[m].group, mem[m].join_state, mem[m].state,
                      mem[m].user, mem[m].told)
        \/ /\ mem' = mem
           /\ GrpStep(g, grp[g].ref, grp[g].state, Without(grp[g].pending, m), grp[g].active \ {m},
                      grp[g].members, grp[g].retries)
    BY <1>9 DEF SendJoinEffect
  <2>3. CASE /\ grp' = grp
             /\ MemStep(m, mem[m].ref - 1, mem[m].group, mem[m].join_state, mem[m].state,
                        mem[m].user, mem[m].told)
    <3>1. \A n \in Members : SameMem(n)
      BY <2>3 DEF SameMem, MemStep
    <3> QED
      BY <2>1, <2>3, <3>1, ListIs, ListSame
  <2>4. CASE /\ mem' = mem
             /\ GrpStep(g, grp[g].ref, grp[g].state, Without(grp[g].pending, m), grp[g].active \ {m},
                        grp[g].members, grp[g].retries)
    <3>1. mem[m].group = g /\ mem[m].state = "JOINING" /\ mem[m].user \notin {"none", "acquired"}
      BY <1>9, <2>1 DEF WorkInv, WorkAt, Told
    <3>2. MemOK(m)'
      BY <2>4, <3>1 DEF MemOK
    <3>3. /\ \A f \in Groups : f # g => grp'[f] = grp[f]
          /\ grp'[g].pending = Without(grp[g].pending, m) /\ grp'[g].active = grp[g].active \ {m}
      BY <2>4 DEF GrpStep
    <3>4. IsInjective(grp'[g].pending) /\ Range(grp'[g].pending) = Range(grp[g].pending) \ {m}
      BY <2>1, <3>3, ListDels
    <3>5. \A f \in Groups : f # g => m \notin Range(grp[f].pending) /\ m \notin grp[f].active
      BY <2>1, <3>1, Elsewhere
    <3> QED
      BY <2>1, <2>4, <3>2, <3>3, <3>4, <3>5, ListOne
  <2> QED
    BY <2>2, <2>3, <2>4
<1>10. ASSUME NEW c \in Ctxs, NEW g, g = ctx[c].g, NEW m, m = ctx[c].m,
             NEW told, told = IF ctx[c].pc = "errcb" THEN "reset"
                              ELSE IF mem[m].state = "MEMBER" THEN "joined" ELSE "failed",
             CallbackEffect(c, g, m, told)
      PROVE  ListInv'
  <2>1. Typed' /\ g \in Groups /\ m \in Members /\ ctx[c].pc \in {"cb", "errcb"} /\ grp' = grp
    BY <1>10 DEF CallbackEffect
  <2>2. \/ MemStep(m, mem[m].ref - 1, mem[m].group, mem[m].join_state, mem[m].state, mem[m].user, told)
        \/ mem[m].user = "held" /\
           MemStep(m, mem[m].ref - 1, mem[m].group, mem[m].join_state, mem[m].state, "free", told)
    BY <1>10 DEF CallbackEffect
  <2>3. /\ \A n \in Members : n # m => mem'[n] = mem[n]
        /\ mem'[m].group = mem[m].group /\ mem'[m].state = mem[m].state
        /\ mem'[m].user = mem[m].user \/ (mem[m].user = "held" /\ mem'[m].user = "free")
    BY <2>2 DEF MemStep
  <2>4. /\ mem[m].group = g /\ mem[m].user \notin {"none", "acquired"}
        /\ ctx[c].pc = "cb" => m \notin Range(grp[g].pending)
        /\ ctx[c].pc = "errcb" => mem[m].state = "ERROR"
    BY <1>10, <2>1 DEF WorkInv, WorkAt, Told
  <2>5. m \notin Range(grp'[g].pending)
    BY <2>1, <2>4, ListIs DEF PendOK
  <2>6. m \in grp[g].active => ActOK(g, m)'
    <3> SUFFICES ASSUME m \in grp[g].active PROVE ActOK(g, m)'
      OBVIOUS
    <3>1. ActOK(g, m)
      BY <2>1, ListIs
    <3> QED
      BY <2>3, <3>1 DEF ActOK
  <2>7. MemOK(m)'
    <3>1. MemOK(m)
      BY <2>1, ListIs
    <3>2. mem'[m].user # "acquired" /\ (mem'[m].user \in {"held", "free"} => mem[m].user \in {"held", "free"})
      BY <2>3, <2>4
    <3> QED
      BY <2>1, <2>3, <3>1, <3>2 DEF MemOK
  <2>8. \A f \in Groups : f # g => m \notin Range(grp[f].pending) /\ m \notin grp[f].active
    BY <2>1, <2>4, Elsewhere
  <2> QED
    BY <2>1, <2>3, <2>5, <2>6, <2>7, <2>8, ListIs, ListOne
<1>11. ASSUME NEW c \in Ctxs, NEW g, g = ctx[c].g, SendLeaveEffect(c, g)
      PROVE  ListInv'
  <2>1. Typed' /\ UNCHANGED <<grp, mem>>
    BY <1>11 DEF SendLeaveEffect
  <2> QED
    BY <2>1, ListIs, ListSame DEF SameMem
<1>12. ASSUME NEW c \in Ctxs, NEW g, g = ctx[c].g, ErrorEffect(c, g)
      PROVE  ListInv'
  <2>1. Typed' /\ UNCHANGED <<grp, mem>>
    BY <1>12 DEF ErrorEffect
  <2> QED
    BY <2>1, ListIs, ListSame DEF SameMem
<1>13. ASSUME NEW c \in Ctxs, NEW g, g = ctx[c].g, ErrorLockEffect(c, g)
      PROVE  ListInv'
  <2>1. Typed' /\ g \in Groups /\ mem' = mem
    BY <1>13 DEF ErrorLockEffect
  <2>2. grp' = grp \/ \E st, rt : GrpStep(g, grp[g].ref, st, grp[g].pending, grp[g].active, grp[g].members, rt)
    BY <1>13 DEF ErrorLockEffect
  <2>3. \A f \in Groups : grp'[f].pending = grp[f].pending /\ grp'[f].active = grp[f].active
    BY <2>2 DEF GrpStep
  <2> QED
    BY <2>1, <2>3, ListIs, ListSame DEF SameMem
<1>14. ASSUME NEW c \in Ctxs, NEW g, g = ctx[c].g, ErrorNextEffect(c, g)
      PROVE  ListInv'
  <2>1. Typed' /\ g \in Groups
    BY <1>14 DEF ErrorNextEffect
  <2>2. CASE mem' = mem /\ GrpStep(g, grp[g].ref, "BUSY", grp[g].pending, grp[g].active,
                                   grp[g].members, grp[g].retries)
    <3>1. \A f \in Groups : grp'[f].pending = grp[f].pending /\ grp'[f].active = grp[f].active
      BY <2>2 DEF GrpStep
    <3> QED
      BY <2>1, <2>2, <3>1, ListIs, ListSame DEF SameMem
  <2>3. ASSUME NEW m \in Members, m \in grp[g].active,
               GrpStep(g, grp[g].ref, grp[g].state, Without(grp[g].pending, m), grp[g].active \ {m},
                       Adjusted(grp[g].members, mem[m].join_state, -1), grp[g].retries),
               MemStep(m, mem[m].ref + 1, mem[m].group, mem[m].join_state, "ERROR", mem[m].user, mem[m].told)
        PROVE  ListInv'
    <3>1. mem[m].group = g /\ mem[m].user \in {"held", "free"}
      BY <2>1, <2>3, ListIs DEF ActOK
    <3>2. MemOK(m)' /\ \A n \in Members : n # m => mem'[n] = mem[n]
      BY <2>3, <3>1 DEF MemOK, MemStep
    <3>3. /\ \A f \in Groups : f # g => grp'[f] = grp[f]
          /\ grp'[g].pending = Without(grp[g].pending, m) /\ grp'[g].active = grp[g].active \ {m}
      BY <2>3 DEF GrpStep
    <3>4. IsInjective(grp'[g].pending) /\ Range(grp'[g].pending) = Range(grp[g].pending) \ {m}
      BY <2>1, <3>3, ListDels
    <3>5. \A f \in Groups : f # g => m \notin Range(grp[f].pending) /\ m \notin grp[f].active
      BY <3>1, Elsewhere
    <3> QED
      BY <2>1, <3>2, <3>3, <3>4, <3>5, ListOne
  <2> QED
    BY <1>14, <2>2, <2>3 DEF ErrorNextEffect
<1>15. ASSUME NEW c \in Ctxs, NEW g, g = ctx[c].g, NEW m, m = ctx[c].m, JoinErrorEffect(c, g, m)
      PROVE  ListInv'
  <2>1. Typed' /\ g \in Groups /\ m \in Members
    BY <1>15 DEF JoinErrorEffect
  <2>2. CASE UNCHANGED <<grp, mem>>
    BY <2>1, <2>2, ListIs, ListSame DEF SameMem
  <2>3. CASE /\ grp[g].pending # <<>> /\ m = Head(grp[g].pending)
             /\ GrpStep(g, grp[g].ref, grp[g].state, Without(grp[g].pending, m), grp[g].active \ {m},
                        grp[g].members, grp[g].retries)
             /\ MemStep(m, mem[m].ref + 1, mem[m].group, mem[m].join_state, mem[m].state,
                        mem[m].user, mem[m].told)
    <3>1. PendOK(g, m)
      <4>1. m \in Range(grp[g].pending)
        BY <2>1, <2>3, TypedIs, ListIs, TailList DEF IsGroup
      <4> QED
        BY <2>1, <4>1, ListIs
    <3>2. MemOK(m)' /\ mem[m].group = g /\ \A n \in Members : n # m => mem'[n] = mem[n]
      BY <2>3, <3>1 DEF MemOK, PendOK, MemStep
    <3>3. /\ \A f \in Groups : f # g => grp'[f] = grp[f]
          /\ grp'[g].pending = Without(grp[g].pending, m) /\ grp'[g].active = grp[g].active \ {m}
      BY <2>3 DEF GrpStep
    <3>4. IsInjective(grp'[g].pending) /\ Range(grp'[g].pending) = Range(grp[g].pending) \ {m}
      BY <2>1, <3>3, ListDels
    <3>5. \A f \in Groups : f # g => m \notin Range(grp[f].pending) /\ m \notin grp[f].active
      BY <2>1, <3>2, Elsewhere
    <3> QED
      BY <2>1, <3>2, <3>3, <3>4, <3>5, ListOne
  <2> QED
    BY <1>15, <2>2, <2>3 DEF JoinErrorEffect
<1>16. ASSUME NEW c \in Ctxs, NEW g, g = ctx[c].g, JoinRecordEffect(c, g)
      PROVE  ListInv'
  <2>1. Typed' /\ g \in Groups /\ mem' = mem
    BY <1>16 DEF JoinRecordEffect
  <2>2. grp' = grp \/ \E st, rt : GrpStep(g, grp[g].ref, st, grp[g].pending, grp[g].active, grp[g].members, rt)
    BY <1>16 DEF JoinRecordEffect
  <2>3. \A f \in Groups : grp'[f].pending = grp[f].pending /\ grp'[f].active = grp[f].active
    BY <2>2 DEF GrpStep
  <2> QED
    BY <2>1, <2>3, ListIs, ListSame DEF SameMem
<1>17. ASSUME NEW c \in Ctxs, NEW g, g = ctx[c].g, LeaveRetryEffect(c, g)
      PROVE  ListInv'
  <2>1. Typed' /\ g \in Groups /\ mem' = mem
    BY <1>17 DEF LeaveRetryEffect
  <2>2. grp' = grp \/ \E st, rt : GrpStep(g, grp[g].ref, st, grp[g].pending, grp[g].active, grp[g].members, rt)
    BY <1>17 DEF LeaveRetryEffect
  <2>3. \A f \in Groups : grp'[f].pending = grp[f].pending /\ grp'[f].active = grp[f].active
    BY <2>2 DEF GrpStep
  <2> QED
    BY <2>1, <2>3, ListIs, ListSame DEF SameMem
<1>18. ASSUME NEW g \in Groups, SaEffect(g)
      PROVE  ListInv'
  <2>1. Typed' /\ UNCHANGED <<grp, mem>>
    BY <1>18 DEF SaEffect
  <2> QED
    BY <2>1, ListIs, ListSame DEF SameMem
<1>19. ASSUME NEW c \in {"recv", "timeout"}, NEW g \in Groups, JoinHandlerEffect(c, g)
      PROVE  ListInv'
  <2>1. Typed' /\ UNCHANGED <<grp, mem>>
    BY <1>19 DEF JoinHandlerEffect
  <2> QED
    BY <2>1, ListIs, ListSame DEF SameMem
<1>20. ASSUME NEW c \in {"recv", "timeout"}, NEW g \in Groups, LeaveHandlerEffect(c, g)
      PROVE  ListInv'
  <2>1. Typed' /\ UNCHANGED <<grp, mem>>
    BY <1>20 DEF LeaveHandlerEffect
  <2> QED
    BY <2>1, ListIs, ListSame DEF SameMem
<1>21. ASSUME EventEffect
      PROVE  ListInv'
  <2>1. Typed' /\ UNCHANGED <<grp, mem>>
    BY <1>21 DEF EventEffect
  <2> QED
    BY <2>1, ListIs, ListSame DEF SameMem
<1>22. ASSUME GroupsEventEffect
      PROVE  ListInv'
  <2>1. Typed' /\ mem' = mem
    BY <1>22 DEF GroupsEventEffect
  <2>2. \A f \in Groups : grp'[f].pending = grp[f].pending /\ grp'[f].active = grp[f].active
    BY <1>22 DEF GroupsEventEffect
  <2> QED
    BY <2>1, <2>2, ListIs, ListSame DEF SameMem
<1>23. ASSUME RemoveEffect
      PROVE  ListInv'
  <2>1. Typed' /\ UNCHANGED <<grp, mem>>
    BY <1>23 DEF RemoveEffect
  <2> QED
    BY <2>1, ListIs, ListSame DEF SameMem
<1>24. ASSUME UNCHANGED vars PROVE ListInv'
  <2>2. UNCHANGED <<grp, mem>>
    BY <1>24 DEF vars
  <2> QED
    BY <2>2, ListIs, ListSame DEF SameMem
<1> QED
  BY <1>1, <1>2, <1>3, <1>4, <1>5, <1>6, <1>7, <1>8, <1>9, <1>10, <1>11, <1>12, <1>13, <1>14,
     <1>15, <1>16, <1>17, <1>18, <1>19, <1>20, <1>21, <1>22, <1>23, <1>24
     DEF Effects

----------------------------------------------------------------------------
(* The references of a member. *)

(* The references of a member: its users, and its own until it waits. *)
LEMMA CountIs ==
    ASSUME FiniteSetFacts, MemberInv, NEW m \in Members
    PROVE  /\ IsFiniteSet(Users(m)) /\ Cardinality(Users(m)) \in Nat
           /\ mem[m].user \in {"none", "wait"} => mem[m].ref = Cardinality(Users(m))
           /\ mem[m].user \notin {"none", "wait"} => mem[m].ref = Cardinality(Users(m)) + 1
           /\ mem[m].user = "none" => mem[m].ref = 0
<1>1. IsFiniteSet(Users(m))
  BY Finite
<1>2. Cardinality(Users(m)) \in Nat
  BY <1>1, CardStep
<1>3. MemberAt(m)
  BY DEF MemberInv
<1> DEFINE k == Cardinality(Users(m))
<1>4. mem[m].ref = k + IF mem[m].user \in {"none", "wait"} THEN 0 ELSE 1
  BY <1>3 DEF MemberAt
<1>5. k \in Nat
  BY <1>2
<1> HIDE DEF k
<1>6. k + 0 = k
  BY <1>5, SMT
<1>7. /\ mem[m].user \in {"none", "wait"} => mem[m].ref = k
      /\ mem[m].user \notin {"none", "wait"} => mem[m].ref = k + 1
  BY <1>4, <1>6
<1> QED
  BY <1>1, <1>2, <1>3, <1>7 DEF MemberAt, k

(* What MemberAt needs. *)
LEMMA CountTo ==
    ASSUME NEW m \in Members, NEW k \in Nat, Cardinality(Users(m)') = k,
           mem'[m].user \in {"none", "wait"} => mem'[m].ref = k,
           mem'[m].user \notin {"none", "wait"} => mem'[m].ref = k + 1,
           mem'[m].user = "none" => mem'[m].ref = 0
    PROVE  MemberAt(m)'
<1>1. k + 0 = k
  BY SMT
<1>2. mem'[m].ref = k + IF mem'[m].user \in {"none", "wait"} THEN 0 ELSE 1
  BY <1>1
<1> QED
  BY <1>2 DEF MemberAt

(* A step that touches only member m keeps the references of all if it keeps *)
(* those of m.                                                               *)
LEMMA MemberOne ==
    ASSUME MemberInv, NEW m \in Members, MemberAt(m)',
           \A n \in Members : n # m => mem'[n] = mem[n] /\ Users(n)' = Users(n)
    PROVE  MemberInv'
<1>1. \A n \in Members : n # m => MemberAt(n)'
  <2> SUFFICES ASSUME NEW n \in Members, n # m PROVE MemberAt(n)'
    OBVIOUS
  <2>1. MemberAt(n) /\ mem'[n] = mem[n] /\ Users(n)' = Users(n)
    BY DEF MemberInv
  <2> QED
    BY <2>1 DEF MemberAt
<1> QED
  BY <1>1 DEF MemberInv

(* A step that touches no member and no user of one keeps the references. *)
LEMMA MemberSame ==
    ASSUME MemberInv, mem' = mem, \A n \in Members : Users(n)' = Users(n)
    PROVE  MemberInv'
<1> SUFFICES ASSUME NEW n \in Members PROVE MemberAt(n)'
  BY DEF MemberInv
<1>1. MemberAt(n) /\ mem'[n] = mem[n] /\ Users(n)' = Users(n)
  BY DEF MemberInv
<1> QED
  BY <1>1 DEF MemberAt

(* The users of each member stay when context c goes on using the same. *)
LEMMA UsersKeep ==
    ASSUME NEW c \in Ctxs, \A d \in Ctxs : d # c => ctx'[d] = ctx[d],
           \A x \in Members : Uses(c, x)' <=> Uses(c, x)
    PROVE  \A x \in Members : Users(x)' = Users(x)
BY UsersStep

(* A context that works for no member goes on without one. *)
LEMMA MemberNone ==
    ASSUME Shape, MemberInv, NEW c \in Ctxs, ctx[c].pc \notin Told, NEW pc, NEW g, NEW n, CtxStep(c, pc, g, n),
           n = Null \/ pc = "joinerr", mem' = mem
    PROVE  MemberInv'
<1>1. ctx[c].m = Null \/ ctx[c].pc = "joinerr"
  BY DEF Shape
<1>2. \A x \in Members : x # Null
  BY NotNull
<1>3. \A x \in Members : Users(x)' = Users(x)
  <2>1. (\A d \in Ctxs : d # c => ctx'[d] = ctx[d]) /\ ctx'[c].m = n /\ ctx'[c].pc = pc
    BY DEF CtxStep
  <2>2. \A x \in Members : ~Uses(c, x) /\ ~Uses(c, x)'
    BY <1>1, <1>2, <2>1 DEF Uses
  <2> QED
    BY <2>1, <2>2, UsersKeep
<1> QED
  BY <1>3, MemberSame

(* A context begins to use member m and takes a reference. *)
LEMMA MemberUp ==
    ASSUME FiniteSetFacts, MemberInv, NEW c \in Ctxs, NEW m \in Members, NEW pc, NEW g, CtxStep(c, pc, g, m),
           pc \notin {"wait", "errwait", "joinerr"}, ctx[c].m = Null \/ ctx[c].pc = "joinerr",
           NEW gr, NEW js, NEW st, NEW told,
           MemStep(m, mem[m].ref + 1, gr, js, st, mem[m].user, told), mem[m].user # "none"
    PROVE  MemberInv'
<1>1. (\A d \in Ctxs : d # c => ctx'[d] = ctx[d]) /\ ctx'[c].m = m /\ ctx'[c].pc = pc
  BY DEF CtxStep
<1>u. /\ Uses(c, m)' /\ ~Uses(c, m)
      /\ \A n \in Members : n # m => ~Uses(c, n)' /\ ~Uses(c, n)
  BY <1>1, NotNull DEF Uses
<1>2. Users(m)' = Users(m) \cup {c} /\ c \notin Users(m)
  BY <1>1, <1>u, UsersStep
<1>3. \A n \in Members : n # m => Users(n)' = Users(n)
  BY <1>1, <1>u, UsersStep
<1>4. /\ \A n \in Members : n # m => mem'[n] = mem[n]
      /\ mem'[m].user = mem[m].user /\ mem'[m].ref = mem[m].ref + 1
  BY DEF MemStep
<1>5. MemberAt(m)'
  <2> DEFINE k == Cardinality(Users(m))
  <2>1. /\ k \in Nat /\ IsFiniteSet(Users(m))
        /\ mem[m].user \in {"none", "wait"} => mem[m].ref = k
        /\ mem[m].user \notin {"none", "wait"} => mem[m].ref = k + 1
    BY CountIs
  <2>2. Cardinality(Users(m)') = k + 1
    BY <1>2, <2>1, CardStep
  <2>3. k + 1 \in Nat
    BY <2>1, SMT
  <2> HIDE DEF k
  <2>4. /\ mem'[m].user \in {"none", "wait"} => mem'[m].ref = k + 1
        /\ mem'[m].user \notin {"none", "wait"} => mem'[m].ref = (k + 1) + 1
        /\ mem'[m].user # "none"
    BY <1>4, <2>1
  <2> QED
    BY <2>2, <2>3, <2>4, CountTo
<1> QED
  BY <1>3, <1>4, <1>5, MemberOne

(* A context stops using member m, or lets it wait, and drops its reference. *)
LEMMA MemberDown ==
    ASSUME FiniteSetFacts, MemberInv, NEW c \in Ctxs, NEW m \in Members, NEW pc, NEW g, NEW n, CtxStep(c, pc, g, n),
           ctx[c].m = m, ctx[c].pc \notin {"wait", "errwait", "joinerr"},
           n # Null => n = m /\ pc \in {"wait", "errwait"},
           NEW gr, NEW js, NEW st, NEW user, NEW told,
           MemStep(m, mem[m].ref - 1, gr, js, st, user, told), user # "none",
           user = "wait" <=> mem[m].user = "wait", mem[m].user # "none"
    PROVE  MemberInv'
<1>1. (\A d \in Ctxs : d # c => ctx'[d] = ctx[d]) /\ ctx'[c].m = n /\ ctx'[c].pc = pc
  BY DEF CtxStep
<1>u. /\ ~Uses(c, m)' /\ Uses(c, m)
      /\ \A x \in Members : x # m => ~Uses(c, x)' /\ ~Uses(c, x)
  BY <1>1, NotNull DEF Uses
<1>2. Users(m)' = Users(m) \ {c} /\ c \in Users(m)
  BY <1>1, <1>u, UsersStep
<1>3. \A x \in Members : x # m => Users(x)' = Users(x)
  BY <1>1, <1>u, UsersStep
<1>4. /\ \A x \in Members : x # m => mem'[x] = mem[x]
      /\ mem'[m].user = user /\ mem'[m].ref = mem[m].ref - 1
  BY DEF MemStep
<1>5. MemberAt(m)'
  <2> DEFINE k == Cardinality(Users(m))
  <2>1. /\ k \in Nat /\ IsFiniteSet(Users(m))
        /\ mem[m].user = "wait" => mem[m].ref = k
        /\ mem[m].user # "wait" => mem[m].ref = k + 1
    BY CountIs
  <2>2. Cardinality(Users(m)') = k - 1 /\ k - 1 \in Nat
    <3>1. Cardinality(Users(m) \ {c}) = k - 1 /\ k - 1 \in Nat
      BY <1>2, <2>1, CardStep
    <3> QED
      BY <1>2, <3>1
  <2> HIDE DEF k
  <2>3. (k + 1) - 1 = (k - 1) + 1
    BY <2>1, SMT
  <2>4. /\ mem'[m].user \in {"none", "wait"} => mem'[m].ref = k - 1
        /\ mem'[m].user \notin {"none", "wait"} => mem'[m].ref = (k - 1) + 1
        /\ mem'[m].user # "none"
    BY <1>4, <2>1, <2>3
  <2> QED
    BY <2>2, <2>4, CountTo
<1> QED
  BY <1>3, <1>4, <1>5, MemberOne

(* deref_member by a context that has used member m. *)
LEMMA MemberDone ==
    ASSUME FiniteSetFacts, MemberInv, NEW c \in Ctxs, NEW m \in Members, NEW pc, NEW g, CtxStep(c, pc, g, Null),
           ctx[c].m = m, ctx[c].pc \notin {"wait", "errwait", "joinerr"}, NEW told,
           MemStep(m, mem[m].ref - 1, mem[m].group, mem[m].join_state, mem[m].state, mem[m].user, told),
           mem[m].user # "none"
    PROVE  MemberInv'
<1>1. PICK n, user : n = Null /\ user = mem[m].user
  OBVIOUS
<1>2. CtxStep(c, pc, g, n)
  BY <1>1
<1>3. MemStep(m, mem[m].ref - 1, mem[m].group, mem[m].join_state, mem[m].state, user, told)
  BY <1>1
<1>4. (n # Null => n = m /\ pc \in {"wait", "errwait"}) /\ user # "none" /\ (user = "wait" <=> mem[m].user = "wait")
  BY <1>1
<1> QED
  BY <1>2, <1>3, <1>4, MemberDown

(* Member m changes, the contexts do not. *)
LEMMA MemberUser ==
    ASSUME MemberInv, ctx' = ctx, NEW m \in Members, MemberAt(m)',
           \A n \in Members : n # m => mem'[n] = mem[n]
    PROVE  MemberInv'
<1>1. \A n \in Members : Users(n)' = Users(n)
  BY DEF Users
<1> QED
  BY <1>1, MemberOne

(* Every step keeps the references of the members exact. *)
LEMMA MemberNext ==
    ASSUME FiniteSetFacts, Typed, Shape, Typed', ListInv, MemberInv, WorkInv, Effects
    PROVE  MemberInv'
<1>1. ASSUME NEW m \in Members, NEW js, JoinEffect(m, js)
      PROVE  MemberInv'
  <2>1. PICK g \in Groups : MemStep(m, 1, g, js, "JOINING", "acquired", "nothing")
    BY <1>1 DEF JoinEffect
  <2>2. ctx' = ctx /\ mem[m].user = "none"
    BY <1>1 DEF JoinEffect
  <2>3. Cardinality(Users(m)) = 0
    BY <1>1, <2>2, CountIs
  <2>4. Users(m)' = Users(m) /\ 0 \in Nat /\ 0 + 1 = 1
    BY <2>2, SMT DEF Users
  <2>5. /\ \A n \in Members : n # m => mem'[n] = mem[n]
        /\ mem'[m].user = "acquired" /\ mem'[m].ref = 1
    BY <2>1 DEF MemStep
  <2>6. MemberAt(m)'
    BY <1>1, <2>3, <2>4, <2>5, CountTo
  <2> QED
    BY <1>1, <2>2, <2>5, <2>6, MemberUser
<1>2. ASSUME NEW m \in Members, NEW g, g = mem[m].group,
             NEW ms, ms = IF mem[m].state = "MEMBER"
                          THEN Adjusted(grp[g].members, mem[m].join_state, -1) ELSE grp[g].members,
             FreeEffect(m, g, ms)
      PROVE  MemberInv'
  <2>1. /\ mem[m].user \in {"held", "free"} /\ ctx' = ctx
        /\ \/ MemStep(m, mem[m].ref - 1, g, mem[m].join_state, mem[m].state, "wait", mem[m].told)
           \/ MemStep(m, mem[m].ref, g, mem[m].join_state, mem[m].state, "release", mem[m].told)
    BY <1>2 DEF FreeEffect
  <2>2. Users(m)' = Users(m)
    BY <2>1 DEF Users
  <2>3. \A n \in Members : n # m => mem'[n] = mem[n]
    BY <2>1 DEF MemStep
  <2>4. MemberAt(m)'
    <3> DEFINE k == Cardinality(Users(m))
    <3>1. k \in Nat /\ mem[m].ref = k + 1
      BY <1>2, <2>1, CountIs
    <3>2. Cardinality(Users(m)') = k
      BY <2>2
    <3> HIDE DEF k
    <3>3. (k + 1) - 1 = k
      BY <3>1, SMT
    <3>4. \/ mem'[m].user = "wait" /\ mem'[m].ref = k
          \/ mem'[m].user = "release" /\ mem'[m].ref = k + 1
      BY <2>1, <3>1, <3>3 DEF MemStep
    <3> QED
      BY <1>2, <3>1, <3>2, <3>4, CountTo
  <2> QED
    BY <1>2, <2>1, <2>3, <2>4, MemberUser
<1>3. ASSUME NEW m \in Members, NEW g, g = mem[m].group, QueueJoinEffect(m, g)
      PROVE  MemberInv'
  <2>1. /\ mem[m].user = "acquired" /\ ctx' = ctx
        /\ MemStep(m, mem[m].ref, g, mem[m].join_state, mem[m].state, "held", mem[m].told)
    BY <1>3 DEF QueueJoinEffect
  <2>2. Users(m)' = Users(m)
    BY <2>1 DEF Users
  <2>3. \A n \in Members : n # m => mem'[n] = mem[n]
    BY <2>1 DEF MemStep
  <2>4. MemberAt(m)'
    <3> DEFINE k == Cardinality(Users(m))
    <3>1. k \in Nat /\ mem[m].ref = k + 1
      BY <1>3, <2>1, CountIs
    <3>2. Cardinality(Users(m)') = k
      BY <2>2
    <3> HIDE DEF k
    <3>3. (k + 1) - 1 = k
      BY <3>1, SMT
    <3>4. mem'[m].user = "held" /\ mem'[m].ref = k + 1
      BY <2>1, <3>1 DEF MemStep
    <3> QED
      BY <1>3, <3>1, <3>2, <3>4, CountTo
  <2> QED
    BY <1>3, <2>1, <2>3, <2>4, MemberUser
<1>4. ASSUME NEW m \in Members, NEW g, g = mem[m].group, FreeReleaseEffect(m, g)
      PROVE  MemberInv'
  <2>1. /\ mem[m].user = "release" /\ ctx' = ctx
        /\ MemStep(m, mem[m].ref - 1, g, mem[m].join_state, mem[m].state, "wait", mem[m].told)
    BY <1>4 DEF FreeReleaseEffect
  <2>2. Users(m)' = Users(m)
    BY <2>1 DEF Users
  <2>3. \A n \in Members : n # m => mem'[n] = mem[n]
    BY <2>1 DEF MemStep
  <2>4. MemberAt(m)'
    <3> DEFINE k == Cardinality(Users(m))
    <3>1. k \in Nat /\ mem[m].ref = k + 1
      BY <1>4, <2>1, CountIs
    <3>2. Cardinality(Users(m)') = k
      BY <2>2
    <3> HIDE DEF k
    <3>3. (k + 1) - 1 = k
      BY <3>1, SMT
    <3>4. mem'[m].user = "wait" /\ mem'[m].ref = k
      BY <2>1, <3>1, <3>3 DEF MemStep
    <3> QED
      BY <1>4, <3>1, <3>2, <3>4, CountTo
  <2> QED
    BY <1>4, <2>1, <2>3, <2>4, MemberUser
<1>5. ASSUME NEW m \in Members, KfreeEffect(m)
      PROVE  MemberInv'
  <2>1. mem[m].user = "wait" /\ mem[m].ref = 0 /\ MemStep(m, 0, Null, {}, "JOINING", "none", "nothing")
    BY <1>5 DEF KfreeEffect
  <2>2. \A c \in Ctxs : \/ ctx[c].pc \in {"wait", "errwait"} /\ ctx'[c].m = Null
                        \/ ctx'[c] = ctx[c]
    BY <1>5 DEF KfreeEffect
  <2>3. \A n \in Members : Users(n)' = Users(n)
    BY <2>2, NotNull DEF Users
  <2>4. Cardinality(Users(m)') = 0 /\ 0 \in Nat
    <3>1. Cardinality(Users(m)) = 0
      BY <1>5, <2>1, CountIs
    <3> QED
      BY <1>5, <2>3, <3>1, SMT
  <2>5. /\ \A n \in Members : n # m => mem'[n] = mem[n]
        /\ mem'[m].user = "none" /\ mem'[m].ref = 0
    BY <2>1 DEF MemStep
  <2>6. MemberAt(m)'
    BY <1>5, <2>4, <2>5, CountTo
  <2> QED
    BY <1>5, <2>3, <2>5, <2>6, MemberOne
<1>6. ASSUME WorkStartEffect
      PROVE  MemberInv'
  <2>1. ctx["wq"].pc = "idle" /\ mem' = mem /\ CtxStep("wq", "test", Head(wq), Null)
    BY <1>6 DEF WorkStartEffect
  <2>2. "wq" \in Ctxs /\ ctx["wq"].pc \notin Told
    BY <2>1 DEF Ctxs, Told
  <2> QED
    BY <2>1, <2>2, MemberNone
<1>7. ASSUME NEW c \in Ctxs, NEW g, g = ctx[c].g, NEW m, m = Head(grp[g].pending), HandlerEffect(c, g, m)
      PROVE  MemberInv'
  <2>1. g \in Groups /\ ctx[c].pc = "test" /\ ctx[c].m = Null
    <3>1. g \in Groups /\ ctx[c].pc = "test"
      BY <1>7 DEF HandlerEffect
    <3> QED
      BY <1>7, <3>1 DEF Shape, Told
  <2>2. \/ mem' = mem /\ \E pc : CtxStep(c, pc, g, Null)
        \/ /\ grp[g].pending # <<>> /\ m \in Members
           /\ CtxStep(c, "cb", g, m) \/ CtxStep(c, "send", g, m)
           /\ \E st : MemStep(m, mem[m].ref + 1, mem[m].group, mem[m].join_state, st, mem[m].user, mem[m].told)
    BY <1>7 DEF HandlerEffect
  <2>3. CASE mem' = mem /\ \E pc : CtxStep(c, pc, g, Null)
    <3>1. ctx[c].pc \notin Told
      BY <2>1 DEF Told
    <3> QED
      BY <1>7, <2>3, <3>1, MemberNone
  <2>4. CASE /\ grp[g].pending # <<>> /\ m \in Members
             /\ CtxStep(c, "cb", g, m) \/ CtxStep(c, "send", g, m)
             /\ \E st : MemStep(m, mem[m].ref + 1, mem[m].group, mem[m].join_state, st, mem[m].user, mem[m].told)
    <3>1. mem[m].user # "none"
      <4>1. m \in Range(grp[g].pending)
        BY <2>1, <1>7, <2>4, TypedIs, ListIs, TailList DEF IsGroup
      <4> QED
        BY <2>1, <4>1, ListIs DEF PendOK
    <3>2. \A pc \in {"cb", "send"} : pc \notin {"wait", "errwait", "joinerr"}
      OBVIOUS
    <3>3. PICK pc \in {"cb", "send"} : CtxStep(c, pc, g, m)
      BY <2>4
    <3> QED
      BY <1>7, <2>1, <2>4, <3>1, <3>2, <3>3, MemberUp
  <2> QED
    BY <2>2, <2>3, <2>4
<1>8. ASSUME NEW c \in Ctxs, NEW g, g = ctx[c].g, WorkReleaseEffect(c, g)
      PROVE  MemberInv'
  <2>1. c \in Ctxs /\ ctx[c].pc \in {"release"} /\ mem' = mem
    BY <1>8 DEF Ctxs, WorkReleaseEffect
  <2>2. \E pc, f, n : CtxStep(c, pc, f, n) /\ (n = Null \/ pc = "joinerr")
    BY <1>8 DEF WorkReleaseEffect
  <2>3. ctx[c].pc \notin Told
    BY <2>1 DEF Told
  <2> QED
    BY <2>1, <2>2, <2>3, MemberNone
<1>9. ASSUME NEW c \in Ctxs, NEW g, g = ctx[c].g, NEW m, m = ctx[c].m, SendJoinEffect(c, g, m)
      PROVE  MemberInv'
  <2>1. m \in Members /\ ctx[c].pc = "send"
    BY <1>9 DEF SendJoinEffect
  <2>2. mem[m].user # "none" /\ ctx[c].pc \notin {"wait", "errwait", "joinerr"}
    BY <1>9, <2>1 DEF WorkInv, WorkAt, Told
  <2>3. \/ /\ CtxStep(c, "idle", Null, Null)
           /\ MemStep(m, mem[m].ref - 1, mem[m].group, mem[m].join_state, mem[m].state,
                      mem[m].user, mem[m].told)
        \/ CtxStep(c, "cb", g, m) /\ mem' = mem
    BY <1>9 DEF SendJoinEffect
  <2>4. CASE /\ CtxStep(c, "idle", Null, Null)
             /\ MemStep(m, mem[m].ref - 1, mem[m].group, mem[m].join_state, mem[m].state,
                        mem[m].user, mem[m].told)
    BY <1>9, <2>1, <2>2, <2>4, MemberDone
  <2>5. CASE CtxStep(c, "cb", g, m) /\ mem' = mem
    <3>1. \A x \in Members : Users(x)' = Users(x)
      <4>1. (\A d \in Ctxs : d # c => ctx'[d] = ctx[d]) /\ ctx'[c].m = m /\ ctx'[c].pc = "cb"
        BY <2>5 DEF CtxStep
      <4>2. \A x \in Members : Uses(c, x)' <=> Uses(c, x)
        BY <1>9, <2>1, <4>1 DEF Uses
      <4> QED
        BY <1>9, <4>1, <4>2, UsersKeep
    <3> QED
      BY <2>5, <3>1, MemberSame
  <2> QED
    BY <2>3, <2>4, <2>5
<1>10. ASSUME NEW c \in Ctxs, NEW g, g = ctx[c].g, NEW m, m = ctx[c].m,
             NEW told, told = IF ctx[c].pc = "errcb" THEN "reset"
                              ELSE IF mem[m].state = "MEMBER" THEN "joined" ELSE "failed",
             CallbackEffect(c, g, m, told)
      PROVE  MemberInv'
  <2>1. m \in Members /\ ctx[c].pc \in {"cb", "errcb"}
    BY <1>10 DEF CallbackEffect
  <2>2. mem[m].user # "none" /\ ctx[c].pc \notin {"wait", "errwait", "joinerr"}
    BY <1>10, <2>1 DEF WorkInv, WorkAt, Told
  <2>3. \/ /\ \E pc : CtxStep(c, pc, g, Null)
           /\ MemStep(m, mem[m].ref - 1, mem[m].group, mem[m].join_state, mem[m].state, mem[m].user, told)
        \/ /\ CtxStep(c, IF ctx[c].pc = "errcb" THEN "errwait" ELSE "wait", g, m) /\ mem[m].user = "held"
           /\ MemStep(m, mem[m].ref - 1, mem[m].group, mem[m].join_state, mem[m].state, "free", told)
    BY <1>10 DEF CallbackEffect
  <2>4. CASE /\ \E pc : CtxStep(c, pc, g, Null)
             /\ MemStep(m, mem[m].ref - 1, mem[m].group, mem[m].join_state, mem[m].state, mem[m].user, told)
    BY <1>10, <2>1, <2>2, <2>4, MemberDone
  <2>5. CASE /\ CtxStep(c, IF ctx[c].pc = "errcb" THEN "errwait" ELSE "wait", g, m) /\ mem[m].user = "held"
             /\ MemStep(m, mem[m].ref - 1, mem[m].group, mem[m].join_state, mem[m].state, "free", told)
    <3>1. PICK pc : pc \in {"wait", "errwait"} /\ CtxStep(c, pc, g, m)
      BY <2>5
    <3>2. "free" # "wait" /\ "free" # "none" /\ mem[m].user # "wait"
      BY <2>5
    <3> QED
      BY <1>10, <2>1, <2>2, <2>5, <3>1, <3>2, MemberDown
  <2> QED
    BY <2>3, <2>4, <2>5
<1>11. ASSUME NEW c \in Ctxs, NEW g, g = ctx[c].g, SendLeaveEffect(c, g)
      PROVE  MemberInv'
  <2>1. c \in Ctxs /\ ctx[c].pc \in {"leave", "releave"} /\ mem' = mem
    BY <1>11 DEF Ctxs, SendLeaveEffect
  <2>2. \E pc, f, n : CtxStep(c, pc, f, n) /\ (n = Null \/ pc = "joinerr")
    BY <1>11 DEF SendLeaveEffect
  <2>3. ctx[c].pc \notin Told
    BY <2>1 DEF Told
  <2> QED
    BY <2>1, <2>2, <2>3, MemberNone
<1>12. ASSUME NEW c \in Ctxs, NEW g, g = ctx[c].g, ErrorEffect(c, g)
      PROVE  MemberInv'
  <2>1. c \in Ctxs /\ ctx[c].pc \in {"err"} /\ mem' = mem
    BY <1>12 DEF Ctxs, ErrorEffect
  <2>2. \E pc, f, n : CtxStep(c, pc, f, n) /\ (n = Null \/ pc = "joinerr")
    BY <1>12 DEF ErrorEffect
  <2>3. ctx[c].pc \notin Told
    BY <2>1 DEF Told
  <2> QED
    BY <2>1, <2>2, <2>3, MemberNone
<1>13. ASSUME NEW c \in Ctxs, NEW g, g = ctx[c].g, ErrorLockEffect(c, g)
      PROVE  MemberInv'
  <2>1. c \in Ctxs /\ ctx[c].pc \in {"errlock"} /\ mem' = mem
    BY <1>13 DEF Ctxs, ErrorLockEffect
  <2>2. \E pc, f, n : CtxStep(c, pc, f, n) /\ (n = Null \/ pc = "joinerr")
    BY <1>13 DEF ErrorLockEffect
  <2>3. ctx[c].pc \notin Told
    BY <2>1 DEF Told
  <2> QED
    BY <2>1, <2>2, <2>3, MemberNone
<1>14. ASSUME NEW c \in Ctxs, NEW g, g = ctx[c].g, ErrorNextEffect(c, g)
      PROVE  MemberInv'
  <2>1. g \in Groups /\ ctx[c].pc = "errnext" /\ ctx[c].pc \notin Told /\ ctx[c].m = Null
    <3>1. g \in Groups /\ ctx[c].pc = "errnext"
      BY <1>14 DEF ErrorNextEffect
    <3> QED
      BY <1>14, <3>1 DEF Shape, Told
  <2>2. CASE mem' = mem /\ CtxStep(c, "test", g, Null)
    BY <1>14, <2>1, <2>2, MemberNone
  <2>3. ASSUME NEW m \in Members, m \in grp[g].active, CtxStep(c, "errcb", g, m),
               MemStep(m, mem[m].ref + 1, mem[m].group, mem[m].join_state, "ERROR", mem[m].user, mem[m].told)
        PROVE  MemberInv'
    <3>1. mem[m].user # "none"
      BY <2>1, <2>3, ListIs DEF ActOK
    <3>2. "errcb" \notin {"wait", "errwait", "joinerr"}
      OBVIOUS
    <3> QED
      BY <1>14, <2>1, <2>3, <3>1, <3>2, MemberUp
  <2> QED
    BY <1>14, <2>2, <2>3 DEF ErrorNextEffect
<1>15. ASSUME NEW c \in Ctxs, NEW g, g = ctx[c].g, NEW m, m = ctx[c].m, JoinErrorEffect(c, g, m)
      PROVE  MemberInv'
  <2>1. g \in Groups /\ m \in Members /\ ctx[c].pc = "joinerr"
    BY <1>15 DEF JoinErrorEffect
  <2>2. CASE mem' = mem /\ CtxStep(c, "test", g, Null)
    <3>1. ctx[c].pc \notin Told
      BY <2>1 DEF Told
    <3> QED
      BY <1>15, <2>2, <3>1, MemberNone
  <2>3. CASE /\ grp[g].pending # <<>> /\ m = Head(grp[g].pending) /\ CtxStep(c, "cb", g, m)
             /\ MemStep(m, mem[m].ref + 1, mem[m].group, mem[m].join_state, mem[m].state,
                        mem[m].user, mem[m].told)
    <3>1. mem[m].user # "none"
      <4>1. m \in Range(grp[g].pending)
        BY <2>1, <2>3, TypedIs, ListIs, TailList DEF IsGroup
      <4> QED
        BY <2>1, <4>1, ListIs DEF PendOK
    <3>2. "cb" \notin {"wait", "errwait", "joinerr"}
      OBVIOUS
    <3> QED
      BY <1>15, <2>1, <2>3, <3>1, <3>2, MemberUp
  <2> QED
    BY <1>15, <2>2, <2>3 DEF JoinErrorEffect
<1>16. ASSUME NEW c \in Ctxs, NEW g, g = ctx[c].g, JoinRecordEffect(c, g)
      PROVE  MemberInv'
  <2>1. c \in Ctxs /\ ctx[c].pc \in {"joined"} /\ mem' = mem
    BY <1>16 DEF Ctxs, JoinRecordEffect
  <2>2. \E pc, f, n : CtxStep(c, pc, f, n) /\ (n = Null \/ pc = "joinerr")
    BY <1>16 DEF JoinRecordEffect
  <2>3. ctx[c].pc \notin Told
    BY <2>1 DEF Told
  <2> QED
    BY <2>1, <2>2, <2>3, MemberNone
<1>17. ASSUME NEW c \in Ctxs, NEW g, g = ctx[c].g, LeaveRetryEffect(c, g)
      PROVE  MemberInv'
  <2>1. c \in Ctxs /\ ctx[c].pc \in {"retry"} /\ mem' = mem
    BY <1>17 DEF Ctxs, LeaveRetryEffect
  <2>2. \E pc, f, n : CtxStep(c, pc, f, n) /\ (n = Null \/ pc = "joinerr")
    BY <1>17 DEF LeaveRetryEffect
  <2>3. ctx[c].pc \notin Told
    BY <2>1 DEF Told
  <2> QED
    BY <2>1, <2>2, <2>3, MemberNone
<1>18. ASSUME NEW g \in Groups, SaEffect(g)
      PROVE  MemberInv'
  <2>1. UNCHANGED <<mem, ctx>>
    BY <1>18 DEF SaEffect
  <2>2. \A n \in Members : Users(n)' = Users(n)
    BY <2>1 DEF Users
  <2> QED
    BY <2>1, <2>2, MemberSame
<1>19. ASSUME NEW c \in {"recv", "timeout"}, NEW g \in Groups, JoinHandlerEffect(c, g)
      PROVE  MemberInv'
  <2>1. c \in Ctxs /\ ctx[c].pc \in {"idle"} /\ mem' = mem
    BY <1>19 DEF Ctxs, JoinHandlerEffect
  <2>2. \E pc, f, n : CtxStep(c, pc, f, n) /\ (n = Null \/ pc = "joinerr")
    BY <1>19 DEF JoinHandlerEffect
  <2>3. ctx[c].pc \notin Told
    BY <2>1 DEF Told
  <2> QED
    BY <2>1, <2>2, <2>3, MemberNone
<1>20. ASSUME NEW c \in {"recv", "timeout"}, NEW g \in Groups, LeaveHandlerEffect(c, g)
      PROVE  MemberInv'
  <2>1. c \in Ctxs /\ ctx[c].pc \in {"idle"} /\ mem' = mem
    BY <1>20 DEF Ctxs, LeaveHandlerEffect
  <2>2. \E pc, f, n : CtxStep(c, pc, f, n) /\ (n = Null \/ pc = "joinerr")
    BY <1>20 DEF LeaveHandlerEffect
  <2>3. ctx[c].pc \notin Told
    BY <2>1 DEF Told
  <2> QED
    BY <2>1, <2>2, <2>3, MemberNone
<1>21. ASSUME EventEffect
      PROVE  MemberInv'
  <2>1. UNCHANGED <<mem, ctx>>
    BY <1>21 DEF EventEffect
  <2>2. \A n \in Members : Users(n)' = Users(n)
    BY <2>1 DEF Users
  <2> QED
    BY <2>1, <2>2, MemberSame
<1>22. ASSUME GroupsEventEffect
      PROVE  MemberInv'
  <2>1. UNCHANGED <<mem, ctx>>
    BY <1>22 DEF GroupsEventEffect
  <2>2. \A n \in Members : Users(n)' = Users(n)
    BY <2>1 DEF Users
  <2> QED
    BY <2>1, <2>2, MemberSame
<1>23. ASSUME RemoveEffect
      PROVE  MemberInv'
  <2>1. UNCHANGED <<mem, ctx>>
    BY <1>23 DEF RemoveEffect
  <2>2. \A n \in Members : Users(n)' = Users(n)
    BY <2>1 DEF Users
  <2> QED
    BY <2>1, <2>2, MemberSame
<1>24. ASSUME UNCHANGED vars PROVE MemberInv'
  <2>1. UNCHANGED <<mem, ctx>>
    BY <1>24 DEF vars
  <2>2. \A n \in Members : Users(n)' = Users(n)
    BY <2>1 DEF Users
  <2> QED
    BY <2>1, <2>2, MemberSame
<1> QED
  BY <1>1, <1>2, <1>3, <1>4, <1>5, <1>6, <1>7, <1>8, <1>9, <1>10, <1>11, <1>12, <1>13, <1>14,
     <1>15, <1>16, <1>17, <1>18, <1>19, <1>20, <1>21, <1>22, <1>23, <1>24
     DEF Effects

----------------------------------------------------------------------------
(* What the contexts know of the members they work for. *)

ToldAt(g) == \A m \in grp[g].active : mem[m].told = "joined" \/ \E c \in Ctxs : ctx[c].pc = "cb" /\ ctx[c].m = m

(* What WorkInv says of each context and each group. *)
LEMMA WorkIs ==
    ASSUME WorkInv
    PROVE  (\A c \in Ctxs : WorkAt(c)) /\ \A g \in Groups : ToldAt(g)
BY DEF WorkInv, ToldAt

(* What WorkInv needs. *)
LEMMA WorkTo ==
    ASSUME \A c \in Ctxs : WorkAt(c)', \A g \in Groups : ToldAt(g)'
    PROVE  WorkInv'
BY DEF WorkInv, ToldAt

(* What a context knows of the member it works for. *)
LEMMA WorksFor ==
    ASSUME Typed, Shape, WorkInv, NEW c \in Ctxs, ctx[c].pc \in Told
    PROVE  /\ ctx[c].m \in Members /\ ctx[c].g \in Groups
           /\ mem[ctx[c].m].group = ctx[c].g /\ mem[ctx[c].m].user \notin {"none", "acquired"}
           /\ ctx[c].pc = "send" => mem[ctx[c].m].state = "JOINING" /\ mem[ctx[c].m].told = "nothing"
           /\ ctx[c].pc = "cb" =>
                mem[ctx[c].m].told = "nothing" /\ ctx[c].m \notin Range(grp[ctx[c].g].pending)
           /\ ctx[c].pc = "errcb" => mem[ctx[c].m].told = "joined" /\ mem[ctx[c].m].state = "ERROR"
<1>1. ctx[c].pc # "idle"
  BY DEF Told
<1>2. ctx[c].m \in Members /\ ctx[c].g \in Groups
  BY <1>1, BusyCtx
<1>3. WorkAt(c)
  BY WorkIs
<1> QED
  BY <1>2, <1>3 DEF WorkAt

(* A context that does not move keeps what it knows while its member stays the same. *)
LEMMA WorkFrame ==
    ASSUME Typed, Shape, WorkInv, NEW d \in Ctxs, ctx'[d] = ctx[d], NEW n, n = ctx[d].m,
           ctx[d].pc \in Told =>
             /\ mem'[n].group = mem[n].group /\ mem'[n].state = mem[n].state /\ mem'[n].told = mem[n].told
             /\ mem'[n].user \notin {"none", "acquired"}
             /\ n \in Range(grp'[ctx[d].g].pending) => n \in Range(grp[ctx[d].g].pending)
    PROVE  WorkAt(d)'
<1>1. CASE ctx[d].pc \notin Told
  BY <1>1 DEF WorkAt
<1>2. CASE ctx[d].pc \in Told
  <2>1. WorkAt(d)
    BY WorkIs
  <2> QED
    BY <1>2, <2>1 DEF WorkAt
<1> QED
  BY <1>1, <1>2

(* A context that works for no member has nothing to know. *)
LEMMA WorkIdle ==
    ASSUME NEW d \in Ctxs, ctx'[d].pc \notin Told
    PROVE  WorkAt(d)'
BY DEF WorkAt

(* No member becomes active and none of the active ones is told anything. *)
LEMMA ToldKeep ==
    ASSUME WorkInv, NEW g \in Groups,
           \A m : m \in grp'[g].active => m \in grp[g].active /\ mem'[m].told = mem[m].told,
           \A d \in Ctxs : ctx[d].pc = "cb" => ctx'[d] = ctx[d]
    PROVE  ToldAt(g)'
<1>1. ToldAt(g)
  BY WorkIs
<1> QED
  BY <1>1 DEF ToldAt

(* No other context works for a member of the group of c. *)
LEMMA Alone ==
    ASSUME Typed, Shape, GroupInv, WorkInv, NEW c \in Ctxs, NEW g \in Groups, ctx[c].g = g,
           ctx[c].pc \notin {"release", "retry"}, NEW d \in Ctxs, d # c, ctx[d].pc \in Told
    PROVE  ctx[d].g # g /\ mem[ctx[d].m].group # g
<1>1. ctx[d].pc \notin {"release", "retry"}
  BY DEF Told
<1>2. Runs(g) = {c}
  BY RunsBusy
<1>3. ctx[d].g = g => Runs(g) = {d}
  BY <1>1, RunsBusy
<1>4. ctx[d].g # g
  BY <1>2, <1>3
<1> QED
  BY <1>4, WorksFor

(* Context c changes its group and members of it. *)
LEMMA WorkCtx ==
    ASSUME Typed, Shape, GroupInv, WorkInv, NEW c \in Ctxs, NEW g \in Groups, ctx[c].g = g,
           ctx[c].pc \notin {"release", "retry"},
           \A d \in Ctxs : d # c => ctx'[d] = ctx[d],
           \A f \in Groups : f # g => grp'[f] = grp[f],
           \A n \in Members : mem[n].group # g => mem'[n] = mem[n],
           WorkAt(c)', \A f \in Groups : ToldAt(f)'
    PROVE  WorkInv'
<1>1. \A d \in Ctxs : d # c => WorkAt(d)'
  <2> SUFFICES ASSUME NEW d \in Ctxs, d # c PROVE WorkAt(d)'
    OBVIOUS
  <2>1. CASE ctx[d].pc \notin Told
    BY <2>1, WorkIdle
  <2>2. CASE ctx[d].pc \in Told
    <3>1. PICK n : n = ctx[d].m
      OBVIOUS
    <3>2. ctx[d].g # g /\ mem[n].group # g
      BY <2>2, <3>1, Alone
    <3>3. n \in Members /\ ctx[d].g \in Groups /\ mem[n].user \notin {"none", "acquired"}
      BY <2>2, <3>1, WorksFor
    <3>4. mem'[n] = mem[n] /\ grp'[ctx[d].g] = grp[ctx[d].g]
      BY <3>2, <3>3
    <3> QED
      BY <3>1, <3>3, <3>4, WorkFrame
  <2> QED
    BY <2>1, <2>2
<1> QED
  BY <1>1, WorkTo

(* The lists get no new members, and the members stay what they are. *)
LEMMA WorkPlain ==
    ASSUME Typed, Shape, WorkInv, Typed', NEW D,
           \A d \in Ctxs : d \notin D => ctx'[d] = ctx[d],
           \A d \in Ctxs : d \in D => ctx[d].pc # "cb" /\ ctx'[d].pc \notin Told,
           \A n \in Members : SameMem(n),
           \A f \in Groups : /\ Range(grp'[f].pending) \subseteq Range(grp[f].pending)
                             /\ grp'[f].active \subseteq grp[f].active
    PROVE  WorkInv'
<1>1. \A d \in Ctxs : WorkAt(d)'
  <2> SUFFICES ASSUME NEW d \in Ctxs PROVE WorkAt(d)'
    OBVIOUS
  <2>1. CASE d \in D
    BY <2>1, WorkIdle
  <2>2. CASE d \notin D /\ ctx[d].pc \notin Told
    BY <2>2, WorkIdle
  <2>3. CASE d \notin D /\ ctx[d].pc \in Told
    <3>1. PICK n : n = ctx[d].m
      OBVIOUS
    <3>2. n \in Members /\ ctx[d].g \in Groups /\ mem[n].user \notin {"none", "acquired"}
      BY <2>3, <3>1, WorksFor
    <3>3. /\ mem'[n].group = mem[n].group /\ mem'[n].state = mem[n].state /\ mem'[n].told = mem[n].told
          /\ mem'[n].user \notin {"none", "acquired"}
      BY <3>2 DEF SameMem
    <3> QED
      BY <2>3, <3>1, <3>2, <3>3, WorkFrame
  <2> QED
    BY <2>1, <2>2, <2>3
<1>2. \A f \in Groups : ToldAt(f)'
  <2> SUFFICES ASSUME NEW f \in Groups PROVE ToldAt(f)'
    OBVIOUS
  <2>1. \A n : n \in grp'[f].active => n \in Members
    BY OnListNext
  <2>2. \A n : n \in grp'[f].active => n \in grp[f].active /\ mem'[n].told = mem[n].told
    BY <2>1 DEF SameMem
  <2> QED
    BY <2>2, ToldKeep
<1> QED
  BY <1>1, <1>2, WorkTo

(* Every step keeps what the contexts know of their members. *)
LEMMA WorkNext ==
    ASSUME FiniteSetFacts, Typed, Shape, Typed', GroupInv, ListInv, MemberInv, WorkInv, Effects
    PROVE  WorkInv'
<1>1. ASSUME NEW m \in Members, NEW js, JoinEffect(m, js)
      PROVE  WorkInv'
  <2>1. PICK g \in Groups :
           /\ MemStep(m, 1, g, js, "JOINING", "acquired", "nothing")
           /\ \/ GrpStep(g, grp[g].ref + 1, grp[g].state, grp[g].pending, grp[g].active,
                         grp[g].members, grp[g].retries)
              \/ GrpStep(g, 1, "IDLE", <<>>, {}, [i \in Types |-> 0], Retries)
    BY <1>1 DEF JoinEffect
  <2>2. ctx' = ctx /\ mem[m].user = "none"
    BY <1>1 DEF JoinEffect
  <2>3. \A n \in Members : n # m => mem'[n] = mem[n]
    BY <2>1 DEF MemStep
  <2>4. \A f \in Groups : /\ Range(grp'[f].pending) \subseteq Range(grp[f].pending)
                          /\ grp'[f].active \subseteq grp[f].active
    BY <2>1, EmptyList DEF GrpStep
  <2>5. \A d \in Ctxs : WorkAt(d)'
    <3> SUFFICES ASSUME NEW d \in Ctxs PROVE WorkAt(d)'
      OBVIOUS
    <3>1. CASE ctx[d].pc \notin Told
      BY <2>2, <3>1, WorkIdle
    <3>2. CASE ctx[d].pc \in Told
      <4>1. PICK n : n = ctx[d].m
        OBVIOUS
      <4>2. n \in Members /\ ctx[d].g \in Groups /\ mem[n].user \notin {"none", "acquired"}
        BY <3>2, <4>1, WorksFor
      <4>3. mem'[n] = mem[n]
        BY <2>2, <2>3, <4>2
      <4> QED
        BY <2>2, <2>4, <4>1, <4>2, <4>3, WorkFrame
    <3> QED
      BY <3>1, <3>2
  <2>6. \A f \in Groups : ToldAt(f)'
    <3> SUFFICES ASSUME NEW f \in Groups PROVE ToldAt(f)'
      OBVIOUS
    <3>1. m \notin grp[f].active
      BY <1>1, <2>2, Elsewhere
    <3>2. \A n : n \in grp'[f].active => n \in grp[f].active /\ n # m /\ n \in Members
      BY <2>4, <3>1, OnListNext
    <3>3. \A n : n \in grp'[f].active => n \in grp[f].active /\ mem'[n].told = mem[n].told
      BY <2>3, <3>2
    <3> QED
      BY <2>2, <3>3, ToldKeep
  <2> QED
    BY <2>5, <2>6, WorkTo
<1>2. ASSUME NEW m \in Members, NEW g, g = mem[m].group,
             NEW ms, ms = IF mem[m].state = "MEMBER"
                          THEN Adjusted(grp[g].members, mem[m].join_state, -1) ELSE grp[g].members,
             FreeEffect(m, g, ms)
      PROVE  WorkInv'
  <2>1. g \in Groups /\ ctx' = ctx
    BY <1>2 DEF FreeEffect
  <2>2. /\ \E st : GrpStep(g, grp[g].ref, st, Without(grp[g].pending, m), grp[g].active \ {m},
                           ms, grp[g].retries)
        /\ \/ MemStep(m, mem[m].ref - 1, g, mem[m].join_state, mem[m].state, "wait", mem[m].told)
           \/ MemStep(m, mem[m].ref, g, mem[m].join_state, mem[m].state, "release", mem[m].told)
    BY <1>2 DEF FreeEffect
  <2>3. \A n \in Members : /\ mem'[n].group = mem[n].group /\ mem'[n].state = mem[n].state
                           /\ mem'[n].told = mem[n].told
                           /\ mem'[n].user = mem[n].user \/ mem'[n].user \in {"wait", "release"}
    BY <1>2, <2>2 DEF MemStep
  <2>4. \A f \in Groups : /\ Range(grp'[f].pending) \subseteq Range(grp[f].pending)
                          /\ grp'[f].active \subseteq grp[f].active
    <3>1. /\ \A f \in Groups : f # g => grp'[f] = grp[f]
          /\ grp'[g].pending = Without(grp[g].pending, m) /\ grp'[g].active = grp[g].active \ {m}
      BY <2>2 DEF GrpStep
    <3>2. Range(grp'[g].pending) = Range(grp[g].pending) \ {m}
      BY <2>1, <3>1, ListDels
    <3> QED
      BY <3>1, <3>2
  <2>5. \A d \in Ctxs : WorkAt(d)'
    <3> SUFFICES ASSUME NEW d \in Ctxs PROVE WorkAt(d)'
      OBVIOUS
    <3>1. CASE ctx[d].pc \notin Told
      BY <2>1, <3>1, WorkIdle
    <3>2. CASE ctx[d].pc \in Told
      <4>1. PICK n : n = ctx[d].m
        OBVIOUS
      <4>2. n \in Members /\ ctx[d].g \in Groups /\ mem[n].user \notin {"none", "acquired"}
        BY <3>2, <4>1, WorksFor
      <4>3. /\ mem'[n].group = mem[n].group /\ mem'[n].state = mem[n].state /\ mem'[n].told = mem[n].told
            /\ mem'[n].user \notin {"none", "acquired"}
        BY <2>3, <4>2
      <4>4. n \in Range(grp'[ctx[d].g].pending) => n \in Range(grp[ctx[d].g].pending)
        BY <2>4, <4>2
      <4> QED
        BY <2>1, <4>1, <4>3, <4>4, WorkFrame
    <3> QED
      BY <3>1, <3>2
  <2>6. \A f \in Groups : ToldAt(f)'
    <3> SUFFICES ASSUME NEW f \in Groups PROVE ToldAt(f)'
      OBVIOUS
    <3>1. \A n : n \in grp'[f].active => n \in grp[f].active /\ mem'[n].told = mem[n].told
      BY <2>3, <2>4, OnListNext
    <3> QED
      BY <2>1, <3>1, ToldKeep
  <2> QED
    BY <2>5, <2>6, WorkTo
<1>3. ASSUME NEW m \in Members, NEW g, g = mem[m].group, QueueJoinEffect(m, g)
      PROVE  WorkInv'
  <2>1. g \in Groups /\ ctx' = ctx /\ mem[m].user = "acquired"
    BY <1>3 DEF QueueJoinEffect
  <2>2. /\ MemStep(m, mem[m].ref, g, mem[m].join_state, mem[m].state, "held", mem[m].told)
        /\ \E ref, st : GrpStep(g, ref, st, Append(grp[g].pending, m), grp[g].active,
                                grp[g].members, grp[g].retries)
    BY <1>3 DEF QueueJoinEffect
  <2>3. \A n \in Members : mem'[n].told = mem[n].told /\ (n # m => mem'[n] = mem[n])
    BY <2>2 DEF MemStep
  <2>4. \A f \in Groups : /\ Range(grp'[f].pending) \subseteq Range(grp[f].pending) \cup {m}
                          /\ grp'[f].active = grp[f].active
    <3>1. grp[g].pending \in Seq(Members)
      BY <2>1, TypedIs DEF IsGroup
    <3>2. Range(Append(grp[g].pending, m)) = Range(grp[g].pending) \cup {m}
      BY <1>3, <3>1, AppendList, SMT
    <3> QED
      BY <2>2, <3>2 DEF GrpStep
  <2>5. \A d \in Ctxs : WorkAt(d)'
    <3> SUFFICES ASSUME NEW d \in Ctxs PROVE WorkAt(d)'
      OBVIOUS
    <3>1. CASE ctx[d].pc \notin Told
      BY <2>1, <3>1, WorkIdle
    <3>2. CASE ctx[d].pc \in Told
      <4>1. PICK n : n = ctx[d].m
        OBVIOUS
      <4>2. n \in Members /\ ctx[d].g \in Groups /\ mem[n].user \notin {"none", "acquired"}
        BY <3>2, <4>1, WorksFor
      <4>3. n # m /\ mem'[n] = mem[n]
        BY <2>1, <2>3, <4>2
      <4>4. n \in Range(grp'[ctx[d].g].pending) => n \in Range(grp[ctx[d].g].pending)
        BY <2>4, <4>2, <4>3
      <4> QED
        BY <2>1, <4>1, <4>2, <4>3, <4>4, WorkFrame
    <3> QED
      BY <3>1, <3>2
  <2>6. \A f \in Groups : ToldAt(f)'
    <3> SUFFICES ASSUME NEW f \in Groups PROVE ToldAt(f)'
      OBVIOUS
    <3>1. \A n : n \in grp'[f].active => n \in grp[f].active /\ mem'[n].told = mem[n].told
      BY <2>3, <2>4, OnListNext
    <3> QED
      BY <2>1, <3>1, ToldKeep
  <2> QED
    BY <2>5, <2>6, WorkTo
<1>4. ASSUME NEW m \in Members, NEW g, g = mem[m].group, FreeReleaseEffect(m, g)
      PROVE  WorkInv'
  <2>1. g \in Groups /\ ctx' = ctx
    BY <1>4 DEF FreeReleaseEffect
  <2>2. /\ mem[m].user = "release" /\ Released(g)
        /\ MemStep(m, mem[m].ref - 1, g, mem[m].join_state, mem[m].state, "wait", mem[m].told)
    BY <1>4 DEF FreeReleaseEffect
  <2>3. \A n \in Members : /\ mem'[n].group = mem[n].group /\ mem'[n].state = mem[n].state
                           /\ mem'[n].told = mem[n].told
                           /\ mem'[n].user = mem[n].user \/ mem'[n].user \in {"wait", "release"}
    BY <1>4, <2>2 DEF MemStep
  <2>4. \A f \in Groups : /\ Range(grp'[f].pending) \subseteq Range(grp[f].pending)
                          /\ grp'[f].active \subseteq grp[f].active
    <3>1. m \in Holders(g)
      BY <1>4, <2>2 DEF Holders
    <3> QED
      BY <2>1, <2>2, <3>1, ReleaseLists
  <2>5. \A d \in Ctxs : WorkAt(d)'
    <3> SUFFICES ASSUME NEW d \in Ctxs PROVE WorkAt(d)'
      OBVIOUS
    <3>1. CASE ctx[d].pc \notin Told
      BY <2>1, <3>1, WorkIdle
    <3>2. CASE ctx[d].pc \in Told
      <4>1. PICK n : n = ctx[d].m
        OBVIOUS
      <4>2. n \in Members /\ ctx[d].g \in Groups /\ mem[n].user \notin {"none", "acquired"}
        BY <3>2, <4>1, WorksFor
      <4>3. /\ mem'[n].group = mem[n].group /\ mem'[n].state = mem[n].state /\ mem'[n].told = mem[n].told
            /\ mem'[n].user \notin {"none", "acquired"}
        BY <2>3, <4>2
      <4>4. n \in Range(grp'[ctx[d].g].pending) => n \in Range(grp[ctx[d].g].pending)
        BY <2>4, <4>2
      <4> QED
        BY <2>1, <4>1, <4>3, <4>4, WorkFrame
    <3> QED
      BY <3>1, <3>2
  <2>6. \A f \in Groups : ToldAt(f)'
    <3> SUFFICES ASSUME NEW f \in Groups PROVE ToldAt(f)'
      OBVIOUS
    <3>1. \A n : n \in grp'[f].active => n \in grp[f].active /\ mem'[n].told = mem[n].told
      BY <2>3, <2>4, OnListNext
    <3> QED
      BY <2>1, <3>1, ToldKeep
  <2> QED
    BY <2>5, <2>6, WorkTo
<1>5. ASSUME NEW m \in Members, KfreeEffect(m)
      PROVE  WorkInv'
  <2>1. /\ mem[m].user = "wait" /\ mem[m].ref = 0 /\ grp' = grp
        /\ MemStep(m, 0, Null, {}, "JOINING", "none", "nothing")
    BY <1>5 DEF KfreeEffect
  <2>2. \A d \in Ctxs : \/ ctx[d].pc \in {"wait", "errwait"} /\ ctx'[d].pc \in {"test", "errnext"}
                        \/ ctx'[d] = ctx[d] /\ ~(ctx[d].m = m /\ ctx[d].pc \in {"wait", "errwait"})
    BY <1>5 DEF KfreeEffect
  <2>3. \A n \in Members : n # m => mem'[n] = mem[n]
    BY <2>1 DEF MemStep
  <2>4. Users(m) = {}
    <3>1. Cardinality(Users(m)) = 0 /\ IsFiniteSet(Users(m))
      BY <1>5, <2>1, CountIs
    <3> QED
      BY <3>1, CardStep
  <2>5. \A d \in Ctxs : WorkAt(d)'
    <3> SUFFICES ASSUME NEW d \in Ctxs PROVE WorkAt(d)'
      OBVIOUS
    <3>1. CASE ctx[d].pc \in {"wait", "errwait"} /\ ctx'[d].pc \in {"test", "errnext"}
      <4>1. ctx'[d].pc \notin Told
        BY <3>1 DEF Told
      <4> QED
        BY <4>1, WorkIdle
    <3>2. CASE ctx'[d] = ctx[d] /\ ctx[d].pc \notin Told
      BY <3>2, WorkIdle
    <3>3. CASE /\ ctx'[d] = ctx[d] /\ ~(ctx[d].m = m /\ ctx[d].pc \in {"wait", "errwait"})
               /\ ctx[d].pc \in Told
      <4>1. PICK n : n = ctx[d].m
        OBVIOUS
      <4>2. n \in Members /\ mem[n].user \notin {"none", "acquired"}
        BY <3>3, <4>1, WorksFor
      <4>3. n # m
        <5>1. ctx[d].pc # "joinerr"
          BY <3>3 DEF Told
        <5> QED
          BY <2>4, <3>3, <4>1, <5>1 DEF Users
      <4> QED
        BY <2>1, <2>3, <3>3, <4>1, <4>2, <4>3, WorkFrame
    <3> QED
      BY <2>2, <3>1, <3>2, <3>3
  <2>6. \A f \in Groups : ToldAt(f)'
    <3> SUFFICES ASSUME NEW f \in Groups PROVE ToldAt(f)'
      OBVIOUS
    <3>1. m \notin grp[f].active
      <4>1. mem[m].user \notin {"held", "free"}
        BY <2>1
      <4> QED
        BY <1>5, <4>1, Elsewhere
    <3>2. \A n : n \in grp'[f].active => n \in grp[f].active /\ mem'[n].told = mem[n].told
      BY <2>1, <2>3, <3>1, OnList
    <3>3. \A d \in Ctxs : ctx[d].pc = "cb" => ctx'[d] = ctx[d]
      BY <2>2
    <3> QED
      BY <3>2, <3>3, ToldKeep
  <2> QED
    BY <2>5, <2>6, WorkTo
<1>6. ASSUME WorkStartEffect
      PROVE  WorkInv'
  <2>1. ctx["wq"].pc = "idle" /\ CtxStep("wq", "test", Head(wq), Null)
    BY <1>6 DEF WorkStartEffect
  <2>c. \A d \in Ctxs : d \notin {"wq"} => ctx'[d] = ctx[d]
    BY <2>1 DEF CtxStep
  <2>d. \A d \in Ctxs : d \in {"wq"} => ctx[d].pc # "cb" /\ ctx'[d].pc \notin Told
    BY <2>1 DEF CtxStep, Told
  <2>l. \A f \in Groups : /\ Range(grp'[f].pending) \subseteq Range(grp[f].pending)
                          /\ grp'[f].active \subseteq grp[f].active
    BY <1>6 DEF WorkStartEffect
  <2>m. \A n \in Members : SameMem(n)
    BY <1>6 DEF SameMem, WorkStartEffect
  <2> QED
    BY <2>c, <2>d, <2>l, <2>m, WorkPlain
<1>7. ASSUME NEW c \in Ctxs, NEW g, g = ctx[c].g, NEW m, m = Head(grp[g].pending), HandlerEffect(c, g, m)
      PROVE  WorkInv'
  <2>1. g \in Groups /\ ctx[c].pc = "test"
    BY <1>7 DEF HandlerEffect
  <2>2. \/ /\ mem' = mem /\ \E pc \in {"err", "leave", "release"} : CtxStep(c, pc, g, Null)
           /\ grp' = grp \/ \E st : GrpStep(g, grp[g].ref, st, grp[g].pending, grp[g].active,
                                            grp[g].members, grp[g].retries)
        \/ /\ grp[g].pending # <<>> /\ m \in Members /\ CtxStep(c, "cb", g, m)
           /\ \E ms, ac, st :
                /\ (ac = grp[g].active \cup {m} \/ ac = grp[g].active \ {m})
                /\ GrpStep(g, grp[g].ref, "BUSY", Without(grp[g].pending, m), ac, ms, grp[g].retries)
                /\ MemStep(m, mem[m].ref + 1, mem[m].group, mem[m].join_state, st, mem[m].user, mem[m].told)
        \/ /\ grp[g].pending # <<>> /\ m \in Members /\ CtxStep(c, "send", g, m) /\ grp' = grp
           /\ MemStep(m, mem[m].ref + 1, mem[m].group, mem[m].join_state, mem[m].state,
                      mem[m].user, mem[m].told)
    BY <1>7 DEF HandlerEffect
  <2>3. CASE /\ mem' = mem /\ \E pc \in {"err", "leave", "release"} : CtxStep(c, pc, g, Null)
             /\ grp' = grp \/ \E st : GrpStep(g, grp[g].ref, st, grp[g].pending, grp[g].active,
                                              grp[g].members, grp[g].retries)
    <3>1. \A d \in Ctxs : d \notin {c} => ctx'[d] = ctx[d]
      BY <2>3 DEF CtxStep
    <3>2. \A d \in Ctxs : d \in {c} => ctx[d].pc # "cb" /\ ctx'[d].pc \notin Told
      BY <2>1, <2>3 DEF CtxStep, Told
    <3>3. \A f \in Groups : /\ Range(grp'[f].pending) \subseteq Range(grp[f].pending)
                            /\ grp'[f].active \subseteq grp[f].active
      BY <2>3 DEF GrpStep
    <3>4. \A n \in Members : SameMem(n)
      BY <2>3 DEF SameMem
    <3> QED
      BY <3>1, <3>2, <3>3, <3>4, WorkPlain
  <2>4. CASE /\ grp[g].pending # <<>> /\ m \in Members /\ CtxStep(c, "cb", g, m)
             /\ \E ms, ac, st :
                  /\ (ac = grp[g].active \cup {m} \/ ac = grp[g].active \ {m})
                  /\ GrpStep(g, grp[g].ref, "BUSY", Without(grp[g].pending, m), ac, ms, grp[g].retries)
                  /\ MemStep(m, mem[m].ref + 1, mem[m].group, mem[m].join_state, st, mem[m].user, mem[m].told)
    <3>1. PendOK(g, m)
      <4>1. m \in Range(grp[g].pending)
        BY <2>1, <1>7, <2>4, TypedIs, ListIs, TailList DEF IsGroup
      <4> QED
        BY <2>1, <4>1, ListIs
    <3>2. /\ \A d \in Ctxs : d # c => ctx'[d] = ctx[d]
          /\ ctx'[c].pc = "cb" /\ ctx'[c].m = m /\ ctx'[c].g = g
      BY <2>4 DEF CtxStep
    <3>3. /\ \A f \in Groups : f # g => grp'[f] = grp[f]
          /\ grp'[g].pending = Without(grp[g].pending, m)
          /\ (grp'[g].active = grp[g].active \cup {m} \/ grp'[g].active = grp[g].active \ {m})
      BY <2>4 DEF GrpStep
    <3>4. /\ \A n \in Members : n # m => mem'[n] = mem[n]
          /\ mem'[m].group = g /\ mem'[m].user \in {"held", "free"} /\ mem'[m].told = "nothing"
          /\ mem[m].group = g
      BY <2>4, <3>1 DEF MemStep, PendOK
    <3>5. m \notin Range(grp'[g].pending)
      BY <2>1, <3>3, ListDels
    <3>6. WorkAt(c)'
      BY <3>2, <3>4, <3>5 DEF WorkAt
    <3>7. \A f \in Groups : ToldAt(f)'
      <4> SUFFICES ASSUME NEW f \in Groups, NEW n, n \in grp'[f].active
                   PROVE  mem'[n].told = "joined" \/ \E d \in Ctxs : ctx'[d].pc = "cb" /\ ctx'[d].m = n
        BY DEF ToldAt
      <4>1. CASE n = m
        BY <3>2, <4>1
      <4>2. CASE n # m
        <5>1. n \in grp[f].active /\ n \in Members
          BY <3>3, <4>2, OnListNext
        <5>2. mem'[n] = mem[n] /\ ToldAt(f)
          BY <3>4, <4>2, <5>1, WorkIs
        <5>3. mem[n].told = "joined" \/ \E d \in Ctxs : d # c /\ ctx[d].pc = "cb" /\ ctx[d].m = n
          BY <2>1, <5>1, <5>2 DEF ToldAt
        <5> QED
          BY <3>2, <5>2, <5>3
      <4> QED
        BY <4>1, <4>2
    <3>8. ctx[c].pc \notin {"release", "retry"} /\ ctx[c].g = g
      BY <1>7, <2>1
    <3>9. \A n \in Members : mem[n].group # g => mem'[n] = mem[n]
      BY <3>4
    <3> QED
      BY <2>1, <3>2, <3>3, <3>6, <3>7, <3>8, <3>9, WorkCtx
  <2>5. CASE /\ grp[g].pending # <<>> /\ m \in Members /\ CtxStep(c, "send", g, m) /\ grp' = grp
             /\ MemStep(m, mem[m].ref + 1, mem[m].group, mem[m].join_state, mem[m].state,
                        mem[m].user, mem[m].told)
    <3>1. PendOK(g, m)
      <4>1. m \in Range(grp[g].pending)
        BY <2>1, <1>7, <2>5, TypedIs, ListIs, TailList DEF IsGroup
      <4> QED
        BY <2>1, <4>1, ListIs
    <3>2. /\ \A d \in Ctxs : d # c => ctx'[d] = ctx[d]
          /\ ctx'[c].pc = "send" /\ ctx'[c].m = m /\ ctx'[c].g = g
      BY <2>5 DEF CtxStep
    <3>3. /\ \A n \in Members : n # m => mem'[n] = mem[n]
          /\ mem'[m].group = g /\ mem'[m].user \in {"held", "free"}
          /\ mem'[m].told = "nothing" /\ mem'[m].told = mem[m].told
          /\ mem[m].group = g /\ mem'[m].state = "JOINING"
      BY <2>5, <3>1 DEF MemStep, PendOK
    <3>4. WorkAt(c)'
      BY <3>2, <3>3 DEF WorkAt
    <3>5. \A f \in Groups : ToldAt(f)'
      <4> SUFFICES ASSUME NEW f \in Groups PROVE ToldAt(f)'
        OBVIOUS
      <4>1. \A n : n \in grp'[f].active => n \in grp[f].active /\ mem'[n].told = mem[n].told
        BY <2>5, <3>3, OnList
      <4>2. \A d \in Ctxs : ctx[d].pc = "cb" => ctx'[d] = ctx[d]
        BY <2>1, <3>2
      <4> QED
        BY <4>1, <4>2, ToldKeep
    <3>6. ctx[c].pc \notin {"release", "retry"} /\ ctx[c].g = g
      BY <1>7, <2>1
    <3>7. \A n \in Members : mem[n].group # g => mem'[n] = mem[n]
      BY <3>3
    <3> QED
      BY <2>1, <2>5, <3>2, <3>4, <3>5, <3>6, <3>7, WorkCtx
  <2> QED
    BY <2>2, <2>3, <2>4, <2>5
<1>8. ASSUME NEW c \in Ctxs, NEW g, g = ctx[c].g, WorkReleaseEffect(c, g)
      PROVE  WorkInv'
  <2>1. c \in Ctxs /\ ctx[c].pc # "cb" /\ \E pc \in {"idle"} : \E f, n : CtxStep(c, pc, f, n)
    BY <1>8 DEF Ctxs, WorkReleaseEffect
  <2>c. \A d \in Ctxs : d \notin {c} => ctx'[d] = ctx[d]
    BY <2>1 DEF CtxStep
  <2>d. \A d \in Ctxs : d \in {c} => ctx[d].pc # "cb" /\ ctx'[d].pc \notin Told
    BY <2>1 DEF CtxStep, Told
  <2>2. g \in Groups /\ ctx[c].pc = "release" /\ Released(g)
    BY <1>8 DEF WorkReleaseEffect
  <2>3. c \in Leaving(g)
    BY <1>8, <2>2 DEF Leaving
  <2>l. \A f \in Groups : /\ Range(grp'[f].pending) \subseteq Range(grp[f].pending)
                          /\ grp'[f].active \subseteq grp[f].active
    BY <2>2, <2>3, ReleaseLists
  <2>m. \A n \in Members : SameMem(n)
    BY <1>8 DEF SameMem, WorkReleaseEffect
  <2> QED
    BY <2>c, <2>d, <2>l, <2>m, WorkPlain
<1>9. ASSUME NEW c \in Ctxs, NEW g, g = ctx[c].g, NEW m, m = ctx[c].m, SendJoinEffect(c, g, m)
      PROVE  WorkInv'
  <2>1. g \in Groups /\ m \in Members /\ ctx[c].pc = "send"
    BY <1>9 DEF SendJoinEffect
  <2>2. \/ /\ CtxStep(c, "idle", Null, Null) /\ grp' = grp
           /\ MemStep(m, mem[m].ref - 1, mem[m].group, mem[m].join_state, mem[m].state,
                      mem[m].user, mem[m].told)
        \/ /\ CtxStep(c, "cb", g, m) /\ mem' = mem
           /\ GrpStep(g, grp[g].ref, grp[g].state, Without(grp[g].pending, m), grp[g].active \ {m},
                      grp[g].members, grp[g].retries)
    BY <1>9 DEF SendJoinEffect
  <2>3. CASE /\ CtxStep(c, "idle", Null, Null) /\ grp' = grp
             /\ MemStep(m, mem[m].ref - 1, mem[m].group, mem[m].join_state, mem[m].state,
                        mem[m].user, mem[m].told)
    <3>1. \A d \in Ctxs : d \notin {c} => ctx'[d] = ctx[d]
      BY <2>3 DEF CtxStep
    <3>2. \A d \in Ctxs : d \in {c} => ctx[d].pc # "cb" /\ ctx'[d].pc \notin Told
      BY <2>1, <2>3 DEF CtxStep, Told
    <3>3. \A n \in Members : SameMem(n)
      BY <2>3 DEF SameMem, MemStep
    <3> QED
      BY <2>3, <3>1, <3>2, <3>3, WorkPlain
  <2>4. CASE /\ CtxStep(c, "cb", g, m) /\ mem' = mem
             /\ GrpStep(g, grp[g].ref, grp[g].state, Without(grp[g].pending, m), grp[g].active \ {m},
                        grp[g].members, grp[g].retries)
    <3>1. mem[m].group = g /\ mem[m].user \notin {"none", "acquired"} /\ mem[m].told = "nothing"
      BY <1>9, <2>1 DEF WorkInv, WorkAt, Told
    <3>2. /\ \A d \in Ctxs : d # c => ctx'[d] = ctx[d]
          /\ ctx'[c].pc = "cb" /\ ctx'[c].m = m /\ ctx'[c].g = g
      BY <2>4 DEF CtxStep
    <3>3. /\ \A f \in Groups : f # g => grp'[f] = grp[f]
          /\ grp'[g].pending = Without(grp[g].pending, m) /\ grp'[g].active = grp[g].active \ {m}
      BY <2>4 DEF GrpStep
    <3>4. m \notin Range(grp'[g].pending)
      BY <2>1, <3>3, ListDels
    <3>5. WorkAt(c)'
      BY <2>4, <3>1, <3>2, <3>4 DEF WorkAt
    <3>6. \A f \in Groups : ToldAt(f)'
      <4> SUFFICES ASSUME NEW f \in Groups PROVE ToldAt(f)'
        OBVIOUS
      <4>1. \A n : n \in grp'[f].active => n \in grp[f].active /\ mem'[n].told = mem[n].told
        BY <2>4, <3>3
      <4>2. \A d \in Ctxs : ctx[d].pc = "cb" => ctx'[d] = ctx[d]
        BY <2>1, <3>2
      <4> QED
        BY <4>1, <4>2, ToldKeep
    <3>7. ctx[c].pc \notin {"release", "retry"} /\ ctx[c].g = g
      BY <1>9, <2>1
    <3> QED
      BY <2>1, <2>4, <3>2, <3>3, <3>5, <3>6, <3>7, WorkCtx
  <2> QED
    BY <2>2, <2>3, <2>4
<1>10. ASSUME NEW c \in Ctxs, NEW g, g = ctx[c].g, NEW m, m = ctx[c].m,
             NEW told, told = IF ctx[c].pc = "errcb" THEN "reset"
                              ELSE IF mem[m].state = "MEMBER" THEN "joined" ELSE "failed",
             CallbackEffect(c, g, m, told)
      PROVE  WorkInv'
  <2>1. g \in Groups /\ m \in Members /\ ctx[c].pc \in {"cb", "errcb"} /\ grp' = grp
    BY <1>10 DEF CallbackEffect
  <2>2. \/ /\ CtxStep(c, IF ctx[c].pc = "errcb" THEN "errnext" ELSE "test", g, Null)
           /\ MemStep(m, mem[m].ref - 1, mem[m].group, mem[m].join_state, mem[m].state, mem[m].user, told)
        \/ /\ CtxStep(c, IF ctx[c].pc = "errcb" THEN "errwait" ELSE "wait", g, m)
           /\ MemStep(m, mem[m].ref - 1, mem[m].group, mem[m].join_state, mem[m].state, "free", told)
    BY <1>10 DEF CallbackEffect
  <2>3. /\ mem[m].group = g /\ mem[m].user \notin {"none", "acquired"}
        /\ ctx[c].pc = "errcb" => mem[m].state = "ERROR"
    BY <1>10, <2>1 DEF WorkInv, WorkAt, Told
  <2>4. /\ \A d \in Ctxs : d # c => ctx'[d] = ctx[d]
        /\ ctx'[c].g = g
        /\ \/ ctx'[c].pc \in {"errnext", "test"}
           \/ ctx'[c].pc \in {"errwait", "wait"} /\ ctx'[c].m = m
    BY <2>2 DEF CtxStep
  <2>5. /\ \A n \in Members : n # m => mem'[n] = mem[n]
        /\ mem'[m].group = g /\ mem'[m].user \notin {"none", "acquired"} /\ mem'[m].told = told
    BY <2>2, <2>3 DEF MemStep
  <2>6. WorkAt(c)'
    <3>1. CASE ctx'[c].pc \in {"errnext", "test"}
      <4>1. ctx'[c].pc \notin Told
        BY <3>1 DEF Told
      <4> QED
        BY <1>10, <4>1, WorkIdle
    <3>2. CASE ctx'[c].pc \in {"errwait", "wait"} /\ ctx'[c].m = m
      BY <2>4, <2>5, <3>2 DEF WorkAt
    <3> QED
      BY <2>4, <3>1, <3>2
  <2>7. \A f \in Groups : ToldAt(f)'
    <3> SUFFICES ASSUME NEW f \in Groups, NEW n, n \in grp[f].active
                 PROVE  mem'[n].told = "joined" \/ \E d \in Ctxs : ctx'[d].pc = "cb" /\ ctx'[d].m = n
      BY <2>1 DEF ToldAt
    <3>0. n \in Members /\ mem[n].state = "MEMBER"
      BY OnList, ListIs DEF ActOK
    <3>1. CASE n = m
      <4>1. told = "joined"
        BY <1>10, <2>1, <2>3, <3>0, <3>1
      <4> QED
        BY <2>5, <3>1, <4>1
    <3>2. CASE n # m
      <4>1. mem'[n] = mem[n] /\ ToldAt(f)
        BY <2>5, <3>0, <3>2, WorkIs
      <4>2. mem[n].told = "joined" \/ \E d \in Ctxs : d # c /\ ctx[d].pc = "cb" /\ ctx[d].m = n
        BY <1>10, <3>2, <4>1 DEF ToldAt
      <4> QED
        BY <2>4, <4>1, <4>2
    <3> QED
      BY <3>1, <3>2
  <2>8. ctx[c].pc \notin {"release", "retry"} /\ ctx[c].g = g
    BY <1>10, <2>1
  <2>9. \A n \in Members : mem[n].group # g => mem'[n] = mem[n]
    BY <2>3, <2>5
  <2> QED
    BY <1>10, <2>1, <2>4, <2>6, <2>7, <2>8, <2>9, WorkCtx
<1>11. ASSUME NEW c \in Ctxs, NEW g, g = ctx[c].g, SendLeaveEffect(c, g)
      PROVE  WorkInv'
  <2>1. c \in Ctxs /\ ctx[c].pc # "cb" /\ \E pc \in {"idle", "retry", "test"} : \E f, n : CtxStep(c, pc, f, n)
    BY <1>11 DEF Ctxs, SendLeaveEffect
  <2>c. \A d \in Ctxs : d \notin {c} => ctx'[d] = ctx[d]
    BY <2>1 DEF CtxStep
  <2>d. \A d \in Ctxs : d \in {c} => ctx[d].pc # "cb" /\ ctx'[d].pc \notin Told
    BY <2>1 DEF CtxStep, Told
  <2>l. \A f \in Groups : /\ Range(grp'[f].pending) \subseteq Range(grp[f].pending)
                          /\ grp'[f].active \subseteq grp[f].active
    BY <1>11 DEF SendLeaveEffect
  <2>m. \A n \in Members : SameMem(n)
    BY <1>11 DEF SameMem, SendLeaveEffect
  <2> QED
    BY <2>c, <2>d, <2>l, <2>m, WorkPlain
<1>12. ASSUME NEW c \in Ctxs, NEW g, g = ctx[c].g, ErrorEffect(c, g)
      PROVE  WorkInv'
  <2>1. c \in Ctxs /\ ctx[c].pc # "cb" /\ \E pc \in {"errlock"} : \E f, n : CtxStep(c, pc, f, n)
    BY <1>12 DEF Ctxs, ErrorEffect
  <2>c. \A d \in Ctxs : d \notin {c} => ctx'[d] = ctx[d]
    BY <2>1 DEF CtxStep
  <2>d. \A d \in Ctxs : d \in {c} => ctx[d].pc # "cb" /\ ctx'[d].pc \notin Told
    BY <2>1 DEF CtxStep, Told
  <2>l. \A f \in Groups : /\ Range(grp'[f].pending) \subseteq Range(grp[f].pending)
                          /\ grp'[f].active \subseteq grp[f].active
    BY <1>12 DEF ErrorEffect
  <2>m. \A n \in Members : SameMem(n)
    BY <1>12 DEF SameMem, ErrorEffect
  <2> QED
    BY <2>c, <2>d, <2>l, <2>m, WorkPlain
<1>13. ASSUME NEW c \in Ctxs, NEW g, g = ctx[c].g, ErrorLockEffect(c, g)
      PROVE  WorkInv'
  <2>1. c \in Ctxs /\ ctx[c].pc # "cb" /\ \E pc \in {"test", "errnext"} : \E f, n : CtxStep(c, pc, f, n)
    BY <1>13 DEF Ctxs, ErrorLockEffect
  <2>c. \A d \in Ctxs : d \notin {c} => ctx'[d] = ctx[d]
    BY <2>1 DEF CtxStep
  <2>d. \A d \in Ctxs : d \in {c} => ctx[d].pc # "cb" /\ ctx'[d].pc \notin Told
    BY <2>1 DEF CtxStep, Told
  <2>2. grp' = grp \/ \E st, rt : GrpStep(g, grp[g].ref, st, grp[g].pending, grp[g].active, grp[g].members, rt)
    BY <1>13 DEF ErrorLockEffect
  <2>l. \A f \in Groups : /\ Range(grp'[f].pending) \subseteq Range(grp[f].pending)
                          /\ grp'[f].active \subseteq grp[f].active
    BY <2>2 DEF GrpStep
  <2>m. \A n \in Members : SameMem(n)
    BY <1>13 DEF SameMem, ErrorLockEffect
  <2> QED
    BY <2>c, <2>d, <2>l, <2>m, WorkPlain
<1>14. ASSUME NEW c \in Ctxs, NEW g, g = ctx[c].g, ErrorNextEffect(c, g)
      PROVE  WorkInv'
  <2>1. g \in Groups /\ ctx[c].pc = "errnext"
    BY <1>14 DEF ErrorNextEffect
  <2>2. CASE mem' = mem /\ CtxStep(c, "test", g, Null)
               /\ GrpStep(g, grp[g].ref, "BUSY", grp[g].pending, grp[g].active, grp[g].members, grp[g].retries)
    <3>1. \A d \in Ctxs : d \notin {c} => ctx'[d] = ctx[d]
      BY <2>2 DEF CtxStep
    <3>2. \A d \in Ctxs : d \in {c} => ctx[d].pc # "cb" /\ ctx'[d].pc \notin Told
      BY <2>1, <2>2 DEF CtxStep, Told
    <3>3. \A f \in Groups : /\ Range(grp'[f].pending) \subseteq Range(grp[f].pending)
                            /\ grp'[f].active \subseteq grp[f].active
      BY <2>2 DEF GrpStep
    <3>4. \A n \in Members : SameMem(n)
      BY <2>2 DEF SameMem
    <3> QED
      BY <3>1, <3>2, <3>3, <3>4, WorkPlain
  <2>3. ASSUME NEW m \in Members, m \in grp[g].active, CtxStep(c, "errcb", g, m),
               GrpStep(g, grp[g].ref, grp[g].state, Without(grp[g].pending, m), grp[g].active \ {m},
                       Adjusted(grp[g].members, mem[m].join_state, -1), grp[g].retries),
               MemStep(m, mem[m].ref + 1, mem[m].group, mem[m].join_state, "ERROR", mem[m].user, mem[m].told)
        PROVE  WorkInv'
    <3>1. mem[m].group = g /\ mem[m].user \in {"held", "free"}
      BY <2>1, <2>3, ListIs DEF ActOK
    <3>0. ctx[c].pc \notin {"release", "retry"} /\ ctx[c].g = g
      BY <1>14, <2>1
    <3>2. mem[m].told = "joined"
      <4> SUFFICES ASSUME NEW d \in Ctxs, ctx[d].pc = "cb", ctx[d].m = m PROVE FALSE
        BY <2>1, <2>3, WorkIs DEF ToldAt
      <4>1. ctx[d].pc \in Told /\ d # c
        BY <2>1 DEF Told
      <4>2. mem[ctx[d].m].group # g
        BY <1>14, <2>1, <3>0, <4>1, Alone
      <4> QED
        BY <3>1, <4>2
    <3>3. /\ \A d \in Ctxs : d # c => ctx'[d] = ctx[d]
          /\ ctx'[c].pc = "errcb" /\ ctx'[c].m = m /\ ctx'[c].g = g
      BY <2>3 DEF CtxStep
    <3>4. /\ \A f \in Groups : f # g => grp'[f] = grp[f]
          /\ grp'[g].active = grp[g].active \ {m}
      BY <2>3 DEF GrpStep
    <3>5. /\ \A n \in Members : n # m => mem'[n] = mem[n]
          /\ mem'[m].group = g /\ mem'[m].user \in {"held", "free"}
          /\ mem'[m].told = "joined" /\ mem'[m].state = "ERROR"
      BY <2>3, <3>1, <3>2 DEF MemStep
    <3>6. WorkAt(c)'
      BY <3>3, <3>5 DEF WorkAt
    <3>7. \A f \in Groups : ToldAt(f)'
      <4> SUFFICES ASSUME NEW f \in Groups PROVE ToldAt(f)'
        OBVIOUS
      <4>1. \A n : n \in grp'[f].active => n \in grp[f].active /\ mem'[n].told = mem[n].told
        <5>1. \A n : n \in grp'[f].active => n \in grp[f].active /\ n \in Members
          BY <3>4, OnListNext
        <5>2. \A n \in Members : mem'[n].told = mem[n].told
          BY <3>2, <3>5
        <5> QED
          BY <5>1, <5>2
      <4>2. \A d \in Ctxs : ctx[d].pc = "cb" => ctx'[d] = ctx[d]
        BY <2>1, <3>3
      <4> QED
        BY <4>1, <4>2, ToldKeep
    <3>8. \A n \in Members : mem[n].group # g => mem'[n] = mem[n]
      BY <3>1, <3>5
    <3> QED
      BY <1>14, <2>1, <3>0, <3>3, <3>4, <3>6, <3>7, <3>8, WorkCtx
  <2> QED
    BY <1>14, <2>2, <2>3 DEF ErrorNextEffect
<1>15. ASSUME NEW c \in Ctxs, NEW g, g = ctx[c].g, NEW m, m = ctx[c].m, JoinErrorEffect(c, g, m)
      PROVE  WorkInv'
  <2>1. g \in Groups /\ m \in Members /\ ctx[c].pc = "joinerr"
    BY <1>15 DEF JoinErrorEffect
  <2>2. CASE UNCHANGED <<grp, mem>> /\ CtxStep(c, "test", g, Null)
    <3>1. \A d \in Ctxs : d \notin {c} => ctx'[d] = ctx[d]
      BY <2>2 DEF CtxStep
    <3>2. \A d \in Ctxs : d \in {c} => ctx[d].pc # "cb" /\ ctx'[d].pc \notin Told
      BY <2>1, <2>2 DEF CtxStep, Told
    <3>3. \A n \in Members : SameMem(n)
      BY <2>2 DEF SameMem
    <3> QED
      BY <2>2, <3>1, <3>2, <3>3, WorkPlain
  <2>3. CASE /\ grp[g].pending # <<>> /\ m = Head(grp[g].pending) /\ CtxStep(c, "cb", g, m)
             /\ GrpStep(g, grp[g].ref, grp[g].state, Without(grp[g].pending, m), grp[g].active \ {m},
                        grp[g].members, grp[g].retries)
             /\ MemStep(m, mem[m].ref + 1, mem[m].group, mem[m].join_state, mem[m].state,
                        mem[m].user, mem[m].told)
    <3>1. PendOK(g, m)
      <4>1. m \in Range(grp[g].pending)
        BY <2>1, <2>3, TypedIs, ListIs, TailList DEF IsGroup
      <4> QED
        BY <2>1, <4>1, ListIs
    <3>2. /\ \A d \in Ctxs : d # c => ctx'[d] = ctx[d]
          /\ ctx'[c].pc = "cb" /\ ctx'[c].m = m /\ ctx'[c].g = g
      BY <2>3 DEF CtxStep
    <3>3. /\ \A f \in Groups : f # g => grp'[f] = grp[f]
          /\ grp'[g].pending = Without(grp[g].pending, m) /\ grp'[g].active = grp[g].active \ {m}
      BY <2>3 DEF GrpStep
    <3>4. /\ \A n \in Members : n # m => mem'[n] = mem[n]
          /\ mem'[m].group = g /\ mem'[m].user \in {"held", "free"} /\ mem'[m].told = "nothing"
          /\ mem[m].group = g /\ mem'[m].told = mem[m].told
      BY <2>3, <3>1 DEF MemStep, PendOK
    <3>5. m \notin Range(grp'[g].pending)
      BY <2>1, <3>3, ListDels
    <3>6. WorkAt(c)'
      BY <3>2, <3>4, <3>5 DEF WorkAt
    <3>7. \A f \in Groups : ToldAt(f)'
      <4> SUFFICES ASSUME NEW f \in Groups PROVE ToldAt(f)'
        OBVIOUS
      <4>1. \A n : n \in grp'[f].active => n \in grp[f].active /\ mem'[n].told = mem[n].told
        <5>1. \A n : n \in grp'[f].active => n \in grp[f].active /\ n \in Members
          BY <3>3, OnListNext
        <5> QED
          BY <3>4, <5>1
      <4>2. \A d \in Ctxs : ctx[d].pc = "cb" => ctx'[d] = ctx[d]
        BY <2>1, <3>2
      <4> QED
        BY <4>1, <4>2, ToldKeep
    <3>8. ctx[c].pc \notin {"release", "retry"} /\ ctx[c].g = g
      BY <1>15, <2>1
    <3>9. \A n \in Members : mem[n].group # g => mem'[n] = mem[n]
      BY <3>4
    <3> QED
      BY <1>15, <2>1, <3>2, <3>3, <3>6, <3>7, <3>8, <3>9, WorkCtx
  <2> QED
    BY <1>15, <2>2, <2>3 DEF JoinErrorEffect
<1>16. ASSUME NEW c \in Ctxs, NEW g, g = ctx[c].g, JoinRecordEffect(c, g)
      PROVE  WorkInv'
  <2>1. c \in Ctxs /\ ctx[c].pc # "cb" /\ \E pc \in {"test"} : \E f, n : CtxStep(c, pc, f, n)
    BY <1>16 DEF Ctxs, JoinRecordEffect
  <2>c. \A d \in Ctxs : d \notin {c} => ctx'[d] = ctx[d]
    BY <2>1 DEF CtxStep
  <2>d. \A d \in Ctxs : d \in {c} => ctx[d].pc # "cb" /\ ctx'[d].pc \notin Told
    BY <2>1 DEF CtxStep, Told
  <2>2. grp' = grp \/ \E st, rt : GrpStep(g, grp[g].ref, st, grp[g].pending, grp[g].active, grp[g].members, rt)
    BY <1>16 DEF JoinRecordEffect
  <2>l. \A f \in Groups : /\ Range(grp'[f].pending) \subseteq Range(grp[f].pending)
                          /\ grp'[f].active \subseteq grp[f].active
    BY <2>2 DEF GrpStep
  <2>m. \A n \in Members : SameMem(n)
    BY <1>16 DEF SameMem, JoinRecordEffect
  <2> QED
    BY <2>c, <2>d, <2>l, <2>m, WorkPlain
<1>17. ASSUME NEW c \in Ctxs, NEW g, g = ctx[c].g, LeaveRetryEffect(c, g)
      PROVE  WorkInv'
  <2>1. c \in Ctxs /\ ctx[c].pc # "cb" /\ \E pc \in {"idle"} : \E f, n : CtxStep(c, pc, f, n)
    BY <1>17 DEF Ctxs, LeaveRetryEffect
  <2>c. \A d \in Ctxs : d \notin {c} => ctx'[d] = ctx[d]
    BY <2>1 DEF CtxStep
  <2>d. \A d \in Ctxs : d \in {c} => ctx[d].pc # "cb" /\ ctx'[d].pc \notin Told
    BY <2>1 DEF CtxStep, Told
  <2>2. grp' = grp \/ \E st, rt : GrpStep(g, grp[g].ref, st, grp[g].pending, grp[g].active, grp[g].members, rt)
    BY <1>17 DEF LeaveRetryEffect
  <2>l. \A f \in Groups : /\ Range(grp'[f].pending) \subseteq Range(grp[f].pending)
                          /\ grp'[f].active \subseteq grp[f].active
    BY <2>2 DEF GrpStep
  <2>m. \A n \in Members : SameMem(n)
    BY <1>17 DEF SameMem, LeaveRetryEffect
  <2> QED
    BY <2>c, <2>d, <2>l, <2>m, WorkPlain
<1>18. ASSUME NEW g \in Groups, SaEffect(g)
      PROVE  WorkInv'
  <2>1. PICK D : D = {}
    OBVIOUS
  <2>c. \A d \in Ctxs : d \notin D => ctx'[d] = ctx[d]
    BY <1>18 DEF SaEffect
  <2>d. \A d \in Ctxs : d \in D => ctx[d].pc # "cb" /\ ctx'[d].pc \notin Told
    BY <2>1
  <2>2. \A f \in Groups : /\ grp'[f].pending = grp[f].pending
                          /\ grp'[f].active = grp[f].active
    BY <1>18 DEF SaEffect
  <2>l. \A f \in Groups : /\ Range(grp'[f].pending) \subseteq Range(grp[f].pending)
                          /\ grp'[f].active \subseteq grp[f].active
    BY <2>2
  <2>m. \A n \in Members : SameMem(n)
    BY <1>18 DEF SameMem, SaEffect
  <2> QED
    BY <2>c, <2>d, <2>l, <2>m, WorkPlain
<1>19. ASSUME NEW c \in {"recv", "timeout"}, NEW g \in Groups, JoinHandlerEffect(c, g)
      PROVE  WorkInv'
  <2>1. c \in Ctxs /\ ctx[c].pc # "cb" /\ \E pc \in {"joinerr", "joined"} : \E f, n : CtxStep(c, pc, f, n)
    BY <1>19 DEF Ctxs, JoinHandlerEffect
  <2>c. \A d \in Ctxs : d \notin {c} => ctx'[d] = ctx[d]
    BY <2>1 DEF CtxStep
  <2>d. \A d \in Ctxs : d \in {c} => ctx[d].pc # "cb" /\ ctx'[d].pc \notin Told
    BY <2>1 DEF CtxStep, Told
  <2>l. \A f \in Groups : /\ Range(grp'[f].pending) \subseteq Range(grp[f].pending)
                          /\ grp'[f].active \subseteq grp[f].active
    BY <1>19 DEF JoinHandlerEffect
  <2>m. \A n \in Members : SameMem(n)
    BY <1>19 DEF SameMem, JoinHandlerEffect
  <2> QED
    BY <2>c, <2>d, <2>l, <2>m, WorkPlain
<1>20. ASSUME NEW c \in {"recv", "timeout"}, NEW g \in Groups, LeaveHandlerEffect(c, g)
      PROVE  WorkInv'
  <2>1. c \in Ctxs /\ ctx[c].pc # "cb" /\ \E pc \in {"releave", "test"} : \E f, n : CtxStep(c, pc, f, n)
    BY <1>20 DEF Ctxs, LeaveHandlerEffect
  <2>c. \A d \in Ctxs : d \notin {c} => ctx'[d] = ctx[d]
    BY <2>1 DEF CtxStep
  <2>d. \A d \in Ctxs : d \in {c} => ctx[d].pc # "cb" /\ ctx'[d].pc \notin Told
    BY <2>1 DEF CtxStep, Told
  <2>l. \A f \in Groups : /\ Range(grp'[f].pending) \subseteq Range(grp[f].pending)
                          /\ grp'[f].active \subseteq grp[f].active
    BY <1>20 DEF LeaveHandlerEffect
  <2>m. \A n \in Members : SameMem(n)
    BY <1>20 DEF SameMem, LeaveHandlerEffect
  <2> QED
    BY <2>c, <2>d, <2>l, <2>m, WorkPlain
<1>21. ASSUME EventEffect
      PROVE  WorkInv'
  <2>1. PICK D : D = {}
    OBVIOUS
  <2>c. \A d \in Ctxs : d \notin D => ctx'[d] = ctx[d]
    BY <1>21 DEF EventEffect
  <2>d. \A d \in Ctxs : d \in D => ctx[d].pc # "cb" /\ ctx'[d].pc \notin Told
    BY <2>1
  <2>2. \A f \in Groups : /\ grp'[f].pending = grp[f].pending
                          /\ grp'[f].active = grp[f].active
    BY <1>21 DEF EventEffect
  <2>l. \A f \in Groups : /\ Range(grp'[f].pending) \subseteq Range(grp[f].pending)
                          /\ grp'[f].active \subseteq grp[f].active
    BY <2>2
  <2>m. \A n \in Members : SameMem(n)
    BY <1>21 DEF SameMem, EventEffect
  <2> QED
    BY <2>c, <2>d, <2>l, <2>m, WorkPlain
<1>22. ASSUME GroupsEventEffect
      PROVE  WorkInv'
  <2>1. PICK D : D = {}
    OBVIOUS
  <2>c. \A d \in Ctxs : d \notin D => ctx'[d] = ctx[d]
    BY <1>22 DEF GroupsEventEffect
  <2>d. \A d \in Ctxs : d \in D => ctx[d].pc # "cb" /\ ctx'[d].pc \notin Told
    BY <2>1
  <2>2. \A f \in Groups : /\ grp'[f].pending = grp[f].pending
                          /\ grp'[f].active = grp[f].active
    BY <1>22 DEF GroupsEventEffect
  <2>l. \A f \in Groups : /\ Range(grp'[f].pending) \subseteq Range(grp[f].pending)
                          /\ grp'[f].active \subseteq grp[f].active
    BY <2>2
  <2>m. \A n \in Members : SameMem(n)
    BY <1>22 DEF SameMem, GroupsEventEffect
  <2> QED
    BY <2>c, <2>d, <2>l, <2>m, WorkPlain
<1>23. ASSUME RemoveEffect
      PROVE  WorkInv'
  <2>1. PICK D : D = {}
    OBVIOUS
  <2>c. \A d \in Ctxs : d \notin D => ctx'[d] = ctx[d]
    BY <1>23 DEF RemoveEffect
  <2>d. \A d \in Ctxs : d \in D => ctx[d].pc # "cb" /\ ctx'[d].pc \notin Told
    BY <2>1
  <2>2. \A f \in Groups : /\ grp'[f].pending = grp[f].pending
                          /\ grp'[f].active = grp[f].active
    BY <1>23 DEF RemoveEffect
  <2>l. \A f \in Groups : /\ Range(grp'[f].pending) \subseteq Range(grp[f].pending)
                          /\ grp'[f].active \subseteq grp[f].active
    BY <2>2
  <2>m. \A n \in Members : SameMem(n)
    BY <1>23 DEF SameMem, RemoveEffect
  <2> QED
    BY <2>c, <2>d, <2>l, <2>m, WorkPlain
<1>24. ASSUME UNCHANGED vars PROVE WorkInv'
  <2>1. PICK D : D = {}
    OBVIOUS
  <2>c. \A d \in Ctxs : d \notin D => ctx'[d] = ctx[d]
    BY <1>24 DEF vars
  <2>d. \A d \in Ctxs : d \in D => ctx[d].pc # "cb" /\ ctx'[d].pc \notin Told
    BY <2>1
  <2>2. \A f \in Groups : /\ grp'[f].pending = grp[f].pending
                          /\ grp'[f].active = grp[f].active
    BY <1>24 DEF vars
  <2>l. \A f \in Groups : /\ Range(grp'[f].pending) \subseteq Range(grp[f].pending)
                          /\ grp'[f].active \subseteq grp[f].active
    BY <2>2
  <2>m. \A n \in Members : SameMem(n)
    BY <1>24 DEF vars, SameMem
  <2> QED
    BY <2>c, <2>d, <2>l, <2>m, WorkPlain
<1> QED
  BY <1>1, <1>2, <1>3, <1>4, <1>5, <1>6, <1>7, <1>8, <1>9, <1>10, <1>11, <1>12, <1>13, <1>14,
     <1>15, <1>16, <1>17, <1>18, <1>19, <1>20, <1>21, <1>22, <1>23, <1>24
     DEF Effects

----------------------------------------------------------------------------
(* The counts of the active members. *)

Counted(g, i) == {m \in grp[g].active : i \in mem[m].join_state}
CountAt(g) == \A i \in Types : grp[g].members[i] = Cardinality(Counted(g, i))

(* What CountInv says of group g. *)
LEMMA CountOf ==
    ASSUME FiniteSetFacts, Typed, CountInv, NEW g \in Groups
    PROVE  /\ CountAt(g) /\ grp[g].members \in [Types -> Int]
           /\ \A i : IsFiniteSet(Counted(g, i))
<1>1. grp[g].active \subseteq Members /\ grp[g].members \in [Types -> Int]
  BY TypedIs DEF IsGroup
<1>2. \A i : IsFiniteSet(Counted(g, i))
  <2>1. \A i : Counted(g, i) \subseteq Members
    BY <1>1 DEF Counted
  <2> QED
    BY <2>1, Constants, SubFinite
<1>3. CountAt(g)
  BY DEF CountInv, CountAt, Counted
<1> QED
  BY <1>1, <1>2, <1>3

(* The number of members of each type stays, ... *)
LEMMA CountKeep ==
    ASSUME FiniteSetFacts, Typed, CountInv, NEW g \in Groups, \A n \in Members : mem'[n].join_state = mem[n].join_state,
           grp'[g].members = grp[g].members, grp'[g].active = grp[g].active
    PROVE  CountAt(g)'
<1>1. \A n \in grp[g].active : mem'[n].join_state = mem[n].join_state
  BY OnList
<1>2. \A i : Counted(g, i)' = Counted(g, i)
  BY <1>1 DEF Counted
<1> QED
  BY <1>2, CountOf DEF CountAt

(* ... is zero, ... *)
LEMMA CountZero ==
    ASSUME FiniteSetFacts, NEW g \in Groups, grp'[g].members = [i \in Types |-> 0], grp'[g].active = {}
    PROVE  CountAt(g)'
<1>1. \A i : Counted(g, i)' = {}
  BY DEF Counted
<1>2. Cardinality({}) = 0
  BY CardEmpty
<1> QED
  BY <1>1, <1>2 DEF CountAt

(* ... is less one, ... *)
LEMMA CountLess ==
    ASSUME FiniteSetFacts, Typed, CountInv, NEW g \in Groups, \A n \in Members : mem'[n].join_state = mem[n].join_state,
           NEW m \in grp[g].active, grp'[g].active = grp[g].active \ {m},
           grp'[g].members = Adjusted(grp[g].members, mem[m].join_state, -1)
    PROVE  CountAt(g)'
<1>1. \A n \in grp[g].active : mem'[n].join_state = mem[n].join_state
  BY OnList
<1> SUFFICES ASSUME NEW i \in Types PROVE grp'[g].members[i] = Cardinality(Counted(g, i)')
  BY DEF CountAt
<1>2. grp[g].members[i] = Cardinality(Counted(g, i)) /\ IsFiniteSet(Counted(g, i))
  BY CountOf DEF CountAt
<1>3. CASE i \in mem[m].join_state
  <2>0. PICK S : S = Counted(g, i)
    OBVIOUS
  <2>1. m \in S /\ Counted(g, i)' = S \ {m}
    BY <1>1, <1>3, <2>0 DEF Counted
  <2>a. IsFiniteSet(S)
    BY <1>2, <2>0
  <2>b. Cardinality(S) \in Nat /\ Cardinality(S \ {m}) = Cardinality(S) - 1
    BY <2>1, <2>a, CardStep
  <2>2. /\ Cardinality(Counted(g, i)) \in Nat
        /\ Cardinality(Counted(g, i)') = Cardinality(Counted(g, i)) - 1
    BY <2>0, <2>1, <2>b
  <2>3. grp'[g].members[i] = grp[g].members[i] + (-1)
    BY <1>3 DEF Adjusted
  <2>4. \A k \in Nat : k + (-1) = k - 1
    BY SMT
  <2> QED
    BY <1>2, <2>2, <2>3, <2>4
<1>4. CASE i \notin mem[m].join_state
  <2>1. Counted(g, i)' = Counted(g, i)
    BY <1>1, <1>4 DEF Counted
  <2>2. grp'[g].members[i] = grp[g].members[i]
    BY <1>4 DEF Adjusted
  <2> QED
    BY <1>2, <2>1, <2>2
<1> QED
  BY <1>3, <1>4

(* ... or is one more. *)
LEMMA CountMore ==
    ASSUME FiniteSetFacts, Typed, CountInv, NEW g \in Groups, \A n \in Members : mem'[n].join_state = mem[n].join_state,
           NEW m \in Members, m \notin grp[g].active, grp'[g].active = grp[g].active \cup {m},
           grp'[g].members = Adjusted(grp[g].members, mem[m].join_state, 1)
    PROVE  CountAt(g)'
<1>1. \A n \in grp[g].active \cup {m} : mem'[n].join_state = mem[n].join_state
  BY OnList
<1> SUFFICES ASSUME NEW i \in Types PROVE grp'[g].members[i] = Cardinality(Counted(g, i)')
  BY DEF CountAt
<1>2. grp[g].members[i] = Cardinality(Counted(g, i)) /\ IsFiniteSet(Counted(g, i))
  BY CountOf DEF CountAt
<1>3. CASE i \in mem[m].join_state
  <2>0. PICK S : S = Counted(g, i)
    OBVIOUS
  <2>1. m \notin S /\ Counted(g, i)' = S \cup {m}
    BY <1>1, <1>3, <2>0 DEF Counted
  <2>a. IsFiniteSet(S)
    BY <1>2, <2>0
  <2>b. Cardinality(S \cup {m}) = Cardinality(S) + 1
    BY <2>1, <2>a, CardStep
  <2>2. Cardinality(Counted(g, i)') = Cardinality(Counted(g, i)) + 1
    BY <2>0, <2>1, <2>b
  <2>3. grp'[g].members[i] = grp[g].members[i] + 1
    BY <1>3 DEF Adjusted
  <2> QED
    BY <1>2, <2>2, <2>3
<1>4. CASE i \notin mem[m].join_state
  <2>1. Counted(g, i)' = Counted(g, i)
    BY <1>1, <1>4 DEF Counted
  <2>2. grp'[g].members[i] = grp[g].members[i]
    BY <1>4 DEF Adjusted
  <2> QED
    BY <1>2, <2>1, <2>2
<1> QED
  BY <1>3, <1>4

(* What CountInv needs. *)
LEMMA CountAll ==
    ASSUME \A g \in Groups : CountAt(g)'
    PROVE  CountInv'
BY DEF CountInv, CountAt, Counted

(* A step of group g, which may have a member less or more. *)
LEMMA CountGroup ==
    ASSUME FiniteSetFacts, Typed, CountInv, \A n \in Members : mem'[n].join_state = mem[n].join_state,
           NEW g, \A f \in Groups : f # g => grp'[f] = grp[f], g \in Groups => CountAt(g)'
    PROVE  CountInv'
<1>1. \A f \in Groups : f # g => CountAt(f)'
  BY CountKeep
<1> QED
  BY <1>1, CountAll

(* A step that changes neither the counts nor the active members. *)
LEMMA CountSame ==
    ASSUME FiniteSetFacts, Typed, CountInv, \A n \in Members : mem'[n].join_state = mem[n].join_state,
           \A f \in Groups : grp'[f].members = grp[f].members /\ grp'[f].active = grp[f].active
    PROVE  CountInv'
BY CountKeep, CountAll

(* release_group: a group without references has no active members to count. *)
LEMMA CountRelease ==
    ASSUME FiniteSetFacts, Typed, Typed', GroupInv, ListInv, CountInv, NEW g \in Groups, Released(g),
           \A n \in Members : mem'[n].join_state = mem[n].join_state, NEW x,
           x \in Leaving(g) \/ (x \in Holders(g) /\ mem[x].user = "release")
    PROVE  CountInv'
<1>1. \A f \in Groups : f # g => grp'[f] = grp[f]
  BY DEF GrpStep, Released
<1>2. \/ grp'[g].members = [i \in Types |-> 0] /\ grp'[g].active = {}
      \/ grp'[g].members = grp[g].members /\ grp'[g].active = grp[g].active
  BY DEF GrpStep, Released
<1>3. CountAt(g)'
  BY <1>2, CountZero, CountKeep
<1> QED
  BY <1>1, <1>3, CountGroup

(* Every step keeps the counts. *)
LEMMA CountNext ==
    ASSUME FiniteSetFacts, Typed, Shape, Typed', GroupInv, ListInv, WorkInv, CountInv, Effects
    PROVE  CountInv'
<1>1. ASSUME NEW m \in Members, NEW js, JoinEffect(m, js)
      PROVE  CountInv'
  <2>1. PICK g \in Groups :
           /\ MemStep(m, 1, g, js, "JOINING", "acquired", "nothing")
           /\ \/ GrpStep(g, grp[g].ref + 1, grp[g].state, grp[g].pending, grp[g].active,
                         grp[g].members, grp[g].retries)
              \/ GrpStep(g, 1, "IDLE", <<>>, {}, [i \in Types |-> 0], Retries)
    BY <1>1 DEF JoinEffect
  <2>2. mem[m].user = "none"
    BY <1>1 DEF JoinEffect
  <2>3. \A n \in Members : n # m => mem'[n] = mem[n]
    BY <2>1 DEF MemStep
  <2>4. ASSUME NEW f \in Groups, grp'[f].members = grp[f].members, grp'[f].active = grp[f].active
        PROVE  CountAt(f)'
    <3>1. m \notin grp[f].active
      BY <1>1, <2>2, Elsewhere
    <3>2. \A n \in grp[f].active : mem'[n] = mem[n]
      BY <2>3, <3>1, OnList
    <3>3. \A i : Counted(f, i)' = Counted(f, i)
      BY <2>4, <3>2 DEF Counted
    <3> QED
      BY <2>4, <3>3, CountOf DEF CountAt
  <2>5. \A f \in Groups : f # g => grp'[f] = grp[f]
    BY <2>1 DEF GrpStep
  <2>6. \/ grp'[g].members = [i \in Types |-> 0] /\ grp'[g].active = {}
        \/ grp'[g].members = grp[g].members /\ grp'[g].active = grp[g].active
    BY <2>1 DEF GrpStep
  <2>7. \A f \in Groups : f # g => CountAt(f)'
    BY <2>4, <2>5
  <2>8. CountAt(g)'
    BY <2>4, <2>6, CountZero
  <2> QED
    BY <2>7, <2>8, CountAll
<1>2. ASSUME NEW m \in Members, NEW g, g = mem[m].group,
             NEW ms, ms = IF mem[m].state = "MEMBER"
                          THEN Adjusted(grp[g].members, mem[m].join_state, -1) ELSE grp[g].members,
             FreeEffect(m, g, ms)
      PROVE  CountInv'
  <2>1. g \in Groups /\ mem[m].user \in {"held", "free"}
    BY <1>2 DEF FreeEffect
  <2>2. /\ \E st : GrpStep(g, grp[g].ref, st, Without(grp[g].pending, m), grp[g].active \ {m},
                           ms, grp[g].retries)
        /\ \E ref, user : MemStep(m, ref, g, mem[m].join_state, mem[m].state, user, mem[m].told)
    BY <1>2 DEF FreeEffect
  <2>j. \A n \in Members : mem'[n].join_state = mem[n].join_state
    BY <2>2 DEF MemStep
  <2>3. /\ \A f \in Groups : f # g => grp'[f] = grp[f]
        /\ grp'[g].active = grp[g].active \ {m} /\ grp'[g].members = ms
    BY <2>2 DEF GrpStep
  <2>4. CountAt(g)'
    <3>1. CASE mem[m].state = "MEMBER"
      <4>1. m \in grp[g].active
        BY <1>2, <2>1, <3>1, ListIs DEF MemOK
      <4> QED
        BY <1>2, <2>1, <2>3, <2>j, <3>1, <4>1, CountLess
    <3>2. CASE mem[m].state # "MEMBER"
      <4>1. m \notin grp[g].active
        BY <2>1, <3>2, ListIs DEF ActOK
      <4>2. grp'[g].active = grp[g].active /\ grp'[g].members = grp[g].members
        BY <1>2, <2>3, <3>2, <4>1
      <4> QED
        BY <2>1, <2>j, <4>2, CountKeep
    <3> QED
      BY <3>1, <3>2
  <2> QED
    BY <2>3, <2>4, <2>j, CountGroup
<1>3. ASSUME NEW m \in Members, NEW g, g = mem[m].group, QueueJoinEffect(m, g)
      PROVE  CountInv'
  <2>1. /\ MemStep(m, mem[m].ref, g, mem[m].join_state, mem[m].state, "held", mem[m].told)
        /\ \E ref, st : GrpStep(g, ref, st, Append(grp[g].pending, m), grp[g].active,
                                grp[g].members, grp[g].retries)
    BY <1>3 DEF QueueJoinEffect
  <2>j. \A n \in Members : mem'[n].join_state = mem[n].join_state
    BY <2>1 DEF MemStep
  <2>2. \A f \in Groups : grp'[f].members = grp[f].members /\ grp'[f].active = grp[f].active
    BY <2>1 DEF GrpStep
  <2> QED
    BY <2>2, <2>j, CountSame
<1>4. ASSUME NEW m \in Members, NEW g, g = mem[m].group, FreeReleaseEffect(m, g)
      PROVE  CountInv'
  <2>1. g \in Groups /\ mem[m].user = "release" /\ Released(g)
    BY <1>4 DEF FreeReleaseEffect
  <2>2. MemStep(m, mem[m].ref - 1, g, mem[m].join_state, mem[m].state, "wait", mem[m].told)
    BY <1>4 DEF FreeReleaseEffect
  <2>j. \A n \in Members : mem'[n].join_state = mem[n].join_state
    BY <2>2 DEF MemStep
  <2>3. m \in Holders(g)
    BY <1>4, <2>1 DEF Holders
  <2> QED
    BY <2>1, <2>3, <2>j, CountRelease
<1>5. ASSUME NEW m \in Members, KfreeEffect(m)
      PROVE  CountInv'
  <2>1. /\ mem[m].user = "wait" /\ grp' = grp
        /\ MemStep(m, 0, Null, {}, "JOINING", "none", "nothing")
    BY <1>5 DEF KfreeEffect
  <2>2. \A f \in Groups : CountAt(f)'
    <3> SUFFICES ASSUME NEW f \in Groups PROVE CountAt(f)'
      OBVIOUS
    <3>1. m \notin grp[f].active
      <4>1. mem[m].user \notin {"held", "free"}
        BY <2>1
      <4> QED
        BY <1>5, <4>1, Elsewhere
    <3>2. \A n \in grp[f].active : mem'[n] = mem[n]
      BY <2>1, <3>1, OnList DEF MemStep
    <3>3. \A i : Counted(f, i)' = Counted(f, i)
      BY <2>1, <3>2 DEF Counted
    <3> QED
      BY <2>1, <3>3, CountOf DEF CountAt
  <2> QED
    BY <2>2, CountAll
<1>6. ASSUME WorkStartEffect
      PROVE  CountInv'
  <2>1. grp' = grp /\ mem' = mem
    BY <1>6 DEF WorkStartEffect
  <2> QED
    BY <2>1, CountSame
<1>7. ASSUME NEW c \in Ctxs, NEW g, g = ctx[c].g, NEW m, m = Head(grp[g].pending), HandlerEffect(c, g, m)
      PROVE  CountInv'
  <2>1. g \in Groups
    BY <1>7 DEF HandlerEffect
  <2>2. \/ /\ mem' = mem
           /\ grp' = grp \/ \E st : GrpStep(g, grp[g].ref, st, grp[g].pending, grp[g].active,
                                            grp[g].members, grp[g].retries)
        \/ /\ grp[g].pending # <<>> /\ m \in Members
           /\ GrpStep(g, grp[g].ref, "BUSY", Without(grp[g].pending, m), grp[g].active \cup {m},
                      Adjusted(grp[g].members, mem[m].join_state, 1), grp[g].retries)
           /\ \E st : MemStep(m, mem[m].ref + 1, mem[m].group, mem[m].join_state, st,
                              mem[m].user, mem[m].told)
        \/ /\ grp[g].pending # <<>> /\ m \in Members
           /\ GrpStep(g, grp[g].ref, "BUSY", Without(grp[g].pending, m), grp[g].active \ {m},
                      grp[g].members, grp[g].retries)
           /\ \E st : MemStep(m, mem[m].ref + 1, mem[m].group, mem[m].join_state, st,
                              mem[m].user, mem[m].told)
        \/ /\ grp' = grp /\ m \in Members
           /\ MemStep(m, mem[m].ref + 1, mem[m].group, mem[m].join_state, mem[m].state,
                      mem[m].user, mem[m].told)
    BY <1>7 DEF HandlerEffect
  <2>j. \A n \in Members : mem'[n].join_state = mem[n].join_state
    BY <2>2 DEF MemStep
  <2>3. CASE grp' = grp \/ \E st : GrpStep(g, grp[g].ref, st, grp[g].pending, grp[g].active,
                                          grp[g].members, grp[g].retries)
    <3>1. \A f \in Groups : grp'[f].members = grp[f].members /\ grp'[f].active = grp[f].active
      BY <2>3 DEF GrpStep
    <3> QED
      BY <2>j, <3>1, CountSame
  <2>4. ASSUME grp[g].pending # <<>>, m \in Members PROVE m \notin grp[g].active
    <3>1. m \in Range(grp[g].pending)
      BY <2>1, <1>7, <2>4, TypedIs, ListIs, TailList DEF IsGroup
    <3>2. PendOK(g, m)
      BY <2>1, <3>1, ListIs
    <3> QED
      BY <2>1, <3>2, ListIs DEF PendOK, ActOK
  <2>5. CASE /\ grp[g].pending # <<>> /\ m \in Members
             /\ GrpStep(g, grp[g].ref, "BUSY", Without(grp[g].pending, m), grp[g].active \cup {m},
                        Adjusted(grp[g].members, mem[m].join_state, 1), grp[g].retries)
    <3>1. /\ \A f \in Groups : f # g => grp'[f] = grp[f]
          /\ grp'[g].active = grp[g].active \cup {m}
          /\ grp'[g].members = Adjusted(grp[g].members, mem[m].join_state, 1)
      BY <2>5 DEF GrpStep
    <3>2. CountAt(g)'
      BY <2>1, <2>4, <2>5, <2>j, <3>1, CountMore
    <3> QED
      BY <2>j, <3>1, <3>2, CountGroup
  <2>6. CASE /\ grp[g].pending # <<>> /\ m \in Members
             /\ GrpStep(g, grp[g].ref, "BUSY", Without(grp[g].pending, m), grp[g].active \ {m},
                        grp[g].members, grp[g].retries)
    <3>1. \A f \in Groups : grp'[f].members = grp[f].members /\ grp'[f].active = grp[f].active
      BY <2>4, <2>6 DEF GrpStep
    <3> QED
      BY <2>j, <3>1, CountSame
  <2> QED
    BY <2>2, <2>3, <2>5, <2>6
<1>8. ASSUME NEW c \in Ctxs, NEW g, g = ctx[c].g, WorkReleaseEffect(c, g)
      PROVE  CountInv'
  <2>1. g \in Groups /\ ctx[c].pc = "release" /\ Released(g)
    BY <1>8 DEF WorkReleaseEffect
  <2>j. \A n \in Members : mem'[n].join_state = mem[n].join_state
    BY <1>8 DEF WorkReleaseEffect
  <2>3. c \in Leaving(g)
    BY <1>8, <2>1 DEF Leaving
  <2> QED
    BY <2>1, <2>3, <2>j, CountRelease
<1>9. ASSUME NEW c \in Ctxs, NEW g, g = ctx[c].g, NEW m, m = ctx[c].m, SendJoinEffect(c, g, m)
      PROVE  CountInv'
  <2>1. g \in Groups /\ m \in Members /\ ctx[c].pc = "send"
    BY <1>9 DEF SendJoinEffect
  <2>2. \/ /\ grp' = grp
           /\ MemStep(m, mem[m].ref - 1, mem[m].group, mem[m].join_state, mem[m].state,
                      mem[m].user, mem[m].told)
        \/ /\ mem' = mem
           /\ GrpStep(g, grp[g].ref, grp[g].state, Without(grp[g].pending, m), grp[g].active \ {m},
                      grp[g].members, grp[g].retries)
    BY <1>9 DEF SendJoinEffect
  <2>j. \A n \in Members : mem'[n].join_state = mem[n].join_state
    BY <2>2 DEF MemStep
  <2>3. m \notin grp[g].active
    <3>1. ctx[c].pc \in Told
      BY <2>1 DEF Told
    <3>2. mem[m].state = "JOINING"
      BY <1>9, <2>1, <3>1, WorksFor
    <3> QED
      BY <2>1, <3>2, ListIs DEF ActOK
  <2>4. \A f \in Groups : grp'[f].members = grp[f].members /\ grp'[f].active = grp[f].active
    BY <2>2, <2>3 DEF GrpStep
  <2> QED
    BY <2>j, <2>4, CountSame
<1>10. ASSUME NEW c \in Ctxs, NEW g, g = ctx[c].g, NEW m, m = ctx[c].m,
             NEW told, told = IF ctx[c].pc = "errcb" THEN "reset"
                              ELSE IF mem[m].state = "MEMBER" THEN "joined" ELSE "failed",
             CallbackEffect(c, g, m, told)
      PROVE  CountInv'
  <2>1. /\ grp' = grp
        /\ \E user : MemStep(m, mem[m].ref - 1, mem[m].group, mem[m].join_state, mem[m].state, user, told)
    BY <1>10 DEF CallbackEffect
  <2>j. \A n \in Members : mem'[n].join_state = mem[n].join_state
    BY <2>1 DEF MemStep
  <2> QED
    BY <2>1, <2>j, CountSame
<1>11. ASSUME NEW c \in Ctxs, NEW g, g = ctx[c].g, SendLeaveEffect(c, g)
      PROVE  CountInv'
  <2>1. grp' = grp /\ mem' = mem
    BY <1>11 DEF SendLeaveEffect
  <2> QED
    BY <2>1, CountSame
<1>12. ASSUME NEW c \in Ctxs, NEW g, g = ctx[c].g, ErrorEffect(c, g)
      PROVE  CountInv'
  <2>1. grp' = grp /\ mem' = mem
    BY <1>12 DEF ErrorEffect
  <2> QED
    BY <2>1, CountSame
<1>13. ASSUME NEW c \in Ctxs, NEW g, g = ctx[c].g, ErrorLockEffect(c, g)
      PROVE  CountInv'
  <2>1. mem' = mem
    BY <1>13 DEF ErrorLockEffect
  <2>2. grp' = grp \/ \E st, rt : GrpStep(g, grp[g].ref, st, grp[g].pending, grp[g].active, grp[g].members, rt)
    BY <1>13 DEF ErrorLockEffect
  <2>3. \A f \in Groups : grp'[f].members = grp[f].members /\ grp'[f].active = grp[f].active
    BY <2>2 DEF GrpStep
  <2> QED
    BY <2>1, <2>3, CountSame
<1>14. ASSUME NEW c \in Ctxs, NEW g, g = ctx[c].g, ErrorNextEffect(c, g)
      PROVE  CountInv'
  <2>1. g \in Groups
    BY <1>14 DEF ErrorNextEffect
  <2>2. CASE mem' = mem
               /\ GrpStep(g, grp[g].ref, "BUSY", grp[g].pending, grp[g].active, grp[g].members, grp[g].retries)
    <3>1. \A f \in Groups : grp'[f].members = grp[f].members /\ grp'[f].active = grp[f].active
      BY <2>2 DEF GrpStep
    <3> QED
      BY <2>2, <3>1, CountSame
  <2>3. ASSUME NEW m \in Members, m \in grp[g].active,
               GrpStep(g, grp[g].ref, grp[g].state, Without(grp[g].pending, m), grp[g].active \ {m},
                       Adjusted(grp[g].members, mem[m].join_state, -1), grp[g].retries),
               MemStep(m, mem[m].ref + 1, mem[m].group, mem[m].join_state, "ERROR", mem[m].user, mem[m].told)
        PROVE  CountInv'
    <3>1. \A n \in Members : mem'[n].join_state = mem[n].join_state
      BY <2>3 DEF MemStep
    <3>2. /\ \A f \in Groups : f # g => grp'[f] = grp[f]
          /\ grp'[g].active = grp[g].active \ {m}
          /\ grp'[g].members = Adjusted(grp[g].members, mem[m].join_state, -1)
      BY <2>3 DEF GrpStep
    <3>3. CountAt(g)'
      BY <2>1, <2>3, <3>1, <3>2, CountLess
    <3> QED
      BY <3>1, <3>2, <3>3, CountGroup
  <2> QED
    BY <1>14, <2>2, <2>3 DEF ErrorNextEffect
<1>15. ASSUME NEW c \in Ctxs, NEW g, g = ctx[c].g, NEW m, m = ctx[c].m, JoinErrorEffect(c, g, m)
      PROVE  CountInv'
  <2>1. g \in Groups /\ m \in Members
    BY <1>15 DEF JoinErrorEffect
  <2>2. CASE UNCHANGED <<grp, mem>>
    BY <2>2, CountSame
  <2>3. CASE /\ grp[g].pending # <<>> /\ m = Head(grp[g].pending)
             /\ GrpStep(g, grp[g].ref, grp[g].state, Without(grp[g].pending, m), grp[g].active \ {m},
                        grp[g].members, grp[g].retries)
             /\ MemStep(m, mem[m].ref + 1, mem[m].group, mem[m].join_state, mem[m].state,
                        mem[m].user, mem[m].told)
    <3>1. m \in Range(grp[g].pending)
      BY <2>1, <2>3, TypedIs, ListIs, TailList DEF IsGroup
    <3>2. PendOK(g, m)
      BY <2>1, <3>1, ListIs
    <3>3. m \notin grp[g].active
      BY <2>1, <3>2, ListIs DEF PendOK, ActOK
    <3>4. \A f \in Groups : grp'[f].members = grp[f].members /\ grp'[f].active = grp[f].active
      BY <2>3, <3>3 DEF GrpStep
    <3>5. \A n \in Members : mem'[n].join_state = mem[n].join_state
      BY <2>3 DEF MemStep
    <3> QED
      BY <3>4, <3>5, CountSame
  <2> QED
    BY <1>15, <2>2, <2>3 DEF JoinErrorEffect
<1>16. ASSUME NEW c \in Ctxs, NEW g, g = ctx[c].g, JoinRecordEffect(c, g)
      PROVE  CountInv'
  <2>1. mem' = mem
    BY <1>16 DEF JoinRecordEffect
  <2>2. grp' = grp \/ \E st, rt : GrpStep(g, grp[g].ref, st, grp[g].pending, grp[g].active, grp[g].members, rt)
    BY <1>16 DEF JoinRecordEffect
  <2>3. \A f \in Groups : grp'[f].members = grp[f].members /\ grp'[f].active = grp[f].active
    BY <2>2 DEF GrpStep
  <2> QED
    BY <2>1, <2>3, CountSame
<1>17. ASSUME NEW c \in Ctxs, NEW g, g = ctx[c].g, LeaveRetryEffect(c, g)
      PROVE  CountInv'
  <2>1. mem' = mem
    BY <1>17 DEF LeaveRetryEffect
  <2>2. grp' = grp \/ \E st, rt : GrpStep(g, grp[g].ref, st, grp[g].pending, grp[g].active, grp[g].members, rt)
    BY <1>17 DEF LeaveRetryEffect
  <2>3. \A f \in Groups : grp'[f].members = grp[f].members /\ grp'[f].active = grp[f].active
    BY <2>2 DEF GrpStep
  <2> QED
    BY <2>1, <2>3, CountSame
<1>18. ASSUME NEW g \in Groups, SaEffect(g)
      PROVE  CountInv'
  <2>1. grp' = grp /\ mem' = mem
    BY <1>18 DEF SaEffect
  <2> QED
    BY <2>1, CountSame
<1>19. ASSUME NEW c \in {"recv", "timeout"}, NEW g \in Groups, JoinHandlerEffect(c, g)
      PROVE  CountInv'
  <2>1. grp' = grp /\ mem' = mem
    BY <1>19 DEF JoinHandlerEffect
  <2> QED
    BY <2>1, CountSame
<1>20. ASSUME NEW c \in {"recv", "timeout"}, NEW g \in Groups, LeaveHandlerEffect(c, g)
      PROVE  CountInv'
  <2>1. grp' = grp /\ mem' = mem
    BY <1>20 DEF LeaveHandlerEffect
  <2> QED
    BY <2>1, CountSame
<1>21. ASSUME EventEffect
      PROVE  CountInv'
  <2>1. grp' = grp /\ mem' = mem
    BY <1>21 DEF EventEffect
  <2> QED
    BY <2>1, CountSame
<1>22. ASSUME GroupsEventEffect
      PROVE  CountInv'
  <2>1. mem' = mem
    BY <1>22 DEF GroupsEventEffect
  <2>2. \A f \in Groups : grp'[f].members = grp[f].members /\ grp'[f].active = grp[f].active
    BY <1>22 DEF GroupsEventEffect
  <2> QED
    BY <2>1, <2>2, CountSame
<1>23. ASSUME RemoveEffect
      PROVE  CountInv'
  <2>1. grp' = grp /\ mem' = mem
    BY <1>23 DEF RemoveEffect
  <2> QED
    BY <2>1, CountSame
<1>24. ASSUME UNCHANGED vars PROVE CountInv'
  <2>1. grp' = grp /\ mem' = mem
    BY <1>24 DEF vars
  <2> QED
    BY <2>1, CountSame
<1> QED
  BY <1>1, <1>2, <1>3, <1>4, <1>5, <1>6, <1>7, <1>8, <1>9, <1>10, <1>11, <1>12, <1>13, <1>14,
     <1>15, <1>16, <1>17, <1>18, <1>19, <1>20, <1>21, <1>22, <1>23, <1>24
     DEF Effects

============================================================================
