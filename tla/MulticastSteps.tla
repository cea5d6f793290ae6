-------------------------- MODULE MulticastSteps ---------------------------
(*****************************************************************************)
(* Every step of Multicast has one of the effects of MulticastEffects: one   *)
(* lemma per action, and NextEffects for all of them.                        *)
(*****************************************************************************)
EXTENDS Multicast, MulticastGroups

USE Zenon

(* Two lists without duplicates and without common elements, one after the other. *)
LEMMA ConcatList ==
    ASSUME NEW S, NEW s \in Seq(S), NEW t \in Seq(S), IsInjective(s), IsInjective(t),
           \A x : x \in Range(s) => x \notin Range(t)
    PROVE  /\ s \o t \in Seq(S) /\ IsInjective(s \o t)
           /\ Range(s \o t) = Range(s) \cup Range(t)
<1> DEFINE u == s \o t
<1>1. /\ u \in Seq(S) /\ Len(s) \in Nat /\ Len(t) \in Nat
      /\ DOMAIN u = 1..(Len(s) + Len(t)) /\ DOMAIN s = 1..Len(s) /\ DOMAIN t = 1..Len(t)
      /\ \A i \in 1..(Len(s) + Len(t)) : u[i] = IF i <= Len(s) THEN s[i] ELSE t[i - Len(s)]
  BY SMT
<1> HIDE DEF u
<1>2. ASSUME NEW i \in DOMAIN u, i <= Len(s) PROVE i \in DOMAIN s /\ u[i] = s[i]
  BY <1>1, <1>2, SMT
<1>3. ASSUME NEW i \in DOMAIN u, ~(i <= Len(s)) PROVE i - Len(s) \in DOMAIN t /\ u[i] = t[i - Len(s)]
  BY <1>1, <1>3, SMT
<1>4. \A i, j \in DOMAIN u : i - Len(s) = j - Len(s) => i = j
  BY <1>1, SMT
<1>5. \A x : x \in Range(s) => x \notin Range(t)
  OBVIOUS
<1>6. IsInjective(u)
  <2> SUFFICES ASSUME NEW i \in DOMAIN u, NEW j \in DOMAIN u, u[i] = u[j] PROVE i = j
    BY DEF IsInjective
  <2>1. CASE i <= Len(s) /\ j <= Len(s)
    BY <2>1, <1>2 DEF IsInjective
  <2>2. CASE ~(i <= Len(s)) /\ ~(j <= Len(s))
    BY <2>2, <1>3, <1>4 DEF IsInjective
  <2>3. CASE i <= Len(s) /\ ~(j <= Len(s))
    BY <2>3, <1>2, <1>3, <1>5, SMT DEF Range
  <2>4. CASE ~(i <= Len(s)) /\ j <= Len(s)
    BY <2>4, <1>2, <1>3, <1>5, SMT DEF Range
  <2> QED
    BY <2>1, <2>2, <2>3, <2>4
<1>7. \A i \in DOMAIN u : u[i] \in Range(s) \cup Range(t)
  BY <1>2, <1>3 DEF Range
<1>8. \A i \in DOMAIN s : s[i] \in Range(u)
  <2>1. \A i \in DOMAIN s : i \in DOMAIN u /\ i <= Len(s)
    BY <1>1, SMT
  <2> QED
    BY <1>2, <2>1 DEF Range
<1>9. \A i \in DOMAIN t : t[i] \in Range(u)
  <2> SUFFICES ASSUME NEW i \in DOMAIN t PROVE t[i] \in Range(u)
    OBVIOUS
  <2>1. i + Len(s) \in DOMAIN u /\ ~(i + Len(s) <= Len(s)) /\ (i + Len(s)) - Len(s) = i
    BY <1>1, SMT
  <2> QED
    BY <2>1, <1>3 DEF Range
<1>10. Range(u) = Range(s) \cup Range(t)
  <2>1. \A x \in Range(u) : x \in Range(s) \cup Range(t)
    BY <1>7 DEF Range
  <2>2. \A x \in Range(s) : x \in Range(u)
    BY <1>8 DEF Range
  <2>3. \A x \in Range(t) : x \in Range(u)
    BY <1>9 DEF Range
  <2> QED
    BY <2>1, <2>2, <2>3
<1> QED
  BY <1>1, <1>6, <1>10 DEF u

(* Orders(S) has lists of S. *)
LEMMA OrdersList ==
    ASSUME FiniteSetFacts, NEW S, IsFiniteSet(S), NEW t \in Orders(S)
    PROVE  t \in Seq(S) /\ IsInjective(t) /\ Range(t) = S
<1>1. Cardinality(S) \in Nat
  BY CardStep
<1>2. /\ t \in [1..Cardinality(S) -> S] /\ IsInjective(t)
      /\ \A x \in S : \E i \in 1..Cardinality(S) : t[i] = x
  BY DEF Orders, Bijection, Injection, Surjection
<1>3. t \in Seq(S)
  BY <1>1, <1>2, SMT
<1> QED
  BY <1>2, <1>3 DEF Range

(* The fields of a record. *)
GroupIs(r, ref, mgid, state, pending, active, members, js, pk, retries) ==
    /\ r = [x \in GroupFields |-> r[x]]
    /\ r.ref = ref /\ r.mgid = mgid /\ r.state = state /\ r.pending = pending /\ r.active = active
    /\ r.members = members /\ r.join_state = js /\ r.pkey_index = pk /\ r.retries = retries

MemberIs(r, ref, group, js, state, user, told) ==
    /\ r = [x \in MemberFields |-> r[x]]
    /\ r.ref = ref /\ r.group = group /\ r.mgid \in AllMgids \cup {Zero} /\ r.join_state = js
    /\ r.state = state /\ r.user = user /\ r.told = told

CtxIs(r, pc, g, m, pk, rec) ==
    /\ r = [x \in CtxFields |-> r[x]]
    /\ r.pc = pc /\ r.g = g /\ r.m = m /\ r.pk = pk /\ r.rec = rec

(* The records that Init and the frees assign have their types. *)
LEMMA RecTypes ==
    /\ FreeGroup \in GroupRecs /\ FreeMember \in MemberRecs
    /\ IdleCtx \in CtxRecs /\ NoQuery \in QueryRecs
<1>1. FreeGroup \in GroupRecs
  BY MulticastAssumption, SMT DEF FreeGroup, GroupRecs
<1>2. FreeMember \in MemberRecs
  BY SMT DEF FreeMember, MemberRecs
<1>3. IdleCtx \in CtxRecs
  BY SMT DEF IdleCtx, CtxRecs, PCs, Records
<1>4. NoQuery \in QueryRecs
  BY SMT DEF NoQuery, QueryRecs
<1> QED
  BY <1>1, <1>2, <1>3, <1>4

(* The fields of a free group have their types. *)
LEMMA FreeTypes ==
    /\ "IDLE" \in {"IDLE", "BUSY", "GROUP_ERROR", "PKEY_EVENT"}
    /\ <<>> \in Seq(Members) /\ {} \in SUBSET Members /\ [i \in Types |-> 0] \in [Types -> Int]
    /\ {} \in SUBSET Types /\ Null \in PkeyIndices \cup {Null} /\ Retries \in Int
BY MulticastAssumption, SMT

(* An assignment of record r to group g. *)
LEMMA GrpSet ==
    ASSUME Typed, NEW g \in Groups, NEW r, IsGroup(r), grp' = [grp EXCEPT ![g] = r]
    PROVE  GrpStep(g, r.ref, r.state, r.pending, r.active, r.members, r.retries)
BY GroupRec DEF Typed, GrpStep

(* An assignment of record r to member m. *)
LEMMA MemSet ==
    ASSUME Typed, NEW m \in Members, NEW r, IsMember(r), mem' = [mem EXCEPT ![m] = r]
    PROVE  MemStep(m, r.ref, r.group, r.join_state, r.state, r.user, r.told)
BY MemberRec DEF Typed, MemStep

(* An assignment of record r to context c. *)
LEMMA CtxSet ==
    ASSUME Typed, NEW c \in Ctxs, NEW r, IsCtx(r), ctx' = [ctx EXCEPT ![c] = r]
    PROVE  CtxStep(c, r.pc, r.g, r.m)
BY CtxRec DEF Typed, CtxStep

(* An assignment of record r to the query of group g. *)
LEMMA QuerySet ==
    ASSUME Typed, NEW g \in Groups, NEW r, IsQuery(r), query' = [query EXCEPT ![g] = r]
    PROVE  QueryStep(g, r.op, r.m)
BY QueryRec DEF Typed, QueryStep

(* queue_work. *)
LEMMA QueueWork ==
    ASSUME Typed, IsInjective(wq), NEW g \in Groups, queue_work(g)
    PROVE  Queued(g)
<1> USE DEF Queued
<1>1. CASE g \in Range(wq)
  BY <1>1, TypedIs DEF queue_work
<1>2. CASE g \notin Range(wq)
  <2>1. wq' = Append(wq, g)
    BY <1>2 DEF queue_work
  <2>2. wq \in Seq(Groups)
    BY TypedIs
  <2>3. /\ Append(wq, g) \in Seq(Groups) /\ Range(Append(wq, g)) = Range(wq) \cup {g}
        /\ IsInjective(wq) /\ g \notin Range(wq) => IsInjective(Append(wq, g))
    BY <2>2, AppendList, SMT
  <2> QED
    BY <1>2, <2>1, <2>3
<1> QED
  BY <1>1, <1>2

(* A context goes to pc. *)
LEMMA CtxGoto ==
    ASSUME Typed, NEW c \in Ctxs, NEW pc \in PCs, Goto(c, pc)
    PROVE  CtxStep(c, pc, ctx[c].g, ctx[c].m)
<1>0. IsCtx(ctx[c])
  BY TypedIs
<1>1. CtxStep(c, pc, ctx[c].g, ctx[c].m)
  <2> DEFINE r == [ctx[c] EXCEPT !.pc = pc]
  <2>1. ctx' = [ctx EXCEPT ![c] = r]
    BY DEF Goto
  <2>2. CtxIs(r, pc, ctx[c].g, ctx[c].m, ctx[c].pk, ctx[c].rec)
    BY <1>0 DEF IsCtx, CtxFields, CtxIs, IdleCtx
  <2> HIDE DEF r
  <2>3. IsCtx(r)
    BY <1>0, <2>2 DEF IsCtx, CtxIs, PCs
  <2> QED
    BY <1>0, <2>1, <2>2, <2>3, CtxSet DEF CtxIs
<1> QED
  BY <1>1

(* A context goes to pc to work for member m, or for none. *)
LEMMA CtxWork ==
    ASSUME Typed, NEW c \in Ctxs, NEW pc \in PCs, NEW m \in Members \cup {Null},
           ctx' = [ctx EXCEPT ![c].pc = pc, ![c].m = m]
    PROVE  CtxStep(c, pc, ctx[c].g, m)
<1>0. IsCtx(ctx[c])
  BY TypedIs
<1>1. CtxStep(c, pc, ctx[c].g, m)
  <2> DEFINE r == [ctx[c] EXCEPT !.pc = pc, !.m = m]
  <2>1. ctx' = [ctx EXCEPT ![c] = r]
    BY Zenon
  <2>2. CtxIs(r, pc, ctx[c].g, m, ctx[c].pk, ctx[c].rec)
    BY <1>0 DEF IsCtx, CtxFields, CtxIs, IdleCtx
  <2> HIDE DEF r
  <2>3. IsCtx(r)
    BY <1>0, <2>2 DEF IsCtx, CtxIs, PCs
  <2> QED
    BY <1>0, <2>1, <2>2, <2>3, CtxSet DEF CtxIs
<1> QED
  BY <1>1

(* A context ends, and a flush of its group with it. *)
LEMMA CtxFinish ==
    ASSUME Typed, NEW c \in Ctxs, Finish(c)
    PROVE  CtxStep(c, "idle", Null, Null) /\ flushing' \subseteq flushing
<1>1. IsCtx(IdleCtx) /\ IdleCtx.pc = "idle" /\ IdleCtx.g = Null /\ IdleCtx.m = Null
  BY RecTypes, CtxRec DEF IdleCtx
<1>2. ctx' = [ctx EXCEPT ![c] = IdleCtx] /\ flushing' \subseteq flushing
  BY DEF Finish
<1> QED
  BY <1>1, <1>2, CtxSet

(* A context that starts with group g. *)
LEMMA CtxTake ==
    ASSUME Typed, NEW c \in Ctxs, NEW g \in Groups, NEW pc \in PCs,
           ctx' = [ctx EXCEPT ![c] = [IdleCtx EXCEPT !.pc = pc, !.g = g]]
    PROVE  CtxStep(c, pc, g, Null)
<1> DEFINE r == [IdleCtx EXCEPT !.pc = pc, !.g = g]
<1>0. IsCtx(IdleCtx) /\ IdleCtx.m = Null
  BY RecTypes, CtxRec DEF IdleCtx
<1>2. CtxIs(r, pc, g, IdleCtx.m, IdleCtx.pk, IdleCtx.rec)
  BY <1>0 DEF IsCtx, CtxFields, CtxIs
<1> HIDE DEF r
<1>3. IsCtx(r)
  BY <1>0, <1>2 DEF IsCtx, CtxIs, PCs
<1>4. ctx' = [ctx EXCEPT ![c] = r]
  BY DEF r
<1>5. CtxStep(c, r.pc, r.g, r.m)
  BY <1>3, <1>4, CtxSet
<1> QED
  BY <1>0, <1>2, <1>5 DEF CtxIs

(* join_handler starts with a failed join of member m. *)
LEMMA CtxJoinErr ==
    ASSUME Typed, NEW c \in Ctxs, NEW g \in Groups, NEW m \in Members,
           ctx' = [ctx EXCEPT ![c] = [IdleCtx EXCEPT !.pc = "joinerr", !.g = g, !.m = m]]
    PROVE  CtxStep(c, "joinerr", g, m)
<1> DEFINE r == [IdleCtx EXCEPT !.pc = "joinerr", !.g = g, !.m = m]
<1>0. IsCtx(IdleCtx) /\ IdleCtx.m = Null
  BY RecTypes, CtxRec DEF IdleCtx
<1>2. CtxIs(r, "joinerr", g, m, IdleCtx.pk, IdleCtx.rec)
  BY <1>0 DEF IsCtx, CtxFields, CtxIs
<1> HIDE DEF r
<1>3. IsCtx(r)
  BY <1>0, <1>2 DEF IsCtx, CtxIs, PCs
<1>4. ctx' = [ctx EXCEPT ![c] = r]
  BY DEF r
<1>5. CtxStep(c, r.pc, r.g, r.m)
  BY <1>3, <1>4, CtxSet
<1> QED
  BY <1>0, <1>2, <1>5 DEF CtxIs

(* join_handler starts with the record of a join. *)
LEMMA CtxJoined ==
    ASSUME Typed, NEW c \in Ctxs, NEW g \in Groups, NEW pk \in PkeyIndices \cup {Null}, NEW rec \in Records,
           ctx' = [ctx EXCEPT ![c] = [IdleCtx EXCEPT !.pc = "joined", !.g = g, !.pk = pk, !.rec = rec]]
    PROVE  CtxStep(c, "joined", g, Null)
<1> DEFINE r == [IdleCtx EXCEPT !.pc = "joined", !.g = g, !.pk = pk, !.rec = rec]
<1>0. IsCtx(IdleCtx) /\ IdleCtx.m = Null
  BY RecTypes, CtxRec DEF IdleCtx
<1>2. CtxIs(r, "joined", g, IdleCtx.m, pk, rec)
  BY <1>0 DEF IsCtx, CtxFields, CtxIs
<1> HIDE DEF r
<1>3. IsCtx(r)
  BY <1>0, <1>2 DEF IsCtx, CtxIs, PCs
<1>4. ctx' = [ctx EXCEPT ![c] = r]
  BY DEF r
<1>5. CtxStep(c, r.pc, r.g, r.m)
  BY <1>3, <1>4, CtxSet
<1> QED
  BY <1>0, <1>2, <1>5 DEF CtxIs

(* leave_handler starts with another leave of the same types. *)
LEMMA CtxReleave ==
    ASSUME Typed, NEW c \in Ctxs, NEW g \in Groups, NEW js \in SUBSET Types,
           ctx' = [ctx EXCEPT ![c] = [IdleCtx EXCEPT !.pc = "releave", !.g = g, !.rec.js = js]]
    PROVE  CtxStep(c, "releave", g, Null)
<1> DEFINE r == [IdleCtx EXCEPT !.pc = "releave", !.g = g, !.rec.js = js]
<1>0. IsCtx(IdleCtx) /\ IdleCtx.m = Null
  BY RecTypes, CtxRec DEF IdleCtx
<1>1. [IdleCtx.rec EXCEPT !.js = js] \in Records
  BY <1>0, SMT DEF IsCtx, Records
<1>2. CtxIs(r, "releave", g, IdleCtx.m, IdleCtx.pk, [IdleCtx.rec EXCEPT !.js = js])
  BY <1>0 DEF IsCtx, CtxFields, CtxIs
<1> HIDE DEF r
<1>3. IsCtx(r)
  BY <1>0, <1>2, <1>1 DEF IsCtx, CtxIs, PCs
<1>4. ctx' = [ctx EXCEPT ![c] = r]
  BY DEF r
<1>5. CtxStep(c, r.pc, r.g, r.m)
  BY <1>3, <1>4, CtxSet
<1> QED
  BY <1>0, <1>2, <1>5 DEF CtxIs

(* A context goes to pc with the types of a leave. *)
LEMMA CtxJs ==
    ASSUME Typed, NEW c \in Ctxs, NEW pc \in PCs, NEW js \in SUBSET Types,
           ctx' = [ctx EXCEPT ![c].pc = pc, ![c].rec.js = js]
    PROVE  CtxStep(c, pc, ctx[c].g, ctx[c].m)
<1>0. IsCtx(ctx[c])
  BY TypedIs
<1>1. [ctx[c].rec EXCEPT !.js = js] \in Records
  BY <1>0, SMT DEF IsCtx, Records
<1>2. CtxStep(c, pc, ctx[c].g, ctx[c].m)
  <2> DEFINE r == [ctx[c] EXCEPT !.pc = pc, !.rec.js = js]
  <2>1. ctx' = [ctx EXCEPT ![c] = r]
    BY Zenon
  <2>2. CtxIs(r, pc, ctx[c].g, ctx[c].m, ctx[c].pk, [ctx[c].rec EXCEPT !.js = js])
    BY <1>0 DEF IsCtx, CtxFields, CtxIs, IdleCtx
  <2> HIDE DEF r
  <2>3. IsCtx(r)
    BY <1>0, <2>2, <1>1 DEF IsCtx, CtxIs, PCs
  <2> QED
    BY <1>0, <2>1, <2>2, <2>3, CtxSet DEF CtxIs
<1> QED
  BY <1>2

(* A context goes to pc with an index of the P_Key. *)
LEMMA CtxPk ==
    ASSUME Typed, NEW c \in Ctxs, NEW pc \in PCs, NEW pk \in PkeyIndices \cup {Null},
           ctx' = [ctx EXCEPT ![c].pc = pc, ![c].pk = pk]
    PROVE  CtxStep(c, pc, ctx[c].g, ctx[c].m)
<1>0. IsCtx(ctx[c])
  BY TypedIs
<1>1. CtxStep(c, pc, ctx[c].g, ctx[c].m)
  <2> DEFINE r == [ctx[c] EXCEPT !.pc = pc, !.pk = pk]
  <2>1. ctx' = [ctx EXCEPT ![c] = r]
    BY Zenon
  <2>2. CtxIs(r, pc, ctx[c].g, ctx[c].m, pk, ctx[c].rec)
    BY <1>0 DEF IsCtx, CtxFields, CtxIs, IdleCtx
  <2> HIDE DEF r
  <2>3. IsCtx(r)
    BY <1>0, <2>2 DEF IsCtx, CtxIs, PCs
  <2> QED
    BY <1>0, <2>1, <2>2, <2>3, CtxSet DEF CtxIs
<1> QED
  BY <1>1

(* A group goes to state st. *)
LEMMA GrpState ==
    ASSUME Typed, NEW g \in Groups, NEW st \in {"IDLE", "BUSY", "GROUP_ERROR", "PKEY_EVENT"},
           grp' = [grp EXCEPT ![g].state = st]
    PROVE  GrpStep(g, grp[g].ref, st, grp[g].pending, grp[g].active, grp[g].members, grp[g].retries)
<1>0. IsGroup(grp[g])
  BY TypedIs
<1>1. GrpStep(g, grp[g].ref, st, grp[g].pending, grp[g].active,
            grp[g].members, grp[g].retries)
  <2> DEFINE r == [grp[g] EXCEPT !.state = st]
  <2>1. grp' = [grp EXCEPT ![g] = r]
    BY Zenon
  <2>2. GroupIs(r, grp[g].ref, grp[g].mgid, st, grp[g].pending, grp[g].active,
               grp[g].members, grp[g].join_state, grp[g].pkey_index, grp[g].retries)
    BY <1>0 DEF IsGroup, GroupFields, GroupIs
  <2> HIDE DEF r
  <2>3. IsGroup(r)
    BY <1>0, <2>2 DEF IsGroup, GroupIs
  <2>4. GrpStep(g, r.ref, r.state, r.pending, r.active, r.members, r.retries)
    BY <1>0, <2>1, <2>3, GrpSet
  <2> QED
    BY <2>2, <2>4 DEF GroupIs
<1> QED
  BY <1>1

(* The references of a member change. *)
LEMMA MemRef ==
    ASSUME Typed, NEW m \in Members, NEW ref \in Int, mem' = [mem EXCEPT ![m].ref = ref]
    PROVE  MemStep(m, ref, mem[m].group, mem[m].join_state, mem[m].state, mem[m].user, mem[m].told)
<1>0. IsMember(mem[m])
  BY TypedIs
<1>1. MemStep(m, ref, mem[m].group, mem[m].join_state, mem[m].state, mem[m].user, mem[m].told)
  <2> DEFINE r == [mem[m] EXCEPT !.ref = ref]
  <2>1. mem' = [mem EXCEPT ![m] = r]
    BY Zenon
  <2>2. MemberIs(r, ref, mem[m].group, mem[m].join_state, mem[m].state, mem[m].user, mem[m].told)
    BY <1>0 DEF IsMember, MemberFields, MemberIs
  <2> HIDE DEF r
  <2>3. IsMember(r)
    BY <1>0, <2>2 DEF IsMember, MemberIs
  <2> QED
    BY <1>0, <2>1, <2>2, <2>3, MemSet DEF MemberIs
<1> QED
  BY <1>1

(* Counts are integers. *)
LEMMA Refs ==
    ASSUME Typed
    PROVE  /\ \A g \in Groups : /\ grp[g].ref + 1 \in Int /\ grp[g].ref - 1 \in Int
                                /\ grp[g].retries - 1 \in Int
           /\ \A m \in Members : mem[m].ref + 1 \in Int /\ mem[m].ref - 1 \in Int
           /\ pref + 1 \in Int /\ pref - 1 \in Int
<1>1. \A i \in Int : i + 1 \in Int /\ i - 1 \in Int
  BY SMT
<1>2. /\ \A g \in Groups : grp[g].ref \in Int /\ grp[g].retries \in Int
      /\ \A m \in Members : mem[m].ref \in Int
      /\ pref \in Int
  BY TypedIs DEF IsGroup, IsMember
<1> QED
  BY <1>1, <1>2

(* adjust_membership keeps the counts integers. *)
LEMMA AdjustedType ==
    ASSUME NEW ms \in [Types -> Int], NEW js, NEW inc \in Int
    PROVE  Adjusted(ms, js, inc) \in [Types -> Int]
BY SMT DEF Adjusted

(* list_del of m from group g, whose counts become ms. *)
LEMMA GrpDel ==
    ASSUME Typed, NEW g \in Groups, NEW m \in Members, NEW ms \in [Types -> Int],
           NEW st \in {"IDLE", "BUSY", "GROUP_ERROR", "PKEY_EVENT"},
           grp' = [grp EXCEPT ![g] = [grp[g] EXCEPT !.members = ms, !.pending = Without(@, m),
                                                    !.active = @ \ {m}, !.state = st]]
    PROVE  GrpStep(g, grp[g].ref, st, Without(grp[g].pending, m), grp[g].active \ {m}, ms, grp[g].retries)
<1>0. IsGroup(grp[g])
  BY TypedIs
<1>1. Without(grp[g].pending, m) \in Seq(Members) /\ grp[g].active \ {m} \in SUBSET Members
  BY <1>0, WithoutSeq DEF IsGroup
<1>2. GrpStep(g, grp[g].ref, st, Without(grp[g].pending, m), grp[g].active \ {m},
            ms, grp[g].retries)
  <2> DEFINE r == [grp[g] EXCEPT !.members = ms, !.pending = Without(@, m), !.active = @ \ {m}, !.state = st]
  <2>1. grp' = [grp EXCEPT ![g] = r]
    BY Zenon
  <2>2. GroupIs(r, grp[g].ref, grp[g].mgid, st, Without(grp[g].pending, m), grp[g].active \ {m},
               ms, grp[g].join_state, grp[g].pkey_index, grp[g].retries)
    BY <1>0 DEF IsGroup, GroupFields, GroupIs
  <2> HIDE DEF r
  <2>3. IsGroup(r)
    BY <1>0, <2>2, <1>1 DEF IsGroup, GroupIs
  <2>4. GrpStep(g, r.ref, r.state, r.pending, r.active, r.members, r.retries)
    BY <1>0, <2>1, <2>3, GrpSet
  <2> QED
    BY <2>2, <2>4 DEF GroupIs
<1> QED
  BY <1>2

(* list_del of m from its group. *)
LEMMA ListDel ==
    ASSUME Typed, NEW g \in Groups, NEW m \in Members, grp' = [grp EXCEPT ![g] = list_del(@, m)]
    PROVE  GrpStep(g, grp[g].ref, grp[g].state, Without(grp[g].pending, m), grp[g].active \ {m},
                   grp[g].members, grp[g].retries)
<1>0. IsGroup(grp[g])
  BY TypedIs
<1>1. Without(grp[g].pending, m) \in Seq(Members) /\ grp[g].active \ {m} \in SUBSET Members
  BY <1>0, WithoutSeq DEF IsGroup
<1>2. GrpStep(g, grp[g].ref, grp[g].state, Without(grp[g].pending, m), grp[g].active \ {m},
            grp[g].members, grp[g].retries)
  <2> DEFINE r == [grp[g] EXCEPT !.pending = Without(@, m), !.active = @ \ {m}]
  <2>1. grp' = [grp EXCEPT ![g] = r]
    BY DEF list_del
  <2>2. GroupIs(r, grp[g].ref, grp[g].mgid, grp[g].state, Without(grp[g].pending, m), grp[g].active \ {m},
               grp[g].members, grp[g].join_state, grp[g].pkey_index, grp[g].retries)
    BY <1>0 DEF IsGroup, GroupFields, GroupIs
  <2> HIDE DEF r
  <2>3. IsGroup(r)
    BY <1>0, <2>2, <1>1 DEF IsGroup, GroupIs
  <2>4. GrpStep(g, r.ref, r.state, r.pending, r.active, r.members, r.retries)
    BY <1>0, <2>1, <2>3, GrpSet
  <2> QED
    BY <2>2, <2>4 DEF GroupIs
<1> QED
  BY <1>2

(* release_group has the effect Released. *)
LEMMA Release ==
    ASSUME Typed, NEW g \in Groups, release_group(g)
    PROVE  Released(g)
<1> USE DEF Released
<1>0. IsGroup(grp[g])
  BY TypedIs
<1>1. CASE grp[g].ref = 1
  <2>1. /\ IsGroup(FreeGroup) /\ FreeGroup.ref = 0 /\ FreeGroup.state = "IDLE"
        /\ FreeGroup.pending = <<>> /\ FreeGroup.active = {}
        /\ FreeGroup.members = [i \in Types |-> 0] /\ FreeGroup.retries = Retries
    BY RecTypes, GroupRec DEF FreeGroup
  <2>2. grp' = [grp EXCEPT ![g] = FreeGroup] /\ pref' = pref - 1
    BY <1>1 DEF release_group
  <2> QED
    BY <1>1, <2>1, <2>2, GrpSet
<1>2. CASE grp[g].ref # 1
  <2>0. grp' = [grp EXCEPT ![g] = IF grp[g].ref = 1 THEN FreeGroup ELSE [grp[g] EXCEPT !.ref = @ - 1]]
    BY DEF release_group
  <2>1. GrpStep(g, grp[g].ref - 1, grp[g].state, grp[g].pending, grp[g].active,
              grp[g].members, grp[g].retries)
    <3> DEFINE r == [grp[g] EXCEPT !.ref = @ - 1]
    <3>1. grp' = [grp EXCEPT ![g] = r]
      BY <1>2, <2>0
    <3>2. GroupIs(r, grp[g].ref - 1, grp[g].mgid, grp[g].state, grp[g].pending, grp[g].active,
                 grp[g].members, grp[g].join_state, grp[g].pkey_index, grp[g].retries)
      BY <1>0 DEF IsGroup, GroupFields, GroupIs
    <3> HIDE DEF r
    <3>3. IsGroup(r)
      BY <1>0, <3>2, Refs DEF IsGroup, GroupIs
    <3>4. GrpStep(g, r.ref, r.state, r.pending, r.active, r.members, r.retries)
      BY <1>0, <3>1, <3>3, GrpSet
    <3> QED
      BY <3>2, <3>4 DEF GroupIs
  <2> QED
    BY <1>2, <2>1 DEF release_group
<1> QED
  BY <1>1, <1>2

(* ib_sa_join_multicast. *)
LEMMA JoinStep ==
    ASSUME Typed, NEW m \in Members, NEW mg \in Known, NEW js \in scn.join_states,
           ib_sa_join_multicast(m, mg, js)
    PROVE  JoinEffect(m, js)
<1> USE DEF JoinEffect
<1>a. PICK g \in Groups :
         /\ acquire_group(g, mg)
         /\ mem' = [mem EXCEPT ![m] = [FreeMember EXCEPT !.ref = 1, !.group = g, !.mgid = mg,
                                         !.join_state = js, !.user = "acquired"]]
  BY DEF ib_sa_join_multicast
<1>b. mem[m].user = "none" /\ rem = "no" /\ UNCHANGED <<ctx, wq, query, fabric, rem, flushing>>
  BY DEF ib_sa_join_multicast
<1>0. IsMember(FreeMember) /\ IsGroup(FreeGroup) /\ IsGroup(grp[g])
  BY TypedIs, RecTypes, MemberRec, GroupRec
<1>1. mg \in AllMgids \cup {Zero} /\ js \in SUBSET Types /\ 1 \in Int
  <2>1. js \in SUBSET Types
    BY MulticastAssumption DEF Typed
  <2>2. \A f \in Live : grp[f].mgid \in AllMgids \cup {Zero}
    BY TypedIs DEF Live, IsGroup
  <2>3. 1 \in Int
    BY SMT
  <2> QED
    BY <2>1, <2>2, <2>3 DEF Known, AllMgids
<1>2. MemStep(m, 1, g, js, "JOINING", "acquired", "nothing")
  <2> DEFINE r == [FreeMember EXCEPT !.ref = 1, !.group = g, !.mgid = mg, !.join_state = js,
                                     !.user = "acquired"]
  <2>1. mem' = [mem EXCEPT ![m] = r]
    BY <1>a
  <2>2. MemberIs(r, 1, g, js, "JOINING", "acquired", "nothing")
    BY <1>0, <1>1 DEF FreeMember, MemberFields, MemberIs
  <2> HIDE DEF r
  <2>3. IsMember(r)
    BY <1>0, <2>2, <1>1 DEF IsMember, MemberIs
  <2> QED
    BY <1>0, <2>1, <2>2, <2>3, MemSet DEF MemberIs
<1>3. CASE /\ g \in Live /\ grp' = [grp EXCEPT ![g].ref = @ + 1] /\ UNCHANGED pref
  <2>1. GrpStep(g, grp[g].ref + 1, grp[g].state, grp[g].pending, grp[g].active,
              grp[g].members, grp[g].retries)
    <3> DEFINE r == [grp[g] EXCEPT !.ref = @ + 1]
    <3>1. grp' = [grp EXCEPT ![g] = r]
      BY <1>3
    <3>2. GroupIs(r, grp[g].ref + 1, grp[g].mgid, grp[g].state, grp[g].pending, grp[g].active,
                 grp[g].members, grp[g].join_state, grp[g].pkey_index, grp[g].retries)
      BY <1>0 DEF IsGroup, GroupFields, GroupIs
    <3> HIDE DEF r
    <3>3. IsGroup(r)
      BY <1>0, <3>2, Refs DEF IsGroup, GroupIs
    <3>4. GrpStep(g, r.ref, r.state, r.pending, r.active, r.members, r.retries)
      BY <1>0, <3>1, <3>3, GrpSet
    <3> QED
      BY <3>2, <3>4 DEF GroupIs
  <2>2. Typed'
    BY <1>3, <1>b, <1>2, <2>1, TypedNext DEF Typed, GrpStep, MemStep
  <2> QED
    BY <1>3, <1>b, <1>2, <2>1, <2>2 DEF Live
<1>4. CASE /\ g \notin Live /\ grp' = [grp EXCEPT ![g] = [FreeGroup EXCEPT !.mgid = mg, !.ref = 1]]
           /\ pref' = pref + 1
  <2>1. GrpStep(g, 1, "IDLE", <<>>, {},
              [i \in Types |-> 0], Retries)
    <3> DEFINE r == [FreeGroup EXCEPT !.mgid = mg, !.ref = 1]
    <3>1. grp' = [grp EXCEPT ![g] = r]
      BY <1>4
    <3>2. GroupIs(r, 1, mg, "IDLE", <<>>, {},
                 [i \in Types |-> 0], {}, Null, Retries)
      BY <1>0 DEF FreeGroup, GroupFields, GroupIs
    <3> HIDE DEF r
    <3>3. IsGroup(r)
      BY <1>0, <3>2, <1>1, FreeTypes DEF IsGroup, GroupIs
    <3>4. GrpStep(g, r.ref, r.state, r.pending, r.active, r.members, r.retries)
      BY <1>0, <3>1, <3>3, GrpSet
    <3> QED
      BY <3>2, <3>4 DEF GroupIs
  <2>2. Typed'
    BY <1>4, <1>b, <1>2, <2>1, Refs, TypedNext DEF Typed, GrpStep, MemStep
  <2> QED
    BY <1>4, <1>b, <1>2, <2>1, <2>2 DEF Live
<1> QED
  BY <1>a, <1>3, <1>4 DEF acquire_group

(* queue_join. *)
LEMMA QueueJoinStep ==
    ASSUME Typed, Shape, NEW m \in Members, queue_join(m), NEW g, g = mem[m].group
    PROVE  QueueJoinEffect(m, g)
<1> USE DEF QueueJoinEffect
<1>a. /\ mem[m].user = "acquired" /\ mem' = [mem EXCEPT ![m].user = "held"]
      /\ UNCHANGED <<ctx, query, fabric, port, flushing>>
      /\ IF grp[g].state = "IDLE"
         THEN /\ grp' = [grp EXCEPT ![g].pending = Append(@, m), ![g].state = "BUSY", ![g].ref = @ + 1]
              /\ queue_work(g)
         ELSE grp' = [grp EXCEPT ![g].pending = Append(@, m)] /\ wq' = wq
  BY DEF queue_join
<1>0. g \in Groups /\ IsMember(mem[m]) /\ IsGroup(grp[g])
  BY <1>a, UsedMember, TypedIs
<1>1. Append(grp[g].pending, m) \in Seq(Members)
  BY <1>0, AppendSeq DEF IsGroup
<1>2. MemStep(m, mem[m].ref, g, mem[m].join_state, mem[m].state, "held", mem[m].told)
  <2> DEFINE r == [mem[m] EXCEPT !.user = "held"]
  <2>1. mem' = [mem EXCEPT ![m] = r]
    BY <1>a
  <2>2. MemberIs(r, mem[m].ref, g, mem[m].join_state, mem[m].state, "held", mem[m].told)
    BY <1>0 DEF IsMember, MemberFields, MemberIs
  <2> HIDE DEF r
  <2>3. IsMember(r)
    BY <1>0, <2>2 DEF IsMember, MemberIs
  <2> QED
    BY <1>0, <2>1, <2>2, <2>3, MemSet DEF MemberIs
<1>3. CASE grp[g].state = "IDLE"
  <2>1. GrpStep(g, grp[g].ref + 1, "BUSY", Append(grp[g].pending, m), grp[g].active,
              grp[g].members, grp[g].retries)
    <3> DEFINE r == [grp[g] EXCEPT !.pending = Append(@, m), !.state = "BUSY", !.ref = @ + 1]
    <3>1. grp' = [grp EXCEPT ![g] = r]
      BY <1>a, <1>3
    <3>2. GroupIs(r, grp[g].ref + 1, grp[g].mgid, "BUSY", Append(grp[g].pending, m), grp[g].active,
                 grp[g].members, grp[g].join_state, grp[g].pkey_index, grp[g].retries)
      BY <1>0 DEF IsGroup, GroupFields, GroupIs
    <3> HIDE DEF r
    <3>3. IsGroup(r)
      BY <1>0, <3>2, <1>1, Refs DEF IsGroup, GroupIs
    <3>4. GrpStep(g, r.ref, r.state, r.pending, r.active, r.members, r.retries)
      BY <1>0, <3>1, <3>3, GrpSet
    <3> QED
      BY <3>2, <3>4 DEF GroupIs
  <2>2. Queued(g) /\ wq' \in Seq(Groups)
    BY <1>a, <1>0, <1>3, QueueWork DEF Shape, Queued
  <2>3. Typed'
    BY <1>a, <1>2, <2>1, <2>2, TypedNext DEF Typed, GrpStep, MemStep, port
  <2> QED
    BY <1>a, <1>0, <1>2, <1>3, <2>1, <2>2, <2>3
<1>4. CASE grp[g].state # "IDLE"
  <2>1. GrpStep(g, grp[g].ref, grp[g].state, Append(grp[g].pending, m), grp[g].active,
              grp[g].members, grp[g].retries)
    <3> DEFINE r == [grp[g] EXCEPT !.pending = Append(@, m)]
    <3>1. grp' = [grp EXCEPT ![g] = r]
      BY <1>a, <1>4
    <3>2. GroupIs(r, grp[g].ref, grp[g].mgid, grp[g].state, Append(grp[g].pending, m), grp[g].active,
                 grp[g].members, grp[g].join_state, grp[g].pkey_index, grp[g].retries)
      BY <1>0 DEF IsGroup, GroupFields, GroupIs
    <3> HIDE DEF r
    <3>3. IsGroup(r)
      BY <1>0, <3>2, <1>1 DEF IsGroup, GroupIs
    <3>4. GrpStep(g, r.ref, r.state, r.pending, r.active, r.members, r.retries)
      BY <1>0, <3>1, <3>3, GrpSet
    <3> QED
      BY <3>2, <3>4 DEF GroupIs
  <2>2. Typed'
    BY <1>a, <1>2, <1>4, <2>1, TypedNext DEF Typed, GrpStep, MemStep, port
  <2> QED
    BY <1>a, <1>0, <1>2, <1>4, <2>1, <2>2
<1> QED
  BY <1>3, <1>4

(* ib_sa_free_multicast. *)
LEMMA FreeStep ==
    ASSUME Typed, Shape, NEW m \in Members, ib_sa_free_multicast(m), NEW g, g = mem[m].group,
           NEW ms, ms = IF mem[m].state = "MEMBER"
                        THEN Adjusted(grp[g].members, mem[m].join_state, -1) ELSE grp[g].members
    PROVE  FreeEffect(m, g, ms)
<1> USE DEF FreeEffect
<1> DEFINE q == IF mem[m].state = "MEMBER"
                THEN adjust_membership(grp[g], mem[m].join_state, -1) ELSE grp[g]
           r == list_del(q, m)
<1>a. /\ mem[m].user \in {"held", "free"}
      /\ UNCHANGED <<ctx, query, fabric, port, flushing>>
      /\ IF r.state = "IDLE"
         THEN /\ grp' = [grp EXCEPT ![g] = [r EXCEPT !.state = "BUSY"]]
              /\ queue_work(g)
              /\ mem' = [mem EXCEPT ![m].ref = @ - 1, ![m].user = "wait"]
         ELSE /\ grp' = [grp EXCEPT ![g] = r] /\ mem' = [mem EXCEPT ![m].user = "release"] /\ wq' = wq
  BY DEF ib_sa_free_multicast
<1>0. g \in Groups /\ IsMember(mem[m]) /\ IsGroup(grp[g])
  BY <1>a, UsedMember, TypedIs
<1>1. ms \in [Types -> Int]
  <2>1. grp[g].members \in [Types -> Int] /\ -1 \in Int
    BY <1>0, SMT DEF IsGroup
  <2> QED
    BY <2>1, AdjustedType
<1>2. q = [grp[g] EXCEPT !.members = ms]
  BY <1>0 DEF adjust_membership, Adjusted, IsGroup, GroupFields
<1> HIDE DEF q
<1>3. /\ r = [grp[g] EXCEPT !.members = ms, !.pending = Without(@, m), !.active = @ \ {m},
                            !.state = grp[g].state]
      /\ r.state = grp[g].state
      /\ [r EXCEPT !.state = "BUSY"]
           = [grp[g] EXCEPT !.members = ms, !.pending = Without(@, m), !.active = @ \ {m}, !.state = "BUSY"]
  BY <1>0, <1>2 DEF list_del, IsGroup, GroupFields
<1> HIDE DEF r
<1>4. CASE grp[g].state = "IDLE"
  <2>1. GrpStep(g, grp[g].ref, "BUSY", Without(grp[g].pending, m), grp[g].active \ {m}, ms, grp[g].retries)
    <3>1. grp' = [grp EXCEPT ![g] = [grp[g] EXCEPT !.members = ms, !.pending = Without(@, m),
                                                   !.active = @ \ {m}, !.state = "BUSY"]]
      <4>1. r.state = "IDLE"
        BY <1>3, <1>4
      <4>2. grp' = [grp EXCEPT ![g] = [r EXCEPT !.state = "BUSY"]]
        BY <1>a, <4>1
      <4>3. [r EXCEPT !.state = "BUSY"]
              = [grp[g] EXCEPT !.members = ms, !.pending = Without(@, m), !.active = @ \ {m}, !.state = "BUSY"]
        BY <1>3
      <4> QED
        BY <4>2, <4>3
    <3> QED
      BY <1>0, <1>1, <3>1, GrpDel
  <2>2. MemStep(m, mem[m].ref - 1, g, mem[m].join_state, mem[m].state, "wait", mem[m].told)
    <3> DEFINE u == [mem[m] EXCEPT !.ref = @ - 1, !.user = "wait"]
    <3>1. mem' = [mem EXCEPT ![m] = u]
      <4>1. r.state = "IDLE"
        BY <1>3, <1>4
      <4> QED
        BY <1>a, <4>1
    <3>2. MemberIs(u, mem[m].ref - 1, g, mem[m].join_state, mem[m].state, "wait", mem[m].told)
      BY <1>0 DEF IsMember, MemberFields, MemberIs
    <3> HIDE DEF u
    <3>3. IsMember(u)
      BY <1>0, <3>2, Refs DEF IsMember, MemberIs
    <3> QED
      BY <1>0, <3>1, <3>2, <3>3, MemSet DEF MemberIs
  <2>3. Queued(g) /\ wq' \in Seq(Groups)
    BY <1>a, <1>0, <1>3, <1>4, QueueWork DEF Shape, Queued
  <2>4. Typed'
    BY <1>a, <2>1, <2>2, <2>3, TypedNext DEF Typed, GrpStep, MemStep, port
  <2> QED
    BY <1>a, <1>0, <1>4, <2>1, <2>2, <2>3, <2>4
<1>5. CASE grp[g].state # "IDLE"
  <2>0. grp[g].state \in {"IDLE", "BUSY", "GROUP_ERROR", "PKEY_EVENT"}
    BY <1>0 DEF IsGroup
  <2>1. GrpStep(g, grp[g].ref, grp[g].state, Without(grp[g].pending, m), grp[g].active \ {m}, ms, grp[g].retries)
    <3>1. grp' = [grp EXCEPT ![g] = [grp[g] EXCEPT !.members = ms, !.pending = Without(@, m),
                                                   !.active = @ \ {m}, !.state = grp[g].state]]
      BY <1>a, <1>3, <1>5
    <3> QED
      BY <1>0, <1>1, <2>0, <3>1, GrpDel
  <2>2. MemStep(m, mem[m].ref, g, mem[m].join_state, mem[m].state, "release", mem[m].told)
    <3> DEFINE u == [mem[m] EXCEPT !.user = "release"]
    <3>1. mem' = [mem EXCEPT ![m] = u]
      BY <1>a, <1>3, <1>5
    <3>2. MemberIs(u, mem[m].ref, g, mem[m].join_state, mem[m].state, "release", mem[m].told)
      BY <1>0 DEF IsMember, MemberFields, MemberIs
    <3> HIDE DEF u
    <3>3. IsMember(u)
      BY <1>0, <3>2 DEF IsMember, MemberIs
    <3> QED
      BY <1>0, <3>1, <3>2, <3>3, MemSet DEF MemberIs
  <2>3. Typed'
    BY <1>a, <1>3, <1>5, <2>1, <2>2, TypedNext DEF Typed, GrpStep, MemStep, port
  <2> QED
    BY <1>a, <1>0, <1>3, <1>5, <2>1, <2>2, <2>3
<1> QED
  BY <1>4, <1>5

(* free_release. *)
LEMMA FreeReleaseStep ==
    ASSUME Typed, Shape, NEW m \in Members, free_release(m), NEW g, g = mem[m].group
    PROVE  FreeReleaseEffect(m, g)
<1> USE DEF FreeReleaseEffect
<1>a. /\ mem[m].user = "release" /\ release_group(g)
      /\ mem' = [mem EXCEPT ![m].ref = @ - 1, ![m].user = "wait"]
      /\ UNCHANGED <<ctx, wq, query, fabric, rem, flushing>>
  BY DEF free_release
<1>0. g \in Groups /\ IsMember(mem[m])
  BY <1>a, UsedMember, TypedIs
<1>1. MemStep(m, mem[m].ref - 1, g, mem[m].join_state, mem[m].state, "wait", mem[m].told)
  <2> DEFINE r == [mem[m] EXCEPT !.ref = @ - 1, !.user = "wait"]
  <2>1. mem' = [mem EXCEPT ![m] = r]
    BY <1>a
  <2>2. MemberIs(r, mem[m].ref - 1, g, mem[m].join_state, mem[m].state, "wait", mem[m].told)
    BY <1>0 DEF IsMember, MemberFields, MemberIs
  <2> HIDE DEF r
  <2>3. IsMember(r)
    BY <1>0, <2>2, Refs DEF IsMember, MemberIs
  <2> QED
    BY <1>0, <2>1, <2>2, <2>3, MemSet DEF MemberIs
<1>2. Released(g) /\ grp' \in [Groups -> GroupRecs] /\ pref' \in Int
  BY <1>a, <1>0, Release, Refs, TypedIs DEF GrpStep, Released
<1>3. Typed'
  BY <1>a, <1>1, <1>2, TypedNext DEF Typed, MemStep
<1> QED
  BY <1>a, <1>2, <1>0, <1>1, <1>3

(* free_kfree. *)
LEMMA KfreeStep ==
    ASSUME Typed, NEW m \in Members, free_kfree(m)
    PROVE  KfreeEffect(m)
<1> USE DEF KfreeEffect
<1>a. /\ mem[m].user = "wait" /\ mem[m].ref = 0 /\ mem' = [mem EXCEPT ![m] = FreeMember]
      /\ ctx' = [c \in Ctxs |->
                   IF ctx[c].m = m /\ ctx[c].pc = "wait" THEN [ctx[c] EXCEPT !.pc = "test", !.m = Null]
                   ELSE IF ctx[c].m = m /\ ctx[c].pc = "errwait"
                   THEN [ctx[c] EXCEPT !.pc = "errnext", !.m = Null] ELSE ctx[c]]
      /\ UNCHANGED <<grp, wq, query, fabric, port, flushing>>
  BY DEF free_kfree
<1>1. MemStep(m, 0, Null, {}, "JOINING", "none", "nothing")
  <2>1. /\ IsMember(FreeMember) /\ FreeMember.ref = 0 /\ FreeMember.group = Null /\ FreeMember.join_state = {}
        /\ FreeMember.state = "JOINING" /\ FreeMember.user = "none" /\ FreeMember.told = "nothing"
    BY RecTypes, MemberRec DEF FreeMember
  <2> QED
    BY <1>a, <2>1, MemSet
<1>2. ASSUME NEW c \in Ctxs, NEW pc \in PCs, ctx'[c] = [ctx[c] EXCEPT !.pc = pc, !.m = Null]
      PROVE  IsCtx(ctx'[c]) /\ ctx'[c].pc = pc /\ ctx'[c].m = Null /\ ctx'[c].g = ctx[c].g
  <2>0. IsCtx(ctx[c])
    BY TypedIs
  <2>1. CtxIs(ctx'[c], pc, ctx[c].g, Null, ctx[c].pk, ctx[c].rec)
    BY <1>2, <2>0 DEF IsCtx, CtxFields, CtxIs
  <2>2. IsCtx(ctx'[c])
    BY <2>0, <2>1 DEF IsCtx, CtxIs
  <2> QED
    BY <2>1, <2>2 DEF CtxIs
<1>3. ASSUME NEW c \in Ctxs
      PROVE  /\ IsCtx(ctx'[c])
             /\ \/ /\ ctx[c].m = m /\ ctx[c].pc = "wait"
                   /\ ctx'[c].pc = "test" /\ ctx'[c].m = Null /\ ctx'[c].g = ctx[c].g
                \/ /\ ctx[c].m = m /\ ctx[c].pc = "errwait"
                   /\ ctx'[c].pc = "errnext" /\ ctx'[c].m = Null /\ ctx'[c].g = ctx[c].g
                \/ ctx'[c] = ctx[c] /\ ~(ctx[c].m = m /\ ctx[c].pc \in {"wait", "errwait"})
  <2>1. "test" \in PCs /\ "errnext" \in PCs /\ IsCtx(ctx[c])
    BY TypedIs DEF PCs
  <2>2. CASE ctx[c].m = m /\ ctx[c].pc = "wait"
    <3>1. ctx'[c] = [ctx[c] EXCEPT !.pc = "test", !.m = Null]
      BY <1>a, <2>2
    <3>2. IsCtx(ctx'[c]) /\ ctx'[c].pc = "test" /\ ctx'[c].m = Null /\ ctx'[c].g = ctx[c].g
      BY <1>2, <2>1, <3>1
    <3> QED
      BY <2>2, <3>2
  <2>3. CASE ctx[c].m = m /\ ctx[c].pc = "errwait"
    <3>1. ctx'[c] = [ctx[c] EXCEPT !.pc = "errnext", !.m = Null]
      BY <1>a, <2>3
    <3>2. IsCtx(ctx'[c]) /\ ctx'[c].pc = "errnext" /\ ctx'[c].m = Null /\ ctx'[c].g = ctx[c].g
      BY <1>2, <2>1, <3>1
    <3> QED
      BY <2>3, <3>2
  <2>4. CASE ~(ctx[c].m = m /\ ctx[c].pc \in {"wait", "errwait"})
    <3>1. ctx'[c] = ctx[c]
      BY <1>a, <2>4
    <3> QED
      BY <2>1, <2>4, <3>1
  <2> QED
    BY <2>2, <2>3, <2>4
<1>4. ctx' \in [Ctxs -> CtxRecs]
  BY <1>a, <1>3, CtxRec
<1>5. Typed'
  BY <1>a, <1>1, <1>4, TypedNext DEF Typed, MemStep, port
<1> QED
  BY <1>a, <1>1, <1>3, <1>5

(* work_start. *)
LEMMA WorkStartStep ==
    ASSUME Typed, work_start
    PROVE  WorkStartEffect
<1> USE DEF WorkStartEffect
<1>a. /\ ctx["wq"].pc = "idle" /\ wq # <<>> /\ wq' = Tail(wq)
      /\ ctx' = [ctx EXCEPT !["wq"] = [IdleCtx EXCEPT !.pc = "test", !.g = Head(wq)]]
      /\ UNCHANGED <<grp, mem, query, fabric, port, flushing>>
  BY DEF work_start
<1>1. Head(wq) \in Groups /\ Tail(wq) \in Seq(Groups)
  BY <1>a, TypedIs, TailSeq
<1>2. "wq" \in Ctxs /\ "test" \in PCs
  BY DEF Ctxs, PCs
<1>4. CtxStep("wq", "test", Head(wq), Null)
  BY <1>a, <1>1, <1>2, CtxTake
<1>5. Typed'
  BY <1>a, <1>1, <1>4, TypedNext DEF Typed, CtxStep, port
<1> QED
  BY <1>a, <1>4, <1>5

(* One turn of mcast_work_handler. *)
LEMMA HandlerStep ==
    ASSUME Typed, Shape, NEW c \in Ctxs, mcast_work_handler(c), NEW g, g = ctx[c].g,
           NEW m, m = Head(grp[g].pending)
    PROVE  HandlerEffect(c, g, m)
<1> USE DEF HandlerEffect
<1>a. /\ ctx[c].pc = "test"
      /\ \/ grp[g].state # "BUSY" /\ Goto(c, "err") /\ UNCHANGED <<grp, mem>>
         \/ /\ grp[g].state = "BUSY" /\ grp[g].pending # <<>>
            /\ \/ /\ join_group(g, m) \/ cmp_rec_fails(g, m)
                  /\ ctx' = [ctx EXCEPT ![c].pc = "cb", ![c].m = m]
               \/ /\ mem' = [mem EXCEPT ![m].ref = @ + 1]
                  /\ ctx' = [ctx EXCEPT ![c].pc = "send", ![c].m = m]
                  /\ grp' = grp
         \/ /\ grp[g].state = "BUSY" /\ grp[g].pending = <<>> /\ mem' = mem
            /\ \/ /\ grp' = [grp EXCEPT ![g].join_state = @ \ get_leave_state(grp[g])]
                  /\ ctx' = [ctx EXCEPT ![c].pc = "leave", ![c].rec.js = get_leave_state(grp[g])]
               \/ grp' = [grp EXCEPT ![g].state = "IDLE"] /\ Goto(c, "release")
  BY DEF mcast_work_handler
<1>b. UNCHANGED <<wq, query, fabric, port, flushing>>
  BY DEF mcast_work_handler
<1>0. g \in Groups /\ IsGroup(grp[g]) /\ IsCtx(ctx[c]) /\ ctx[c].m = Null
  BY <1>a, BusyCtx, TypedIs DEF Shape, Told
<1>1. {"err", "cb", "send", "leave", "release"} \subseteq PCs
  BY DEF PCs
<1> USE <1>1
<1>2. CASE grp[g].state # "BUSY" /\ Goto(c, "err") /\ UNCHANGED <<grp, mem>>
  <2>1. CtxStep(c, "err", g, Null)
    BY <1>0, <1>2, CtxGoto
  <2>2. Typed'
    BY <1>b, <1>2, <2>1, TypedNext DEF Typed, CtxStep, port
  <2> QED
    BY <1>a, <1>b, <1>0, <1>2, <2>1, <2>2
<1>3. CASE grp[g].state = "BUSY" /\ grp[g].pending # <<>>
  <2>0. m \in Members /\ IsMember(mem[m])
    BY <1>0, <1>3, TailSeq, TypedIs DEF IsGroup
  <2>1. CASE join_group(g, m) /\ ctx' = [ctx EXCEPT ![c].pc = "cb", ![c].m = m]
    <3>1. CtxStep(c, "cb", g, m)
      BY <2>0, <2>1, CtxWork
    <3>2. MemStep(m, mem[m].ref + 1, mem[m].group, mem[m].join_state, "MEMBER", mem[m].user, mem[m].told)
      <4> DEFINE r == [mem[m] EXCEPT !.ref = @ + 1, !.state = "MEMBER", !.mgid = grp[g].mgid]
      <4>1. mem' = [mem EXCEPT ![m] = r]
        BY <2>1 DEF join_group
      <4>g. grp[g].mgid \in AllMgids \cup {Zero}
        BY <1>0 DEF IsGroup
      <4>2. MemberIs(r, mem[m].ref + 1, mem[m].group, mem[m].join_state, "MEMBER", mem[m].user, mem[m].told)
        BY <2>0, <4>g DEF IsMember, MemberFields, MemberIs
      <4> HIDE DEF r
      <4>3. IsMember(r)
        BY <2>0, <4>2, Refs DEF IsMember, MemberIs
      <4> QED
        BY <2>0, <4>1, <4>2, <4>3, MemSet DEF MemberIs
    <3>3. /\ Without(grp[g].pending, m) \in Seq(Members) /\ grp[g].active \cup {m} \in SUBSET Members
          /\ Adjusted(grp[g].members, mem[m].join_state, 1) \in [Types -> Int]
      <4>1. /\ grp[g].pending \in Seq(Members) /\ grp[g].active \in SUBSET Members
            /\ grp[g].members \in [Types -> Int] /\ 1 \in Int
        BY <1>0, SMT DEF IsGroup
      <4>2. Without(grp[g].pending, m) \in Seq(Members)
        BY <2>0, <4>1, WithoutSeq
      <4>3. Adjusted(grp[g].members, mem[m].join_state, 1) \in [Types -> Int]
        BY <4>1, AdjustedType
      <4>4. grp[g].active \cup {m} \in SUBSET Members
        BY <2>0, <4>1
      <4> QED
        BY <4>2, <4>3, <4>4
    <3>4. GrpStep(g, grp[g].ref, grp[g].state, Without(grp[g].pending, m), grp[g].active \cup {m},
                Adjusted(grp[g].members, mem[m].join_state, 1), grp[g].retries)
      <4> DEFINE r == [[grp[g] EXCEPT !.members = Adjusted(grp[g].members, mem[m].join_state, 1)]
                       EXCEPT !.pending = Without(@, m), !.active = @ \cup {m}]
      <4>1. grp' = [grp EXCEPT ![g] = r]
        BY <2>1 DEF join_group, adjust_membership, Adjusted
      <4>2. GroupIs(r, grp[g].ref, grp[g].mgid, grp[g].state, Without(grp[g].pending, m), grp[g].active \cup {m},
                   Adjusted(grp[g].members, mem[m].join_state, 1), grp[g].join_state, grp[g].pkey_index, grp[g].retries)
        BY <1>0 DEF IsGroup, GroupFields, GroupIs
      <4> HIDE DEF r
      <4>3. IsGroup(r)
        BY <1>0, <4>2, <3>3 DEF IsGroup, GroupIs
      <4>4. GrpStep(g, r.ref, r.state, r.pending, r.active, r.members, r.retries)
        BY <1>0, <4>1, <4>3, GrpSet
      <4> QED
        BY <4>2, <4>4 DEF GroupIs
    <3>5. Typed'
      BY <1>b, <3>1, <3>2, <3>4, TypedNext DEF Typed, CtxStep, GrpStep, MemStep, port
    <3> QED
      BY <1>a, <1>b, <1>0, <1>3, <2>0, <3>1, <3>2, <3>4, <3>5
  <2>2. CASE cmp_rec_fails(g, m) /\ ctx' = [ctx EXCEPT ![c].pc = "cb", ![c].m = m]
    <3>1. CtxStep(c, "cb", g, m)
      BY <2>0, <2>2, CtxWork
    <3>2. MemStep(m, mem[m].ref + 1, mem[m].group, mem[m].join_state, mem[m].state, mem[m].user, mem[m].told)
      BY <2>0, <2>2, Refs, MemRef DEF cmp_rec_fails
    <3>3. GrpStep(g, grp[g].ref, grp[g].state, Without(grp[g].pending, m), grp[g].active \ {m},
                  grp[g].members, grp[g].retries)
      BY <1>0, <2>0, <2>2, ListDel DEF cmp_rec_fails
    <3>4. Typed'
      BY <1>b, <3>1, <3>2, <3>3, TypedNext DEF Typed, CtxStep, GrpStep, MemStep, port
    <3> QED
      BY <1>a, <1>b, <1>0, <1>3, <2>0, <3>1, <3>2, <3>3, <3>4
  <2>3. CASE /\ mem' = [mem EXCEPT ![m].ref = @ + 1] /\ grp' = grp
             /\ ctx' = [ctx EXCEPT ![c].pc = "send", ![c].m = m]
    <3>1. CtxStep(c, "send", g, m)
      BY <2>0, <2>3, CtxWork
    <3>2. MemStep(m, mem[m].ref + 1, mem[m].group, mem[m].join_state, mem[m].state, mem[m].user, mem[m].told)
      BY <2>0, <2>3, Refs, MemRef
    <3>3. Typed'
      BY <1>b, <2>3, <3>1, <3>2, TypedNext DEF Typed, CtxStep, MemStep, port
    <3> QED
      BY <1>a, <1>b, <1>0, <1>3, <2>0, <2>3, <3>1, <3>2, <3>3
  <2> QED
    BY <1>a, <1>3, <2>1, <2>2, <2>3
<1>4. CASE grp[g].state = "BUSY" /\ grp[g].pending = <<>> /\ mem' = mem
  <2>0. get_leave_state(grp[g]) \in SUBSET Types
    BY <1>0 DEF get_leave_state, IsGroup
  <2>1. CASE /\ grp' = [grp EXCEPT ![g].join_state = @ \ get_leave_state(grp[g])]
             /\ ctx' = [ctx EXCEPT ![c].pc = "leave", ![c].rec.js = get_leave_state(grp[g])]
    <3>1. CtxStep(c, "leave", g, Null)
      BY <1>0, <2>0, <2>1, CtxJs
    <3>2. GrpStep(g, grp[g].ref, grp[g].state, grp[g].pending, grp[g].active,
                grp[g].members, grp[g].retries)
      <4> DEFINE r == [grp[g] EXCEPT !.join_state = @ \ get_leave_state(grp[g])]
      <4>1. grp' = [grp EXCEPT ![g] = r]
        BY <2>1
      <4>2. GroupIs(r, grp[g].ref, grp[g].mgid, grp[g].state, grp[g].pending, grp[g].active,
                   grp[g].members, grp[g].join_state \ get_leave_state(grp[g]), grp[g].pkey_index, grp[g].retries)
        BY <1>0 DEF IsGroup, GroupFields, GroupIs
      <4> HIDE DEF r
      <4>3. IsGroup(r)
        BY <1>0, <4>2 DEF IsGroup, GroupIs
      <4>4. GrpStep(g, r.ref, r.state, r.pending, r.active, r.members, r.retries)
        BY <1>0, <4>1, <4>3, GrpSet
      <4> QED
        BY <4>2, <4>4 DEF GroupIs
    <3>3. Typed'
      BY <1>b, <1>4, <3>1, <3>2, TypedNext DEF Typed, CtxStep, GrpStep, port
    <3> QED
      BY <1>a, <1>b, <1>0, <1>4, <3>1, <3>2, <3>3
  <2>2. CASE grp' = [grp EXCEPT ![g].state = "IDLE"] /\ Goto(c, "release")
    <3>1. CtxStep(c, "release", g, Null)
      BY <1>0, <2>2, CtxGoto
    <3>2. GrpStep(g, grp[g].ref, "IDLE", grp[g].pending, grp[g].active, grp[g].members, grp[g].retries)
      BY <1>0, <2>2, GrpState
    <3>3. Typed'
      BY <1>b, <1>4, <3>1, <3>2, TypedNext DEF Typed, CtxStep, GrpStep, port
    <3> QED
      BY <1>a, <1>b, <1>0, <1>4, <3>1, <3>2, <3>3
  <2> QED
    BY <1>a, <1>4, <2>1, <2>2
<1> QED
  BY <1>a, <1>2, <1>3, <1>4

(* work_release. *)
LEMMA WorkReleaseStep ==
    ASSUME Typed, Shape, NEW c \in Ctxs, work_release(c), NEW g, g = ctx[c].g
    PROVE  WorkReleaseEffect(c, g)
<1> USE DEF WorkReleaseEffect
<1>a. /\ ctx[c].pc = "release" /\ release_group(g) /\ Finish(c)
      /\ UNCHANGED <<mem, wq, query, fabric, rem>>
  BY DEF work_release
<1>0. g \in Groups
  BY <1>a, BusyCtx
<1>1. CtxStep(c, "idle", Null, Null) /\ flushing' \subseteq Groups
  BY <1>a, CtxFinish, TypedIs
<1>2. Released(g) /\ grp' \in [Groups -> GroupRecs] /\ pref' \in Int
  BY <1>a, <1>0, Release, Refs, TypedIs DEF GrpStep, Released
<1>3. Typed'
  BY <1>a, <1>1, <1>2, TypedNext DEF Typed, CtxStep
<1> QED
  BY <1>a, <1>2, <1>0, <1>1, <1>3

(* send_join. *)
LEMMA SendJoinStep ==
    ASSUME Typed, Shape, NEW c \in Ctxs, send_join(c), NEW g, g = ctx[c].g, NEW m, m = ctx[c].m
    PROVE  SendJoinEffect(c, g, m)
<1> USE DEF SendJoinEffect
<1> DEFINE r == [op |-> "join", done |-> FALSE, mgid |-> mem[m].mgid, js |-> mem[m].join_state, m |-> m]
<1>a. /\ ctx[c].pc = "send" /\ UNCHANGED <<wq, fabric, port>>
      /\ \/ /\ query' = [query EXCEPT ![g] = r] /\ mem' = [mem EXCEPT ![m].ref = @ - 1]
            /\ Finish(c) /\ grp' = grp
         \/ /\ grp' = [grp EXCEPT ![g] = list_del(@, m)]
            /\ Goto(c, "cb") /\ UNCHANGED <<query, mem, flushing>>
  BY DEF send_join
<1>0. g \in Groups /\ m \in Members /\ IsGroup(grp[g]) /\ IsMember(mem[m])
  BY <1>a, BusyCtx, TypedIs DEF Told
<1>1. IsQuery(r) /\ r.op = "join" /\ r.m = m
  BY <1>0 DEF IsQuery, QueryFields, IsGroup, IsMember
<1> HIDE DEF r
<1>2. CASE /\ query' = [query EXCEPT ![g] = r] /\ mem' = [mem EXCEPT ![m].ref = @ - 1]
           /\ Finish(c) /\ grp' = grp
  <2>1. QueryStep(g, "join", m)
    BY <1>0, <1>1, <1>2, QuerySet
  <2>2. MemStep(m, mem[m].ref - 1, mem[m].group, mem[m].join_state, mem[m].state, mem[m].user, mem[m].told)
    BY <1>0, <1>2, Refs, MemRef
  <2>3. CtxStep(c, "idle", Null, Null) /\ flushing' \subseteq Groups
    BY <1>2, CtxFinish, TypedIs
  <2>4. Typed'
    BY <1>a, <1>2, <2>1, <2>2, <2>3, TypedNext DEF Typed, CtxStep, MemStep, QueryStep, port
  <2> QED
    BY <1>a, <1>0, <1>2, <2>1, <2>2, <2>3, <2>4
<1>3. CASE /\ grp' = [grp EXCEPT ![g] = list_del(@, m)]
           /\ Goto(c, "cb") /\ UNCHANGED <<query, mem, flushing>>
  <2>1. CtxStep(c, "cb", g, m)
    BY <1>3, CtxGoto DEF PCs
  <2>2. GrpStep(g, grp[g].ref, grp[g].state, Without(grp[g].pending, m), grp[g].active \ {m},
                grp[g].members, grp[g].retries)
    BY <1>0, <1>3, ListDel
  <2>3. Typed'
    BY <1>a, <1>3, <2>1, <2>2, TypedNext DEF Typed, CtxStep, GrpStep, port
  <2> QED
    BY <1>a, <1>0, <1>3, <2>1, <2>2, <2>3
<1> QED
  BY <1>a, <1>2, <1>3

(* callback. *)
LEMMA CallbackStep ==
    ASSUME Typed, Shape, NEW c \in Ctxs, callback(c), NEW g, g = ctx[c].g, NEW m, m = ctx[c].m,
           NEW told, told = IF ctx[c].pc = "errcb" THEN "reset"
                            ELSE IF mem[m].state = "MEMBER" THEN "joined" ELSE "failed"
    PROVE  CallbackEffect(c, g, m, told)
<1> USE DEF CallbackEffect
<1> DEFINE pc == IF ctx[c].pc = "errcb" THEN "errnext" ELSE "test"
           pw == IF ctx[c].pc = "errcb" THEN "errwait" ELSE "wait"
<1>a. /\ ctx[c].pc \in {"cb", "errcb"} /\ UNCHANGED <<grp, wq, query, fabric, port, flushing>>
      /\ \/ /\ mem' = [mem EXCEPT ![m].ref = @ - 1, ![m].told = told]
            /\ ctx' = [ctx EXCEPT ![c].pc = pc, ![c].m = Null]
         \/ /\ mem[m].user = "held"
            /\ mem' = [mem EXCEPT ![m].ref = @ - 1, ![m].told = told, ![m].user = "free"]
            /\ Goto(c, pw)
  BY DEF callback
<1>0. g \in Groups /\ m \in Members /\ IsMember(mem[m])
  BY <1>a, BusyCtx, TypedIs DEF Told
<1>1. pc \in PCs /\ pw \in PCs /\ Null \in Members \cup {Null} /\ told \in {"nothing", "joined", "failed", "reset"}
  BY DEF PCs
<1> HIDE DEF pc, pw
<1>2. CASE /\ mem' = [mem EXCEPT ![m].ref = @ - 1, ![m].told = told]
           /\ ctx' = [ctx EXCEPT ![c].pc = pc, ![c].m = Null]
  <2>1. CtxStep(c, pc, g, Null)
    BY <1>1, <1>2, CtxWork
  <2>2. MemStep(m, mem[m].ref - 1, mem[m].group, mem[m].join_state, mem[m].state, mem[m].user, told)
    <3> DEFINE r == [mem[m] EXCEPT !.ref = @ - 1, !.told = told]
    <3>1. mem' = [mem EXCEPT ![m] = r]
      BY <1>2
    <3>2. MemberIs(r, mem[m].ref - 1, mem[m].group, mem[m].join_state, mem[m].state, mem[m].user, told)
      BY <1>0 DEF IsMember, MemberFields, MemberIs
    <3> HIDE DEF r
    <3>3. IsMember(r)
      BY <1>0, <3>2, <1>1, Refs DEF IsMember, MemberIs
    <3> QED
      BY <1>0, <3>1, <3>2, <3>3, MemSet DEF MemberIs
  <2>3. Typed'
    BY <1>a, <2>1, <2>2, TypedNext DEF Typed, CtxStep, MemStep, port
  <2> QED
    BY <1>a, <1>0, <2>1, <2>2, <2>3 DEF pc
<1>3. CASE /\ mem[m].user = "held"
           /\ mem' = [mem EXCEPT ![m].ref = @ - 1, ![m].told = told, ![m].user = "free"]
           /\ Goto(c, pw)
  <2>1. CtxStep(c, pw, g, m)
    BY <1>1, <1>3, CtxGoto
  <2>2. MemStep(m, mem[m].ref - 1, mem[m].group, mem[m].join_state, mem[m].state, "free", told)
    <3> DEFINE r == [mem[m] EXCEPT !.ref = @ - 1, !.told = told, !.user = "free"]
    <3>1. mem' = [mem EXCEPT ![m] = r]
      BY <1>3
    <3>2. MemberIs(r, mem[m].ref - 1, mem[m].group, mem[m].join_state, mem[m].state, "free", told)
      BY <1>0 DEF IsMember, MemberFields, MemberIs
    <3> HIDE DEF r
    <3>3. IsMember(r)
      BY <1>0, <3>2, <1>1, Refs DEF IsMember, MemberIs
    <3> QED
      BY <1>0, <3>1, <3>2, <3>3, MemSet DEF MemberIs
  <2>3. Typed'
    BY <1>a, <2>1, <2>2, TypedNext DEF Typed, CtxStep, MemStep, port
  <2> QED
    BY <1>a, <1>0, <1>3, <2>1, <2>2, <2>3 DEF pw
<1> QED
  BY <1>a, <1>2, <1>3

(* send_leave. *)
LEMMA SendLeaveStep ==
    ASSUME Typed, Shape, NEW c \in Ctxs, send_leave(c), NEW g, g = ctx[c].g
    PROVE  SendLeaveEffect(c, g)
<1> USE DEF SendLeaveEffect
<1> DEFINE r == [op |-> "leave", done |-> FALSE, mgid |-> grp[g].mgid, js |-> ctx[c].rec.js, m |-> Null]
<1>a. /\ ctx[c].pc \in {"leave", "releave"} /\ UNCHANGED <<grp, mem, wq, fabric, port>>
      /\ \/ /\ query' = [query EXCEPT ![g] = r]
            /\ IF ctx[c].pc = "leave" THEN Finish(c) ELSE Goto(c, "retry") /\ UNCHANGED flushing
         \/ /\ ctx' = [ctx EXCEPT ![c].pc = "test", ![c].rec.js = {}]
            /\ UNCHANGED <<query, flushing>>
  BY DEF send_leave
<1>0. g \in Groups /\ IsGroup(grp[g]) /\ IsCtx(ctx[c]) /\ ctx[c].m = Null
  BY <1>a, BusyCtx, TypedIs DEF Shape, Told
<1>1. IsQuery(r) /\ r.op = "leave" /\ r.m = Null
  <2>1. ctx[c].rec.js \in SUBSET Types
    BY <1>0, SMT DEF IsCtx, Records
  <2> QED
    BY <1>0, <2>1 DEF IsQuery, QueryFields, IsGroup
<1>2. {"test", "retry"} \subseteq PCs /\ {} \in SUBSET Types
  BY DEF PCs
<1> HIDE DEF r
<1>3. CASE query' = [query EXCEPT ![g] = r] /\ ctx[c].pc = "leave" /\ Finish(c)
  <2>1. QueryStep(g, "leave", Null)
    BY <1>0, <1>1, <1>3, QuerySet
  <2>2. CtxStep(c, "idle", Null, Null) /\ flushing' \subseteq Groups
    BY <1>3, CtxFinish, TypedIs
  <2>3. Typed'
    BY <1>a, <2>1, <2>2, TypedNext DEF Typed, CtxStep, QueryStep, port
  <2> QED
    BY <1>a, <1>0, <1>3, <2>1, <2>2, <2>3
<1>4. CASE /\ query' = [query EXCEPT ![g] = r] /\ ctx[c].pc = "releave" /\ Goto(c, "retry")
           /\ UNCHANGED flushing
  <2>1. QueryStep(g, "leave", Null)
    BY <1>0, <1>1, <1>4, QuerySet
  <2>2. CtxStep(c, "retry", g, Null)
    BY <1>0, <1>2, <1>4, CtxGoto
  <2>3. Typed'
    BY <1>a, <1>4, <2>1, <2>2, TypedNext DEF Typed, CtxStep, QueryStep, port
  <2> QED
    BY <1>a, <1>0, <1>4, <2>1, <2>2, <2>3
<1>5. CASE ctx' = [ctx EXCEPT ![c].pc = "test", ![c].rec.js = {}] /\ UNCHANGED <<query, flushing>>
  <2>1. CtxStep(c, "test", g, Null)
    BY <1>0, <1>2, <1>5, CtxJs
  <2>2. Typed'
    BY <1>a, <1>5, <2>1, TypedNext DEF Typed, CtxStep, port
  <2> QED
    BY <1>a, <1>0, <1>5, <2>1, <2>2
<1> QED
  BY <1>a, <1>3, <1>4, <1>5

(* process_group_error up to the lock. *)
LEMMA ErrorStep ==
    ASSUME Typed, Shape, NEW c \in Ctxs, process_group_error(c), NEW g, g = ctx[c].g
    PROVE  ErrorEffect(c, g)
<1> USE DEF ErrorEffect
<1> DEFINE pk == IF grp[g].state = "PKEY_EVENT" THEN pkey ELSE Null
<1>a. /\ ctx[c].pc = "err" /\ UNCHANGED <<grp, mem, wq, query, fabric, port, flushing>>
      /\ ctx' = [ctx EXCEPT ![c].pc = "errlock", ![c].pk = pk]
  BY DEF process_group_error
<1>0. g \in Groups /\ ctx[c].m = Null
  BY <1>a, BusyCtx DEF Shape, Told
<1>1. pk \in PkeyIndices \cup {Null} /\ "errlock" \in PCs
  BY DEF Typed, PCs
<1> HIDE DEF pk
<1>2. CtxStep(c, "errlock", g, Null)
  BY <1>a, <1>0, <1>1, CtxPk
<1>3. Typed'
  BY <1>a, <1>2, TypedNext DEF Typed, CtxStep, port
<1> QED
  BY <1>a, <1>0, <1>2, <1>3

(* process_group_error under the lock. *)
LEMMA ErrorLockStep ==
    ASSUME Typed, Shape, NEW c \in Ctxs, error_lock(c), NEW g, g = ctx[c].g
    PROVE  ErrorLockEffect(c, g)
<1> USE DEF ErrorLockEffect
<1>a. /\ ctx[c].pc = "errlock" /\ UNCHANGED <<mem, wq, query, fabric, port, flushing>>
      /\ \/ grp[g].state = "PKEY_EVENT" /\ grp' = [grp EXCEPT ![g].state = "BUSY"] /\ Goto(c, "test")
         \/ Goto(c, "errnext") /\ grp' = grp
  BY DEF error_lock
<1>0. g \in Groups /\ ctx[c].m = Null
  BY <1>a, BusyCtx DEF Shape, Told
<1>1. {"test", "errnext"} \subseteq PCs
  BY DEF PCs
<1>2. CASE grp[g].state = "PKEY_EVENT" /\ grp' = [grp EXCEPT ![g].state = "BUSY"] /\ Goto(c, "test")
  <2>1. CtxStep(c, "test", g, Null)
    BY <1>0, <1>1, <1>2, CtxGoto
  <2>2. GrpStep(g, grp[g].ref, "BUSY", grp[g].pending, grp[g].active, grp[g].members, grp[g].retries)
    BY <1>0, <1>2, GrpState
  <2>3. Typed'
    BY <1>a, <2>1, <2>2, TypedNext DEF Typed, CtxStep, GrpStep, port
  <2> QED
    BY <1>a, <1>0, <1>2, <2>1, <2>2, <2>3
<1>3. CASE Goto(c, "errnext") /\ grp' = grp
  <2>1. CtxStep(c, "errnext", g, Null)
    BY <1>0, <1>1, <1>3, CtxGoto
  <2>2. Typed'
    BY <1>a, <1>3, <2>1, TypedNext DEF Typed, CtxStep, port
  <2> QED
    BY <1>a, <1>0, <1>3, <2>1, <2>2
<1> QED
  BY <1>a, <1>2, <1>3

(* A turn of the loop of process_group_error. *)
LEMMA ErrorNextStep ==
    ASSUME Typed, Shape, NEW c \in Ctxs, error_next(c), NEW g, g = ctx[c].g
    PROVE  ErrorNextEffect(c, g)
<1> USE DEF ErrorNextEffect
<1>a. /\ ctx[c].pc = "errnext" /\ UNCHANGED <<wq, query, fabric, port, flushing>>
      /\ \/ \E m \in grp[g].active :
              /\ grp' = [grp EXCEPT ![g] = list_del(adjust_membership(grp[g], mem[m].join_state, -1), m)]
              /\ mem' = [mem EXCEPT ![m].ref = @ + 1, ![m].state = "ERROR"]
              /\ ctx' = [ctx EXCEPT ![c].pc = "errcb", ![c].m = m]
         \/ /\ grp' = [grp EXCEPT ![g].state = "BUSY", ![g].join_state = {}]
            /\ ctx' = [ctx EXCEPT ![c].pc = "test", ![c].pk = Null]
            /\ mem' = mem
  BY DEF error_next
<1>0. g \in Groups /\ ctx[c].m = Null /\ IsGroup(grp[g])
  BY <1>a, BusyCtx, TypedIs DEF Shape, Told
<1>1. {"test", "errcb"} \subseteq PCs /\ Null \in PkeyIndices \cup {Null}
  BY DEF PCs
<1>2. ASSUME NEW m \in grp[g].active,
             grp' = [grp EXCEPT ![g] = list_del(adjust_membership(grp[g], mem[m].join_state, -1), m)],
             mem' = [mem EXCEPT ![m].ref = @ + 1, ![m].state = "ERROR"],
             ctx' = [ctx EXCEPT ![c].pc = "errcb", ![c].m = m]
      PROVE  /\ Typed' /\ m \in Members /\ CtxStep(c, "errcb", g, m)
             /\ GrpStep(g, grp[g].ref, grp[g].state, Without(grp[g].pending, m), grp[g].active \ {m},
                        Adjusted(grp[g].members, mem[m].join_state, -1), grp[g].retries)
             /\ MemStep(m, mem[m].ref + 1, mem[m].group, mem[m].join_state, "ERROR",
                        mem[m].user, mem[m].told)
  <2> DEFINE ms == Adjusted(grp[g].members, mem[m].join_state, -1)
  <2>0. m \in Members /\ IsMember(mem[m]) /\ m \in Members \cup {Null}
    BY <1>0, TypedIs DEF IsGroup
  <2>1. ms \in [Types -> Int]
    <3>1. grp[g].members \in [Types -> Int] /\ -1 \in Int
      BY <1>0, SMT DEF IsGroup
    <3> QED
      BY <3>1, AdjustedType
  <2>2. adjust_membership(grp[g], mem[m].join_state, -1) = [grp[g] EXCEPT !.members = ms]
    BY <1>0 DEF adjust_membership, Adjusted, IsGroup, GroupFields
  <2> HIDE DEF ms
  <2>3. list_del([grp[g] EXCEPT !.members = ms], m)
          = [grp[g] EXCEPT !.members = ms, !.pending = Without(@, m), !.active = @ \ {m}, !.state = grp[g].state]
    BY <1>0 DEF list_del, IsGroup, GroupFields
  <2>4. grp' = [grp EXCEPT ![g] = [grp[g] EXCEPT !.members = ms, !.pending = Without(@, m),
                                                 !.active = @ \ {m}, !.state = grp[g].state]]
    BY <1>2, <2>2, <2>3
  <2>5. grp[g].state \in {"IDLE", "BUSY", "GROUP_ERROR", "PKEY_EVENT"}
    BY <1>0 DEF IsGroup
  <2>6. GrpStep(g, grp[g].ref, grp[g].state, Without(grp[g].pending, m), grp[g].active \ {m}, ms, grp[g].retries)
    BY <1>0, <2>0, <2>1, <2>4, <2>5, GrpDel
  <2>7. CtxStep(c, "errcb", g, m)
    BY <1>1, <1>2, <2>0, CtxWork
  <2>8. MemStep(m, mem[m].ref + 1, mem[m].group, mem[m].join_state, "ERROR", mem[m].user, mem[m].told)
    <3> DEFINE r == [mem[m] EXCEPT !.ref = @ + 1, !.state = "ERROR"]
    <3>1. mem' = [mem EXCEPT ![m] = r]
      BY <1>2
    <3>2. MemberIs(r, mem[m].ref + 1, mem[m].group, mem[m].join_state, "ERROR", mem[m].user, mem[m].told)
      BY <2>0 DEF IsMember, MemberFields, MemberIs
    <3> HIDE DEF r
    <3>3. IsMember(r)
      BY <2>0, <3>2, Refs DEF IsMember, MemberIs
    <3> QED
      BY <2>0, <3>1, <3>2, <3>3, MemSet DEF MemberIs
  <2>9. Typed'
    BY <1>a, <2>6, <2>7, <2>8, TypedNext DEF Typed, CtxStep, GrpStep, MemStep, port
  <2> QED
    BY <2>0, <2>6, <2>7, <2>8, <2>9 DEF ms
<1>3. CASE /\ grp' = [grp EXCEPT ![g].state = "BUSY", ![g].join_state = {}]
           /\ ctx' = [ctx EXCEPT ![c].pc = "test", ![c].pk = Null]
           /\ mem' = mem
  <2>1. CtxStep(c, "test", g, Null)
    BY <1>0, <1>1, <1>3, CtxPk
  <2>2. GrpStep(g, grp[g].ref, "BUSY", grp[g].pending, grp[g].active,
              grp[g].members, grp[g].retries)
    <3> DEFINE r == [grp[g] EXCEPT !.state = "BUSY", !.join_state = {}]
    <3>1. grp' = [grp EXCEPT ![g] = r]
      BY <1>3
    <3>2. GroupIs(r, grp[g].ref, grp[g].mgid, "BUSY", grp[g].pending, grp[g].active,
                 grp[g].members, {}, grp[g].pkey_index, grp[g].retries)
      BY <1>0 DEF IsGroup, GroupFields, GroupIs
    <3> HIDE DEF r
    <3>3. IsGroup(r)
      BY <1>0, <3>2, FreeTypes DEF IsGroup, GroupIs
    <3>4. GrpStep(g, r.ref, r.state, r.pending, r.active, r.members, r.retries)
      BY <1>0, <3>1, <3>3, GrpSet
    <3> QED
      BY <3>2, <3>4 DEF GroupIs
  <2>3. Typed'
    BY <1>a, <1>3, <2>1, <2>2, TypedNext DEF Typed, CtxStep, GrpStep, port
  <2> QED
    BY <1>a, <1>0, <1>3, <2>1, <2>2, <2>3
<1> QED
  BY <1>a, <1>0, <1>2, <1>3

(* process_join_error. *)
LEMMA JoinErrorStep ==
    ASSUME Typed, Shape, NEW c \in Ctxs, process_join_error(c), NEW g, g = ctx[c].g, NEW m, m = ctx[c].m
    PROVE  JoinErrorEffect(c, g, m)
<1> USE DEF JoinErrorEffect
<1>a. /\ ctx[c].pc = "joinerr" /\ UNCHANGED <<wq, query, fabric, port, flushing>>
      /\ \/ /\ grp[g].pending # <<>> /\ m = Head(grp[g].pending)
            /\ grp' = [grp EXCEPT ![g] = list_del(@, m)]
            /\ mem' = [mem EXCEPT ![m].ref = @ + 1]
            /\ ctx' = [ctx EXCEPT ![c].pc = "cb", ![c].m = m]
         \/ ctx' = [ctx EXCEPT ![c].pc = "test", ![c].m = Null] /\ UNCHANGED <<grp, mem>>
  BY DEF process_join_error
<1>0. g \in Groups /\ m \in Members
  BY <1>a, BusyCtx
<1>1. {"test", "cb"} \subseteq PCs /\ m \in Members \cup {Null} /\ Null \in Members \cup {Null}
  BY <1>0 DEF PCs
<1>2. CASE /\ grp[g].pending # <<>> /\ m = Head(grp[g].pending)
           /\ grp' = [grp EXCEPT ![g] = list_del(@, m)]
           /\ mem' = [mem EXCEPT ![m].ref = @ + 1]
           /\ ctx' = [ctx EXCEPT ![c].pc = "cb", ![c].m = m]
  <2>1. CtxStep(c, "cb", g, m)
    BY <1>1, <1>2, CtxWork
  <2>2. MemStep(m, mem[m].ref + 1, mem[m].group, mem[m].join_state, mem[m].state, mem[m].user, mem[m].told)
    BY <1>0, <1>2, Refs, MemRef
  <2>3. GrpStep(g, grp[g].ref, grp[g].state, Without(grp[g].pending, m), grp[g].active \ {m},
                grp[g].members, grp[g].retries)
    BY <1>0, <1>2, ListDel
  <2>4. Typed'
    BY <1>a, <2>1, <2>2, <2>3, TypedNext DEF Typed, CtxStep, GrpStep, MemStep, port
  <2> QED
    BY <1>a, <1>0, <1>2, <2>1, <2>2, <2>3, <2>4
<1>3. CASE ctx' = [ctx EXCEPT ![c].pc = "test", ![c].m = Null] /\ UNCHANGED <<grp, mem>>
  <2>1. CtxStep(c, "test", g, Null)
    BY <1>1, <1>3, CtxWork
  <2>2. Typed'
    BY <1>a, <1>3, <2>1, TypedNext DEF Typed, CtxStep, port
  <2> QED
    BY <1>a, <1>0, <1>3, <2>1, <2>2
<1> QED
  BY <1>a, <1>2, <1>3

(* The query of group g is over. *)
LEMMA NoQuerySet ==
    ASSUME Typed, NEW g \in Groups, query' = [query EXCEPT ![g] = NoQuery]
    PROVE  QueryStep(g, "none", Null)
<1>1. IsQuery(NoQuery) /\ NoQuery.op = "none" /\ NoQuery.m = Null
  BY RecTypes, QueryRec DEF NoQuery
<1> QED
  BY <1>1, QuerySet

(* join_handler. *)
LEMMA JoinHandlerStep ==
    ASSUME Typed, Shape, NEW c \in {"recv", "timeout"}, NEW g \in Groups, join_handler(c, g)
    PROVE  JoinHandlerEffect(c, g)
<1> USE DEF JoinHandlerEffect
<1> DEFINE m == query[g].m
           rec == [mgid |-> query[g].mgid, js |-> query[g].js]
<1>a. /\ ctx[c].pc = "idle" /\ query[g].op = "join" /\ query' = [query EXCEPT ![g] = NoQuery]
      /\ UNCHANGED <<grp, mem, wq, fabric, port, flushing>>
  BY DEF join_handler, Answered
<1>b. \/ ctx' = [ctx EXCEPT ![c] = [IdleCtx EXCEPT !.pc = "joinerr", !.g = g, !.m = m]]
      \/ ctx' = [ctx EXCEPT ![c] = [IdleCtx EXCEPT !.pc = "joined", !.g = g, !.pk = pkey, !.rec = rec]]
  BY DEF join_handler
<1>0. c \in Ctxs /\ IsQuery(query[g]) /\ m \in Members
  <2>1. c \in Ctxs /\ IsQuery(query[g])
    BY TypedIs DEF Ctxs
  <2> QED
    BY <1>a, <2>1 DEF Shape, IsQuery
<1>1. QueryStep(g, "none", Null)
  BY <1>a, NoQuerySet
<1>2. rec \in Records /\ pkey \in PkeyIndices \cup {Null}
  BY <1>0, SMT DEF IsQuery, Records, Typed
<1> HIDE DEF rec, m
<1>3. (CtxStep(c, "joinerr", g, m) /\ m \in Members) \/ CtxStep(c, "joined", g, Null)
  BY <1>b, <1>0, <1>2, CtxJoinErr, CtxJoined
<1>4. Typed'
  BY <1>a, <1>1, <1>3, TypedNext DEF Typed, CtxStep, QueryStep, port
<1> QED
  BY <1>a, <1>1, <1>3, <1>4 DEF m

(* The rest of join_handler. *)
LEMMA JoinRecordStep ==
    ASSUME Typed, Shape, NEW c \in Ctxs, join_record(c), NEW g, g = ctx[c].g
    PROVE  JoinRecordEffect(c, g)
<1> USE DEF JoinRecordEffect
<1> DEFINE pk == IF grp[g].pkey_index = Null /\ grp[g].state = "BUSY" THEN ctx[c].pk ELSE grp[g].pkey_index
           rec == ctx[c].rec
<1>a. /\ ctx[c].pc = "joined" /\ UNCHANGED <<mem, wq, query, fabric, port, flushing>>
      /\ grp' = [grp EXCEPT ![g].join_state = rec.js, ![g].mgid = rec.mgid,
                  ![g].pkey_index = IF @ = Null /\ grp[g].state = "BUSY" THEN ctx[c].pk ELSE @]
      /\ ctx' = [ctx EXCEPT ![c] = [IdleCtx EXCEPT !.pc = "test", !.g = g]]
  BY DEF join_record
<1>0. g \in Groups /\ IsGroup(grp[g]) /\ IsCtx(ctx[c]) /\ "test" \in PCs
  BY <1>a, BusyCtx, TypedIs DEF PCs
<1>1. rec.js \in SUBSET Types /\ rec.mgid \in AllMgids \cup {Zero} /\ pk \in PkeyIndices \cup {Null}
  <2>1. rec.js \in SUBSET Types /\ rec.mgid \in AllMgids \cup {Zero}
    BY <1>0, SMT DEF IsCtx, Records
  <2> QED
    BY <1>0, <2>1 DEF IsCtx, IsGroup
<1>2. CtxStep(c, "test", g, Null)
  BY <1>a, <1>0, CtxTake
<1>3. GrpStep(g, grp[g].ref, grp[g].state, grp[g].pending, grp[g].active,
            grp[g].members, grp[g].retries)
  <2> DEFINE r == [grp[g] EXCEPT !.join_state = rec.js, !.mgid = rec.mgid, !.pkey_index = pk]
  <2>1. grp' = [grp EXCEPT ![g] = r]
    BY <1>a, <1>0 DEF IsGroup, GroupFields
  <2>2. GroupIs(r, grp[g].ref, rec.mgid, grp[g].state, grp[g].pending, grp[g].active,
               grp[g].members, rec.js, pk, grp[g].retries)
    BY <1>0 DEF IsGroup, GroupFields, GroupIs
  <2> HIDE DEF r
  <2>3. IsGroup(r)
    BY <1>0, <2>2, <1>1 DEF IsGroup, GroupIs
  <2>4. GrpStep(g, r.ref, r.state, r.pending, r.active, r.members, r.retries)
    BY <1>0, <2>1, <2>3, GrpSet
  <2> QED
    BY <2>2, <2>4 DEF GroupIs
<1>4. Typed'
  BY <1>a, <1>2, <1>3, TypedNext DEF Typed, CtxStep, GrpStep, port
<1> QED
  BY <1>a, <1>0, <1>2, <1>3, <1>4

(* leave_handler. *)
LEMMA LeaveHandlerStep ==
    ASSUME Typed, NEW c \in {"recv", "timeout"}, NEW g \in Groups, leave_handler(c, g)
    PROVE  LeaveHandlerEffect(c, g)
<1> USE DEF LeaveHandlerEffect
<1> DEFINE js == query[g].js
<1>a. /\ ctx[c].pc = "idle" /\ query[g].op = "leave" /\ query' = [query EXCEPT ![g] = NoQuery]
      /\ UNCHANGED <<grp, mem, wq, fabric, port, flushing>>
  BY DEF leave_handler, Answered
<1>b. \/ /\ grp[g].retries > 0
         /\ ctx' = [ctx EXCEPT ![c] = [IdleCtx EXCEPT !.pc = "releave", !.g = g, !.rec.js = js]]
      \/ ctx' = [ctx EXCEPT ![c] = [IdleCtx EXCEPT !.pc = "test", !.g = g]]
  BY DEF leave_handler
<1>0. c \in Ctxs /\ js \in SUBSET Types /\ "test" \in PCs
  BY TypedIs DEF Ctxs, IsQuery, PCs
<1> HIDE DEF js
<1>1. QueryStep(g, "none", Null)
  BY <1>a, NoQuerySet
<1>2. (grp[g].retries > 0 /\ CtxStep(c, "releave", g, Null)) \/ CtxStep(c, "test", g, Null)
  BY <1>b, <1>0, CtxReleave, CtxTake
<1>3. Typed'
  BY <1>a, <1>1, <1>2, TypedNext DEF Typed, CtxStep, QueryStep, port
<1> QED
  BY <1>a, <1>1, <1>2, <1>3

(* The rest of leave_handler. *)
LEMMA LeaveRetryStep ==
    ASSUME Typed, Shape, NEW c \in Ctxs, leave_retry(c), NEW g, g = ctx[c].g
    PROVE  LeaveRetryEffect(c, g)
<1> USE DEF LeaveRetryEffect
<1>a. /\ ctx[c].pc = "retry" /\ UNCHANGED <<mem, wq, query, fabric, port>> /\ Finish(c)
      /\ grp' = IF g \in Live THEN [grp EXCEPT ![g].retries = @ - 1] ELSE grp
  BY DEF leave_retry
<1>0. g \in Groups /\ IsGroup(grp[g])
  BY <1>a, BusyCtx, TypedIs
<1>1. CtxStep(c, "idle", Null, Null) /\ flushing' \subseteq Groups
  BY <1>a, CtxFinish, TypedIs
<1>2. CASE g \in Live
  <2>1. GrpStep(g, grp[g].ref, grp[g].state, grp[g].pending, grp[g].active,
              grp[g].members, grp[g].retries - 1)
    <3> DEFINE r == [grp[g] EXCEPT !.retries = @ - 1]
    <3>1. grp' = [grp EXCEPT ![g] = r]
      BY <1>a, <1>2
    <3>2. GroupIs(r, grp[g].ref, grp[g].mgid, grp[g].state, grp[g].pending, grp[g].active,
                 grp[g].members, grp[g].join_state, grp[g].pkey_index, grp[g].retries - 1)
      BY <1>0 DEF IsGroup, GroupFields, GroupIs
    <3> HIDE DEF r
    <3>3. IsGroup(r)
      BY <1>0, <3>2, Refs DEF IsGroup, GroupIs
    <3>4. GrpStep(g, r.ref, r.state, r.pending, r.active, r.members, r.retries)
      BY <1>0, <3>1, <3>3, GrpSet
    <3> QED
      BY <3>2, <3>4 DEF GroupIs
  <2>2. Typed'
    BY <1>a, <1>1, <2>1, TypedNext DEF Typed, CtxStep, GrpStep, port
  <2> QED
    BY <1>a, <1>0, <1>1, <2>1, <2>2
<1>3. CASE g \notin Live
  <2>1. grp' = grp /\ ~(grp[g].ref > 0)
    BY <1>a, <1>0, <1>3 DEF Live
  <2>2. Typed'
    BY <1>a, <1>1, <2>1, TypedNext DEF Typed, CtxStep, port
  <2> QED
    BY <1>a, <1>0, <1>1, <2>1, <2>2
<1> QED
  BY <1>2, <1>3

(* A step of the fabric keeps the types when each new value has its type. *)
LEMMA FabricNext ==
    ASSUME Typed, UNCHANGED <<scn, mem, ctx, port, flushing>>,
           grp' \in [Groups -> GroupRecs], query' \in [Groups -> QueryRecs], wq' \in Seq(Groups),
           sa' \in [AllMgids -> SUBSET Types], pkey' \in PkeyIndices \cup {Null},
           event' \in {"none", "GROUP_ERROR", "PKEY_EVENT"}, events' \in 0..scn.events
    PROVE  Typed'
<1>1. AllMgids' = AllMgids
  BY DEF AllMgids
<1>2. GroupRecs' = GroupRecs /\ CtxRecs' = CtxRecs /\ QueryRecs' = QueryRecs /\ MemberRecs' = MemberRecs
  BY <1>1 DEF GroupRecs, CtxRecs, QueryRecs, Records, MemberRecs
<1> QED
  BY <1>1, <1>2 DEF Typed, port

(* The SA processes a query. *)
LEMMA SaStep ==
    ASSUME Typed, NEW g \in Groups, SaProcess(g)
    PROVE  SaEffect(g)
<1> USE DEF SaEffect
<1>a. UNCHANGED <<grp, mem, ctx, wq, scn, pkey, event, events, port, flushing>>
  BY DEF SaProcess
<1>0. /\ IsQuery(query[g]) /\ AllMgids' = AllMgids
      /\ query \in [Groups -> QueryRecs] /\ sa \in [AllMgids -> SUBSET Types]
  BY <1>a, TypedIs DEF Typed, AllMgids
<1>1. QueryStep(g, query[g].op, query[g].m) /\ sa' \in [AllMgids -> SUBSET Types]
  <2>1. ASSUME NEW mg \in AllMgids, SaJoin(g, mg)
        PROVE  QueryStep(g, query[g].op, query[g].m) /\ sa' \in [AllMgids -> SUBSET Types]
    <3> DEFINE r == [query[g] EXCEPT !.done = TRUE, !.mgid = mg, !.js = sa'[mg]]
    <3>1. sa' = [sa EXCEPT ![mg] = sa[mg] \cup query[g].js]
      BY <2>1 DEF SaJoin
    <3>2. sa[mg] \cup query[g].js \in SUBSET Types
      BY <1>0 DEF IsQuery
    <3>3. sa' \in [AllMgids -> SUBSET Types] /\ sa'[mg] \in SUBSET Types
      BY <1>0, <3>1, <3>2
    <3>4. query' = [query EXCEPT ![g] = r]
      BY <2>1 DEF SaJoin
    <3>5. /\ r = [x \in QueryFields |-> r[x]] /\ r.op = query[g].op /\ r.done = TRUE
          /\ r.mgid = mg /\ r.js = sa'[mg] /\ r.m = query[g].m
      BY <1>0 DEF IsQuery, QueryFields
    <3> HIDE DEF r
    <3>6. IsQuery(r)
      BY <1>0, <3>3, <3>5 DEF IsQuery
    <3>7. QueryStep(g, r.op, r.m)
      BY <3>4, <3>6, QuerySet
    <3> QED
      BY <3>3, <3>5, <3>7
  <2>2. ASSUME SaLeave(g)
        PROVE  QueryStep(g, query[g].op, query[g].m) /\ sa' \in [AllMgids -> SUBSET Types]
    <3> DEFINE r == [query[g] EXCEPT !.done = TRUE]
    <3>1. sa' = [sa EXCEPT ![query[g].mgid] = @ \ query[g].js] /\ query' = [query EXCEPT ![g] = r]
      BY <2>2 DEF SaLeave
    <3>2. sa' \in [AllMgids -> SUBSET Types]
      <4>1. \A mg \in AllMgids : sa'[mg] \in SUBSET Types
        BY <1>0, <3>1
      <4> QED
        BY <1>0, <3>1, <4>1
    <3>3. /\ r = [x \in QueryFields |-> r[x]] /\ r.op = query[g].op /\ r.done = TRUE
          /\ r.mgid = query[g].mgid /\ r.js = query[g].js /\ r.m = query[g].m
      BY <1>0 DEF IsQuery, QueryFields
    <3> HIDE DEF r
    <3>4. IsQuery(r)
      BY <1>0, <3>3 DEF IsQuery
    <3>5. QueryStep(g, r.op, r.m)
      BY <3>1, <3>4, QuerySet
    <3> QED
      BY <3>2, <3>3, <3>5
  <2> QED
    BY <2>1, <2>2 DEF SaProcess
<1>2. Typed'
  BY <1>a, <1>1, FabricNext DEF Typed, QueryStep, port
<1> QED
  BY <1>a, <1>1, <1>2

(* An event happens. *)
LEMMA EventStep ==
    ASSUME Typed, port_error \/ pkey_change
    PROVE  EventEffect
<1> USE DEF EventEffect
<1>a. /\ UNCHANGED <<grp, mem, ctx, wq, query, scn, port, flushing>>
      /\ events > 0 /\ events' = events - 1 /\ event' \in {"none", "GROUP_ERROR", "PKEY_EVENT"}
  BY DEF port_error, pkey_change
<1>1. events' \in 0..scn.events
  BY <1>a, MulticastAssumption, SMT DEF Typed
<1>2. sa' \in [AllMgids -> SUBSET Types] /\ pkey' \in PkeyIndices \cup {Null}
  BY DEF port_error, pkey_change, Typed
<1>3. Typed'
  BY <1>a, <1>1, <1>2, FabricNext DEF Typed, port
<1> QED
  BY <1>a, <1>3

(* mcast_groups_event. *)
LEMMA GroupsEventStep ==
    ASSUME FiniteSetFacts, Typed, Shape, mcast_groups_event
    PROVE  GroupsEventEffect
<1> USE DEF GroupsEventEffect
<1>a. /\ UNCHANGED <<mem, ctx, query, scn, sa, pkey, events, port, flushing>>
      /\ event # "none" /\ event' = "none"
  BY DEF mcast_groups_event
<1>1. CASE rem # "no"
  <2>1. UNCHANGED <<grp, wq>>
    BY <1>1 DEF mcast_groups_event
  <2>2. Typed'
    BY <1>a, <2>1, FabricNext DEF Typed, port
  <2> QED
    BY <1>a, <2>1, <2>2
<1>2. CASE rem = "no"
  <2> DEFINE start == {g \in Groups : grp[g].ref > 0 /\ grp[g].state = "IDLE"}
  <2>1. /\ grp' = [g \in Groups |-> IF g \in Live THEN Hit(grp[g], event) ELSE grp[g]]
        /\ \E new \in Orders(start \ Range(wq)) : wq' = wq \o new
    <3>1. start = {g \in Live : grp[g].state = "IDLE"}
      BY DEF Live
    <3> QED
      BY <1>2, <3>1 DEF mcast_groups_event
  <2>2. PICK new \in Orders(start \ Range(wq)) : wq' = wq \o new
    BY <2>1
  <2>3. IsFiniteSet(start \ Range(wq))
    BY Constants, SubFinite
  <2>4. new \in Seq(start \ Range(wq)) /\ IsInjective(new) /\ Range(new) = start \ Range(wq)
    BY <2>3, OrdersList
  <2>5. new \in Seq(Groups)
    BY <2>4, SMT
  <2>6. /\ wq' \in Seq(Groups) /\ IsInjective(wq')
        /\ Range(wq') = Range(wq) \cup (start \ Range(wq))
    <3>1. /\ \A x : x \in Range(wq) => x \notin Range(new)
          /\ IsInjective(wq) /\ wq \in Seq(Groups)
      BY <2>4, TypedIs DEF Shape
    <3>2. IsInjective(new)
      BY <2>4
    <3>3. /\ wq \o new \in Seq(Groups) /\ IsInjective(wq \o new)
          /\ Range(wq \o new) = Range(wq) \cup Range(new)
      BY <2>5, <3>1, <3>2, ConcatList, SMTT(30)
    <3> QED
      BY <2>2, <2>4, <3>3
  <2>7. Range(wq') = Range(wq) \cup start
    BY <2>6
  <2> HIDE DEF start
  <2>8. ASSUME NEW g \in Groups, grp[g].ref > 0
        PROVE  /\ IsGroup(grp'[g])
               /\ grp'[g].ref = IF grp[g].state = "IDLE" THEN grp[g].ref + 1 ELSE grp[g].ref
               /\ grp'[g].state # "IDLE" /\ grp'[g].pending = grp[g].pending
               /\ grp'[g].active = grp[g].active /\ grp'[g].members = grp[g].members
               /\ grp'[g].retries = grp[g].retries
    <3> DEFINE ref == IF grp[g].state = "IDLE" THEN grp[g].ref + 1 ELSE grp[g].ref
               st == IF grp[g].state = "GROUP_ERROR" THEN grp[g].state ELSE event
               r == [grp[g] EXCEPT !.ref = ref, !.state = st]
    <3>0. IsGroup(grp[g])
      BY TypedIs
    <3>1. grp'[g] = r
      <4>1. grp'[g] = Hit(grp[g], event)
        BY <2>1, <2>8 DEF Live
      <4>2. Hit(grp[g], event) = r
        BY <3>0 DEF Hit, IsGroup, GroupFields
      <4> QED
        BY <4>1, <4>2
    <3>2. GroupIs(r, ref, grp[g].mgid, st, grp[g].pending, grp[g].active,
                  grp[g].members, grp[g].join_state, grp[g].pkey_index, grp[g].retries)
      BY <3>0 DEF IsGroup, GroupFields, GroupIs
    <3>3. ref \in Int /\ st # "IDLE" /\ st \in {"IDLE", "BUSY", "GROUP_ERROR", "PKEY_EVENT"}
      BY <1>a, <3>0, Refs DEF Typed, IsGroup
    <3> HIDE DEF r, ref, st
    <3>4. IsGroup(r)
      BY <3>0, <3>2, <3>3 DEF IsGroup, GroupIs
    <3>5. /\ IsGroup(grp'[g]) /\ grp'[g].ref = ref
          /\ grp'[g].state # "IDLE" /\ grp'[g].pending = grp[g].pending
          /\ grp'[g].active = grp[g].active /\ grp'[g].members = grp[g].members
          /\ grp'[g].retries = grp[g].retries
      BY <3>1, <3>2, <3>3, <3>4 DEF GroupIs
    <3> QED
      BY <3>5 DEF ref
  <2>9. \A g \in Groups : ~(grp[g].ref > 0) => grp'[g] = grp[g]
    BY <2>1 DEF Live
  <2>10. \A g \in Groups : grp'[g] \in GroupRecs
    BY <2>8, <2>9, TypedIs, GroupRec
  <2>11. grp' \in [Groups -> GroupRecs]
    BY <2>1, <2>10
  <2>12. Typed'
    BY <1>a, <2>6, <2>11, FabricNext DEF Typed, port
  <2> QED
    BY <1>a, <2>6, <2>7, <2>8, <2>9, <2>12 DEF start
<1> QED
  BY <1>1, <1>2

(* mcast_remove_one. *)
LEMMA RemoveStep ==
    ASSUME Typed, mcast_remove_one \/ remove_deref \/ remove_end
    PROVE  RemoveEffect
<1> USE DEF RemoveEffect
<1>1. CASE mcast_remove_one
  <2>1. /\ rem = "no" /\ rem' = "flush" /\ pref' = pref /\ UNCHANGED <<grp, mem, ctx, wq, query, fabric>>
        /\ flushing' = Range(wq) \cup ({ctx["wq"].g} \ {Null})
    BY <1>1 DEF mcast_remove_one
  <2>2. ctx["wq"].g \in Groups \cup {Null} /\ wq \in Seq(Groups)
    BY TypedIs DEF IsCtx, Ctxs
  <2>3. flushing' \subseteq Groups
    <3>1. Range(wq) \subseteq Groups
      BY <2>2, SMT DEF Range
    <3> QED
      BY <2>1, <2>2, <3>1
  <2>4. Typed'
    BY <2>1, <2>3, TypedNext DEF Typed
  <2> QED
    BY <2>1, <2>4
<1>2. CASE remove_deref
  <2>1. /\ rem = "flush" /\ rem' = "wait" /\ pref' = pref - 1
        /\ UNCHANGED <<grp, mem, ctx, wq, query, fabric, flushing>>
    BY <1>2 DEF remove_deref
  <2>2. Typed'
    BY <2>1, Refs, TypedNext DEF Typed
  <2> QED
    BY <2>1, <2>2
<1>3. CASE remove_end
  <2>1. /\ rem = "wait" /\ rem' = "done" /\ pref' = pref /\ pref = 0
        /\ UNCHANGED <<grp, mem, ctx, wq, query, fabric, flushing>>
    BY <1>3 DEF remove_end
  <2>2. Typed'
    BY <2>1, TypedNext DEF Typed
  <2> QED
    BY <2>1, <2>2
<1> QED
  BY <1>1, <1>2, <1>3

(* Every step of Multicast has one of the effects. *)
LEMMA NextEffects ==
    ASSUME FiniteSetFacts, Typed, Shape, [Next]_vars
    PROVE  Effects
<1> USE DEF Effects
<1>1. ASSUME NEW m \in Members, User(m) PROVE Effects
  <2>1. CASE \E mg \in Known, js \in scn.join_states : ib_sa_join_multicast(m, mg, js)
    BY <2>1, JoinStep
  <2>2. CASE ib_sa_free_multicast(m)
    BY <2>2, FreeStep
  <2> QED
    BY <1>1, <2>1, <2>2 DEF User
<1>2. ASSUME NEW m \in Members, UserSteps(m) PROVE Effects
  <2>1. CASE queue_join(m)
    BY <2>1, QueueJoinStep
  <2>2. CASE free_release(m)
    BY <2>2, FreeReleaseStep
  <2>3. CASE free_kfree(m)
    BY <2>3, KfreeStep
  <2> QED
    BY <1>2, <2>1, <2>2, <2>3 DEF UserSteps
<1>3. CASE work_start
  BY <1>3, WorkStartStep
<1>4. ASSUME NEW c \in Ctxs, StateMachine(c) PROVE Effects
  <2>1. CASE mcast_work_handler(c)
    BY <2>1, HandlerStep
  <2>2. CASE work_release(c)
    BY <2>2, WorkReleaseStep
  <2>3. CASE send_join(c)
    BY <2>3, SendJoinStep
  <2>4. CASE callback(c)
    <3>1. PICK g : g = ctx[c].g
      OBVIOUS
    <3>2. PICK m : m = ctx[c].m
      OBVIOUS
    <3>3. PICK told : told = IF ctx[c].pc = "errcb" THEN "reset"
                           ELSE IF mem[m].state = "MEMBER" THEN "joined" ELSE "failed"
      OBVIOUS
    <3>4. CallbackEffect(c, g, m, told)
      BY <2>4, <3>1, <3>2, <3>3, CallbackStep
    <3> QED
      BY <3>1, <3>2, <3>3, <3>4
  <2>5. CASE send_leave(c)
    BY <2>5, SendLeaveStep
  <2>6. CASE process_group_error(c)
    BY <2>6, ErrorStep
  <2>7. CASE error_lock(c)
    BY <2>7, ErrorLockStep
  <2>8. CASE error_next(c)
    BY <2>8, ErrorNextStep
  <2>9. CASE process_join_error(c)
    BY <2>9, JoinErrorStep
  <2>10. CASE join_record(c)
    BY <2>10, JoinRecordStep
  <2>11. CASE leave_retry(c)
    BY <2>11, LeaveRetryStep
  <2> QED
    BY <1>4, <2>1, <2>2, <2>3, <2>4, <2>5, <2>6, <2>7, <2>8, <2>9, <2>10, <2>11 DEF StateMachine
<1>5. ASSUME NEW g \in Groups, SaProcess(g) \/ QueryEnds(g) PROVE Effects
  <2>1. CASE SaProcess(g)
    BY <2>1, SaStep
  <2>2. ASSUME NEW c \in {"recv", "timeout"}, join_handler(c, g) PROVE Effects
    BY <2>2, JoinHandlerStep
  <2>3. ASSUME NEW c \in {"recv", "timeout"}, leave_handler(c, g) PROVE Effects
    BY <2>3, LeaveHandlerStep
  <2> QED
    BY <1>5, <2>1, <2>2, <2>3 DEF QueryEnds
<1>6. CASE port_error \/ pkey_change
  BY <1>6, EventStep
<1>7. CASE mcast_groups_event
  BY <1>7, GroupsEventStep
<1>8. CASE mcast_remove_one \/ remove_deref \/ remove_end
  BY <1>8, RemoveStep
<1>9. CASE UNCHANGED vars
  BY <1>9
<1> QED
  BY <1>1, <1>2, <1>3, <1>4, <1>5, <1>6, <1>7, <1>8, <1>9 DEF Next

============================================================================
