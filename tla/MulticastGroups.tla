-------------------------- MODULE MulticastGroups --------------------------
(*****************************************************************************)
(* The lemmas about the state machine of a group: every effect of            *)
(* MulticastEffects keeps the types, keeps each group that is not idle in    *)
(* exactly one place (on the workqueue, in one context or at its query),     *)
(* keeps the references on groups and on the port equal to what holds them,  *)
(* and keeps the retries of leaves in their bounds. The lemmas assume of     *)
(* finite sets only FiniteSetFacts, which MulticastProofs proves.            *)
(*****************************************************************************)
EXTENDS MulticastEffects, TLAPS

USE Zenon

(* How the number of elements of a finite set changes. *)
LEMMA CardStep ==
    ASSUME FiniteSetFacts, NEW S, IsFiniteSet(S)
    PROVE  /\ Cardinality(S) \in Nat
           /\ \A x : x \notin S => Cardinality(S \cup {x}) = Cardinality(S) + 1
           /\ \A x : x \in S => Cardinality(S) - 1 \in Nat /\ Cardinality(S \ {x}) = Cardinality(S) - 1
           /\ Cardinality(S) = 0 <=> S = {}
<1>1. /\ Cardinality(S) \in Nat
      /\ \A x : x \notin S => Cardinality(S \cup {x}) = Cardinality(S) + 1
      /\ Cardinality(S) = 0 <=> S = {}
      /\ \A x : x \in S => Cardinality(S \ {x}) = Cardinality(S) - 1
  BY DEF FiniteSetFacts
<1>2. \A x : x \in S => Cardinality(S) - 1 \in Nat
  <2>1. \A x : x \in S => Cardinality(S) # 0
    BY <1>1
  <2> QED
    BY <1>1, <2>1, SMT
<1> QED
  BY <1>1, <1>2

(* A subset of a finite set is finite. *)
LEMMA SubFinite ==
    ASSUME FiniteSetFacts, NEW S, IsFiniteSet(S), NEW T \in SUBSET S
    PROVE  IsFiniteSet(T)
BY DEF FiniteSetFacts

(* The sizes of the smallest sets. *)
LEMMA CardEmpty ==
    ASSUME FiniteSetFacts
    PROVE  Cardinality({}) = 0 /\ \A x : Cardinality({x}) = 1
BY DEF FiniteSetFacts

(* The elements of a list. *)
LEMMA RangeSeq ==
    ASSUME NEW S, NEW s \in Seq(S)
    PROVE  Range(s) \subseteq S
BY SMT DEF Range

(* The empty list, which a new group and an empty workqueue have. *)
LEMMA EmptyList == IsInjective(<<>>) /\ Range(<<>>) = {}
BY SMT DEF IsInjective, Range

(* What Append (list_add_tail) makes of a list, index by index. *)
LEMMA AppendSeq ==
    ASSUME NEW S, NEW s \in Seq(S), NEW e \in S
    PROVE  /\ Append(s, e) \in Seq(S) /\ Len(s) \in Nat
           /\ DOMAIN Append(s, e) = 1..(Len(s) + 1) /\ DOMAIN s = 1..Len(s)
           /\ Append(s, e)[Len(s) + 1] = e /\ \A i \in 1..Len(s) : Append(s, e)[i] = s[i]
BY SMT

(* Append keeps a list without duplicates when the element is new. *)
LEMMA AppendList ==
    ASSUME NEW S, NEW s \in Seq(S), NEW e \in S
    PROVE  /\ Append(s, e) \in Seq(S)
           /\ Range(Append(s, e)) = Range(s) \cup {e}
           /\ IsInjective(s) /\ e \notin Range(s) => IsInjective(Append(s, e))
<1> DEFINE t == Append(s, e)
<1>1. /\ t \in Seq(S) /\ Len(s) \in Nat
      /\ DOMAIN t = 1..(Len(s) + 1) /\ DOMAIN s = 1..Len(s)
      /\ t[Len(s) + 1] = e /\ \A i \in 1..Len(s) : t[i] = s[i]
  BY AppendSeq, SMT
<1> HIDE DEF t
<1>2. /\ \A i \in DOMAIN t : i = Len(s) + 1 \/ i \in 1..Len(s)
      /\ Len(s) + 1 \in DOMAIN t /\ \A i \in 1..Len(s) : i \in DOMAIN t /\ i # Len(s) + 1
  BY <1>1, SMT
<1>3. ASSUME IsInjective(s), e \notin Range(s) PROVE IsInjective(t)
  <2>1. \A i \in 1..Len(s) : s[i] # e
    BY <1>1, <1>3 DEF Range
  <2> SUFFICES ASSUME NEW i \in DOMAIN t, NEW j \in DOMAIN t, t[i] = t[j] PROVE i = j
    BY DEF IsInjective
  <2> QED
    BY <1>1, <1>2, <1>3, <2>1 DEF IsInjective
<1>5. Range(t) = Range(s) \cup {e}
  BY <1>1, <1>2 DEF Range
<1> QED
  BY <1>1, <1>3, <1>5 DEF t

(* What Tail makes of a list, index by index. *)
LEMMA TailSeq ==
    ASSUME NEW S, NEW s \in Seq(S), s # <<>>
    PROVE  /\ Tail(s) \in Seq(S) /\ Len(s) \in Nat \ {0}
           /\ DOMAIN Tail(s) = 1..(Len(s) - 1) /\ DOMAIN s = 1..Len(s)
           /\ \A i \in 1..(Len(s) - 1) : Tail(s)[i] = s[i + 1]
           /\ Head(s) = s[1] /\ Head(s) \in S
BY SMT

(* Tail takes the head of a list without duplicates off it. *)
LEMMA TailList ==
    ASSUME NEW S, NEW s \in Seq(S), s # <<>>, IsInjective(s)
    PROVE  /\ Head(s) \in S /\ Head(s) \in Range(s)
           /\ Tail(s) \in Seq(S) /\ IsInjective(Tail(s))
           /\ Range(Tail(s)) = Range(s) \ {Head(s)}
<1> DEFINE t == Tail(s)
<1>1. /\ t \in Seq(S) /\ Len(s) \in Nat \ {0}
      /\ DOMAIN t = 1..(Len(s) - 1) /\ DOMAIN s = 1..Len(s)
      /\ \A i \in 1..(Len(s) - 1) : t[i] = s[i + 1]
      /\ Head(s) = s[1] /\ Head(s) \in S
  BY TailSeq
<1> HIDE DEF t
<1>2. /\ 1 \in DOMAIN s
      /\ \A i \in DOMAIN t : i + 1 \in DOMAIN s /\ i + 1 # 1
      /\ \A i, j \in DOMAIN t : i + 1 = j + 1 => i = j
      /\ \A i \in DOMAIN s : i # 1 => \E j \in DOMAIN t : j + 1 = i
  <2>1. ASSUME NEW i \in DOMAIN s, i # 1 PROVE i - 1 \in DOMAIN t /\ (i - 1) + 1 = i
    BY <1>1, <2>1, SMT
  <2>2. \A i \in DOMAIN s : i # 1 => \E j \in DOMAIN t : j + 1 = i
    BY <2>1
  <2>3. 1 \in DOMAIN s /\ \A i \in DOMAIN t : i + 1 \in DOMAIN s /\ i + 1 # 1
    BY <1>1, SMT
  <2>4. \A i, j \in DOMAIN t : i + 1 = j + 1 => i = j
    BY <1>1, SMT
  <2> QED
    BY <2>2, <2>3, <2>4
<1>3. IsInjective(t)
  BY <1>1, <1>2, SMT DEF IsInjective
<1>4. \A x : x \in Range(t) <=> x \in Range(s) /\ x # Head(s)
  <2>1. ASSUME NEW i \in DOMAIN t PROVE t[i] \in Range(s) /\ t[i] # Head(s)
    <3>1. t[i] = s[i + 1] /\ i + 1 \in DOMAIN s /\ i + 1 # 1 /\ 1 \in DOMAIN s
      BY <1>1, <1>2
    <3>2. s[i + 1] # s[1]
      BY <3>1 DEF IsInjective
    <3> QED
      BY <1>1, <3>1, <3>2 DEF Range
  <2>2. ASSUME NEW i \in DOMAIN s, s[i] # Head(s) PROVE s[i] \in Range(t)
    <3>1. PICK j \in DOMAIN t : j + 1 = i
      BY <1>1, <1>2, <2>2
    <3> QED
      BY <1>1, <3>1 DEF Range
  <2> QED
    BY <2>1, <2>2 DEF Range
<1>5. Range(t) = Range(s) \ {Head(s)}
  BY <1>4
<1>6. Head(s) \in Range(s)
  BY <1>1, <1>2 DEF Range
<1> QED
  BY <1>1, <1>3, <1>5, <1>6 DEF t

(* The part of a list before index k. *)
LEMMA SubSeqLeft ==
    ASSUME NEW S, NEW s \in Seq(S), NEW k \in 1..Len(s)
    PROVE  /\ SubSeq(s, 1, k - 1) \in Seq(S) /\ Len(SubSeq(s, 1, k - 1)) = k - 1
           /\ \A i \in 1..(k - 1) : SubSeq(s, 1, k - 1)[i] = s[i]
BY SMT

(* The part of a list after index k. *)
LEMMA SubSeqRight ==
    ASSUME NEW S, NEW s \in Seq(S), NEW k \in 1..Len(s)
    PROVE  /\ SubSeq(s, k + 1, Len(s)) \in Seq(S) /\ Len(SubSeq(s, k + 1, Len(s))) = Len(s) - k
           /\ \A i \in 1..(Len(s) - k) : SubSeq(s, k + 1, Len(s))[i] = s[k + i]
BY SMT

(* Two lists, one after the other, index by index. *)
LEMMA ConcatSeq ==
    ASSUME NEW S, NEW s \in Seq(S), NEW t \in Seq(S)
    PROVE  /\ s \o t \in Seq(S) /\ DOMAIN (s \o t) = 1..(Len(s) + Len(t))
           /\ \A i \in 1..(Len(s) + Len(t)) :
                 (s \o t)[i] = IF i <= Len(s) THEN s[i] ELSE t[i - Len(s)]
BY SMT

(* Without (list_del) takes an element off a list without duplicates. *)
LEMMA WithoutSeq ==
    ASSUME NEW S, NEW s \in Seq(S), NEW e
    PROVE  /\ Without(s, e) \in Seq(S)
           /\ IsInjective(s) => /\ IsInjective(Without(s, e))
                                /\ Range(Without(s, e)) = Range(s) \ {e}
<1>1. CASE e \in Range(s)
  <2>1. PICK k : k \in DOMAIN s /\ s[k] = e /\ Without(s, e) = SubSeq(s, 1, k - 1) \o SubSeq(s, k + 1, Len(s))
    BY <1>1 DEF Without, Range
  <2> DEFINE a == SubSeq(s, 1, k - 1)
             b == SubSeq(s, k + 1, Len(s))
             r == a \o b
             Pos(i) == IF i < k THEN i ELSE i + 1
  <2>2. DOMAIN s = 1..Len(s) /\ Len(s) \in Nat /\ k \in 1..Len(s) /\ k \in Int
    BY <2>1, SMT
  <2>3. a \in Seq(S) /\ Len(a) = k - 1 /\ \A i \in 1..(k - 1) : a[i] = s[i]
    BY <2>2, SubSeqLeft
  <2>4. b \in Seq(S) /\ Len(b) = Len(s) - k /\ \A i \in 1..(Len(s) - k) : b[i] = s[k + i]
    BY <2>2, SubSeqRight
  <2> HIDE DEF a, b
  <2>5. /\ r \in Seq(S) /\ DOMAIN r = 1..(Len(a) + Len(b))
        /\ \A i \in 1..(Len(a) + Len(b)) : r[i] = IF i <= Len(a) THEN a[i] ELSE b[i - Len(a)]
    BY <2>3, <2>4, ConcatSeq
  <2> HIDE DEF r
  <2>6. DOMAIN r = 1..(Len(s) - 1)
    BY <2>2, <2>3, <2>4, <2>5, SMT
  <2>7. ASSUME NEW i \in DOMAIN r PROVE r[i] = s[Pos(i)]
    <3>1. CASE i < k
      <4>1. i \in 1..(k - 1) /\ i <= Len(a) /\ i \in 1..(Len(a) + Len(b))
        BY <2>2, <2>3, <2>4, <2>6, <2>7, <3>1, SMT
      <4> QED
        BY <2>3, <2>5, <3>1, <4>1
    <3>2. CASE ~(i < k)
      <4>1. /\ i - Len(a) \in 1..(Len(s) - k) /\ ~(i <= Len(a)) /\ i \in 1..(Len(a) + Len(b))
            /\ k + (i - Len(a)) = i + 1
        BY <2>2, <2>3, <2>4, <2>6, <2>7, <3>2, SMT
      <4> QED
        BY <2>4, <2>5, <3>2, <4>1
    <3> QED
      BY <3>1, <3>2
  <2>8. /\ \A i \in DOMAIN r : Pos(i) \in DOMAIN s /\ Pos(i) # k
        /\ \A i, j \in DOMAIN r : Pos(i) = Pos(j) => i = j
    BY <2>2, <2>6, SMT
  <2>9. ASSUME NEW j \in DOMAIN s, j # k PROVE \E i \in DOMAIN r : Pos(i) = j
    <3>1. CASE j < k
      BY <2>2, <2>6, <2>9, <3>1, SMT
    <3>2. CASE j > k
      <4>1. j - 1 \in DOMAIN r /\ ~(j - 1 < k) /\ (j - 1) + 1 = j
        BY <2>2, <2>6, <2>9, <3>2, SMT
      <4> QED
        BY <4>1
    <3> QED
      BY <2>2, <2>9, <3>1, <3>2, SMT
  <2> HIDE DEF Pos
  <2>10. ASSUME IsInjective(s) PROVE IsInjective(r) /\ Range(r) = Range(s) \ {e}
    <3>1. IsInjective(r)
      BY <2>7, <2>8, <2>10 DEF IsInjective
    <3>2. ASSUME NEW i \in DOMAIN r PROVE r[i] \in Range(s) \ {e}
      BY <2>1, <2>7, <2>8, <2>10, <3>2 DEF IsInjective, Range
    <3>3. ASSUME NEW j \in DOMAIN s, s[j] # e PROVE s[j] \in Range(r)
      <4>1. PICK i \in DOMAIN r : Pos(i) = j
        BY <2>1, <2>9, <3>3
      <4> QED
        BY <2>7, <4>1 DEF Range
    <3> QED
      BY <3>1, <3>2, <3>3 DEF Range
  <2> QED
    BY <2>1, <2>5, <2>10 DEF r, a, b
<1>2. CASE e \notin Range(s)
  BY <1>2 DEF Without
<1> QED
  BY <1>1, <1>2

(* What the assumption says of the constants. *)
LEMMA Constants ==
    /\ IsFiniteSet(Groups) /\ IsFiniteSet(Members)
    /\ Null \notin Groups /\ Null \notin Members /\ Retries \in Nat \ {0}
BY MulticastAssumption

(* There are three contexts. *)
LEMMA CtxsFinite ==
    ASSUME FiniteSetFacts
    PROVE  IsFiniteSet(Ctxs)
<1>1. IsFiniteSet(({} \cup {"wq"}) \cup {"recv"})
  BY DEF FiniteSetFacts
<1>2. IsFiniteSet((({} \cup {"wq"}) \cup {"recv"}) \cup {"timeout"})
  BY <1>1 DEF FiniteSetFacts
<1>3. Ctxs = (({} \cup {"wq"}) \cup {"recv"}) \cup {"timeout"}
  BY DEF Ctxs
<1> QED
  BY <1>2, <1>3

(* A group record, field by field. *)
LEMMA GroupRec == \A r : r \in GroupRecs <=> IsGroup(r)
BY SMT DEF GroupRecs, IsGroup, GroupFields

(* A member record, field by field. *)
LEMMA MemberRec == \A r : r \in MemberRecs <=> IsMember(r)
BY SMT DEF MemberRecs, IsMember, MemberFields

(* A context record, field by field. *)
LEMMA CtxRec == \A r : r \in CtxRecs <=> IsCtx(r)
BY SMT DEF CtxRecs, IsCtx, CtxFields

(* A query record, field by field. *)
LEMMA QueryRec == \A r : r \in QueryRecs <=> IsQuery(r)
BY SMT DEF QueryRecs, IsQuery, QueryFields

(* The records of TypeOK have counts that are not negative. *)
LEMMA GroupNat ==
    ASSUME NEW r \in GroupRecs, r.ref \in Nat, r.members \in [Types -> Nat], r.retries \in -1..Retries
    PROVE  r \in [ref : Nat, mgid : AllMgids \cup {Zero}, state : {"IDLE", "BUSY", "GROUP_ERROR", "PKEY_EVENT"},
                  pending : Seq(Members), active : SUBSET Members, members : [Types -> Nat],
                  join_state : SUBSET Types, pkey_index : PkeyIndices \cup {Null},
                  retries : -1..Retries]
BY SMT DEF GroupRecs

(* A member record whose count is not negative. *)
LEMMA MemberNat ==
    ASSUME NEW r \in MemberRecs, r.ref \in Nat
    PROVE  r \in [ref : Nat, group : Groups \cup {Null}, mgid : AllMgids \cup {Zero},
                  join_state : SUBSET Types, state : {"JOINING", "MEMBER", "ERROR"},
                  user : {"none", "acquired", "held", "free", "release", "wait"},
                  told : {"nothing", "joined", "failed", "reset"}]
BY SMT DEF MemberRecs

(* What wq, pref and events are initially has its type. *)
LEMMA InitTypes == <<>> \in Seq(Groups) /\ 1 \in Int /\ \A n \in Nat : n \in 0..n
BY SMT

(* What Typed says of each record. *)
LEMMA TypedIs ==
    ASSUME Typed
    PROVE  /\ \A g \in Groups : IsGroup(grp[g]) /\ IsQuery(query[g])
           /\ \A m \in Members : IsMember(mem[m])
           /\ \A c \in Ctxs : IsCtx(ctx[c])
           /\ pref \in Int /\ flushing \subseteq Groups /\ wq \in Seq(Groups)
           /\ rem \in {"no", "flush", "wait", "done"}
BY GroupRec, MemberRec, CtxRec, QueryRec DEF Typed

(* A step that leaves the fabric alone keeps the types when each new value   *)
(* has its type.                                                             *)
LEMMA TypedNext ==
    ASSUME Typed, UNCHANGED fabric,
           grp' \in [Groups -> GroupRecs], mem' \in [Members -> MemberRecs],
           ctx' \in [Ctxs -> CtxRecs], query' \in [Groups -> QueryRecs], wq' \in Seq(Groups),
           pref' \in Int, rem' \in {"no", "flush", "wait", "done"}, flushing' \subseteq Groups
    PROVE  Typed'
<1>1. AllMgids' = AllMgids
  BY DEF AllMgids, fabric
<1>2. GroupRecs' = GroupRecs /\ CtxRecs' = CtxRecs /\ QueryRecs' = QueryRecs /\ MemberRecs' = MemberRecs
  BY <1>1 DEF GroupRecs, CtxRecs, QueryRecs, Records, MemberRecs
<1> QED
  BY <1>1, <1>2 DEF Typed, fabric

(* A member in use has a group. *)
LEMMA UsedMember ==
    ASSUME Typed, Shape, NEW m \in Members, mem[m].user # "none"
    PROVE  mem[m].group \in Groups
BY TypedIs DEF Shape, IsMember

(* A context that runs has a group, and a member where it works for one. *)
LEMMA BusyCtx ==
    ASSUME Typed, Shape, NEW c \in Ctxs, ctx[c].pc # "idle"
    PROVE  /\ ctx[c].g \in Groups
           /\ ctx[c].pc \in Told \cup {"joinerr"} => ctx[c].m \in Members
BY TypedIs DEF Shape, IsCtx

(* How the contexts that use member n change when context c goes on. *)
LEMMA UsersStep ==
    ASSUME NEW c \in Ctxs, \A d \in Ctxs : d # c => ctx'[d] = ctx[d], NEW n
    PROVE  /\ Uses(c, n)' => Users(n)' = Users(n) \cup {c}
           /\ ~Uses(c, n)' => Users(n)' = Users(n) \ {c}
           /\ c \in Users(n) <=> Uses(c, n)
           /\ (Uses(c, n)' <=> Uses(c, n)) => Users(n)' = Users(n)
<1>1. /\ Uses(c, n)' => Users(n)' = Users(n) \cup {c}
      /\ ~Uses(c, n)' => Users(n)' = Users(n) \ {c}
      /\ c \in Users(n) <=> Uses(c, n)
  BY DEF Users, Uses
<1> QED
  BY <1>1

(* How the holders of group f change when member m does. *)
LEMMA HoldersStep ==
    ASSUME NEW m \in Members, \A n \in Members : n # m => mem'[n] = mem[n], NEW f
    PROVE  /\ mem'[m].group = f /\ mem'[m].user # "wait" => Holders(f)' = Holders(f) \cup {m}
           /\ ~(mem'[m].group = f /\ mem'[m].user # "wait") => Holders(f)' = Holders(f) \ {m}
           /\ m \in Holders(f) <=> mem[m].group = f /\ mem[m].user # "wait"
BY DEF Holders

(* How the runs that leave group f change when context c goes on. *)
LEMMA LeavingStep ==
    ASSUME NEW c \in Ctxs, \A d \in Ctxs : d # c => ctx'[d] = ctx[d], NEW f
    PROVE  /\ ctx'[c].g = f /\ ctx'[c].pc = "release" => Leaving(f)' = Leaving(f) \cup {c}
           /\ ~(ctx'[c].g = f /\ ctx'[c].pc = "release") => Leaving(f)' = Leaving(f) \ {c}
           /\ c \in Leaving(f) <=> ctx[c].g = f /\ ctx[c].pc = "release"
BY DEF Leaving

(* Where the state machine of group f can be. *)
LEMMA RunsIs ==
    ASSUME NEW f
    PROVE  /\ \A c \in Ctxs : c \in Runs(f) <=> InCtx(c, f)
           /\ "queued" \in Runs(f) <=> f \in Range(wq)
           /\ "query" \in Runs(f) <=> query[f].op # "none"
           /\ Runs(f) \subseteq Ctxs \cup {"queued", "query"}
BY DEF Runs, InCtx, Ctxs

(* What holds of Runs(f) decides where f is. *)
LEMMA RunsSame ==
    ASSUME NEW f, \A c \in Ctxs : InCtx(c, f)' <=> InCtx(c, f),
           f \in Range(wq') <=> f \in Range(wq), query'[f].op # "none" <=> query[f].op # "none"
    PROVE  Runs(f)' = Runs(f)
BY DEF Runs, InCtx

(* A context that has nothing to do with group f does not move its state machine. *)
LEMMA RunsStep ==
    ASSUME NEW c \in Ctxs, \A d \in Ctxs : d # c => ctx'[d] = ctx[d], NEW f,
           ctx[c].g # f, ctx'[c].g # f,
           f \in Range(wq') <=> f \in Range(wq), query'[f].op # "none" <=> query[f].op # "none"
    PROVE  Runs(f)' = Runs(f) /\ Leaving(f)' = Leaving(f)
<1>1. \A d \in Ctxs : InCtx(d, f)' <=> InCtx(d, f)
  BY DEF InCtx
<1> QED
  BY <1>1, RunsSame DEF Leaving

(* A context goes on with its group. *)
LEMMA CtxStays ==
    ASSUME NEW c \in Ctxs, NEW pc, NEW m, NEW g, CtxStep(c, pc, g, m), g = ctx[c].g,
           ctx[c].pc \notin {"release", "retry"}, pc \notin {"release", "retry"},
           wq' = wq, query' = query
    PROVE  \A f : Runs(f)' = Runs(f) /\ Leaving(f)' = Leaving(f)
<1>1. \A f : \A d \in Ctxs : InCtx(d, f)' <=> InCtx(d, f)
  BY DEF InCtx, CtxStep
<1>2. \A f : Leaving(f)' = Leaving(f)
  BY DEF Leaving, CtxStep
<1>3. Range(wq') = Range(wq)
  OBVIOUS
<1> QED
  BY <1>1, <1>2, <1>3, RunsSame

(* The sets that are counted are finite. *)
LEMMA Finite ==
    ASSUME FiniteSetFacts
    PROVE  /\ \A g \in Groups : IsFiniteSet(Holders(g)) /\ IsFiniteSet(Leaving(g))
           /\ \A m \in Members : IsFiniteSet(Users(m))
           /\ IsFiniteSet(Live)
<1>1. \A g \in Groups : Holders(g) \subseteq Members /\ Leaving(g) \subseteq Ctxs
  BY DEF Holders, Leaving
<1>2. \A m \in Members : Users(m) \subseteq Ctxs
  BY DEF Users
<1>3. Live \subseteq Groups
  BY DEF Live
<1> QED
  BY <1>1, <1>2, <1>3, Constants, CtxsFinite, SubFinite

(* A group that is held, left or not idle has a reference. *)
LEMMA RefIs ==
    ASSUME FiniteSetFacts, GroupInv, NEW g \in Groups
    PROVE  /\ Cardinality(Holders(g)) \in Nat /\ Cardinality(Leaving(g)) \in Nat
           /\ grp[g].state = "IDLE" => grp[g].ref = Cardinality(Holders(g)) + Cardinality(Leaving(g))
           /\ grp[g].state # "IDLE" => grp[g].ref = Cardinality(Holders(g)) + 1 + Cardinality(Leaving(g))
           /\ grp[g].ref \in Nat
           /\ Holders(g) # {} \/ Leaving(g) # {} \/ grp[g].state # "IDLE" => grp[g].ref > 0
<1>1. /\ Cardinality(Holders(g)) \in Nat /\ Cardinality(Leaving(g)) \in Nat
      /\ Holders(g) # {} => Cardinality(Holders(g)) # 0
      /\ Leaving(g) # {} => Cardinality(Leaving(g)) # 0
  BY Finite, CardStep
<1>2. RefAt(g)
  BY DEF GroupInv
<1> DEFINE h == Cardinality(Holders(g))
           l == Cardinality(Leaving(g))
<1>3. grp[g].ref = h + (IF grp[g].state = "IDLE" THEN 0 ELSE 1) + l
  BY <1>2 DEF RefAt
<1> HIDE DEF h, l
<1>4. /\ h \in Nat /\ l \in Nat /\ (Holders(g) # {} => h # 0) /\ (Leaving(g) # {} => l # 0)
  BY <1>1 DEF h, l
<1>5. /\ grp[g].state = "IDLE" => grp[g].ref = h + l
      /\ grp[g].state # "IDLE" => grp[g].ref = h + 1 + l
      /\ grp[g].ref \in Nat
      /\ h # 0 \/ l # 0 \/ grp[g].state # "IDLE" => grp[g].ref > 0
  BY <1>3, <1>4, SMT
<1> QED
  BY <1>1, <1>4, <1>5 DEF h, l

(* The group of a context that runs is not idle. *)
LEMMA RunsBusy ==
    ASSUME GroupInv, NEW c \in Ctxs, NEW g \in Groups, ctx[c].g = g, ctx[c].pc \notin {"release", "retry"}
    PROVE  grp[g].state # "IDLE" /\ Runs(g) = {c}
<1>1. c \in Runs(g) /\ SerialAt(g)
  BY RunsIs DEF InCtx, GroupInv
<1> QED
  BY <1>1 DEF SerialAt

(* Null is neither a group nor a member. *)
LEMMA NotNull == \A x : x \in Groups \/ x \in Members => x # Null
BY Constants

----------------------------------------------------------------------------
(* Types and shape. *)

CtxShape ==
    \A c \in Ctxs :
       /\ ctx[c].pc = "idle" <=> ctx[c].g = Null
       /\ ctx[c].pc \in Told \cup {"joinerr"} <=> ctx[c].m # Null
QueryShape == \A g \in Groups : query[g].op = "join" => query[g].m # Null
MemShape == \A m \in Members : mem[m].user = "none" <=> mem[m].group = Null

(* Shape, conjunct by conjunct. *)
LEMMA ShapeIs ==
    /\ Shape <=> CtxShape /\ QueryShape /\ MemShape /\ IsInjective(wq)
    /\ Shape' <=> CtxShape' /\ QueryShape' /\ MemShape' /\ IsInjective(wq')
BY DEF Shape, CtxShape, QueryShape, MemShape

(* A context goes to a state of the right shape. *)
LEMMA CtxShapeStep ==
    ASSUME CtxShape, NEW c \in Ctxs, NEW pc, NEW g, NEW m, CtxStep(c, pc, g, m),
           pc = "idle" <=> g = Null, pc \in Told \cup {"joinerr"} <=> m # Null
    PROVE  CtxShape'
BY DEF CtxShape, CtxStep

(* A member goes to a state of the right shape. *)
LEMMA MemShapeStep ==
    ASSUME MemShape, NEW m \in Members, \A n \in Members : n # m => mem'[n] = mem[n],
           mem'[m].user = "none" <=> mem'[m].group = Null
    PROVE  MemShape'
BY DEF MemShape

(* A member that keeps its group keeps its shape. *)
LEMMA MemKeeps ==
    ASSUME MemShape, NEW m \in Members, NEW ref, NEW js, NEW st, NEW told, NEW user,
           MemStep(m, ref, mem[m].group, js, st, user, told), user = "none" <=> mem[m].user = "none"
    PROVE  MemShape'
BY MemShapeStep DEF MemStep, MemShape

(* A query goes to a state of the right shape. *)
LEMMA QueryShapeStep ==
    ASSUME QueryShape, NEW g \in Groups, NEW op, NEW m, QueryStep(g, op, m), op = "join" => m # Null
    PROVE  QueryShape'
BY DEF QueryShape, QueryStep

(* What does not change keeps its shape. *)
LEMMA ShapeSame ==
    ASSUME CtxShape, MemShape, QueryShape
    PROVE  /\ ctx' = ctx => CtxShape' 
           /\ mem' = mem => MemShape'
           /\ query' = query => QueryShape'
BY DEF CtxShape, MemShape, QueryShape

(* Every step keeps types and shape. *)
LEMMA ShapeNext ==
    ASSUME Typed, Shape, Effects
    PROVE  Typed' /\ Shape'
<1>0. CtxShape /\ QueryShape /\ MemShape /\ IsInjective(wq)
  BY ShapeIs
<1>b. /\ \A pc \in Told \cup {"joinerr"} : pc # "idle"
      /\ "idle" \notin Told \cup {"joinerr"}
      /\ {"send", "cb", "wait", "errcb", "errwait"} \subseteq Told
      /\ \A pc \in {"test", "release", "leave", "releave", "retry", "err", "errlock", "errnext", "joined"} :
           pc \notin Told \cup {"joinerr"} /\ pc # "idle"
  BY DEF Told
<1>1. ASSUME NEW m \in Members, NEW js, JoinEffect(m, js)
      PROVE  Typed' /\ Shape'
  <2>1. /\ Typed' /\ UNCHANGED <<ctx, query, wq>> /\ \A n \in Members : n # m => mem'[n] = mem[n]
        /\ mem'[m].user # "none" /\ mem'[m].group # Null
    BY <1>1, NotNull DEF MemStep, JoinEffect
  <2> QED
    BY <2>1, <1>0, ShapeIs, ShapeSame, MemShapeStep
<1>2. ASSUME NEW m \in Members, NEW g, g = mem[m].group,
             NEW ms, ms = IF mem[m].state = "MEMBER"
                          THEN Adjusted(grp[g].members, mem[m].join_state, -1) ELSE grp[g].members,
             FreeEffect(m, g, ms)
      PROVE  Typed' /\ Shape'
  <2>1. Typed' /\ UNCHANGED <<ctx, query>> /\ g \in Groups /\ (Queued(g) \/ wq' = wq)
    BY <1>2 DEF FreeEffect
  <2>a. \E ref, js, st, told : MemStep(m, ref, g, js, st, "wait", told) \/ MemStep(m, ref, g, js, st, "release", told)
    BY <1>2 DEF FreeEffect
  <2>2. (\A n \in Members : n # m => mem'[n] = mem[n]) /\ mem'[m].user # "none" /\ mem'[m].group # Null
    BY <2>a, <2>1, NotNull DEF MemStep
  <2>3. IsInjective(wq')
    BY <2>1, <1>0 DEF Queued
  <2> QED
    BY <2>1, <2>2, <2>3, <1>0, ShapeIs, ShapeSame, MemShapeStep
<1>3. ASSUME NEW m \in Members, NEW g, g = mem[m].group, QueueJoinEffect(m, g)
      PROVE  Typed' /\ Shape'
  <2>1. /\ Typed' /\ UNCHANGED <<ctx, query>> /\ IsInjective(wq')
        /\ \A n \in Members : n # m => mem'[n] = mem[n]
        /\ mem'[m].user # "none" /\ mem'[m].group # Null
    BY <1>3, <1>0, NotNull DEF MemStep, QueueJoinEffect, Queued
  <2> QED
    BY <2>1, <1>0, ShapeIs, ShapeSame, MemShapeStep
<1>4. ASSUME NEW m \in Members, NEW g, g = mem[m].group, FreeReleaseEffect(m, g)
      PROVE  Typed' /\ Shape'
  <2>1. /\ Typed' /\ UNCHANGED <<ctx, query>> /\ IsInjective(wq')
        /\ \A n \in Members : n # m => mem'[n] = mem[n]
        /\ mem'[m].user # "none" /\ mem'[m].group # Null
    BY <1>4, <1>0, NotNull DEF MemStep, FreeReleaseEffect, Queued
  <2> QED
    BY <2>1, <1>0, ShapeIs, ShapeSame, MemShapeStep
<1>5. ASSUME NEW m \in Members, KfreeEffect(m)
      PROVE  Typed' /\ Shape'
  <2>1. /\ Typed' /\ UNCHANGED <<query, wq>> /\ \A n \in Members : n # m => mem'[n] = mem[n]
        /\ mem'[m].user = "none" /\ mem'[m].group = Null
    BY <1>5 DEF MemStep, KfreeEffect
  <2>2. CtxShape'
    <3> SUFFICES ASSUME NEW c \in Ctxs
                 PROVE  /\ ctx'[c].pc = "idle" <=> ctx'[c].g = Null
                        /\ ctx'[c].pc \in Told \cup {"joinerr"} <=> ctx'[c].m # Null
      BY DEF CtxShape
    <3>1. \/ /\ ctx[c].m = m /\ ctx[c].pc = "wait"
             /\ ctx'[c].pc = "test" /\ ctx'[c].m = Null /\ ctx'[c].g = ctx[c].g
          \/ /\ ctx[c].m = m /\ ctx[c].pc = "errwait"
             /\ ctx'[c].pc = "errnext" /\ ctx'[c].m = Null /\ ctx'[c].g = ctx[c].g
          \/ ctx'[c] = ctx[c]
      BY <1>5 DEF KfreeEffect
    <3> QED
      BY <1>0, <3>1 DEF CtxShape, Told
  <2> QED
    BY <2>1, <2>2, <1>0, ShapeIs, ShapeSame, MemShapeStep
<1>6. ASSUME WorkStartEffect
      PROVE  Typed' /\ Shape'
  <2>1. Typed' /\ UNCHANGED <<mem, query>> /\ CtxStep("wq", "test", Head(wq), Null) /\ wq # <<>> /\ wq' = Tail(wq)
    BY <1>6 DEF WorkStartEffect
  <2>2. "wq" \in Ctxs /\ Head(wq) # Null /\ IsInjective(wq') /\ "test" # "idle" /\ "test" \notin Told \cup {"joinerr"}
    BY <2>1, <1>0, TypedIs, TailList, NotNull DEF Ctxs, Told
  <2> QED
    BY <2>1, <2>2, <1>0, ShapeIs, ShapeSame, CtxShapeStep
<1>7. ASSUME NEW c \in Ctxs, NEW g, g = ctx[c].g, NEW m, m = Head(grp[g].pending), HandlerEffect(c, g, m)
      PROVE  Typed' /\ Shape'
  <2>1. Typed' /\ UNCHANGED <<wq, query>> /\ g # Null
    BY <1>7, NotNull DEF HandlerEffect
  <2>2. \/ CtxStep(c, "err", g, Null) \/ CtxStep(c, "leave", g, Null) \/ CtxStep(c, "release", g, Null)
        \/ m \in Members /\ (CtxStep(c, "cb", g, m) \/ CtxStep(c, "send", g, m))
    BY <1>7 DEF HandlerEffect
  <2>3. \/ mem' = mem
        \/ m \in Members /\ \E ref, st : MemStep(m, ref, mem[m].group, mem[m].join_state, st, mem[m].user, mem[m].told)
    BY <1>7 DEF HandlerEffect
  <2>4. CtxShape'
    BY <2>1, <2>2, <1>0, <1>b, NotNull, CtxShapeStep
  <2>5. MemShape'
    BY <2>3, <1>0, ShapeSame, MemKeeps
  <2> QED
    BY <2>1, <2>4, <2>5, <1>0, ShapeIs, ShapeSame
<1>8. ASSUME NEW c \in Ctxs, NEW g, g = ctx[c].g, WorkReleaseEffect(c, g)
      PROVE  Typed' /\ Shape'
  <2>1. Typed' /\ wq' = wq /\ g # Null
    BY <1>8, NotNull DEF WorkReleaseEffect
  <2>2. CtxShape'
    BY <1>8, <1>0, <2>1, <1>b, NotNull, CtxShapeStep DEF WorkReleaseEffect
  <2>3. QueryShape' /\ MemShape'
    BY <1>8, <1>0, ShapeSame, MemKeeps, QueryShapeStep, NotNull DEF WorkReleaseEffect
  <2> QED
    BY <2>1, <2>2, <2>3, <1>0, ShapeIs
<1>9. ASSUME NEW c \in Ctxs, NEW g, g = ctx[c].g, NEW m, m = ctx[c].m, SendJoinEffect(c, g, m)
      PROVE  Typed' /\ Shape'
  <2>1. Typed' /\ wq' = wq /\ g # Null
    BY <1>9, NotNull DEF SendJoinEffect
  <2>2. CtxShape'
    BY <1>9, <1>0, <2>1, <1>b, NotNull, CtxShapeStep DEF SendJoinEffect
  <2>3. QueryShape' /\ MemShape'
    BY <1>9, <1>0, ShapeSame, MemKeeps, QueryShapeStep, NotNull DEF SendJoinEffect
  <2> QED
    BY <2>1, <2>2, <2>3, <1>0, ShapeIs
<1>10. ASSUME NEW c \in Ctxs, NEW g, g = ctx[c].g, NEW m, m = ctx[c].m,
             NEW told, told = IF ctx[c].pc = "errcb" THEN "reset"
                              ELSE IF mem[m].state = "MEMBER" THEN "joined" ELSE "failed",
             CallbackEffect(c, g, m, told)
      PROVE  Typed' /\ Shape'
  <2>1. Typed' /\ UNCHANGED <<wq, query>> /\ g # Null /\ m \in Members
    BY <1>10, NotNull DEF CallbackEffect
  <2>2. \E pc \in {"errnext", "test"}, pw \in {"errwait", "wait"} :
           \/ /\ CtxStep(c, pc, g, Null)
              /\ MemStep(m, mem[m].ref - 1, mem[m].group, mem[m].join_state, mem[m].state, mem[m].user, told)
           \/ /\ CtxStep(c, pw, g, m) /\ mem[m].user = "held"
              /\ MemStep(m, mem[m].ref - 1, mem[m].group, mem[m].join_state, mem[m].state, "free", told)
    BY <1>10 DEF CallbackEffect
  <2>3. CtxShape'
    <3>1. CASE \E pc \in {"errnext", "test"} : CtxStep(c, pc, g, Null)
      BY <2>1, <3>1, <1>0, <1>b, CtxShapeStep
    <3>2. CASE \E pw \in {"errwait", "wait"} : CtxStep(c, pw, g, m)
      BY <2>1, <3>2, <1>0, <1>b, NotNull, CtxShapeStep
    <3> QED
      BY <2>2, <3>1, <3>2
  <2>4. MemShape'
    <3>1. \/ MemStep(m, mem[m].ref - 1, mem[m].group, mem[m].join_state, mem[m].state, mem[m].user, told)
          \/ /\ mem[m].user = "held"
             /\ MemStep(m, mem[m].ref - 1, mem[m].group, mem[m].join_state, mem[m].state, "free", told)
      BY <2>2
    <3>2. ~("free" = "none") /\ ~("held" = "none")
      OBVIOUS
    <3> QED
      BY <2>1, <3>1, <3>2, <1>0, MemKeeps
  <2> QED
    BY <2>1, <2>3, <2>4, <1>0, ShapeIs, ShapeSame
<1>11. ASSUME NEW c \in Ctxs, NEW g, g = ctx[c].g, SendLeaveEffect(c, g)
      PROVE  Typed' /\ Shape'
  <2>1. Typed' /\ wq' = wq /\ g # Null
    BY <1>11, NotNull DEF SendLeaveEffect
  <2>2. CtxShape'
    BY <1>11, <1>0, <2>1, <1>b, NotNull, CtxShapeStep DEF SendLeaveEffect
  <2>3. QueryShape' /\ MemShape'
    BY <1>11, <1>0, ShapeSame, MemKeeps, QueryShapeStep, NotNull DEF SendLeaveEffect
  <2> QED
    BY <2>1, <2>2, <2>3, <1>0, ShapeIs
<1>12. ASSUME NEW c \in Ctxs, NEW g, g = ctx[c].g, ErrorEffect(c, g)
      PROVE  Typed' /\ Shape'
  <2>1. Typed' /\ wq' = wq /\ g # Null
    BY <1>12, NotNull DEF ErrorEffect
  <2>2. CtxShape'
    BY <1>12, <1>0, <2>1, <1>b, NotNull, CtxShapeStep DEF ErrorEffect
  <2>3. QueryShape' /\ MemShape'
    BY <1>12, <1>0, ShapeSame, MemKeeps, QueryShapeStep, NotNull DEF ErrorEffect
  <2> QED
    BY <2>1, <2>2, <2>3, <1>0, ShapeIs
<1>13. ASSUME NEW c \in Ctxs, NEW g, g = ctx[c].g, ErrorLockEffect(c, g)
      PROVE  Typed' /\ Shape'
  <2>1. Typed' /\ wq' = wq /\ g # Null
    BY <1>13, NotNull DEF ErrorLockEffect
  <2>2. CtxShape'
    BY <1>13, <1>0, <2>1, <1>b, NotNull, CtxShapeStep DEF ErrorLockEffect
  <2>3. QueryShape' /\ MemShape'
    BY <1>13, <1>0, ShapeSame, MemKeeps, QueryShapeStep, NotNull DEF ErrorLockEffect
  <2> QED
    BY <2>1, <2>2, <2>3, <1>0, ShapeIs
<1>14. ASSUME NEW c \in Ctxs, NEW g, g = ctx[c].g, ErrorNextEffect(c, g)
      PROVE  Typed' /\ Shape'
  <2>1. Typed' /\ wq' = wq /\ g # Null
    BY <1>14, NotNull DEF ErrorNextEffect
  <2>2. CtxShape'
    BY <1>14, <1>0, <2>1, <1>b, NotNull, CtxShapeStep DEF ErrorNextEffect
  <2>3. QueryShape' /\ MemShape'
    BY <1>14, <1>0, ShapeSame, MemKeeps, QueryShapeStep, NotNull DEF ErrorNextEffect
  <2> QED
    BY <2>1, <2>2, <2>3, <1>0, ShapeIs
<1>15. ASSUME NEW c \in Ctxs, NEW g, g = ctx[c].g, NEW m, m = ctx[c].m, JoinErrorEffect(c, g, m)
      PROVE  Typed' /\ Shape'
  <2>1. Typed' /\ UNCHANGED <<wq, query>> /\ g # Null /\ m \in Members
    BY <1>15, NotNull DEF JoinErrorEffect
  <2>2. CtxStep(c, "cb", g, m) \/ CtxStep(c, "test", g, Null)
    BY <1>15 DEF JoinErrorEffect
  <2>3. mem' = mem \/ MemStep(m, mem[m].ref + 1, mem[m].group, mem[m].join_state, mem[m].state, mem[m].user, mem[m].told)
    BY <1>15 DEF JoinErrorEffect
  <2>4. CtxShape'
    BY <2>1, <2>2, <1>0, <1>b, NotNull, CtxShapeStep
  <2>5. MemShape'
    BY <2>1, <2>3, <1>0, ShapeSame, MemKeeps
  <2> QED
    BY <2>1, <2>4, <2>5, <1>0, ShapeIs, ShapeSame
<1>16. ASSUME NEW c \in Ctxs, NEW g, g = ctx[c].g, JoinRecordEffect(c, g)
      PROVE  Typed' /\ Shape'
  <2>1. Typed' /\ wq' = wq /\ g # Null
    BY <1>16, NotNull DEF JoinRecordEffect
  <2>2. CtxShape'
    BY <1>16, <1>0, <2>1, <1>b, NotNull, CtxShapeStep DEF JoinRecordEffect
  <2>3. QueryShape' /\ MemShape'
    BY <1>16, <1>0, ShapeSame, MemKeeps, QueryShapeStep, NotNull DEF JoinRecordEffect
  <2> QED
    BY <2>1, <2>2, <2>3, <1>0, ShapeIs
<1>17. ASSUME NEW c \in Ctxs, NEW g, g = ctx[c].g, LeaveRetryEffect(c, g)
      PROVE  Typed' /\ Shape'
  <2>1. Typed' /\ wq' = wq /\ g # Null
    BY <1>17, NotNull DEF LeaveRetryEffect
  <2>2. CtxShape'
    BY <1>17, <1>0, <2>1, <1>b, NotNull, CtxShapeStep DEF LeaveRetryEffect
  <2>3. QueryShape' /\ MemShape'
    BY <1>17, <1>0, ShapeSame, MemKeeps, QueryShapeStep, NotNull DEF LeaveRetryEffect
  <2> QED
    BY <2>1, <2>2, <2>3, <1>0, ShapeIs
<1>18. ASSUME NEW g \in Groups, SaEffect(g)
      PROVE  Typed' /\ Shape'
  <2>1. Typed' /\ UNCHANGED <<ctx, mem, wq>> /\ QueryShape'
    BY <1>18, <1>0, QueryShapeStep DEF QueryShape, SaEffect
  <2> QED
    BY <2>1, <1>0, ShapeIs, ShapeSame
<1>19. ASSUME NEW c \in {"recv", "timeout"}, NEW g \in Groups, JoinHandlerEffect(c, g)
      PROVE  Typed' /\ Shape'
  <2>1. Typed' /\ UNCHANGED <<mem, wq>> /\ QueryShape' /\ g # Null /\ c \in Ctxs
    BY <1>19, <1>0, QueryShapeStep, NotNull DEF Ctxs, JoinHandlerEffect
  <2>2. (CtxStep(c, "joinerr", g, query[g].m) /\ query[g].m \in Members) \/ CtxStep(c, "joined", g, Null)
    BY <1>19 DEF JoinHandlerEffect
  <2>3. "joinerr" \in Told \cup {"joinerr"}
    OBVIOUS
  <2>4. CtxShape'
    BY <1>0, <1>b, <2>1, <2>2, <2>3, CtxShapeStep, NotNull
  <2> QED
    BY <2>1, <2>4, <1>0, ShapeIs, ShapeSame
<1>20. ASSUME NEW c \in {"recv", "timeout"}, NEW g \in Groups, LeaveHandlerEffect(c, g)
      PROVE  Typed' /\ Shape'
  <2>1. Typed' /\ UNCHANGED <<mem, wq>> /\ QueryShape' /\ g # Null /\ c \in Ctxs
    BY <1>20, <1>0, QueryShapeStep, NotNull DEF Ctxs, LeaveHandlerEffect
  <2>2. CtxShape'
    BY <1>20, <1>0, <1>b, <2>1, CtxShapeStep, NotNull DEF LeaveHandlerEffect
  <2> QED
    BY <2>1, <2>2, <1>0, ShapeIs, ShapeSame
<1>21. ASSUME EventEffect
      PROVE  Typed' /\ Shape'
  <2>1. Typed' /\ UNCHANGED <<ctx, mem, wq, query>>
    BY <1>21 DEF EventEffect
  <2> QED
    BY <2>1, <1>0, ShapeIs, ShapeSame
<1>22. ASSUME GroupsEventEffect
      PROVE  Typed' /\ Shape'
  <2>1. Typed' /\ UNCHANGED <<ctx, mem, query>> /\ IsInjective(wq')
    BY <1>22, <1>0 DEF GroupsEventEffect
  <2> QED
    BY <2>1, <1>0, ShapeIs, ShapeSame
<1>23. ASSUME RemoveEffect
      PROVE  Typed' /\ Shape'
  <2>1. Typed' /\ UNCHANGED <<ctx, mem, wq, query>>
    BY <1>23 DEF RemoveEffect
  <2> QED
    BY <2>1, <1>0, ShapeIs, ShapeSame
<1>24. ASSUME UNCHANGED vars PROVE Typed' /\ Shape'
  <2>1. Typed'
    BY <1>24, TypedNext DEF vars, Typed, fabric
  <2>2. UNCHANGED <<ctx, mem, wq, query>>
    BY <1>24 DEF vars
  <2> QED
    BY <2>1, <2>2, <1>0, ShapeIs, ShapeSame
<1> QED
  BY <1>1, <1>2, <1>3, <1>4, <1>5, <1>6, <1>7, <1>8, <1>9, <1>10, <1>11, <1>12, <1>13, <1>14,
     <1>15, <1>16, <1>17, <1>18, <1>19, <1>20, <1>21, <1>22, <1>23, <1>24
     DEF Effects

----------------------------------------------------------------------------
(* The state machine of a group and its references. *)

(* The counts of a step, as numbers. *)
LEMMA RefTo ==
    ASSUME NEW g \in Groups, NEW h \in Nat, NEW l \in Nat,
           Cardinality(Holders(g)') = h, Cardinality(Leaving(g)') = l,
           grp'[g].state = "IDLE" => grp'[g].ref = h + l,
           grp'[g].state # "IDLE" => grp'[g].ref = h + 1 + l
    PROVE  RefAt(g)'
<1>1. grp'[g].ref = h + (IF grp'[g].state = "IDLE" THEN 0 ELSE 1) + l
  BY SMT
<1> QED
  BY <1>1 DEF RefAt

(* A group keeps its invariant when nothing of it changes that the invariant is about. *)
LEMMA GroupFrame ==
    ASSUME GroupInv, NEW f \in Groups, grp'[f].ref = grp[f].ref,
           grp'[f].state = "IDLE" <=> grp[f].state = "IDLE",
           Runs(f)' = Runs(f), Holders(f)' = Holders(f), Leaving(f)' = Leaving(f)
    PROVE  SerialAt(f)' /\ RefAt(f)'
<1>1. SerialAt(f) /\ RefAt(f)
  BY DEF GroupInv
<1>2. SerialAt(f)'
  BY <1>1 DEF SerialAt
<1>3. RefAt(f)'
  BY <1>1 DEF RefAt
<1> QED
  BY <1>2, <1>3

(* A step that changes only the workqueue: queue_work of group f makes it queued. *)
LEMMA WqFrame ==
    ASSUME ctx' = ctx, query' = query, NEW f
    PROVE  /\ Leaving(f)' = Leaving(f)
           /\ (f \in Range(wq') <=> f \in Range(wq)) => Runs(f)' = Runs(f)
           /\ Runs(f) = {} /\ f \in Range(wq') => Runs(f)' = {"queued"}
<1>1. Leaving(f)' = Leaving(f)
  BY DEF Leaving
<1>2. \A c \in Ctxs : InCtx(c, f)' <=> InCtx(c, f)
  BY DEF InCtx
<1>3. ASSUME Runs(f) = {}, f \in Range(wq') PROVE Runs(f)' = {"queued"}
  <2>1. (\A c \in Ctxs : ~InCtx(c, f)) /\ query[f].op = "none"
    BY <1>3, RunsIs
  <2>2. {c \in Ctxs : ctx'[c].g = f /\ ctx'[c].pc \notin {"release", "retry"}} = {}
    BY <2>1 DEF InCtx
  <2> QED
    BY <1>3, <2>1, <2>2 DEF Runs
<1> QED
  BY <1>1, <1>2, <1>3, RunsSame

(* Only the members change, and group g. *)
LEMMA HoldersSame ==
    ASSUME NEW m \in Members, \A n \in Members : n # m => mem'[n] = mem[n], NEW f,
           (mem'[m].group = f /\ mem'[m].user # "wait") <=> (mem[m].group = f /\ mem[m].user # "wait")
    PROVE  Holders(f)' = Holders(f)
BY DEF Holders

(* A member that stays with its group, waiting or not as before, leaves the  *)
(* holders as they are.                                                      *)
LEMMA HoldersKeep ==
    ASSUME NEW m \in Members, NEW ref, NEW js, NEW st, NEW user, NEW told,
           MemStep(m, ref, mem[m].group, js, st, user, told), user = "wait" <=> mem[m].user = "wait"
    PROVE  \A f : Holders(f)' = Holders(f)
BY HoldersSame DEF MemStep

(* Without a change of members the holders stay. *)
LEMMA HoldersUnchanged ==
    ASSUME mem' = mem
    PROVE  \A f : Holders(f)' = Holders(f)
BY DEF Holders

(* A context goes on with its group g, whose references stay. *)
LEMMA Stays ==
    ASSUME GroupInv, \A f \in Groups : Runs(f)' = Runs(f) /\ Leaving(f)' = Leaving(f),
           \A f \in Groups : Holders(f)' = Holders(f), NEW g \in Groups,
           \A f \in Groups : f # g => grp'[f] = grp[f],
           grp'[g].ref = grp[g].ref, grp'[g].state = "IDLE" <=> grp[g].state = "IDLE"
    PROVE  GroupInv'
<1>1. \A f \in Groups : grp'[f].ref = grp[f].ref /\ (grp'[f].state = "IDLE" <=> grp[f].state = "IDLE")
  OBVIOUS
<1> QED
  BY <1>1, GroupFrame DEF GroupInv

(* release_group by a holder or by a run that leaves: with ref = 1 it was  *)
(* the last of them.                                                       *)
LEMMA ReleaseRef ==
    ASSUME FiniteSetFacts, Typed, GroupInv, NEW g \in Groups, Released(g), Runs(g)' = Runs(g),
           NEW x, \/ /\ x \in Holders(g) /\ Holders(g)' = Holders(g) \ {x} /\ Leaving(g)' = Leaving(g)
                  \/ /\ x \in Leaving(g) /\ Leaving(g)' = Leaving(g) \ {x} /\ Holders(g)' = Holders(g)
    PROVE  SerialAt(g)' /\ RefAt(g)'
<1> DEFINE h == Cardinality(Holders(g))
           l == Cardinality(Leaving(g))
           hh == Cardinality(Holders(g)')
           ll == Cardinality(Leaving(g)')
<1>1. /\ h \in Nat /\ l \in Nat
      /\ grp[g].state = "IDLE" => grp[g].ref = h + l
      /\ grp[g].state # "IDLE" => grp[g].ref = h + 1 + l
  BY RefIs
<1>2. \/ hh = h - 1 /\ h - 1 \in Nat /\ ll = l
      \/ ll = l - 1 /\ l - 1 \in Nat /\ hh = h
  <2>1. CASE x \in Holders(g) /\ Holders(g)' = Holders(g) \ {x} /\ Leaving(g)' = Leaving(g)
    <3>1. Cardinality(Holders(g)) - 1 \in Nat /\ Cardinality(Holders(g) \ {x}) = Cardinality(Holders(g)) - 1
      <4>1. x \in Holders(g) /\ IsFiniteSet(Holders(g))
        BY <2>1, Finite
      <4> QED
        BY <4>1, CardStep
    <3> QED
      BY <2>1, <3>1
  <2>2. CASE x \in Leaving(g) /\ Leaving(g)' = Leaving(g) \ {x} /\ Holders(g)' = Holders(g)
    <3>1. Cardinality(Leaving(g)) - 1 \in Nat /\ Cardinality(Leaving(g) \ {x}) = Cardinality(Leaving(g)) - 1
      <4>1. x \in Leaving(g) /\ IsFiniteSet(Leaving(g))
        BY <2>2, Finite
      <4> QED
        BY <4>1, CardStep
    <3> QED
      BY <2>2, <3>1
  <2> QED
    BY <2>1, <2>2
<1>3. \/ grp[g].ref = 1 /\ grp'[g].ref = 0 /\ grp'[g].state = "IDLE"
      \/ grp[g].ref # 1 /\ grp'[g].ref = grp[g].ref - 1 /\ grp'[g].state = grp[g].state
  BY DEF GrpStep, Released
<1> HIDE DEF h, l, hh, ll
<1>4. /\ hh \in Nat /\ ll \in Nat
      /\ grp'[g].state = "IDLE" => grp'[g].ref = hh + ll
      /\ grp'[g].state # "IDLE" => grp'[g].ref = hh + 1 + ll
      /\ grp'[g].state = grp[g].state
  <2>1. CASE grp[g].ref = 1 /\ grp'[g].ref = 0 /\ grp'[g].state = "IDLE"
    <3>1. grp[g].state = "IDLE"
      BY <1>1, <1>2, <2>1, SMT
    <3> QED
      BY <1>1, <1>2, <2>1, <3>1, SMT
  <2>2. CASE grp'[g].ref = grp[g].ref - 1 /\ grp'[g].state = grp[g].state
    BY <1>1, <1>2, <2>2, SMT
  <2> QED
    BY <1>3, <2>1, <2>2
<1>5. RefAt(g)'
  BY <1>4, RefTo DEF hh, ll
<1>6. SerialAt(g)'
  BY <1>4 DEF GroupInv, SerialAt
<1> QED
  BY <1>5, <1>6

(* Members and other groups are not touched by release_group. *)
LEMMA ReleaseOther ==
    ASSUME Typed, NEW g \in Groups, Released(g)
    PROVE  \A f \in Groups : f # g => grp'[f] = grp[f]
BY DEF GrpStep, Released

(* A step that touches only group g keeps the invariant of all groups if it  *)
(* keeps that of g.                                                          *)
LEMMA GroupOne ==
    ASSUME GroupInv, NEW g \in Groups, SerialAt(g)', RefAt(g)',
           \A f \in Groups : f # g =>
              grp'[f] = grp[f] /\ Runs(f)' = Runs(f) /\ Holders(f)' = Holders(f) /\ Leaving(f)' = Leaving(f)
    PROVE  GroupInv'
<1>1. \A f \in Groups : f # g => SerialAt(f)' /\ RefAt(f)'
  BY GroupFrame
<1> QED
  BY <1>1 DEF GroupInv

(* Where the state machine of group f can be after a step. *)
LEMMA RunsAre ==
    ASSUME NEW f
    PROVE  /\ \A c \in Ctxs : c \in Runs(f)' <=> InCtx(c, f)'
           /\ "queued" \in Runs(f)' <=> f \in Range(wq')
           /\ "query" \in Runs(f)' <=> query'[f].op # "none"
           /\ \A x \in Runs(f)' : x \in Ctxs \/ x = "queued" \/ x = "query"
BY DEF Runs, InCtx, Ctxs

(* The state machine of g moves from place p, or from none, to place q. *)
LEMMA RunsInCtx ==
    ASSUME NEW g, NEW q \in Ctxs, InCtx(q, g)', \A d \in Ctxs : d # q => ~InCtx(d, g)',
           g \notin Range(wq'), query'[g].op = "none"
    PROVE  Runs(g)' = {q}
BY RunsAre

(* A group with a query, no context and no queued work is at its query. *)
LEMMA RunsQuery ==
    ASSUME NEW g, \A d \in Ctxs : ~InCtx(d, g)', g \notin Range(wq'), query'[g].op # "none"
    PROVE  Runs(g)' = {"query"}
BY RunsAre

(* A group with no query, no context and no queued work is nowhere. *)
LEMMA RunsNone ==
    ASSUME NEW g, \A d \in Ctxs : ~InCtx(d, g)', g \notin Range(wq'), query'[g].op = "none"
    PROVE  Runs(g)' = {}
BY RunsAre

(* Where a group is when its state machine is at p. *)
LEMMA RunsAt ==
    ASSUME NEW g, NEW p, Runs(g) = {p}
    PROVE  /\ \A d \in Ctxs : InCtx(d, g) <=> d = p
           /\ g \in Range(wq) <=> p = "queued"
           /\ query[g].op # "none" <=> p = "query"
BY RunsIs

(* The places of a state machine are different. *)
LEMMA Places == "queued" \notin Ctxs /\ "query" \notin Ctxs /\ "query" # "queued"
BY DEF Ctxs

(* A move keeps the group busy and its references. *)
LEMMA Moves ==
    ASSUME GroupInv, NEW g \in Groups, NEW p, Runs(g) = {p}, NEW q, Runs(g)' = {q},
           \A f \in Groups : f # g => Runs(f)' = Runs(f),
           \A f \in Groups : Leaving(f)' = Leaving(f) /\ Holders(f)' = Holders(f) /\ grp'[f] = grp[f]
    PROVE  GroupInv'
<1>1. SerialAt(g) /\ RefAt(g)
  BY DEF GroupInv
<1>2. grp[g].state # "IDLE"
  BY <1>1 DEF SerialAt
<1>3. SerialAt(g)'
  BY <1>2 DEF SerialAt
<1>4. RefAt(g)'
  BY <1>1 DEF RefAt
<1> QED
  BY <1>3, <1>4, GroupOne

(* Every step keeps the state machine of each group in one place, and its references exact. *)
LEMMA GroupNext ==
    ASSUME FiniteSetFacts, Typed, Shape, GroupInv, Effects
    PROVE  GroupInv'
<1>1. ASSUME NEW m \in Members, NEW js, JoinEffect(m, js)
      PROVE  GroupInv'
  <2>1. PICK g \in Groups :
           /\ MemStep(m, 1, g, js, "JOINING", "acquired", "nothing")
           /\ \/ /\ grp[g].ref > 0
                 /\ GrpStep(g, grp[g].ref + 1, grp[g].state, grp[g].pending, grp[g].active,
                            grp[g].members, grp[g].retries)
              \/ /\ ~(grp[g].ref > 0)
                 /\ GrpStep(g, 1, "IDLE", <<>>, {}, [i \in Types |-> 0], Retries)
    BY <1>1 DEF JoinEffect
  <2>2. UNCHANGED <<ctx, wq, query>> /\ mem[m].user = "none"
    BY <1>1 DEF JoinEffect
  <2>3. mem[m].group = Null /\ Null \notin Groups
    BY <2>2, Constants DEF Shape
  <2>4. \A f \in Groups : Runs(f)' = Runs(f) /\ Leaving(f)' = Leaving(f)
    BY <2>2, WqFrame
  <2>5. \A f \in Groups : f # g => Holders(f)' = Holders(f)
    BY <2>1, <2>3, HoldersSame DEF MemStep
  <2>6. Holders(g)' = Holders(g) \cup {m} /\ m \notin Holders(g)
    <3>1. mem'[m].group = g /\ mem'[m].user # "wait" /\ \A n \in Members : n # m => mem'[n] = mem[n]
      BY <2>1 DEF MemStep
    <3> QED
      BY <2>3, <3>1, HoldersStep
  <2>7. \A f \in Groups : f # g => grp'[f] = grp[f]
    BY <2>1 DEF GrpStep
  <2>8. RefAt(g)' /\ SerialAt(g)'
    <3> DEFINE h == Cardinality(Holders(g))
               l == Cardinality(Leaving(g))
    <3>1. /\ h \in Nat /\ l \in Nat
          /\ grp[g].state = "IDLE" => grp[g].ref = h + l
          /\ grp[g].state # "IDLE" => grp[g].ref = h + 1 + l
      BY RefIs
    <3>2. Cardinality(Holders(g)') = h + 1 /\ Cardinality(Leaving(g)') = l
      <4>1. IsFiniteSet(Holders(g))
        BY Finite
      <4> QED
        BY <2>4, <2>6, <4>1, CardStep
    <3>3. \/ grp[g].ref > 0 /\ grp'[g].ref = grp[g].ref + 1 /\ grp'[g].state = grp[g].state
          \/ ~(grp[g].ref > 0) /\ grp'[g].ref = 1 /\ grp'[g].state = "IDLE"
      BY <2>1 DEF GrpStep
    <3> HIDE DEF h, l
    <3>4. /\ h + 1 \in Nat
          /\ grp'[g].state = "IDLE" => grp'[g].ref = (h + 1) + l
          /\ grp'[g].state # "IDLE" => grp'[g].ref = (h + 1) + 1 + l
          /\ grp'[g].state = grp[g].state
      <4>1. CASE grp[g].ref > 0 /\ grp'[g].ref = grp[g].ref + 1 /\ grp'[g].state = grp[g].state
        BY <3>1, <4>1, SMT
      <4>2. CASE ~(grp[g].ref > 0) /\ grp'[g].ref = 1 /\ grp'[g].state = "IDLE"
        <5>1. grp[g].state = "IDLE" /\ h = 0 /\ l = 0
          BY <3>1, <4>2, SMT
        <5> QED
          BY <4>2, <5>1, SMT
      <4> QED
        BY <3>3, <4>1, <4>2
    <3>5. RefAt(g)'
      BY <3>1, <3>2, <3>4, RefTo
    <3>6. SerialAt(g)'
      BY <2>4, <3>4 DEF GroupInv, SerialAt
    <3> QED
      BY <3>5, <3>6
  <2> QED
    BY <2>4, <2>5, <2>7, <2>8, GroupOne
<1>2. ASSUME NEW m \in Members, NEW g, g = mem[m].group,
             NEW ms, ms = IF mem[m].state = "MEMBER"
                          THEN Adjusted(grp[g].members, mem[m].join_state, -1) ELSE grp[g].members,
             FreeEffect(m, g, ms)
      PROVE  GroupInv'
  <2>a. g \in Groups /\ UNCHANGED <<ctx, query>> /\ mem[m].user \in {"held", "free"}
    BY <1>2 DEF FreeEffect
  <2>1. \E ref, js, st, told :
          \/ /\ grp[g].state = "IDLE" /\ Queued(g)
             /\ GrpStep(g, grp[g].ref, "BUSY", Without(grp[g].pending, m), grp[g].active \ {m}, ms, grp[g].retries)
             /\ MemStep(m, ref, g, js, st, "wait", told)
          \/ /\ grp[g].state # "IDLE" /\ wq' = wq
             /\ GrpStep(g, grp[g].ref, grp[g].state, Without(grp[g].pending, m), grp[g].active \ {m},
                        ms, grp[g].retries)
             /\ MemStep(m, ref, g, js, st, "release", told)
    BY <1>2 DEF FreeEffect
  <2>2. /\ \A f \in Groups : f # g => grp'[f] = grp[f]
        /\ \A n \in Members : n # m => mem'[n] = mem[n]
        /\ mem'[m].group = g /\ grp'[g].ref = grp[g].ref
    BY <2>1 DEF GrpStep, MemStep
  <2>3. \/ /\ grp[g].state = "IDLE" /\ Queued(g) /\ grp'[g].state = "BUSY" /\ mem'[m].user = "wait"
        \/ /\ grp[g].state # "IDLE" /\ wq' = wq /\ grp'[g].state = grp[g].state /\ mem'[m].user = "release"
    BY <2>1 DEF GrpStep, MemStep
  <2>4. \A f \in Groups : f # g => Holders(f)' = Holders(f)
    BY <1>2, <2>2, HoldersSame
  <2>5. CASE grp[g].state = "IDLE" /\ Queued(g) /\ grp'[g].state = "BUSY" /\ mem'[m].user = "wait"
    <3>1. Range(wq') = Range(wq) \cup {g}
      BY <2>a, <2>5 DEF Shape, Queued
    <3>2. SerialAt(g)' /\ Leaving(g)' = Leaving(g)
      <4>1. Runs(g) = {}
        BY <2>a, <2>5 DEF GroupInv, SerialAt
      <4>2. Runs(g)' = {"queued"} /\ Leaving(g)' = Leaving(g)
        BY <2>a, <3>1, <4>1, WqFrame
      <4> QED
        BY <2>5, <4>2 DEF SerialAt
    <3>3. \A f \in Groups : f # g => Runs(f)' = Runs(f) /\ Leaving(f)' = Leaving(f)
      BY <2>a, <3>1, WqFrame
    <3>4. Holders(g)' = Holders(g) \ {m} /\ m \in Holders(g)
      <4>1. mem[m].user # "wait"
        BY <2>a
      <4> QED
        BY <1>2, <2>2, <2>5, <4>1, HoldersStep
    <3>5. RefAt(g)'
      <4> DEFINE h == Cardinality(Holders(g))
                 l == Cardinality(Leaving(g))
      <4>1. h \in Nat /\ l \in Nat /\ grp[g].ref = h + l
        BY <2>a, <2>5, RefIs
      <4>2. Cardinality(Holders(g)') = h - 1 /\ Cardinality(Leaving(g)') = l /\ h - 1 \in Nat
        <5>1. IsFiniteSet(Holders(g))
          BY <2>a, Finite
        <5> QED
          BY <3>2, <3>4, <5>1, CardStep
      <4> HIDE DEF h, l
      <4>3. grp'[g].ref = (h - 1) + 1 + l /\ grp'[g].state # "IDLE"
        <5>1. grp'[g].ref = (h - 1) + 1 + l
          BY <2>2, <4>1, SMT
        <5> QED
          BY <2>5, <5>1
      <4> QED
        BY <2>a, <4>1, <4>2, <4>3, RefTo
    <3> QED
      BY <2>a, <2>2, <2>4, <3>2, <3>3, <3>5, GroupOne
  <2>6. CASE grp[g].state # "IDLE" /\ wq' = wq /\ grp'[g].state = grp[g].state /\ mem'[m].user = "release"
    <3>1. \A f \in Groups : Runs(f)' = Runs(f) /\ Leaving(f)' = Leaving(f)
      BY <2>a, <2>6, WqFrame
    <3>2. \A f \in Groups : Holders(f)' = Holders(f)
      <4>1. /\ mem[m].user # "wait" /\ mem'[m].user # "wait"
            /\ mem[m].group = g /\ mem'[m].group = g
        BY <1>2, <2>a, <2>2, <2>6
      <4> QED
        BY <2>2, <4>1, HoldersSame
    <3>3. GroupInv /\ g \in Groups
      BY <2>a
    <3> QED
      BY <2>2, <2>6, <3>1, <3>2, <3>3, Stays
  <2> QED
    BY <2>3, <2>5, <2>6
<1>3. ASSUME NEW m \in Members, NEW g, g = mem[m].group, QueueJoinEffect(m, g)
      PROVE  GroupInv'
  <2>a. g \in Groups /\ UNCHANGED <<ctx, query>> /\ mem[m].user = "acquired"
    BY <1>3 DEF QueueJoinEffect
  <2>1. /\ MemStep(m, mem[m].ref, g, mem[m].join_state, mem[m].state, "held", mem[m].told)
        /\ \E ref, st, pd, ac, ms, rt : GrpStep(g, ref, st, pd, ac, ms, rt)
    BY <1>3 DEF QueueJoinEffect
  <2>2. /\ \A f \in Groups : f # g => grp'[f] = grp[f]
        /\ \A f \in Groups : Holders(f)' = Holders(f)
    <3>1. \A f \in Groups : f # g => grp'[f] = grp[f]
      BY <2>1 DEF GrpStep
    <3>2. "held" # "wait" /\ "acquired" # "wait"
      OBVIOUS
    <3> QED
      BY <1>3, <2>a, <2>1, <3>1, <3>2, HoldersKeep
  <2>3. \/ grp[g].state = "IDLE" /\ Queued(g) /\ grp'[g].state = "BUSY" /\ grp'[g].ref = grp[g].ref + 1
        \/ grp[g].state # "IDLE" /\ wq' = wq /\ grp'[g].state = grp[g].state /\ grp'[g].ref = grp[g].ref
    BY <1>3 DEF GrpStep, QueueJoinEffect
  <2>4. CASE grp[g].state = "IDLE" /\ Queued(g) /\ grp'[g].state = "BUSY" /\ grp'[g].ref = grp[g].ref + 1
    <3>1. Range(wq') = Range(wq) \cup {g}
      BY <2>a, <2>4 DEF Shape, Queued
    <3>2. SerialAt(g)' /\ Leaving(g)' = Leaving(g)
      <4>1. Runs(g) = {}
        BY <2>a, <2>4 DEF GroupInv, SerialAt
      <4>2. Runs(g)' = {"queued"} /\ Leaving(g)' = Leaving(g)
        BY <2>a, <3>1, <4>1, WqFrame
      <4> QED
        BY <2>4, <4>2 DEF SerialAt
    <3>3. \A f \in Groups : f # g => Runs(f)' = Runs(f) /\ Leaving(f)' = Leaving(f)
      BY <2>a, <3>1, WqFrame
    <3>4. RefAt(g)'
      <4> DEFINE h == Cardinality(Holders(g))
                 l == Cardinality(Leaving(g))
      <4>1. h \in Nat /\ l \in Nat /\ grp[g].ref = h + l
        BY <2>a, <2>4, RefIs
      <4>2. Cardinality(Holders(g)') = h /\ Cardinality(Leaving(g)') = l
        BY <2>a, <2>2, <3>2
      <4> HIDE DEF h, l
      <4>3. grp'[g].ref = h + 1 + l
        BY <2>4, <4>1, SMT
      <4> QED
        BY <2>a, <2>4, <4>1, <4>2, <4>3, RefTo
    <3> QED
      BY <2>a, <2>2, <3>2, <3>3, <3>4, GroupOne
  <2>5. CASE grp[g].state # "IDLE" /\ wq' = wq /\ grp'[g].state = grp[g].state /\ grp'[g].ref = grp[g].ref
    <3>1. \A f \in Groups : Runs(f)' = Runs(f) /\ Leaving(f)' = Leaving(f)
      BY <2>a, <2>5, WqFrame
    <3> QED
      BY <2>a, <2>2, <2>5, <3>1, Stays
  <2> QED
    BY <2>3, <2>4, <2>5
<1>4. ASSUME NEW m \in Members, NEW g, g = mem[m].group, FreeReleaseEffect(m, g)
      PROVE  GroupInv'
  <2>1. /\ g \in Groups /\ mem[m].user = "release" /\ Released(g) /\ UNCHANGED <<ctx, wq, query>>
        /\ MemStep(m, mem[m].ref - 1, g, mem[m].join_state, mem[m].state, "wait", mem[m].told)
    BY <1>4 DEF FreeReleaseEffect
  <2>2. \A f \in Groups : Runs(f)' = Runs(f) /\ Leaving(f)' = Leaving(f)
    BY <2>1, WqFrame
  <2>3. (\A n \in Members : n # m => mem'[n] = mem[n]) /\ mem'[m].user = "wait" /\ mem'[m].group = g
    BY <2>1 DEF MemStep
  <2>4. Holders(g)' = Holders(g) \ {m} /\ m \in Holders(g)
    BY <1>4, <2>1, <2>3, HoldersStep
  <2>5. \A f \in Groups : f # g => Holders(f)' = Holders(f)
    BY <1>4, <2>3, HoldersSame
  <2>6. SerialAt(g)' /\ RefAt(g)'
    BY <2>1, <2>2, <2>4, ReleaseRef
  <2> QED
    BY <2>1, <2>2, <2>5, <2>6, ReleaseOther, GroupOne
<1>5. ASSUME NEW m \in Members, KfreeEffect(m)
      PROVE  GroupInv'
  <2>1. /\ mem[m].user = "wait" /\ UNCHANGED <<grp, wq, query>>
        /\ MemStep(m, 0, Null, {}, "JOINING", "none", "nothing")
    BY <1>5 DEF KfreeEffect
  <2>2. \A f \in Groups : Holders(f)' = Holders(f)
    BY <2>1, NotNull, HoldersSame DEF MemStep
  <2>3. \A c \in Ctxs : \/ /\ ctx[c].pc = "wait" /\ ctx'[c].pc = "test" /\ ctx'[c].g = ctx[c].g
                        \/ /\ ctx[c].pc = "errwait" /\ ctx'[c].pc = "errnext" /\ ctx'[c].g = ctx[c].g
                        \/ ctx'[c] = ctx[c]
    BY <1>5 DEF KfreeEffect
  <2>4. \A f \in Groups : \A c \in Ctxs : InCtx(c, f)' <=> InCtx(c, f)
    BY <2>3 DEF InCtx
  <2>5. \A f \in Groups : Leaving(f)' = Leaving(f)
    BY <2>3 DEF Leaving
  <2>6. \A f \in Groups : Runs(f)' = Runs(f)
    BY <2>1, <2>4, RunsSame
  <2>7. \A f \in Groups : SerialAt(f)' /\ RefAt(f)'
    BY <2>1, <2>2, <2>5, <2>6, GroupFrame
  <2> QED
    BY <2>7 DEF GroupInv
<1>6. ASSUME WorkStartEffect
      PROVE  GroupInv'
  <2>g. PICK g : g = Head(wq)
    OBVIOUS
  <2>1. /\ ctx["wq"].pc = "idle" /\ wq # <<>> /\ wq' = Tail(wq) /\ CtxStep("wq", "test", g, Null)
        /\ UNCHANGED <<grp, mem, query>> /\ "wq" \in Ctxs
    BY <1>6, <2>g DEF Ctxs, WorkStartEffect
  <2>2. g \in Groups /\ g \in Range(wq) /\ Range(wq') = Range(wq) \ {g}
    BY <2>g, <2>1, TypedIs, TailList DEF Shape
  <2>3. ctx["wq"].g = Null /\ Null \notin Groups
    BY <2>1, Constants DEF Shape
  <2>4. (\A d \in Ctxs : d # "wq" => ctx'[d] = ctx[d]) /\ ctx'["wq"].g = g /\ ctx'["wq"].pc = "test"
    BY <2>1 DEF CtxStep
  <2>5. \A f \in Groups : f # g => Runs(f)' = Runs(f)
    BY <2>1, <2>2, <2>3, <2>4, RunsStep
  <2>6. \A f \in Groups : Leaving(f)' = Leaving(f)
    BY <2>1, <2>4 DEF Leaving
  <2>7. Runs(g) = {"queued"}
    BY <2>2, RunsIs DEF GroupInv, SerialAt
  <2>8. Runs(g)' = {"wq"}
    <3>1. (\A d \in Ctxs : ~InCtx(d, g)) /\ query'[g].op = "none"
      BY <2>1, <2>7, RunsAt, Places
    <3>2. InCtx("wq", g)' /\ \A d \in Ctxs : d # "wq" => ~InCtx(d, g)'
      BY <2>4, <3>1 DEF InCtx
    <3> QED
      BY <2>1, <2>2, <3>1, <3>2, RunsInCtx
  <2> QED
    BY <2>1, <2>2, <2>5, <2>6, <2>7, <2>8, HoldersUnchanged, Moves
<1>7. ASSUME NEW c \in Ctxs, NEW g, g = ctx[c].g, NEW m, m = Head(grp[g].pending), HandlerEffect(c, g, m)
      PROVE  GroupInv'
  <2>1. g \in Groups /\ ctx[c].pc = "test" /\ UNCHANGED <<wq, query>>
    BY <1>7 DEF HandlerEffect
  <2>2. /\ \A f \in Groups : f # g => grp'[f] = grp[f]
        /\ grp'[g].ref = grp[g].ref
        /\ \/ grp'[g].state = grp[g].state
           \/ grp'[g].state = "IDLE" /\ grp[g].state = "BUSY"
    <3>1. \/ grp' = grp
          \/ grp[g].state = "BUSY" /\ \E pd, ac, ms :
               \/ GrpStep(g, grp[g].ref, "BUSY", pd, ac, ms, grp[g].retries)
               \/ GrpStep(g, grp[g].ref, "IDLE", pd, ac, ms, grp[g].retries)
      BY <1>7 DEF HandlerEffect
    <3> QED
      BY <3>1 DEF GrpStep
  <2>3. \/ mem' = mem
        \/ m \in Members /\ \E ref, st : MemStep(m, ref, mem[m].group, mem[m].join_state, st, mem[m].user, mem[m].told)
    BY <1>7 DEF HandlerEffect
  <2>4. \/ grp'[g].state = "IDLE" /\ CtxStep(c, "release", g, Null)
        \/ /\ grp'[g].state = grp[g].state
           /\ \E pc \in {"err", "cb", "send", "leave"} : \E n : CtxStep(c, pc, g, n)
    <3>1. \/ grp' = grp /\ \E pc \in {"err", "cb", "send", "leave"} : \E n : CtxStep(c, pc, g, n)
          \/ /\ grp[g].state = "BUSY"
             /\ \E pd, ac, ms : GrpStep(g, grp[g].ref, "BUSY", pd, ac, ms, grp[g].retries)
             /\ \E pc \in {"err", "cb", "send", "leave"} : \E n : CtxStep(c, pc, g, n)
          \/ /\ CtxStep(c, "release", g, Null)
             /\ \E pd, ac, ms : GrpStep(g, grp[g].ref, "IDLE", pd, ac, ms, grp[g].retries)
      BY <1>7 DEF HandlerEffect
    <3> QED
      BY <3>1 DEF GrpStep
  <2>5. \A f \in Groups : Holders(f)' = Holders(f)
    BY <2>3, HoldersUnchanged, HoldersKeep
  <2>6. Runs(g) = {c} /\ grp[g].state # "IDLE"
    BY <1>7, <2>1, RunsBusy
  <2>7. CASE \E pc \in {"err", "cb", "send", "leave"} : \E n : grp'[g].state = grp[g].state /\ CtxStep(c, pc, g, n)
    <3>1. \A f \in Groups : Runs(f)' = Runs(f) /\ Leaving(f)' = Leaving(f)
      BY <1>7, <2>1, <2>7, CtxStays
    <3> QED
      BY <2>1, <2>2, <2>5, <2>7, <3>1, Stays
  <2>8. CASE grp'[g].state = "IDLE" /\ CtxStep(c, "release", g, Null)
    <3>1. (\A d \in Ctxs : d # c => ctx'[d] = ctx[d]) /\ ctx'[c].g = g /\ ctx'[c].pc = "release"
      BY <2>8 DEF CtxStep
    <3>2. \A f \in Groups : f # g => Runs(f)' = Runs(f) /\ Leaving(f)' = Leaving(f)
      BY <1>7, <2>1, <3>1, RunsStep
    <3>3. SerialAt(g)'
      <4>1. (\A d \in Ctxs : d # c => ~InCtx(d, g)) /\ g \notin Range(wq') /\ query'[g].op = "none"
        BY <2>1, <2>6, RunsAt, Places
      <4>2. \A d \in Ctxs : ~InCtx(d, g)'
        BY <3>1, <4>1 DEF InCtx
      <4> QED
        BY <2>8, <4>1, <4>2, RunsNone DEF SerialAt
    <3>4. Leaving(g)' = Leaving(g) \cup {c} /\ c \notin Leaving(g)
      BY <2>1, <3>1, LeavingStep
    <3>5. RefAt(g)'
      <4> DEFINE h == Cardinality(Holders(g))
                 l == Cardinality(Leaving(g))
      <4>1. h \in Nat /\ l \in Nat /\ grp[g].ref = h + 1 + l
        BY <2>1, <2>6, RefIs
      <4>2. Cardinality(Holders(g)') = h /\ Cardinality(Leaving(g)') = l + 1
        <5>1. IsFiniteSet(Leaving(g))
          BY <2>1, Finite
        <5> QED
          BY <2>1, <2>5, <3>4, <5>1, CardStep
      <4> HIDE DEF h, l
      <4>3. grp'[g].ref = h + (l + 1) /\ l + 1 \in Nat
        BY <2>2, <4>1, SMT
      <4> QED
        BY <2>1, <2>8, <4>1, <4>2, <4>3, RefTo
    <3> QED
      BY <2>1, <2>2, <2>5, <3>2, <3>3, <3>5, GroupOne
  <2> QED
    BY <2>4, <2>7, <2>8
<1>8. ASSUME NEW c \in Ctxs, NEW g, g = ctx[c].g, WorkReleaseEffect(c, g)
      PROVE  GroupInv'
  <2>1. /\ g \in Groups /\ ctx[c].pc = "release" /\ Released(g) /\ CtxStep(c, "idle", Null, Null)
        /\ UNCHANGED <<mem, wq, query>>
    BY <1>8 DEF WorkReleaseEffect
  <2>2. (\A d \in Ctxs : d # c => ctx'[d] = ctx[d]) /\ ctx'[c].g = Null /\ Null \notin Groups
    BY <2>1, Constants DEF CtxStep
  <2>3. \A f \in Groups : Holders(f)' = Holders(f)
    BY <2>1, HoldersUnchanged
  <2>4. \A f \in Groups : f # g => Runs(f)' = Runs(f) /\ Leaving(f)' = Leaving(f)
    BY <1>8, <2>1, <2>2, RunsStep
  <2>5. Runs(g)' = Runs(g)
    <3>1. \A d \in Ctxs : InCtx(d, g)' <=> InCtx(d, g)
      BY <2>1, <2>2 DEF InCtx
    <3> QED
      BY <2>1, <3>1, RunsSame
  <2>6. Leaving(g)' = Leaving(g) \ {c} /\ c \in Leaving(g)
    BY <1>8, <2>1, <2>2, LeavingStep
  <2>7. SerialAt(g)' /\ RefAt(g)'
    BY <2>1, <2>3, <2>5, <2>6, ReleaseRef
  <2> QED
    BY <2>1, <2>3, <2>4, <2>7, ReleaseOther, GroupOne
<1>9. ASSUME NEW c \in Ctxs, NEW g, g = ctx[c].g, NEW m, m = ctx[c].m, SendJoinEffect(c, g, m)
      PROVE  GroupInv'
  <2>1. g \in Groups /\ m \in Members /\ ctx[c].pc = "send" /\ wq' = wq
    BY <1>9 DEF SendJoinEffect
  <2>a. \/ /\ QueryStep(g, "join", m) /\ CtxStep(c, "idle", Null, Null) /\ grp' = grp
           /\ MemStep(m, mem[m].ref - 1, mem[m].group, mem[m].join_state, mem[m].state, mem[m].user, mem[m].told)
        \/ /\ CtxStep(c, "cb", g, m) /\ UNCHANGED <<query, mem>>
           /\ GrpStep(g, grp[g].ref, grp[g].state, Without(grp[g].pending, m), grp[g].active \ {m},
                      grp[g].members, grp[g].retries)
    BY <1>9 DEF SendJoinEffect
  <2>2. Runs(g) = {c}
    BY <1>9, <2>1, RunsBusy
  <2>3. \A f \in Groups : Holders(f)' = Holders(f)
    BY <2>1, <2>a, HoldersUnchanged, HoldersKeep
  <2>4. CASE QueryStep(g, "join", m) /\ CtxStep(c, "idle", Null, Null) /\ grp' = grp
    <3>1. (\A d \in Ctxs : d # c => ctx'[d] = ctx[d]) /\ ~InCtx(c, g)' /\ ctx'[c].pc # "release"
             /\ \A f \in Groups : f # g => ctx'[c].g # f
      BY <2>1, <2>4, NotNull DEF CtxStep, InCtx
    <3>2. query'[g].op # "none" /\ \A f \in Groups : f # g => query'[f] = query[f]
      BY <2>4 DEF QueryStep
    <3>3. \A f \in Groups : f # g => Runs(f)' = Runs(f)
      BY <1>9, <2>1, <3>1, <3>2, RunsStep
    <3>4. \A f \in Groups : Leaving(f)' = Leaving(f)
      BY <2>1, <3>1 DEF Leaving
    <3>5. Runs(g)' = {"query"}
      <4>1. (\A d \in Ctxs : d # c => ~InCtx(d, g)) /\ g \notin Range(wq')
        BY <2>1, <2>2, RunsAt, Places
      <4>2. \A d \in Ctxs : ~InCtx(d, g)'
        BY <3>1, <4>1 DEF InCtx
      <4> QED
        BY <3>2, <4>1, <4>2, RunsQuery
    <3>6. \A f \in Groups : grp'[f] = grp[f]
      BY <2>4
    <3> QED
      BY <2>1, <2>2, <2>3, <3>3, <3>4, <3>5, <3>6, Moves
  <2>5. CASE /\ CtxStep(c, "cb", g, m) /\ UNCHANGED <<query, mem>>
             /\ GrpStep(g, grp[g].ref, grp[g].state, Without(grp[g].pending, m), grp[g].active \ {m},
                        grp[g].members, grp[g].retries)
    <3>1. \A f \in Groups : Runs(f)' = Runs(f) /\ Leaving(f)' = Leaving(f)
      <4>1. CtxStep(c, "cb", g, m) /\ query' = query
        BY <2>5
      <4>2. g = ctx[c].g /\ wq' = wq /\ ctx[c].pc \notin {"release", "retry"}
        BY <1>9, <2>1
      <4> QED
        BY <4>1, <4>2, CtxStays
    <3>2. /\ \A f \in Groups : f # g => grp'[f] = grp[f]
          /\ grp'[g].ref = grp[g].ref /\ grp'[g].state = grp[g].state
      BY <2>5 DEF GrpStep
    <3> QED
      BY <2>1, <2>3, <3>1, <3>2, Stays
  <2> QED
    BY <2>a, <2>4, <2>5
<1>10. ASSUME NEW c \in Ctxs, NEW g, g = ctx[c].g, NEW m, m = ctx[c].m,
             NEW told, told = IF ctx[c].pc = "errcb" THEN "reset"
                              ELSE IF mem[m].state = "MEMBER" THEN "joined" ELSE "failed",
             CallbackEffect(c, g, m, told)
      PROVE  GroupInv'
  <2>1. g \in Groups /\ ctx[c].pc \in {"cb", "errcb"} /\ UNCHANGED <<wq, query>>
    BY <1>10 DEF CallbackEffect
  <2>2. \E pc \in {"errnext", "test", "errwait", "wait"} : \E n : CtxStep(c, pc, g, n)
    BY <1>10 DEF CallbackEffect
  <2>3. \A f \in Groups : Runs(f)' = Runs(f) /\ Leaving(f)' = Leaving(f)
    BY <1>10, <2>1, <2>2, CtxStays
  <2>4. grp[g].state # "IDLE"
    BY <1>10, <2>1, RunsBusy
  <2>m. m \in Members /\
        \/ MemStep(m, mem[m].ref - 1, mem[m].group, mem[m].join_state, mem[m].state, mem[m].user, told)
        \/ mem[m].user = "held" /\
           MemStep(m, mem[m].ref - 1, mem[m].group, mem[m].join_state, mem[m].state, "free", told)
    BY <1>10 DEF CallbackEffect
  <2>5. \A f \in Groups : Holders(f)' = Holders(f)
    <3>1. "free" # "wait" /\ "held" # "wait"
      OBVIOUS
    <3> QED
      BY <2>m, <3>1, HoldersKeep
  <2>6. grp' = grp
    BY <1>10 DEF CallbackEffect
  <2> QED
    BY <2>1, <2>3, <2>4, <2>5, <2>6, Stays
<1>11. ASSUME NEW c \in Ctxs, NEW g, g = ctx[c].g, SendLeaveEffect(c, g)
      PROVE  GroupInv'
  <2>1. g \in Groups /\ ctx[c].pc \in {"leave", "releave"} /\ UNCHANGED <<grp, mem, wq>>
    BY <1>11 DEF SendLeaveEffect
  <2>a. \/ /\ QueryStep(g, "leave", Null) /\ (CtxStep(c, "idle", Null, Null) \/ CtxStep(c, "retry", g, Null))
        \/ query' = query /\ CtxStep(c, "test", g, Null)
    BY <1>11 DEF SendLeaveEffect
  <2>2. Runs(g) = {c}
    BY <1>11, <2>1, RunsBusy
  <2>3. \A f \in Groups : Holders(f)' = Holders(f)
    BY <2>1, HoldersUnchanged
  <2>4. CASE QueryStep(g, "leave", Null) /\ (CtxStep(c, "idle", Null, Null) \/ CtxStep(c, "retry", g, Null))
    <3>1. (\A d \in Ctxs : d # c => ctx'[d] = ctx[d]) /\ ~InCtx(c, g)' /\ ctx'[c].pc # "release"
             /\ \A f \in Groups : f # g => ctx'[c].g # f
      BY <2>1, <2>4, NotNull DEF CtxStep, InCtx
    <3>2. query'[g].op # "none" /\ \A f \in Groups : f # g => query'[f] = query[f]
      BY <2>4 DEF QueryStep
    <3>3. \A f \in Groups : f # g => Runs(f)' = Runs(f)
      BY <1>11, <2>1, <3>1, <3>2, RunsStep
    <3>4. \A f \in Groups : Leaving(f)' = Leaving(f)
      BY <2>1, <3>1 DEF Leaving
    <3>5. Runs(g)' = {"query"}
      <4>1. (\A d \in Ctxs : d # c => ~InCtx(d, g)) /\ g \notin Range(wq')
        BY <2>1, <2>2, RunsAt, Places
      <4>2. \A d \in Ctxs : ~InCtx(d, g)'
        BY <3>1, <4>1 DEF InCtx
      <4> QED
        BY <3>2, <4>1, <4>2, RunsQuery
    <3>6. \A f \in Groups : grp'[f] = grp[f]
      BY <2>1
    <3> QED
      BY <2>1, <2>2, <2>3, <3>3, <3>4, <3>5, <3>6, Moves
  <2>5. CASE query' = query /\ CtxStep(c, "test", g, Null)
    <3>1. \A f \in Groups : Runs(f)' = Runs(f) /\ Leaving(f)' = Leaving(f)
      BY <1>11, <2>1, <2>5, CtxStays
    <3> QED
      BY <2>1, <2>3, <3>1, Stays
  <2> QED
    BY <2>a, <2>4, <2>5
<1>12. ASSUME NEW c \in Ctxs, NEW g, g = ctx[c].g, ErrorEffect(c, g)
      PROVE  GroupInv'
  <2>1. g \in Groups /\ ctx[c].pc \in {"err"} /\ UNCHANGED <<wq, query>>
    BY <1>12 DEF ErrorEffect
  <2>2. \E pc \in {"errlock"} : \E n : CtxStep(c, pc, g, n)
    BY <1>12 DEF ErrorEffect
  <2>3. \A f \in Groups : Runs(f)' = Runs(f) /\ Leaving(f)' = Leaving(f)
    BY <1>12, <2>1, <2>2, CtxStays
  <2>4. grp[g].state # "IDLE"
    BY <1>12, <2>1, RunsBusy
  <2>5. \A f \in Groups : Holders(f)' = Holders(f)
    BY <1>12, HoldersUnchanged DEF ErrorEffect
  <2>6. grp' = grp
    BY <1>12 DEF ErrorEffect
  <2> QED
    BY <2>1, <2>3, <2>4, <2>5, <2>6, Stays
<1>13. ASSUME NEW c \in Ctxs, NEW g, g = ctx[c].g, ErrorLockEffect(c, g)
      PROVE  GroupInv'
  <2>1. g \in Groups /\ ctx[c].pc \in {"errlock"} /\ UNCHANGED <<wq, query>>
    BY <1>13 DEF ErrorLockEffect
  <2>2. \E pc \in {"test", "errnext"} : \E n : CtxStep(c, pc, g, n)
    BY <1>13 DEF ErrorLockEffect
  <2>3. \A f \in Groups : Runs(f)' = Runs(f) /\ Leaving(f)' = Leaving(f)
    BY <1>13, <2>1, <2>2, CtxStays
  <2>4. grp[g].state # "IDLE"
    BY <1>13, <2>1, RunsBusy
  <2>5. \A f \in Groups : Holders(f)' = Holders(f)
    BY <1>13, HoldersUnchanged DEF ErrorLockEffect
  <2>6. /\ \A f \in Groups : f # g => grp'[f] = grp[f]
        /\ grp'[g].ref = grp[g].ref /\ grp'[g].state # "IDLE"
    <3>1. \/ grp' = grp
          \/ \E st, pd, ac, ms, rt :
               (st = "BUSY" \/ st = grp[g].state) /\ GrpStep(g, grp[g].ref, st, pd, ac, ms, rt)
      BY <1>13 DEF ErrorLockEffect
    <3> QED
      BY <2>4, <3>1 DEF GrpStep
  <2> QED
    BY <2>1, <2>3, <2>4, <2>5, <2>6, Stays
<1>14. ASSUME NEW c \in Ctxs, NEW g, g = ctx[c].g, ErrorNextEffect(c, g)
      PROVE  GroupInv'
  <2>1. g \in Groups /\ ctx[c].pc \in {"errnext"} /\ UNCHANGED <<wq, query>>
    BY <1>14 DEF ErrorNextEffect
  <2>2. \E pc \in {"errcb", "test"} : \E n : CtxStep(c, pc, g, n)
    BY <1>14 DEF ErrorNextEffect
  <2>3. \A f \in Groups : Runs(f)' = Runs(f) /\ Leaving(f)' = Leaving(f)
    BY <1>14, <2>1, <2>2, CtxStays
  <2>4. grp[g].state # "IDLE"
    BY <1>14, <2>1, RunsBusy
  <2>m. mem' = mem \/ \E m \in Members : \E ref, st, told :
          \/ MemStep(m, ref, mem[m].group, mem[m].join_state, st, mem[m].user, told)
          \/ MemStep(m, ref, mem[m].group, mem[m].join_state, st, "free", told) /\ mem[m].user = "held"
    BY <1>14 DEF ErrorNextEffect
  <2>5. \A f \in Groups : Holders(f)' = Holders(f)
    <3>1. "free" # "wait" /\ "held" # "wait"
      OBVIOUS
    <3> QED
      BY <2>m, <3>1, HoldersUnchanged, HoldersKeep
  <2>6. /\ \A f \in Groups : f # g => grp'[f] = grp[f]
        /\ grp'[g].ref = grp[g].ref /\ grp'[g].state # "IDLE"
    <3>1. \/ grp' = grp
          \/ \E st, pd, ac, ms, rt :
               (st = "BUSY" \/ st = grp[g].state) /\ GrpStep(g, grp[g].ref, st, pd, ac, ms, rt)
      BY <1>14 DEF ErrorNextEffect
    <3> QED
      BY <2>4, <3>1 DEF GrpStep
  <2> QED
    BY <2>1, <2>3, <2>4, <2>5, <2>6, Stays
<1>15. ASSUME NEW c \in Ctxs, NEW g, g = ctx[c].g, NEW m, m = ctx[c].m, JoinErrorEffect(c, g, m)
      PROVE  GroupInv'
  <2>1. g \in Groups /\ ctx[c].pc \in {"joinerr"} /\ UNCHANGED <<wq, query>>
    BY <1>15 DEF JoinErrorEffect
  <2>2. \E pc \in {"cb", "test"} : \E n : CtxStep(c, pc, g, n)
    BY <1>15 DEF JoinErrorEffect
  <2>3. \A f \in Groups : Runs(f)' = Runs(f) /\ Leaving(f)' = Leaving(f)
    BY <1>15, <2>1, <2>2, CtxStays
  <2>4. grp[g].state # "IDLE"
    BY <1>15, <2>1, RunsBusy
  <2>m. \/ UNCHANGED <<grp, mem>>
        \/ /\ m \in Members
           /\ GrpStep(g, grp[g].ref, grp[g].state, Without(grp[g].pending, m), grp[g].active \ {m},
                      grp[g].members, grp[g].retries)
           /\ MemStep(m, mem[m].ref + 1, mem[m].group, mem[m].join_state, mem[m].state,
                      mem[m].user, mem[m].told)
    BY <1>15 DEF JoinErrorEffect
  <2>5. \A f \in Groups : Holders(f)' = Holders(f)
    BY <2>m, HoldersUnchanged, HoldersKeep
  <2>6. /\ \A f \in Groups : f # g => grp'[f] = grp[f]
        /\ grp'[g].ref = grp[g].ref /\ grp'[g].state # "IDLE"
    BY <2>m, <2>4 DEF GrpStep
  <2> QED
    BY <2>1, <2>3, <2>4, <2>5, <2>6, Stays
<1>16. ASSUME NEW c \in Ctxs, NEW g, g = ctx[c].g, JoinRecordEffect(c, g)
      PROVE  GroupInv'
  <2>1. g \in Groups /\ ctx[c].pc \in {"joined"} /\ UNCHANGED <<wq, query>>
    BY <1>16 DEF JoinRecordEffect
  <2>2. \E pc \in {"test"} : \E n : CtxStep(c, pc, g, n)
    BY <1>16 DEF JoinRecordEffect
  <2>3. \A f \in Groups : Runs(f)' = Runs(f) /\ Leaving(f)' = Leaving(f)
    BY <1>16, <2>1, <2>2, CtxStays
  <2>4. grp[g].state # "IDLE"
    BY <1>16, <2>1, RunsBusy
  <2>5. \A f \in Groups : Holders(f)' = Holders(f)
    BY <1>16, HoldersUnchanged DEF JoinRecordEffect
  <2>6. /\ \A f \in Groups : f # g => grp'[f] = grp[f]
        /\ grp'[g].ref = grp[g].ref /\ grp'[g].state # "IDLE"
    <3>1. \/ grp' = grp
          \/ \E st, pd, ac, ms, rt :
               (st = "BUSY" \/ st = grp[g].state) /\ GrpStep(g, grp[g].ref, st, pd, ac, ms, rt)
      BY <1>16 DEF JoinRecordEffect
    <3> QED
      BY <2>4, <3>1 DEF GrpStep
  <2> QED
    BY <2>1, <2>3, <2>4, <2>5, <2>6, Stays
<1>17. ASSUME NEW c \in Ctxs, NEW g, g = ctx[c].g, LeaveRetryEffect(c, g)
      PROVE  GroupInv'
  <2>1. /\ g \in Groups /\ ctx[c].pc = "retry" /\ CtxStep(c, "idle", Null, Null)
        /\ UNCHANGED <<mem, wq, query>>
    BY <1>17 DEF LeaveRetryEffect
  <2>2. (\A d \in Ctxs : d # c => ctx'[d] = ctx[d]) /\ ctx'[c].g = Null /\ Null \notin Groups /\ ctx'[c].pc = "idle"
    BY <2>1, Constants DEF CtxStep
  <2>3. \A f \in Groups : \A d \in Ctxs : InCtx(d, f)' <=> InCtx(d, f)
    BY <2>1, <2>2 DEF InCtx
  <2>4. \A f \in Groups : Leaving(f)' = Leaving(f)
    BY <2>1, <2>2 DEF Leaving
  <2>5. \A f \in Groups : Runs(f)' = Runs(f) /\ Leaving(f)' = Leaving(f)
    BY <2>1, <2>3, <2>4, RunsSame
  <2>6. /\ \A f \in Groups : f # g => grp'[f] = grp[f]
        /\ grp'[g].ref = grp[g].ref /\ grp'[g].state = grp[g].state
    <3>1. \/ grp' = grp
          \/ GrpStep(g, grp[g].ref, grp[g].state, grp[g].pending, grp[g].active,
                     grp[g].members, grp[g].retries - 1)
      BY <1>17 DEF LeaveRetryEffect
    <3> QED
      BY <3>1 DEF GrpStep
  <2> QED
    BY <2>1, <2>5, <2>6, HoldersUnchanged, Stays
<1>18. ASSUME NEW g \in Groups, SaEffect(g)
      PROVE  GroupInv'
  <2>1. UNCHANGED <<grp, mem, ctx, wq>> /\ QueryStep(g, query[g].op, query[g].m)
    BY <1>18 DEF SaEffect
  <2>2. \A f \in Groups : query'[f].op = query[f].op
    BY <2>1 DEF QueryStep
  <2>3. \A f \in Groups : Leaving(f)' = Leaving(f) /\ \A d \in Ctxs : InCtx(d, f)' <=> InCtx(d, f)
    BY <2>1 DEF Leaving, InCtx
  <2>4. \A f \in Groups : Runs(f)' = Runs(f) /\ Leaving(f)' = Leaving(f)
    BY <2>1, <2>2, <2>3, RunsSame
  <2> QED
    BY <1>18, <2>1, <2>4, HoldersUnchanged, Stays
<1>19. ASSUME NEW c \in {"recv", "timeout"}, NEW g \in Groups, JoinHandlerEffect(c, g)
      PROVE  GroupInv'
  <2>1. /\ c \in Ctxs /\ ctx[c].pc = "idle" /\ query[g].op = "join" /\ UNCHANGED <<grp, mem, wq>>
        /\ QueryStep(g, "none", Null)
    BY <1>19 DEF Ctxs, JoinHandlerEffect
  <2>2. \E pc \in {"joinerr", "joined"} : \E n : CtxStep(c, pc, g, n)
    BY <1>19 DEF JoinHandlerEffect
  <2>3. /\ \A d \in Ctxs : d # c => ctx'[d] = ctx[d]
        /\ ctx'[c].g = g /\ ctx'[c].pc \notin {"release", "retry"}
    BY <2>2 DEF CtxStep
  <2>4. ctx[c].g = Null /\ Null \notin Groups
    BY <2>1, Constants DEF Shape
  <2>5. query'[g].op = "none" /\ \A f \in Groups : f # g => query'[f] = query[f]
    BY <2>1 DEF QueryStep
  <2>6. \A f \in Groups : f # g => Runs(f)' = Runs(f)
    BY <1>19, <2>1, <2>3, <2>4, <2>5, RunsStep
  <2>7. \A f \in Groups : Leaving(f)' = Leaving(f)
    BY <2>1, <2>3 DEF Leaving
  <2>8. Runs(g) = {"query"}
    <3>1. "query" \in Runs(g) /\ SerialAt(g)
      BY <1>19, <2>1, RunsIs DEF GroupInv
    <3> QED
      BY <3>1 DEF SerialAt
  <2>9. Runs(g)' = {c}
    <3>1. (\A d \in Ctxs : ~InCtx(d, g)) /\ g \notin Range(wq')
      BY <2>1, <2>8, RunsAt, Places
    <3>2. InCtx(c, g)' /\ \A d \in Ctxs : d # c => ~InCtx(d, g)'
      BY <2>3, <3>1 DEF InCtx
    <3> QED
      BY <2>1, <2>5, <3>1, <3>2, RunsInCtx
  <2> QED
    BY <1>19, <2>1, <2>6, <2>7, <2>8, <2>9, HoldersUnchanged, Moves
<1>20. ASSUME NEW c \in {"recv", "timeout"}, NEW g \in Groups, LeaveHandlerEffect(c, g)
      PROVE  GroupInv'
  <2>1. /\ c \in Ctxs /\ ctx[c].pc = "idle" /\ query[g].op = "leave" /\ UNCHANGED <<grp, mem, wq>>
        /\ QueryStep(g, "none", Null)
    BY <1>20 DEF Ctxs, LeaveHandlerEffect
  <2>2. \E pc \in {"releave", "test"} : \E n : CtxStep(c, pc, g, n)
    BY <1>20 DEF LeaveHandlerEffect
  <2>3. /\ \A d \in Ctxs : d # c => ctx'[d] = ctx[d]
        /\ ctx'[c].g = g /\ ctx'[c].pc \notin {"release", "retry"}
    BY <2>2 DEF CtxStep
  <2>4. ctx[c].g = Null /\ Null \notin Groups
    BY <2>1, Constants DEF Shape
  <2>5. query'[g].op = "none" /\ \A f \in Groups : f # g => query'[f] = query[f]
    BY <2>1 DEF QueryStep
  <2>6. \A f \in Groups : f # g => Runs(f)' = Runs(f)
    BY <1>20, <2>1, <2>3, <2>4, <2>5, RunsStep
  <2>7. \A f \in Groups : Leaving(f)' = Leaving(f)
    BY <2>1, <2>3 DEF Leaving
  <2>8. Runs(g) = {"query"}
    <3>1. "query" \in Runs(g) /\ SerialAt(g)
      BY <1>20, <2>1, RunsIs DEF GroupInv
    <3> QED
      BY <3>1 DEF SerialAt
  <2>9. Runs(g)' = {c}
    <3>1. (\A d \in Ctxs : ~InCtx(d, g)) /\ g \notin Range(wq')
      BY <2>1, <2>8, RunsAt, Places
    <3>2. InCtx(c, g)' /\ \A d \in Ctxs : d # c => ~InCtx(d, g)'
      BY <2>3, <3>1 DEF InCtx
    <3> QED
      BY <2>1, <2>5, <3>1, <3>2, RunsInCtx
  <2> QED
    BY <1>20, <2>1, <2>6, <2>7, <2>8, <2>9, HoldersUnchanged, Moves
<1>21. ASSUME EventEffect
      PROVE  GroupInv'
  <2>1. UNCHANGED <<grp, mem, ctx, wq, query>>
    BY <1>21 DEF EventEffect
  <2>2. \A f \in Groups : Runs(f)' = Runs(f) /\ Leaving(f)' = Leaving(f) /\ Holders(f)' = Holders(f)
    BY <2>1, WqFrame, HoldersUnchanged
  <2>3. \A f \in Groups : SerialAt(f)' /\ RefAt(f)'
    BY <2>1, <2>2, GroupFrame
  <2> QED
    BY <2>3 DEF GroupInv
<1>22. ASSUME GroupsEventEffect
      PROVE  GroupInv'
  <2>1. UNCHANGED <<mem, ctx, query>>
    BY <1>22 DEF GroupsEventEffect
  <2>2. CASE UNCHANGED <<grp, wq>>
    <3>1. \A f \in Groups : Runs(f)' = Runs(f) /\ Leaving(f)' = Leaving(f) /\ Holders(f)' = Holders(f)
      BY <2>1, <2>2, WqFrame, HoldersUnchanged
    <3>2. \A f \in Groups : SerialAt(f)' /\ RefAt(f)'
      BY <2>2, <3>1, GroupFrame
    <3> QED
      BY <3>2 DEF GroupInv
  <2>3. CASE /\ \A g \in Groups : grp[g].ref > 0 =>
                  /\ grp'[g].ref = IF grp[g].state = "IDLE" THEN grp[g].ref + 1 ELSE grp[g].ref
                  /\ grp'[g].state # "IDLE"
             /\ \A g \in Groups : ~(grp[g].ref > 0) => grp'[g] = grp[g]
             /\ Range(wq') = Range(wq) \cup {g \in Groups : grp[g].ref > 0 /\ grp[g].state = "IDLE"}
    <3> SUFFICES ASSUME NEW f \in Groups PROVE SerialAt(f)' /\ RefAt(f)'
      BY DEF GroupInv
    <3>1. Leaving(f)' = Leaving(f) /\ Holders(f)' = Holders(f)
      BY <2>1, WqFrame, HoldersUnchanged
    <3>2. CASE ~(grp[f].ref > 0 /\ grp[f].state = "IDLE")
      <4>1. f \in Range(wq') <=> f \in Range(wq)
        BY <2>3, <3>2
      <4>2. Runs(f)' = Runs(f)
        BY <2>1, <4>1, WqFrame
      <4>3. grp'[f].ref = grp[f].ref /\ (grp'[f].state = "IDLE" <=> grp[f].state = "IDLE")
        BY <2>3, <3>2
      <4> QED
        BY <3>1, <4>2, <4>3, GroupFrame
    <3>3. CASE grp[f].ref > 0 /\ grp[f].state = "IDLE"
      <4>1. f \in Range(wq') /\ grp'[f].ref = grp[f].ref + 1 /\ grp'[f].state # "IDLE"
        BY <2>3, <3>3
      <4>2. Runs(f) = {}
        BY <3>3 DEF GroupInv, SerialAt
      <4>3. Runs(f)' = {"queued"}
        BY <2>1, <4>1, <4>2, WqFrame
      <4>4. SerialAt(f)'
        BY <4>1, <4>3 DEF SerialAt
      <4> DEFINE h == Cardinality(Holders(f))
                 l == Cardinality(Leaving(f))
      <4>5. h \in Nat /\ l \in Nat /\ grp[f].ref = h + l
        BY <3>3, RefIs
      <4>6. Cardinality(Holders(f)') = h /\ Cardinality(Leaving(f)') = l
        BY <3>1
      <4> HIDE DEF h, l
      <4>7. grp'[f].ref = h + 1 + l
        BY <4>1, <4>5, SMT
      <4>8. RefAt(f)'
        BY <4>1, <4>5, <4>6, <4>7, RefTo
      <4> QED
        BY <4>4, <4>8
    <3> QED
      BY <3>2, <3>3
  <2> QED
    BY <1>22, <2>2, <2>3 DEF GroupsEventEffect
<1>23. ASSUME RemoveEffect
      PROVE  GroupInv'
  <2>1. UNCHANGED <<grp, mem, ctx, wq, query>>
    BY <1>23 DEF RemoveEffect
  <2>2. \A f \in Groups : Runs(f)' = Runs(f) /\ Leaving(f)' = Leaving(f) /\ Holders(f)' = Holders(f)
    BY <2>1, WqFrame, HoldersUnchanged
  <2>3. \A f \in Groups : SerialAt(f)' /\ RefAt(f)'
    BY <2>1, <2>2, GroupFrame
  <2> QED
    BY <2>3 DEF GroupInv
<1>24. ASSUME UNCHANGED vars PROVE GroupInv'
  <2>1. UNCHANGED <<grp, mem, ctx, wq, query>>
    BY <1>24 DEF vars
  <2>2. \A f \in Groups : Runs(f)' = Runs(f) /\ Leaving(f)' = Leaving(f) /\ Holders(f)' = Holders(f)
    BY <2>1, WqFrame, HoldersUnchanged
  <2>3. \A f \in Groups : SerialAt(f)' /\ RefAt(f)'
    BY <2>1, <2>2, GroupFrame
  <2> QED
    BY <2>3 DEF GroupInv
<1> QED
  BY <1>1, <1>2, <1>3, <1>4, <1>5, <1>6, <1>7, <1>8, <1>9, <1>10, <1>11, <1>12, <1>13, <1>14,
     <1>15, <1>16, <1>17, <1>18, <1>19, <1>20, <1>21, <1>22, <1>23, <1>24
     DEF Effects

----------------------------------------------------------------------------
(* The references on the port. *)

(* A group is live while it has references. *)
LEMMA LiveIs == \A f \in Groups : f \in Live <=> grp[f].ref > 0
BY DEF Live

(* The live groups stay when no group gets its first or loses its last reference. *)
LEMMA LiveNext ==
    ASSUME \A f \in Groups : grp'[f].ref > 0 <=> grp[f].ref > 0
    PROVE  Live' = Live
BY DEF Live

(* Then the references on the port stay exact. *)
LEMMA PortSame ==
    ASSUME PortInv, \A f \in Groups : grp'[f].ref > 0 <=> grp[f].ref > 0, UNCHANGED port
    PROVE  PortInv'
<1>1. Live' = Live
  BY LiveNext
<1> QED
  BY <1>1 DEF PortInv, port

(* release_group drops the reference on the port with the last one on the group. *)
LEMMA PortRelease ==
    ASSUME FiniteSetFacts, Typed, GroupInv, PortInv, NEW g \in Groups, Released(g), rem' = rem,
           NEW x, x \in Leaving(g) \/ x \in Holders(g)
    PROVE  PortInv'
<1>1. grp[g].ref > 0 /\ grp[g].ref \in Nat
  BY RefIs
<1>2. \A f \in Groups : f # g => grp'[f] = grp[f]
  BY DEF GrpStep, Released
<1>3. CASE grp[g].ref = 1 /\ pref' = pref - 1
             /\ GrpStep(g, 0, "IDLE", <<>>, {}, [i \in Types |-> 0], Retries)
  <2>1. grp'[g].ref = 0 /\ ~(0 > 0)
    BY <1>3, SMT DEF GrpStep
  <2>2. g \in Live /\ Live' = Live \ {g}
    BY <1>1, <1>2, <2>1 DEF Live
  <2>3. IsFiniteSet(Live)
    BY Finite
  <2>4. Cardinality(Live) \in Nat /\ Cardinality(Live') = Cardinality(Live) - 1
    BY <2>2, <2>3, CardStep
  <2> DEFINE k == Cardinality(Live)
             e == IF rem \in {"no", "flush"} THEN 1 ELSE 0
  <2>5. pref = k + e
    BY DEF PortInv
  <2>6. k \in Nat /\ e \in Nat
    BY <2>4
  <2> HIDE DEF k, e
  <2>7. pref' = (k - 1) + e
    BY <1>3, <2>5, <2>6, SMT
  <2>8. Cardinality(Live') = k - 1 /\ e = IF rem' \in {"no", "flush"} THEN 1 ELSE 0
    BY <2>4 DEF k, e
  <2>9. rem' = "done" => Live' = {}
    BY <2>2 DEF PortInv
  <2> QED
    BY <2>7, <2>8, <2>9 DEF PortInv
<1>4. CASE grp[g].ref # 1 /\ pref' = pref
             /\ GrpStep(g, grp[g].ref - 1, grp[g].state, grp[g].pending, grp[g].active,
                        grp[g].members, grp[g].retries)
  <2>1. grp'[g].ref = grp[g].ref - 1
    BY <1>4 DEF GrpStep
  <2>2. grp'[g].ref > 0
    BY <1>1, <1>4, <2>1, SMT
  <2>3. \A f \in Groups : grp'[f].ref > 0 <=> grp[f].ref > 0
    BY <1>1, <1>2, <2>2
  <2> QED
    BY <1>4, <2>3, PortSame DEF port
<1> QED
  BY <1>3, <1>4 DEF Released

(* Every step keeps the references on the port exact. *)
LEMMA PortNext ==
    ASSUME FiniteSetFacts, Typed, Shape, GroupInv, PortInv, Effects
    PROVE  PortInv'
<1>1. ASSUME NEW m \in Members, NEW js, JoinEffect(m, js)
      PROVE  PortInv'
  <2>1. PICK g \in Groups :
           \/ /\ grp[g].ref > 0 /\ pref' = pref
              /\ GrpStep(g, grp[g].ref + 1, grp[g].state, grp[g].pending, grp[g].active,
                         grp[g].members, grp[g].retries)
           \/ /\ ~(grp[g].ref > 0) /\ pref' = pref + 1
              /\ GrpStep(g, 1, "IDLE", <<>>, {}, [i \in Types |-> 0], Retries)
    BY <1>1 DEF JoinEffect
  <2>2. rem = "no" /\ rem' = rem
    BY <1>1 DEF JoinEffect
  <2>3. \A f \in Groups : f # g => grp'[f] = grp[f]
    BY <2>1 DEF GrpStep
  <2>4. CASE grp[g].ref > 0 /\ pref' = pref /\ grp'[g].ref = grp[g].ref + 1
    <3>1. grp[g].ref \in Nat
      BY RefIs
    <3>2. grp'[g].ref > 0
      BY <2>4, <3>1, SMT
    <3>3. \A f \in Groups : grp'[f].ref > 0 <=> grp[f].ref > 0
      BY <2>3, <2>4, <3>2
    <3> QED
      BY <2>2, <2>4, <3>3, PortSame DEF port
  <2>5. CASE ~(grp[g].ref > 0) /\ pref' = pref + 1 /\ grp'[g].ref = 1
    <3>1. 1 > 0
      BY SMT
    <3>2. g \notin Live /\ Live' = Live \cup {g}
      BY <2>3, <2>5, <3>1 DEF Live
    <3>3. IsFiniteSet(Live)
      BY Finite
    <3>4. Cardinality(Live) \in Nat /\ Cardinality(Live') = Cardinality(Live) + 1
      BY <3>2, <3>3, CardStep
    <3>5. pref = Cardinality(Live) + 1
      BY <2>2 DEF PortInv
    <3>6. pref' = Cardinality(Live') + 1
      BY <2>5, <3>4, <3>5, SMT
    <3> QED
      BY <2>2, <3>6 DEF PortInv
  <2> QED
    BY <2>1, <2>4, <2>5 DEF GrpStep
<1>2. ASSUME NEW m \in Members, NEW g, g = mem[m].group,
             NEW ms, ms = IF mem[m].state = "MEMBER"
                          THEN Adjusted(grp[g].members, mem[m].join_state, -1) ELSE grp[g].members,
             FreeEffect(m, g, ms)
      PROVE  PortInv'
  <2>1. \E st : GrpStep(g, grp[g].ref, st, Without(grp[g].pending, m), grp[g].active \ {m},
                        ms, grp[g].retries)
    BY <1>2 DEF FreeEffect
  <2>2. UNCHANGED port
    BY <1>2 DEF FreeEffect
  <2>3. \A f \in Groups : grp'[f].ref = grp[f].ref
    BY <2>1 DEF GrpStep
  <2> QED
    BY <2>2, <2>3, PortSame
<1>3. ASSUME NEW m \in Members, NEW g, g = mem[m].group, QueueJoinEffect(m, g)
      PROVE  PortInv'
  <2>1. g \in Groups /\ mem[m].user = "acquired" /\ UNCHANGED port
    BY <1>3 DEF QueueJoinEffect
  <2>2. \/ \E st : GrpStep(g, grp[g].ref + 1, st, Append(grp[g].pending, m), grp[g].active,
                           grp[g].members, grp[g].retries)
        \/ \E st : GrpStep(g, grp[g].ref, st, Append(grp[g].pending, m), grp[g].active,
                           grp[g].members, grp[g].retries)
    BY <1>3 DEF QueueJoinEffect
  <2>3. /\ \A f \in Groups : f # g => grp'[f] = grp[f]
        /\ grp'[g].ref = grp[g].ref \/ grp'[g].ref = grp[g].ref + 1
    BY <2>2 DEF GrpStep
  <2>4. m \in Holders(g)
    BY <1>3, <2>1 DEF Holders
  <2>5. grp[g].ref > 0 /\ grp[g].ref \in Nat
    BY <2>1, <2>4, RefIs
  <2>6. grp'[g].ref > 0
    BY <2>3, <2>5, SMT
  <2>7. \A f \in Groups : grp'[f].ref > 0 <=> grp[f].ref > 0
    BY <2>3, <2>5, <2>6
  <2> QED
    BY <2>1, <2>7, PortSame
<1>4. ASSUME NEW m \in Members, NEW g, g = mem[m].group, FreeReleaseEffect(m, g)
      PROVE  PortInv'
  <2>1. g \in Groups /\ mem[m].user = "release" /\ Released(g) /\ rem' = rem
    BY <1>4 DEF FreeReleaseEffect
  <2>3. m \in Holders(g)
    BY <1>4, <2>1 DEF Holders
  <2> QED
    BY <2>1, <2>3, PortRelease
<1>5. ASSUME NEW m \in Members, KfreeEffect(m)
      PROVE  PortInv'
  <2>1. grp' = grp /\ UNCHANGED port
    BY <1>5 DEF KfreeEffect
  <2> QED
    BY <2>1, PortSame
<1>6. ASSUME WorkStartEffect
      PROVE  PortInv'
  <2>1. grp' = grp /\ UNCHANGED port
    BY <1>6 DEF WorkStartEffect
  <2> QED
    BY <2>1, PortSame
<1>7. ASSUME NEW c \in Ctxs, NEW g, g = ctx[c].g, NEW m, m = Head(grp[g].pending), HandlerEffect(c, g, m)
      PROVE  PortInv'
  <2>1. UNCHANGED port
    BY <1>7 DEF HandlerEffect
  <2>2. grp' = grp \/ \E st, pe, ac, ms, rt : GrpStep(g, grp[g].ref, st, pe, ac, ms, rt)
    BY <1>7 DEF HandlerEffect
  <2>3. \A f \in Groups : grp'[f].ref = grp[f].ref
    BY <2>2 DEF GrpStep
  <2> QED
    BY <2>1, <2>3, PortSame
<1>8. ASSUME NEW c \in Ctxs, NEW g, g = ctx[c].g, WorkReleaseEffect(c, g)
      PROVE  PortInv'
  <2>1. g \in Groups /\ ctx[c].pc = "release" /\ Released(g) /\ rem' = rem
    BY <1>8 DEF WorkReleaseEffect
  <2>3. c \in Leaving(g)
    BY <1>8, <2>1 DEF Leaving
  <2> QED
    BY <2>1, <2>3, PortRelease
<1>9. ASSUME NEW c \in Ctxs, NEW g, g = ctx[c].g, NEW m, m = ctx[c].m, SendJoinEffect(c, g, m)
      PROVE  PortInv'
  <2>1. UNCHANGED port
    BY <1>9 DEF SendJoinEffect
  <2>2. grp' = grp \/ \E st, pe, ac, ms, rt : GrpStep(g, grp[g].ref, st, pe, ac, ms, rt)
    BY <1>9 DEF SendJoinEffect
  <2>3. \A f \in Groups : grp'[f].ref = grp[f].ref
    BY <2>2 DEF GrpStep
  <2> QED
    BY <2>1, <2>3, PortSame
<1>10. ASSUME NEW c \in Ctxs, NEW g, g = ctx[c].g, NEW m, m = ctx[c].m,
             NEW told, told = IF ctx[c].pc = "errcb" THEN "reset"
                              ELSE IF mem[m].state = "MEMBER" THEN "joined" ELSE "failed",
             CallbackEffect(c, g, m, told)
      PROVE  PortInv'
  <2>1. grp' = grp /\ UNCHANGED port
    BY <1>10 DEF CallbackEffect
  <2> QED
    BY <2>1, PortSame
<1>11. ASSUME NEW c \in Ctxs, NEW g, g = ctx[c].g, SendLeaveEffect(c, g)
      PROVE  PortInv'
  <2>1. grp' = grp /\ UNCHANGED port
    BY <1>11 DEF SendLeaveEffect
  <2> QED
    BY <2>1, PortSame
<1>12. ASSUME NEW c \in Ctxs, NEW g, g = ctx[c].g, ErrorEffect(c, g)
      PROVE  PortInv'
  <2>1. grp' = grp /\ UNCHANGED port
    BY <1>12 DEF ErrorEffect
  <2> QED
    BY <2>1, PortSame
<1>13. ASSUME NEW c \in Ctxs, NEW g, g = ctx[c].g, ErrorLockEffect(c, g)
      PROVE  PortInv'
  <2>1. UNCHANGED port
    BY <1>13 DEF ErrorLockEffect
  <2>2. grp' = grp \/ \E st, pe, ac, ms, rt : GrpStep(g, grp[g].ref, st, pe, ac, ms, rt)
    BY <1>13 DEF ErrorLockEffect
  <2>3. \A f \in Groups : grp'[f].ref = grp[f].ref
    BY <2>2 DEF GrpStep
  <2> QED
    BY <2>1, <2>3, PortSame
<1>14. ASSUME NEW c \in Ctxs, NEW g, g = ctx[c].g, ErrorNextEffect(c, g)
      PROVE  PortInv'
  <2>1. UNCHANGED port
    BY <1>14 DEF ErrorNextEffect
  <2>2. grp' = grp \/ \E st, pe, ac, ms, rt : GrpStep(g, grp[g].ref, st, pe, ac, ms, rt)
    BY <1>14 DEF ErrorNextEffect
  <2>3. \A f \in Groups : grp'[f].ref = grp[f].ref
    BY <2>2 DEF GrpStep
  <2> QED
    BY <2>1, <2>3, PortSame
<1>15. ASSUME NEW c \in Ctxs, NEW g, g = ctx[c].g, NEW m, m = ctx[c].m, JoinErrorEffect(c, g, m)
      PROVE  PortInv'
  <2>1. UNCHANGED port
    BY <1>15 DEF JoinErrorEffect
  <2>2. grp' = grp \/ GrpStep(g, grp[g].ref, grp[g].state, Without(grp[g].pending, m), grp[g].active \ {m},
                               grp[g].members, grp[g].retries)
    BY <1>15 DEF JoinErrorEffect
  <2>3. \A f \in Groups : grp'[f].ref = grp[f].ref
    BY <2>2 DEF GrpStep
  <2> QED
    BY <2>1, <2>3, PortSame
<1>16. ASSUME NEW c \in Ctxs, NEW g, g = ctx[c].g, JoinRecordEffect(c, g)
      PROVE  PortInv'
  <2>1. UNCHANGED port
    BY <1>16 DEF JoinRecordEffect
  <2>2. grp' = grp \/ \E st, pe, ac, ms, rt : GrpStep(g, grp[g].ref, st, pe, ac, ms, rt)
    BY <1>16 DEF JoinRecordEffect
  <2>3. \A f \in Groups : grp'[f].ref = grp[f].ref
    BY <2>2 DEF GrpStep
  <2> QED
    BY <2>1, <2>3, PortSame
<1>17. ASSUME NEW c \in Ctxs, NEW g, g = ctx[c].g, LeaveRetryEffect(c, g)
      PROVE  PortInv'
  <2>1. UNCHANGED port
    BY <1>17 DEF LeaveRetryEffect
  <2>2. grp' = grp \/ \E st, pe, ac, ms, rt : GrpStep(g, grp[g].ref, st, pe, ac, ms, rt)
    BY <1>17 DEF LeaveRetryEffect
  <2>3. \A f \in Groups : grp'[f].ref = grp[f].ref
    BY <2>2 DEF GrpStep
  <2> QED
    BY <2>1, <2>3, PortSame
<1>18. ASSUME NEW g \in Groups, SaEffect(g)
      PROVE  PortInv'
  <2>1. grp' = grp /\ UNCHANGED port
    BY <1>18 DEF SaEffect
  <2> QED
    BY <2>1, PortSame
<1>19. ASSUME NEW c \in {"recv", "timeout"}, NEW g \in Groups, JoinHandlerEffect(c, g)
      PROVE  PortInv'
  <2>1. grp' = grp /\ UNCHANGED port
    BY <1>19 DEF JoinHandlerEffect
  <2> QED
    BY <2>1, PortSame
<1>20. ASSUME NEW c \in {"recv", "timeout"}, NEW g \in Groups, LeaveHandlerEffect(c, g)
      PROVE  PortInv'
  <2>1. grp' = grp /\ UNCHANGED port
    BY <1>20 DEF LeaveHandlerEffect
  <2> QED
    BY <2>1, PortSame
<1>21. ASSUME EventEffect
      PROVE  PortInv'
  <2>1. grp' = grp /\ UNCHANGED port
    BY <1>21 DEF EventEffect
  <2> QED
    BY <2>1, PortSame
<1>22. ASSUME GroupsEventEffect
      PROVE  PortInv'
  <2>1. UNCHANGED port
    BY <1>22 DEF GroupsEventEffect
  <2>2. ASSUME NEW f \in Groups PROVE grp'[f].ref > 0 <=> grp[f].ref > 0
    <3>1. \/ ~(grp[f].ref > 0) /\ grp'[f] = grp[f]
          \/ grp[f].ref > 0 /\ (grp'[f].ref = grp[f].ref \/ grp'[f].ref = grp[f].ref + 1)
      BY <1>22 DEF GroupsEventEffect
    <3>2. grp[f].ref \in Nat
      BY RefIs
    <3>3. grp[f].ref > 0 => grp[f].ref + 1 > 0
      BY <3>2, SMT
    <3> QED
      BY <3>1, <3>3
  <2> QED
    BY <2>1, <2>2, PortSame
<1>23. ASSUME RemoveEffect
      PROVE  PortInv'
  <2>1. /\ grp' = grp
        /\ \/ rem = "no" /\ rem' = "flush" /\ pref' = pref
           \/ rem = "flush" /\ rem' = "wait" /\ pref' = pref - 1
           \/ rem = "wait" /\ rem' = "done" /\ pref' = pref /\ pref = 0
    BY <1>23 DEF RemoveEffect
  <2>2. Live' = Live
    BY <2>1 DEF Live
  <2>3. IsFiniteSet(Live)
    BY Finite
  <2>4. Cardinality(Live) \in Nat /\ (Cardinality(Live) = 0 => Live = {})
    BY <2>3, CardStep
  <2> DEFINE k == Cardinality(Live)
  <2>5. /\ rem \in {"no", "flush"} => pref = k + 1
        /\ rem = "wait" => pref = k + 0
    BY DEF PortInv
  <2>6. k \in Nat
    BY <2>4
  <2> HIDE DEF k
  <2>7. k + 1 - 1 = k + 0 /\ k + 0 = k
    BY <2>6, SMT
  <2>8. /\ rem' \in {"no", "flush"} => pref' = k + 1
        /\ rem' \in {"wait", "done"} => pref' = k + 0
        /\ rem' = "done" => k = 0
    BY <2>1, <2>5, <2>6, SMT
  <2>9. Cardinality(Live') = k /\ (rem' = "done" => Live' = {})
    BY <2>2, <2>4, <2>8 DEF k
  <2>10. rem' \in {"flush", "wait", "done"}
    BY <2>1
  <2> QED
    BY <2>8, <2>9, <2>10 DEF PortInv
<1>24. ASSUME UNCHANGED vars PROVE PortInv'
  <2>1. grp' = grp /\ UNCHANGED port
    BY <1>24 DEF vars, port
  <2> QED
    BY <2>1, PortSame
<1> QED
  BY <1>1, <1>2, <1>3, <1>4, <1>5, <1>6, <1>7, <1>8, <1>9, <1>10, <1>11, <1>12, <1>13, <1>14,
     <1>15, <1>16, <1>17, <1>18, <1>19, <1>20, <1>21, <1>22, <1>23, <1>24
     DEF Effects

----------------------------------------------------------------------------
(* The retries of leaves. *)

RetryAt(g) ==
    /\ grp[g].retries \in -1..Retries
    /\ \A c \in Ctxs : Retrying(c, g) => grp[g].retries >= 0
    /\ Retrying("recv", g) /\ Retrying("timeout", g) => grp[g].retries >= 1

(* What RetryInv says of each group. *)
LEMMA RetryIs ==
    ASSUME RetryInv
    PROVE  ctx["wq"].pc \notin {"releave", "retry"} /\ \A g \in Groups : RetryAt(g)
BY DEF RetryInv, RetryAt

(* What RetryInv needs. *)
LEMMA RetryTo ==
    ASSUME ctx'["wq"].pc \notin {"releave", "retry"}, \A g \in Groups : RetryAt(g)'
    PROVE  RetryInv'
BY DEF RetryInv, RetryAt

(* The number of retries that a group starts with is within its bounds. *)
LEMMA RetriesBounds == Retries \in -1..Retries /\ Retries >= 0 /\ Retries >= 1
BY MulticastAssumption, SMT

(* No more contexts retry, and the retries stay or are those of a new group. *)
LEMMA RetryFrame ==
    ASSUME RetryInv, NEW g \in Groups,
           grp'[g].retries = grp[g].retries \/ grp'[g].retries = Retries,
           \A d \in Ctxs : Retrying(d, g)' => Retrying(d, g)
    PROVE  RetryAt(g)'
<1>1. "recv" \in Ctxs /\ "timeout" \in Ctxs
  BY DEF Ctxs
<1>2. RetryAt(g)
  BY RetryIs
<1> QED
  BY <1>1, <1>2, RetriesBounds DEF RetryAt

(* Contexts go to other places than those of a retry. *)
LEMMA RetryPlain ==
    ASSUME RetryInv,
           \A f \in Groups : grp'[f].retries = grp[f].retries \/ grp'[f].retries = Retries,
           \A d \in Ctxs : ctx'[d] = ctx[d] \/ ctx'[d].pc \notin {"releave", "retry"}
    PROVE  RetryInv'
<1>1. \A f \in Groups : \A d \in Ctxs : Retrying(d, f)' => Retrying(d, f)
  BY DEF Retrying
<1>2. \A f \in Groups : RetryAt(f)'
  BY <1>1, RetryFrame
<1>3. ctx'["wq"].pc \notin {"releave", "retry"}
  BY RetryIs DEF Ctxs
<1> QED
  BY <1>2, <1>3, RetryTo

(* Every step keeps the bounds of the retries. *)
LEMMA RetryNext ==
    ASSUME Typed, Shape, RetryInv, Effects
    PROVE  RetryInv'
<1>1. ASSUME NEW m \in Members, NEW js, JoinEffect(m, js)
      PROVE  RetryInv'
  <2>1. PICK f \in Groups :
           \/ GrpStep(f, grp[f].ref + 1, grp[f].state, grp[f].pending, grp[f].active,
                      grp[f].members, grp[f].retries)
           \/ GrpStep(f, 1, "IDLE", <<>>, {}, [i \in Types |-> 0], Retries)
    BY <1>1 DEF JoinEffect
  <2>2. \A h \in Groups : grp'[h].retries = grp[h].retries \/ grp'[h].retries = Retries
    BY <2>1 DEF GrpStep
  <2>3. \A d \in Ctxs : ctx'[d] = ctx[d] \/ ctx'[d].pc \notin {"releave", "retry"}
    BY <1>1 DEF JoinEffect
  <2> QED
    BY <2>2, <2>3, RetryPlain
<1>2. ASSUME NEW m \in Members, NEW g, g = mem[m].group,
             NEW ms, ms = IF mem[m].state = "MEMBER"
                          THEN Adjusted(grp[g].members, mem[m].join_state, -1) ELSE grp[g].members,
             FreeEffect(m, g, ms)
      PROVE  RetryInv'
  <2>1. grp' = grp \/ \E rf, st, pe, ac, mb : GrpStep(g, rf, st, pe, ac, mb, grp[g].retries)
    BY <1>2 DEF FreeEffect
  <2>2. \A f \in Groups : grp'[f].retries = grp[f].retries
    BY <2>1 DEF GrpStep
  <2>3. \A d \in Ctxs : ctx'[d] = ctx[d] \/ ctx'[d].pc \notin {"releave", "retry"}
    BY <1>2 DEF FreeEffect
  <2> QED
    BY <2>2, <2>3, RetryPlain
<1>3. ASSUME NEW m \in Members, NEW g, g = mem[m].group, QueueJoinEffect(m, g)
      PROVE  RetryInv'
  <2>1. grp' = grp \/ \E rf, st, pe, ac, mb : GrpStep(g, rf, st, pe, ac, mb, grp[g].retries)
    BY <1>3 DEF QueueJoinEffect
  <2>2. \A f \in Groups : grp'[f].retries = grp[f].retries
    BY <2>1 DEF GrpStep
  <2>3. \A d \in Ctxs : ctx'[d] = ctx[d] \/ ctx'[d].pc \notin {"releave", "retry"}
    BY <1>3 DEF QueueJoinEffect
  <2> QED
    BY <2>2, <2>3, RetryPlain
<1>4. ASSUME NEW m \in Members, NEW g, g = mem[m].group, FreeReleaseEffect(m, g)
      PROVE  RetryInv'
  <2>1. g \in Groups /\ Released(g)
    BY <1>4 DEF FreeReleaseEffect
  <2>2. \A f \in Groups : grp'[f].retries = grp[f].retries \/ grp'[f].retries = Retries
    BY <2>1 DEF GrpStep, Released
  <2>3. \A d \in Ctxs : ctx'[d] = ctx[d] \/ ctx'[d].pc \notin {"releave", "retry"}
    BY <1>4 DEF FreeReleaseEffect
  <2> QED
    BY <2>2, <2>3, RetryPlain
<1>5. ASSUME NEW m \in Members, KfreeEffect(m)
      PROVE  RetryInv'
  <2>1. grp' = grp
    BY <1>5 DEF KfreeEffect
  <2>2. \A f \in Groups : grp'[f].retries = grp[f].retries
    BY <2>1 DEF GrpStep
  <2>3. \A d \in Ctxs : ctx'[d] = ctx[d] \/ ctx'[d].pc \notin {"releave", "retry"}
    BY <1>5 DEF KfreeEffect
  <2> QED
    BY <2>2, <2>3, RetryPlain
<1>6. ASSUME WorkStartEffect
      PROVE  RetryInv'
  <2>1. grp' = grp
    BY <1>6 DEF WorkStartEffect
  <2>2. \A f \in Groups : grp'[f].retries = grp[f].retries
    BY <2>1 DEF GrpStep
  <2>4. \E pc \in {"test"} : \E f, n : CtxStep("wq", pc, f, n)
    BY <1>6 DEF WorkStartEffect
  <2>3. \A d \in Ctxs : ctx'[d] = ctx[d] \/ ctx'[d].pc \notin {"releave", "retry"}
    BY <2>4 DEF CtxStep
  <2> QED
    BY <2>2, <2>3, RetryPlain
<1>7. ASSUME NEW c \in Ctxs, NEW g, g = ctx[c].g, NEW m, m = Head(grp[g].pending), HandlerEffect(c, g, m)
      PROVE  RetryInv'
  <2>1. grp' = grp \/ \E rf, st, pe, ac, mb : GrpStep(g, rf, st, pe, ac, mb, grp[g].retries)
    BY <1>7 DEF HandlerEffect
  <2>2. \A f \in Groups : grp'[f].retries = grp[f].retries
    BY <2>1 DEF GrpStep
  <2>4. \E pc \in {"err", "cb", "send", "leave", "release"} : \E f, n : CtxStep(c, pc, f, n)
    BY <1>7 DEF HandlerEffect
  <2>3. \A d \in Ctxs : ctx'[d] = ctx[d] \/ ctx'[d].pc \notin {"releave", "retry"}
    BY <2>4 DEF CtxStep
  <2> QED
    BY <2>2, <2>3, RetryPlain
<1>8. ASSUME NEW c \in Ctxs, NEW g, g = ctx[c].g, WorkReleaseEffect(c, g)
      PROVE  RetryInv'
  <2>1. g \in Groups /\ Released(g)
    BY <1>8 DEF WorkReleaseEffect
  <2>2. \A f \in Groups : grp'[f].retries = grp[f].retries \/ grp'[f].retries = Retries
    BY <2>1 DEF GrpStep, Released
  <2>4. \E pc \in {"idle"} : \E f, n : CtxStep(c, pc, f, n)
    BY <1>8 DEF WorkReleaseEffect
  <2>3. \A d \in Ctxs : ctx'[d] = ctx[d] \/ ctx'[d].pc \notin {"releave", "retry"}
    BY <2>4 DEF CtxStep
  <2> QED
    BY <2>2, <2>3, RetryPlain
<1>9. ASSUME NEW c \in Ctxs, NEW g, g = ctx[c].g, NEW m, m = ctx[c].m, SendJoinEffect(c, g, m)
      PROVE  RetryInv'
  <2>1. grp' = grp \/ \E rf, st, pe, ac, mb : GrpStep(g, rf, st, pe, ac, mb, grp[g].retries)
    BY <1>9 DEF SendJoinEffect
  <2>2. \A f \in Groups : grp'[f].retries = grp[f].retries
    BY <2>1 DEF GrpStep
  <2>4. \E pc \in {"idle", "cb"} : \E f, n : CtxStep(c, pc, f, n)
    BY <1>9 DEF SendJoinEffect
  <2>3. \A d \in Ctxs : ctx'[d] = ctx[d] \/ ctx'[d].pc \notin {"releave", "retry"}
    BY <2>4 DEF CtxStep
  <2> QED
    BY <2>2, <2>3, RetryPlain
<1>10. ASSUME NEW c \in Ctxs, NEW g, g = ctx[c].g, NEW m, m = ctx[c].m,
             NEW told, told = IF ctx[c].pc = "errcb" THEN "reset"
                              ELSE IF mem[m].state = "MEMBER" THEN "joined" ELSE "failed",
             CallbackEffect(c, g, m, told)
      PROVE  RetryInv'
  <2>1. grp' = grp
    BY <1>10 DEF CallbackEffect
  <2>4. \/ CtxStep(c, IF ctx[c].pc = "errcb" THEN "errnext" ELSE "test", g, Null)
        \/ CtxStep(c, IF ctx[c].pc = "errcb" THEN "errwait" ELSE "wait", g, m)
    BY <1>10 DEF CallbackEffect
  <2>3. \A d \in Ctxs : ctx'[d] = ctx[d] \/ ctx'[d].pc \notin {"releave", "retry"}
    BY <2>4 DEF CtxStep
  <2> QED
    BY <2>1, <2>3, RetryPlain
<1>11. ASSUME NEW c \in Ctxs, NEW g, g = ctx[c].g, SendLeaveEffect(c, g)
      PROVE  RetryInv'
  <2>1. grp' = grp
    BY <1>11 DEF SendLeaveEffect
  <2>2. \/ CtxStep(c, "idle", Null, Null) \/ CtxStep(c, "test", g, Null)
        \/ ctx[c].pc = "releave" /\ CtxStep(c, "retry", g, Null)
    BY <1>11 DEF SendLeaveEffect
  <2>3. \A d \in Ctxs : d # c => ctx'[d] = ctx[d]
    BY <2>2 DEF CtxStep
  <2>4. \A f \in Groups : \A d \in Ctxs : Retrying(d, f)' => Retrying(d, f)
    BY <1>11, <2>2, <2>3 DEF Retrying, CtxStep
  <2>5. \A f \in Groups : RetryAt(f)'
    BY <2>1, <2>4, RetryFrame
  <2>6. ctx'["wq"].pc \notin {"releave", "retry"}
    <3>1. CASE c = "wq"
      BY <2>2, <3>1, RetryIs DEF CtxStep
    <3>2. CASE c # "wq"
      BY <2>3, <3>2, RetryIs DEF Ctxs
    <3> QED
      BY <3>1, <3>2
  <2> QED
    BY <2>5, <2>6, RetryTo
<1>12. ASSUME NEW c \in Ctxs, NEW g, g = ctx[c].g, ErrorEffect(c, g)
      PROVE  RetryInv'
  <2>1. grp' = grp
    BY <1>12 DEF ErrorEffect
  <2>2. \A f \in Groups : grp'[f].retries = grp[f].retries
    BY <2>1 DEF GrpStep
  <2>4. \E pc \in {"errlock"} : \E f, n : CtxStep(c, pc, f, n)
    BY <1>12 DEF ErrorEffect
  <2>3. \A d \in Ctxs : ctx'[d] = ctx[d] \/ ctx'[d].pc \notin {"releave", "retry"}
    BY <2>4 DEF CtxStep
  <2> QED
    BY <2>2, <2>3, RetryPlain
<1>13. ASSUME NEW c \in Ctxs, NEW g, g = ctx[c].g, ErrorLockEffect(c, g)
      PROVE  RetryInv'
  <2>1. grp' = grp \/ \E rf, st, pe, ac, mb : GrpStep(g, rf, st, pe, ac, mb, grp[g].retries)
    BY <1>13 DEF ErrorLockEffect
  <2>2. \A f \in Groups : grp'[f].retries = grp[f].retries
    BY <2>1 DEF GrpStep
  <2>4. \E pc \in {"test", "errnext"} : \E f, n : CtxStep(c, pc, f, n)
    BY <1>13 DEF ErrorLockEffect
  <2>3. \A d \in Ctxs : ctx'[d] = ctx[d] \/ ctx'[d].pc \notin {"releave", "retry"}
    BY <2>4 DEF CtxStep
  <2> QED
    BY <2>2, <2>3, RetryPlain
<1>14. ASSUME NEW c \in Ctxs, NEW g, g = ctx[c].g, ErrorNextEffect(c, g)
      PROVE  RetryInv'
  <2>1. grp' = grp \/ \E rf, st, pe, ac, mb : GrpStep(g, rf, st, pe, ac, mb, grp[g].retries)
    BY <1>14 DEF ErrorNextEffect
  <2>2. \A f \in Groups : grp'[f].retries = grp[f].retries
    BY <2>1 DEF GrpStep
  <2>4. \E pc \in {"errcb", "test"} : \E f, n : CtxStep(c, pc, f, n)
    BY <1>14 DEF ErrorNextEffect
  <2>3. \A d \in Ctxs : ctx'[d] = ctx[d] \/ ctx'[d].pc \notin {"releave", "retry"}
    BY <2>4 DEF CtxStep
  <2> QED
    BY <2>2, <2>3, RetryPlain
<1>15. ASSUME NEW c \in Ctxs, NEW g, g = ctx[c].g, NEW m, m = ctx[c].m, JoinErrorEffect(c, g, m)
      PROVE  RetryInv'
  <2>1. grp' = grp \/ GrpStep(g, grp[g].ref, grp[g].state, Without(grp[g].pending, m), grp[g].active \ {m},
                               grp[g].members, grp[g].retries)
    BY <1>15 DEF JoinErrorEffect
  <2>2. \A f \in Groups : grp'[f].retries = grp[f].retries
    BY <2>1 DEF GrpStep
  <2>4. \E pc \in {"test", "cb"} : \E f, n : CtxStep(c, pc, f, n)
    BY <1>15 DEF JoinErrorEffect
  <2>3. \A d \in Ctxs : ctx'[d] = ctx[d] \/ ctx'[d].pc \notin {"releave", "retry"}
    BY <2>4 DEF CtxStep
  <2> QED
    BY <2>2, <2>3, RetryPlain
<1>16. ASSUME NEW c \in Ctxs, NEW g, g = ctx[c].g, JoinRecordEffect(c, g)
      PROVE  RetryInv'
  <2>1. grp' = grp \/ \E rf, st, pe, ac, mb : GrpStep(g, rf, st, pe, ac, mb, grp[g].retries)
    BY <1>16 DEF JoinRecordEffect
  <2>2. \A f \in Groups : grp'[f].retries = grp[f].retries
    BY <2>1 DEF GrpStep
  <2>4. \E pc \in {"test"} : \E f, n : CtxStep(c, pc, f, n)
    BY <1>16 DEF JoinRecordEffect
  <2>3. \A d \in Ctxs : ctx'[d] = ctx[d] \/ ctx'[d].pc \notin {"releave", "retry"}
    BY <2>4 DEF CtxStep
  <2> QED
    BY <2>2, <2>3, RetryPlain
<1>17. ASSUME NEW c \in Ctxs, NEW g, g = ctx[c].g, LeaveRetryEffect(c, g)
      PROVE  RetryInv'
  <2>1. g \in Groups /\ ctx[c].pc = "retry" /\ CtxStep(c, "idle", Null, Null)
    BY <1>17 DEF LeaveRetryEffect
  <2>2. \A d \in Ctxs : ctx'[d] = ctx[d] \/ ctx'[d].pc \notin {"releave", "retry"}
    BY <2>1 DEF CtxStep
  <2>3. CASE grp' = grp
    BY <2>2, <2>3, RetryPlain
  <2>4. CASE GrpStep(g, grp[g].ref, grp[g].state, grp[g].pending, grp[g].active,
                     grp[g].members, grp[g].retries - 1)
    <3>1. \A f \in Groups : f # g => grp'[f] = grp[f]
      BY <2>4 DEF GrpStep
    <3>2. grp'[g].retries = grp[g].retries - 1
      BY <2>4 DEF GrpStep
    <3>3. \A f \in Groups : \A d \in Ctxs : Retrying(d, f)' => Retrying(d, f) /\ d # c
      BY <2>1 DEF Retrying, CtxStep
    <3>4. \A f \in Groups : f # g => RetryAt(f)'
      BY <3>1, <3>3, RetryFrame
    <3>5. Retrying(c, g)
      BY <1>17, <2>1 DEF Retrying
    <3>6. RetryAt(g)
      BY <2>1, RetryIs
    <3>7. grp[g].retries \in -1..Retries /\ grp[g].retries >= 0 /\ Retries \in Nat
      BY <1>17, <3>5, <3>6, MulticastAssumption DEF RetryAt
    <3>8. grp'[g].retries \in -1..Retries
      BY <3>2, <3>7, SMT
    <3>9. ASSUME NEW d \in Ctxs, Retrying(d, g)' PROVE grp'[g].retries >= 0
      <4>1. Retrying(d, g) /\ d # c
        BY <2>1, <3>3, <3>9
      <4>2. d # "wq" /\ c # "wq"
        BY <3>5, <4>1, RetryIs DEF Retrying
      <4>3. Retrying("recv", g) /\ Retrying("timeout", g)
        BY <1>17, <3>5, <4>1, <4>2 DEF Ctxs
      <4>4. grp[g].retries >= 1
        BY <3>6, <4>3 DEF RetryAt
      <4> QED
        BY <3>2, <3>7, <4>4, SMT
    <3>10. ~(Retrying("recv", g)' /\ Retrying("timeout", g)')
      <4>1. c = "recv" \/ c = "timeout"
        BY <1>17, <3>5, RetryIs DEF Ctxs, Retrying
      <4> QED
        BY <1>17, <2>1, <3>3, <4>1
    <3>11. RetryAt(g)'
      BY <3>8, <3>9, <3>10 DEF RetryAt
    <3>12. ctx'["wq"].pc \notin {"releave", "retry"}
      BY <2>2, RetryIs DEF Ctxs
    <3> QED
      BY <3>4, <3>11, <3>12, RetryTo
  <2> QED
    BY <1>17, <2>3, <2>4 DEF LeaveRetryEffect
<1>18. ASSUME NEW g \in Groups, SaEffect(g)
      PROVE  RetryInv'
  <2>1. grp' = grp
    BY <1>18 DEF SaEffect
  <2>2. \A f \in Groups : grp'[f].retries = grp[f].retries
    BY <2>1 DEF GrpStep
  <2>3. \A d \in Ctxs : ctx'[d] = ctx[d] \/ ctx'[d].pc \notin {"releave", "retry"}
    BY <1>18 DEF SaEffect
  <2> QED
    BY <2>2, <2>3, RetryPlain
<1>19. ASSUME NEW c \in {"recv", "timeout"}, NEW g \in Groups, JoinHandlerEffect(c, g)
      PROVE  RetryInv'
  <2>1. grp' = grp
    BY <1>19 DEF JoinHandlerEffect
  <2>2. \A f \in Groups : grp'[f].retries = grp[f].retries
    BY <2>1 DEF GrpStep
  <2>4. \E pc \in {"joinerr", "joined"} : \E f, n : CtxStep(c, pc, f, n)
    BY <1>19 DEF JoinHandlerEffect
  <2>3. \A d \in Ctxs : ctx'[d] = ctx[d] \/ ctx'[d].pc \notin {"releave", "retry"}
    BY <2>4 DEF CtxStep
  <2> QED
    BY <2>2, <2>3, RetryPlain
<1>20. ASSUME NEW c \in {"recv", "timeout"}, NEW g \in Groups, LeaveHandlerEffect(c, g)
      PROVE  RetryInv'
  <2>1. grp' = grp
    BY <1>20 DEF LeaveHandlerEffect
  <2>2. CASE CtxStep(c, "test", g, Null)
    <3>1. \A d \in Ctxs : ctx'[d] = ctx[d] \/ ctx'[d].pc \notin {"releave", "retry"}
      BY <2>2 DEF CtxStep
    <3> QED
      BY <2>1, <3>1, RetryPlain
  <2>3. CASE grp[g].retries > 0 /\ CtxStep(c, "releave", g, Null)
    <3>1. \A d \in Ctxs : d # c => ctx'[d] = ctx[d]
      BY <2>3 DEF CtxStep
    <3>2. c # "wq" /\ "wq" \in Ctxs
      BY <1>20 DEF Ctxs
    <3>3. ctx'["wq"].pc \notin {"releave", "retry"}
      BY <3>1, <3>2, RetryIs
    <3>4. RetryAt(g)'
      <4>1. RetryAt(g)
        BY <1>20, RetryIs
      <4>2. grp[g].retries \in -1..Retries /\ Retries \in Nat
        BY <4>1, MulticastAssumption DEF RetryAt
      <4>3. grp[g].retries >= 0 /\ grp[g].retries >= 1
        BY <2>3, <4>2, SMT
      <4> QED
        BY <2>1, <4>2, <4>3 DEF RetryAt
    <3>5. \A f \in Groups : f # g => RetryAt(f)'
      <4> SUFFICES ASSUME NEW f \in Groups, f # g PROVE RetryAt(f)'
        OBVIOUS
      <4>1. \A d \in Ctxs : Retrying(d, f)' => Retrying(d, f)
        BY <2>3, <3>1 DEF Retrying, CtxStep
      <4> QED
        BY <2>1, <4>1, RetryFrame
    <3> QED
      BY <3>3, <3>4, <3>5, RetryTo
  <2> QED
    BY <1>20, <2>2, <2>3 DEF LeaveHandlerEffect
<1>21. ASSUME EventEffect
      PROVE  RetryInv'
  <2>1. grp' = grp
    BY <1>21 DEF EventEffect
  <2>2. \A f \in Groups : grp'[f].retries = grp[f].retries
    BY <2>1 DEF GrpStep
  <2>3. \A d \in Ctxs : ctx'[d] = ctx[d] \/ ctx'[d].pc \notin {"releave", "retry"}
    BY <1>21 DEF EventEffect
  <2> QED
    BY <2>2, <2>3, RetryPlain
<1>22. ASSUME GroupsEventEffect
      PROVE  RetryInv'
  <2>2. \A f \in Groups : grp'[f].retries = grp[f].retries
    BY <1>22 DEF GroupsEventEffect
  <2>3. \A d \in Ctxs : ctx'[d] = ctx[d] \/ ctx'[d].pc \notin {"releave", "retry"}
    BY <1>22 DEF GroupsEventEffect
  <2> QED
    BY <2>2, <2>3, RetryPlain
<1>23. ASSUME RemoveEffect
      PROVE  RetryInv'
  <2>1. grp' = grp
    BY <1>23 DEF RemoveEffect
  <2>2. \A f \in Groups : grp'[f].retries = grp[f].retries
    BY <2>1 DEF GrpStep
  <2>3. \A d \in Ctxs : ctx'[d] = ctx[d] \/ ctx'[d].pc \notin {"releave", "retry"}
    BY <1>23 DEF RemoveEffect
  <2> QED
    BY <2>2, <2>3, RetryPlain
<1>24. ASSUME UNCHANGED vars PROVE RetryInv'
  <2>1. grp' = grp /\ ctx' = ctx
    BY <1>24 DEF vars
  <2> QED
    BY <2>1, RetryPlain
<1> QED
  BY <1>1, <1>2, <1>3, <1>4, <1>5, <1>6, <1>7, <1>8, <1>9, <1>10, <1>11, <1>12, <1>13, <1>14,
     <1>15, <1>16, <1>17, <1>18, <1>19, <1>20, <1>21, <1>22, <1>23, <1>24
     DEF Effects

============================================================================
