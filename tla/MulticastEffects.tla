------------------------- MODULE MulticastEffects --------------------------
(***************************************************************************)
(* What each action of Multicast changes, as far as the invariants are     *)
(* concerned: MulticastSteps proves that every step of Multicast has one   *)
(* of these effects, MulticastGroups and MulticastMembers that every       *)
(* effect keeps the invariants.                                            *)
(***************************************************************************)
EXTENDS MulticastState

GroupRecs ==
    [ref : Int, mgid : AllMgids \cup {Zero}, state : {"IDLE", "BUSY", "GROUP_ERROR", "PKEY_EVENT"},
     pending : Seq(Members), active : SUBSET Members, members : [Types -> Int],
     join_state : SUBSET Types, pkey_index : PkeyIndices \cup {Null}, retries : Int]

MemberRecs ==
    [ref : Int, group : Groups \cup {Null}, mgid : AllMgids \cup {Zero},
     join_state : SUBSET Types, state : {"JOINING", "MEMBER", "ERROR"},
     user : {"none", "acquired", "held", "free", "release", "wait"},
     told : {"nothing", "joined", "failed", "reset"}]

CtxRecs ==
    [pc : PCs, g : Groups \cup {Null}, m : Members \cup {Null},
     pk : PkeyIndices \cup {Null}, rec : Records]

QueryRecs ==
    [op : {"none", "join", "leave"}, done : BOOLEAN, mgid : AllMgids \cup {Zero},
     js : SUBSET Types, m : Members \cup {Null}]

(* The types, with counts that may be negative. *)
Typed ==
    /\ scn \in Scenarios
    /\ grp \in [Groups -> GroupRecs]
    /\ mem \in [Members -> MemberRecs]
    /\ ctx \in [Ctxs -> CtxRecs]
    /\ wq \in Seq(Groups)
    /\ query \in [Groups -> QueryRecs]
    /\ sa \in [AllMgids -> SUBSET Types] /\ pkey \in PkeyIndices \cup {Null}
    /\ event \in {"none", "GROUP_ERROR", "PKEY_EVENT"} /\ events \in 0..scn.events
    /\ pref \in Int /\ rem \in {"no", "flush", "wait", "done"} /\ flushing \subseteq Groups

(* Group g, member m, context c or the query of g changes, and nothing     *)
(* else of its kind.                                                       *)
GrpStep(g, ref, state, pending, active, members, retries) ==
    /\ grp' \in [Groups -> GroupRecs]
    /\ \A f \in Groups : f # g => grp'[f] = grp[f]
    /\ grp'[g].ref = ref /\ grp'[g].state = state /\ grp'[g].pending = pending
    /\ grp'[g].active = active /\ grp'[g].members = members /\ grp'[g].retries = retries

MemStep(m, ref, group, js, state, user, told) ==
    /\ mem' \in [Members -> MemberRecs]
    /\ \A n \in Members : n # m => mem'[n] = mem[n]
    /\ mem'[m].ref = ref /\ mem'[m].group = group /\ mem'[m].join_state = js
    /\ mem'[m].state = state /\ mem'[m].user = user /\ mem'[m].told = told

CtxStep(c, pc, g, m) ==
    /\ ctx' \in [Ctxs -> CtxRecs]
    /\ \A d \in Ctxs : d # c => ctx'[d] = ctx[d]
    /\ ctx'[c].pc = pc /\ ctx'[c].g = g /\ ctx'[c].m = m

QueryStep(g, op, m) ==
    /\ query' \in [Groups -> QueryRecs]
    /\ \A f \in Groups : f # g => query'[f] = query[f]
    /\ query'[g].op = op /\ query'[g].m = m

(* What the proofs need to know of finite sets. FiniteSetTheorems has it:  *)
(* the theorems are proved where that module is known, and these lemmas    *)
(* assume it.                                                              *)
FiniteSetFacts ==
    /\ IsFiniteSet({}) /\ \A x : Cardinality({x}) = 1
    /\ \A S : IsFiniteSet(S) => \A T \in SUBSET S : IsFiniteSet(T)
    /\ \A S : IsFiniteSet(S) =>
         /\ Cardinality(S) \in Nat /\ (Cardinality(S) = 0 <=> S = {})
         /\ \A x : IsFiniteSet(S \cup {x})
         /\ \A x : x \notin S => Cardinality(S \cup {x}) = Cardinality(S) + 1
         /\ \A x : x \in S => Cardinality(S \ {x}) = Cardinality(S) - 1

GroupFields == {"ref", "mgid", "state", "pending", "active", "members", "join_state", "pkey_index", "retries"}

MemberFields == {"ref", "group", "mgid", "join_state", "state", "user", "told"}

CtxFields == {"pc", "g", "m", "pk", "rec"}

QueryFields == {"op", "done", "mgid", "js", "m"}

IsGroup(r) ==
    /\ r = [x \in GroupFields |-> r[x]]
    /\ r.ref \in Int /\ r.mgid \in AllMgids \cup {Zero}
    /\ r.state \in {"IDLE", "BUSY", "GROUP_ERROR", "PKEY_EVENT"}
    /\ r.pending \in Seq(Members) /\ r.active \in SUBSET Members /\ r.members \in [Types -> Int]
    /\ r.join_state \in SUBSET Types /\ r.pkey_index \in PkeyIndices \cup {Null} /\ r.retries \in Int

IsMember(r) ==
    /\ r = [x \in MemberFields |-> r[x]]
    /\ r.ref \in Int /\ r.group \in Groups \cup {Null} /\ r.mgid \in AllMgids \cup {Zero}
    /\ r.join_state \in SUBSET Types
    /\ r.state \in {"JOINING", "MEMBER", "ERROR"}
    /\ r.user \in {"none", "acquired", "held", "free", "release", "wait"}
    /\ r.told \in {"nothing", "joined", "failed", "reset"}

IsCtx(r) ==
    /\ r = [x \in CtxFields |-> r[x]]
    /\ r.pc \in PCs /\ r.g \in Groups \cup {Null} /\ r.m \in Members \cup {Null}
    /\ r.pk \in PkeyIndices \cup {Null} /\ r.rec \in Records

IsQuery(r) ==
    /\ r = [x \in QueryFields |-> r[x]]
    /\ r.op \in {"none", "join", "leave"} /\ r.done \in BOOLEAN /\ r.mgid \in AllMgids \cup {Zero}
    /\ r.js \in SUBSET Types /\ r.m \in Members \cup {Null}

(* Contexts, members and queries: which fields are in use when. *)
Told == {"send", "cb", "wait", "errcb", "errwait"}   \* the context works for its member

Shape ==
    /\ \A c \in Ctxs :
         /\ ctx[c].pc = "idle" <=> ctx[c].g = Null
         /\ ctx[c].pc \in Told \cup {"joinerr"} <=> ctx[c].m # Null
    /\ \A g \in Groups : query[g].op = "join" => query[g].m # Null
    /\ \A m \in Members : mem[m].user = "none" <=> mem[m].group = Null
    /\ IsInjective(wq)

(* The members of each type, after m has joined or left. *)
Adjusted(ms, js, inc) == [i \in Types |-> IF i \in js THEN ms[i] + inc ELSE ms[i]]

InCtx(c, g) == ctx[c].g = g /\ ctx[c].pc \notin {"release", "retry"}

Holders(g) == {m \in Members : mem[m].group = g /\ mem[m].user # "wait"}

Leaving(g) == {c \in Ctxs : ctx[c].g = g /\ ctx[c].pc = "release"}

Users(m) == {c \in Ctxs : ctx[c].m = m /\ ctx[c].pc \notin {"wait", "errwait", "joinerr"}}

(* The state machine of a group is in one place, or idle ... *)
SerialAt(g) ==
    /\ grp[g].state = "IDLE" => Runs(g) = {}
    /\ grp[g].state # "IDLE" => \E p \in Runs(g) : Runs(g) = {p}

(* ... and the references are those of the members and of its runs. *)
RefAt(g) ==
    grp[g].ref = Cardinality(Holders(g)) + (IF grp[g].state = "IDLE" THEN 0 ELSE 1)
                 + Cardinality(Leaving(g))

GroupInv == \A g \in Groups : SerialAt(g) /\ RefAt(g)

(* The lists of a group have its members, each on one list. *)
ListAt(g) ==
    /\ IsInjective(grp[g].pending)
    /\ \A m \in Range(grp[g].pending) :
         /\ mem[m].group = g /\ mem[m].user \in {"held", "free"}
         /\ mem[m].state = "JOINING" /\ mem[m].told = "nothing"
    /\ \A m \in grp[g].active :
         mem[m].group = g /\ mem[m].user \in {"held", "free"} /\ mem[m].state = "MEMBER"

ListInv ==
    /\ \A g \in Groups : ListAt(g)
    /\ \A m \in Members :
         /\ mem[m].state = "MEMBER" /\ mem[m].user \in {"held", "free"} => m \in grp[mem[m].group].active
         /\ mem[m].user = "acquired" => mem[m].state = "JOINING" /\ mem[m].told = "nothing"

(* The references of a member are those of its user and of the contexts. *)
MemberAt(m) ==
    /\ mem[m].ref = Cardinality(Users(m)) + IF mem[m].user \in {"none", "wait"} THEN 0 ELSE 1
    /\ mem[m].user = "none" => mem[m].ref = 0

MemberInv == \A m \in Members : MemberAt(m)

(* What a context that works for a member knows of it. *)
WorkAt(c) ==
    ctx[c].pc \in Told =>
       /\ mem[ctx[c].m].group = ctx[c].g /\ mem[ctx[c].m].user \notin {"none", "acquired"}
       /\ ctx[c].pc = "send" => mem[ctx[c].m].state = "JOINING" /\ mem[ctx[c].m].told = "nothing"
       /\ ctx[c].pc = "cb" =>
            mem[ctx[c].m].told = "nothing" /\ ctx[c].m \notin Range(grp[ctx[c].g].pending)
       /\ ctx[c].pc = "errcb" => mem[ctx[c].m].told = "joined" /\ mem[ctx[c].m].state = "ERROR"

WorkInv ==
    /\ \A c \in Ctxs : WorkAt(c)
    /\ \A g \in Groups : \A m \in grp[g].active :
         mem[m].told = "joined" \/ \E c \in Ctxs : ctx[c].pc = "cb" /\ ctx[c].m = m

(* group->members counts the active members by type. *)
CountInv ==
    \A g \in Groups, i \in Types :
       grp[g].members[i] = Cardinality({m \in grp[g].active : i \in mem[m].join_state})

(* The references of the port. *)
PortInv ==
    /\ pref = Cardinality(Live) + IF rem \in {"no", "flush"} THEN 1 ELSE 0
    /\ rem = "done" => Live = {}

(* Two contexts can retry a leave at the same time. *)
Retrying(c, g) == ctx[c].g = g /\ ctx[c].pc \in {"releave", "retry"}

RetryInv ==
    /\ ctx["wq"].pc \notin {"releave", "retry"}
    /\ \A g \in Groups :
         /\ grp[g].retries \in -1..Retries
         /\ \A c \in Ctxs : Retrying(c, g) => grp[g].retries >= 0
         /\ Retrying("recv", g) /\ Retrying("timeout", g) => grp[g].retries >= 1

(* Context c uses member n. *)
Uses(c, n) == ctx[c].m = n /\ ctx[c].pc \notin {"wait", "errwait", "joinerr"}

(* queue_work and release_group. *)
Queued(g) == wq' \in Seq(Groups) /\ IsInjective(wq') /\ Range(wq') = Range(wq) \cup {g}
Released(g) ==
    \/ /\ grp[g].ref = 1 /\ pref' = pref - 1
       /\ GrpStep(g, 0, "IDLE", <<>>, {}, [i \in Types |-> 0], Retries)
    \/ /\ grp[g].ref # 1 /\ pref' = pref
       /\ GrpStep(g, grp[g].ref - 1, grp[g].state, grp[g].pending, grp[g].active,
                  grp[g].members, grp[g].retries)

JoinEffect(m, js) ==
    /\ Typed' /\ mem[m].user = "none" /\ rem = "no"
    /\ UNCHANGED <<ctx, wq, query, fabric, rem, flushing>>
    /\ \E g \in Groups :
         /\ MemStep(m, 1, g, js, "JOINING", "acquired", "nothing")
         /\ \/ /\ grp[g].ref > 0 /\ pref' = pref
               /\ GrpStep(g, grp[g].ref + 1, grp[g].state, grp[g].pending, grp[g].active,
                          grp[g].members, grp[g].retries)
            \/ /\ ~(grp[g].ref > 0) /\ pref' = pref + 1
               /\ GrpStep(g, 1, "IDLE", <<>>, {}, [i \in Types |-> 0], Retries)

QueueJoinEffect(m, g) ==
    /\ Typed' /\ g \in Groups /\ mem[m].user = "acquired"
    /\ MemStep(m, mem[m].ref, g, mem[m].join_state, mem[m].state, "held", mem[m].told)
    /\ \/ /\ grp[g].state = "IDLE" /\ Queued(g)
          /\ GrpStep(g, grp[g].ref + 1, "BUSY", Append(grp[g].pending, m), grp[g].active,
                     grp[g].members, grp[g].retries)
       \/ /\ grp[g].state # "IDLE" /\ wq' = wq
          /\ GrpStep(g, grp[g].ref, grp[g].state, Append(grp[g].pending, m), grp[g].active,
                     grp[g].members, grp[g].retries)
    /\ UNCHANGED <<ctx, query, fabric, port, flushing>>

FreeEffect(m, g, ms) ==
    /\ Typed' /\ g \in Groups /\ mem[m].user \in {"held", "free"}
    /\ \/ /\ grp[g].state = "IDLE" /\ Queued(g)
          /\ GrpStep(g, grp[g].ref, "BUSY", Without(grp[g].pending, m), grp[g].active \ {m},
                     ms, grp[g].retries)
          /\ MemStep(m, mem[m].ref - 1, g, mem[m].join_state, mem[m].state, "wait", mem[m].told)
       \/ /\ grp[g].state # "IDLE" /\ wq' = wq
          /\ GrpStep(g, grp[g].ref, grp[g].state, Without(grp[g].pending, m), grp[g].active \ {m},
                     ms, grp[g].retries)
          /\ MemStep(m, mem[m].ref, g, mem[m].join_state, mem[m].state, "release", mem[m].told)
    /\ UNCHANGED <<ctx, query, fabric, port, flushing>>

FreeReleaseEffect(m, g) ==
    /\ Typed' /\ g \in Groups /\ mem[m].user = "release" /\ Released(g)
    /\ MemStep(m, mem[m].ref - 1, g, mem[m].join_state, mem[m].state, "wait", mem[m].told)
    /\ UNCHANGED <<ctx, wq, query, fabric, rem, flushing>>

KfreeEffect(m) ==
    /\ Typed' /\ mem[m].user = "wait" /\ mem[m].ref = 0
    /\ MemStep(m, 0, Null, {}, "JOINING", "none", "nothing")
    /\ \A c \in Ctxs :
         \/ /\ ctx[c].m = m /\ ctx[c].pc = "wait"
            /\ ctx'[c].pc = "test" /\ ctx'[c].m = Null /\ ctx'[c].g = ctx[c].g
         \/ /\ ctx[c].m = m /\ ctx[c].pc = "errwait"
            /\ ctx'[c].pc = "errnext" /\ ctx'[c].m = Null /\ ctx'[c].g = ctx[c].g
         \/ ctx'[c] = ctx[c] /\ ~(ctx[c].m = m /\ ctx[c].pc \in {"wait", "errwait"})
    /\ UNCHANGED <<grp, wq, query, fabric, port, flushing>>

WorkStartEffect ==
    /\ Typed' /\ ctx["wq"].pc = "idle" /\ wq # <<>> /\ wq' = Tail(wq)
    /\ CtxStep("wq", "test", Head(wq), Null)
    /\ UNCHANGED <<grp, mem, query, fabric, port, flushing>>

HandlerEffect(c, g, m) ==
    /\ Typed' /\ g \in Groups /\ ctx[c].pc = "test"
    /\ UNCHANGED <<wq, query, fabric, port, flushing>>
    /\ \/ /\ grp[g].state # "BUSY" /\ CtxStep(c, "err", g, Null)
          /\ UNCHANGED <<grp, mem>>
       \/ /\ grp[g].state = "BUSY" /\ grp[g].pending # <<>> /\ m \in Members
          /\ CtxStep(c, "cb", g, m)
          /\ GrpStep(g, grp[g].ref, "BUSY", Without(grp[g].pending, m), grp[g].active \cup {m},
                     Adjusted(grp[g].members, mem[m].join_state, 1), grp[g].retries)
          /\ MemStep(m, mem[m].ref + 1, mem[m].group, mem[m].join_state, "MEMBER",
                     mem[m].user, mem[m].told)
       \/ /\ grp[g].state = "BUSY" /\ grp[g].pending # <<>> /\ m \in Members
          /\ CtxStep(c, "cb", g, m)
          /\ GrpStep(g, grp[g].ref, "BUSY", Without(grp[g].pending, m), grp[g].active \ {m},
                     grp[g].members, grp[g].retries)
          /\ MemStep(m, mem[m].ref + 1, mem[m].group, mem[m].join_state, mem[m].state,
                     mem[m].user, mem[m].told)
       \/ /\ grp[g].state = "BUSY" /\ grp[g].pending # <<>> /\ m \in Members
          /\ CtxStep(c, "send", g, m) /\ grp' = grp
          /\ MemStep(m, mem[m].ref + 1, mem[m].group, mem[m].join_state, mem[m].state,
                     mem[m].user, mem[m].told)
       \/ /\ grp[g].state = "BUSY" /\ grp[g].pending = <<>> /\ mem' = mem
          /\ CtxStep(c, "leave", g, Null)
          /\ GrpStep(g, grp[g].ref, "BUSY", grp[g].pending, grp[g].active,
                     grp[g].members, grp[g].retries)
       \/ /\ grp[g].state = "BUSY" /\ grp[g].pending = <<>> /\ mem' = mem
          /\ CtxStep(c, "release", g, Null)
          /\ GrpStep(g, grp[g].ref, "IDLE", grp[g].pending, grp[g].active,
                     grp[g].members, grp[g].retries)

WorkReleaseEffect(c, g) ==
    /\ Typed' /\ g \in Groups /\ ctx[c].pc = "release" /\ Released(g)
    /\ CtxStep(c, "idle", Null, Null)
    /\ UNCHANGED <<mem, wq, query, fabric, rem>>

SendJoinEffect(c, g, m) ==
    /\ Typed' /\ g \in Groups /\ m \in Members /\ ctx[c].pc = "send"
    /\ UNCHANGED <<wq, fabric, port>>
    /\ \/ /\ QueryStep(g, "join", m) /\ CtxStep(c, "idle", Null, Null) /\ grp' = grp
          /\ MemStep(m, mem[m].ref - 1, mem[m].group, mem[m].join_state, mem[m].state,
                     mem[m].user, mem[m].told)
       \/ /\ CtxStep(c, "cb", g, m) /\ UNCHANGED <<query, mem>>
          /\ GrpStep(g, grp[g].ref, grp[g].state, Without(grp[g].pending, m), grp[g].active \ {m},
                     grp[g].members, grp[g].retries)

CallbackEffect(c, g, m, told) ==
    /\ Typed' /\ g \in Groups /\ m \in Members /\ ctx[c].pc \in {"cb", "errcb"}
    /\ UNCHANGED <<grp, wq, query, fabric, port, flushing>>
    /\ \/ /\ CtxStep(c, IF ctx[c].pc = "errcb" THEN "errnext" ELSE "test", g, Null)
          /\ MemStep(m, mem[m].ref - 1, mem[m].group, mem[m].join_state, mem[m].state,
                     mem[m].user, told)
       \/ /\ CtxStep(c, IF ctx[c].pc = "errcb" THEN "errwait" ELSE "wait", g, m)
          /\ mem[m].user = "held"
          /\ MemStep(m, mem[m].ref - 1, mem[m].group, mem[m].join_state, mem[m].state,
                     "free", told)

SendLeaveEffect(c, g) ==
    /\ Typed' /\ g \in Groups /\ UNCHANGED <<grp, mem, wq, fabric, port>>
    /\ ctx[c].pc \in {"leave", "releave"}
    /\ \/ /\ ctx[c].pc = "leave" /\ QueryStep(g, "leave", Null)
          /\ CtxStep(c, "idle", Null, Null)
       \/ /\ ctx[c].pc = "releave" /\ QueryStep(g, "leave", Null)
          /\ CtxStep(c, "retry", g, Null)
       \/ /\ query' = query /\ CtxStep(c, "test", g, Null)

ErrorEffect(c, g) ==
    /\ Typed' /\ g \in Groups /\ ctx[c].pc = "err" /\ CtxStep(c, "errlock", g, Null)
    /\ UNCHANGED <<grp, mem, wq, query, fabric, port, flushing>>

ErrorLockEffect(c, g) ==
    /\ Typed' /\ g \in Groups /\ ctx[c].pc = "errlock"
    /\ UNCHANGED <<mem, wq, query, fabric, port, flushing>>
    /\ \/ /\ grp[g].state = "PKEY_EVENT" /\ CtxStep(c, "test", g, Null)
          /\ GrpStep(g, grp[g].ref, "BUSY", grp[g].pending, grp[g].active,
                     grp[g].members, grp[g].retries)
       \/ grp' = grp /\ CtxStep(c, "errnext", g, Null)

ErrorNextEffect(c, g) ==
    /\ Typed' /\ g \in Groups /\ ctx[c].pc = "errnext"
    /\ UNCHANGED <<wq, query, fabric, port, flushing>>
    /\ \/ \E m \in Members :
            /\ m \in grp[g].active /\ CtxStep(c, "errcb", g, m)
            /\ GrpStep(g, grp[g].ref, grp[g].state, Without(grp[g].pending, m), grp[g].active \ {m},
                       Adjusted(grp[g].members, mem[m].join_state, -1), grp[g].retries)
            /\ MemStep(m, mem[m].ref + 1, mem[m].group, mem[m].join_state, "ERROR",
                       mem[m].user, mem[m].told)
       \/ /\ mem' = mem /\ CtxStep(c, "test", g, Null)
          /\ GrpStep(g, grp[g].ref, "BUSY", grp[g].pending, grp[g].active,
                     grp[g].members, grp[g].retries)

JoinErrorEffect(c, g, m) ==
    /\ Typed' /\ g \in Groups /\ m \in Members /\ ctx[c].pc = "joinerr"
    /\ UNCHANGED <<wq, query, fabric, port, flushing>>
    /\ \/ /\ grp[g].pending # <<>> /\ m = Head(grp[g].pending) /\ CtxStep(c, "cb", g, m)
          /\ GrpStep(g, grp[g].ref, grp[g].state, Without(grp[g].pending, m), grp[g].active \ {m},
                     grp[g].members, grp[g].retries)
          /\ MemStep(m, mem[m].ref + 1, mem[m].group, mem[m].join_state, mem[m].state,
                     mem[m].user, mem[m].told)
       \/ CtxStep(c, "test", g, Null) /\ UNCHANGED <<grp, mem>>

JoinHandlerEffect(c, g) ==
    /\ Typed' /\ ctx[c].pc = "idle" /\ query[g].op = "join"
    /\ UNCHANGED <<grp, mem, wq, fabric, port, flushing>>
    /\ QueryStep(g, "none", Null)
    /\ \/ query[g].m \in Members /\ CtxStep(c, "joinerr", g, query[g].m)
       \/ CtxStep(c, "joined", g, Null)

JoinRecordEffect(c, g) ==
    /\ Typed' /\ g \in Groups /\ ctx[c].pc = "joined" /\ CtxStep(c, "test", g, Null)
    /\ GrpStep(g, grp[g].ref, grp[g].state, grp[g].pending, grp[g].active,
               grp[g].members, grp[g].retries)
    /\ UNCHANGED <<mem, wq, query, fabric, port, flushing>>

LeaveHandlerEffect(c, g) ==
    /\ Typed' /\ ctx[c].pc = "idle" /\ query[g].op = "leave"
    /\ UNCHANGED <<grp, mem, wq, fabric, port, flushing>>
    /\ QueryStep(g, "none", Null)
    /\ \/ grp[g].retries > 0 /\ CtxStep(c, "releave", g, Null)
       \/ CtxStep(c, "test", g, Null)

LeaveRetryEffect(c, g) ==
    /\ Typed' /\ g \in Groups /\ ctx[c].pc = "retry" /\ CtxStep(c, "idle", Null, Null)
    /\ \/ ~(grp[g].ref > 0) /\ grp' = grp
       \/ GrpStep(g, grp[g].ref, grp[g].state, grp[g].pending, grp[g].active,
                  grp[g].members, grp[g].retries - 1)
    /\ UNCHANGED <<mem, wq, query, fabric, port>>

SaEffect(g) ==
    /\ Typed' /\ QueryStep(g, query[g].op, query[g].m)
    /\ UNCHANGED <<grp, mem, ctx, wq, port, flushing>>

EventEffect ==
    Typed' /\ UNCHANGED <<grp, mem, ctx, wq, query, port, flushing>>

GroupsEventEffect ==
    /\ Typed' /\ UNCHANGED <<mem, ctx, query, port, flushing>>
    /\ \/ UNCHANGED <<grp, wq>>
       \/ /\ \A g \in Groups : grp[g].ref > 0 =>
               /\ grp'[g].ref = IF grp[g].state = "IDLE" THEN grp[g].ref + 1 ELSE grp[g].ref
               /\ grp'[g].state # "IDLE" /\ grp'[g].pending = grp[g].pending
               /\ grp'[g].active = grp[g].active /\ grp'[g].members = grp[g].members
               /\ grp'[g].retries = grp[g].retries
          /\ \A g \in Groups : ~(grp[g].ref > 0) => grp'[g] = grp[g]
          /\ IsInjective(wq')
          /\ Range(wq') = Range(wq) \cup {g \in Groups : grp[g].ref > 0 /\ grp[g].state = "IDLE"}

RemoveEffect ==
    /\ Typed' /\ UNCHANGED <<grp, mem, ctx, wq, query, fabric>>
    /\ \/ rem = "no" /\ rem' = "flush" /\ pref' = pref
       \/ rem = "flush" /\ rem' = "wait" /\ pref' = pref - 1
       \/ rem = "wait" /\ rem' = "done" /\ pref' = pref /\ pref = 0

Effects ==
    \/ \E m \in Members : \E js : JoinEffect(m, js)
    \/ \E m \in Members : \E g, ms :
         /\ g = mem[m].group
         /\ ms = IF mem[m].state = "MEMBER"
                 THEN Adjusted(grp[g].members, mem[m].join_state, -1) ELSE grp[g].members
         /\ FreeEffect(m, g, ms)
    \/ \E m \in Members : \E g :
         g = mem[m].group /\ (QueueJoinEffect(m, g) \/ FreeReleaseEffect(m, g))
    \/ \E m \in Members : KfreeEffect(m)
    \/ WorkStartEffect
    \/ \E c \in Ctxs : \E g, m :
         g = ctx[c].g /\ m = Head(grp[g].pending) /\ HandlerEffect(c, g, m)
    \/ \E c \in Ctxs : \E g, m :
         g = ctx[c].g /\ m = ctx[c].m /\ (SendJoinEffect(c, g, m) \/ JoinErrorEffect(c, g, m))
    \/ \E c \in Ctxs : \E g, m, told :
         /\ g = ctx[c].g /\ m = ctx[c].m
         /\ told = IF ctx[c].pc = "errcb" THEN "reset"
                   ELSE IF mem[m].state = "MEMBER" THEN "joined" ELSE "failed"
         /\ CallbackEffect(c, g, m, told)
    \/ \E c \in Ctxs : \E g :
         /\ g = ctx[c].g
         /\ \/ WorkReleaseEffect(c, g) \/ SendLeaveEffect(c, g)
            \/ ErrorEffect(c, g) \/ ErrorLockEffect(c, g) \/ ErrorNextEffect(c, g)
            \/ JoinRecordEffect(c, g) \/ LeaveRetryEffect(c, g)
    \/ \E g \in Groups : SaEffect(g)
    \/ \E c \in {"recv", "timeout"}, g \in Groups : JoinHandlerEffect(c, g) \/ LeaveHandlerEffect(c, g)
    \/ EventEffect \/ GroupsEventEffect \/ RemoveEffect
    \/ UNCHANGED vars

============================================================================
