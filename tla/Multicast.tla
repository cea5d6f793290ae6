----------------------------- MODULE Multicast -----------------------------
(***************************************************************************)
(* Multicast groups of one port, drivers/infiniband/core/multicast.c: the  *)
(* joins of all local users of a group are serialised by one state machine *)
(* per group, which asks the subnet administrator (SA) to join and leave   *)
(* on behalf of all of them.                                               *)
(*                                                                         *)
(* The state machine runs in three contexts: the ordered workqueue         *)
(* mcast_wq, the polling of the MAD CQ, which delivers answers of the SA,  *)
(* and the timeouts of the MAD layer. Users join and free, and events of   *)
(* the port come at any time.                                              *)
(***************************************************************************)
EXTENDS MulticastState

Init ==
    /\ scn \in Scenarios
    /\ grp = [g \in Groups |-> FreeGroup]
    /\ mem = [m \in Members |-> FreeMember]
    /\ ctx = [c \in Ctxs |-> IdleCtx]
    /\ wq = <<>>
    /\ query = [g \in Groups |-> NoQuery]
    /\ sa = [mg \in AllMgids |-> {}]
    /\ pkey \in PkeyIndices
    /\ event = "none" /\ events = scn.events
    /\ pref = 1 /\ rem = "no" /\ flushing = {}

----------------------------------------------------------------------------
(* Helpers. *)

(* queue_work does nothing for work that is queued already. *)
queue_work(g) == wq' = IF g \in Range(wq) THEN wq ELSE Append(wq, g)

adjust_membership(r, js, inc) ==
    [r EXCEPT !.members = [i \in Types |-> IF i \in js THEN @[i] + inc ELSE @[i]]]

(* The types the group has joined and nobody uses. *)
get_leave_state(r) == {i \in r.join_state : r.members[i] = 0}

(* list_del_init of a member, whichever list it is on. *)
list_del(r, m) == [r EXCEPT !.pending = Without(@, m), !.active = @ \ {m}]

(* The elements of S as a list, in any order. *)
Orders(S) == Bijection(1..Cardinality(S), S)

(* release_group: the last reference erases the group from the table. *)
release_group(g) ==
    /\ grp' = [grp EXCEPT ![g] = IF @.ref = 1 THEN FreeGroup ELSE [grp[g] EXCEPT !.ref = @ - 1]]
    /\ pref' = IF grp[g].ref = 1 THEN pref - 1 ELSE pref

(* Context c goes to pc. *)
Goto(c, pc) == ctx' = [ctx EXCEPT ![c].pc = pc]

(* Context c is through with its group. *)
Finish(c) ==
    /\ ctx' = [ctx EXCEPT ![c] = IdleCtx]
    /\ flushing' = IF c = "wq" THEN flushing \ {ctx[c].g} ELSE flushing

----------------------------------------------------------------------------
(* Users. *)

(* acquire_group: find the group of mg, or insert a new one. *)
acquire_group(g, mg) ==
    \/ /\ g \in Live /\ grp[g].mgid = mg /\ mg # Zero
       /\ grp' = [grp EXCEPT ![g].ref = @ + 1]
       /\ UNCHANGED pref
    \/ /\ g \notin Live
       /\ mg # Zero => \A f \in Live : grp[f].mgid # mg
       /\ grp' = [grp EXCEPT ![g] = [FreeGroup EXCEPT !.mgid = mg, !.ref = 1]]
       /\ pref' = pref + 1

(* ib_sa_join_multicast up to queue_join. *)
ib_sa_join_multicast(m, mg, js) ==
    /\ mem[m].user = "none" /\ rem = "no"
    /\ \E g \in Groups :
         /\ acquire_group(g, mg)
         /\ mem' = [mem EXCEPT ![m] = [FreeMember EXCEPT !.ref = 1, !.group = g, !.mgid = mg,
                                         !.join_state = js, !.user = "acquired"]]
    /\ UNCHANGED <<ctx, wq, query, fabric, rem, flushing>>

(* Slip: the work is queued without a reference on the group. *)
BugQueueJoin(m) ==
    LET g == mem[m].group IN
    /\ mem[m].user = "acquired"
    /\ mem' = [mem EXCEPT ![m].user = "held"]
    /\ grp' = [grp EXCEPT ![g].pending = Append(@, m), ![g].state = IF @ = "IDLE" THEN "BUSY" ELSE @]
    /\ IF grp[g].state = "IDLE" THEN queue_work(g) ELSE UNCHANGED wq
    /\ UNCHANGED <<ctx, query, fabric, port, flushing>>

(* Slip: the state machine of an idle group is not started. *)
BugNoWork(m) ==
    LET g == mem[m].group IN
    /\ mem[m].user = "acquired"
    /\ mem' = [mem EXCEPT ![m].user = "held"]
    /\ grp' = [grp EXCEPT ![g].pending = Append(@, m)]
    /\ UNCHANGED <<ctx, wq, query, fabric, port, flushing>>

(* queue_join: the first request of an idle group starts its state machine. *)
queue_join(m) ==
    LET g == mem[m].group IN
    /\ mem[m].user = "acquired"
    /\ mem' = [mem EXCEPT ![m].user = "held"]
    /\ IF grp[g].state = "IDLE"
       THEN /\ grp' = [grp EXCEPT ![g].pending = Append(@, m), ![g].state = "BUSY", ![g].ref = @ + 1]
            /\ queue_work(g)
       ELSE /\ grp' = [grp EXCEPT ![g].pending = Append(@, m)]
            /\ UNCHANGED wq
    /\ UNCHANGED <<ctx, query, fabric, port, flushing>>

(* Slip: a member that never joined is taken off the count, too. *)
BugFree(m) ==
    LET g == mem[m].group
        r == list_del(adjust_membership(grp[g], mem[m].join_state, -1), m)
    IN
    /\ mem[m].user \in {"held", "free"}
    /\ IF r.state = "IDLE"
       THEN /\ grp' = [grp EXCEPT ![g] = [r EXCEPT !.state = "BUSY"]]
            /\ queue_work(g)
            /\ mem' = [mem EXCEPT ![m].ref = @ - 1, ![m].user = "wait"]
       ELSE /\ grp' = [grp EXCEPT ![g] = r]
            /\ mem' = [mem EXCEPT ![m].user = "release"]
            /\ UNCHANGED wq
    /\ UNCHANGED <<ctx, query, fabric, port, flushing>>

(* ib_sa_free_multicast under the lock of the group, called by the user or *)
(* for a callback that returned non-zero. An idle group is started, and    *)
(* takes over the reference of the member.                                 *)
ib_sa_free_multicast(m) ==
    LET g == mem[m].group
        r == list_del(IF mem[m].state = "MEMBER"
                      THEN adjust_membership(grp[g], mem[m].join_state, -1) ELSE grp[g], m)
    IN
    /\ mem[m].user \in {"held", "free"}
    /\ IF r.state = "IDLE"
       THEN /\ grp' = [grp EXCEPT ![g] = [r EXCEPT !.state = "BUSY"]]
            /\ queue_work(g)
            /\ mem' = [mem EXCEPT ![m].ref = @ - 1, ![m].user = "wait"]
       ELSE /\ grp' = [grp EXCEPT ![g] = r]
            /\ mem' = [mem EXCEPT ![m].user = "release"]
            /\ UNCHANGED wq
    /\ UNCHANGED <<ctx, query, fabric, port, flushing>>

(* release_group and deref_member. *)
free_release(m) ==
    /\ mem[m].user = "release"
    /\ release_group(mem[m].group)
    /\ mem' = [mem EXCEPT ![m].ref = @ - 1, ![m].user = "wait"]
    /\ UNCHANGED <<ctx, wq, query, fabric, rem, flushing>>

(* Slip: the member is freed without waiting for running callbacks. *)
BugKfree(m) ==
    /\ mem[m].user = "wait"
    /\ mem' = [mem EXCEPT ![m] = FreeMember]
    /\ ctx' = [c \in Ctxs |->
                 IF ctx[c].m = m /\ ctx[c].pc = "wait" THEN [ctx[c] EXCEPT !.pc = "test", !.m = Null]
                 ELSE IF ctx[c].m = m /\ ctx[c].pc = "errwait"
                 THEN [ctx[c] EXCEPT !.pc = "errnext", !.m = Null] ELSE ctx[c]]
    /\ UNCHANGED <<grp, wq, query, fabric, port, flushing>>

(* wait_for_completion and kfree; the caller goes on. *)
free_kfree(m) ==
    /\ mem[m].user = "wait" /\ mem[m].ref = 0
    /\ mem' = [mem EXCEPT ![m] = FreeMember]
    /\ ctx' = [c \in Ctxs |->
                 IF ctx[c].m = m /\ ctx[c].pc = "wait" THEN [ctx[c] EXCEPT !.pc = "test", !.m = Null]
                 ELSE IF ctx[c].m = m /\ ctx[c].pc = "errwait"
                 THEN [ctx[c] EXCEPT !.pc = "errnext", !.m = Null] ELSE ctx[c]]
    /\ UNCHANGED <<grp, wq, query, fabric, port, flushing>>

----------------------------------------------------------------------------
(* The state machine: mcast_work_handler and process_group_error.          *)

(* mcast_wq takes the next item. *)
work_start ==
    /\ ctx["wq"].pc = "idle" /\ wq # <<>>
    /\ ctx' = [ctx EXCEPT !["wq"] = [IdleCtx EXCEPT !.pc = "test", !.g = Head(wq)]]
    /\ wq' = Tail(wq)
    /\ UNCHANGED <<grp, mem, query, fabric, port, flushing>>

(* The oldest request is granted at once: the group has its types ... *)
join_group(g, m) ==
    /\ grp' = [grp EXCEPT ![g] = [adjust_membership(grp[g], mem[m].join_state, 1)
                                     EXCEPT !.pending = Without(@, m), !.active = @ \cup {m}]]
    /\ mem' = [mem EXCEPT ![m].ref = @ + 1, ![m].state = "MEMBER", ![m].mgid = grp[g].mgid]

(* ... or it fails: cmp_rec finds a field of its record that is not as in  *)
(* the record of the group. The fields are not part of the model.          *)
cmp_rec_fails(g, m) ==
    /\ grp' = [grp EXCEPT ![g] = list_del(@, m)]
    /\ mem' = [mem EXCEPT ![m].ref = @ + 1]

(* One turn of the loop, under the lock: an event first, then the oldest   *)
(* request, then the types to leave; with nothing to do the group is idle. *)
mcast_work_handler(c) ==
    LET g == ctx[c].g
        m == Head(grp[g].pending)
    IN
    /\ ctx[c].pc = "test"
    /\ \/ /\ grp[g].state # "BUSY"
          /\ Goto(c, "err")
          /\ UNCHANGED <<grp, mem>>
       \/ /\ grp[g].state = "BUSY" /\ grp[g].pending # <<>>
          /\ \/ /\ mem[m].join_state \subseteq grp[g].join_state
                /\ join_group(g, m) \/ cmp_rec_fails(g, m)
                /\ ctx' = [ctx EXCEPT ![c].pc = "cb", ![c].m = m]
             \/ /\ ~(mem[m].join_state \subseteq grp[g].join_state)
                /\ mem' = [mem EXCEPT ![m].ref = @ + 1]
                /\ ctx' = [ctx EXCEPT ![c].pc = "send", ![c].m = m]
                /\ UNCHANGED grp
       \/ /\ grp[g].state = "BUSY" /\ grp[g].pending = <<>>
          /\ IF get_leave_state(grp[g]) # {}
             THEN /\ grp' = [grp EXCEPT ![g].join_state = @ \ get_leave_state(grp[g])]
                  /\ ctx' = [ctx EXCEPT ![c].pc = "leave", ![c].rec.js = get_leave_state(grp[g])]
             ELSE grp' = [grp EXCEPT ![g].state = "IDLE"] /\ Goto(c, "release")
          /\ UNCHANGED mem
    /\ UNCHANGED <<wq, query, fabric, port, flushing>>

(* Slip: the reference of the run is not dropped. *)
BugWorkRelease(c) ==
    /\ ctx[c].pc = "release"
    /\ Finish(c)
    /\ UNCHANGED <<grp, mem, wq, query, fabric, port>>

(* release_group at the end of the loop. *)
work_release(c) ==
    /\ ctx[c].pc = "release"
    /\ release_group(ctx[c].g)
    /\ Finish(c)
    /\ UNCHANGED <<mem, wq, query, fabric, rem>>

(* send_join, with the record of the member, and deref_member; or          *)
(* fail_join when the query cannot be sent.                                *)
send_join(c) ==
    LET g == ctx[c].g
        m == ctx[c].m
    IN
    /\ ctx[c].pc = "send"
    /\ \/ /\ query' = [query EXCEPT ![g] = [op |-> "join", done |-> FALSE, mgid |-> mem[m].mgid,
                                             js |-> mem[m].join_state, m |-> m]]
          /\ mem' = [mem EXCEPT ![m].ref = @ - 1]
          /\ Finish(c)
          /\ UNCHANGED grp
       \/ /\ grp' = [grp EXCEPT ![g] = list_del(@, m)]
          /\ Goto(c, "cb")
          /\ UNCHANGED <<query, mem, flushing>>
    /\ UNCHANGED <<wq, fabric, port>>

(* The callback of the user, deref_member, and ib_sa_free_multicast when   *)
(* the callback returned non-zero; a user who frees the member anyway does *)
(* not ask for that.                                                       *)
callback(c) ==
    LET m == ctx[c].m
        err == ctx[c].pc = "errcb"
        told == IF err THEN "reset" ELSE IF mem[m].state = "MEMBER" THEN "joined" ELSE "failed"
    IN
    /\ ctx[c].pc \in {"cb", "errcb"}
    /\ \/ /\ mem' = [mem EXCEPT ![m].ref = @ - 1, ![m].told = told]
          /\ ctx' = [ctx EXCEPT ![c].pc = IF err THEN "errnext" ELSE "test", ![c].m = Null]
       \/ /\ mem[m].user = "held"
          /\ mem' = [mem EXCEPT ![m].ref = @ - 1, ![m].told = told,
                                    ![m].user = "free"]
          /\ Goto(c, IF err THEN "errwait" ELSE "wait")
    /\ UNCHANGED <<grp, wq, query, fabric, port, flushing>>

(* send_leave; when the query cannot be sent the loop goes on. A retry by  *)
(* leave_handler touches the group once more.                              *)
send_leave(c) ==
    LET g == ctx[c].g
        L == ctx[c].rec.js
    IN
    /\ ctx[c].pc \in {"leave", "releave"}
    /\ \/ /\ query' = [query EXCEPT ![g] = [op |-> "leave", done |-> FALSE, mgid |-> grp[g].mgid,
                                             js |-> L, m |-> Null]]
          /\ IF ctx[c].pc = "leave" THEN Finish(c) ELSE Goto(c, "retry") /\ UNCHANGED flushing
       \/ /\ ctx' = [ctx EXCEPT ![c].pc = "test", ![c].rec.js = {}]
          /\ UNCHANGED <<query, flushing>>
    /\ UNCHANGED <<grp, mem, wq, fabric, port>>

(* process_group_error looks the P_Key up before it takes the lock. *)
process_group_error(c) ==
    /\ ctx[c].pc = "err"
    /\ ctx' = [ctx EXCEPT ![c].pc = "errlock",
                          ![c].pk = IF grp[ctx[c].g].state = "PKEY_EVENT" THEN pkey ELSE Null]
    /\ UNCHANGED <<grp, mem, wq, query, fabric, port, flushing>>

(* Nothing to do when the P_Key is where it was. *)
error_lock(c) ==
    LET g == ctx[c].g IN
    /\ ctx[c].pc = "errlock"
    /\ IF grp[g].state = "PKEY_EVENT" /\ ctx[c].pk # Null /\ grp[g].pkey_index = ctx[c].pk
       THEN grp' = [grp EXCEPT ![g].state = "BUSY"] /\ Goto(c, "test")
       ELSE Goto(c, "errnext") /\ UNCHANGED grp
    /\ UNCHANGED <<mem, wq, query, fabric, port, flushing>>

(* Slip: the group is thought to be still joined with the SA. *)
BugErrorNext(c) ==
    LET g == ctx[c].g IN
    /\ ctx[c].pc = "errnext"
    /\ \/ \E m \in grp[g].active :
            /\ grp' = [grp EXCEPT ![g] = list_del(adjust_membership(@, mem[m].join_state, -1), m)]
            /\ mem' = [mem EXCEPT ![m].ref = @ + 1, ![m].state = "ERROR"]
            /\ ctx' = [ctx EXCEPT ![c].pc = "errcb", ![c].m = m]
       \/ /\ grp[g].active = {}
          /\ grp' = [grp EXCEPT ![g].state = "BUSY"]
          /\ ctx' = [ctx EXCEPT ![c].pc = "test", ![c].pk = Null]
          /\ UNCHANGED mem
    /\ UNCHANGED <<wq, query, fabric, port, flushing>>

(* One turn of the loop over the active members, each is told; then the    *)
(* group counts as not joined. Their order does not matter.                *)
error_next(c) ==
    LET g == ctx[c].g IN
    /\ ctx[c].pc = "errnext"
    /\ \/ \E m \in grp[g].active :
            /\ grp' = [grp EXCEPT ![g] = list_del(adjust_membership(@, mem[m].join_state, -1), m)]
            /\ mem' = [mem EXCEPT ![m].ref = @ + 1, ![m].state = "ERROR"]
            /\ ctx' = [ctx EXCEPT ![c].pc = "errcb", ![c].m = m]
       \/ /\ grp[g].active = {}
          /\ grp' = [grp EXCEPT ![g].state = "BUSY", ![g].join_state = {}]
          /\ ctx' = [ctx EXCEPT ![c].pc = "test", ![c].pk = Null]
          /\ UNCHANGED mem
    /\ UNCHANGED <<wq, query, fabric, port, flushing>>

----------------------------------------------------------------------------
(* The SA and the callbacks of its queries. One that is not processed or   *)
(* answered in time ends in a timeout; the SA does not process it later.   *)

(* The SA answers a join with all types it has for the port now. It gives  *)
(* a request for mgid0 an MGID without members. A group here could have    *)
(* that MGID, too, after a leave; join_record would not notice.            *)
SaJoin(g, mg) ==
    /\ query[g].op = "join"
    /\ IF query[g].mgid = Zero
       THEN /\ mg \in scn.new_mgids /\ sa[mg] = {}
            /\ \A f \in Live \ {g} : grp[f].mgid # mg
       ELSE mg = query[g].mgid
    /\ sa' = [sa EXCEPT ![mg] = @ \cup query[g].js]
    /\ query' = [query EXCEPT ![g] = [@ EXCEPT !.done = TRUE, !.mgid = mg, !.js = sa'[mg]]]

SaLeave(g) ==
    /\ query[g].op = "leave"
    /\ sa' = [sa EXCEPT ![query[g].mgid] = @ \ query[g].js]
    /\ query' = [query EXCEPT ![g].done = TRUE]

SaProcess(g) ==
    /\ ~query[g].done
    /\ (\E mg \in AllMgids : SaJoin(g, mg)) \/ SaLeave(g)
    /\ UNCHANGED <<grp, mem, ctx, wq, scn, pkey, event, events, port, flushing>>

(* The answer, or in the other context the timeout, ends a query. The SA   *)
(* refuses what it does not process.                                       *)
Answered(c, g, op) ==
    ctx[c].pc = "idle" /\ query[g].op = op /\ (c = "timeout" => scn.timeouts)
Failed(c, g) == c = "timeout" \/ ~query[g].done

(* Slip: the failed request stays in the queue. *)
BugJoinError(c) ==
    LET g == ctx[c].g
        m == Head(grp[g].pending)
    IN
    /\ ctx[c].pc = "joinerr"
    /\ IF grp[g].pending # <<>> /\ m = ctx[c].m
       THEN /\ mem' = [mem EXCEPT ![m].ref = @ + 1]
            /\ ctx' = [ctx EXCEPT ![c].pc = "cb", ![c].m = m]
       ELSE ctx' = [ctx EXCEPT ![c].pc = "test", ![c].m = Null] /\ UNCHANGED mem
    /\ UNCHANGED <<grp, wq, query, fabric, port, flushing>>

(* process_join_error: the request is failed if it is still the oldest. *)
process_join_error(c) ==
    LET g == ctx[c].g
        m == Head(grp[g].pending)
    IN
    /\ ctx[c].pc = "joinerr"
    /\ IF grp[g].pending # <<>> /\ m = ctx[c].m
       THEN /\ grp' = [grp EXCEPT ![g] = list_del(@, m)]
            /\ mem' = [mem EXCEPT ![m].ref = @ + 1]
            /\ ctx' = [ctx EXCEPT ![c].pc = "cb", ![c].m = m]
       ELSE ctx' = [ctx EXCEPT ![c].pc = "test", ![c].m = Null] /\ UNCHANGED <<grp, mem>>
    /\ UNCHANGED <<wq, query, fabric, port, flushing>>

(* join_handler up to the lock; the P_Key is looked up before it. *)
join_handler(c, g) ==
    /\ Answered(c, g, "join")
    /\ ctx' = [ctx EXCEPT ![c] =
          IF Failed(c, g) THEN [IdleCtx EXCEPT !.pc = "joinerr", !.g = g, !.m = query[g].m]
          ELSE [IdleCtx EXCEPT !.pc = "joined", !.g = g, !.pk = pkey,
                               !.rec = [mgid |-> query[g].mgid, js |-> query[g].js]]]
    /\ query' = [query EXCEPT ![g] = NoQuery]
    /\ UNCHANGED <<grp, mem, wq, fabric, port, flushing>>

(* The record of the SA becomes that of the group, which may get its MGID. *)
join_record(c) ==
    LET g == ctx[c].g IN
    /\ ctx[c].pc = "joined"
    /\ grp' = [grp EXCEPT ![g].join_state = ctx[c].rec.js, ![g].mgid = ctx[c].rec.mgid,
                  ![g].pkey_index = IF @ = Null /\ grp[g].state = "BUSY" THEN ctx[c].pk ELSE @]
    /\ ctx' = [ctx EXCEPT ![c] = [IdleCtx EXCEPT !.pc = "test", !.g = g]]
    /\ UNCHANGED <<mem, wq, query, fabric, port, flushing>>

(* leave_handler: a failed leave is sent again while retries are left. *)
leave_handler(c, g) ==
    /\ Answered(c, g, "leave")
    /\ ctx' = [ctx EXCEPT ![c] =
          IF Failed(c, g) /\ grp[g].retries > 0
          THEN [IdleCtx EXCEPT !.pc = "releave", !.g = g, !.rec.js = query[g].js]
          ELSE [IdleCtx EXCEPT !.pc = "test", !.g = g]]
    /\ query' = [query EXCEPT ![g] = NoQuery]
    /\ UNCHANGED <<grp, mem, wq, fabric, port, flushing>>

(* group->retries-- comes after the query was sent. *)
leave_retry(c) ==
    LET g == ctx[c].g IN
    /\ ctx[c].pc = "retry"
    /\ grp' = IF g \in Live THEN [grp EXCEPT ![g].retries = @ - 1] ELSE grp
    /\ Finish(c)
    /\ UNCHANGED <<mem, wq, query, fabric, port>>

----------------------------------------------------------------------------
(* Events of the port, and removal of the device. *)

(* The SA forgets its members, or the port had an error. *)
port_error ==
    /\ event = "none" /\ events > 0
    /\ event' = "GROUP_ERROR" /\ events' = events - 1
    /\ sa' \in {sa, [mg \in AllMgids |-> {}]}
    /\ UNCHANGED <<grp, mem, ctx, wq, query, scn, pkey, port, flushing>>

pkey_change ==
    /\ event = "none" /\ events > 0
    /\ event' = "PKEY_EVENT" /\ events' = events - 1
    /\ pkey' \in PkeyIndices \cup {Null}
    /\ UNCHANGED <<grp, mem, ctx, wq, query, scn, sa, port, flushing>>

(* mcast_groups_event for one group. *)
Hit(r, st) ==
    [r EXCEPT !.ref = IF r.state = "IDLE" THEN @ + 1 ELSE @,
              !.state = IF @ = "GROUP_ERROR" THEN @ ELSE st]

(* Slip: work is queued for busy groups, too. *)
BugGroupsEvent ==
    /\ event # "none"
    /\ event' = "none"
    /\ IF rem = "no"
       THEN /\ grp' = [g \in Groups |-> IF g \in Live THEN Hit(grp[g], event) ELSE grp[g]]
            /\ \E new \in Orders(Live \ Range(wq)) : wq' = wq \o new
       ELSE UNCHANGED <<grp, wq>>
    /\ UNCHANGED <<mem, ctx, query, scn, sa, pkey, events, port, flushing>>

(* Every group of the port gets the event; the idle ones are started. *)
mcast_groups_event ==
    /\ event # "none"
    /\ event' = "none"
    /\ IF rem = "no"
       THEN LET start == {g \in Live : grp[g].state = "IDLE"} IN
            /\ grp' = [g \in Groups |-> IF g \in Live THEN Hit(grp[g], event) ELSE grp[g]]
            /\ \E new \in Orders(start \ Range(wq)) : wq' = wq \o new
       ELSE UNCHANGED <<grp, wq>>
    /\ UNCHANGED <<mem, ctx, query, scn, sa, pkey, events, port, flushing>>

(* mcast_remove_one: no more events, flush what is queued or running ...   *)
(* The users are clients that were registered later, so the core has       *)
(* removed them already, and they have freed their members.                *)
mcast_remove_one ==
    /\ rem = "no" /\ \A m \in Members : mem[m].user = "none"
    /\ rem' = "flush"
    /\ flushing' = Range(wq) \cup ({ctx["wq"].g} \ {Null})
    /\ UNCHANGED <<grp, mem, ctx, wq, query, fabric, pref>>

(* ... and drop the reference on the port ... *)
remove_deref ==
    /\ rem = "flush" /\ flushing = {}
    /\ rem' = "wait"
    /\ pref' = pref - 1
    /\ UNCHANGED <<grp, mem, ctx, wq, query, fabric, flushing>>

(* Slip: wait_for_completion is forgotten. *)
BugRemoveEnd ==
    /\ rem = "wait"
    /\ rem' = "done"
    /\ UNCHANGED <<grp, mem, ctx, wq, query, fabric, pref, flushing>>

(* ... until the last group is gone. *)
remove_end ==
    /\ rem = "wait" /\ pref = 0
    /\ rem' = "done"
    /\ UNCHANGED <<grp, mem, ctx, wq, query, fabric, pref, flushing>>

----------------------------------------------------------------------------
(* Users learn an MGID of the SA from the group that has it. *)
Known == scn.mgids \cup (IF scn.new_mgids = {} THEN {} ELSE {Zero}) \cup {grp[g].mgid : g \in Live}

User(m) ==
    \/ \E mg \in Known, js \in scn.join_states : ib_sa_join_multicast(m, mg, js)
    \/ ib_sa_free_multicast(m)

UserSteps(m) == queue_join(m) \/ free_release(m) \/ free_kfree(m)

StateMachine(c) ==
    \/ mcast_work_handler(c) \/ work_release(c)
    \/ send_join(c) \/ callback(c) \/ send_leave(c)
    \/ process_group_error(c) \/ error_lock(c) \/ error_next(c)
    \/ process_join_error(c) \/ join_record(c) \/ leave_retry(c)

QueryEnds(g) == \E c \in {"recv", "timeout"} : join_handler(c, g) \/ leave_handler(c, g)

Next ==
    \/ \E m \in Members : User(m) \/ UserSteps(m)
    \/ work_start
    \/ \E c \in Ctxs : StateMachine(c)
    \/ \E g \in Groups : SaProcess(g) \/ QueryEnds(g)
    \/ port_error \/ pkey_change \/ mcast_groups_event
    \/ mcast_remove_one \/ remove_deref \/ remove_end

Spec == Init /\ [][Next]_vars

(* What is started is carried on: work items and callbacks run, a query is *)
(* answered or times out, events are dispatched. A user need not free what *)
(* it has, unless its callback asked for it.                               *)
Fairness ==
    /\ \A m \in Members :
         /\ WF_vars(UserSteps(m))
         /\ WF_vars(mem[m].user = "free" /\ ib_sa_free_multicast(m))
    /\ WF_vars(work_start)
    /\ \A c \in Ctxs : WF_vars(StateMachine(c))
    /\ \A g \in Groups : WF_vars(QueryEnds(g))
    /\ WF_vars(mcast_groups_event)
    /\ WF_vars(remove_deref) /\ WF_vars(remove_end)

FairSpec == Spec /\ Fairness

----------------------------------------------------------------------------
(* Properties. *)

(* Every variable has the type the code gives it. *)
TypeOK ==
    /\ grp \in [Groups ->
         [ref : Nat, mgid : AllMgids \cup {Zero}, state : {"IDLE", "BUSY", "GROUP_ERROR", "PKEY_EVENT"},
          pending : Seq(Members), active : SUBSET Members, members : [Types -> Nat],
          join_state : SUBSET Types, pkey_index : PkeyIndices \cup {Null},
          retries : -1..Retries]]
    /\ mem \in [Members ->
         [ref : Nat, group : Groups \cup {Null}, mgid : AllMgids \cup {Zero},
          join_state : SUBSET Types, state : {"JOINING", "MEMBER", "ERROR"},
          user : {"none", "acquired", "held", "free", "release", "wait"},
          told : {"nothing", "joined", "failed", "reset"}]]
    /\ ctx \in [Ctxs -> [pc : PCs, g : Groups \cup {Null}, m : Members \cup {Null},
                         pk : PkeyIndices \cup {Null}, rec : Records]]
    /\ wq \in Seq(Groups)
    /\ query \in [Groups -> [op : {"none", "join", "leave"}, done : BOOLEAN,
                             mgid : AllMgids \cup {Zero}, js : SUBSET Types,
                             m : Members \cup {Null}]]
    /\ sa \in [AllMgids -> SUBSET Types] /\ pkey \in PkeyIndices \cup {Null}
    /\ event \in {"none", "GROUP_ERROR", "PKEY_EVENT"} /\ events \in 0..scn.events
    /\ pref \in Nat /\ rem \in {"no", "flush", "wait", "done"} /\ flushing \subseteq Groups

(* "We serialize all join requests to a single group": the state machine   *)
(* of a group runs in one place at a time, and in none when it is idle.    *)
Serialized ==
    \A g \in Groups : Cardinality(Runs(g)) = IF grp[g].state = "IDLE" THEN 0 ELSE 1

(* The refcount of a group is the number of its members, of runs of its    *)
(* state machine and of runs about to drop their reference: it is freed    *)
(* when the last of them is through, not before and not later.             *)
GroupRefIsExact ==
    \A g \in Groups :
       grp[g].ref = Cardinality({m \in Members : mem[m].group = g /\ mem[m].user # "wait"})
                    + Cardinality(Runs(g))
                    + Cardinality({c \in Ctxs : ctx[c].g = g /\ ctx[c].pc = "release"})

(* ib_sa_free_multicast returns when no callback runs or will run: the     *)
(* refcount of a member counts its user and the contexts that use it.      *)
MemberRefIsExact ==
    \A m \in Members :
       mem[m].ref = Cardinality({c \in Ctxs : ctx[c].m = m /\ ctx[c].pc \notin {"wait", "errwait", "joinerr"}})
                    + (IF mem[m].user \in {"none", "wait"} THEN 0 ELSE 1)

(* A user that was told it has joined, and not told otherwise, is joined   *)
(* with the SA, unless an event that says otherwise is on its way to it.   *)
ActiveIsJoined ==
    \A g \in Groups : \A m \in grp[g].active :
       event = "none" /\ grp[g].state \in {"IDLE", "BUSY"}
         => mem[m].join_state \subseteq sa[grp[g].mgid]

(* A user gets one result of its join, and one reset after a success.      *)
ToldOnce ==
    \A c \in Ctxs :
       /\ ctx[c].pc = "cb" => mem[ctx[c].m].told = "nothing"
       /\ ctx[c].pc = "errcb" => mem[ctx[c].m].told = "joined"

(* kfree(dev) at the end of mcast_remove_one: no group, queued work or     *)
(* query refers to the port any more.                                      *)
RemovalWaitsForAll ==
    rem = "done" => Live = {} /\ wq = <<>> /\ \A g \in Groups : query[g].op = "none"

(* Every join is answered. *)
JoinAnswered ==
    \A m \in Members :
       mem[m].user = "held" /\ mem[m].told = "nothing"
         ~> mem[m].user # "held" \/ mem[m].told # "nothing"

(* Removal of the device ends. *)
RemovalEnds == rem = "flush" ~> rem = "done"

(* "Continue to hold reference on group until callback": no handler        *)
(* touches a group that has been freed.                                    *)
GroupOutlivesHandlers == \A c \in Ctxs : ctx[c].g # Null => ctx[c].g \in Live

============================================================================
