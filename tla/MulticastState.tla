-------------------------- MODULE MulticastState ---------------------------
(***************************************************************************)
(* The state of the multicast groups of one port: see Multicast.           *)
(***************************************************************************)
EXTENDS Integers, Sequences, Functions, FiniteSets

CONSTANTS
    Groups,      \* memory for struct mcast_group
    Members,     \* memory for struct mcast_member
    Types,       \* bits of a join state
    Zero,        \* mgid0
    PkeyIndices, \* where the P_Key of the groups can be in the P_Key table
    Retries,     \* the 3 of acquire_group
    Scenarios,   \* what may happen in a behaviour, see below
    Null         \* no index, no group, no member

(* A scenario has the join states and the MGIDs that users ask for, the    *)
(* MGIDs that the SA chooses for joins of mgid0, whether queries time out, *)
(* and the number of events of the port.                                   *)
ASSUME MulticastAssumption ==
    /\ IsFiniteSet(Types) /\ IsFiniteSet(Groups) /\ IsFiniteSet(Members)
    /\ Retries \in Nat \ {0}
    /\ Null \notin Groups \cup Members \cup PkeyIndices
    /\ \A s \in Scenarios :
         /\ s.join_states \subseteq (SUBSET Types) \ {{}}
         /\ s.mgids \cap s.new_mgids = {} /\ Zero \notin s.mgids \cup s.new_mgids
         /\ s.timeouts \in BOOLEAN /\ s.events \in Nat

VARIABLES
    scn,      \* the scenario of this behaviour
    grp,      \* struct mcast_group; a group with ref = 0 is free memory
    mem,      \* struct mcast_member, and how far its user is
    ctx,      \* progress of the state machine in each context
    wq,       \* groups whose work is queued on mcast_wq
    query,    \* the query that waits for the SA, per group; m is last_join
    sa,       \* join states the SA has for this port, per MGID
    pkey,     \* index of the P_Key in the cached table, or Null
    event,    \* event of the port that has not been dispatched yet
    events,   \* events that may still come
    pref,     \* port->refcount
    rem, flushing   \* progress of mcast_remove_one, work it flushes

vars == <<scn, grp, mem, ctx, wq, query, sa, pkey, event, events, pref, rem, flushing>>
fabric == <<scn, sa, pkey, event, events>>
port == <<pref, rem>>

Ctxs == {"wq", "recv", "timeout"}
AllMgids == scn.mgids \cup scn.new_mgids

FreeGroup ==
    [ref |-> 0, mgid |-> Zero, state |-> "IDLE", pending |-> <<>>, active |-> {},
     members |-> [i \in Types |-> 0], join_state |-> {}, pkey_index |-> Null,
     retries |-> Retries]
FreeMember ==
    [ref |-> 0, group |-> Null, mgid |-> Zero, join_state |-> {}, state |-> "JOINING",
     user |-> "none", told |-> "nothing"]
IdleCtx == [pc |-> "idle", g |-> Null, m |-> Null, pk |-> Null, rec |-> [mgid |-> Zero, js |-> {}]]
NoQuery == [op |-> "none", done |-> FALSE, mgid |-> Zero, js |-> {}, m |-> Null]

Live == {g \in Groups : grp[g].ref > 0}   \* the groups in port->table

(* The list s without m, which is on it once or not at all. *)
Without(s, m) ==
    LET k == CHOOSE i \in DOMAIN s : s[i] = m IN
    IF m \in Range(s) THEN SubSeq(s, 1, k - 1) \o SubSeq(s, k + 1, Len(s)) ELSE s

PCs == {"idle", "test", "release", "send", "cb", "wait", "leave", "releave",
        "retry", "err", "errlock", "errnext", "errcb", "errwait", "joined", "joinerr"}
Records == [mgid : AllMgids \cup {Zero}, js : SUBSET Types]

(* Where the state machine of g is: queued, running in a context, or       *)
(* waiting for the SA.                                                     *)
Runs(g) ==
    {c \in Ctxs : ctx[c].g = g /\ ctx[c].pc \notin {"release", "retry"}}
      \cup (IF g \in Range(wq) THEN {"queued"} ELSE {})
      \cup (IF query[g].op # "none" THEN {"query"} ELSE {})

============================================================================
