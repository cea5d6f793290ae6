-------------------------------- MODULE Gsi --------------------------------
(***************************************************************************)
(* The GSI QP (QP1) of the mlx5 driver, drivers/infiniband/hw/mlx5/gsi.c:  *)
(* one software QP in front of one UD send QP per P_Key. The HCA completes *)
(* the send QPs in any order; a ring of outstanding work requests puts the *)
(* completions back in posting order and hands them as software generated  *)
(* work completions to the CQ of the MAD layer (hw/mlx5/cq.c), which a     *)
(* work item polls and re-arms (core/cq.c).                                *)
(***************************************************************************)
EXTENDS Integers, Sequences, Functions

CONSTANTS
    MaxSendWr,   \* gsi->cap.max_send_wr
    W,           \* number of values of a u32
    NumQps,      \* gsi->num_qps, at least 1: deth_sqpn is supported
    QPs,         \* UD QPs that can be created
    WrIds,       \* wr_cqe of the MAD layer, one per send buffer
    Batch,       \* IB_POLL_BATCH
    Budget,      \* IB_POLL_BUDGET_WORKQUEUE
    Null

ASSUME GsiAssumption ==
    /\ MaxSendWr \in Nat \ {0} /\ W \in Nat \ {0} /\ MaxSendWr < W
    /\ NumQps \in Nat \ {0} /\ Batch \in Nat \ {0} /\ Budget \in Nat \ {0}
    /\ Null \notin QPs

VARIABLES
    pi, ci,      \* gsi->outstanding_pi, gsi->outstanding_ci
    wc,          \* outstanding_wrs[].mwc.wc
    completed,   \* slots with outstanding_wrs[].completed
    in_use,      \* slots with outstanding_wrs[].mwc.in_use
    gen,         \* gsi->lock is held by generate_completions
    tx_qps,      \* gsi->tx_qps
    made,        \* UD QPs created so far
    hw,          \* slots the HCA has to complete, per UD QP
    spc, sidx, sqp,    \* progress of setup_qp in its two callers
    wc_list,     \* cq->wc_list, as slots
    notify,      \* cq->notify_flags = IB_CQ_NEXT_COMP
    nwork,       \* cq->notify_work is queued
    work,        \* cq->ibcq.work is queued
    ppc, polled, \* progress of ib_cq_poll_work
    out          \* the completions mlx5_ib_poll_cq last returned

ring  == <<pi, ci, wc, completed, gen>>
setup == <<tx_qps, made, spc, sidx, sqp>>
cq    == <<wc_list, in_use, notify, nwork>>
poll  == <<work, ppc, polled, out>>
vars  == <<ring, setup, hw, cq, poll>>

Slots    == 0..(MaxSendWr - 1)
Callers  == {"modify_qp", "pkey_change"}
Statuses == {"SUCCESS", "ERR"}

Init ==
    /\ pi = 0 /\ ci = 0
    /\ wc \in [Slots -> {[id |-> Null, st |-> "SUCCESS"]}]
    /\ completed = {} /\ in_use = {} /\ gen = FALSE
    /\ tx_qps = [i \in 1..NumQps |-> Null] /\ made = {}
    /\ hw = [q \in QPs |-> <<>>]
    /\ spc = [a \in Callers |-> "idle"]
    /\ sidx = [a \in Callers |-> 1] /\ sqp = [a \in Callers |-> Null]
    /\ wc_list = <<>> /\ notify = TRUE /\ nwork = FALSE
    /\ work = FALSE /\ ppc = "idle" /\ polled = 0 /\ out = <<>>

----------------------------------------------------------------------------
(* Creation of the send QPs: mlx5_ib_gsi_modify_qp, when the MAD layer     *)
(* moves the QP to RTS, and pkey_change_handler, at any time.              *)

(* Slip: the loop runs to num_qps inclusive. *)
BugNextIndex(a) ==
    /\ spc' = [spc EXCEPT ![a] = IF sidx[a] > NumQps THEN "done" ELSE "setup"]
    /\ sidx' = [sidx EXCEPT ![a] = IF sidx[a] > NumQps THEN 1 ELSE @ + 1]

(* The loop over qp_index goes on, or ends. *)
NextIndex(a) ==
    /\ spc' = [spc EXCEPT ![a] = IF sidx[a] = NumQps THEN "done" ELSE "setup"]
    /\ sidx' = [sidx EXCEPT ![a] = IF sidx[a] = NumQps THEN 1 ELSE @ + 1]

(* The loop over the indices starts. The MAD layer goes to RTS once, a     *)
(* P_Key event can come again.                                             *)
setup_begin(a) ==
    /\ spc[a] = "idle" \/ (spc[a] = "done" /\ a = "pkey_change")
    /\ spc' = [spc EXCEPT ![a] = "setup"]
    /\ UNCHANGED <<ring, tx_qps, made, sidx, sqp, hw, cq, poll>>

(* setup_qp up to create_gsi_ud_qp: nothing to do without a valid P_Key or *)
(* with a QP in place; the lock is released before the QP is created.      *)
setup_qp(a) ==
    /\ spc[a] = "setup" /\ ~gen
    /\ \/ /\ NextIndex(a)
          /\ UNCHANGED <<made, sqp>>
       \/ /\ tx_qps[sidx[a]] = Null
          /\ \E q \in QPs \ made :
               /\ made' = made \cup {q}
               /\ sqp' = [sqp EXCEPT ![a] = q]
          /\ spc' = [spc EXCEPT ![a] = "created"]
          /\ UNCHANGED sidx
    /\ UNCHANGED <<ring, tx_qps, hw, cq, poll>>

(* modify_to_rts, then the QP is published; when it fails the QP is kept   *)
(* but not published.                                                      *)
setup_qp_end(a) ==
    /\ spc[a] = "created" /\ ~gen
    /\ \/ tx_qps' = [tx_qps EXCEPT ![sidx[a]] = sqp[a]]
       \/ UNCHANGED tx_qps
    /\ sqp' = [sqp EXCEPT ![a] = Null]
    /\ NextIndex(a)
    /\ UNCHANGED <<ring, made, hw, cq, poll>>

----------------------------------------------------------------------------
(* The ring. *)

(* Slip: a slot whose completion was not polled is taken again. *)
BugHasRoom == pi # (ci + MaxSendWr) % W

(* The two tests of mlx5_ib_add_outstanding_wr, else -ENOMEM. *)
HasRoom == pi # (ci + MaxSendWr) % W /\ (pi % MaxSendWr) \notin in_use

(* mlx5_ib_gsi_silent_drop: the work request is complete at once. *)
silent_drop(id) ==
    LET slot == pi % MaxSendWr IN
    /\ wc' = [wc EXCEPT ![slot] = [id |-> id, st |-> "SUCCESS"]]
    /\ completed' = completed \cup {slot}
    /\ pi' = (pi + 1) % W
    /\ gen' = TRUE
    /\ UNCHANGED hw

(* Slip: a failed ib_post_send keeps its slot. *)
BugPostOn(q, id) ==
    LET slot == pi % MaxSendWr IN
    /\ wc' = [wc EXCEPT ![slot] = [id |-> id, st |-> "SUCCESS"]]
    /\ hw' \in {hw, [hw EXCEPT ![q] = Append(@, slot)]}
    /\ pi' = (pi + 1) % W
    /\ UNCHANGED <<completed, gen>>

(* A send on UD QP q. ib_post_send may fail, which gives the slot back.    *)
post_on(q, id) ==
    LET slot == pi % MaxSendWr IN
    /\ wc' = [wc EXCEPT ![slot] = [id |-> id, st |-> "SUCCESS"]]
    /\ \/ /\ hw' = [hw EXCEPT ![q] = Append(@, slot)]
          /\ pi' = (pi + 1) % W
       \/ UNCHANGED <<hw, pi>>
    /\ UNCHANGED <<completed, gen>>

(* get_tx_qp: no QP for an index that is out of range or not set up.       *)
get_tx_qp(i) == IF i \in 1..NumQps THEN tx_qps[i] ELSE Null

(* One turn of the loop of mlx5_ib_gsi_post_send, under gsi->lock.         *)
mlx5_ib_gsi_post_send(i, id) ==
    /\ ~gen /\ HasRoom
    /\ IF get_tx_qp(i) = Null THEN silent_drop(id) ELSE post_on(get_tx_qp(i), id)
    /\ UNCHANGED <<ci, setup, cq, poll>>

(* The completion of the oldest send of UD QP q, on gsi->cq.               *)
handle_single_completion(q, st) ==
    LET slot == Head(hw[q]) IN
    /\ ~gen /\ hw[q] # <<>>
    /\ hw' = [hw EXCEPT ![q] = Tail(@)]
    /\ completed' = completed \cup {slot}
    /\ wc' = [wc EXCEPT ![slot].st = st]
    /\ gen' = TRUE
    /\ UNCHANGED <<pi, ci, setup, cq, poll>>

(* mlx5_ib_generate_wc, under cq->lock. *)
mlx5_ib_generate_wc(slot) ==
    /\ wc_list' = Append(wc_list, slot)
    /\ in_use' = in_use \cup {slot}
    /\ IF notify \/ wc[slot].st # "SUCCESS"
       THEN notify' = FALSE /\ nwork' = TRUE
       ELSE UNCHANGED <<notify, nwork>>

(* One turn of the loop of generate_completions: the oldest work request,  *)
(* if it is complete. Only polls can come between two turns.               *)
generate_completions ==
    LET slot == ci % MaxSendWr IN
    /\ gen
    /\ IF ci # pi /\ slot \in completed
       THEN /\ mlx5_ib_generate_wc(slot)
            /\ completed' = completed \ {slot}
            /\ ci' = (ci + 1) % W
            /\ UNCHANGED gen
       ELSE gen' = FALSE /\ UNCHANGED <<ci, completed, cq>>
    /\ UNCHANGED <<pi, wc, setup, hw, poll>>

----------------------------------------------------------------------------
(* The consumer. *)

(* notify_soft_wc_handler calls ib_cq_completion_workqueue. *)
notify_soft_wc_handler ==
    /\ nwork
    /\ nwork' = FALSE
    /\ work' = TRUE
    /\ UNCHANGED <<ring, setup, hw, wc_list, in_use, notify, ppc, polled, out>>

ib_cq_poll_work ==
    /\ work /\ ppc = "idle"
    /\ work' = FALSE
    /\ ppc' = "poll"
    /\ UNCHANGED <<ring, setup, hw, cq, polled, out>>

SmallerOf(a, b) == IF a < b THEN a ELSE b

(* Slip: the polled completions stay in use. *)
BugPollCq(n) ==
    /\ out' = [k \in 1..n |-> wc[wc_list[k]]]
    /\ wc_list' = SubSeq(wc_list, n + 1, Len(wc_list))
    /\ UNCHANGED <<in_use, notify, nwork>>

(* mlx5_ib_poll_cq as far as poll_soft_wc goes: up to n completions. *)
mlx5_ib_poll_cq(n) ==
    /\ out' = [k \in 1..n |-> wc[wc_list[k]]]
    /\ in_use' = in_use \ {wc_list[k] : k \in 1..n}
    /\ wc_list' = SubSeq(wc_list, n + 1, Len(wc_list))
    /\ UNCHANGED <<notify, nwork>>

(* One turn of the loop of __ib_process_cq; a short batch ends it. With    *)
(* the budget spent the work item is queued again, else the CQ is armed.   *)
ib_process_cq ==
    LET n == SmallerOf(SmallerOf(Batch, Budget - polled), Len(wc_list)) IN
    /\ ppc = "poll"
    /\ mlx5_ib_poll_cq(n)
    /\ \/ /\ n = Batch /\ polled + n < Budget
          /\ polled' = polled + n
          /\ UNCHANGED <<ppc, work>>
       \/ /\ n # Batch /\ polled + n < Budget
          /\ polled' = 0
          /\ ppc' = "arm"
          /\ UNCHANGED work
       \/ /\ polled + n >= Budget
          /\ polled' = 0
          /\ ppc' = "idle"
          /\ work' = TRUE
    /\ UNCHANGED <<ring, setup, hw>>

(* Slip: completions that came before the CQ was armed are not reported.   *)
BugArmCq == notify' = TRUE /\ UNCHANGED work

(* IB_CQ_NEXT_COMP with IB_CQ_REPORT_MISSED_EVENTS: when completions wait  *)
(* already the work item is queued again.                                  *)
mlx5_ib_arm_cq ==
    /\ notify' = TRUE
    /\ work' = (work \/ wc_list # <<>>)

poll_work_end ==
    /\ ppc = "arm"
    /\ mlx5_ib_arm_cq
    /\ ppc' = "idle"
    /\ UNCHANGED <<ring, setup, hw, wc_list, in_use, nwork, polled, out>>

----------------------------------------------------------------------------
(* The indices of the work requests between ci and pi, oldest first. *)
Outstanding == [k \in 1..((pi - ci) % W) |-> (ci + k - 1) % W]

(* The completion as the user will see it, for a work request in the ring. *)
Entry(i) ==
    LET slot == i % MaxSendWr IN
    [id |-> wc[slot].id, st |-> IF slot \in completed THEN wc[slot].st ELSE "POSTED"]

(* Everything accepted and not reported, in order. *)
Pending ==
    [k \in 1..Len(wc_list) |-> wc[wc_list[k]]]
      \o [k \in 1..Len(Outstanding) |-> Entry(Outstanding[k])]

PendingIds == {e.id : e \in Range(Pending)}

(* The MAD layer posts a send buffer again after its completion only. *)
Post(i, id) == id \notin PendingIds /\ mlx5_ib_gsi_post_send(i, id)

Setup(a) == setup_begin(a) \/ setup_qp(a) \/ setup_qp_end(a)

Consumer ==
    \/ notify_soft_wc_handler
    \/ ib_cq_poll_work
    \/ ib_process_cq
    \/ poll_work_end

Hca == \E q \in QPs, st \in Statuses : handle_single_completion(q, st)

Next ==
    \/ \E i \in 1..(NumQps + 1), id \in WrIds : Post(i, id)
    \/ \E a \in Callers : Setup(a)
    \/ Hca
    \/ generate_completions
    \/ Consumer

Spec == Init /\ [][Next]_vars

----------------------------------------------------------------------------
(* Properties. *)

(* Every variable has the type the code gives it. *)
TypeOK ==
    /\ pi \in 0..(W - 1) /\ ci \in 0..(W - 1)
    /\ wc \in [Slots -> [id : WrIds \cup {Null}, st : Statuses]]
    /\ completed \subseteq Slots /\ in_use \subseteq Slots /\ gen \in BOOLEAN
    /\ tx_qps \in [1..NumQps -> QPs \cup {Null}] /\ made \subseteq QPs
    /\ hw \in [QPs -> Seq(Slots)]
    /\ spc \in [Callers -> {"idle", "setup", "created", "done"}]
    /\ sidx \in [Callers -> 1..NumQps] /\ sqp \in [Callers -> QPs \cup {Null}]
    /\ wc_list \in Seq(Slots) /\ notify \in BOOLEAN /\ nwork \in BOOLEAN
    /\ work \in BOOLEAN /\ ppc \in {"idle", "poll", "arm"} /\ polled \in 0..Budget
    /\ out \in Seq([id : WrIds, st : Statuses])

(* The GSI QP implements the FIFO of GsiFifo: completions of the send QPs, *)
(* in whatever order, are reported once each, in posting order, with their *)
(* own id and status. This and the next two properties hold for ring sizes *)
(* that divide 2^32, and for others until outstanding_pi wraps: the slot   *)
(* of an index is its remainder modulo max_send_wr, which then jumps.      *)
Fifo == INSTANCE GsiFifo WITH queue <- Pending, out <- out
InOrder == Fifo!Spec

(* The HCA has exactly the slots that are outstanding and not complete, so *)
(* no completion hits a slot that has been given to another work request.  *)
HcaOwnsItsSlots ==
    /\ \A q \in QPs : IsInjective(hw[q])
    /\ \A p, q \in QPs : p # q => Range(hw[p]) \cap Range(hw[q]) = {}
    /\ UNION {Range(hw[q]) : q \in QPs}
         = {Outstanding[k] % MaxSendWr : k \in DOMAIN Outstanding} \ completed

(* -ENOMEM is for callers that post too much: with fewer than max_send_wr  *)
(* sends pending, as the MAD layer keeps it, the slot at outstanding_pi is *)
(* free.                                                                   *)
RoomForMad == Len(Pending) < MaxSendWr => HasRoom

(* No lost wake-up: when software completions wait, the CQ is being polled *)
(* or a work item that will poll it is queued.                             *)
NoLostWakeup == wc_list # <<>> => nwork \/ work \/ ppc # "idle"

(* The WARN_ON_ONCE of setup_qp: no QP is in place when one is published.  *)
NoQpOverwritten == \A a \in Callers : spc[a] = "created" => tx_qps[sidx[a]] = Null

============================================================================
