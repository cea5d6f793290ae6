-------------------------------- MODULE Cmd --------------------------------
(***************************************************************************)
(* The command interface of mlx5 devices, drivers/net/ethernet/mellanox/   *)
(* mlx5/core/cmd.c: commands get a slot of the command queue, the firmware *)
(* executes them and answers by an event or is polled.                     *)
(*                                                                         *)
(* A command is completed by whoever comes first: the event handler, the   *)
(* polling work handler, a timeout, or the flush of a dead device. They    *)
(* all run mlx5_cmd_comp_handler, concurrently.                            *)
(***************************************************************************)
EXTENDS Integers, Sequences, SequencesExt, FiniteSets

CONSTANTS
    Ents,          \* memory for commands, never used twice
    Scenarios,     \* what may happen in a behaviour, see below
    Null           \* no index, no entry

(* block and throttle wait for their result, async has a callback, page is *)
(* MANAGE_PAGES with its own slot, poll is mlx5_cmd_exec_polling, and      *)
(* eq is CREATE_EQ and DESTROY_EQ of the command EQ.                       *)
AllKinds == {"block", "throttle", "async", "page", "poll", "eq"}

(* A scenario has the number of slots for other than page commands, how    *)
(* many commands of which kinds are issued, the mode of the interface at   *)
(* the start, and whether firmware may be late (exec), a command may wait  *)
(* too long for its slot (slot), and the device may fail (error).          *)
ASSUME CmdAssumption ==
    /\ Scenarios \subseteq [max_reg_cmds : Nat \ {0}, commands : Nat, kinds : SUBSET AllKinds,
                            mode : {"POLLING", "EVENTS"}, trouble : SUBSET {"exec", "slot", "error"}]
    /\ Null \notin Ents

VARIABLES
    scn,       \* the scenario of this behaviour
    ent,       \* struct mlx5_cmd_work_ent; ref <= 0 is memory not in use
    caller,    \* progress of the caller of each command
    work,      \* progress of cmd_work_handler for each command
    wq,        \* cmd->wq, a single-threaded workqueue
    told,      \* results that caller or callback got
    comp,      \* progress of mlx5_cmd_comp_handler in each context
    bitmask, ent_arr, sem, pages_sem, throttle_sem,   \* slots
    mode, allowed,     \* cmd->mode, cmd->allowed_opcode
    fw,        \* the command that firmware executes, per slot
    executed,  \* commands that firmware has executed
    eqes,      \* events in the command EQ
    eq,        \* who handles events: "irq", a recovering entry, or nobody
    nb,        \* whether cmd_comp_notifier is registered
    adm,       \* progress of the set up and tear down of events
    down, flush,   \* device failed; progress of mlx5_cmd_flush
    inflight, cleanup   \* ctx->num_inflight, mlx5_cmd_cleanup_async_ctx

slots == <<bitmask, sem, pages_sem>>
dev == <<scn, mode, allowed, nb, adm, down, flush>>
events == <<fw, executed, eqes, eq>>
async == <<inflight, cleanup>>
vars == <<scn, ent, caller, work, wq, told, comp, slots, ent_arr, throttle_sem, dev, events, async>>

Trouble(t) == t \in scn.trouble
MaxRegCmds == scn.max_reg_cmds
Page == MaxRegCmds          \* the index of page commands
Index == 0..MaxRegCmds
Ctxs == {<<"eq">>, <<"flush">>} \cup ({"work", "caller", "timer"} \X Ents)

Idle == [pc |-> "idle", i |-> Null, e |-> Null, type |-> "none", trig |-> FALSE]
Unused == [ref |-> 0, kind |-> "block", idx |-> Null, pending |-> FALSE, rref_cleared |-> FALSE,
           ret |-> "0", handling |-> FALSE, slotted |-> FALSE, done |-> FALSE, timer |-> "off"]

Init ==
    /\ scn \in Scenarios
    /\ ent = [e \in Ents |-> Unused]
    /\ caller = [e \in Ents |-> "new"] /\ work = [e \in Ents |-> "none"]
    /\ wq = <<>>
    /\ told = [e \in Ents |-> <<>>]
    /\ comp = [c \in Ctxs |-> Idle]
    /\ bitmask = Index /\ ent_arr = [i \in Index |-> Null]
    /\ sem = MaxRegCmds /\ pages_sem = 1 /\ throttle_sem = (MaxRegCmds + 1) \div 2
    /\ mode = scn.mode /\ allowed = "ALL" /\ nb = (scn.mode = "EVENTS")
    /\ fw = [i \in Index |-> Null] /\ executed = {} /\ eqes = <<>> /\ eq = Null
    /\ adm = [pc |-> "idle", stage |-> IF scn.mode = "EVENTS" THEN 3 ELSE 0, held |-> 0]
    /\ down = FALSE /\ flush = [pc |-> "off", held |-> 0, vec |-> {}, todo |-> {}]
    /\ inflight = 1 /\ cleanup = "no"

opcode_allowed(k) == allowed = "ALL" \/ k = "eq"
Blocking(e) == ent[e].kind # "async"

----------------------------------------------------------------------------
(* Entries and slots. *)

(* refcount_t: a get of 0 and a put of 0 warn and saturate the count; it   *)
(* stays there and the memory, if freed, is not freed again.               *)
Saturated == -1

(* cmd_ent_get *)
Get(ref) == IF ref > 0 THEN ref + 1 ELSE Saturated

(* Slip: the slot is freed without up of its semaphore. *)
BugPut(e, r, n) ==
    LET last == r.ref > 0 /\ r.ref <= n IN
    /\ ent' = [ent EXCEPT ![e] = [r EXCEPT !.ref = IF @ < n THEN Saturated ELSE @ - n]]
    /\ bitmask' = IF last /\ r.idx # Null THEN bitmask \cup {r.idx} ELSE bitmask
    /\ UNCHANGED <<sem, pages_sem>>

(* cmd_ent_put, n times: the last reference frees the slot and the entry,  *)
(* whose fields are those of r by now.                                     *)
cmd_ent_put(e, r, n) ==
    LET last == r.ref > 0 /\ r.ref <= n IN
    /\ ent' = [ent EXCEPT ![e] = [r EXCEPT !.ref = IF @ < n THEN Saturated ELSE @ - n]]
    /\ bitmask' = IF last /\ r.idx # Null THEN bitmask \cup {r.idx} ELSE bitmask
    /\ sem' = IF last /\ r.idx \in Index \ {Page} THEN sem + 1 ELSE sem
    /\ pages_sem' = IF last /\ r.idx = Page THEN pages_sem + 1 ELSE pages_sem

(* Context c calls mlx5_cmd_comp_handler for slot i. *)
Call(c, i, type, trig) ==
    comp' = [comp EXCEPT ![c] = [pc |-> "claim", i |-> i, e |-> Null, type |-> type, trig |-> trig]]

(* mlx5_cmd_comp_handler, test_and_clear_bit: whoever clears the bit       *)
(* completes the command. An event that finds it clear answers a command   *)
(* that timed out, and frees its slot. The event of a polled command only  *)
(* clears the bit; polling goes on in any case.                            *)
comp_claim(c) ==
    LET e == ent_arr[comp[c].i]
        r == ent[e]
        event == comp[c].type = "EVENT"
        late == (IF event /\ r.kind # "poll" THEN 1 ELSE 0)
                + (IF comp[c].trig /\ r.ret = "TIMEDOUT" /\ r.rref_cleared THEN 1 ELSE 0)
    IN
    /\ comp[c].pc = "claim"
    /\ IF r.pending
       THEN ent' = [ent EXCEPT ![e].pending = FALSE] /\ UNCHANGED slots
       ELSE cmd_ent_put(e, r, late)
    /\ comp' = IF (r.pending /\ ~(event /\ r.kind = "poll")) \/ comp[c].type = "POLLING"
               THEN [comp EXCEPT ![c].pc = "retire", ![c].e = e]
               ELSE [comp EXCEPT ![c] = Idle]
    /\ UNCHANGED <<caller, work, wq, told, ent_arr, throttle_sem, dev, events, async>>

(* Slip: a forced completion frees the slot that firmware still uses. *)
BugRetire(c) ==
    LET e == comp[c].e
        cancel == ent[e].timer = "armed"
    IN
    /\ comp[c].pc = "retire"
    /\ cmd_ent_put(e, [ent[e] EXCEPT !.timer = IF cancel THEN "off" ELSE @, !.rref_cleared = TRUE],
                   IF cancel THEN 2 ELSE 1)
    /\ comp' = [comp EXCEPT ![c].pc = "finish"]
    /\ UNCHANGED <<caller, work, wq, told, ent_arr, throttle_sem, dev, events, async>>

(* Slip: a forced completion never drops the reference of the real one. *)
BugForced(c) ==
    LET e == comp[c].e
        cancel == ent[e].timer = "armed"
        real == comp[c].type # "FORCED"
    IN
    /\ comp[c].pc = "retire"
    /\ cmd_ent_put(e, [ent[e] EXCEPT !.timer = IF cancel THEN "off" ELSE @,
                                     !.rref_cleared = @ \/ real],
                   (IF cancel THEN 1 ELSE 0) + (IF real THEN 1 ELSE 0))
    /\ comp' = [comp EXCEPT ![c].pc = "finish"]
    /\ UNCHANGED <<caller, work, wq, told, ent_arr, throttle_sem, dev, events, async>>

(* The timeout work is cancelled unless it runs already. The reference for *)
(* the real completion is dropped, unless that is still to come.           *)
comp_retire(c) ==
    LET e == comp[c].e
        cancel == ent[e].timer = "armed"
        real == comp[c].type # "FORCED" \/ down \/ ~opcode_allowed(ent[e].kind)
    IN
    /\ comp[c].pc = "retire"
    /\ cmd_ent_put(e, [ent[e] EXCEPT !.timer = IF cancel THEN "off" ELSE @,
                                     !.rref_cleared = @ \/ real],
                   (IF cancel THEN 1 ELSE 0) + (IF real THEN 1 ELSE 0))
    /\ comp' = [comp EXCEPT ![c].pc = "finish"]
    /\ UNCHANGED <<caller, work, wq, told, ent_arr, throttle_sem, dev, events, async>>

(* The result goes to the waiting caller, or to the callback after the     *)
(* last put.                                                               *)
comp_finish(c) ==
    LET e == comp[c].e
        r == [ent[e] EXCEPT !.ret = IF comp[c].trig THEN "NXIO" ELSE @]
    IN
    /\ comp[c].pc = "finish"
    /\ IF Blocking(e)
       THEN /\ ent' = [ent EXCEPT ![e] = [r EXCEPT !.done = TRUE]]
            /\ comp' = [comp EXCEPT ![c] = Idle]
            /\ UNCHANGED <<slots, told>>
       ELSE /\ cmd_ent_put(e, r, 1)
            /\ told' = [told EXCEPT ![e] = Append(@, r.ret)]
            /\ comp' = [comp EXCEPT ![c].pc = "called"]
    /\ UNCHANGED <<caller, work, wq, ent_arr, throttle_sem, dev, events, async>>

(* mlx5_cmd_exec_cb_handler after the callback of the user. *)
exec_cb_handler(c) ==
    /\ comp[c].pc = "called"
    /\ inflight' = inflight - 1
    /\ comp' = [comp EXCEPT ![c] = Idle]
    /\ UNCHANGED <<ent, caller, work, wq, told, slots, ent_arr, throttle_sem, dev, events, cleanup>>

----------------------------------------------------------------------------
(* Callers. *)

(* mlx5_cmd_invoke: the entry is given to the workqueue; a page command    *)
(* runs the handler itself.                                                *)
mlx5_cmd_invoke(e, k) ==
    /\ ent' = [ent EXCEPT ![e] = [Unused EXCEPT !.ref = 1, !.kind = k]]
    /\ wq' = IF k = "page" THEN wq ELSE Append(wq, e)
    /\ work' = [work EXCEPT ![e] = IF k = "page" THEN "sem" ELSE "queued"]

(* cmd_exec, called by mlx5_cmd_exec_cb for async commands: refused when   *)
(* the device is down or the opcode is not allowed. The commands of the    *)
(* command EQ are issued by the set up and tear down of events.            *)
cmd_exec(e, k) ==
    /\ caller[e] = "new" /\ Cardinality({x \in Ents : caller[x] # "new"}) < scn.commands
    /\ k = "async" => cleanup = "no"
    /\ k = "eq" => adm.pc = "idle" /\ allowed = "eq" /\ mode = "POLLING" /\ ~nb
    /\ \/ /\ down \/ ~opcode_allowed(k)
          /\ caller' = [caller EXCEPT ![e] = "end"]
          /\ told' = [told EXCEPT ![e] = IF k = "async" THEN @ ELSE <<"NXIO">>]
          /\ UNCHANGED <<ent, wq, work, async>>
       \/ /\ ~down /\ opcode_allowed(k) /\ k # "throttle"
          /\ mlx5_cmd_invoke(e, k)
          /\ caller' = [caller EXCEPT ![e] = IF k = "async" THEN "end" ELSE "handling"]
          /\ inflight' = IF k = "async" THEN inflight + 1 ELSE inflight
          /\ UNCHANGED <<told, cleanup>>
       \/ /\ ~down /\ opcode_allowed(k) /\ k = "throttle"
          /\ caller' = [caller EXCEPT ![e] = "throttle"]
          /\ UNCHANGED <<ent, wq, work, told, async>>
    /\ UNCHANGED <<comp, slots, ent_arr, throttle_sem, dev, events>>

(* down(&throttle_sem); the opcode was checked before. *)
cmd_exec_throttle(e) ==
    /\ caller[e] = "throttle" /\ throttle_sem > 0
    /\ throttle_sem' = throttle_sem - 1
    /\ mlx5_cmd_invoke(e, "throttle")
    /\ caller' = [caller EXCEPT ![e] = "handling"]
    /\ UNCHANGED <<told, comp, slots, ent_arr, dev, events, async>>

(* wait_func: the work has not even started for too long and is cancelled. *)
wait_cancel(e) ==
    /\ Trouble("slot") /\ caller[e] = "handling" /\ e \in Range(wq)
    /\ wq' = Remove(wq, e)
    /\ ent' = [ent EXCEPT ![e].ret = "CANCELED"]
    /\ caller' = [caller EXCEPT ![e] = "put"] /\ work' = [work EXCEPT ![e] = "end"]
    /\ UNCHANGED <<told, comp, slots, ent_arr, throttle_sem, dev, events, async>>

(* wait_func goes on with the next completion it waits for. The timeout of *)
(* firmware is longer than the work handler takes to ring the doorbell.    *)
wait_func(e) ==
    /\ \/ /\ caller[e] = "handling" /\ (ent[e].handling \/ ent[e].kind = "page")
          /\ ent[e].kind = "page" => work[e] = "end"
          /\ caller' = [caller EXCEPT ![e] = "slotted"]
       \/ caller[e] = "slotted" /\ ent[e].slotted /\ caller' = [caller EXCEPT ![e] = "done"]
       \/ caller[e] \in {"done", "rewait"} /\ ent[e].done /\ caller' = [caller EXCEPT ![e] = "put"]
       \/ /\ Trouble("exec") /\ caller[e] = "done" /\ ~ent[e].done
          /\ mode # "POLLING" /\ ent[e].kind # "poll" /\ work[e] = "end"
          /\ caller' = [caller EXCEPT ![e] = "recover"]
       \/ caller[e] = "recover" /\ eq = Null /\ eqes = <<>> /\ caller' = [caller EXCEPT ![e] = "rewait"]
       \/ caller[e] = "forced" /\ comp[<<"caller", e>>] = Idle /\ caller' = [caller EXCEPT ![e] = "put"]
    /\ UNCHANGED <<ent, work, wq, told, comp, slots, ent_arr, throttle_sem, dev, events, async>>

(* wait_func_handle_exec_timeout, no completion after the recovery either. *)
wait_timeout(e) ==
    /\ caller[e] = "rewait" /\ ~ent[e].done
    /\ ent' = [ent EXCEPT ![e].ret = "TIMEDOUT"]
    /\ Call(<<"caller", e>>, ent[e].idx, "FORCED", FALSE)
    /\ caller' = [caller EXCEPT ![e] = "forced"]
    /\ UNCHANGED <<work, wq, told, slots, ent_arr, throttle_sem, dev, events, async>>

(* Slip: throttle_sem is upped for every command. *)
BugInvokePut(e) ==
    /\ caller[e] = "put"
    /\ told' = [told EXCEPT ![e] = Append(@, ent[e].ret)]
    /\ cmd_ent_put(e, ent[e], 1)
    /\ throttle_sem' = throttle_sem + 1
    /\ caller' = [caller EXCEPT ![e] = "end"]
    /\ UNCHANGED <<work, wq, comp, ent_arr, dev, events, async>>

(* The end of mlx5_cmd_invoke and cmd_exec. *)
invoke_put(e) ==
    /\ caller[e] = "put"
    /\ told' = [told EXCEPT ![e] = Append(@, ent[e].ret)]
    /\ cmd_ent_put(e, ent[e], 1)
    /\ throttle_sem' = IF ent[e].kind = "throttle" THEN throttle_sem + 1 ELSE throttle_sem
    /\ caller' = [caller EXCEPT ![e] = "end"]
    /\ UNCHANGED <<work, wq, comp, ent_arr, dev, events, async>>

(* mlx5_cmd_cleanup_async_ctx. *)
cleanup_start ==
    /\ cleanup = "no" /\ "async" \in scn.kinds
    /\ cleanup' = "wait" /\ inflight' = inflight - 1
    /\ UNCHANGED <<ent, caller, work, wq, told, comp, slots, ent_arr, throttle_sem, dev, events>>

(* Slip: the initial count of one is forgotten. *)
BugCleanupEnd ==
    /\ cleanup = "wait" /\ inflight <= 1
    /\ cleanup' = "returned"
    /\ UNCHANGED <<ent, caller, work, wq, told, comp, slots, ent_arr, throttle_sem, dev, events, inflight>>

(* It returns when all callbacks have returned. *)
cleanup_end ==
    /\ cleanup = "wait" /\ inflight = 0
    /\ cleanup' = "returned"
    /\ UNCHANGED <<ent, caller, work, wq, told, comp, slots, ent_arr, throttle_sem, dev, events, inflight>>

----------------------------------------------------------------------------
(* cmd_work_handler. *)

work_start ==
    /\ wq # <<>>
    /\ \A e \in Ents : ent[e].kind = "page" \/ work[e] \in {"none", "queued", "end"}
    /\ ent' = [ent EXCEPT ![Head(wq)].handling = TRUE]
    /\ work' = [work EXCEPT ![Head(wq)] = "sem"]
    /\ wq' = Tail(wq)
    /\ UNCHANGED <<caller, told, comp, slots, ent_arr, throttle_sem, dev, events, async>>

work_sem(e) ==
    /\ work[e] = "sem"
    /\ \/ /\ ent[e].kind = "page" /\ pages_sem > 0
          /\ pages_sem' = pages_sem - 1 /\ UNCHANGED sem
       \/ /\ ent[e].kind # "page" /\ sem > 0
          /\ sem' = sem - 1 /\ UNCHANGED pages_sem
    /\ work' = [work EXCEPT ![e] = "index"]
    /\ UNCHANGED <<ent, caller, wq, told, comp, bitmask, ent_arr, throttle_sem, dev, events, async>>

(* down_timeout fails. The callback of an async command is called, and the *)
(* entry put, before its completion is signalled.                          *)
work_busy(e) ==
    /\ Trouble("slot") /\ work[e] = "sem" /\ sem = 0 /\ ent[e].kind # "page"
    /\ IF Blocking(e)
       THEN /\ ent' = [ent EXCEPT ![e].ret = "BUSY", ![e].done = TRUE]
            /\ UNCHANGED <<told, slots, inflight>>
       ELSE /\ told' = [told EXCEPT ![e] = Append(@, "BUSY")]
            /\ inflight' = inflight - 1
            /\ cmd_ent_put(e, ent[e], 1)
    /\ work' = [work EXCEPT ![e] = "busy"]
    /\ UNCHANGED <<caller, wq, comp, ent_arr, throttle_sem, dev, events, cleanup>>

(* Slip: the caller is left waiting for its slot. *)
BugSlotted(e) ==
    /\ work[e] = "busy"
    /\ work' = [work EXCEPT ![e] = "end"]
    /\ UNCHANGED <<ent, caller, wq, told, comp, slots, ent_arr, throttle_sem, dev, events, async>>

work_busy_slotted(e) ==
    /\ work[e] = "busy"
    /\ ent' = [ent EXCEPT ![e].slotted = TRUE]
    /\ work' = [work EXCEPT ![e] = "end"]
    /\ UNCHANGED <<caller, wq, told, comp, slots, ent_arr, throttle_sem, dev, events, async>>

(* cmd_alloc_index, or the slot of page commands. *)
cmd_alloc_index(e) ==
    /\ work[e] = "index"
    /\ \E i \in bitmask :
         /\ IF ent[e].kind = "page" THEN i = Page
            ELSE i # Page /\ \A j \in bitmask : i <= j
         /\ bitmask' = bitmask \ {i}
         /\ ent_arr' = [ent_arr EXCEPT ![i] = e]
         /\ ent' = [ent EXCEPT ![e].idx = i, ![e].slotted = TRUE]
    /\ work' = [work EXCEPT ![e] = "fill"]
    /\ UNCHANGED <<caller, wq, told, comp, sem, pages_sem, throttle_sem, dev, events, async>>

(* The layout is filled; the timeout work of a callback has a reference.   *)
work_fill(e) ==
    LET timer == ent[e].kind = "async" IN
    /\ work[e] = "fill"
    /\ ent' = [ent EXCEPT ![e].pending = TRUE, ![e].timer = IF timer THEN "armed" ELSE @,
                          ![e].ref = IF timer THEN Get(@) ELSE @]
    /\ work' = [work EXCEPT ![e] = "get"]
    /\ UNCHANGED <<caller, wq, told, comp, slots, ent_arr, throttle_sem, dev, events, async>>

(* Slip: no reference for the completion of the firmware. *)
BugGet(e) ==
    /\ work[e] = "get"
    /\ work' = [work EXCEPT ![e] = "ring"]
    /\ UNCHANGED <<ent, caller, wq, told, comp, slots, ent_arr, throttle_sem, dev, events, async>>

(* The reference for the real completion. *)
work_get(e) ==
    /\ work[e] = "get"
    /\ ent' = [ent EXCEPT ![e].ref = Get(@)]
    /\ work' = [work EXCEPT ![e] = "ring"]
    /\ UNCHANGED <<caller, wq, told, comp, slots, ent_arr, throttle_sem, dev, events, async>>

(* Slip: the doorbell is rung for a dead device, too. *)
BugRing(e) ==
    /\ work[e] = "ring"
    /\ fw' = [fw EXCEPT ![ent[e].idx] = e]
    /\ work' = [work EXCEPT ![e] = IF mode = "POLLING" \/ ent[e].kind = "poll" THEN "poll" ELSE "end"]
    /\ UNCHANGED <<ent, comp, caller, wq, told, slots, ent_arr, throttle_sem, dev, executed, eqes, eq, async>>

(* The doorbell, unless the device is down or the opcode not allowed. The  *)
(* mode is the one that was read with the slot: see QuietSwitch.           *)
work_ring(e) ==
    /\ work[e] = "ring"
    /\ IF down \/ ~opcode_allowed(ent[e].kind)
       THEN /\ ent' = [ent EXCEPT ![e].ret = "NXIO"]
            /\ Call(<<"work", e>>, ent[e].idx, "FORCED", FALSE)
            /\ work' = [work EXCEPT ![e] = "comp"]
            /\ UNCHANGED fw
       ELSE /\ fw' = [fw EXCEPT ![ent[e].idx] = e]
            /\ work' = [work EXCEPT ![e] = IF mode = "POLLING" \/ ent[e].kind = "poll"
                                           THEN "poll" ELSE "end"]
            /\ UNCHANGED <<ent, comp>>
    /\ UNCHANGED <<caller, wq, told, slots, ent_arr, throttle_sem, dev, executed, eqes, eq, async>>

(* Slip: the owner of the layout is not looked at. *)
BugPoll(e) ==
    /\ work[e] = "poll"
    /\ Call(<<"work", e>>, ent[e].idx, "POLLING", FALSE)
    /\ ent' = [ent EXCEPT ![e].ret = "0"]
    /\ work' = [work EXCEPT ![e] = "comp"]
    /\ UNCHANGED <<caller, wq, told, slots, ent_arr, throttle_sem, dev, events, async>>

(* poll_timeout, until firmware gives the layout back. A command that is   *)
(* polled in events mode gets an event, too, before or after that.         *)
poll_timeout(e) ==
    LET i == ent[e].idx IN
    /\ work[e] = "poll"
    /\ \/ /\ fw[i] = Null
          /\ Call(<<"work", e>>, i, "POLLING", FALSE)
          /\ ent' = [ent EXCEPT ![e].ret = "0"]
       \/ /\ Trouble("exec")
          /\ Call(<<"work", e>>, i, "FORCED", FALSE)
          /\ ent' = [ent EXCEPT ![e].ret = "TIMEDOUT"]
    /\ work' = [work EXCEPT ![e] = "comp"]
    /\ UNCHANGED <<caller, wq, told, slots, ent_arr, throttle_sem, dev, events, async>>

work_end(e) ==
    /\ work[e] = "comp" /\ comp[<<"work", e>>] = Idle
    /\ work' = [work EXCEPT ![e] = "end"]
    /\ UNCHANGED <<ent, caller, wq, told, comp, slots, ent_arr, throttle_sem, dev, events, async>>

----------------------------------------------------------------------------
(* Firmware, the command EQ and the timeout work. *)

(* Firmware has executed a command; it writes an event if there is an EQ.  *)
FwComplete(i) ==
    /\ fw[i] # Null
    /\ executed' = executed \cup {fw[i]}
    /\ fw' = [fw EXCEPT ![i] = Null]
    /\ eqes' = IF nb THEN Append(eqes, i) ELSE eqes
    /\ UNCHANGED <<ent, caller, work, wq, told, comp, slots, ent_arr, throttle_sem, dev, eq, async>>

(* mlx5_eq_async_int under the lock of the EQ, by the interrupt or by the  *)
(* recovery of a command that timed out; cmd_comp_notifier ignores events  *)
(* of a dead device.                                                       *)
cmd_comp_notifier(by) ==
    /\ eqes # <<>> /\ eq = Null
    /\ by \in Ents => caller[by] = "recover" \/ ent[by].timer = "recover"
    /\ eqes' = Tail(eqes)
    /\ IF down THEN UNCHANGED <<comp, eq>>
       ELSE eq' = by /\ Call(<<"eq">>, Head(eqes), "EVENT", FALSE)
    /\ UNCHANGED <<ent, caller, work, wq, told, slots, ent_arr, throttle_sem, dev, fw, executed, async>>

eq_unlock ==
    /\ eq # Null /\ comp[<<"eq">>] = Idle
    /\ eq' = Null
    /\ UNCHANGED <<ent, caller, work, wq, told, comp, slots, ent_arr, throttle_sem, dev, fw, executed, eqes, async>>

(* cb_timeout_handler starts with the recovery of the EQ; the doorbell was *)
(* rung long before.                                                       *)
timer_fire(e) ==
    /\ Trouble("exec") /\ ent[e].timer = "armed" /\ work[e] = "end"
    /\ ent' = [ent EXCEPT ![e].timer = "recover"]
    /\ UNCHANGED <<caller, work, wq, told, comp, slots, ent_arr, throttle_sem, dev, events, async>>

(* Slip: the callback is called at the timeout, and the command stays      *)
(* pending.                                                                *)
BugTimeoutHandler(e) ==
    /\ ent[e].timer = "recover" /\ eq = Null /\ eqes = <<>>
    /\ ent' = [ent EXCEPT ![e].timer = "put"]
    /\ told' = IF ent[e].pending THEN [told EXCEPT ![e] = Append(@, "TIMEDOUT")] ELSE told
    /\ UNCHANGED <<caller, work, wq, comp, slots, ent_arr, throttle_sem, dev, events, async>>

(* A command that is still pending is completed by force. *)
cb_timeout_handler(e) ==
    /\ ent[e].timer = "recover" /\ eq = Null /\ eqes = <<>>
    /\ IF ent[e].pending
       THEN /\ ent' = [ent EXCEPT ![e].ret = "TIMEDOUT", ![e].timer = "forced"]
            /\ Call(<<"timer", e>>, ent[e].idx, "FORCED", FALSE)
       ELSE ent' = [ent EXCEPT ![e].timer = "put"] /\ UNCHANGED comp
    /\ UNCHANGED <<caller, work, wq, told, slots, ent_arr, throttle_sem, dev, events, async>>

timer_put(e) ==
    /\ \/ ent[e].timer = "put"
       \/ ent[e].timer = "forced" /\ comp[<<"timer", e>>] = Idle
    /\ cmd_ent_put(e, [ent[e] EXCEPT !.timer = "off"], 1)
    /\ UNCHANGED <<caller, work, wq, told, comp, ent_arr, throttle_sem, dev, events, async>>

----------------------------------------------------------------------------
(* Changes of the mode and of the allowed opcode, and the flush of a dead  *)
(* device; dev->intf_state_mutex keeps them apart.                         *)

(* The steps of create_async_eqs and destroy_async_eqs that change them.   *)
Stages == <<"allow_eq", "events", "allow_all", "allow_eq", "polling", "allow_all">>
Todo == Stages[adm.stage + 1]

(* Slip: the mode and the opcode are changed before the slots are taken. *)
BugChangeStart ==
    /\ "eq" \in scn.kinds
    /\ adm.pc = "idle" /\ adm.stage < Len(Stages) /\ flush.pc \in {"off", "end"}
    /\ \A e \in Ents : ent[e].kind = "eq" /\ caller[e] # "new" => caller[e] = "end"
    /\ mode' = CASE Todo = "events" -> "EVENTS" [] Todo = "polling" -> "POLLING" [] OTHER -> mode
    /\ allowed' = CASE Todo = "allow_eq" -> "eq" [] Todo = "allow_all" -> "ALL" [] OTHER -> allowed
    /\ adm' = [adm EXCEPT !.pc = "drain"]
    /\ nb' = (nb \/ Todo = "events")
    /\ UNCHANGED <<ent, caller, work, wq, told, comp, slots, ent_arr, throttle_sem, scn, down, flush, events, async>>

(* mlx5_cmd_change_mod and mlx5_cmd_allowed_opcode begin. The EQ and the   *)
(* notifier are there before the mode is EVENTS.                           *)
change_start ==
    /\ "eq" \in scn.kinds
    /\ adm.pc = "idle" /\ adm.stage < Len(Stages) /\ flush.pc \in {"off", "end"}
    /\ \A e \in Ents : ent[e].kind = "eq" /\ caller[e] # "new" => caller[e] = "end"
    /\ adm' = [adm EXCEPT !.pc = "drain"]
    /\ nb' = (nb \/ Todo = "events")
    /\ UNCHANGED <<ent, caller, work, wq, told, comp, slots, ent_arr, throttle_sem, scn, mode, allowed, down,
                   flush, events, async>>

(* down of every slot, the page slot last. *)
change_down ==
    /\ adm.pc = "drain"
    /\ \/ /\ adm.held < MaxRegCmds /\ sem > 0
          /\ sem' = sem - 1 /\ UNCHANGED pages_sem
       \/ /\ adm.held = MaxRegCmds /\ pages_sem > 0
          /\ pages_sem' = pages_sem - 1 /\ UNCHANGED sem
    /\ adm' = [adm EXCEPT !.held = @ + 1, !.pc = IF adm.held = MaxRegCmds THEN "set" ELSE @]
    /\ UNCHANGED <<ent, caller, work, wq, told, comp, bitmask, ent_arr, throttle_sem, scn, mode, allowed, nb,
                   down, flush, events, async>>

(* The change and the ups. The notifier goes after polling is on. *)
change_set ==
    /\ adm.pc = "set"
    /\ mode' = CASE Todo = "events" -> "EVENTS" [] Todo = "polling" -> "POLLING" [] OTHER -> mode
    /\ allowed' = CASE Todo = "allow_eq" -> "eq" [] Todo = "allow_all" -> "ALL" [] OTHER -> allowed
    /\ nb' = (nb /\ Todo # "polling")
    /\ sem' = sem + MaxRegCmds /\ pages_sem' = pages_sem + 1
    /\ adm' = [pc |-> "idle", stage |-> adm.stage + 1, held |-> 0]
    /\ UNCHANGED <<ent, caller, work, wq, told, comp, bitmask, ent_arr, throttle_sem, scn, down, flush, events,
                   async>>

(* mlx5_enter_error_state marks the device before it gets the mutex. *)
device_error ==
    /\ Trouble("error") /\ ~down
    /\ down' = TRUE
    /\ UNCHANGED <<ent, caller, work, wq, told, comp, slots, ent_arr, throttle_sem, scn, mode, allowed, nb, adm,
                   flush, events, async>>

Flushing(f) ==
    /\ flush' = f
    /\ UNCHANGED <<caller, work, wq, told, ent_arr, throttle_sem, scn, mode, allowed, nb, adm, down, events, async>>

(* mlx5_cmd_flush: down_trylock of every slot ... *)
mlx5_cmd_flush ==
    \/ /\ flush.pc = "off" /\ down /\ adm.pc = "idle"
       /\ Flushing([flush EXCEPT !.pc = "grab"])
       /\ UNCHANGED <<ent, comp, slots>>
    \/ /\ flush.pc = "grab" /\ flush.held < MaxRegCmds /\ sem > 0
       /\ sem' = sem - 1
       /\ Flushing([flush EXCEPT !.held = @ + 1])
       /\ UNCHANGED <<ent, comp, bitmask, pages_sem>>
    \/ /\ flush.pc = "grab" /\ flush.held = MaxRegCmds /\ pages_sem > 0   \* then all are given back
       /\ sem' = sem + MaxRegCmds
       /\ Flushing([flush EXCEPT !.held = 0, !.pc = "end"])
       /\ UNCHANGED <<ent, comp, bitmask, pages_sem>>
    \/ /\ flush.pc = "grab" /\ IF flush.held < MaxRegCmds THEN sem = 0 ELSE pages_sem = 0
       /\ Flushing([flush EXCEPT !.pc = "sync"])
       /\ UNCHANGED <<ent, comp, slots>>

(* mlx5_cmd_trigger_completions: wait for the interrupt handler, take a    *)
(* reference on every command that has a slot ...                          *)
mlx5_cmd_trigger_completions ==
    LET vec == Index \ bitmask IN
    /\ flush.pc = "sync"
    /\ eq # "irq"
    /\ ent' = [e \in Ents |-> IF \E i \in vec : ent_arr[i] = e THEN [ent[e] EXCEPT !.ref = Get(@)] ELSE ent[e]]
    /\ Flushing([flush EXCEPT !.pc = "comp", !.vec = vec, !.todo = vec])
    /\ UNCHANGED <<comp, slots>>

(* ... complete them ... *)
flush_comp ==
    /\ flush.pc = "comp" /\ comp[<<"flush">>] = Idle
    /\ \/ \E i \in flush.todo :
            /\ \A j \in flush.todo : i <= j
            /\ Call(<<"flush">>, i, "FORCED", TRUE)
            /\ Flushing([flush EXCEPT !.todo = @ \ {i}])
       \/ /\ flush.todo = {}
          /\ Flushing([flush EXCEPT !.pc = "puts"])
          /\ UNCHANGED comp
    /\ UNCHANGED <<ent, slots>>

(* ... and drop the references. *)
flush_put ==
    /\ flush.pc = "puts"
    /\ \/ \E i \in flush.vec :
            /\ \A j \in flush.vec : i <= j
            /\ cmd_ent_put(ent_arr[i], ent[ent_arr[i]], 1)
            /\ Flushing([flush EXCEPT !.vec = @ \ {i}])
       \/ /\ flush.vec = {}
          /\ Flushing([flush EXCEPT !.pc = "grab"])
          /\ UNCHANGED <<ent, slots>>
    /\ UNCHANGED comp

----------------------------------------------------------------------------
Completion(c) == comp_claim(c) \/ comp_retire(c) \/ comp_finish(c) \/ exec_cb_handler(c)
Caller(e) == cmd_exec_throttle(e) \/ wait_cancel(e) \/ wait_func(e) \/ wait_timeout(e) \/ invoke_put(e)
Work(e) ==
    \/ work_sem(e) \/ work_busy(e) \/ work_busy_slotted(e) \/ cmd_alloc_index(e) \/ work_fill(e)
    \/ work_get(e) \/ work_ring(e) \/ poll_timeout(e) \/ work_end(e)
Timer(e) == timer_fire(e) \/ cb_timeout_handler(e) \/ timer_put(e)
Flush == mlx5_cmd_flush \/ mlx5_cmd_trigger_completions \/ flush_comp \/ flush_put

Next ==
    \/ \E e \in Ents : (\E k \in scn.kinds : cmd_exec(e, k)) \/ Caller(e) \/ Work(e) \/ Timer(e)
    \/ \E c \in Ctxs : Completion(c)
    \/ cleanup_start \/ cleanup_end
    \/ work_start
    \/ \E i \in Index : FwComplete(i)
    \/ \E by \in {"irq"} \cup Ents : cmd_comp_notifier(by)
    \/ eq_unlock
    \/ change_start \/ change_down \/ change_set
    \/ device_error \/ Flush

Spec == Init /\ [][Next]_vars

(* Threads, work items and interrupts run; firmware need not answer.       *)
Fairness ==
    /\ \A e \in Ents : WF_vars(Caller(e)) /\ WF_vars(Work(e)) /\ WF_vars(Timer(e))
    /\ \A c \in Ctxs : WF_vars(Completion(c))
    /\ WF_vars(work_start) /\ WF_vars(cmd_comp_notifier("irq")) /\ WF_vars(eq_unlock)
    /\ WF_vars(Flush)

FairSpec == Spec /\ Fairness

----------------------------------------------------------------------------
(* Properties. *)

Rets == {"0", "TIMEDOUT", "NXIO", "BUSY", "CANCELED"}

(* Every variable has the type the code gives it, and semaphores stay      *)
(* within their bounds.                                                    *)
TypeOK ==
    /\ ent \in [Ents -> [ref : Nat \cup {Saturated}, kind : AllKinds, idx : Index \cup {Null}, pending : BOOLEAN,
                         rref_cleared : BOOLEAN, ret : Rets, handling : BOOLEAN, slotted : BOOLEAN,
                         done : BOOLEAN, timer : {"off", "armed", "recover", "forced", "put"}]]
    /\ caller \in [Ents -> {"new", "throttle", "handling", "slotted", "done", "recover", "rewait",
                            "forced", "put", "end"}]
    /\ work \in [Ents -> {"none", "queued", "sem", "busy", "index", "fill", "get", "ring", "poll", "comp", "end"}]
    /\ wq \in Seq(Ents) /\ told \in [Ents -> Seq(Rets)]
    /\ comp \in [Ctxs -> [pc : {"idle", "claim", "retire", "finish", "called"}, i : Index \cup {Null},
                          e : Ents \cup {Null}, type : {"none", "EVENT", "FORCED", "POLLING"},
                          trig : BOOLEAN]]
    /\ bitmask \subseteq Index /\ ent_arr \in [Index -> Ents \cup {Null}]
    /\ sem \in 0..MaxRegCmds /\ pages_sem \in 0..1 /\ throttle_sem \in 0..(MaxRegCmds + 1) \div 2
    /\ mode \in {"POLLING", "EVENTS"} /\ allowed \in {"ALL", "eq"} /\ nb \in BOOLEAN
    /\ fw \in [Index -> Ents \cup {Null}] /\ executed \subseteq Ents /\ eqes \in Seq(Index)
    /\ eq \in {"irq", Null} \cup Ents
    /\ adm \in [pc : {"idle", "drain", "set"}, stage : 0..6, held : 0..MaxRegCmds + 1]
    /\ down \in BOOLEAN
    /\ flush \in [pc : {"off", "grab", "sync", "comp", "puts", "end"}, held : 0..MaxRegCmds,
                  vec : SUBSET Index, todo : SUBSET Index]
    /\ inflight \in Nat /\ cleanup \in {"no", "wait", "returned"}

(* Context c is in mlx5_cmd_comp_handler with entry e. *)
Completes(c, e) ==
    \/ comp[c].pc \in {"retire", "finish"} /\ comp[c].e = e
    \/ comp[c].pc = "claim" /\ ent_arr[comp[c].i] = e

(* Commands of mlx5_cmd_exec_polling go to a queue in events mode. Their   *)
(* event may come after the poll, for the next command in the slot.        *)
MixesPolling == "poll" \in scn.kinds

(* Somebody for whom the code takes or keeps a reference goes on to use    *)
(* entry e: its caller, its work handler, its timeout work, a completion   *)
(* handler of a callback, or the firmware of a live device.                *)
Covered(e) ==
    \/ caller[e] \notin {"new", "throttle", "end"}
    \/ work[e] \in {"queued", "sem", "index", "fill", "get", "ring", "poll"}
    \/ work[e] = "busy" /\ Blocking(e)
    \/ ent[e].timer # "off"
    \/ ~Blocking(e) /\ \E c \in Ctxs : Completes(c, e)
    \/ ~down /\ \E i \in Index : fw[i] = e \/ (i \in Range(eqes) /\ ent_arr[i] = e)

(* Anybody goes on to use e: a completion handler of a blocking command,   *)
(* the work handler of a callback that got no slot, and the flush, too.    *)
Used(e) ==
    \/ Covered(e)
    \/ work[e] = "busy"
    \/ \E c \in Ctxs : Completes(c, e)
    \/ \E i \in flush.vec : ent_arr[i] = e

(* The references of an entry cover everybody who uses it: mlx5_cmd_invoke *)
(* "can make the final ent_put()", and flushed commands "will not get      *)
(* freed in the meanwhile". The code breaks this in four ways, see Windows *)
(* in MCCmd.                                                               *)
UsedIsAllocated == \A e \in Ents : Used(e) => ent[e].ref > 0

(* The part of it that holds: as long as the device is up, an entry is not *)
(* freed under a caller, a work handler, a timeout work, the completion of *)
(* a callback or the firmware, however timeouts and late events race.      *)
RefsCoverUse == ~down /\ ~MixesPolling => \A e \in Ents : Covered(e) => ent[e].ref > 0

(* When nothing is in progress, all slots are free and all entries freed:  *)
(* the references neither leak at a timeout that races the completion, nor *)
(* at a flush that ends. In polling mode a command that timed out keeps    *)
(* its slot.                                                               *)
NothingLeaks ==
    (\A e \in Ents : caller[e] \in {"new", "end"} /\ ~Used(e) /\ work[e] # "comp")
      /\ flush.pc \in {"off", "end"} /\ eq = Null /\ mode = "EVENTS"
      => bitmask = Index /\ \A e \in Ents : ent[e].ref <= 0

(* "only real completion can free the cmd slot": the slot of a command     *)
(* that firmware executes is not given to another one, timeout or not. The *)
(* late event of a polled command breaks this.                             *)
FirmwareOwnsSlot ==
    \A i \in Index : fw[i] # Null /\ ~down /\ ~MixesPolling => i \notin bitmask /\ ent_arr[i] = fw[i]

(* A semaphore counts the free slots, so that cmd_alloc_index finds one    *)
(* after down: its error path, which forgets to complete slotted, is dead. *)
SemIsExact ==
    sem + (IF adm.held > MaxRegCmds THEN MaxRegCmds ELSE adm.held) + flush.held
      + Cardinality({e \in Ents : work[e] = "index" /\ ent[e].kind # "page"})
      + Cardinality(Index \ (bitmask \cup {Page})) = MaxRegCmds

(* Every command has one result at most, however its completions race.     *)
ToldOnce == \A e \in Ents : Len(told[e]) <= 1

(* "ret == 0: Command was executed by FW": success is never reported for   *)
(* what firmware has not executed, by event, poll, timeout or flush. The   *)
(* commands next to polled ones are left out: a late event breaks it.      *)
ZeroMeansExecuted ==
    \A e \in Ents : "0" \in Range(told[e]) /\ (MixesPolling => ent[e].kind = "poll") => e \in executed

(* "Upon return all callbacks given to mlx5_cmd_exec_cb() have been        *)
(* called": cleanup waits for callbacks whoever calls them.                *)
CleanupWaits ==
    cleanup = "returned" =>
       \A e \in Ents : ent[e].kind = "async" /\ work[e] # "none" => Len(told[e]) = 1

(* mlx5_cmd_change_mod and mlx5_cmd_allowed_opcode take effect only when   *)
(* no command has a slot: each is sent and completed under one mode and    *)
(* one allowed opcode.                                                     *)
QuietSwitch ==
    [][<<mode, allowed>>' # <<mode, allowed>> => \A e \in Ents : ent[e].idx # Null => ent[e].ref = 0]_vars

(* Every command returns, and every callback is called, even when firmware *)
(* never answers: the timeouts see to that, where the scenario has them. A *)
(* page command waits for its slot without a timeout, so that only one     *)
(* that got it is sure to return.                                          *)
CommandsReturn ==
    \A e \in Ents :
       Trouble("exec") /\ work[e] # "none" /\ (ent[e].kind = "page" => ent[e].idx # Null)
         ~> caller[e] = "end" /\ Len(told[e]) > 0

(* Commands of a dead device return, whether they had a slot or not, if    *)
(* none had timed out before (FlushEnds).                                  *)
AbortedReturn ==
    \A e \in Ents : down /\ work[e] # "none" ~> caller[e] = "end" /\ Len(told[e]) > 0

(* The flush of a dead device ends: "Mark the device as fatal in order to  *)
(* abort FW commands". A command that timed out before stops it: cmd_stuck *)
(* shows that.                                                             *)
FlushEnds == flush.pc = "grab" ~> flush.pc = "end"
============================================================================
