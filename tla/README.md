# TLA+ models of the RDMA kernel drivers

This directory holds TLA+ specifications of parts of the RDMA stack in `src/`
(the MLNX_OFED kernel driver tree): the InfiniBand core, the mlx5 provider and
mlx5_core. Each component has a module that models its code, an `MC...` module
and `.cfg` files that check small instances with TLC, and, where a result is
worth having for all sizes, a proof module checked by TLAPS.

Conventions: an action has the name of the C function it models; a handler that
sleeps, drops a lock or waits for somebody is cut into several actions there and
nowhere else. A definition that starts with `Bug` is a plausible slip in the
code; it is not part of any specification and serves to show that a property
notices it.

## The system and its parts

| part | where | module |
| --- | --- | --- |
| user objects of a uverbs file | `infiniband/core/rdma_core.c`, `uverbs_main.c`, `uverbs_ioctl.c`, `uverbs_cmd.c` | `Uobject` |
| GSI QP, software completions, CQ polling | `infiniband/hw/mlx5/gsi.c`, `hw/mlx5/cq.c`, `core/cq.c` | `Gsi`, `GsiFifo` |
| multicast group membership | `infiniband/core/multicast.c` | `Multicast` |
| mlx5 command interface | `mlx5/core/cmd.c`, parts of `eq.c` and `health.c` | `Cmd` |

How they interact: a user process reaches the verbs through a uverbs file
(`Uobject`); the driver operations behind it end in firmware commands. The
connection managers and the multicast code of the core reach the fabric through
MADs, which leave through the GSI QP (`Gsi`) and come back through its CQ.
`PROJECT.json` lists every part, including those that are not modelled.

## Uobject: user objects of a uverbs file

**What it models.** One open uverbs file, the threads that run commands on it,
`close()` of the file, `close()` of the descriptors of FD objects, and removal
of the device. The state is the fields of `ib_uobject` (`ref`, `usecnt`,
`object`, `list`, `id`), of `ib_uverbs_file` (`idr`, `ucontext`, `fref`,
`onlist`, the rw-semaphore `rsem`/`wsem`), the SRCU section of the device
(`srcu`, `grace`) and a program counter per thread (`pc`) and per cleaner
(`cpc`).

| action | code |
| --- | --- |
| `ib_uverbs_ioctl`, `..._end` | entry and exit of a command, `srcu_read_lock` |
| `ib_init_ucontext`, `ib_uverbs_get_context` | creation of the ucontext, with the event FD in the write command |
| `rdma_alloc_begin_uobject` ... `rdma_alloc_commit_uobject` / `..._abort_uobject` | creation of an object |
| `xa_load`, `lookup_get_idr_uobject`, `lookup_get_fd_uobject`, `rdma_lookup_get_uobject`, `rdma_lookup_put_uobject` | lookup; the pointer is read from the xarray in one step and its kref taken in another |
| `uobj_destroy`, `destroy_hw`, `uverbs_destroy_uobject` | destroy command |
| `rdma_assign_uobject` | re-registration of an MR replaces the old object |
| `fd_close`, `uverbs_uobject_fd_release`, `fd_release_*` | release of an FD object |
| `ib_uverbs_close`, `ib_uverbs_remove_one`, `ib_uverbs_free_hw_resources`, `uverbs_destroy_ufile_hw`, `uverbs_cleanup_ufile`, `cleanup_pass_end`, `up_write`, `close_put`, `remove_put` | teardown by close and by device removal |

The driver's `destroy_hw` may fail while the file is in use. A thread uses at
most one looked-up and one new uobject per command, which is enough for every
pair of mechanisms to meet.

**Runs.**

* `uobject` (`MCUobject.cfg`; two threads, two IDR objects, one FD object, two
  indices, both cleaners; 540,904 states). `UsecntIsALock`: the counter
  agrees with who holds the object. `KrefIsExact`: the reference count is the
  number of owners. `HwObjectStable`: a locked object keeps its HW object, and a
  command that may see the device finds the struct file of an FD object it looked up.
  `CleanupMeetsNoCommand`: the `WARN_ON` of cleanup cannot fire because of a
  lookup in progress. `FdReleaseGetsLock`: the release of an FD never fails its
  try-lock. `RemovalLeavesNothing`, `ReleaseFindsNoHw`: removal and the last put
  find nothing left. `FreedStaysFreed`, `NoCreationAfterGrace`: freed memory
  does not come back, nothing is created behind removal.
* `uobject_live` (one IDR and one FD object; 85,895 states). Commands end and
  removal ends: nobody waits for ever for `hw_destroy_rwsem` or for the SRCU
  section. Closing the file and its descriptors frees all memory.
* `uobject_null` violates `RefusedIsPut`: see Findings.

A command that `rdma_lookup_get_uobject` refuses gives the `uobj->object` of an FD
object to `fput`. When device removal has destroyed the object since it was looked up,
that is NULL and the thread does not return: `lookup_put` has no step then (`Faults`).
It stays inside the SRCU section and keeps its references. `CommandsEnd` makes an
exception for such a thread. `CloseFreesAll` and `RemovalEnds` need none: a command
can only be refused that way when removal is past its grace period, and the uverbs file
is not released while a command runs on it, so it never is.

When the driver refuses to destroy the old object of a re-registration,
`rdma_assign_uobject` ignores it, and the old uobject stays on the list of the file,
locked by nobody. The model takes this path; cleanup warns and destroys it as it
does any other, so the properties above hold.

Deadlock is not checked in these runs: a file that is closed, on a device that
is removed, has nothing left to do.

**Bounds.** `Uobjs` bounds the number of allocations, since memory is never used
twice in the model; that makes use after free visible. Two threads and two
cleaners give every pair of concurrent parties, three objects leave one of each
kind to be met by each. Threads, IDR objects and indices are interchangeable
(symmetry in the safety runs only).

**Fairness.** Weak fairness of the steps of a running command, of a running
release and of a running cleaner: the code that holds a lock is scheduled. No
fairness for starting a command, for closing the file or removing the device.
The rw-semaphore keeps new readers out once a writer waits, as the kernel's does.

**Proved** (`UobjectInv`, `UobjectUse`, `UobjectProofs`): every safety property of the run, for any finite sets of threads,
objects and indices. The only assumption is `ConstantsAssumption` (the sets are
finite, the marker values are not objects). There are four inductive invariants,
all defined in `UobjectInv`; each was checked by TLC on the instance of the run
before it was proved.

`IInv` stands by itself and gives `TypeOK`, `CleanupMeetsNoCommand`,
`RemovalLeavesNothing` and `NoCreationAfterGrace`. It is the conjunction of

* `ThreadShape`: what `cur`, `new` and `mode` are at each program counter;
* `SemShape`: who holds `hw_destroy_rwsem`, and that a writer is alone;
* `Gates`: a command that holds an object or creates one while removal is under
  way is one that the grace period waits for;
* `Publication`: an uncommitted object is known to its creator only;
* `Owned`: a HW object is on the list of the file or in the hands of its creator;
* `HasContext` and `Teardown`: no listed object without a ucontext, and no
  ucontext once a cleaner is past its last pass.

`CleanupMeetsNoCommand` needs `SemShape` and `Gates` together: the rw-semaphore
keeps creators and destroyers out, SRCU keeps users out. `RemovalLeavesNothing`
needs `Owned` as well.

`LockInv` is inductive given `IInv` and gives `UsecntIsALock` and
`FdReleaseGetsLock`. With `UsecntIsALock` it says

* `Filps`: the reference count of a struct file is that of its users (its creator or
  descriptor, and the lookups in progress), and its release begins at 0, so nobody
  can look it up any more;
* `FdLocks`: only creation and release lock an FD object exclusively. This is what
  `lookup_get_fd_uobject` enforces by refusing any mode but read, and without it
  the release could find the lock taken.

`RefInv` is inductive given the two and gives `KrefIsExact`, `FreedStaysFreed`
and `ReleaseFindsNoHw`. With `KrefIsExact` it says

* `Indices`: an object has at most one index in `ufile->idr`, the one in its `id`, also
  across the swap of `rdma_assign_uobject`; otherwise `remove_handle` could drop
  the reference of another object's entry;
* `ToClean`: a cleanup pass only meets objects that are still linked;
* `FileRefs`: the references on the file are those of the open file, of each struct
  file and of removal. So the last one goes when nothing is left to clean up.

`HwObjects` is inductive given `IInv` and `LockInv` and gives `HwObjectStable`. Its
part `HwLocked` is the one for locked objects. A lookup checks for no HW object: it
relies on `HwReach`, that before cleanup an object which can be found and is not locked
exclusively has one, and on `HwNew` for the object that is about to be published.

Counting is done object by object (`LockAt`, `FilpAt`, `KrefAt`): a step changes the
set of readers or lookups of one object by one element, and leaves every other
object alone. Each proof has one step per action.

## Gsi: the GSI QP and the CQ of the MAD layer

**What it models.** The MAD layer posts sends on QP1; `gsi.c` passes each to the
UD QP of its P_Key, or drops it, and keeps a ring `outstanding_wrs` so that
completions are reported in posting order. Completions are put as software
completions on the CQ of the MAD layer (`wc_list`), which the work item of
`core/cq.c` polls in batches under a budget and then arms. `setup_qp` is run by
two callers and drops the lock in the middle.

| state | code |
| --- | --- |
| `pi`, `ci`, `wc`, `completed`, `in_use` | `outstanding_pi`, `outstanding_ci`, `outstanding_wrs[]` |
| `gen` | `gsi->lock` is held by `generate_completions`, so that only polls interleave with it |
| `tx_qps`, `made`, `spc`, `sidx`, `sqp` | `gsi->tx_qps` and the progress of `setup_qp` in its callers |
| `hw` | what the HCA has to complete, per UD QP, in order |
| `wc_list`, `notify`, `nwork`, `work`, `ppc`, `polled` | the CQ, its notification, the poller |

**Runs.** `gsi` (two slots, counters modulo 4, three send buffers, two UD QPs,
batch 1, budget 2; about 319,000 states): `InOrder` is refinement of `GsiFifo`, a
queue that reports finished requests from its head, under the mapping
`queue <- Pending`. `HcaOwnsItsSlots`: the HCA has exactly the slots that are
outstanding and not complete. `RoomForMad`: a caller with fewer than
`max_send_wr` sends pending never gets `-ENOMEM`. `NoLostWakeup`: completions on
the list have a poller. `gsi_setup` violates `NoQpOverwritten`: see Findings.

**Bounds.** Two slots and three buffers reach full, wrapped and half-polled rings;
the counters wrap after four posts. Nothing rounds the module parameter
`send_queue_size` of `ib_mad`, so `max_send_wr` need not be a power of two. For other
sizes the slot of a counter jumps when the counter wraps at 2^32, and the ring is out of
order from then on: with three slots and counters modulo 4 TLC finds `RoomForMad`
violated. That takes 2^32 sends on one port; no run is about it.

`get_tx_qp` is modelled for devices with `deth_sqpn`; others have `num_qps = 0`, and all
sends go to the QP of the receive side.

**Proved** (`GsiProofs`), for all constants that satisfy `GsiAssumption` (at least one
slot, fewer than the counters have values, positive numbers of QPs, batch and budget):

* `NoLostWakeup` (`WakeupsAreNotLost`). It is not inductive; `Handshake` adds
  `Watched`: the CQ is armed or a poll is coming.
* `TypeOK` (`TypeCorrect`), from the inductive invariant `TypeInv`: what is on the list
  of the CQ or reported has an id that was posted.
* `HcaOwnsItsSlots` and `RoomForMad` (`HcaSlots`, `Room`), from the inductive invariant
  `RingInv`, and the refinement `InOrder` (`Refinement`): every step of the QP is a step
  of `GsiFifo` or leaves `Pending` and `out` alone. These hold as long as `WrapsWell`:
  the size of the ring divides the range of the counters, or `outstanding_pi` has not
  wrapped.
* `WrapsForEver`: for sizes that divide the range the three hold without that condition,
  through every wrap.

`RingInv` is `TypeOK`, `Window` and `Sent`. `Window` says where everything is:
the sends that are accepted and not reported occupy consecutive slots
`Slot(1) .. Slot(Size)` (`Slot(k)` is taken modulo the ring), the first
`Len(wc_list)` of them are those on the list of the CQ, in this order, and are
the slots in use, the others are the ring between `ci` and `pi`, and
`Size <= MaxSendWr`. None of the properties says this, and all need it: the test
of `in_use` in `mlx5_ib_add_outstanding_wr` looks at one slot only, and it is
enough because slots come free oldest first. `Sent` says that the HCA has the
slots of the ring that are not complete, each once. `GsiProofs` has the
arithmetic (differences and slots of counters that wrap) and how a post, a
generated completion and a poll move the window, and then one lemma per
action for `RingInv` and one for the refinement. `polled < Budget` is part of
`RingInv` for the type of `polled`.

That every accepted send is reported in the end is not checked; `NoLostWakeup` is the
part of it that an interleaving could break.

## Multicast: groups of a port

**What it models.** All local users of a multicast group share a `struct
mcast_group`, whose state machine (`mcast_work_handler`) grants the oldest request,
asks the SA to join, leaves join states nobody uses, or tells the members of an
event. It runs in three contexts: the ordered workqueue `mcast_wq`, the CQ work
that delivers answers of the SA, and the timeout work of the MAD layer. Each pass
is cut where the code drops `group->lock`: before it calls back, sends, or looks
up the P_Key.

| state | code |
| --- | --- |
| `grp` | `struct mcast_group`; a free one has `ref = 0` and is not in `port->table` |
| `mem` | `struct mcast_member`, with the progress of its user and what its callback was told |
| `ctx` | the progress of the state machine, per context |
| `wq`, `query` | queued work; the query that is out per group, with `last_join` and `leave_state` |
| `sa`, `pkey`, `event` | join states the SA has; the P_Key table; an event not dispatched yet |
| `pref`, `rem`, `flushing` | `port->refcount`, progress of `mcast_remove_one` |

Memory of members and groups is reused, as by `kmalloc`. `mcast_remove_one` comes
when the users, which are clients registered later, have gone.

What may happen in a behaviour is its scenario (`scn`), which `Init` chooses: the
join states and MGIDs that users ask for, the MGIDs that the SA chooses, whether
queries time out, and the number of events of the port.

**Runs.** `multicast` (two members; 552,940 states) has four scenarios: one group with
the join types `full` and `send`; one group whose queries time out; one group whose
port has an event; and joins of `mgid0`, where the SA chooses the MGID. `Serialized`:
the state machine of a group is queued, running or waiting for the SA in exactly one
place, and nowhere when idle. `GroupRefIsExact`, `MemberRefIsExact`: the counters are
the number of their holders, so nothing is freed early or leaked. `ActiveIsJoined`:
who was told to be joined is joined with the SA, or an event is on its way.
`ToldOnce`: one result, and one reset after a success. `RemovalWaitsForAll`: nothing
refers to the port when it is freed. `multicast_live` (16,381 states): `JoinAnswered`,
`RemovalEnds`. `multicast_retry` is violated: see Findings.

Two weaknesses of the code are not shown by a run. `process_join_error` recognises the
failed request by its address, which a new member can have: that member is failed
although no query was sent for it. And `join_handler` ignores that the new MGID of a
group is taken; in the model the SA chooses an MGID without members that no group here
has recorded (`SaJoin`), and a real SA may also choose that of a group that is leaving.

**Bounds.** Two members let one be freed while the other waits, is told or is
granted, and let a type be left or kept; two groups let MGIDs collide. One retry
instead of three; one event per run.

**Fairness** (`multicast_live`). Work items and callbacks run, and a query is
answered or refused, which the 3 s timeout of the code ensures. Nobody has to join
or free, except after a callback that returned non-zero.

**Proved** (`MulticastProofs`), for any finite sets of groups, members and join types,
any number of retries and any scenarios that satisfy `MulticastAssumption` (so any
number of events, with queries lost or not, with MGIDs asked for or chosen by the SA, in
any combination): `TypeOK`, `Serialized`, `GroupRefIsExact`, `MemberRefIsExact`,
`ToldOnce` and `RemovalWaitsForAll`. None of them is inductive. `IInv` is; it says

* `Typed` and `Shape`: the types with counts that may be negative, and which fields of a
  context, a query and a member are in use when;
* `GroupInv`: a group that is not idle is in exactly one place, and its references are
  those of its holders, of its state machine and of runs about to drop theirs;
* `ListInv`: a member is on one list of its own group at most, waits there untold or is
  granted, and every granted member that is held is on the active list;
* `MemberInv`, `CountInv`, `PortInv`: the references of members and port, and
  `group->members`, are exactly what they count. That no count is ever negative (`TypeOK`)
  follows from these and from nothing less;
* `WorkInv`: what a context that dropped `group->lock` still knows of the member it works
  for: it is of this group, in use, and not told yet (or told that it is joined, before a
  reset). `ToldOnce` follows;
* `RetryInv`: two contexts can be inside the retry of one leave at the same time, and
  `retries` is large enough for both decrements.

The central argument is `GroupInv`: the place of the state machine is a token that
`queue_work`, a context and a query hand to each other, and that holds one reference.
A context that works for a member has the token of its group, so no other context works
for a member of the same group (`WorkInv` needs this). The action proofs are in three
layers. `MulticastEffects` defines for each action its effect on the fields that the
invariants mention; `MulticastSteps` proves that every action has its effect;
`MulticastGroups` and `MulticastMembers` prove that every effect keeps each conjunct.
`MulticastState` has the declarations that these and `Multicast` share.

Only model-checked: `JoinAnswered` and `RemovalEnds` (liveness), and `ActiveIsJoined`,
which the scenarios check for port events and for MGIDs of the SA apart from each other.
It does not hold with both: an SA that lost its members may choose an MGID again that it
has just given to another group here, whose answer `join_handler` has not recorded yet.
Two groups then serve that MGID, and the leave of one ends the membership of the other's
members. TLC finds this with `events = 1` and `new_mgids = {Y}` (38 steps).

## Cmd: the command interface of the device

**What it models.** A command of an mlx5 device gets an entry (`struct
mlx5_cmd_work_ent`), a slot of the command queue, and a doorbell. It is completed
by `mlx5_cmd_comp_handler`, which runs concurrently in five places: the event
handler, the recovery of lost events by a caller or by a timeout work, the polling
work handler, the timeouts themselves, and the flush of a dead device. Whoever
clears `PENDING_COMP` completes the command; references decide who frees the slot.
Each step of the model ends where another context can come in between.

| state | code |
| --- | --- |
| `ent` | the entry: reference count, slot, state bits, result, completions, timeout work |
| `caller`, `work`, `comp` | progress of the caller, of `cmd_work_handler`, of each completion handler |
| `wq`, `sem`, `pages_sem`, `throttle_sem`, `bitmask`, `ent_arr` | the workqueue, the semaphores and the slots |
| `mode`, `allowed`, `nb`, `adm` | `cmd->mode`, `allowed_opcode`, the notifier, progress of `create_async_eqs` and `destroy_async_eqs` |
| `fw`, `executed`, `eqes`, `eq` | what firmware executes and has executed, its events, who holds the lock of the EQ |
| `down`, `flush` | the failed device, progress of `mlx5_cmd_flush` |
| `inflight`, `cleanup` | `struct mlx5_async_ctx` |
| `told` | results that were returned or given to the callback |

An entry is memory that is not used again, so a use after the last put is seen by
`UsedIsAllocated`. Firmware may be arbitrarily slow or silent. Timeouts of tens of
seconds come after the doorbell was rung, which takes microseconds.

What may happen in a behaviour is its scenario (`scn`), which `Init` chooses: the
number of slots, how many commands of which kinds, the mode at the start, and which
`trouble` there is: late firmware (`exec`), a long wait for a slot (`slot`), and a device
that fails (`error`). Within a scenario nothing is left out: every order of events,
timeouts, flush and work handlers is taken, those in which the code goes wrong included.
An entry that is used after its last put stays in the model with `ref = 0`, and a
`refcount_inc` on it saturates, as `refcount_t` does.

**Runs.** `cmd` (688,701 states) has seven scenarios, named in `MCCmd`: `Crowded`
(throttled, waiting and page commands for two slots), `Late` and `LatePages` (timeouts
and late answers), `Callbacks` (and the cleanup of their context), `Dying` (the device
fails), `Switching` (events are set up and torn down) and `Polled`. `RefsCoverUse`:
while the device is up, an entry is not freed under those the code takes a reference
for: caller, work handler, timeout work, completion of a callback, firmware.
`NothingLeaks`: when all is quiet all slots are free. `FirmwareOwnsSlot`: a slot that
firmware executes is not given to another command, also after a timeout. `SemIsExact`:
semaphores and bitmask agree, so the error path after `cmd_alloc_index` is dead code.
`ToldOnce`, `ZeroMeansExecuted`: one result, and success only of what firmware executed.
`CleanupWaits`, `QuietSwitch` as their comments say. `cmd_live` (58,837 states):
`CommandsReturn`, all return although firmware never answers; `AbortedReturn` and
`FlushEnds`, a dead device gives back its commands.

`cmd_freed` violates `UsedIsAllocated`, which says that nobody at all uses an entry
after its last put. `Windows` has a scenario for each of four ways; each of them alone
gives a counterexample:

* the caller gives up while, or just before, an event completes its command: the
  completion handler goes on with a freed entry;
* the flush completes a command between `set_bit(PENDING_COMP)` and the end of
  `cmd_work_handler`, and its caller, or its callback, drops the last reference: the
  work handler goes on with a freed entry;
* a callback command waits too long for its slot: it is freed, and then its `slotted` is
  completed;
* the event of a command of `mlx5_cmd_exec_polling` comes after the poll: it hits the
  freed entry, or completes the next command in the slot, which firmware has not executed.

These limit what the other properties can say. `RefsCoverUse` is about a device that is
up, and not about completion handlers of blocking commands. `RefsCoverUse` and
`FirmwareOwnsSlot` leave out scenarios with `mlx5_cmd_exec_polling`, and there
`ZeroMeansExecuted` is about the polled commands only; with the others TLC finds it
violated. `cmd_stuck` violates `FlushEnds` when a command has timed out before the device
fails; the scenarios of `cmd_live` have one or the other, so `FlushEnds` and
`AbortedReturn` are about devices on which nothing had timed out. `CommandsReturn` leaves
out page commands that have not got the page slot: they wait for it without a timeout,
behind one that firmware may never answer. `NothingLeaks` is about events mode: a command
that times out in polling mode keeps its slot for good.

**Bounds.** Three commands are enough for one that timed out, one that waits for its
slot and one that wants it next; with the page slot, both kinds of slot are there.
There is one slot where scarcity matters and two where commands run side by side;
each command is issued once, and events are set up and torn down once.

**Fairness** (`cmd_live`). Threads, work items, timers, interrupts and the
flush go on when they can. Firmware need not answer, nobody has to issue a command,
and the device need not fail.

## Findings

* `setup_qp` publishes a QP without looking again after it dropped the lock
  (`gsi_setup`); the `WARN_ON_ONCE` there can fire and a QP is lost.
* A command on an FD object that is refused because the device was removed may call
  `fput(NULL)` (`uobject_null`).
* `leave_handler` writes `group->retries` after it gave its reference to the next
  query (`multicast_retry`).
* An entry of the command interface is used after it was freed, in four ways: a command
  that is answered just when its caller gives up, a flush that meets a command which is
  being sent, a callback command that gets no slot, and an event after the poll
  (`cmd_freed`).
* The flush never ends when a command timed out and firmware stays silent (`cmd_stuck`).

## What is only model-checked

Liveness is checked by TLC on the instances above, and so is
every property that is not named under "Proved". Temporal reasoning with
fairness and induction over sequences are outside what the proof tools do.

## Not modelled

* **mlx5 local request scheduler** (`infiniband/hw/mlx5/scheduler.c`, `infiniband/hw/mlx5/scheduler.h`). The bodies of the scheduler are commented out in this tree; what is left changes no state.
* **mlx5 local connection helper** (`infiniband/hw/mlx5/conn.c`, `infiniband/hw/mlx5/conn.h`). A kernel-side sequence of verbs calls for one test connection, straight-line code over other components.
* **IB connection manager** (`infiniband/core/cm.c`, `infiniband/core/cm_msgs.h`). Connection state machine over MADs; needs a model of the MAD layer and of the peer, left for later.
* **iWARP connection manager and port mapper** (`infiniband/core/iwcm.c`, `infiniband/core/iwpm_msg.c`, `infiniband/core/iwpm_util.c`). mlx5 is not an iWARP device; the connection states are driven by providers outside this tree.
* **RDMA connection manager** (`infiniband/core/cma.c`, `infiniband/core/ucma.c`). Sits on the IB and iWARP connection managers, on addr.c and on the GID cache.
* **MAD layer and RMPP** (`infiniband/core/mad.c`, `infiniband/core/mad_rmpp.c`, `infiniband/core/agent.c`, `infiniband/core/smi.c`, ...). Only the way in which it posts sends on the GSI QP is modelled, as the environment of Gsi.
* **SA queries** (`infiniband/core/sa_query.c`). Query table over the MAD layer and over netlink path resolution.
* **GID and P_Key cache** (`infiniband/core/cache.c`, `infiniband/core/roce_gid_mgmt.c`). Table of reference counted GID entries fed by network events.
* **Address resolution** (`infiniband/core/addr.c`, `infiniband/core/ib_addr_dummy.c`). Request list driven by neighbour and netlink events of the kernel.
* **Device registration** (`infiniband/core/device.c`, `infiniband/core/sysfs.c`, `infiniband/core/nldev.c`, `infiniband/core/netlink.c`). Registration, clients and namespaces of ib_device; only the removal of one device is seen, by Uobject.
* **Verbs, memory regions and resource tracking** (`infiniband/core/verbs.c`, `infiniband/core/umem.c`, `infiniband/core/umem_odp.c`, `infiniband/core/umem_dmabuf.c`, ...). Thin wrappers over driver operations and memory management of the kernel.
* **uverbs object types and parsing** (`infiniband/core/uverbs_std_types.c`, `infiniband/core/uverbs_std_types_async_fd.c`, `infiniband/core/uverbs_std_types_cq.c`, `infiniband/core/uverbs_std_types_mr.c`, ...). Each handler is one driver operation of Uobject; attribute parsing is data conversion.
* **mlx5_ib QPs, SRQs, memory regions and UMR** (`infiniband/hw/mlx5/qp.c`, `infiniband/hw/mlx5/qpc.c`, `infiniband/hw/mlx5/wr.c`, `infiniband/hw/mlx5/srq.c`, ...). Layout of work queue entries, firmware commands and page tables; the results depend on the HCA.
* **mlx5_ib device, flow steering and DEVX** (`infiniband/hw/mlx5/main.c`, `infiniband/hw/mlx5/main_ext.c`, `infiniband/hw/mlx5/fs.c`, `infiniband/hw/mlx5/devx.c`, ...). Translation of verbs to firmware commands.
* **mlx5_core device, events and flow steering** (`net/ethernet/mellanox/mlx5/core/main.c`, `net/ethernet/mellanox/mlx5/core/eq.c`, `net/ethernet/mellanox/mlx5/core/health.c`, `net/ethernet/mellanox/mlx5/core/fw_reset.c`, ...). Device start and stop, tables programmed into the HCA.
* **mlx5 Ethernet driver** (`net/ethernet/mellanox/mlx5/core/en_main.c`, `net/ethernet/mellanox/mlx5/core/en_rx.c`, `net/ethernet/mellanox/mlx5/core/en_tx.c`, `net/ethernet/mellanox/mlx5/core/en_tc.c`, ...). Network data path and its offloads.
* **IPoIB, iSER, SRP and RTRS** (`infiniband/ulp/ipoib/ipoib_main.c`, `infiniband/ulp/iser/iscsi_iser.c`, `infiniband/ulp/isert/ib_isert.c`, `infiniband/ulp/srp/ib_srp.c`). Upper layer protocols; clients of the modelled parts.
* **NVMe over RDMA** (`nvme/host/rdma.c`, `nvme/target/rdma.c`). Clients of the verbs layer and of the block layer.
* **Network protocols over RDMA** (`net/sunrpc/xprtrdma/transport.c`). Clients of the verbs layer.
* **fwctl, vdpa, vfio and auxiliary bus** (`fwctl/main.c`, `base/auxiliary_main.c`). Character device, bus and virtualisation glue.
* **Compatibility layer and build scripts** (`compat/Makefile`). Backports of kernel functions and build machinery; generated or not part of the running system.

Of the modelled parts:

* **uverbs user objects (rdma_core)**: Life cycle of the uobjects of one uverbs file: allocation, commit, abort, lookup, destroy, re-registration, FD release, cleanup at close and at device removal, the ucontext. A command touches at most one looked-up and one new uobject. The compat branch of uverbs_try_lock_object for kernels without atomic_fetch_add_unless, user mmaps, the parsing of attributes and the per-object handlers are not modelled.
* **mlx5 GSI QP and software completions**: Posting, completion and in-order reporting of sends on the GSI QP, the software completions of the CQ, its notification and polling, and the creation of the send QPs. Destruction of the GSI QP, hardware CQEs of the MAD CQ and the flush on a fatal device error are not modelled.
* **Multicast group membership**: Joining and freeing of members, the state machine of the groups in its three contexts, port events, removal of the device. The MAD layer and the SA are an environment that answers, refuses or lets a query time out; a query that timed out is not processed by the SA later. cmp_rec is a choice between a fitting and an unfitting record. ib_sa_get_mcmember_rec and ib_init_ah_from_mcmember change no state. Failing allocations of a join leave no trace and are left out.
* **mlx5 command interface**: Slots, references, the work handler, completions by event, polling, timeout and flush, callbacks and their cleanup, throttling, change of mode and allowed opcode. Of eq.c and health.c only what completes, flushes or switches commands. Left out: layout, mailboxes, tokens and signatures (data), the message cache, statistics, debugfs and sysfs, commands issued through another VHCA, failing allocations, and the states of the interface before it is up, where commands are refused as when the device is down.
