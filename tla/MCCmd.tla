------------------------------- MODULE MCCmd -------------------------------
(* Instances of the command interface for TLC. *)
EXTENDS Cmd

(* Commands are interchangeable memory. *)
Symm == Permutations(Ents)

Scenario(m, n, ks, md, tr) ==
    [max_reg_cmds |-> m, commands |-> n, kinds |-> ks, mode |-> md, trouble |-> tr]

(* Everybody wants a slot. *)
Crowded == Scenario(2, 3, {"block", "throttle", "page"}, "EVENTS", {"slot"})
(* Firmware is late, and answers after the timeout. *)
Late == Scenario(1, 3, {"block", "async"}, "EVENTS", {"exec"})
LatePages == Scenario(1, 3, {"block", "page"}, "EVENTS", {"exec"})
(* Callbacks in parallel, and the end of their context. *)
Callbacks == Scenario(2, 3, {"async"}, "EVENTS", {"exec"})
(* The device fails with commands in progress. *)
Dying == Scenario(1, 2, {"block", "async", "page"}, "EVENTS", {"error"})
(* The command EQ is created and destroyed with commands in progress. *)
Switching == Scenario(1, 3, {"block", "eq"}, "POLLING", {"exec"})
(* A command is polled and gets an event. *)
Polled == Scenario(1, 3, {"block", "poll"}, "EVENTS", {})

AllScenarios == {Crowded, Late, LatePages, Callbacks, Dying, Switching, Polled}

(* Fewer commands, for the temporal properties. *)
LiveScenarios ==
    {Scenario(1, 2, {"block", "async"}, "EVENTS", {"exec", "slot"}),
     Scenario(1, 2, {"page"}, "EVENTS", {"exec"})}
      \cup {Scenario(1, 2, {k}, "EVENTS", {"error"}) : k \in {"block", "async", "page"}}

(* A command times out, and then the device fails. *)
LateAndDying == {Scenario(1, 2, {"block"}, "EVENTS", {"exec", "error"})}

(* Where an entry is used after it was freed: the event of a command whose *)
(* caller gives up, the flush of a command that is being sent, a callback  *)
(* that gets no slot, and the event of a polled command after its poll.    *)
Windows ==
    {Scenario(1, 2, {"block"}, "EVENTS", {"exec"}),
     Scenario(1, 2, {"block"}, "EVENTS", {"error"}),
     Scenario(1, 2, {"async"}, "EVENTS", {"slot"}),
     Scenario(1, 2, {"block", "poll"}, "EVENTS", {})}
============================================================================
