---------------------------- MODULE MCMulticast ----------------------------
(* Instances of the multicast groups for TLC. *)
EXTENDS Multicast, TLC

CONSTANTS X, Y    \* MGIDs

(* Members and groups are interchangeable memory. *)
Symm == Permutations(Members) \cup Permutations(Groups)

Full == {{"full"}}
FullOrSend == {{"full"}, {"full", "send"}}

OneGroup(js, time, n) ==
    [join_states |-> js, mgids |-> {X}, new_mgids |-> {}, timeouts |-> time, events |-> n]

(* Members of two types. *)
TwoTypes == OneGroup(FullOrSend, FALSE, 0)
(* Queries are lost. *)
Lossy == OneGroup(Full, TRUE, 0)
(* An event of the port comes. *)
Eventful == OneGroup(Full, FALSE, 1)
(* Joins of mgid0, and of the MGID that the SA has chosen. *)
Chosen ==
    [join_states |-> Full, mgids |-> {}, new_mgids |-> {Y}, timeouts |-> FALSE, events |-> 0]

AllScenarios == {TwoTypes, Lossy, Eventful, Chosen}
LiveScenarios == {OneGroup(Full, FALSE, 0)}
LossyScenarios == {Lossy}
============================================================================
