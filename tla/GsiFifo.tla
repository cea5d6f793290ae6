------------------------------ MODULE GsiFifo ------------------------------
(***************************************************************************)
(* What the GSI QP promises the MAD layer that posts on it: every accepted *)
(* work request completes once, in the order of posting, and not before    *)
(* the HCA is done with it.                                                *)
(***************************************************************************)
EXTENDS Integers, Sequences

CONSTANTS WrIds, Statuses

VARIABLES
    queue,   \* accepted and not yet reported: [id, st], st "POSTED" or a status
    out      \* the completions of the last poll

Init == queue = <<>> /\ out = <<>>

(* A work request is accepted; one that is dropped is done at once. *)
Accept ==
    /\ \E id \in WrIds, st \in Statuses \cup {"POSTED"} :
         queue' = Append(queue, [id |-> id, st |-> st])
    /\ UNCHANGED out

(* The HCA is done with some work request. *)
Finish ==
    /\ \E k \in DOMAIN queue, st \in Statuses :
         /\ queue[k].st = "POSTED"
         /\ queue' = [queue EXCEPT ![k].st = st]
    /\ UNCHANGED out

(* A poll reports the oldest work requests, all of them done. *)
Report ==
    \E n \in 0..Len(queue) :
       /\ \A k \in 1..n : queue[k].st # "POSTED"
       /\ out' = SubSeq(queue, 1, n)
       /\ queue' = SubSeq(queue, n + 1, Len(queue))

Next == Accept \/ Finish \/ Report

Spec == Init /\ [][Next]_<<queue, out>>

============================================================================
