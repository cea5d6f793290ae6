------------------------------- MODULE MCGsi -------------------------------
(* Instances of the GSI QP for TLC. *)
EXTENDS Gsi, TLC

(* Send buffers and UD QPs are interchangeable. *)
Symm == Permutations(WrIds) \cup Permutations(QPs)

============================================================================
