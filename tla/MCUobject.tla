----------------------------- MODULE MCUobject -----------------------------
(* Instances of the uobject life cycle for TLC. *)
EXTENDS Uobject, TLC

(* Threads, IDR uobjects and indices are interchangeable. *)
Symm == Permutations(Threads) \cup Permutations(IdrUobjs) \cup Permutations(Handles)

============================================================================
