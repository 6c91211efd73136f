---------------------------- MODULE MCScheduling ----------------------------
(* Scheduling on small sets; requests and firings are interchangeable. *)
EXTENDS Scheduling, TLC

RequestSymmetry == Permutations(Requests)
Interchangeable == Permutations(Requests) \union Permutations(Firings)
=============================================================================
