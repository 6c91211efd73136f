------------------------------ MODULE MCChatRun ------------------------------
(* Instances of ChatRun for TLC. The requests of one kind are alike. *)
EXTENDS ChatRun, TLC

RequestSymmetry ==
  Permutations(Creators) \union Permutations(Streams) \union Permutations(Cancellers)

(* Every run comes to an end in the database, every question is closed, and   *)
(* every stream that subscribed to a live run ends.                           *)
EverythingEnds == RunSettles /\ QuestionEnds /\ ListenersEnd
=============================================================================
