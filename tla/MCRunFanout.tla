------------------------------ MODULE MCRunFanout ------------------------------
(* RunFanout with the clients that get in each other's way. *)
EXTENDS RunFanout

MCScenes ==
  {{"stream", "cancel"}, {"stream", "crash"}, {"answer", "cancel"}, {"answer", "crash"},
   {"create", "crash"}, {"create", "cancel"}, {"stream", "create"}}

(* A stream that got the last event ends, and a conversation whose run died   *)
(* with its process gets a run again.                                         *)
NothingStuck == StreamEnds /\ Recovers
=============================================================================
