------------------------------ MODULE MCServices ------------------------------
(* Small instances of Services: the setups of the tools and their servers,    *)
(* and the plans of workflows.                                                *)
EXTENDS Services

-----------------------------------------------------------------------------
(* Two tool servers, the second of which lists a tool of the first again.     *)

Setup ==
  [product |-> "sdk", direct |-> FALSE, registers |-> {}, builtin |-> {"b"},
   offers |-> <<<<"m">>, <<"o", "m">>>>, unreadable |-> {}, before |-> <<>>, renamed |-> "b",
   redacts |-> FALSE, allowed |-> {}, wanted |-> {"b", "m", "o"}]

MCSetups ==
  {[Setup EXCEPT !.wanted = {"m", "o"}, !.registers = {"m"}],
   [Setup EXCEPT !.product = "app", !.wanted = {"m"}],
   [Setup EXCEPT !.unreadable = {"m"}, !.wanted = {"m", "o"}],
   [Setup EXCEPT !.before = <<"raise", "rename">>, !.allowed = {"m"}],
   [Setup EXCEPT !.before = <<"pass", "short">>],
   [Setup EXCEPT !.before = <<"rename">>, !.allowed = {"b"}, !.redacts = TRUE],
   [Setup EXCEPT !.direct = TRUE, !.registers = {"m"}, !.wanted = {"m"}]}

-----------------------------------------------------------------------------
(* Three tasks: chains, forks and joins with pauses, approvals and            *)
(* cancellations, every condition on the second task, and every graph of      *)
(* dependencies for one run.                                                  *)

Unconditional == [t \in Tasks |-> "none"]
Plan ==
  [deps |-> [t \in Tasks |-> {}], condition |-> Unconditional, runs |-> Runs, overlap |-> FALSE,
   approves |-> FALSE, cancels |-> FALSE]
Chain == [t \in Tasks |-> {u \in Tasks : u = t - 1}]
Fork == [t \in Tasks |-> IF t = 1 THEN {} ELSE {1}]
Join == [t \in Tasks |-> IF t = 3 THEN {1, 2} ELSE {}]

MCPlans ==
  {[Plan EXCEPT !.deps = d, !.runs = {"r1", "r2"}, !.condition = [Unconditional EXCEPT ![2] = c],
                !.approves = TRUE, !.cancels = TRUE] :
     d \in {Chain, Fork, Join}, c \in {"none", "false", "raises", "results"}}
    \union {[Plan EXCEPT !.deps = d] : d \in {Fork, Join}}
    \union {[Plan EXCEPT !.deps = d, !.runs = {"r1"}] : d \in [Tasks -> SUBSET Tasks]}

(* A second caller that executes the workflow while a run is under way.       *)
MCOverlaps == {[Plan EXCEPT !.deps = Chain, !.overlap = TRUE]}
=============================================================================
