------------------------------- MODULE Services -------------------------------
(* What work is handed to: the tools and their servers (ToolServers), the     *)
(* circuit breaker before a provider (CircuitBreaker, extended) and the       *)
(* workflow orchestrator (Workflow). They share no state, so each behaviour   *)
(* is one component's: part says whose, the others stay as they begin. Parts  *)
(* selects components for a run.                                              *)
EXTENDS CircuitBreaker, Sequences

CONSTANTS
  Parts,
  N, Tools, Calls, Nobody, Attempts,   \* of ToolServers
  Setups, IdleSetup,                   \* its scenes, and the one while others work
  Tasks, Runs,                         \* of Workflow
  Plans, IdlePlan,                     \* its scenes whose callers wait for a run to end,
  Overlaps                             \* and those where a second caller does not

VARIABLES
  part,
  setup, phase, attempt, ready, stopping, clients, defs, serverOf,      \* ToolServers
  starter, stopper, chain, routing, user, call, queue, inClient,
  plan, status, task, results, run, done, approved, held, cancelled     \* Workflow

serversVars == <<setup, phase, attempt, ready, stopping, clients, defs, serverOf, starter, stopper,
                 chain, routing, user, call, queue, inClient>>
workflowVars == <<plan, status, task, results, run, done, approved, held, cancelled>>
all == <<part, vars, serversVars, workflowVars>>

Servers == INSTANCE ToolServers WITH Scenes <- Setups \union {IdleSetup}, scene <- setup
Orchestrator == INSTANCE Workflow WITH Scenes <- Plans \union {IdlePlan} \union Overlaps, scene <- plan

ASSUME ServicesAssumption ==
  /\ Parts \subseteq {"breaker", "tools", "workflow", "overlap"}
  /\ Servers!ServersAssumption /\ Orchestrator!WorkflowAssumption
  /\ \A p \in Plans \union {IdlePlan} : ~p.overlap

-----------------------------------------------------------------------------
ServicesInit ==
  /\ part \in Parts
  /\ setup \in (IF part = "tools" THEN Setups ELSE {IdleSetup})
  /\ plan \in (CASE part = "workflow" -> Plans [] part = "overlap" -> Overlaps [] OTHER -> {IdlePlan})
  /\ Init /\ Servers!Init /\ Orchestrator!Init
  /\ part # "breaker" => healthy

BreakerStep(A) == part = "breaker" /\ A /\ UNCHANGED <<part, serversVars, workflowVars>>
ServersStep(A) == part = "tools" /\ A /\ UNCHANGED <<part, vars, workflowVars>>
WorkflowStep(A) == part \in {"workflow", "overlap"} /\ A /\ UNCHANGED <<part, vars, serversVars>>

ServicesNext ==
  \/ BreakerStep(Next)
  \/ ServersStep(Servers!Next)
  \/ WorkflowStep(Orchestrator!Next)

ServicesSpec == ServicesInit /\ [][ServicesNext]_all

(* The fairness of the three components' FairSpec. *)
FairServicesSpec ==
  /\ ServicesSpec
  /\ WF_all(BreakerStep(Tick))
  /\ \A c \in Callers : WF_all(BreakerStep(Proceeds(c))) /\ SF_all(BreakerStep(Succeed(c)))
  /\ WF_all(ServersStep(Servers!StartEnds)) /\ WF_all(ServersStep(Servers!StopProgress))
  /\ \A c \in Calls : WF_all(ServersStep(Servers!TimesOut(c)))
  /\ \A r \in Runs : WF_all(WorkflowStep(Orchestrator!RunStep(r)))

(* The breaker is closed exactly while fewer than Threshold answers in a row  *)
(* have failed; a workflow's status says what became of its tasks and runs    *)
(* (CircuitBreaker, _run_workflow).                                           *)
StatesTrue ==
  /\ TypeOK /\ Servers!TypeOK /\ Orchestrator!TypeOK
  /\ TripsOnStreak
  /\ Orchestrator!CompletedMeansDone /\ Orchestrator!RunningIsRun /\ Orchestrator!CyclesFound

(* A call of an MCP server gets its own answer, and the lock of a server is   *)
(* with calls that are under way (MCPToolAdapter).                            *)
OwnAnswer == Servers!OwnAnswer /\ Servers!LockWithTheLiving

(* A tool that is shown is found, what a connected server lists is shown,     *)
(* stop() is final, and nothing the policy forbids is run (the adapters and   *)
(* the gates of ToolExecutor).                                                *)
ShownIsFound ==
  /\ Servers!ShownIsFound /\ Servers!ConnectedIsOffered /\ Servers!StopIsFinal
  /\ Servers!BlockedNeverRuns

(* Everything comes to an end: every call, a start or a stop of the MCP       *)
(* adapter, every run of a workflow, and the breaker's rejections once the    *)
(* provider stays healthy.                                                    *)
WorkEnds == Recovers /\ Servers!CallsEnd /\ Servers!LifecycleEnds /\ Orchestrator!RunsEnd

(* A task starts after all it depends on, what was finished is not run again, *)
(* and nothing of a later layer starts after a pause                          *)
(* (NativeWorkflowOrchestrator).                                              *)
TasksInOrder ==
  Orchestrator!DependenciesFirst /\ Orchestrator!FinishedNotRerun /\ Orchestrator!PauseHolds

(* What the code does not do, see README.md: ToolServers, Workflow. *)
FirstServes == Servers!FirstServes
AfterHookHeard == Servers!AfterHookHeard
FinishedNotRerun == Orchestrator!FinishedNotRerun
ResultsHandedOver == Orchestrator!ResultsHandedOver
=============================================================================
