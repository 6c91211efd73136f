------------------------------- MODULE Workflow -------------------------------
(* NativeWorkflowOrchestrator: one workflow of dependent tasks, the runs that *)
(* execute_workflow and resume_workflow start, and what callers do meanwhile: *)
(* pause, approve, cancel. Everything is in the memory of one event loop; the *)
(* executor, which talks to a model, is external: it returns or raises.       *)
EXTENDS Naturals, FiniteSets

CONSTANTS
  Tasks,     \* the tasks of the workflow
  Runs,      \* calls of execute_workflow and resume_workflow (a bound)
  Scenes     \* workflows and how they are used: see SceneType

Statuses == {"pending", "running", "paused", "completed", "failed"}
TaskStatuses == {"pending", "in_progress", "completed", "skipped", "failed"}

(* Conditions: none, one that is false, one that raises, and one that asks    *)
(* for the results of the dependencies, such as len(task_results) >= 2.       *)
Conditions == {"none", "false", "raises", "results"}

SceneType ==
  [deps : [Tasks -> SUBSET Tasks],
   condition : [Tasks -> Conditions],
   runs : SUBSET Runs,
   overlap : BOOLEAN,       \* a caller resumes or executes while a run is under way
   approves : BOOLEAN,
   cancels : BOOLEAN]

(* What the constants are; the model that gives them values assumes it. *)
WorkflowAssumption == IsFiniteSet(Tasks) /\ Scenes \subseteq SceneType

VARIABLES
  scene,
  status,     \* WorkflowState.status
  task,       \* the status of each task
  results,    \* tasks with an entry in task_results
  run,        \* what each call of _run_workflow is at
  done,       \* history: tasks whose executor has returned
  approved,   \* history: tasks that were approved
  held,       \* history: 0, or 1 + the layer under way when the workflow was paused
  cancelled   \* history: whether a run was cancelled

history == <<done, approved, held, cancelled>>
vars == <<scene, status, task, results, run, history>>

-----------------------------------------------------------------------------
(* _topo_layers: Kahn's algorithm takes a layer at a time from the tasks      *)
(* whose dependencies are all in earlier layers.                              *)
Kahn(deps) ==
  LET taken[n \in Nat] ==
        IF n = 0 THEN {}
        ELSE LET before == taken[n - 1] IN {t \in Tasks : deps[t] \subseteq before}
  IN taken

Last == Cardinality(Tasks)
Layer(n) == Kahn(scene.deps)[n] \ Kahn(scene.deps)[n - 1]
HasCycle == Kahn(scene.deps)[Last] # Tasks

-----------------------------------------------------------------------------
NewRun == [pc |-> "new", layer |-> 0, todo |-> {}, busy |-> {}]
Active(r) == run[r].pc = "layer"

Init ==
  /\ scene \in Scenes
  /\ status = "pending"
  /\ task = [t \in Tasks |-> "pending"]
  /\ results = {}
  /\ run = [r \in Runs |-> NewRun]
  /\ done = {} /\ approved = {} /\ held = 0 /\ cancelled = FALSE

(* A caller that waits for the run it paused before it goes on.               *)
MayCall(r) ==
  /\ r \in scene.runs /\ run[r].pc = "new"
  /\ scene.overlap \/ \A o \in Runs : ~Active(o)

(* _run_workflow up to the first layer.                                       *)
RunWorkflow(r) ==
  /\ IF HasCycle
     THEN /\ status' = "failed"
          /\ run' = [run EXCEPT ![r].pc = "over"]
     ELSE /\ status' = "running"
          /\ run' = [run EXCEPT ![r] = [pc |-> "layer", layer |-> 1, todo |-> Layer(1), busy |-> {}]]
  /\ held' = 0

Execute(r) ==
  /\ MayCall(r)
  /\ RunWorkflow(r)
  /\ UNCHANGED <<scene, task, results, done, approved, cancelled>>

Resume(r) ==
  /\ MayCall(r) /\ status = "paused"
  /\ RunWorkflow(r)
  /\ UNCHANGED <<scene, task, results, done, approved, cancelled>>

(* _eval_condition: one that raises counts as true.                           *)
EvalCondition(t) ==
  CASE scene.condition[t] = "false" -> FALSE
    [] scene.condition[t] = "results" -> scene.deps[t] \subseteq results
    [] OTHER -> TRUE

(* Mutant: every task is run again. *)
NeverFinished(t) == FALSE

Finished(t) == task[t] = "completed"

(* _run_task up to the await of the executor.                                 *)
PassOver(r, t) ==
  /\ Active(r) /\ t \in run[r].todo
  /\ Finished(t) \/ ~EvalCondition(t)
  /\ run' = [run EXCEPT ![r].todo = @ \ {t}]
  /\ task' = [task EXCEPT ![t] = IF Finished(t) THEN @ ELSE "skipped"]
  /\ UNCHANGED <<scene, status, results, history>>

StartTask(r, t) ==
  /\ Active(r) /\ t \in run[r].todo
  /\ ~Finished(t) /\ EvalCondition(t)
  /\ run' = [run EXCEPT ![r].todo = @ \ {t}, ![r].busy = @ \union {t}]
  /\ task' = [task EXCEPT ![t] = "in_progress"]
  /\ UNCHANGED <<scene, status, results, history>>

TaskReturns(r, t) ==
  /\ Active(r) /\ t \in run[r].busy
  /\ run' = [run EXCEPT ![r].busy = @ \ {t}]
  /\ task' = [task EXCEPT ![t] = "completed"]
  /\ results' = results \union {t}
  /\ done' = done \union {t}
  /\ UNCHANGED <<scene, status, approved, held, cancelled>>

TaskFails(r, t) ==
  /\ Active(r) /\ t \in run[r].busy
  /\ run' = [run EXCEPT ![r].busy = @ \ {t}]
  /\ task' = [task EXCEPT ![t] = "failed"]
  /\ status' = "failed"
  /\ UNCHANGED <<scene, results, history>>

Halted == status \in {"failed", "paused"}
LayerDone(r) == Active(r) /\ run[r].todo = {} /\ run[r].busy = {}
LastLayer(r) == Layer(run[r].layer + 1) = {}

Halt(r) ==
  /\ LayerDone(r) /\ Halted
  /\ run' = [run EXCEPT ![r].pc = "over"]
  /\ UNCHANGED <<scene, status, task, results, history>>

NextLayer(r) ==
  /\ LayerDone(r) /\ ~Halted /\ ~LastLayer(r)
  /\ run' = [run EXCEPT ![r].layer = @ + 1, ![r].todo = Layer(run[r].layer + 1)]
  /\ UNCHANGED <<scene, status, task, results, history>>

Complete(r) ==
  /\ LayerDone(r) /\ ~Halted /\ LastLayer(r)
  /\ run' = [run EXCEPT ![r].pc = "over"]
  /\ status' = "completed"
  /\ UNCHANGED <<scene, task, results, history>>

(* pause_workflow and pause_for_approval: whatever the status was; the        *)
(* "requires_approval" mark that the latter leaves on a task is read nowhere. *)
LayerUnderWay == IF \E r \in Runs : Active(r)
                 THEN CHOOSE n \in 0..(Last + 1) : \E r \in Runs : Active(r) /\ run[r].layer = n
                 ELSE 0

Pause ==
  /\ status # "paused"
  /\ status' = "paused"
  /\ held' = 1 + LayerUnderWay
  /\ UNCHANGED <<scene, task, results, run, done, approved, cancelled>>

(* approve_and_continue: the task is marked first, then resume_workflow       *)
(* raises if the workflow is not paused.                                      *)
Approve(r, t) ==
  /\ scene.approves /\ MayCall(r)
  /\ task' = [task EXCEPT ![t] = "completed"]
  /\ approved' = approved \union {t}
  /\ IF status = "paused"
     THEN RunWorkflow(r)
     ELSE UNCHANGED <<status, run, held>>
  /\ UNCHANGED <<scene, results, done, cancelled>>

(* The task that awaits the run is cancelled: gather cancels the executors,   *)
(* no handler of the orchestrator sees it.                                    *)
Cancel(r) ==
  /\ scene.cancels /\ Active(r)
  /\ run' = [run EXCEPT ![r] = [@ EXCEPT !.pc = "over", !.todo = {}, !.busy = {}]]
  /\ cancelled' = TRUE
  /\ UNCHANGED <<scene, status, task, results, done, approved, held>>

RunStep(r) ==
  \/ Halt(r) \/ NextLayer(r) \/ Complete(r)
  \/ \E t \in Tasks : PassOver(r, t) \/ StartTask(r, t) \/ TaskReturns(r, t) \/ TaskFails(r, t)

Next ==
  \/ \E r \in Runs : Execute(r) \/ Resume(r) \/ RunStep(r) \/ Cancel(r)
  \/ \E r \in Runs, t \in Tasks : Approve(r, t)
  \/ Pause

Spec == Init /\ [][Next]_vars

(* The event loop goes on with a run, and executors come to an end.           *)
FairSpec == Spec /\ \A r \in Runs : WF_vars(RunStep(r))

-----------------------------------------------------------------------------
(* Types of the workflow, its tasks and its runs. *)
TypeOK ==
  /\ scene \in SceneType /\ status \in Statuses
  /\ task \in [Tasks -> TaskStatuses] /\ results \subseteq Tasks
  /\ run \in [Runs -> [pc : {"new", "layer", "over"}, layer : 0..(Last + 1),
                       todo : SUBSET Tasks, busy : SUBSET Tasks]]
  /\ done \subseteq Tasks /\ approved \subseteq Tasks
  /\ held \in 0..(Last + 2) /\ cancelled \in BOOLEAN

(* A task starts when each task it depends on is completed or was skipped,    *)
(* over pauses, failures, cancellations, approvals and second runs (the       *)
(* layers of _topo_layers, modules/agent/domain.py:31).                       *)
DependenciesFirst ==
  [][\A t \in Tasks : (\E r \in Runs : t \in run'[r].busy \ run[r].busy) =>
       \A d \in scene.deps[t] : task[d] \in {"completed", "skipped"}]_vars

(* What an executor has finished is not executed again by a later run         *)
(* (native.py:12-13).                                                         *)
FinishedNotRerun ==
  [][\A t \in done : task[t] = "completed" /\ ~\E r \in Runs : t \in run'[r].busy \ run[r].busy]_vars

(* After a pause no task of a later layer starts until a caller goes on, also *)
(* when the pause comes while the layer fails.                                *)
PauseHolds ==
  [][held > 0 => \A r \in Runs : run'[r].busy # run[r].busy /\ run'[r].busy \ run[r].busy # {} =>
       run[r].layer <= held - 1]_vars

(* A workflow that says it is completed has no task left that is pending,     *)
(* under way or failed.                                                       *)
CompletedMeansDone ==
  status = "completed" => \A t \in Tasks : task[t] \in {"completed", "skipped"}

(* A workflow that says it is running is being run, unless its run was        *)
(* cancelled, which leaves it running for good.                               *)
RunningIsRun == status = "running" /\ ~cancelled => \E r \in Runs : Active(r)

(* A cycle is found exactly when there is one, and no task is lost between    *)
(* the layers.                                                                *)
CyclesFound ==
  status = "failed" /\ (\A t \in Tasks : task[t] = "pending") =>
    \E S \in SUBSET Tasks : S # {} /\ \A t \in S : scene.deps[t] \intersect S # {}

(* Every run ends. *)
RunsEnd == \A r \in Runs : Active(r) ~> ~Active(r)

(* workflow_system.md:121: the results of the tasks before are handed over in *)
(* task_results; here to a task that starts, from all it depends on.          *)
ResultsHandedOver ==
  [][\A t \in Tasks : (\E r \in Runs : t \in run'[r].busy \ run[r].busy) =>
       \A d \in scene.deps[t] : task[d] = "completed" => d \in results]_vars

=============================================================================
