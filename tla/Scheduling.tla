----------------------------- MODULE Scheduling -----------------------------
(***************************************************************************)
(* The scheduled tasks of one user: their rows (scheduled_tasks), the jobs *)
(* APScheduler keeps for them in a store that survives restarts, the       *)
(* requests that create, edit, pause, resume, delete and run them, and the *)
(* firings (runner._fire) that execute them as chat runs.                  *)
(*                                                                         *)
(* Everything runs on one event loop. A request commits its row, reads the *)
(* row back and then changes the job, with an await between each two.      *)
(* Time is a small counter; a date trigger is the time it names, and every *)
(* cron or interval trigger is Repeat, which is due at any time.           *)
(***************************************************************************)
EXTENDS Naturals, FiniteSets

CONSTANTS
  Tasks,        \* ids of tasks
  Requests,     \* requests that write a task, one operation each
  Firings,      \* firings of jobs and run-now requests
  Dates,        \* the dates users ask for
  Operations,   \* what users ask for
  Slots,        \* scheduling.max_concurrent_runs
  MaxPerUser,   \* scheduling.max_tasks_per_user
  Grace,        \* scheduling.misfire_grace_seconds
  MaxTime,      \* bound on the clock
  MaxCrashes    \* bound: restarts of the process

ASSUME SchedulingAssumption ==
  /\ {Grace, MaxTime, MaxCrashes} \subseteq Nat
  /\ {Slots, MaxPerUser} \subseteq Nat \ {0}
  /\ Dates \subseteq Nat \ {0}
  /\ Tasks # {}
  /\ IsFiniteSet(Tasks) /\ IsFiniteSet(Firings)

VARIABLES
  task,        \* ScheduledTaskRow of each task
  job,         \* the trigger of its APScheduler job, {} when it has none
  running,     \* _RUNNING_TASKS: the firing registered for a task, or {}
  fpc,         \* where a firing is
  ftask, fby,  \* its task; the scheduler ("job") or a user ("user")
  fsnap,       \* trigger and conversation of the row it read
  fconv,       \* the conversation it runs in
  fcount,      \* the run_count it read back
  run,         \* status of the ChatRunRow it made
  watching,    \* runs a stream has read as running and will repair
  rpc,         \* where a request is
  req,         \* its operation and task; the trigger it asks for, then the
               \* trigger and the status it read
  up,          \* the process is running
  now,         \* the clock
  crashes,
  made, gone,  \* history: conversations made by firings; those deleted
  spent,       \* history: date triggers whose job fired, was skipped or missed
  missed,      \* history: tasks one of whose jobs was missed
  counted,     \* history: firings that updated the statistics
  raced,       \* history: tasks with two requests between commit and job change
  torn,        \* history: tasks with a request cut there by a crash
  overlapped   \* history: tasks with two firings at once

taskVars == <<task, job>>
fireVars == <<running, fpc, ftask, fby, fsnap, fconv, fcount>>
runVars == <<run, watching, made, gone>>
requestVars == <<rpc, req>>
clockVars == <<up, now, crashes>>
historyVars == <<spent, missed, counted, raced, torn, overlapped>>
vars == <<taskVars, fireVars, runVars, requestVars, clockVars, historyVars>>

-----------------------------------------------------------------------------
Repeat == 0
Triggers == {Repeat} \union Dates
NoConversation == {}

Status == {"absent", "active", "paused", "finished", "deleted"}

(* A conversation is named after the firing that made it. *)
Row == [st : Status, trig : Triggers, next : BOOLEAN, count : 0..Cardinality(Firings),
        conv : {NoConversation} \union {{f} : f \in Firings}]

Exists(t) == task[t].st \notin {"absent", "deleted"}

Waiting == {"begin", "lookup"}
Holding == {"resolve", "insert", "run", "stats", "write", "finish"}
Launched == {"wait"} \union Holding

InFlight == {"insert", "update", "refresh", "act"}
Committed(t) == {q \in Requests : req[q].task = t /\ rpc[q] \in {"refresh", "act"}}

(* Tasks are yet to be created, or, where nobody creates any, were made     *)
(* earlier and are active.                                                  *)
Known(st, trig) == [st |-> st, trig |-> trig, next |-> st = "active", count |-> 0,
                    conv |-> NoConversation]

Init ==
  /\ task \in [Tasks -> IF "create" \in Operations THEN {Known("absent", Repeat)}
                       ELSE {Known("active", trig) : trig \in Triggers}]
  /\ job = [t \in Tasks |-> IF Exists(t) THEN {task[t].trig} ELSE {}]
  /\ running = [t \in Tasks |-> {}]
  /\ fpc = [f \in Firings |-> "idle"]
  /\ ftask = [f \in Firings |-> CHOOSE t \in Tasks : TRUE]
  /\ fby = [f \in Firings |-> "job"]
  /\ fsnap = [f \in Firings |-> [trig |-> Repeat, conv |-> NoConversation]]
  /\ fconv = [f \in Firings |-> NoConversation]
  /\ fcount = [f \in Firings |-> 0]
  /\ run = [f \in Firings |-> "none"]
  /\ watching = {}
  /\ rpc = [q \in Requests |-> "idle"]
  /\ req = [q \in Requests |-> [op |-> "none", task |-> CHOOSE t \in Tasks : TRUE,
                                trig |-> Repeat, st |-> "absent"]]
  /\ up = TRUE
  /\ now = 0
  /\ crashes = 0
  /\ made = {}
  /\ gone = {}
  /\ spent = [t \in Tasks |-> {}]
  /\ missed = {}
  /\ counted = {}
  /\ raced = {}
  /\ torn = {}
  /\ overlapped = {}

-----------------------------------------------------------------------------
(* Requests. *)

Goto(q, place) == rpc' = [rpc EXCEPT ![q] = place]

Starts(q, op, t, trig) ==
  /\ up
  /\ rpc[q] = "idle"
  /\ op \in Operations
  /\ req' = [req EXCEPT ![q] = [op |-> op, task |-> t, trig |-> trig, st |-> task[t].st]]

(* A commit on a task while another request has yet to change its job. *)
NoteRace(q, t) ==
  raced' = IF Committed(t) \ {q} # {} THEN raced \union {t} ELSE raced

unchangedByRequests ==
  <<fireVars, runVars, clockVars, spent, missed, counted, torn, overlapped>>

(* Finished tasks do not count. *)
UserTasks == {t \in Tasks : task[t].st \in {"active", "paused"}}

(* create_task up to its insert. *)
CreateCheck(q, t, trig) ==
  /\ task[t].st = "absent"
  /\ \A p \in Requests : ~(rpc[p] = "insert" /\ req[p].task = t)    \* ids are fresh
  /\ Cardinality(UserTasks) < MaxPerUser
  /\ Starts(q, "create", t, trig)
  /\ Goto(q, "insert")
  /\ UNCHANGED <<taskVars, raced, unchangedByRequests>>

CreateInsert(q) ==
  LET t == req[q].task IN
  /\ rpc[q] = "insert"
  /\ task' = [task EXCEPT ![t].st = "active", ![t].trig = req[q].trig, ![t].next = TRUE]
  /\ NoteRace(q, t)
  /\ Goto(q, "refresh")
  /\ UNCHANGED <<job, req, unchangedByRequests>>

UpdateRead(q, t, trig) ==
  /\ Exists(t)
  /\ Starts(q, "update", t, trig) \/ (Starts(q, "rename", t, trig) /\ trig = Repeat)
  /\ Goto(q, "update")
  /\ UNCHANGED <<taskVars, raced, unchangedByRequests>>

(* A new trigger reactivates a task that was read as finished. *)
Updated(row, r) ==
  IF r.op = "rename" THEN row
  ELSE [row EXCEPT !.trig = r.trig, !.next = TRUE,
                   !.st = IF r.st = "finished" THEN "active" ELSE @]

UpdateWrite(q) ==
  LET t == req[q].task IN
  /\ rpc[q] = "update"
  /\ \/ /\ Exists(t)
        /\ task' = [task EXCEPT ![t] = Updated(@, req[q])]
        /\ NoteRace(q, t)
        /\ Goto(q, "refresh")
     \/ /\ ~Exists(t)      \* the UPDATE matches no row and raises
        /\ Goto(q, "over")
        /\ UNCHANGED <<task, raced>>
  /\ UNCHANGED <<job, req, unchangedByRequests>>

(* _set_status from pause_task and resume_task, up to the commit. *)
SetStatus(q, t) ==
  /\ Exists(t)
  /\ \/ /\ Starts(q, "pause", t, Repeat)
        /\ task' = [task EXCEPT ![t].st = "paused", ![t].next = FALSE]
     \/ /\ Starts(q, "resume", t, Repeat)
        /\ task' = [task EXCEPT ![t].st = "active"]
  /\ NoteRace(q, t)
  /\ Goto(q, "refresh")
  /\ UNCHANGED <<job, unchangedByRequests>>

DeleteRow(q, t) ==
  /\ Exists(t)
  /\ Starts(q, "delete", t, Repeat)
  /\ task' = [task EXCEPT ![t].st = "deleted"]
  /\ NoteRace(q, t)
  /\ Goto(q, "act")
  /\ UNCHANGED <<job, unchangedByRequests>>

(* db.refresh: raises when the row has gone. *)
Refresh(q) ==
  LET t == req[q].task IN
  /\ rpc[q] = "refresh"
  /\ \/ /\ Exists(t)
        /\ req' = [req EXCEPT ![q].st = task[t].st, ![q].trig = task[t].trig]
        /\ Goto(q, "act")
     \/ /\ ~Exists(t)
        /\ Goto(q, "over")
        /\ UNCHANGED req
  /\ UNCHANGED <<taskVars, raced, unchangedByRequests>>

(* Mutant: an update registers whatever it reads. *)
JobAfterAlways(r) == IF r.op \in {"pause", "delete"} THEN {} ELSE {r.trig}

(* The job a request leaves: _register_with_scheduler replaces the one      *)
(* there is, _remove_from_scheduler takes it away.                          *)
JobAfter(r) ==
  IF \/ r.op \in {"create", "resume"}
     \/ r.op \in {"update", "rename"} /\ r.st = "active"
  THEN {r.trig} ELSE {}

ChangeJob(q) ==
  /\ rpc[q] = "act"
  /\ job' = [job EXCEPT ![req[q].task] = JobAfter(req[q])]
  /\ Goto(q, "over")
  /\ UNCHANGED <<task, req, raced, unchangedByRequests>>

RequestOpens(q) ==
  \E t \in Tasks :
    \/ SetStatus(q, t) \/ DeleteRow(q, t)
    \/ \E trig \in Triggers : CreateCheck(q, t, trig) \/ UpdateRead(q, t, trig)

RequestStep(q) == CreateInsert(q) \/ UpdateWrite(q) \/ Refresh(q) \/ ChangeJob(q)

-----------------------------------------------------------------------------
(* APScheduler, as the code configures it: a job whose date has come is     *)
(* handed to the event loop and dropped from the store; one instance per    *)
(* job (max_instances = 1); misfire_grace_time; coalesce.                   *)

Due(trig) == trig = Repeat \/ (trig <= now /\ now <= trig + Grace)
Late(trig) == trig # Repeat /\ now > trig + Grace
Busy(t) == \E f \in Firings : /\ ftask[f] = t /\ fby[f] = "job"
                              /\ fpc[f] \in Waiting \union Launched

unchangedByScheduler == <<task, running, fsnap, fconv, fcount, runVars, requestVars,
                          clockVars, counted, raced, torn, overlapped>>

Consume(t) ==
  /\ job' = [job EXCEPT ![t] = @ \intersect {Repeat}]
  /\ spent' = [spent EXCEPT ![t] = @ \union (job[t] \ {Repeat})]

Fire(f, t) ==
  /\ up
  /\ fpc[f] = "idle"
  /\ \E trig \in job[t] : Due(trig)
  /\ ~Busy(t)
  /\ Consume(t)
  /\ fpc' = [fpc EXCEPT ![f] = "begin"]
  /\ ftask' = [ftask EXCEPT ![f] = t]
  /\ UNCHANGED <<fby, missed, unchangedByScheduler>>

(* A date that comes while the last instance still runs is given up. *)
FireSkipped(t) ==
  /\ up
  /\ \E trig \in job[t] : trig # Repeat /\ Due(trig)
  /\ Busy(t)
  /\ Consume(t)
  /\ UNCHANGED <<fpc, ftask, fby, missed, unchangedByScheduler>>

Miss(t) ==
  /\ up
  /\ \E trig \in job[t] : Late(trig)
  /\ Consume(t)
  /\ missed' = missed \union {t}
  /\ UNCHANGED <<fpc, ftask, fby, unchangedByScheduler>>

(* run_now: the firing is a task of its own, outside APScheduler. *)
RunNow(f, t) ==
  /\ up /\ "run" \in Operations
  /\ fpc[f] = "idle"
  /\ Exists(t)
  /\ fpc' = [fpc EXCEPT ![f] = "begin"]
  /\ ftask' = [ftask EXCEPT ![f] = t]
  /\ fby' = [fby EXCEPT ![f] = "user"]
  /\ UNCHANGED <<job, spent, missed, unchangedByScheduler>>

-----------------------------------------------------------------------------
(* runner._fire. *)

Moves(f, from, to) == fpc[f] = from /\ fpc' = [fpc EXCEPT ![f] = to]

(* Mutant: the finally clause is gone. *)
EndsRegistered(f, from) == Moves(f, from, "over") /\ UNCHANGED running

(* The firing ends: whatever is registered for the task is popped. *)
Ends(f, from) ==
  /\ Moves(f, from, "over")
  /\ running' = [running EXCEPT ![ftask[f]] = {}]

unchangedByFirings == <<job, ftask, fby, requestVars, clockVars, gone, spent, missed,
                        raced, torn>>

Begin(f) ==
  /\ \/ running[ftask[f]] = {} /\ Moves(f, "begin", "lookup")
     \/ running[ftask[f]] # {} /\ Moves(f, "begin", "skipped")
  /\ UNCHANGED <<task, running, fsnap, fconv, fcount, run, watching, made, counted,
                 overlapped, unchangedByFirings>>

(* The row is read; if it is active the run is started and registered.      *)
Lookup(f) ==
  LET t == ftask[f]
      others == {g \in Firings \ {f} : ftask[g] = t /\ fpc[g] \in {"lookup"} \union Launched}
  IN
  /\ \/ /\ task[t].st = "active"
        /\ Moves(f, "lookup", "wait")
        /\ fsnap' = [fsnap EXCEPT ![f] = [trig |-> task[t].trig, conv |-> task[t].conv]]
        /\ running' = [running EXCEPT ![t] = {f}]
        /\ overlapped' = IF others # {} THEN overlapped \union {t} ELSE overlapped
     \/ /\ task[t].st # "active"
        /\ Moves(f, "lookup", "skipped")
        /\ UNCHANGED <<fsnap, running, overlapped>>
  /\ UNCHANGED <<task, fconv, fcount, run, watching, made, counted, unchangedByFirings>>

(* Mutant: the slot is not given back. *)
AcquireOnce(f) ==
  /\ Cardinality({g \in Firings : fpc[g] \in Holding \union {"over"}}) < Slots
  /\ Moves(f, "wait", "resolve")
  /\ UNCHANGED <<task, running, fsnap, fconv, fcount, run, watching, made, counted,
                 overlapped, unchangedByFirings>>

(* _RUN_SEMAPHORE. *)
Acquire(f) ==
  /\ Cardinality({g \in Firings : fpc[g] \in Holding}) < Slots
  /\ Moves(f, "wait", "resolve")
  /\ UNCHANGED <<task, running, fsnap, fconv, fcount, run, watching, made, counted,
                 overlapped, unchangedByFirings>>

(* _resolve_task_conversation: the conversation of the task if there still  *)
(* is one, a new one otherwise.                                             *)
Resolve(f) ==
  LET kept == fsnap[f].conv \ gone IN
  /\ Moves(f, "resolve", "insert")
  /\ fconv' = [fconv EXCEPT ![f] = IF kept # {} THEN kept ELSE {f}]
  /\ made' = IF kept # {} THEN made ELSE made \union {f}
  /\ UNCHANGED <<task, running, fsnap, fcount, run, watching, counted, overlapped,
                 unchangedByFirings>>

InsertRun(f) ==
  /\ Moves(f, "insert", "run")
  /\ run' = [run EXCEPT ![f] = "running"]
  /\ UNCHANGED <<task, running, fsnap, fconv, fcount, watching, made, counted, overlapped,
                 unchangedByFirings>>

(* run_pipeline_background never raises, and its last write, "done" or      *)
(* "error", is unconditional.                                               *)
RunEnds(f) ==
  /\ Moves(f, "run", "stats")
  /\ run' = [run EXCEPT ![f] = "ended"]
  /\ UNCHANGED <<task, running, fsnap, fconv, fcount, watching, made, counted, overlapped,
                 unchangedByFirings>>

IsDate(f) == fsnap[f].trig # Repeat

StatsRead(f) ==
  LET t == ftask[f] IN
  /\ \/ /\ Exists(t)
        /\ Moves(f, "stats", "write")
        /\ fcount' = [fcount EXCEPT ![f] = task[t].count]
        /\ UNCHANGED running
     \/ /\ ~Exists(t)
        /\ IF IsDate(f) THEN Moves(f, "stats", "finish") /\ UNCHANGED running
           ELSE Ends(f, "stats")
        /\ UNCHANGED fcount
  /\ UNCHANGED <<task, fsnap, fconv, run, watching, made, counted, overlapped,
                 unchangedByFirings>>

(* Mutant: a run of a task that is no longer active is not counted. *)
StatsIfActive(row, f) ==
  [row EXCEPT !.count = IF row.st = "active" THEN fcount[f] + 1 ELSE @,
              !.conv = fconv[f], !.next = @ \/ ~IsDate(f)]

(* update_run_stats: the next run time is computed for repeating triggers.  *)
Stats(row, f) ==
  [row EXCEPT !.count = fcount[f] + 1, !.conv = fconv[f], !.next = @ \/ ~IsDate(f)]

StatsWrite(f) ==
  LET t == ftask[f] IN
  /\ \/ /\ Exists(t)
        /\ task' = [task EXCEPT ![t] = Stats(@, f)]
        /\ counted' = counted \union {f}
        /\ IF IsDate(f) THEN Moves(f, "write", "finish") /\ UNCHANGED running
           ELSE Ends(f, "write")
     \/ /\ ~Exists(t)       \* the UPDATE matches no row and raises
        /\ Ends(f, "write")
        /\ UNCHANGED <<task, counted>>
  /\ UNCHANGED <<fsnap, fconv, fcount, run, watching, made, overlapped, unchangedByFirings>>

(* mark_finished, whatever has become of the row since it was read. *)
Finish(f) ==
  LET t == ftask[f] IN
  /\ Ends(f, "finish")
  /\ task' = IF Exists(t) THEN [task EXCEPT ![t].st = "finished", ![t].next = FALSE] ELSE task
  /\ UNCHANGED <<fsnap, fconv, fcount, run, watching, made, counted, overlapped,
                 unchangedByFirings>>

FiringStep(f) ==
  \/ Begin(f) \/ Lookup(f) \/ Acquire(f) \/ Resolve(f) \/ InsertRun(f) \/ RunEnds(f)
  \/ StatsRead(f) \/ StatsWrite(f) \/ Finish(f)

-----------------------------------------------------------------------------
(* Users look at the run of a firing. It is not in the RunRegistry, so a    *)
(* stream takes it for one a restart has interrupted, and a cancel request  *)
(* finds no task to cancel.                                                 *)

unchangedByReaders == <<taskVars, fireVars, requestVars, clockVars, historyVars, made>>

Watch(f) ==
  /\ up /\ "watch" \in Operations
  /\ run[f] = "running"
  /\ watching' = watching \union {f}
  /\ UNCHANGED <<run, gone, unchangedByReaders>>

Repair(f) ==
  /\ f \in watching
  /\ run' = [run EXCEPT ![f] = "interrupted"]
  /\ watching' = watching \ {f}
  /\ UNCHANGED <<gone, unchangedByReaders>>

CancelRun(f) ==
  /\ up /\ "stop" \in Operations
  /\ run[f] # "none"
  /\ run' = [run EXCEPT ![f] = "cancelled"]
  /\ UNCHANGED <<watching, gone, unchangedByReaders>>

DeleteConversation(f) ==
  /\ up /\ "forget" \in Operations
  /\ f \in made \ gone
  /\ gone' = gone \union {f}
  /\ UNCHANGED <<run, watching, unchangedByReaders>>

-----------------------------------------------------------------------------
(* The process stops: requests and firings die, rows and jobs stay. *)
Crash ==
  /\ up
  /\ crashes < MaxCrashes
  /\ up' = FALSE
  /\ crashes' = crashes + 1
  /\ rpc' = [q \in Requests |-> IF rpc[q] \in InFlight THEN "dead" ELSE rpc[q]]
  /\ fpc' = [f \in Firings |-> IF fpc[f] \in Waiting \union Launched THEN "dead" ELSE fpc[f]]
  /\ running' = [t \in Tasks |-> {}]
  /\ watching' = {}
  /\ torn' = torn \union {t \in Tasks : Committed(t) # {}}
  /\ UNCHANGED <<taskVars, ftask, fby, fsnap, fconv, fcount, run, made, gone, req,
                 now, spent, missed, counted, raced, overlapped>>

(* Mutant: the jobs of the store are trusted. *)
StartOnly ==
  /\ ~up
  /\ up' = TRUE
  /\ UNCHANGED <<task, job, fireVars, runVars, requestVars, now, crashes, historyVars>>

(* lifespan: every active task is registered anew. *)
Start ==
  /\ ~up
  /\ up' = TRUE
  /\ job' = [t \in Tasks |-> IF task[t].st = "active" THEN {task[t].trig} ELSE job[t]]
  /\ UNCHANGED <<task, fireVars, runVars, requestVars, now, crashes, historyVars>>

(* While the process runs, it reaches a job within its grace time. *)
Tick ==
  /\ now < MaxTime
  /\ up => \A t \in Tasks :
             \A trig \in job[t] \union {req[q].trig : q \in Committed(t)} :
               trig = Repeat \/ now < trig + Grace
  /\ now' = now + 1
  /\ UNCHANGED <<taskVars, fireVars, runVars, requestVars, up, crashes, historyVars>>

SchedulerStep(t) == (\E f \in Firings : Fire(f, t)) \/ FireSkipped(t) \/ Miss(t)

Next ==
  \/ \E q \in Requests : RequestOpens(q) \/ RequestStep(q)
  \/ \E t \in Tasks : SchedulerStep(t)
  \/ \E f \in Firings, t \in Tasks : RunNow(f, t)
  \/ \E f \in Firings : FiringStep(f)
  \/ \E f \in Firings : Watch(f) \/ Repair(f) \/ CancelRun(f) \/ DeleteConversation(f)
  \/ Crash \/ Start \/ Tick

Spec == Init /\ [][Next]_vars

(* The event loop resumes what it suspended, runs end (their calls have     *)
(* timeouts), the semaphore serves its waiters in turn, jobs that are due   *)
(* are fired, somebody restarts the process, time passes.                   *)
Fairness ==
  /\ \A q \in Requests : WF_vars(RequestStep(q))
  /\ \A f \in Firings : WF_vars(FiringStep(f)) /\ SF_vars(Acquire(f))
  /\ \A t \in Tasks : WF_vars(SchedulerStep(t))
  /\ WF_vars(Start)
  /\ WF_vars(Tick)

FairSpec == Spec /\ Fairness
-----------------------------------------------------------------------------
(* Every variable has its type; a run belongs to a launched firing. *)
TypeOK ==
  /\ task \in [Tasks -> Row]
  /\ job \in [Tasks -> {{}} \union {{trig} : trig \in Triggers}]
  /\ running \in [Tasks -> {{}} \union {{f} : f \in Firings}]
  /\ fpc \in [Firings -> {"idle", "over", "skipped", "dead"} \union Waiting \union Launched]
  /\ ftask \in [Firings -> Tasks]
  /\ fby \in [Firings -> {"job", "user"}]
  /\ fsnap \in [Firings -> [trig : Triggers, conv : {NoConversation} \union {{f} : f \in Firings}]]
  /\ fconv \in [Firings -> {NoConversation} \union {{f} : f \in Firings}]
  /\ fcount \in [Firings -> 0..Cardinality(Firings)]
  /\ run \in [Firings -> {"none", "running", "ended", "interrupted", "cancelled"}]
  /\ rpc \in [Requests -> {"idle", "over", "dead"} \union InFlight]
  /\ req \in [Requests -> [op : Operations \union {"none"}, task : Tasks, trig : Triggers,
                           st : Status]]
  /\ <<up, now, crashes>> \in BOOLEAN \X (0..MaxTime) \X (0..MaxCrashes)
  /\ gone \subseteq made
  /\ watching \union made \union counted \subseteq Firings
  /\ spent \in [Tasks -> SUBSET Dates]
  /\ missed \union raced \union torn \union overlapped \subseteq Tasks

(* When no request is about to change it, the job of a task is the one its  *)
(* row asks for: an active task has a job with its trigger unless that date *)
(* was used up, and no other task has one. Excepted are two requests whose  *)
(* commits and job changes crossed, and jobs a crash left behind.           *)
JobsMatchRows ==
  \A t \in Tasks \ raced :
    up /\ Committed(t) = {} =>
      /\ task[t].st = "active" => job[t] = {task[t].trig} \/ task[t].trig \in spent[t]
      /\ task[t].st \in {"absent", "paused", "deleted"} => job[t] = {} \/ t \in torn
      /\ job[t] \subseteq {task[t].trig} \/ t \in torn

(* _RUNNING_TASKS names the firing at work on a task, so a trigger is       *)
(* skipped exactly while there is one, until two firings first overlap.     *)
RegistryExact ==
  \A t \in Tasks \ overlapped :
    running[t] = {f \in Firings : ftask[f] = t /\ fpc[f] \in Launched}

(* While its firings do not overlap, the run_count of a task counts those   *)
(* that reached their end, whatever else is written to the row meanwhile.   *)
StatsExact ==
  \A t \in Tasks \ overlapped :
    Exists(t) => task[t].count = Cardinality({f \in counted : ftask[f] = t})

(* runner.py:7: the firings of a task share one conversation, however often *)
(* it is deleted in between, unless they overlap or a crash cuts one short. *)
OneConversation ==
  \A t \in Tasks \ overlapped :
    crashes = 0 => Cardinality({f \in made \ gone : ftask[f] = t}) <= 1

(* The counters of a task count its runs, and they all are in its one       *)
(* conversation (update_run_stats, _resolve_task_conversation).             *)
RowsConsistent == TypeOK /\ OneConversation /\ StatsExact

(* A firing comes to an end, also when all the slots are taken at first.    *)
FiringEnds ==
  \A f \in Firings : fpc[f] = "begin" ~> fpc[f] \in {"over", "skipped", "dead"}

(* A task with a date ahead is fired when it comes, also when the process   *)
(* restarts in between, unless a user changes the task first or the process *)
(* is down for longer than the grace time.                                  *)
DatesAreKept ==
  \A t \in Tasks, d \in Dates :
    task[t].st = "active" /\ task[t].trig = d /\ now < d
      ~> \/ d \in spent[t] /\ \E f \in Firings : ftask[f] = t /\ fpc[f] # "idle"
         \/ t \in missed
         \/ \A f \in Firings : fpc[f] # "idle"      \* the bound on firings
         \/ ~(task[t].st = "active" /\ task[t].trig = d)
         \/ t \in raced

-----------------------------------------------------------------------------
(* runner.py:29: "Per-task asyncio.Task — prevents overlapping runs of the  *)
(* same task."                                                              *)
NoOverlappingRuns ==
  \A f, g \in Firings :
    f # g /\ ftask[f] = ftask[g] => ~(fpc[f] = "run" /\ fpc[g] = "run")

(* docs/astra/2026-06-18-scheduled-tasks.md:42: after POST /:id/pause       *)
(* "next_run_at 变 NULL" (becomes NULL).                                    *)
PausedHasNoNext ==
  \A t \in Tasks : task[t].st = "paused" => ~task[t].next

(* task_service.py:341: "Mark a one-shot date-trigger task as finished      *)
(* after it fires.": a finished task has a date trigger that fired.         *)
FinishedHasFired ==
  \A t \in Tasks :
    task[t].st = "finished" =>
      /\ task[t].trig # Repeat
      /\ \E f \in Firings : ftask[f] = t /\ fsnap[f].trig = task[t].trig

(* docs/astra/2026-06-18-scheduled-tasks.md:179: a date missed by more than *)
(* the grace time around a restart is marked missed ("超出窗口标 missed"): the *)
(* task does not stay active when nothing will ever fire it.                *)
MissedIsMarked ==
  \A t \in missed :
    crashes > 0 /\ up /\ Committed(t) = {} /\ task[t].trig \in spent[t] => task[t].st # "active"

(* docs/前端设计方案.md:440: "只有 run 本身失败才展示错误" (an error is shown only *)
(* when the run itself failed): a run at work is not shown as interrupted.  *)
WatchedRunGoesOn ==
  \A f \in Firings : run[f] = "interrupted" => fpc[f] # "run"

(* docs/前端设计方案.md:421: the stop button calls the cancel API and really   *)
(* cancels the background run ("真正取消后台 run"): it does not go on to its end. *)
CancelReallyCancels ==
  [][\A f \in Firings : run[f] = "cancelled" => run'[f] # "ended"]_vars
=============================================================================
