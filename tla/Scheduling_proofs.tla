--------------------------- MODULE Scheduling_proofs ---------------------------
(***************************************************************************)
(* Proofs about Scheduling: the jobs of the scheduler follow the rows of   *)
(* the tasks, the registry of firings is exact, and the statistics and the *)
(* conversation of a task stand for the firings it had, for any number of  *)
(* tasks, requests and firings.                                            *)
(***************************************************************************)
EXTENDS Scheduling, FiniteSetTheorems, TLAPS

-----------------------------------------------------------------------------
(* Parts of the inductive invariant. *)

(* A process that is down has nothing in flight. *)
DownIsQuiet ==
  ~up => /\ \A q \in Requests : rpc[q] \notin InFlight
         /\ \A f \in Firings : fpc[f] \notin Waiting \union Launched

(* A firing makes a conversation and is counted at places it has passed.    *)
MarksFollow ==
  /\ \A f \in counted : fpc[f] \in {"finish", "over", "dead"}
  /\ \A f \in made : fpc[f] \notin {"idle"} \union Waiting \union {"wait", "resolve"}

(* No run_count is ahead of the firings that updated one. *)
CountsFit ==
  /\ \A t \in Tasks : task[t].count <= Cardinality(counted)
  /\ \A f \in Firings : fcount[f] <= Cardinality(counted)

FiringsInv == TypeOK /\ DownIsQuiet /\ MarksFollow /\ CountsFit

(* A row is inserted once, by the one request that checked the limit for it, *)
(* and only tasks with a row were launched.                                  *)
InsertsOnce ==
  /\ \A q \in Requests :
       rpc[q] = "insert" =>
         /\ task[req[q].task].st = "absent"
         /\ \A p \in Requests : rpc[p] = "insert" /\ req[p].task = req[q].task => p = q
  /\ \A f \in Firings : fpc[f] \in Launched => task[ftask[f]].st # "absent"

(* Where the firing of a task stands, its run_count is the one it read. *)
Counted(t) == {f \in counted : ftask[f] = t}

CountsExact ==
  \A t \in Tasks \ overlapped :
    /\ task[t].count = Cardinality(Counted(t))
    /\ \A f \in Firings : ftask[f] = t /\ fpc[f] = "write" => fcount[f] = task[t].count

(* The conversations of a task that still are there. *)
Conversations == {NoConversation} \union {{f} : f \in Firings}
Kept(t) == {f \in made \ gone : ftask[f] = t}

Resolved == {"insert", "run", "stats", "write"}

(* The one conversation of a task is the one its row names or the firing at *)
(* work holds; the row of a deleted task may have missed it.                *)
ConversationHeld ==
  \A t \in Tasks \ overlapped :
    crashes = 0 =>
      /\ \A f \in Firings :
           ftask[f] = t =>
             /\ fpc[f] \in {"wait", "resolve"} => Kept(t) \subseteq fsnap[f].conv
             /\ fpc[f] \in Resolved => Kept(t) \subseteq fconv[f]
      /\ \/ \E f \in Firings : ftask[f] = t /\ fpc[f] \in Resolved
         \/ task[t].st = "deleted" /\ \E c \in Conversations : Kept(t) \subseteq c
         \/ Kept(t) \subseteq task[t].conv

(* What a request that committed has left in the row of its task, unless    *)
(* another one has committed since; a firing may have finished the task.    *)
Stands(q) ==
  LET r == req[q]
      row == task[r.task]
  IN
  /\ r.op \in {"create", "resume", "update", "rename", "pause", "delete"}
  /\ r.op \in {"create", "resume"} => row.st \in {"active", "finished"}
  /\ r.op = "pause" => row.st \in {"paused", "finished"}
  /\ r.op = "delete" => rpc[q] = "act" /\ row.st = "deleted"
  /\ r.op # "delete" => row.st \notin {"absent", "deleted"}
  /\ rpc[q] = "act" /\ r.op # "delete" => r.trig = row.trig /\ row.st \in {r.st, "finished"}

Opening ==
  \A q \in Requests :
    /\ rpc[q] = "insert" => req[q].op = "create"
    /\ rpc[q] = "update" => req[q].op \in {"update", "rename"}

(* The job of a task and its row, between requests. *)
JobFollows(t) ==
  /\ up /\ task[t].st = "active" => job[t] = {task[t].trig} \/ task[t].trig \in spent[t]
  /\ task[t].st \in {"absent", "paused", "deleted"} => job[t] = {} \/ t \in torn
  /\ job[t] \subseteq {task[t].trig} \/ t \in torn

JobsInv ==
  /\ Opening
  /\ \A t \in Tasks \ raced :
       /\ \A p, q \in Committed(t) : p = q
       /\ \A q \in Committed(t) : Stands(q)
       /\ Committed(t) = {} => JobFollows(t)


-----------------------------------------------------------------------------
(* Types and counts. *)

LEMMA FiniteFirings ==
  /\ Cardinality(Firings) \in Nat
  /\ \A S \in SUBSET Firings : IsFiniteSet(S) /\ Cardinality(S) \in Nat
                               /\ Cardinality(S) <= Cardinality(Firings)
  /\ \A S \in SUBSET Firings : \A f \in Firings \ S :
       Cardinality(S \union {f}) = Cardinality(S) + 1
<1>1. IsFiniteSet(Firings)
  BY SchedulingAssumption
<1>2. ASSUME NEW S \in SUBSET Firings
      PROVE  /\ IsFiniteSet(S)
             /\ Cardinality(S) \in Nat
             /\ Cardinality(S) <= Cardinality(Firings)
  BY <1>1, FS_Subset, FS_CardinalityType
<1>3. ASSUME NEW S \in SUBSET Firings, NEW f \in Firings \ S
      PROVE  Cardinality(S \union {f}) = Cardinality(S) + 1
  BY <1>2, FS_AddElement
<1> QED
  BY <1>1, <1>2, <1>3, FS_CardinalityType

(* The row of a task gets another status and another trigger, and keeps its *)
(* statistics.                                                              *)
RowBecomes(t, st, trig) ==
  \E row \in Row :
    /\ task' = [task EXCEPT ![t] = row]
    /\ row.st = st
    /\ row.trig = trig
    /\ row.count = task[t].count
    /\ row.conv = task[t].conv

LEMMA RowEdits ==
  ASSUME task \in [Tasks -> Row], NEW t \in Tasks, NEW st \in Status, NEW trig \in Triggers,
         NEW next \in BOOLEAN
  PROVE  /\ task' = [task EXCEPT ![t].st = st] => RowBecomes(t, st, task[t].trig)
         /\ task' = [task EXCEPT ![t].st = st, ![t].next = next] => RowBecomes(t, st, task[t].trig)
         /\ task' = [task EXCEPT ![t].st = st, ![t].trig = trig, ![t].next = next]
              => RowBecomes(t, st, trig)
<1>1. task[t] \in Row
  OBVIOUS
<1>2. \A row \in Row :
        LET new == [row EXCEPT !.st = st] IN
        /\ new \in Row
        /\ new.st = st /\ new.trig = row.trig /\ new.count = row.count /\ new.conv = row.conv
  BY DEF Row
<1>3. \A row \in Row :
        LET new == [row EXCEPT !.st = st, !.next = next] IN
        /\ new \in Row
        /\ new.st = st /\ new.trig = row.trig /\ new.count = row.count /\ new.conv = row.conv
  BY DEF Row
<1>4. \A row \in Row :
        LET new == [row EXCEPT !.st = st, !.trig = trig, !.next = next] IN
        /\ new \in Row
        /\ new.st = st /\ new.trig = trig /\ new.count = row.count /\ new.conv = row.conv
  BY DEF Row
<1>5. [task EXCEPT ![t].st = st] = [task EXCEPT ![t] = [task[t] EXCEPT !.st = st]]
  OBVIOUS
<1>6. [task EXCEPT ![t].st = st, ![t].next = next]
         = [task EXCEPT ![t] = [task[t] EXCEPT !.st = st, !.next = next]]
  OBVIOUS
<1>7. [task EXCEPT ![t].st = st, ![t].trig = trig, ![t].next = next]
         = [task EXCEPT ![t] = [task[t] EXCEPT !.st = st, !.trig = trig, !.next = next]]
  OBVIOUS
<1>8. task' = [task EXCEPT ![t].st = st] => RowBecomes(t, st, task[t].trig)
  <2>1. PICK row \in Row :
          /\ row = [task[t] EXCEPT !.st = st]
          /\ row.st = st /\ row.trig = task[t].trig
          /\ row.count = task[t].count /\ row.conv = task[t].conv
    BY <1>1, <1>2
  <2> QED
    BY <1>5, <2>1 DEF RowBecomes
<1>9. task' = [task EXCEPT ![t].st = st, ![t].next = next] => RowBecomes(t, st, task[t].trig)
  <2>1. PICK row \in Row :
          /\ row = [task[t] EXCEPT !.st = st, !.next = next]
          /\ row.st = st /\ row.trig = task[t].trig
          /\ row.count = task[t].count /\ row.conv = task[t].conv
    BY <1>1, <1>3
  <2> QED
    BY <1>6, <2>1 DEF RowBecomes
<1>10. task' = [task EXCEPT ![t].st = st, ![t].trig = trig, ![t].next = next]
         => RowBecomes(t, st, trig)
  <2>1. PICK row \in Row :
          /\ row = [task[t] EXCEPT !.st = st, !.trig = trig, !.next = next]
          /\ row.st = st /\ row.trig = trig
          /\ row.count = task[t].count /\ row.conv = task[t].conv
    BY <1>1, <1>4
  <2> QED
    BY <1>7, <2>1 DEF RowBecomes
<1> QED
  BY <1>8, <1>9, <1>10

(* What the requests and the ends of firings make of a row. *)
LEMMA RowWrites ==
  ASSUME TypeOK
  PROVE  /\ \A q \in Requests, t \in Tasks :
              SetStatus(q, t) =>
                \/ req'[q].op = "pause" /\ RowBecomes(t, "paused", task[t].trig)
                \/ req'[q].op = "resume" /\ RowBecomes(t, "active", task[t].trig)
         /\ \A q \in Requests, t \in Tasks :
              DeleteRow(q, t) => RowBecomes(t, "deleted", task[t].trig)
         /\ \A q \in Requests :
              CreateInsert(q) => RowBecomes(req[q].task, "active", req[q].trig)
         /\ \A q \in Requests :
              UpdateWrite(q) /\ Exists(req[q].task) =>
                \E st \in {task[req[q].task].st, "active"}, trig \in Triggers :
                  RowBecomes(req[q].task, st, trig)
         /\ \A f \in Firings :
              Finish(f) => \/ Exists(ftask[f]) /\ RowBecomes(ftask[f], "finished", task[ftask[f]].trig)
                           \/ ~Exists(ftask[f]) /\ UNCHANGED task
<1> DEFINE Request == [op : Operations \union {"none"}, task : Tasks, trig : Triggers, st : Status]
<1>1. /\ task \in [Tasks -> Row]
      /\ req \in [Requests -> Request]
      /\ ftask \in [Firings -> Tasks]
  BY DEF TypeOK
<1>2. {"active", "paused", "finished", "deleted"} \subseteq Status /\ Repeat \in Triggers
  BY DEF Status, Triggers
<1>3. ASSUME NEW q \in Requests, NEW t \in Tasks, SetStatus(q, t)
      PROVE  \/ req'[q].op = "pause" /\ RowBecomes(t, "paused", task[t].trig)
             \/ req'[q].op = "resume" /\ RowBecomes(t, "active", task[t].trig)
  <2>1. CASE Starts(q, "pause", t, Repeat) /\ task' = [task EXCEPT ![t].st = "paused", ![t].next = FALSE]
    <3>1. req'[q].op = "pause"
      BY <1>1, <2>1 DEF Starts
    <3> QED
      BY <1>1, <1>2, <2>1, <3>1, RowEdits
  <2>2. CASE Starts(q, "resume", t, Repeat) /\ task' = [task EXCEPT ![t].st = "active"]
    <3>1. req'[q].op = "resume"
      BY <1>1, <2>2 DEF Starts
    <3> QED
      BY <1>1, <1>2, <2>2, <3>1, RowEdits
  <2> QED
    BY <1>3, <2>1, <2>2 DEF SetStatus
<1>4. ASSUME NEW q \in Requests, NEW t \in Tasks, DeleteRow(q, t)
      PROVE  RowBecomes(t, "deleted", task[t].trig)
  BY <1>1, <1>2, <1>4, RowEdits DEF DeleteRow
<1>5. ASSUME NEW q \in Requests, CreateInsert(q)
      PROVE  RowBecomes(req[q].task, "active", req[q].trig)
  <2>1. req[q].task \in Tasks /\ req[q].trig \in Triggers
    BY <1>1
  <2> QED
    BY <1>1, <1>2, <1>5, <2>1, RowEdits DEF CreateInsert
<1>6. ASSUME NEW q \in Requests, UpdateWrite(q), Exists(req[q].task)
      PROVE  \E st \in {task[req[q].task].st, "active"}, trig \in Triggers :
               RowBecomes(req[q].task, st, trig)
  <2>1. PICK t \in Tasks : t = req[q].task
    BY <1>1
  <2>2. \A row \in Row : \A r \in Request :
          LET new == Updated(row, r) IN
          /\ new \in Row
          /\ new.st \in {row.st, "active"} /\ new.trig \in Triggers
          /\ new.count = row.count /\ new.conv = row.conv
    <3> SUFFICES ASSUME NEW row \in Row, NEW r \in Request
                 PROVE  LET new == Updated(row, r) IN
                        /\ new \in Row
                        /\ new.st \in {row.st, "active"} /\ new.trig \in Triggers
                        /\ new.count = row.count /\ new.conv = row.conv
      OBVIOUS
    <3>1. CASE r.op = "rename"
      BY <3>1 DEF Updated, Row
    <3>2. CASE r.op # "rename"
      <4>1. PICK st \in {row.st, "active"} :
              Updated(row, r) = [row EXCEPT !.trig = r.trig, !.next = TRUE, !.st = st]
        BY <3>2 DEF Updated
      <4>2. st \in Status /\ r.trig \in Triggers
        BY DEF Row, Status
      <4> QED
        BY <4>1, <4>2 DEF Row
    <3> QED
      BY <3>1, <3>2
  <2>3. task' = [task EXCEPT ![t] = Updated(task[t], req[q])]
    BY <1>1, <1>6, <2>1 DEF UpdateWrite
  <2>4. PICK row \in Row : /\ task' = [task EXCEPT ![t] = row]
                          /\ row.st \in {task[t].st, "active"} /\ row.trig \in Triggers
                          /\ row.count = task[t].count /\ row.conv = task[t].conv
    <3>1. task[t] \in Row /\ req[q] \in Request
      BY <1>1
    <3>2. PICK row : row = Updated(task[t], req[q])
      OBVIOUS
    <3>3. /\ row \in Row
          /\ row.st \in {task[t].st, "active"} /\ row.trig \in Triggers
          /\ row.count = task[t].count /\ row.conv = task[t].conv
      BY <2>2, <3>1, <3>2
    <3> QED
      BY <2>3, <3>2, <3>3
  <2>5. RowBecomes(t, row.st, row.trig)
    BY <2>4 DEF RowBecomes
  <2> QED
    BY <2>1, <2>4, <2>5
<1>7. ASSUME NEW f \in Firings, Finish(f)
      PROVE  \/ Exists(ftask[f]) /\ RowBecomes(ftask[f], "finished", task[ftask[f]].trig)
             \/ ~Exists(ftask[f]) /\ UNCHANGED task
  <2>1. PICK t \in Tasks : t = ftask[f]
    BY <1>1
  <2>2. CASE Exists(t)
    <3>1. task' = [task EXCEPT ![t].st = "finished", ![t].next = FALSE]
      BY <1>7, <2>1, <2>2 DEF Finish
    <3> QED
      BY <1>1, <1>2, <2>1, <2>2, <3>1, RowEdits
  <2>3. CASE ~Exists(t)
    BY <1>7, <2>1, <2>3 DEF Finish
  <2> QED
    BY <2>1, <2>2, <2>3
<1> QED
  BY <1>3, <1>4, <1>5, <1>6, <1>7


LEMMA RowKeeps ==
  ASSUME task \in [Tasks -> Row], NEW t \in Tasks, NEW st, NEW trig, RowBecomes(t, st, trig)
  PROVE  /\ task' \in [Tasks -> Row]
         /\ task'[t].st = st /\ task'[t].trig = trig
         /\ \A u \in Tasks : u # t => task'[u] = task[u]
         /\ \A u \in Tasks : task'[u].count = task[u].count /\ task'[u].conv = task[u].conv
<1>1. PICK row \in Row : /\ task' = [task EXCEPT ![t] = row]
                         /\ row.st = st
                         /\ row.trig = trig
                         /\ row.count = task[t].count
                         /\ row.conv = task[t].conv
  BY DEF RowBecomes
<1>2. /\ task' \in [Tasks -> Row]
      /\ task'[t] = row
      /\ \A u \in Tasks : u # t => task'[u] = task[u]
  BY <1>1
<1> QED
  BY <1>1, <1>2

(* A step of a request keeps the types, and touches neither statistics nor   *)
(* conversations of a row.                                                   *)
LEMMA RequestTypes ==
  ASSUME TypeOK, NEW q \in Requests, RequestOpens(q) \/ RequestStep(q)
  PROVE  /\ TypeOK'
         /\ \A t \in Tasks : task'[t].count = task[t].count /\ task'[t].conv = task[t].conv
         /\ UNCHANGED unchangedByRequests
<1> DEFINE Request == [op : Operations \union {"none"}, task : Tasks, trig : Triggers, st : Status]
           Places == {"idle", "over", "dead"} \union InFlight
           Rest == UNCHANGED unchangedByRequests
           Rows == /\ task' \in [Tasks -> Row]
                   /\ \A t \in Tasks : task'[t].count = task[t].count /\ task'[t].conv = task[t].conv
           Jobs == job' \in [Tasks -> {{}} \union {{trig} : trig \in Triggers}]
           Wants == req' \in [Requests -> Request]
           Goes == rpc' \in [Requests -> Places]
           Races == raced' \subseteq Tasks
<1>1. /\ task \in [Tasks -> Row]
      /\ job \in [Tasks -> {{}} \union {{trig} : trig \in Triggers}]
      /\ req \in [Requests -> Request]
      /\ rpc \in [Requests -> Places]
      /\ raced \subseteq Tasks
  BY DEF TypeOK
<1>2. \A place \in Places : Goto(q, place) => Goes
  BY <1>1 DEF Goto
<1>3. {"over", "insert", "update", "refresh", "act"} \subseteq Places
  BY DEF InFlight
<1>4. \A t \in Tasks : NoteRace(q, t) => Races
  BY <1>1 DEF NoteRace
<1>5. \A t \in Tasks, trig \in Triggers : \A op : Starts(q, op, t, trig) => Wants
  <2> SUFFICES ASSUME NEW t \in Tasks, NEW trig \in Triggers, NEW op, Starts(q, op, t, trig)
               PROVE  Wants
    OBVIOUS
  <2>1. task[t].st \in Status
    BY <1>1 DEF Row
  <2>2. [op |-> op, task |-> t, trig |-> trig, st |-> task[t].st] \in Request
    BY <2>1 DEF Starts
  <2> QED
    BY <1>1, <2>2 DEF Starts
<1>6. Repeat \in Triggers
  BY DEF Triggers
<1>7. \A t \in Tasks : \A st, trig : RowBecomes(t, st, trig) => Rows
  BY <1>1, RowKeeps
<1>8. UNCHANGED task => Rows
  BY <1>1
<1>9. UNCHANGED job => Jobs
  BY <1>1
<1>10. UNCHANGED req => Wants
  BY <1>1
<1>11. UNCHANGED raced => Races
  BY <1>1
<1>12. req[q].task \in Tasks
  BY <1>1
<1>13. SUFFICES Rows /\ Jobs /\ Wants /\ Goes /\ Races /\ Rest
  BY <1>13 DEF TypeOK, unchangedByRequests, fireVars, runVars, clockVars
<1> HIDE DEF Rest, Rows, Jobs, Wants, Goes, Races, Places
<1>21. CASE \E t \in Tasks : SetStatus(q, t)
  <2>1. PICK t \in Tasks : SetStatus(q, t)
    BY <1>21
  <2>2. Rows
    BY <1>7, <2>1, RowWrites
  <2> QED
    BY <1>2, <1>3, <1>4, <1>5, <1>6, <1>9, <2>1, <2>2 DEF SetStatus, Rest
<1>22. CASE \E t \in Tasks : DeleteRow(q, t)
  <2>1. PICK t \in Tasks : DeleteRow(q, t)
    BY <1>22
  <2>2. Rows
    BY <1>7, <2>1, RowWrites
  <2> QED
    BY <1>2, <1>3, <1>4, <1>5, <1>6, <1>9, <2>1, <2>2 DEF DeleteRow, Rest
<1>23. CASE \E t \in Tasks, trig \in Triggers : CreateCheck(q, t, trig)
  BY <1>2, <1>3, <1>5, <1>8, <1>9, <1>11, <1>23 DEF CreateCheck, taskVars, Rest
<1>24. CASE \E t \in Tasks, trig \in Triggers : UpdateRead(q, t, trig)
  BY <1>2, <1>3, <1>5, <1>8, <1>9, <1>11, <1>24 DEF UpdateRead, taskVars, Rest
<1>25. CASE CreateInsert(q)
  <2>1. Rows
    BY <1>7, <1>12, <1>25, RowWrites
  <2> QED
    BY <1>2, <1>3, <1>4, <1>9, <1>10, <1>12, <1>25, <2>1 DEF CreateInsert, Rest
<1>26. CASE UpdateWrite(q)
  <2>1. Rows
    <3>1. CASE Exists(req[q].task)
      BY <1>7, <1>12, <1>26, <3>1, RowWrites
    <3>2. CASE ~Exists(req[q].task)
      BY <1>8, <1>26, <3>2 DEF UpdateWrite
    <3> QED
      BY <3>1, <3>2
  <2> QED
    BY <1>2, <1>3, <1>4, <1>9, <1>10, <1>11, <1>12, <1>26, <2>1 DEF UpdateWrite, Rest
<1>27. CASE Refresh(q)
  <2>1. Wants
    <3>1. task[req[q].task].st \in Status /\ task[req[q].task].trig \in Triggers
      BY <1>1, <1>12 DEF Row
    <3>2. \A r \in Request : \A st \in Status, trig \in Triggers :
            [r EXCEPT !.st = st, !.trig = trig] \in Request
      OBVIOUS
    <3>3. CASE Exists(req[q].task)
      <4>1. PICK st \in Status, trig \in Triggers :
              req' = [req EXCEPT ![q].st = st, ![q].trig = trig]
        BY <1>27, <3>1, <3>3 DEF Refresh
      <4>2. req' = [req EXCEPT ![q] = [req[q] EXCEPT !.st = st, !.trig = trig]]
        BY <1>1, <4>1
      <4> QED
        BY <1>1, <3>2, <4>2 DEF Wants
    <3>4. CASE ~Exists(req[q].task)
      BY <1>10, <1>27, <3>4 DEF Refresh
    <3> QED
      BY <3>3, <3>4
  <2> QED
    BY <1>2, <1>3, <1>8, <1>9, <1>11, <1>27, <2>1 DEF Refresh, taskVars, Rest
<1>28. CASE ChangeJob(q)
  <2>1. Jobs
    <3>1. req[q].trig \in Triggers
      BY <1>1
    <3>2. JobAfter(req[q]) \in {{}} \union {{trig} : trig \in Triggers}
      BY <3>1 DEF JobAfter
    <3> QED
      BY <1>1, <1>28, <3>2 DEF ChangeJob, Jobs
  <2> QED
    BY <1>2, <1>3, <1>8, <1>10, <1>11, <1>28, <2>1 DEF ChangeJob, Rest
<1> QED
  BY <1>21, <1>22, <1>23, <1>24, <1>25, <1>26, <1>27, <1>28 DEF RequestOpens, RequestStep


FiringPlaces == {"idle", "over", "skipped", "dead"} \union Waiting \union Launched

LEMMA StatsRow ==
  ASSUME NEW row \in Row, NEW f \in Firings
  PROVE  /\ /\ Stats(row, f).st = row.st
            /\ Stats(row, f).trig = row.trig
            /\ Stats(row, f).count = fcount[f] + 1
            /\ Stats(row, f).conv = fconv[f]
         /\ fcount[f] + 1 \in 0..Cardinality(Firings) /\ fconv[f] \in Conversations
              => Stats(row, f) \in Row
BY DEF Stats, Row, Conversations

(* What the statistics of a firing make of the row of its task. *)
LEMMA StatsWrites ==
  ASSUME FiringsInv, NEW f \in Firings, StatsWrite(f), Exists(ftask[f])
  PROVE  /\ task' \in [Tasks -> Row]
         /\ counted' = counted \union {f}
         /\ f \notin counted
         /\ task'[ftask[f]].st = task[ftask[f]].st
         /\ task'[ftask[f]].trig = task[ftask[f]].trig
         /\ task'[ftask[f]].count = fcount[f] + 1
         /\ task'[ftask[f]].conv = fconv[f]
         /\ \A u \in Tasks : u # ftask[f] => task'[u] = task[u]
<1>1. /\ task \in [Tasks -> Row]
      /\ ftask[f] \in Tasks
      /\ fcount[f] \in Nat /\ fconv[f] \in Conversations
      /\ counted \subseteq Firings
  BY DEF FiringsInv, TypeOK, Conversations
<1>2. PICK t \in Tasks : t = ftask[f]
  BY <1>1
<1>3. task' = [task EXCEPT ![t] = Stats(task[t], f)] /\ counted' = counted \union {f}
  BY <1>1, <1>2 DEF StatsWrite
<1>4. f \notin counted
  <2>1. fpc[f] = "write"
    BY <1>1, <1>2 DEF StatsWrite, Moves, Ends
  <2> QED
    BY <2>1 DEF FiringsInv, MarksFollow
<1>5. fcount[f] + 1 \in 0..Cardinality(Firings)
  <2>1. fcount[f] <= Cardinality(counted)
    BY DEF FiringsInv, CountsFit
  <2>2. counted \union {f} \in SUBSET Firings /\ counted \in SUBSET Firings
    BY <1>1
  <2>3. Cardinality(counted) + 1 <= Cardinality(Firings) /\ Cardinality(counted) \in Nat
    BY <1>4, <2>2, FiniteFirings
  <2> QED
    BY <1>1, <2>1, <2>3, FiniteFirings
<1>6. task[t] \in Row
  BY <1>1
<1>7. Stats(task[t], f) \in Row
  BY <1>1, <1>5, <1>6, StatsRow
<1>8. task'[t] = Stats(task[t], f)
  BY <1>1, <1>3, <1>7
<1> QED
  BY <1>1, <1>2, <1>3, <1>4, <1>6, <1>7, <1>8, StatsRow

LEMMA FiringTypes ==
  ASSUME FiringsInv, NEW f \in Firings, FiringStep(f)
  PROVE  TypeOK'
<1>1. /\ task \in [Tasks -> Row]
      /\ running \in [Tasks -> {{}} \union {{g} : g \in Firings}]
      /\ fpc \in [Firings -> FiringPlaces]
      /\ ftask \in [Firings -> Tasks]
      /\ fsnap \in [Firings -> [trig : Triggers, conv : Conversations]]
      /\ fconv \in [Firings -> Conversations]
      /\ fcount \in [Firings -> 0..Cardinality(Firings)]
      /\ run \in [Firings -> {"none", "running", "ended", "interrupted", "cancelled"}]
      /\ watching \union made \union counted \subseteq Firings
      /\ overlapped \subseteq Tasks
  BY DEF FiringsInv, TypeOK, Conversations, FiringPlaces
<1> DEFINE Rows == task' \in [Tasks -> Row]
           Registered == running' \in [Tasks -> {{}} \union {{g} : g \in Firings}]
           Goes == fpc' \in [Firings -> FiringPlaces]
           Snaps == fsnap' \in [Firings -> [trig : Triggers, conv : Conversations]]
           Convs == fconv' \in [Firings -> Conversations]
           Reads == fcount' \in [Firings -> 0..Cardinality(Firings)]
           Runs == run' \in [Firings -> {"none", "running", "ended", "interrupted", "cancelled"}]
           Marks == made' \union counted' \subseteq Firings /\ overlapped' \subseteq Tasks
           Rest == UNCHANGED <<watching, unchangedByFirings>>
           Goal == Rows /\ Registered /\ Goes /\ Snaps /\ Convs /\ Reads /\ Runs /\ Marks /\ Rest
<1>2. SUFFICES Goal
  <2>1. gone' \subseteq made'
    BY DEF FiringsInv, TypeOK, FiringStep, Begin, Lookup, Acquire, Resolve, InsertRun, RunEnds,
           StatsRead, StatsWrite, Finish, unchangedByFirings
  <2> QED
    BY <1>2, <2>1 DEF FiringsInv, TypeOK, Conversations, FiringPlaces, unchangedByFirings,
                      requestVars, clockVars
<1>3. \A from, to : Moves(f, from, to) /\ to \in FiringPlaces => Goes
  BY <1>1 DEF Moves
<1>4. \A from : Ends(f, from) => Goes /\ Registered
  BY <1>1, <1>3 DEF Ends, FiringPlaces
<1>5. /\ {"lookup", "skipped", "wait", "resolve", "insert", "run", "stats", "write", "finish"}
           \subseteq FiringPlaces
      /\ {f} \in Conversations
  BY DEF FiringPlaces, Conversations, Waiting, Launched, Holding
<1>6. /\ UNCHANGED task => Rows
      /\ UNCHANGED running => Registered
      /\ UNCHANGED fsnap => Snaps
      /\ UNCHANGED fconv => Convs
      /\ UNCHANGED fcount => Reads
      /\ UNCHANGED run => Runs
      /\ UNCHANGED <<made, counted, overlapped>> => Marks
  BY <1>1
<1>7. ftask[f] \in Tasks /\ task[ftask[f]] \in Row
  BY <1>1
<1> HIDE DEF Rows, Registered, Goes, Snaps, Convs, Reads, Runs, Marks, Rest
<1>11. CASE Begin(f)
  BY <1>3, <1>5, <1>6, <1>11 DEF Begin, Rest
<1>12. CASE Lookup(f)
  <2>1. Registered
    <3>1. CASE running' = running
      BY <1>6, <3>1
    <3>2. CASE running' = [running EXCEPT ![ftask[f]] = {f}]
      <4>1. {f} \in {{}} \union {{g} : g \in Firings}
        OBVIOUS
      <4> QED
        BY <1>1, <1>7, <3>2, <4>1 DEF Registered
    <3> QED
      BY <1>12, <3>1, <3>2 DEF Lookup
  <2>2. Snaps
    <3>1. [trig |-> task[ftask[f]].trig, conv |-> task[ftask[f]].conv]
            \in [trig : Triggers, conv : Conversations]
      BY <1>7 DEF Row, Conversations
    <3> QED
      BY <1>1, <1>12, <3>1 DEF Lookup, Snaps
  <2>3. Marks
    <3>1. overlapped' \in {overlapped, overlapped \union {ftask[f]}}
      BY <1>12 DEF Lookup
    <3> QED
      BY <1>1, <1>7, <1>12, <3>1 DEF Lookup, Marks
  <2> QED
    BY <1>3, <1>5, <1>6, <1>12, <2>1, <2>2, <2>3 DEF Lookup, Rest
<1>13. CASE Acquire(f)
  BY <1>3, <1>5, <1>6, <1>13 DEF Acquire, Rest
<1>14. CASE Resolve(f)
  <2>1. Convs
    <3>1. fsnap[f].conv \ gone \in Conversations
      <4>1. PICK c \in Conversations : c = fsnap[f].conv
        BY <1>1
      <4>2. CASE c = {}
        BY <4>1, <4>2 DEF Conversations, NoConversation
      <4>3. ASSUME NEW g \in Firings, c = {g}
            PROVE  c \ gone \in Conversations
        <5>1. g \in gone => c \ gone = {}
          BY <4>3
        <5>2. g \notin gone => c \ gone = c
          BY <4>3
        <5> QED
          BY <5>1, <5>2 DEF Conversations, NoConversation
      <4> QED
        BY <4>1, <4>2, <4>3 DEF Conversations, NoConversation
    <3> QED
      BY <1>1, <1>5, <1>14, <3>1 DEF Resolve, Convs
  <2>2. Marks
    BY <1>1, <1>14 DEF Resolve, Marks
  <2> QED
    BY <1>3, <1>5, <1>6, <1>14, <2>1, <2>2 DEF Resolve, Rest
<1>15. CASE InsertRun(f)
  <2>1. Runs
    BY <1>1, <1>15 DEF InsertRun, Runs
  <2> QED
    BY <1>3, <1>5, <1>6, <1>15, <2>1 DEF InsertRun, Rest
<1>16. CASE RunEnds(f)
  <2>1. Runs
    BY <1>1, <1>16 DEF RunEnds, Runs
  <2> QED
    BY <1>3, <1>5, <1>6, <1>16, <2>1 DEF RunEnds, Rest
<1>17. CASE StatsRead(f)
  <2>1. Reads
    <3>1. task[ftask[f]].count \in 0..Cardinality(Firings)
      BY <1>7 DEF Row
    <3> QED
      BY <1>1, <1>6, <1>17, <3>1 DEF StatsRead, Reads
  <2> QED
    BY <1>3, <1>4, <1>5, <1>6, <1>17, <2>1 DEF StatsRead, Rest
<1>18. CASE StatsWrite(f)
  <2>1. CASE Exists(ftask[f])
    <3>1. Rows /\ Marks
      BY <1>1, <1>18, <2>1, StatsWrites DEF StatsWrite, Rows, Marks
    <3> QED
      BY <1>3, <1>4, <1>5, <1>6, <1>18, <2>1, <3>1 DEF StatsWrite, Rest
  <2>2. CASE ~Exists(ftask[f])
    BY <1>4, <1>6, <1>18, <2>2 DEF StatsWrite, Rest
  <2> QED
    BY <2>1, <2>2
<1>19. CASE Finish(f)
  <2>1. Rows
    <3>1. Exists(ftask[f]) /\ RowBecomes(ftask[f], "finished", task[ftask[f]].trig) => Rows
      BY <1>1, <1>7, RowKeeps DEF Rows
    <3> QED
      BY <1>6, <1>19, <3>1, RowWrites DEF FiringsInv
  <2> QED
    BY <1>4, <1>6, <1>19, <2>1 DEF Finish, Rest
<1> QED
  BY <1>11, <1>12, <1>13, <1>14, <1>15, <1>16, <1>17, <1>18, <1>19 DEF FiringStep


(* Steps that are neither a request's nor a firing's. *)
OtherStep ==
  \/ \E t \in Tasks : SchedulerStep(t)
  \/ \E f \in Firings, t \in Tasks : RunNow(f, t)
  \/ \E f \in Firings : Watch(f) \/ Repair(f) \/ CancelRun(f) \/ DeleteConversation(f)
  \/ Crash \/ Start \/ Tick

LEMMA ConsumeTypes ==
  ASSUME TypeOK, NEW t \in Tasks, Consume(t)
  PROVE  /\ job' \in [Tasks -> {{}} \union {{trig} : trig \in Triggers}]
         /\ spent' \in [Tasks -> SUBSET Dates]
<1>1. /\ job \in [Tasks -> {{}} \union {{trig} : trig \in Triggers}]
      /\ spent \in [Tasks -> SUBSET Dates]
  BY DEF TypeOK
<1>2. /\ job[t] \intersect {Repeat} \in {{}} \union {{trig} : trig \in Triggers}
      /\ job[t] \ {Repeat} \subseteq Dates
  <2>1. CASE job[t] = {}
    BY <2>1
  <2>2. ASSUME NEW trig \in Triggers, job[t] = {trig}
        PROVE  /\ job[t] \intersect {Repeat} \in {{}} \union {{d} : d \in Triggers}
               /\ job[t] \ {Repeat} \subseteq Dates
    <3>1. CASE trig = Repeat
      BY <2>2, <3>1 DEF Triggers
    <3>2. CASE trig # Repeat
      BY <2>2, <3>2 DEF Triggers
    <3> QED
      BY <3>1, <3>2
  <2> QED
    BY <1>1, <2>1, <2>2
<1> QED
  BY <1>1, <1>2 DEF Consume

LEMMA OtherTypes ==
  ASSUME TypeOK, OtherStep
  PROVE  TypeOK'
<1> USE DEF unchangedByScheduler, unchangedByReaders, taskVars, fireVars, runVars, requestVars,
            clockVars, historyVars
<1>1. MaxTime \in Nat /\ MaxCrashes \in Nat
  BY SchedulingAssumption
<1>11. up \in BOOLEAN /\ now \in 0..MaxTime /\ crashes \in 0..MaxCrashes
  BY DEF TypeOK
<1>2. ASSUME NEW f \in Firings, NEW t \in Tasks
      PROVE  /\ fpc' = [fpc EXCEPT ![f] = "begin"] =>
                  fpc' \in [Firings -> {"idle", "over", "skipped", "dead"} \union Waiting
                                         \union Launched]
             /\ ftask' = [ftask EXCEPT ![f] = t] => ftask' \in [Firings -> Tasks]
  <2>1. /\ fpc \in [Firings -> {"idle", "over", "skipped", "dead"} \union Waiting \union Launched]
        /\ ftask \in [Firings -> Tasks]
    BY DEF TypeOK
  <2>2. "begin" \in Waiting
    BY DEF Waiting
  <2> QED
    BY <2>1, <2>2
<1>3. CASE \E t \in Tasks, f \in Firings : Fire(f, t)
  <2>1. PICK t \in Tasks, f \in Firings : Fire(f, t)
    BY <1>3
  <2>2. /\ job' \in [Tasks -> {{}} \union {{trig} : trig \in Triggers}]
        /\ spent' \in [Tasks -> SUBSET Dates]
    BY <2>1, ConsumeTypes DEF Fire
  <2>3. /\ fpc' \in [Firings -> {"idle", "over", "skipped", "dead"} \union Waiting \union Launched]
        /\ ftask' \in [Firings -> Tasks]
    BY <1>2, <2>1 DEF Fire
  <2> QED
    BY <2>1, <2>2, <2>3 DEF TypeOK, Fire
<1>4. CASE \E t \in Tasks : FireSkipped(t)
  BY <1>4, ConsumeTypes DEF TypeOK, FireSkipped
<1>5. CASE \E t \in Tasks : Miss(t)
  BY <1>5, ConsumeTypes DEF TypeOK, Miss
<1>6. CASE \E f \in Firings, t \in Tasks : RunNow(f, t)
  <2>1. PICK t \in Tasks, f \in Firings : RunNow(f, t)
    BY <1>6
  <2>2. /\ fpc' \in [Firings -> {"idle", "over", "skipped", "dead"} \union Waiting \union Launched]
        /\ ftask' \in [Firings -> Tasks]
    BY <1>2, <2>1 DEF RunNow
  <2>3. fby' \in [Firings -> {"job", "user"}]
    BY <2>1 DEF TypeOK, RunNow
  <2> QED
    BY <2>1, <2>2, <2>3 DEF TypeOK, RunNow
<1>7. CASE \E f \in Firings : Watch(f) \/ Repair(f) \/ CancelRun(f) \/ DeleteConversation(f)
  BY <1>7 DEF TypeOK, Watch, Repair, CancelRun, DeleteConversation
<1>8. CASE Crash
  <2>1. /\ rpc' \in [Requests -> {"idle", "over", "dead"} \union InFlight]
        /\ fpc' \in [Firings -> {"idle", "over", "skipped", "dead"} \union Waiting \union Launched]
    BY <1>8 DEF TypeOK, Crash
  <2>2. running' \in [Tasks -> {{}} \union {{f} : f \in Firings}]
    BY <1>8 DEF Crash
  <2>3. up' \in BOOLEAN /\ now' \in 0..MaxTime /\ crashes' \in 0..MaxCrashes
    <3>1. up' \in BOOLEAN /\ now' = now
      BY <1>8 DEF Crash
    <3>2. crashes < MaxCrashes /\ crashes' = crashes + 1
      BY <1>8 DEF Crash
    <3>3. crashes' \in 0..MaxCrashes
      BY <1>11, <1>1, <3>2
    <3> QED
      BY <1>11, <3>1, <3>3
  <2>4. torn' \subseteq Tasks
    BY <1>8 DEF TypeOK, Crash
  <2> QED
    BY <1>8, <2>1, <2>2, <2>3, <2>4 DEF TypeOK, Crash
<1>9. CASE Start
  <2>1. \A t \in Tasks : task[t].trig \in Triggers
    BY DEF TypeOK, Row
  <2> QED
    BY <1>9, <2>1 DEF TypeOK, Start
<1>10. CASE Tick
  <2>1. up' \in BOOLEAN /\ now' \in 0..MaxTime /\ crashes' \in 0..MaxCrashes
    BY <1>11, <1>1, <1>10 DEF Tick
  <2>2. UNCHANGED <<taskVars, fireVars, runVars, requestVars, historyVars>>
    BY <1>10 DEF Tick
  <2> QED
    BY <2>1, <2>2 DEF TypeOK
<1> QED
  BY <1>3, <1>4, <1>5, <1>6, <1>7, <1>8, <1>9, <1>10 DEF OtherStep, SchedulerStep

LEMMA DownIsQuietStep ==
  ASSUME FiringsInv, Next
  PROVE  DownIsQuiet'
<1> USE DEF InFlight, Waiting, Launched, Holding, unchangedByScheduler, unchangedByReaders, taskVars,
            fireVars, runVars, requestVars, clockVars, historyVars, unchangedByRequests,
            unchangedByFirings
<1>1. DownIsQuiet /\ rpc \in [Requests -> {"idle", "over", "dead"} \union InFlight]
      /\ fpc \in [Firings -> {"idle", "over", "skipped", "dead"} \union Waiting \union Launched]
  BY DEF FiringsInv, TypeOK
<1>2. ASSUME NEW q \in Requests, RequestOpens(q)
      PROVE  DownIsQuiet'
  BY <1>2 DEF DownIsQuiet, RequestOpens, SetStatus, DeleteRow, CreateCheck, UpdateRead, Starts
<1>3. ASSUME NEW q \in Requests, RequestStep(q)
      PROVE  DownIsQuiet'
  BY <1>1, <1>3 DEF DownIsQuiet, RequestStep, CreateInsert, UpdateWrite, Refresh, ChangeJob, Goto
<1>4. ASSUME NEW f \in Firings, FiringStep(f)
      PROVE  DownIsQuiet'
  <2>1. UNCHANGED <<up, rpc>> /\ fpc[f] \in Waiting \union Launched
    BY <1>4 DEF FiringStep, Begin, Lookup, Acquire, Resolve, InsertRun, RunEnds, StatsRead,
                StatsWrite, Finish, Moves, Ends
  <2> QED
    BY <1>1, <2>1 DEF DownIsQuiet
<1>5. CASE OtherStep
  <2>1. CASE Crash
    BY <1>1, <2>1 DEF Crash, DownIsQuiet
  <2>2. CASE Start
    BY <2>2 DEF Start, DownIsQuiet
  <2>3. CASE Tick
    BY <1>1, <2>3 DEF Tick, DownIsQuiet
  <2>4. CASE \E f \in Firings : Watch(f) \/ Repair(f) \/ CancelRun(f) \/ DeleteConversation(f)
    BY <1>1, <2>4 DEF Watch, Repair, CancelRun, DeleteConversation, DownIsQuiet
  <2>5. CASE \E t \in Tasks : SchedulerStep(t)
    BY <2>5 DEF SchedulerStep, Fire, FireSkipped, Miss, DownIsQuiet
  <2>6. CASE \E f \in Firings, t \in Tasks : RunNow(f, t)
    BY <2>6 DEF RunNow, DownIsQuiet
  <2> QED
    BY <1>5, <2>1, <2>2, <2>3, <2>4, <2>5, <2>6 DEF OtherStep
<1> QED
  BY <1>2, <1>3, <1>4, <1>5 DEF Next, OtherStep


-----------------------------------------------------------------------------
(* A row is inserted once. *)

(* Once there is a row, it is there until it is deleted, and never again.    *)
LEMMA RequestRows ==
  ASSUME TypeOK, InsertsOnce, NEW q \in Requests, RequestOpens(q) \/ RequestStep(q)
  PROVE  \A t \in Tasks :
           /\ task'[t].st = "absent" => task[t].st = "absent"
           /\ task[t].st = "deleted" => task'[t].st = "deleted"
           /\ task[t].st = "absent" =>
                \/ task'[t].st = "absent"
                \/ rpc[q] = "insert" /\ req[q].task = t
<1>1. task \in [Tasks -> Row] /\ req[q].task \in Tasks
  BY DEF TypeOK
<1>2. CASE UNCHANGED task
  BY <1>2
<1>3. CASE \E t \in Tasks : SetStatus(q, t)
  <2>1. PICK t \in Tasks : SetStatus(q, t)
    BY <1>3
  <2>2. task[t].st \notin {"absent", "deleted"}
    BY <2>1 DEF SetStatus, Exists
  <2>3. PICK st \in {"paused", "active"} : RowBecomes(t, st, task[t].trig)
    BY <2>1, RowWrites
  <2> QED
    BY <1>1, <2>2, <2>3, RowKeeps
<1>4. CASE \E t \in Tasks : DeleteRow(q, t)
  <2>1. PICK t \in Tasks : DeleteRow(q, t)
    BY <1>4
  <2>2. task[t].st \notin {"absent", "deleted"}
    BY <2>1 DEF DeleteRow, Exists
  <2>3. RowBecomes(t, "deleted", task[t].trig)
    BY <2>1, RowWrites
  <2> QED
    BY <1>1, <2>2, <2>3, RowKeeps
<1>5. CASE CreateInsert(q)
  <2>1. RowBecomes(req[q].task, "active", req[q].trig)
    BY <1>5, RowWrites
  <2>2. rpc[q] = "insert" /\ task[req[q].task].st = "absent"
    BY <1>5 DEF CreateInsert, InsertsOnce
  <2> QED
    BY <1>1, <2>1, <2>2, RowKeeps
<1>6. CASE UpdateWrite(q) /\ Exists(req[q].task)
  <2>1. PICK st \in {task[req[q].task].st, "active"}, trig \in Triggers :
          RowBecomes(req[q].task, st, trig)
    BY <1>6, RowWrites
  <2> QED
    BY <1>1, <1>6, <2>1, RowKeeps DEF Exists
<1> QED
  BY <1>2, <1>3, <1>4, <1>5, <1>6 DEF RequestOpens, RequestStep, CreateCheck, UpdateRead, UpdateWrite,
     Refresh, ChangeJob, taskVars

LEMMA FiringRows ==
  ASSUME FiringsInv, NEW f \in Firings, FiringStep(f)
  PROVE  \A t \in Tasks :
           /\ \/ task'[t].st = task[t].st
              \/ task[t].st \notin {"absent", "deleted"} /\ task'[t].st = "finished"
           /\ task'[t].trig = task[t].trig
<1>1. task \in [Tasks -> Row] /\ ftask[f] \in Tasks
  BY DEF FiringsInv, TypeOK
<1>2. CASE UNCHANGED task
  BY <1>2
<1>3. CASE StatsWrite(f) /\ Exists(ftask[f])
  BY <1>1, <1>3, StatsWrites
<1>4. CASE Finish(f) /\ Exists(ftask[f])
  <2>1. RowBecomes(ftask[f], "finished", task[ftask[f]].trig)
    BY <1>4, RowWrites DEF FiringsInv
  <2> QED
    BY <1>1, <1>4, <2>1, RowKeeps DEF Exists
<1>5. CASE Finish(f) /\ ~Exists(ftask[f])
  BY <1>2, <1>5, RowWrites DEF FiringsInv
<1> QED
  BY <1>2, <1>3, <1>4, <1>5 DEF FiringStep, Begin, Lookup, Acquire, Resolve, InsertRun, RunEnds,
     StatsRead, StatsWrite

(* A firing is launched for a task whose row it reads as active. *)
LEMMA LaunchedMoves ==
  ASSUME FiringsInv, NEW f \in Firings, FiringStep(f)
  PROVE  /\ \A g \in Firings : g # f => fpc'[g] = fpc[g]
         /\ UNCHANGED <<ftask, rpc, req>>
         /\ fpc[f] # "idle"
         /\ fpc'[f] \in Launched => fpc[f] \in Launched \/ task[ftask[f]].st = "active"
<1>1. fpc \in [Firings -> {"idle", "over", "skipped", "dead"} \union Waiting \union Launched]
  BY DEF FiringsInv, TypeOK
<1>2. UNCHANGED <<ftask, rpc, req>>
  BY DEF FiringStep, Begin, Lookup, Acquire, Resolve, InsertRun, RunEnds, StatsRead, StatsWrite, Finish,
         unchangedByFirings, requestVars
<1>3. /\ \A from, to : Moves(f, from, to) => /\ fpc[f] = from /\ fpc'[f] = to
                                             /\ \A g \in Firings : g # f => fpc'[g] = fpc[g]
      /\ \A from : Ends(f, from) => Moves(f, from, "over")
  BY <1>1 DEF Moves, Ends
<1>4. \A to \in {"lookup", "skipped", "over"} : to \notin Launched
  BY DEF Launched, Holding
<1> QED
  BY <1>2, <1>3, <1>4 DEF FiringStep, Begin, Lookup, Acquire, Resolve, InsertRun, RunEnds, StatsRead,
     StatsWrite, Finish, Launched, Holding


LEMMA RequestMoves ==
  ASSUME TypeOK, NEW q \in Requests, RequestOpens(q) \/ RequestStep(q)
  PROVE  /\ \A p \in Requests : p # q => rpc'[p] = rpc[p] /\ req'[p] = req[p]
         /\ rpc'[q] = "insert" => \E t \in Tasks, trig \in Triggers : CreateCheck(q, t, trig)
<1>1. rpc \in [Requests -> {"idle", "over", "dead"} \union InFlight]
  BY DEF TypeOK
<1>2. req \in [Requests -> [op : Operations \union {"none"}, task : Tasks, trig : Triggers,
                            st : Status]]
  BY DEF TypeOK
<1>3. \A place : Goto(q, place) => /\ rpc'[q] = place
                                   /\ \A p \in Requests : p # q => rpc'[p] = rpc[p]
  BY <1>1 DEF Goto
<1>4. \A op, t, trig : Starts(q, op, t, trig) => \A p \in Requests : p # q => req'[p] = req[p]
  BY <1>2 DEF Starts
<1>5. Refresh(q) => \A p \in Requests : p # q => req'[p] = req[p]
  BY <1>2 DEF Refresh
<1>6. CASE RequestOpens(q)
  BY <1>3, <1>4, <1>6 DEF RequestOpens, SetStatus, DeleteRow, CreateCheck, UpdateRead
<1>7. CASE RequestStep(q)
  <2>1. CASE CreateInsert(q)
    BY <1>3, <2>1 DEF CreateInsert
  <2>2. CASE UpdateWrite(q)
    BY <1>3, <2>2 DEF UpdateWrite
  <2>3. CASE Refresh(q)
    BY <1>3, <1>5, <2>3 DEF Refresh
  <2>4. CASE ChangeJob(q)
    BY <1>3, <2>4 DEF ChangeJob
  <2> QED
    BY <1>7, <2>1, <2>2, <2>3, <2>4 DEF RequestStep
<1> QED
  BY <1>6, <1>7

LEMMA OtherMoves ==
  ASSUME TypeOK, OtherStep
  PROVE  /\ UNCHANGED <<task, req>>
         /\ Crash \/ UNCHANGED rpc
         /\ \/ UNCHANGED <<fpc, ftask>>
            \/ \E f \in Firings, t \in Tasks :
                 /\ fpc[f] = "idle"
                 /\ fpc' = [fpc EXCEPT ![f] = "begin"]
                 /\ ftask' = [ftask EXCEPT ![f] = t]
            \/ Crash
<1> USE DEF unchangedByScheduler, unchangedByReaders, taskVars, fireVars, requestVars
<1>1. CASE \E t \in Tasks : SchedulerStep(t)
  BY <1>1 DEF SchedulerStep, Fire, FireSkipped, Miss
<1>2. CASE \E f \in Firings, t \in Tasks : RunNow(f, t)
  BY <1>2 DEF RunNow
<1>3. CASE \E f \in Firings : Watch(f) \/ Repair(f) \/ CancelRun(f) \/ DeleteConversation(f)
  BY <1>3 DEF Watch, Repair, CancelRun, DeleteConversation
<1>4. CASE Crash \/ Start \/ Tick
  BY <1>4 DEF Crash, Start, Tick
<1> QED
  BY <1>1, <1>2, <1>3, <1>4 DEF OtherStep

LEMMA InsertsOnceStep ==
  ASSUME FiringsInv, InsertsOnce, Next
  PROVE  InsertsOnce'
<1>1. /\ rpc \in [Requests -> {"idle", "over", "dead"} \union InFlight]
      /\ fpc \in [Firings -> {"idle", "over", "skipped", "dead"} \union Waiting \union Launched]
      /\ ftask \in [Firings -> Tasks]
      /\ req \in [Requests -> [op : Operations \union {"none"}, task : Tasks, trig : Triggers,
                               st : Status]]
  BY DEF FiringsInv, TypeOK
<1>2. ASSUME NEW q \in Requests, RequestOpens(q) \/ RequestStep(q)
      PROVE  InsertsOnce'
  <2>1. UNCHANGED <<fpc, ftask>>
    BY <1>2, RequestTypes DEF FiringsInv, unchangedByRequests, fireVars
  <2>2. \A t \in Tasks : task'[t].st = "absent" => task[t].st = "absent"
    BY <1>2, RequestRows DEF FiringsInv
  <2>3. \A f \in Firings : fpc'[f] \in Launched => task'[ftask'[f]].st # "absent"
    BY <1>1, <2>1, <2>2 DEF InsertsOnce
  <2>4. ASSUME NEW p \in Requests, p # q, rpc'[p] = "insert"
        PROVE  task'[req'[p].task].st = "absent"
    <3>1. rpc[p] = "insert" /\ req'[p] = req[p] /\ req[p].task \in Tasks
      BY <1>1, <1>2, <2>4, RequestMoves DEF FiringsInv
    <3>2. task[req[p].task].st = "absent"
      BY <3>1 DEF InsertsOnce
    <3>3. ~(rpc[q] = "insert" /\ req[q].task = req[p].task)
      BY <2>4, <3>1 DEF InsertsOnce
    <3> QED
      BY <1>2, <3>1, <3>2, <3>3, RequestRows DEF FiringsInv
  <2>5. ASSUME rpc'[q] = "insert"
        PROVE  /\ task'[req'[q].task].st = "absent"
               /\ \A p \in Requests : rpc'[p] = "insert" /\ req'[p].task = req'[q].task => p = q
    <3>1. PICK t \in Tasks, trig \in Triggers : CreateCheck(q, t, trig)
      BY <1>2, <2>5, RequestMoves DEF FiringsInv
    <3>2. req'[q].task = t /\ UNCHANGED task /\ task[t].st = "absent"
      BY <1>1, <3>1 DEF CreateCheck, Starts, taskVars
    <3>3. \A p \in Requests : rpc[p] = "insert" => req[p].task # t
      BY <3>1 DEF CreateCheck
    <3> QED
      BY <1>2, <3>2, <3>3, RequestMoves DEF FiringsInv
  <2>6. ASSUME NEW p \in Requests, NEW o \in Requests, p # q, o # q, rpc'[p] = "insert",
               rpc'[o] = "insert", req'[p].task = req'[o].task
        PROVE  p = o
    BY <1>2, <2>6, RequestMoves DEF FiringsInv, InsertsOnce
  <2> QED
    BY <2>3, <2>4, <2>5, <2>6 DEF InsertsOnce
<1>3. ASSUME NEW f \in Firings, FiringStep(f)
      PROVE  InsertsOnce'
  <2>1. /\ \A g \in Firings : g # f => fpc'[g] = fpc[g]
        /\ UNCHANGED <<ftask, rpc, req>>
        /\ fpc'[f] \in Launched => fpc[f] \in Launched \/ task[ftask[f]].st = "active"
    BY <1>3, LaunchedMoves
  <2>2. \A t \in Tasks : task'[t].st = "absent" <=> task[t].st = "absent"
    BY <1>3, FiringRows
  <2>3. ASSUME NEW g \in Firings, fpc'[g] \in Launched
        PROVE  task'[ftask'[g]].st # "absent"
    BY <1>1, <2>1, <2>2, <2>3 DEF InsertsOnce
  <2>4. \A q \in Requests : req[q].task \in Tasks
    BY <1>1
  <2> QED
    BY <2>1, <2>2, <2>3, <2>4 DEF InsertsOnce
<1>4. CASE OtherStep
  <2>1. UNCHANGED <<task, req>>
    BY <1>4, OtherMoves DEF FiringsInv
  <2>2. CASE Crash
    BY <1>1, <2>1, <2>2 DEF Crash, InsertsOnce, InFlight, Launched, Holding
  <2>3. CASE UNCHANGED <<fpc, ftask, rpc>>
    BY <2>1, <2>3 DEF InsertsOnce
  <2>4. ASSUME NEW f \in Firings, NEW t \in Tasks, fpc' = [fpc EXCEPT ![f] = "begin"],
               ftask' = [ftask EXCEPT ![f] = t], UNCHANGED rpc
        PROVE  InsertsOnce'
    BY <1>1, <2>1, <2>4 DEF InsertsOnce, Launched, Holding
  <2> QED
    BY <1>4, <2>2, <2>3, <2>4, OtherMoves DEF FiringsInv
<1> QED
  BY <1>2, <1>3, <1>4 DEF Next, OtherStep


-----------------------------------------------------------------------------
(* The registry, the statistics and the conversations. *)

(* A step that moves no firing: statistics and conversations of the rows    *)
(* stay, a conversation may be deleted.                                     *)
Quiet ==
  /\ UNCHANGED <<fireVars, made, counted, overlapped, crashes>>
  /\ gone \subseteq gone'
  /\ \A t \in Tasks : /\ task'[t].count = task[t].count
                      /\ task'[t].conv = task[t].conv
                      /\ task[t].st = "deleted" => task'[t].st = "deleted"

(* A firing is started, by the scheduler or a user. *)
Launches(f, t) ==
  /\ fpc[f] = "idle"
  /\ fpc' = [fpc EXCEPT ![f] = "begin"]
  /\ ftask' = [ftask EXCEPT ![f] = t]
  /\ UNCHANGED <<task, running, fsnap, fconv, fcount, made, gone, counted, overlapped, crashes>>

LEMMA StepKinds ==
  ASSUME TypeOK, InsertsOnce, [Next]_vars
  PROVE  \/ Quiet
         \/ \E f \in Firings, t \in Tasks : Launches(f, t)
         \/ Crash
         \/ \E f \in Firings : FiringStep(f)
<1> USE DEF unchangedByScheduler, unchangedByReaders, taskVars, fireVars, runVars, requestVars,
            clockVars, historyVars, unchangedByRequests
<1>1. ASSUME NEW q \in Requests, RequestOpens(q) \/ RequestStep(q)
      PROVE  Quiet
  BY <1>1, RequestTypes, RequestRows DEF Quiet
<1>2. CASE \E t \in Tasks : SchedulerStep(t)
  <2>1. ASSUME NEW t \in Tasks, NEW f \in Firings, Fire(f, t)
        PROVE  Launches(f, t)
    BY <2>1 DEF Fire, Launches
  <2>2. CASE \E t \in Tasks : FireSkipped(t) \/ Miss(t)
    BY <2>2 DEF FireSkipped, Miss, Quiet
  <2> QED
    BY <1>2, <2>1, <2>2 DEF SchedulerStep
<1>3. ASSUME NEW f \in Firings, NEW t \in Tasks, RunNow(f, t)
      PROVE  Launches(f, t)
  BY <1>3 DEF RunNow, Launches
<1>4. CASE \E f \in Firings : Watch(f) \/ Repair(f) \/ CancelRun(f) \/ DeleteConversation(f)
  BY <1>4 DEF Watch, Repair, CancelRun, DeleteConversation, Quiet
<1>5. CASE Start
  BY <1>5 DEF Start, Quiet
<1>6. CASE Tick
  BY <1>6 DEF Tick, Quiet
<1>7. CASE UNCHANGED vars
  BY <1>7 DEF vars, Quiet
<1> QED
  BY <1>1, <1>2, <1>3, <1>4, <1>5, <1>6, <1>7 DEF Next

(* Where a step of a firing leaves it, what it registers and what it marks. *)
LEMMA MarksFollowStep ==
  ASSUME FiringsInv, InsertsOnce, [Next]_vars
  PROVE  MarksFollow'
<1>1. /\ fpc \in [Firings -> {"idle", "over", "skipped", "dead"} \union Waiting \union Launched]
      /\ watching \union made \union counted \subseteq Firings
      /\ TypeOK /\ MarksFollow
  BY DEF FiringsInv, TypeOK
<1>2. CASE Quiet
  BY <1>1, <1>2 DEF Quiet, fireVars, MarksFollow
<1>3. CASE \E f \in Firings, t \in Tasks : Launches(f, t)
  BY <1>1, <1>3 DEF Launches, MarksFollow
<1>4. CASE Crash
  BY <1>1, <1>4 DEF Crash, MarksFollow, Waiting, Launched, Holding
<1>5. ASSUME NEW f \in Firings, FiringStep(f)
      PROVE  MarksFollow'
  <2> USE DEF MarksFollow, Moves, Ends, Waiting
  <2>1. CASE Begin(f) \/ Lookup(f) \/ Acquire(f)
    BY <1>1, <2>1 DEF Begin, Lookup, Acquire
  <2>2. CASE Resolve(f)
    BY <1>1, <2>2 DEF Resolve
  <2>3. CASE InsertRun(f) \/ RunEnds(f)
    BY <1>1, <2>3 DEF InsertRun, RunEnds
  <2>4. CASE StatsRead(f)
    BY <1>1, <2>4 DEF StatsRead
  <2>5. CASE StatsWrite(f)
    BY <1>1, <2>5 DEF StatsWrite
  <2>6. CASE Finish(f)
    BY <1>1, <2>6 DEF Finish
  <2> QED
    BY <1>5, <2>1, <2>2, <2>3, <2>4, <2>5, <2>6 DEF FiringStep
<1> QED
  BY <1>1, <1>2, <1>3, <1>4, <1>5, StepKinds

LEMMA CountsFitStep ==
  ASSUME FiringsInv, InsertsOnce, [Next]_vars
  PROVE  CountsFit'
<1>1. /\ TypeOK /\ CountsFit
      /\ task \in [Tasks -> Row]
      /\ fcount \in [Firings -> 0..Cardinality(Firings)]
      /\ ftask \in [Firings -> Tasks]
      /\ counted \in SUBSET Firings
  BY DEF FiringsInv, TypeOK
<1>2. CASE Quiet
  BY <1>1, <1>2 DEF Quiet, fireVars, CountsFit
<1>3. CASE \E f \in Firings, t \in Tasks : Launches(f, t)
  BY <1>1, <1>3 DEF Launches, CountsFit
<1>4. CASE Crash
  BY <1>1, <1>4 DEF Crash, CountsFit, taskVars
<1>5. ASSUME NEW f \in Firings, FiringStep(f)
      PROVE  CountsFit'
  <2>1. CASE UNCHANGED <<task, fcount, counted>>
    BY <1>1, <2>1 DEF CountsFit
  <2>2. CASE StatsRead(f) /\ Exists(ftask[f])
    BY <1>1, <2>2 DEF CountsFit, StatsRead
  <2>3. CASE StatsWrite(f) /\ Exists(ftask[f])
    <3>1. /\ counted' = counted \union {f} /\ f \notin counted
          /\ task'[ftask[f]].count = fcount[f] + 1
          /\ \A u \in Tasks : u # ftask[f] => task'[u] = task[u]
      BY <2>3, StatsWrites
    <3>2. Cardinality(counted') = Cardinality(counted) + 1 /\ Cardinality(counted) \in Nat
      BY <1>1, <3>1, FiniteFirings
    <3>3. \A t \in Tasks : task[t].count \in Nat /\ task[t].count <= Cardinality(counted)
      BY <1>1 DEF Row, CountsFit
    <3>4. \A g \in Firings : fcount[g] \in Nat /\ fcount[g] <= Cardinality(counted)
      BY <1>1 DEF CountsFit
    <3>5. UNCHANGED fcount
      BY <2>3 DEF StatsWrite
    <3>6. \A t \in Tasks : task'[t].count <= Cardinality(counted')
      BY <1>1, <3>1, <3>2, <3>3, <3>4
    <3> QED
      BY <3>2, <3>4, <3>5, <3>6 DEF CountsFit
  <2>4. CASE Finish(f) /\ Exists(ftask[f])
    <3>1. \A t \in Tasks : task'[t].count = task[t].count
      BY <1>1, <2>4, RowWrites, RowKeeps
    <3> QED
      BY <1>1, <2>4, <3>1 DEF CountsFit, Finish
  <2>5. CASE Finish(f) /\ ~Exists(ftask[f])
    BY <1>1, <2>1, <2>5, RowWrites DEF Finish
  <2> QED
    BY <1>5, <2>1, <2>2, <2>3, <2>4, <2>5 DEF FiringStep, Begin, Lookup, Acquire, Resolve, InsertRun,
       RunEnds, StatsRead, StatsWrite
<1> QED
  BY <1>1, <1>2, <1>3, <1>4, <1>5, StepKinds

LEMMA FiringsInvInit == Init => FiringsInv /\ InsertsOnce
<1> SUFFICES ASSUME Init
             PROVE  FiringsInv /\ InsertsOnce
  OBVIOUS
<1>1. \A t \in Tasks : /\ task[t] \in Row
                       /\ task[t].count = 0
                       /\ Exists(t) => task[t].trig \in Triggers
  <2>1. \A st \in Status, trig \in Triggers : Known(st, trig) \in Row /\ Known(st, trig).count = 0
    BY FiniteFirings DEF Known, Row
  <2>2. Repeat \in Triggers /\ {"absent", "active"} \subseteq Status
    BY DEF Triggers, Status
  <2>3. \A t \in Tasks : \E st \in Status, trig \in Triggers : task[t] = Known(st, trig)
    <3>1. CASE "create" \in Operations
      BY <2>2, <3>1 DEF Init
    <3>2. CASE "create" \notin Operations
      BY <2>2, <3>2 DEF Init
    <3> QED
      BY <3>1, <3>2
  <2> QED
    BY <2>1, <2>3 DEF Row
<1>2. task \in [Tasks -> Row]
  BY <1>1 DEF Init
<1>3. job \in [Tasks -> {{}} \union {{trig} : trig \in Triggers}]
  BY <1>1 DEF Init
<1>4. (CHOOSE t \in Tasks : TRUE) \in Tasks
  BY SchedulingAssumption
<1>5. /\ Cardinality({}) = 0
      /\ Cardinality(Firings) \in Nat
  BY FiniteFirings, FS_EmptySet
<1>6. /\ ftask \in [Firings -> Tasks]
      /\ fsnap \in [Firings -> [trig : Triggers,
                                conv : {NoConversation} \union {{f} : f \in Firings}]]
      /\ req \in [Requests -> [op : Operations \union {"none"}, task : Tasks, trig : Triggers,
                               st : Status]]
  BY <1>4 DEF Init, Triggers, Status
<1>7. 0 \in 0..MaxTime /\ 0 \in 0..MaxCrashes
  BY SchedulingAssumption
<1>8. TypeOK
  <2>1. /\ running \in [Tasks -> {{}} \union {{f} : f \in Firings}]
        /\ spent \in [Tasks -> SUBSET Dates]
        /\ missed \union raced \union torn \union overlapped \subseteq Tasks
    BY DEF Init
  <2>2. /\ fpc \in [Firings -> {"idle", "over", "skipped", "dead"} \union Waiting \union Launched]
        /\ fby \in [Firings -> {"job", "user"}]
        /\ fconv \in [Firings -> {NoConversation} \union {{f} : f \in Firings}]
        /\ run \in [Firings -> {"none", "running", "ended", "interrupted", "cancelled"}]
    BY DEF Init
  <2>3. fcount \in [Firings -> 0..Cardinality(Firings)]
    BY <1>5 DEF Init
  <2>4. rpc \in [Requests -> {"idle", "over", "dead"} \union InFlight]
    BY DEF Init
  <2>5. <<up, now, crashes>> \in BOOLEAN \X (0..MaxTime) \X (0..MaxCrashes)
    BY <1>7 DEF Init
  <2>6. gone \subseteq made /\ watching \union made \union counted \subseteq Firings
    BY DEF Init
  <2> QED
    BY <1>2, <1>3, <1>6, <2>1, <2>2, <2>3, <2>4, <2>5, <2>6 DEF TypeOK
<1>9. DownIsQuiet /\ MarksFollow
  BY DEF Init, DownIsQuiet, MarksFollow
<1>10. CountsFit
  BY <1>1, <1>5 DEF Init, CountsFit
<1>11. InsertsOnce
  BY DEF Init, InsertsOnce, Launched, Holding
<1> QED
  BY <1>8, <1>9, <1>10, <1>11 DEF FiringsInv

LEMMA FiringsInvNext == FiringsInv /\ InsertsOnce /\ [Next]_vars => FiringsInv' /\ InsertsOnce'
<1> SUFFICES ASSUME FiringsInv, InsertsOnce, [Next]_vars
             PROVE  FiringsInv' /\ InsertsOnce'
  OBVIOUS
<1>1. MarksFollow' /\ CountsFit'
  BY MarksFollowStep, CountsFitStep
<1>2. CASE Next
  <2>1. DownIsQuiet' /\ InsertsOnce'
    BY <1>2, DownIsQuietStep, InsertsOnceStep
  <2>2. TypeOK'
    BY <1>2, RequestTypes, FiringTypes, OtherTypes DEF FiringsInv, Next, OtherStep
  <2> QED
    BY <1>1, <2>1, <2>2 DEF FiringsInv
<1>3. CASE UNCHANGED vars
  <2>1. TypeOK'
    BY <1>3 DEF FiringsInv, TypeOK, vars, taskVars, fireVars, runVars, requestVars, clockVars,
                historyVars
  <2>2. DownIsQuiet' /\ InsertsOnce'
    BY <1>3 DEF FiringsInv, DownIsQuiet, InsertsOnce, vars, taskVars, fireVars, requestVars, clockVars
  <2> QED
    BY <1>1, <2>1, <2>2 DEF FiringsInv
<1> QED
  BY <1>2, <1>3


LEMMA RegistryKinds ==
  ASSUME FiringsInv, NEW f \in Firings, FiringStep(f)
  PROVE  /\ UNCHANGED ftask
         /\ overlapped \subseteq overlapped'
         /\ \A g \in Firings : g # f => fpc'[g] = fpc[g]
         /\ \/ fpc'[f] \notin Launched /\ fpc[f] \notin Launched /\ UNCHANGED running
            \/ fpc'[f] \in Launched /\ fpc[f] \in Launched /\ UNCHANGED running
            \/ /\ fpc'[f] \in Launched /\ fpc[f] \notin Launched
               /\ running' = [running EXCEPT ![ftask[f]] = {f}]
               /\ ftask[f] \notin overlapped' =>
                    \A g \in Firings : g # f /\ ftask[g] = ftask[f] => fpc[g] \notin Launched
            \/ /\ fpc'[f] \notin Launched /\ fpc[f] \in Launched
               /\ running' = [running EXCEPT ![ftask[f]] = {}]
<1> USE DEF Waiting, Launched, Holding, unchangedByFirings
<1>1. fpc \in [Firings -> {"idle", "over", "skipped", "dead"} \union Waiting \union Launched]
  BY DEF FiringsInv, TypeOK
<1>2. /\ UNCHANGED ftask
      /\ \A g \in Firings : g # f => fpc'[g] = fpc[g]
  BY LaunchedMoves
<1>3. CASE Begin(f)
  BY <1>1, <1>2, <1>3 DEF Begin, Moves
<1>4. CASE Lookup(f)
  BY <1>1, <1>2, <1>4 DEF Lookup, Moves
<1>5. CASE Acquire(f) \/ Resolve(f) \/ InsertRun(f) \/ RunEnds(f)
  BY <1>1, <1>2, <1>5 DEF Acquire, Resolve, InsertRun, RunEnds, Moves
<1>6. CASE StatsRead(f)
  BY <1>1, <1>2, <1>6 DEF StatsRead, Ends, Moves
<1>7. CASE StatsWrite(f)
  BY <1>1, <1>2, <1>7 DEF StatsWrite, Ends, Moves
<1>8. CASE Finish(f)
  BY <1>1, <1>2, <1>8 DEF Finish, Ends, Moves
<1> QED
  BY <1>3, <1>4, <1>5, <1>6, <1>7, <1>8 DEF FiringStep

(* Unless firings of a task have overlapped, at most one is at work.        *)
LEMMA OneAtWork ==
  ASSUME TypeOK, RegistryExact, NEW t \in Tasks \ overlapped, NEW f \in Firings, NEW g \in Firings,
         ftask[f] = t, ftask[g] = t, fpc[f] \in Launched, fpc[g] \in Launched
  PROVE  f = g
<1>1. f \in running[t] /\ g \in running[t]
  BY DEF RegistryExact
<1>2. running[t] = {} \/ \E h \in Firings : running[t] = {h}
  BY DEF TypeOK
<1> QED
  BY <1>1, <1>2

LEMMA RegistryStep ==
  ASSUME FiringsInv, InsertsOnce, RegistryExact, [Next]_vars
  PROVE  RegistryExact'
<1>1. /\ fpc \in [Firings -> {"idle", "over", "skipped", "dead"} \union Waiting \union Launched]
      /\ ftask \in [Firings -> Tasks]
      /\ running \in [Tasks -> {{}} \union {{f} : f \in Firings}]
      /\ TypeOK
  BY DEF FiringsInv, TypeOK
<1>2. CASE Quiet
  BY <1>2 DEF Quiet, fireVars, RegistryExact
<1>3. CASE \E f \in Firings, t \in Tasks : Launches(f, t)
  <2>1. PICK f \in Firings, t \in Tasks : Launches(f, t)
    BY <1>3
  <2>2. /\ fpc[f] \notin Launched /\ fpc'[f] \notin Launched
        /\ \A g \in Firings : g # f => fpc'[g] = fpc[g] /\ ftask'[g] = ftask[g]
        /\ UNCHANGED <<running, overlapped>>
    BY <1>1, <2>1 DEF Launches, Launched, Holding
  <2> QED
    BY <2>2 DEF RegistryExact
<1>4. CASE Crash
  <2>1. \A f \in Firings : fpc'[f] \notin Launched
    BY <1>1, <1>4 DEF Crash, Waiting, Launched, Holding
  <2>2. running' = [t \in Tasks |-> {}]
    BY <1>4 DEF Crash
  <2> QED
    BY <2>1, <2>2 DEF RegistryExact
<1>5. ASSUME NEW f \in Firings, FiringStep(f)
      PROVE  RegistryExact'
  <2> SUFFICES ASSUME NEW t \in Tasks, t \notin overlapped'
               PROVE  running'[t] = {g \in Firings : ftask'[g] = t /\ fpc'[g] \in Launched}
    BY DEF RegistryExact
  <2>1. /\ UNCHANGED ftask
        /\ t \notin overlapped
        /\ \A g \in Firings : g # f => fpc'[g] = fpc[g]
    BY <1>5, RegistryKinds
  <2>2. running[t] = {g \in Firings : ftask[g] = t /\ fpc[g] \in Launched}
    BY <2>1 DEF RegistryExact
  <2>3. CASE UNCHANGED running /\ (fpc'[f] \in Launched <=> fpc[f] \in Launched)
    BY <2>1, <2>2, <2>3
  <2>4. CASE t # ftask[f]
    <3>1. running'[t] = running[t]
      BY <1>1, <1>5, <2>4, RegistryKinds
    <3> QED
      BY <2>1, <2>2, <2>4, <3>1
  <2>5. CASE /\ t = ftask[f]
             /\ fpc'[f] \in Launched /\ fpc[f] \notin Launched
             /\ running' = [running EXCEPT ![ftask[f]] = {f}]
    <3>1. \A g \in Firings : g # f /\ ftask[g] = t => fpc[g] \notin Launched
      BY <1>5, <2>5, RegistryKinds
    <3>2. running'[t] = {f}
      BY <1>1, <2>5
    <3> QED
      BY <2>1, <2>5, <3>1, <3>2
  <2>6. CASE /\ t = ftask[f]
             /\ fpc'[f] \notin Launched /\ fpc[f] \in Launched
             /\ running' = [running EXCEPT ![ftask[f]] = {}]
    <3>1. \A g \in Firings : g # f /\ ftask[g] = t => fpc[g] \notin Launched
      BY <1>1, <2>1, <2>6, OneAtWork
    <3>2. running'[t] = {}
      BY <1>1, <2>6
    <3> QED
      BY <2>1, <2>6, <3>1, <3>2
  <2> QED
    BY <1>5, <2>3, <2>4, <2>5, <2>6, RegistryKinds
<1> QED
  BY <1>1, <1>2, <1>3, <1>4, <1>5, StepKinds

LEMMA CountsExactStep ==
  ASSUME FiringsInv, InsertsOnce, RegistryExact, CountsExact, [Next]_vars
  PROVE  CountsExact'
<1>1. /\ fpc \in [Firings -> {"idle", "over", "skipped", "dead"} \union Waiting \union Launched]
      /\ ftask \in [Firings -> Tasks]
      /\ task \in [Tasks -> Row]
      /\ fcount \in [Firings -> 0..Cardinality(Firings)]
      /\ counted \in SUBSET Firings
      /\ TypeOK /\ MarksFollow
  BY DEF FiringsInv, TypeOK
<1>2. CASE Quiet
  <2>1. \A t \in Tasks : Counted(t)' = Counted(t)
    BY <1>2 DEF Quiet, fireVars, Counted
  <2> QED
    BY <1>2, <2>1 DEF Quiet, fireVars, CountsExact
<1>3. CASE \E f \in Firings, t \in Tasks : Launches(f, t)
  <2>1. PICK f \in Firings, t \in Tasks : Launches(f, t)
    BY <1>3
  <2>2. f \notin counted
    BY <2>1 DEF Launches, FiringsInv, MarksFollow
  <2>3. /\ fpc'[f] # "write"
        /\ \A g \in Firings : g # f => fpc'[g] = fpc[g] /\ ftask'[g] = ftask[g]
        /\ UNCHANGED <<task, fcount, counted, overlapped>>
    BY <1>1, <2>1 DEF Launches
  <2>4. \A u \in Tasks : Counted(u)' = Counted(u)
    BY <1>1, <2>2, <2>3 DEF Counted
  <2> QED
    BY <2>3, <2>4 DEF CountsExact
<1>4. CASE Crash
  <2>1. \A f \in Firings : fpc'[f] # "write"
    BY <1>1, <1>4 DEF Crash, Waiting, Launched, Holding
  <2>2. \A t \in Tasks : Counted(t)' = Counted(t)
    BY <1>4 DEF Crash, Counted
  <2> QED
    BY <1>4, <2>1, <2>2 DEF Crash, taskVars, CountsExact
<1>5. ASSUME NEW f \in Firings, FiringStep(f)
      PROVE  CountsExact'
  <2> SUFFICES ASSUME NEW t \in Tasks, t \notin overlapped'
               PROVE  /\ task'[t].count = Cardinality(Counted(t)')
                      /\ \A g \in Firings :
                           ftask'[g] = t /\ fpc'[g] = "write" => fcount'[g] = task'[t].count
    BY DEF CountsExact
  <2>1. /\ UNCHANGED ftask
        /\ t \notin overlapped
        /\ \A g \in Firings : g # f => fpc'[g] = fpc[g]
    BY <1>5, RegistryKinds
  <2>2. /\ task[t].count = Cardinality(Counted(t))
        /\ \A g \in Firings : ftask[g] = t /\ fpc[g] = "write" => fcount[g] = task[t].count
    BY <2>1 DEF CountsExact
  <2>3. CASE UNCHANGED <<task, fcount, counted>> /\ fpc'[f] # "write"
    BY <2>1, <2>2, <2>3 DEF Counted
  <2>4. CASE StatsRead(f) /\ Exists(ftask[f])
    <3>1. UNCHANGED <<task, counted>> /\ fcount'[f] = task[ftask[f]].count
      BY <1>1, <2>4 DEF StatsRead
    <3>2. \A g \in Firings : g # f => fcount'[g] = fcount[g]
      BY <1>1, <2>4 DEF StatsRead
    <3> QED
      BY <2>1, <2>2, <3>1, <3>2 DEF Counted
  <2>5. CASE StatsWrite(f) /\ Exists(ftask[f])
    <3>1. /\ counted' = counted \union {f} /\ f \notin counted
          /\ task'[ftask[f]].count = fcount[f] + 1
          /\ \A u \in Tasks : u # ftask[f] => task'[u] = task[u]
      BY <2>5, StatsWrites
    <3>2. fpc[f] = "write" /\ fpc'[f] # "write" /\ UNCHANGED fcount
      BY <1>1, <2>5 DEF StatsWrite, Ends, Moves
    <3>3. CASE t = ftask[f]
      <4>1. Counted(t)' = Counted(t) \union {f} /\ f \notin Counted(t)
        BY <1>1, <2>1, <3>1, <3>3 DEF Counted
      <4>2. Counted(t) \in SUBSET Firings
        BY <1>1 DEF Counted
      <4>3. Cardinality(Counted(t)') = Cardinality(Counted(t)) + 1
        BY <4>1, <4>2, FiniteFirings
      <4>4. fcount[f] = task[t].count
        BY <2>2, <3>2, <3>3
      <4>5. \A g \in Firings : ftask[g] = t /\ fpc[g] = "write" => g = f
        BY <1>1, <2>1, <3>2, <3>3, OneAtWork DEF Launched, Holding
      <4> QED
        BY <2>1, <2>2, <3>1, <3>2, <3>3, <4>3, <4>4, <4>5
    <3>4. CASE t # ftask[f]
      <4>1. Counted(t)' = Counted(t)
        BY <2>1, <3>1, <3>4 DEF Counted
      <4> QED
        BY <2>1, <2>2, <3>1, <3>2, <3>4, <4>1
    <3> QED
      BY <3>3, <3>4
  <2>6. CASE Finish(f)
    <3>1. \A u \in Tasks : task'[u].count = task[u].count
      BY <1>1, <2>6, RowWrites, RowKeeps
    <3>2. UNCHANGED <<fcount, counted>> /\ fpc'[f] # "write"
      BY <1>1, <2>6 DEF Finish, Ends, Moves
    <3> QED
      BY <2>1, <2>2, <3>1, <3>2 DEF Counted
  <2> QED
    BY <1>1, <1>5, <2>3, <2>4, <2>5, <2>6 DEF FiringStep, Begin, Lookup, Acquire, Resolve, InsertRun,
       RunEnds, StatsRead, StatsWrite, Ends, Moves
<1> QED
  BY <1>1, <1>2, <1>3, <1>4, <1>5, StepKinds


(* What a step of a firing does to the conversations of its task.           *)
Held(f, c) ==
  /\ fpc[f] \in {"wait", "resolve"} => c \subseteq fsnap[f].conv
  /\ fpc[f] \in Resolved => c \subseteq fconv[f]

RowHolds(t) ==
  \/ \E f \in Firings : ftask[f] = t /\ fpc[f] \in Resolved
  \/ task[t].st = "deleted" /\ \E c \in Conversations : Kept(t) \subseteq c
  \/ Kept(t) \subseteq task[t].conv

LEMMA HeldIs ==
  ConversationHeld <=>
    \A t \in Tasks \ overlapped :
      crashes = 0 => /\ \A f \in Firings : ftask[f] = t => Held(f, Kept(t))
                     /\ RowHolds(t)
BY DEF ConversationHeld, Held, RowHolds

LEMMA KeptIsOne ==
  ASSUME TypeOK, ConversationHeld, crashes = 0, NEW t \in Tasks \ overlapped
  PROVE  \E c \in Conversations : Kept(t) \subseteq c
<1>1. /\ \A f \in Firings : fconv[f] \in Conversations
      /\ task[t].conv \in Conversations
  BY DEF TypeOK, Row, Conversations
<1>2. CASE \E f \in Firings : ftask[f] = t /\ fpc[f] \in Resolved
  BY <1>1, <1>2 DEF ConversationHeld
<1> QED
  BY <1>1, <1>2 DEF ConversationHeld

LEMMA ConversationFirings ==
  ASSUME FiringsInv, InsertsOnce, RegistryExact, ConversationHeld, NEW f \in Firings, FiringStep(f),
         crashes = 0, NEW t \in Tasks \ overlapped', ftask[f] = t
  PROVE  /\ \A g \in Firings : ftask[g] = t => Held(g, Kept(t))'
         /\ RowHolds(t)'
<1>1. /\ fpc \in [Firings -> {"idle", "over", "skipped", "dead"} \union Waiting \union Launched]
      /\ ftask \in [Firings -> Tasks]
      /\ task \in [Tasks -> Row]
      /\ fsnap \in [Firings -> [trig : Triggers, conv : Conversations]]
      /\ fconv \in [Firings -> Conversations]
      /\ TypeOK
  BY DEF FiringsInv, TypeOK, Conversations
<1>2. /\ UNCHANGED <<ftask, gone>>
      /\ t \notin overlapped
      /\ \A g \in Firings : g # f => fpc'[g] = fpc[g]
  <2>1. UNCHANGED gone
    BY DEF FiringStep, Begin, Lookup, Acquire, Resolve, InsertRun, RunEnds, StatsRead, StatsWrite,
           Finish, unchangedByFirings
  <2> QED
    BY <2>1, RegistryKinds
<1>3. /\ \A g \in Firings : ftask[g] = t => Held(g, Kept(t))
      /\ RowHolds(t)
      /\ \E c \in Conversations : Kept(t) \subseteq c
  BY <1>1, <1>2, HeldIs, KeptIsOne
<1>4. ~Exists(t) /\ fpc[f] \in Launched => task[t].st = "deleted"
  BY DEF Exists, InsertsOnce
<1>5. ASSUME fpc[f] \in Launched, NEW g \in Firings, g # f, ftask[g] = t
      PROVE  fpc[g] \notin Launched /\ fpc'[g] \notin Launched
  BY <1>1, <1>2, <1>5, OneAtWork
<1>6. UNCHANGED made => Kept(t)' = Kept(t)
  BY <1>2 DEF Kept
<1> USE DEF Moves, Ends, Resolved, Launched, Holding, Held
<1>11. CASE Begin(f)
  <2>1. UNCHANGED <<task, fsnap, fconv, made>> /\ fpc'[f] \in {"lookup", "skipped"}
        /\ fpc[f] = "begin"
    BY <1>1, <1>11 DEF Begin
  <2> QED
    BY <1>2, <1>3, <1>6, <2>1 DEF RowHolds
<1>12. CASE Lookup(f)
  <2>1. CASE task[t].st = "active"
    <3>1. /\ UNCHANGED <<task, fconv, made>> /\ fpc'[f] = "wait" /\ fpc[f] = "lookup"
          /\ fsnap' = [fsnap EXCEPT ![f] = [trig |-> task[t].trig, conv |-> task[t].conv]]
      BY <1>1, <1>12, <2>1 DEF Lookup
    <3>2. \A g \in Firings : g # f /\ ftask[g] = t => fpc[g] \notin Launched
      BY <1>1, <3>1, RegistryKinds
    <3>3. Kept(t) \subseteq task[t].conv
      BY <1>3, <2>1, <3>1, <3>2 DEF RowHolds
    <3>4. fsnap'[f].conv = task[t].conv
      BY <1>1, <3>1
    <3>5. \A g \in Firings : g # f => fsnap'[g] = fsnap[g]
      BY <1>1, <3>1
    <3> QED
      BY <1>2, <1>3, <1>6, <3>1, <3>2, <3>3, <3>4, <3>5 DEF RowHolds
  <2>2. CASE task[t].st # "active"
    <3>1. UNCHANGED <<task, fsnap, fconv, made>> /\ fpc'[f] = "skipped" /\ fpc[f] = "lookup"
      BY <1>1, <1>12, <2>2 DEF Lookup
    <3> QED
      BY <1>2, <1>3, <1>6, <3>1 DEF RowHolds
  <2> QED
    BY <2>1, <2>2
<1>13. CASE Acquire(f)
  <2>1. UNCHANGED <<task, fsnap, fconv, made>> /\ fpc'[f] = "resolve" /\ fpc[f] = "wait"
    BY <1>1, <1>13 DEF Acquire
  <2> QED
    BY <1>2, <1>3, <1>6, <2>1 DEF RowHolds
<1>14. CASE Resolve(f)
  <2>1. /\ UNCHANGED <<task, fsnap>> /\ fpc'[f] = "insert" /\ fpc[f] = "resolve"
        /\ \A g \in Firings : g # f => fconv'[g] = fconv[g]
    BY <1>1, <1>14 DEF Resolve
  <2>2. Kept(t) \subseteq fsnap[f].conv \ gone
    BY <1>3, <2>1 DEF Kept
  <2>3. Kept(t)' \subseteq fconv'[f]
    <3>1. CASE fsnap[f].conv \ gone # {}
      <4>1. UNCHANGED made /\ fconv'[f] = fsnap[f].conv \ gone
        BY <1>1, <1>14, <3>1 DEF Resolve
      <4> QED
        BY <1>6, <2>2, <4>1
    <3>2. CASE fsnap[f].conv \ gone = {}
      <4>1. made' = made \union {f} /\ fconv'[f] = {f}
        BY <1>1, <1>14, <3>2 DEF Resolve
      <4>2. Kept(t) = {}
        BY <2>2, <3>2
      <4> QED
        BY <1>2, <4>1, <4>2 DEF Kept
    <3> QED
      BY <3>1, <3>2
  <2>4. \A g \in Firings : g # f /\ ftask[g] = t => fpc'[g] \notin Launched
    BY <1>5, <2>1
  <2> QED
    BY <1>2, <2>1, <2>3, <2>4 DEF RowHolds
<1>15. CASE InsertRun(f) \/ RunEnds(f)
  <2>1. /\ UNCHANGED <<task, fsnap, fconv, made>>
        /\ fpc'[f] \in Resolved /\ fpc[f] \in Resolved
    BY <1>1, <1>15 DEF InsertRun, RunEnds
  <2> QED
    BY <1>2, <1>3, <1>6, <2>1 DEF RowHolds
<1>16. CASE StatsRead(f)
  <2>1. UNCHANGED <<task, fsnap, fconv, made>> /\ fpc[f] = "stats"
    BY <1>1, <1>16 DEF StatsRead
  <2>2. CASE Exists(t)
    <3>1. fpc'[f] = "write"
      BY <1>1, <1>16, <2>2 DEF StatsRead
    <3> QED
      BY <1>2, <1>3, <1>6, <2>1, <3>1 DEF RowHolds
  <2>3. CASE ~Exists(t)
    <3>1. fpc'[f] \in {"finish", "over"}
      BY <1>1, <1>16, <2>3 DEF StatsRead
    <3>2. task'[t].st = "deleted"
      BY <1>4, <2>1, <2>3
    <3> QED
      BY <1>2, <1>3, <1>6, <2>1, <3>1, <3>2 DEF RowHolds
  <2> QED
    BY <2>2, <2>3
<1>17. CASE StatsWrite(f)
  <2>1. UNCHANGED <<fsnap, fconv, made>> /\ fpc[f] = "write" /\ fpc'[f] \in {"finish", "over"}
    BY <1>1, <1>17 DEF StatsWrite
  <2>2. \A g \in Firings : ftask[g] = t => Held(g, Kept(t))'
    BY <1>2, <1>3, <1>6, <2>1
  <2>3. CASE Exists(t)
    <3>1. task'[t].conv = fconv[f]
      BY <1>17, <2>3, StatsWrites
    <3>2. Kept(t)' \subseteq task'[t].conv
      BY <1>3, <1>6, <2>1, <3>1
    <3> QED
      BY <2>2, <3>2 DEF RowHolds
  <2>4. CASE ~Exists(t)
    <3>1. UNCHANGED task
      BY <1>17, <2>4 DEF StatsWrite
    <3>2. task'[t].st = "deleted"
      BY <1>4, <2>1, <2>4, <3>1
    <3> QED
      BY <1>3, <1>6, <2>1, <2>2, <3>2 DEF RowHolds
  <2> QED
    BY <2>3, <2>4
<1>18. CASE Finish(f)
  <2>1. UNCHANGED <<fsnap, fconv, made>> /\ fpc[f] = "finish" /\ fpc'[f] = "over"
    BY <1>1, <1>18 DEF Finish
  <2>2. task'[t].conv = task[t].conv
    BY <1>1, <1>18, RowWrites, RowKeeps
  <2>3. task[t].st = "deleted" => task'[t].st = "deleted"
    BY FiringRows
  <2> QED
    BY <1>2, <1>3, <1>6, <2>1, <2>2, <2>3 DEF RowHolds
<1> QED
  BY <1>11, <1>12, <1>13, <1>14, <1>15, <1>16, <1>17, <1>18 DEF FiringStep


LEMMA ConversationStep ==
  ASSUME FiringsInv, InsertsOnce, RegistryExact, ConversationHeld, [Next]_vars
  PROVE  ConversationHeld'
<1>1. /\ fpc \in [Firings -> {"idle", "over", "skipped", "dead"} \union Waiting \union Launched]
      /\ ftask \in [Firings -> Tasks]
      /\ task \in [Tasks -> Row]
      /\ crashes \in Nat
      /\ made \subseteq Firings
      /\ TypeOK
  <2>1. TypeOK
    BY DEF FiringsInv
  <2>2. crashes \in 0..MaxCrashes
    BY <2>1 DEF TypeOK
  <2>3. crashes \in Nat
    BY <2>2
  <2>4. /\ fpc \in [Firings -> {"idle", "over", "skipped", "dead"} \union Waiting \union Launched]
        /\ ftask \in [Firings -> Tasks]
        /\ task \in [Tasks -> Row]
    BY <2>1 DEF TypeOK
  <2>5. made \subseteq Firings
    BY <2>1 DEF TypeOK
  <2> QED
    BY <2>1, <2>3, <2>4, <2>5
<1> SUFFICES ASSUME NEW t \in Tasks, t \notin overlapped', crashes' = 0
             PROVE  /\ \A f \in Firings : ftask'[f] = t => Held(f, Kept(t))'
                    /\ RowHolds(t)'
  BY DEF ConversationHeld, Held, RowHolds
<1>2. CASE Quiet
  <2>1. /\ UNCHANGED <<fpc, ftask, fsnap, fconv, made, overlapped, crashes>>
        /\ task'[t].conv = task[t].conv
        /\ task[t].st = "deleted" => task'[t].st = "deleted"
        /\ gone \subseteq gone'
    BY <1>2 DEF Quiet, fireVars
  <2>2. Kept(t)' \subseteq Kept(t)
    BY <2>1 DEF Kept
  <2>3. /\ \A f \in Firings : ftask[f] = t => Held(f, Kept(t))
        /\ RowHolds(t)
    BY <2>1, HeldIs
  <2> QED
    BY <2>1, <2>2, <2>3 DEF Held, RowHolds
<1>3. CASE \E f \in Firings, u \in Tasks : Launches(f, u)
  <2>1. PICK f \in Firings, u \in Tasks : Launches(f, u)
    BY <1>3
  <2>2. /\ fpc[f] = "idle" /\ fpc'[f] = "begin" /\ f \notin made
        /\ \A g \in Firings : g # f => fpc'[g] = fpc[g] /\ ftask'[g] = ftask[g]
        /\ UNCHANGED <<task, fsnap, fconv, made, gone, overlapped, crashes>>
    BY <1>1, <2>1 DEF Launches, FiringsInv, MarksFollow
  <2>3. Kept(t)' = Kept(t)
    BY <1>1, <2>2 DEF Kept
  <2>4. /\ \A g \in Firings : ftask[g] = t => Held(g, Kept(t))
        /\ RowHolds(t)
    BY <2>2, HeldIs
  <2> QED
    BY <2>2, <2>3, <2>4 DEF Held, RowHolds, Resolved
<1>4. CASE Crash
  BY <1>1, <1>4 DEF Crash
<1>5. ASSUME NEW f \in Firings, FiringStep(f)
      PROVE  /\ \A g \in Firings : ftask'[g] = t => Held(g, Kept(t))'
             /\ RowHolds(t)'
  <2>1. /\ UNCHANGED <<ftask, crashes>>
        /\ t \notin overlapped
        /\ \A g \in Firings : g # f => fpc'[g] = fpc[g]
    <3>1. UNCHANGED crashes
      BY <1>5 DEF FiringStep, Begin, Lookup, Acquire, Resolve, InsertRun, RunEnds, StatsRead,
             StatsWrite, Finish, unchangedByFirings, clockVars
    <3> QED
      BY <1>5, <3>1, RegistryKinds
  <2>2. CASE ftask[f] = t
    BY <1>5, <2>1, <2>2, ConversationFirings
  <2>3. CASE ftask[f] # t
    <3>1. /\ \A g \in Firings : g # f => fsnap'[g] = fsnap[g] /\ fconv'[g] = fconv[g]
          /\ UNCHANGED gone
          /\ UNCHANGED made \/ made' = made \union {f}
      <4>1. fsnap \in [Firings -> [trig : Triggers, conv : Conversations]]
            /\ fconv \in [Firings -> Conversations]
        BY <1>1 DEF TypeOK, Conversations
      <4> QED
        BY <1>5, <4>1 DEF FiringStep, Begin, Lookup, Acquire, Resolve, InsertRun, RunEnds, StatsRead,
           StatsWrite, Finish, unchangedByFirings
    <3>2. Kept(t)' = Kept(t)
      BY <2>1, <2>3, <3>1 DEF Kept
    <3>3. task'[t].conv = task[t].conv /\ (task[t].st = "deleted" => task'[t].st = "deleted")
      <4>1. CASE UNCHANGED task
        BY <4>1
      <4>2. CASE StatsWrite(f) /\ Exists(ftask[f])
        BY <2>3, <4>2, StatsWrites
      <4>3. CASE Finish(f)
        BY <1>1, <4>3, <1>5, RowWrites, RowKeeps, FiringRows
      <4> QED
        BY <1>5, <4>1, <4>2, <4>3 DEF FiringStep, Begin, Lookup, Acquire, Resolve, InsertRun, RunEnds,
           StatsRead, StatsWrite
    <3>4. /\ \A g \in Firings : ftask[g] = t => Held(g, Kept(t))
          /\ RowHolds(t)
      BY <2>1, HeldIs
    <3> QED
      BY <2>1, <2>3, <3>1, <3>2, <3>3, <3>4 DEF Held, RowHolds
  <2> QED
    BY <2>2, <2>3
<1> QED
  BY <1>1, <1>2, <1>3, <1>4, <1>5, StepKinds

(* Types, insertions, registry, statistics and conversations together. *)
FiringsExact == FiringsInv /\ InsertsOnce /\ RegistryExact /\ CountsExact /\ ConversationHeld

LEMMA FiringsExactInit == Init => FiringsExact
<1> SUFFICES ASSUME Init
             PROVE  FiringsExact
  OBVIOUS
<1>1. FiringsInv /\ InsertsOnce
  BY FiringsInvInit
<1>2. \A f \in Firings : fpc[f] = "idle"
  BY DEF Init
<1>3. RegistryExact
  BY <1>2 DEF Init, RegistryExact, Launched, Holding
<1>4. \A t \in Tasks : task[t].count = 0
  <2>1. \A st, trig : Known(st, trig).count = 0
    BY DEF Known
  <2> QED
    BY <2>1 DEF Init
<1>5. CountsExact
  <2>1. \A t \in Tasks : Counted(t) = {}
    BY DEF Init, Counted
  <2> QED
    BY <1>2, <1>4, <2>1, FS_EmptySet DEF CountsExact
<1>6. ConversationHeld
  <2>1. \A t \in Tasks : Kept(t) = {}
    BY DEF Init, Kept
  <2> QED
    BY <2>1 DEF ConversationHeld
<1> QED
  BY <1>1, <1>3, <1>5, <1>6 DEF FiringsExact

LEMMA FiringsExactNext == FiringsExact /\ [Next]_vars => FiringsExact'
BY FiringsInvNext, RegistryStep, CountsExactStep, ConversationStep DEF FiringsExact

(* In every reachable state the registry, the counters and the conversations *)
(* of the tasks agree with the firings at work and the firings that ended.   *)
THEOREM FiringsExactHolds == Spec => []FiringsExact
BY FiringsExactInit, FiringsExactNext, PTL DEF Spec

(* _RUNNING_TASKS names the firing at work on a task and no other, until two *)
(* of them overlap (_fire and its finally clause).                           *)
THEOREM RegistryIsExact == Spec => []RegistryExact
<1>1. FiringsExact => RegistryExact
  BY DEF FiringsExact
<1> QED
  BY <1>1, FiringsExactHolds, PTL

(* Until two firings of a task overlap, its run_count is the number of its   *)
(* runs that reached their end and its runs are in one conversation,         *)
(* whatever requests write to the row meanwhile (update_run_stats,           *)
(* _resolve_task_conversation).                                              *)
THEOREM RowsAreConsistent == Spec => []RowsConsistent
<1>1. FiringsExact => TypeOK /\ StatsExact
  BY DEF FiringsExact, FiringsInv, CountsExact, StatsExact, Counted
<1>2. FiringsExact => OneConversation
  <2> SUFFICES ASSUME FiringsExact, NEW t \in Tasks \ overlapped, crashes = 0
               PROVE  Cardinality({f \in made \ gone : ftask[f] = t}) <= 1
    BY DEF OneConversation
  <2>1. PICK c \in Conversations : Kept(t) \subseteq c
    BY KeptIsOne DEF FiringsExact, FiringsInv
  <2>2. IsFiniteSet(c) /\ Cardinality(c) <= 1
    <3>1. CASE c = {}
      BY <3>1, FS_EmptySet
    <3>2. ASSUME NEW f \in Firings, c = {f}
          PROVE  IsFiniteSet(c) /\ Cardinality(c) <= 1
      <4>1. IsFiniteSet({f}) /\ Cardinality({f}) = 1
        BY FS_Singleton
      <4> QED
        BY <3>2, <4>1
    <3> QED
      BY <3>1, <3>2 DEF Conversations, NoConversation
  <2>3. Cardinality(Kept(t)) <= Cardinality(c) /\ Cardinality(Kept(t)) \in Nat /\ Cardinality(c) \in Nat
    BY <2>1, <2>2, FS_Subset, FS_CardinalityType
  <2> QED
    BY <2>2, <2>3 DEF Kept
<1> QED
  BY <1>1, <1>2, FiringsExactHolds, PTL DEF RowsConsistent


-----------------------------------------------------------------------------
(* The jobs follow the rows. *)

Between(q) == rpc[q] \in {"refresh", "act"}

LEMMA CommittedIs ==
  /\ \A t : Committed(t) = {q \in Requests : req[q].task = t /\ Between(q)}
  /\ \A t : Committed(t)' = {q \in Requests : req'[q].task = t /\ Between(q)'}
BY DEF Committed, Between

(* A request that commits to a task nobody else is between.                 *)
LEMMA JobsAtCommit ==
  ASSUME JobsInv, TypeOK, NEW q \in Requests, NEW t \in Tasks,
         \A p \in Requests : p # q => rpc'[p] = rpc[p] /\ req'[p] = req[p],
         \A u \in Tasks : u # t => task'[u] = task[u],
         ~Between(q), NoteRace(q, t), req'[q].task = t, Between(q)', Stands(q)', Opening',
         UNCHANGED <<job, up, spent, torn>>
  PROVE  JobsInv'
<1>1. /\ raced \subseteq raced'
      /\ t \notin raced' => Committed(t) \ {q} = {}
  BY DEF NoteRace
<1>2. ASSUME NEW u \in Tasks, u \notin raced', u = t
      PROVE  /\ \A p, o \in Committed(u)' : p = o
             /\ \A p \in Committed(u)' : Stands(p)'
             /\ Committed(u)' # {}
  <2>1. Committed(u)' = {q}
    BY <1>1, <1>2, CommittedIs DEF Between
  <2> QED
    BY <2>1
<1>3. ASSUME NEW u \in Tasks, u \notin raced', u # t
      PROVE  /\ \A p, o \in Committed(u)' : p = o
             /\ \A p \in Committed(u)' : Stands(p)'
             /\ Committed(u)' = {} => JobFollows(u)'
  <2>1. Committed(u)' = Committed(u)
    BY <1>3, CommittedIs DEF Between
  <2>2. \A p \in Committed(u) : p # q /\ req[p].task = u
    BY CommittedIs
  <2>3. u \in Tasks \ raced
    BY <1>1, <1>3
  <2>4. \A p \in Committed(u) : Stands(p)'
    BY <1>3, <2>2, <2>3, CommittedIs DEF JobsInv, Stands
  <2> QED
    BY <1>3, <2>1, <2>3, <2>4 DEF JobsInv, JobFollows
<1> QED
  BY <1>2, <1>3 DEF JobsInv

(* A step that leaves the requests where they are between commit and job.   *)
LEMMA JobsElsewhere ==
  ASSUME JobsInv,
         \A q \in Requests : Between(q)' <=> Between(q),
         \A q \in Requests : Between(q) => rpc'[q] = rpc[q] /\ req'[q] = req[q],
         raced \subseteq raced', Opening',
         \A t \in Tasks : task'[t].st = task[t].st /\ task'[t].trig = task[t].trig,
         \A t \in Tasks : Committed(t) = {} /\ JobFollows(t) => JobFollows(t)',
         req \in [Requests -> [op : Operations \union {"none"}, task : Tasks, trig : Triggers,
                               st : Status]]
  PROVE  JobsInv'
<1>1. \A t \in Tasks : Committed(t)' = Committed(t)
  BY CommittedIs
<1>2. ASSUME NEW t \in Tasks \ raced, NEW q \in Committed(t)
      PROVE  Stands(q)'
  <2>1. Stands(q) /\ q \in Requests /\ Between(q) /\ req[q].task = t
    BY CommittedIs DEF JobsInv
  <2> QED
    BY <2>1 DEF Stands
<1> QED
  BY <1>1, <1>2 DEF JobsInv

LEMMA JobsRequests ==
  ASSUME FiringsInv, JobsInv, NEW q \in Requests, RequestOpens(q) \/ RequestStep(q)
  PROVE  JobsInv'
<1>1. /\ rpc \in [Requests -> {"idle", "over", "dead"} \union InFlight]
      /\ req \in [Requests -> [op : Operations \union {"none"}, task : Tasks, trig : Triggers,
                               st : Status]]
      /\ task \in [Tasks -> Row]
      /\ job \in [Tasks -> {{}} \union {{trig} : trig \in Triggers}]
      /\ TypeOK
  BY DEF FiringsInv, TypeOK
<1>2. /\ \A p \in Requests : p # q => rpc'[p] = rpc[p] /\ req'[p] = req[p]
      /\ UNCHANGED <<up, spent, torn>>
  BY <1>1, RequestMoves, RequestTypes DEF unchangedByRequests, clockVars
<1>3. \A place : Goto(q, place) => rpc'[q] = place
  BY <1>1 DEF Goto
<1>4. \A op, t, trig : Starts(q, op, t, trig) =>
                           rpc[q] = "idle" /\ req'[q].op = op /\ req'[q].task = t
  BY <1>1 DEF Starts
<1> USE DEF Opening, Between
<1>5. CASE \E t \in Tasks : SetStatus(q, t)
  <2>1. PICK t \in Tasks : SetStatus(q, t)
    BY <1>5
  <2>2. /\ rpc[q] = "idle" /\ rpc'[q] = "refresh" /\ NoteRace(q, t) /\ UNCHANGED job
        /\ req'[q].task = t
    BY <1>3, <1>4, <2>1 DEF SetStatus
  <2>3. \/ req'[q].op = "pause" /\ RowBecomes(t, "paused", task[t].trig)
        \/ req'[q].op = "resume" /\ RowBecomes(t, "active", task[t].trig)
    BY <1>1, <2>1, RowWrites
  <2>4. \/ req'[q].op = "pause" /\ task'[t].st = "paused"
        \/ req'[q].op = "resume" /\ task'[t].st = "active"
    BY <1>1, <2>3, RowKeeps
  <2>5. \A u \in Tasks : u # t => task'[u] = task[u]
    BY <1>1, <2>3, RowKeeps
  <2>6. Stands(q)'
    BY <2>2, <2>4 DEF Stands
  <2>7. Opening'
    BY <1>2, <2>2 DEF JobsInv
  <2> QED
    BY <1>1, <1>2, <2>2, <2>5, <2>6, <2>7, JobsAtCommit
<1>6. CASE \E t \in Tasks : DeleteRow(q, t)
  <2>1. PICK t \in Tasks : DeleteRow(q, t)
    BY <1>6
  <2>2. /\ rpc[q] = "idle" /\ rpc'[q] = "act" /\ NoteRace(q, t) /\ UNCHANGED job
        /\ req'[q].task = t /\ req'[q].op = "delete"
    BY <1>3, <1>4, <2>1 DEF DeleteRow
  <2>3. RowBecomes(t, "deleted", task[t].trig)
    BY <1>1, <2>1, RowWrites
  <2>4. task'[t].st = "deleted" /\ \A u \in Tasks : u # t => task'[u] = task[u]
    BY <1>1, <2>3, RowKeeps
  <2>5. Stands(q)'
    BY <2>2, <2>4 DEF Stands
  <2>6. Opening'
    BY <1>2, <2>2 DEF JobsInv
  <2> QED
    BY <1>1, <1>2, <2>2, <2>4, <2>5, <2>6, JobsAtCommit
<1>7. CASE CreateInsert(q)
  <2>1. PICK t \in Tasks : t = req[q].task
    BY <1>1
  <2>2. /\ rpc[q] = "insert" /\ rpc'[q] = "refresh" /\ NoteRace(q, t) /\ UNCHANGED <<job, req>>
        /\ req[q].op = "create"
    BY <1>3, <1>7, <2>1 DEF CreateInsert, JobsInv
  <2>3. task'[t].st = "active" /\ \A u \in Tasks : u # t => task'[u] = task[u]
    BY <1>1, <1>7, <2>1, RowWrites, RowKeeps
  <2>4. Stands(q)'
    BY <2>1, <2>2, <2>3 DEF Stands
  <2>5. Opening'
    BY <1>2, <2>2 DEF JobsInv
  <2> QED
    BY <1>1, <1>2, <2>1, <2>2, <2>3, <2>4, <2>5, JobsAtCommit
<1>8. CASE UpdateWrite(q) /\ Exists(req[q].task)
  <2>1. PICK t \in Tasks : t = req[q].task
    BY <1>1
  <2>2. /\ rpc[q] = "update" /\ rpc'[q] = "refresh" /\ NoteRace(q, t) /\ UNCHANGED <<job, req>>
        /\ req[q].op \in {"update", "rename"}
    BY <1>3, <1>8, <2>1 DEF UpdateWrite, JobsInv
  <2>3. PICK st \in {task[t].st, "active"}, trig \in Triggers : RowBecomes(t, st, trig)
    BY <1>1, <1>8, <2>1, RowWrites
  <2>4. task'[t].st = st /\ \A u \in Tasks : u # t => task'[u] = task[u]
    BY <1>1, <2>3, RowKeeps
  <2>5. Stands(q)'
    BY <1>8, <2>1, <2>2, <2>4 DEF Stands, Exists
  <2>6. Opening'
    BY <1>2, <2>2 DEF JobsInv
  <2> QED
    BY <1>1, <1>2, <2>1, <2>2, <2>4, <2>5, <2>6, JobsAtCommit
<1>9. ASSUME UNCHANGED <<task, job, raced>>, ~Between(q), ~Between(q)', Opening'
      PROVE  JobsInv'
  <2>1. \A t \in Tasks : JobFollows(t)' <=> JobFollows(t)
    BY <1>2, <1>9 DEF JobFollows
  <2> QED
    BY <1>1, <1>2, <1>9, <2>1, JobsElsewhere
<1>10. CASE \E t \in Tasks, trig \in Triggers : CreateCheck(q, t, trig) \/ UpdateRead(q, t, trig)
  <2>1. /\ rpc[q] = "idle" /\ UNCHANGED <<task, job, raced>>
        /\ \/ rpc'[q] = "insert" /\ req'[q].op = "create"
           \/ rpc'[q] = "update" /\ req'[q].op \in {"update", "rename"}
    BY <1>3, <1>4, <1>10 DEF CreateCheck, UpdateRead, taskVars
  <2>2. Opening'
    BY <1>2, <2>1 DEF JobsInv
  <2> QED
    BY <1>9, <2>1, <2>2
<1>11. CASE UpdateWrite(q) /\ ~Exists(req[q].task)
  <2>1. rpc[q] = "update" /\ rpc'[q] = "over" /\ UNCHANGED <<task, job, raced>>
    BY <1>3, <1>11 DEF UpdateWrite
  <2>2. Opening'
    BY <1>2, <2>1 DEF JobsInv
  <2> QED
    BY <1>9, <2>1, <2>2
<1>12. CASE Refresh(q)
  <2>1. PICK t \in Tasks : t = req[q].task
    BY <1>1
  <2>2. rpc[q] = "refresh" /\ rpc'[q] \in {"act", "over"} /\ UNCHANGED <<task, job, raced>>
    BY <1>3, <1>12 DEF Refresh, taskVars
  <2>3. Opening'
    BY <1>2, <2>2 DEF JobsInv
  <2>4. req'[q].task = t /\ req'[q].op = req[q].op
    BY <1>1, <1>12, <2>1 DEF Refresh
  <2>5. ASSUME NEW u \in Tasks, u \notin raced, u # t
        PROVE  /\ \A p, o \in Committed(u)' : p = o
               /\ \A p \in Committed(u)' : Stands(p)'
               /\ Committed(u)' = {} => JobFollows(u)'
    <3>1. Committed(u)' = Committed(u)
      BY <1>2, <2>1, <2>4, <2>5, CommittedIs
    <3>2. \A p \in Committed(u) : p # q /\ p \in Requests
      BY <2>1, <2>5, CommittedIs
    <3>3. \A p \in Committed(u) : Stands(p)'
      BY <1>2, <2>2, <2>5, <3>2 DEF JobsInv, Stands
    <3> QED
      BY <1>2, <2>2, <2>5, <3>1, <3>3 DEF JobsInv, JobFollows
  <2>6. ASSUME t \notin raced
        PROVE  /\ \A p, o \in Committed(t)' : p = o
               /\ \A p \in Committed(t)' : Stands(p)'
               /\ Committed(t)' # {}
    <3>1. q \in Committed(t)
      BY <2>1, <2>2, CommittedIs
    <3>2. Stands(q) /\ \A p \in Committed(t) : p = q
      BY <2>6, <3>1 DEF JobsInv
    <3>3. Exists(t) /\ req[q].op # "delete"
      BY <2>1, <2>2, <3>2 DEF Stands, Exists
    <3>4. rpc'[q] = "act" /\ req'[q].st = task[t].st /\ req'[q].trig = task[t].trig
      BY <1>1, <1>3, <1>12, <2>1, <3>3 DEF Refresh
    <3>5. Stands(q)'
      BY <2>1, <2>2, <2>4, <3>2, <3>3, <3>4 DEF Stands
    <3>6. Committed(t)' = {q}
      BY <1>2, <2>1, <2>4, <3>1, <3>2, <3>4, CommittedIs
    <3> QED
      BY <3>5, <3>6
  <2> QED
    BY <2>2, <2>3, <2>5, <2>6 DEF JobsInv
<1>13. CASE ChangeJob(q)
  <2>1. PICK t \in Tasks : t = req[q].task
    BY <1>1
  <2>2. rpc[q] = "act" /\ rpc'[q] = "over" /\ UNCHANGED <<task, req, raced>>
    BY <1>3, <1>13 DEF ChangeJob
  <2>3. Opening'
    BY <1>2, <2>2 DEF JobsInv
  <2>4. job'[t] = JobAfter(req[q]) /\ \A u \in Tasks : u # t => job'[u] = job[u]
    BY <1>1, <1>13, <2>1 DEF ChangeJob
  <2>5. ASSUME NEW u \in Tasks, u \notin raced, u # t
        PROVE  /\ \A p, o \in Committed(u)' : p = o
               /\ \A p \in Committed(u)' : Stands(p)'
               /\ Committed(u)' = {} => JobFollows(u)'
    <3>1. Committed(u)' = Committed(u)
      BY <1>2, <2>1, <2>2, <2>5, CommittedIs
    <3>2. \A p \in Committed(u) : p # q /\ p \in Requests
      BY <2>1, <2>5, CommittedIs
    <3>3. \A p \in Committed(u) : Stands(p)'
      BY <1>2, <2>2, <2>5, <3>2 DEF JobsInv, Stands
    <3> QED
      BY <1>2, <2>2, <2>4, <2>5, <3>1, <3>3 DEF JobsInv, JobFollows
  <2>6. ASSUME t \notin raced
        PROVE  Committed(t)' = {} /\ JobFollows(t)'
    <3>1. q \in Committed(t)
      BY <2>1, <2>2, CommittedIs
    <3>2. Stands(q) /\ \A p \in Committed(t) : p = q
      BY <2>6, <3>1 DEF JobsInv
    <3>3. Committed(t)' = {}
      BY <1>2, <2>2, <3>2, CommittedIs
    <3>4. job'[t] \in {{}, {req[q].trig}}
      BY <2>4 DEF JobAfter
    <3>5. CASE req[q].op = "delete"
      <4>1. task[t].st = "deleted" /\ job'[t] = {}
        BY <2>1, <2>4, <3>2, <3>5 DEF Stands, JobAfter
      <4> QED
        BY <2>2, <3>3, <4>1 DEF JobFollows
    <3>6. CASE req[q].op # "delete"
      <4>1. /\ req[q].trig = task[t].trig
            /\ task[t].st \in {req[q].st, "finished"}
            /\ task[t].st \notin {"absent", "deleted"}
        BY <2>1, <2>2, <3>2, <3>6 DEF Stands
      <4>2. task[t].st = "active" => job'[t] = {req[q].trig}
        BY <2>1, <2>4, <3>2, <3>6, <4>1 DEF Stands, JobAfter
      <4>3. task[t].st = "paused" => job'[t] = {}
        BY <2>1, <2>4, <3>2, <3>6, <4>1 DEF Stands, JobAfter
      <4> QED
        BY <2>2, <3>3, <3>4, <4>1, <4>2, <4>3 DEF JobFollows
    <3> QED
      BY <3>5, <3>6
  <2> QED
    BY <2>2, <2>3, <2>5, <2>6 DEF JobsInv
<1> QED
  BY <1>5, <1>6, <1>7, <1>8, <1>10, <1>11, <1>12, <1>13 DEF RequestOpens, RequestStep


LEMMA JobsConsumed ==
  ASSUME TypeOK, NEW t \in Tasks, Consume(t), UNCHANGED <<task, up, torn>>
  PROVE  \A u \in Tasks : JobFollows(u) => JobFollows(u)'
<1>1. /\ job \in [Tasks -> {{}} \union {{trig} : trig \in Triggers}]
      /\ spent \in [Tasks -> SUBSET Dates]
  BY DEF TypeOK
<1>2. /\ job'[t] = job[t] \intersect {Repeat}
      /\ spent'[t] = spent[t] \union (job[t] \ {Repeat})
      /\ \A u \in Tasks : u # t => job'[u] = job[u] /\ spent'[u] = spent[u]
  BY <1>1 DEF Consume
<1>3. \A u \in Tasks : u # t => (JobFollows(u) => JobFollows(u)')
  BY <1>2 DEF JobFollows
<1>4. ASSUME JobFollows(t)
      PROVE  JobFollows(t)'
  <2>1. up' /\ task'[t].st = "active" => job'[t] = {task'[t].trig} \/ task'[t].trig \in spent'[t]
    <3>1. CASE job[t] = {task[t].trig} /\ task[t].trig = Repeat
      BY <1>2, <3>1
    <3>2. CASE job[t] = {task[t].trig} /\ task[t].trig # Repeat
      BY <1>2, <3>2
    <3>3. CASE task[t].trig \in spent[t]
      BY <1>2, <3>3
    <3> QED
      BY <1>4, <3>1, <3>2, <3>3 DEF JobFollows
  <2>2. task'[t].st \in {"absent", "paused", "deleted"} => job'[t] = {} \/ t \in torn'
    BY <1>2, <1>4 DEF JobFollows
  <2>3. job'[t] \subseteq {task'[t].trig} \/ t \in torn'
    BY <1>2, <1>4 DEF JobFollows
  <2> QED
    BY <2>1, <2>2, <2>3 DEF JobFollows
<1> QED
  BY <1>3, <1>4

LEMMA JobsFirings ==
  ASSUME FiringsInv, JobsInv, NEW f \in Firings, FiringStep(f)
  PROVE  JobsInv'
<1>1. /\ UNCHANGED <<rpc, req, job, spent, up, torn, raced>>
      /\ \A t \in Tasks : /\ \/ task'[t].st = task[t].st
                             \/ task[t].st \notin {"absent", "deleted"} /\ task'[t].st = "finished"
                          /\ task'[t].trig = task[t].trig
  <2>1. UNCHANGED <<rpc, req, job, spent, up, torn, raced>>
    BY DEF FiringStep, Begin, Lookup, Acquire, Resolve, InsertRun, RunEnds, StatsRead, StatsWrite,
           Finish, unchangedByFirings, requestVars, clockVars
  <2> QED
    BY <2>1, FiringRows
<1>2. \A q \in Requests : req[q].task \in Tasks
  BY DEF FiringsInv, TypeOK
<1>3. \A t \in Tasks : Committed(t)' = Committed(t)
  BY <1>1, CommittedIs DEF Between
<1>4. ASSUME NEW t \in Tasks \ raced, NEW q \in Committed(t)
      PROVE  Stands(q)'
  <2>1. Stands(q) /\ req[q].task \in Tasks /\ UNCHANGED <<rpc, req>>
    BY <1>1, <1>2, CommittedIs DEF JobsInv
  <2> QED
    BY <1>1, <2>1 DEF Stands
<1>5. \A t \in Tasks : JobFollows(t) => JobFollows(t)'
  BY <1>1 DEF JobFollows
<1>6. Opening'
  BY <1>1 DEF JobsInv, Opening
<1> QED
  BY <1>1, <1>3, <1>4, <1>5, <1>6 DEF JobsInv

LEMMA JobsOthers ==
  ASSUME FiringsInv, JobsInv, OtherStep
  PROVE  JobsInv'
<1> USE DEF unchangedByScheduler, unchangedByReaders, taskVars, fireVars, runVars, requestVars,
            clockVars, historyVars
<1>1. /\ TypeOK
      /\ req \in [Requests -> [op : Operations \union {"none"}, task : Tasks, trig : Triggers,
                               st : Status]]
      /\ rpc \in [Requests -> {"idle", "over", "dead"} \union InFlight]
      /\ job \in [Tasks -> {{}} \union {{trig} : trig \in Triggers}]
  BY DEF FiringsInv, TypeOK
<1>2. ASSUME UNCHANGED <<rpc, req, task, raced>>,
             \A t \in Tasks : JobFollows(t) => JobFollows(t)'
      PROVE  JobsInv'
  <2>1. Opening'
    BY <1>2 DEF JobsInv, Opening
  <2> QED
    BY <1>1, <1>2, <2>1, JobsElsewhere DEF Between
<1>3. CASE \E t \in Tasks : SchedulerStep(t)
  <2>1. PICK t \in Tasks : SchedulerStep(t)
    BY <1>3
  <2>2. Consume(t) /\ UNCHANGED <<rpc, req, task, raced, up, torn>>
    BY <2>1 DEF SchedulerStep, Fire, FireSkipped, Miss
  <2>3. \A u \in Tasks : JobFollows(u) => JobFollows(u)'
    BY <1>1, <2>2, JobsConsumed
  <2> QED
    BY <1>2, <2>2, <2>3
<1>4. ASSUME UNCHANGED <<rpc, req, task, raced, job, spent, up, torn>>
      PROVE  JobsInv'
  BY <1>2, <1>4 DEF JobFollows
<1>5. CASE \E f \in Firings, t \in Tasks : RunNow(f, t)
  BY <1>4, <1>5 DEF RunNow
<1>6. CASE \E f \in Firings : Watch(f) \/ Repair(f) \/ CancelRun(f) \/ DeleteConversation(f)
  BY <1>4, <1>6 DEF Watch, Repair, CancelRun, DeleteConversation
<1>7. CASE Tick
  BY <1>4, <1>7 DEF Tick
<1>8. CASE Crash
  <2>1. /\ UNCHANGED <<task, job, req, spent, raced>>
        /\ ~up'
        /\ torn' = torn \union {t \in Tasks : Committed(t) # {}}
    BY <1>8 DEF Crash
  <2>2. \A q \in Requests : rpc'[q] \notin InFlight
    BY <1>1, <1>8 DEF Crash, InFlight
  <2>3. Opening' /\ \A t \in Tasks : Committed(t)' = {}
    BY <2>2, CommittedIs DEF Opening, Between, InFlight
  <2>4. ASSUME NEW t \in Tasks \ raced
        PROVE  JobFollows(t)'
    <3>1. CASE Committed(t) = {}
      BY <2>1, <2>4, <3>1 DEF JobsInv, JobFollows
    <3>2. CASE Committed(t) # {}
      BY <2>1, <3>2 DEF JobFollows
    <3> QED
      BY <3>1, <3>2
  <2> QED
    BY <2>1, <2>3, <2>4 DEF JobsInv
<1>9. CASE Start
  <2>1. /\ UNCHANGED <<rpc, req, task, raced, spent, torn>> /\ ~up
        /\ \A t \in Tasks : job'[t] = IF task[t].st = "active" THEN {task[t].trig} ELSE job[t]
    BY <1>9 DEF Start
  <2>2. \A t \in Tasks : JobFollows(t) => JobFollows(t)'
    BY <2>1 DEF JobFollows
  <2> QED
    BY <1>2, <2>1, <2>2
<1> QED
  BY <1>3, <1>5, <1>6, <1>7, <1>8, <1>9 DEF OtherStep

LEMMA JobsInvInit == Init => JobsInv
<1> SUFFICES ASSUME Init
             PROVE  JobsInv
  OBVIOUS
<1>1. \A t \in Tasks : Committed(t) = {}
  BY DEF Init, Committed
<1>2. Opening
  BY DEF Init, Opening
<1>3. ASSUME NEW t \in Tasks
      PROVE  JobFollows(t)
  <2>1. \A st, trig : Known(st, trig).st = st
    BY DEF Known
  <2>2. task[t].st \in {"absent", "active"}
    BY <2>1 DEF Init
  <2>3. job[t] = IF Exists(t) THEN {task[t].trig} ELSE {}
    BY DEF Init
  <2> QED
    BY <2>2, <2>3 DEF JobFollows, Exists
<1> QED
  BY <1>1, <1>2, <1>3 DEF JobsInv

LEMMA JobsInvNext == FiringsInv /\ JobsInv /\ [Next]_vars => JobsInv'
<1> SUFFICES ASSUME FiringsInv, JobsInv, [Next]_vars
             PROVE  JobsInv'
  OBVIOUS
<1>1. CASE UNCHANGED vars
  <2>1. UNCHANGED <<task, job, rpc, req, up, spent, torn, raced>>
    BY <1>1 DEF vars, taskVars, requestVars, clockVars, historyVars
  <2>2. \A t \in Tasks : JobFollows(t) => JobFollows(t)'
    BY <2>1 DEF JobFollows
  <2>3. Opening'
    BY <2>1 DEF JobsInv, Opening
  <2> QED
    BY <2>1, <2>2, <2>3, JobsElsewhere DEF Between, FiringsInv, TypeOK
<1> QED
  BY <1>1, JobsRequests, JobsFirings, JobsOthers DEF Next, OtherStep

(* When no request is between its commit and its job, the job of a task is   *)
(* the one its row asks for, whatever fired, crashed or restarted since      *)
(* (create_task, update_task, _set_status, delete_task,                      *)
(* load_all_active_tasks).                                                   *)
THEOREM JobsFollowRows == Spec => []JobsMatchRows
<1>1. Init => FiringsExact /\ JobsInv
  BY FiringsExactInit, JobsInvInit
<1>2. FiringsExact /\ JobsInv /\ [Next]_vars => (FiringsExact /\ JobsInv)'
  BY FiringsExactNext, JobsInvNext DEF FiringsExact
<1>3. JobsInv => JobsMatchRows
  BY DEF JobsInv, JobsMatchRows, JobFollows
<1> QED
  BY <1>1, <1>2, <1>3, PTL DEF Spec
=============================================================================
