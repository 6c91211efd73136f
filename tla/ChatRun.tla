------------------------------- MODULE ChatRun -------------------------------
(***************************************************************************)
(* The life of the background chat runs of one conversation inside one     *)
(* server process without Redis: the ChatRunRow of each run in the         *)
(* database, its ActiveRun in the RunRegistry, the asyncio task that       *)
(* executes it, the question a tool may be waiting on, and the HTTP        *)
(* handlers that create, stream, answer, cancel and delete runs.           *)
(*                                                                         *)
(* The process is one asyncio event loop: what a coroutine does between    *)
(* two awaits is one step, and anything may run while it awaits.  A        *)
(* database write takes effect in a step of its own and its caller goes    *)
(* on in a later one.  Database operations are assumed not to fail.        *)
(*                                                                         *)
(* A text is the number of deltas it holds.  Every handler instance (an    *)
(* element of Creators, Streams or Cancellers) serves one request.         *)
(***************************************************************************)
EXTENDS Naturals, Sequences, FiniteSets

CONSTANTS
  MaxRuns,      \* bound: rows the conversation may hold
  Creators,     \* POST /runs requests
  Streams,      \* GET /runs/{id}/stream requests
  Cancellers,   \* POST /runs/{id}/cancel requests
  MaxText,      \* bound: text deltas one run emits
  MaxAsks,      \* bound: questions one run asks its user
  QueueSize,    \* capacity of a subscriber's queue (200 in the code)
  MaxRestarts   \* bound: restarts of the process

ASSUME ConstantsAssumption ==
  /\ MaxRuns \in Nat
  /\ MaxText \in Nat
  /\ MaxAsks \in Nat
  /\ MaxRestarts \in Nat
  /\ QueueSize \in Nat \ {0, 1}

Runs == 1..MaxRuns
NoRun == 0
NoQuestion == 0

VARIABLES
  row,        \* ChatRunRow of each run: status, text and the cause in "error"
  erased,     \* history: runs whose assistant message a user deleted
  made,       \* number of run ids handed out; a later run has a larger id
  local,      \* keys of RunRegistry._local
  status,     \* ActiveRun.state["status"]
  text,       \* accumulated_content, mirrored in ActiveRun.state by the state sink
  question,   \* the question in ActiveRun._hitl_futures and in pending_question
  answer,     \* the question the answer held by that Future names
  asked,      \* questions asked so far
  pc,         \* where the background task of each run is suspended
  cancelled,  \* runs whose task has a cancel request not delivered yet
  stored,     \* text of the row the task's last write returned, NoRow when None
  replies,    \* history: <<run, question, answer>> handed back to a tool
  cpc, crun,  \* create requests: suspension point, run they found or made
  spc, srun,  \* streams: suspension point, run they follow
  sread,      \* streams: the row as it was read at the start
  shere,      \* streams: an ActiveRun was found after that read
  queue,      \* streams: the subscriber's queue
  view,       \* streams: the text their client shows
  late,       \* history: streams that subscribed when no task would tell the end
  kpc, krun,  \* cancel requests: suspension point, run they stop
  ktext,      \* cancel requests: the text in their patch, then in their row
  restarts    \* restarts so far

registryVars == <<local, status, question, answer>>
taskVars == <<text, asked, pc, stored, replies>>
createVars == <<made, cpc, crun>>
streamVars == <<spc, srun, sread, shere, late>>
cancelVars == <<kpc, krun, ktext>>
handlerVars == <<createVars, streamVars, view, cancelVars, restarts>>
vars == <<row, erased, registryVars, taskVars, cancelled, queue, handlerVars>>

-----------------------------------------------------------------------------
Terminal == {"done", "error", "cancelled"}
RowStatus == {"absent", "running", "deleted"} \union Terminal

(* Why a row holds an error: the run raised, its user stopped it, a stream *)
(* found it without a task, a create request found it without a task.      *)
Cause == {"none", "failed", "stopped", "interrupted", "restarted"}

Row == [st : RowStatus, text : 0..MaxText, why : Cause]

NoRow == MaxText + 1    \* update_run_row returned None

(* Where a task waits; at "start" it was created and has not run yet. *)
Suspended == {"start", "prepare", "stream", "ask", "save", "write", "meta",
              "unwindError", "unwindCancel", "fail", "failed", "halt", "halted"}

(* How a task ended: it announced "done", an error, or the stop; or a      *)
(* second cancellation cut its last handler short; or it was cancelled     *)
(* before its first step; or its process died.                             *)
Ended == {"finished", "errored", "stopped", "cut", "unstarted", "dead"}

(* A "message" carries one delta, a "run_state" the whole text. *)
Event == [ev : {"message", "run_state", "done", "error", "asked", "resolved"},
          text : 0..MaxText]

Signal(name) == [ev |-> name, text |-> 0]
Delta == [ev |-> "message", text |-> 1]
Snapshot(txt) == [ev |-> "run_state", text |-> txt]

IsFinal(e) == e.ev \in {"done", "error"}

Exists(r) == row[r].st \notin {"absent", "deleted"}

Subscribers(r) == {s \in Streams : spc[s] = "listen" /\ srun[s] = r}

-----------------------------------------------------------------------------
(* Mutant: the queue has no bound. *)
PushUnbounded(q, e) == Append(q, e)

(* _enqueue: a full queue loses its oldest item. *)
Push(q, e) == IF Len(q) < QueueSize THEN Append(q, e) ELSE Append(Tail(q), e)

(* RunRegistry.broadcast: nothing happens for a run that is not local. *)
Broadcast(r, e) ==
  queue' = [s \in Streams |->
              IF r \in local /\ s \in Subscribers(r) THEN Push(queue[s], e)
              ELSE queue[s]]

(* _broadcast_snapshot when the write returned a row, then the last event. *)
BroadcastLast(r, txt, e) ==
  LET With(q) == IF txt = NoRow THEN q
                 ELSE Push(q, Snapshot(txt))
  IN  queue' = [s \in Streams |->
                  IF r \in local /\ s \in Subscribers(r)
                  THEN Push(With(queue[s]), e) ELSE queue[s]]

(* Mutant: an upsert. *)
PatchedUpsert(r, st, why, txt) ==
  [row EXCEPT ![r] = [st |-> st, text |-> txt, why |-> why]]

(* update_run_row: the row of r after the patch; None when there is none. *)
Patched(r, st, why, txt) ==
  IF Exists(r) THEN [row EXCEPT ![r] = [st |-> st, text |-> txt, why |-> why]]
  ELSE row

ReturnedText(r, txt) == IF Exists(r) THEN txt ELSE NoRow

(* Mutant: an empty content is stored too. *)
CancelTextAlways(r, txt) == txt

(* _build_cancel_patch: an empty content is left out of the patch. *)
CancelText(r, txt) == IF txt > 0 THEN txt ELSE row[r].text

AbsentRow == [st |-> "absent", text |-> 0, why |-> "none"]
NewRow == [st |-> "running", text |-> 0, why |-> "none"]
DeletedRow == [st |-> "deleted", text |-> 0, why |-> "none"]

Goto(r, from, to) == /\ pc[r] = from
                     /\ pc' = [pc EXCEPT ![r] = to]

(* The finally clause of _run_chat_in_background: the run leaves the registry. *)
Pop(r) == /\ local' = local \ {r}
          /\ status' = [status EXCEPT ![r] = "none"]
          /\ UNCHANGED <<question, answer>>

Init ==
  /\ row = [r \in Runs |-> AbsentRow]
  /\ erased = {}
  /\ local = {}
  /\ status = [r \in Runs |-> "none"]
  /\ question = [r \in Runs |-> NoQuestion]
  /\ answer = [r \in Runs |-> NoQuestion]
  /\ text = [r \in Runs |-> 0]
  /\ asked = [r \in Runs |-> 0]
  /\ pc = [r \in Runs |-> "none"]
  /\ stored = [r \in Runs |-> NoRow]
  /\ replies = {}
  /\ cancelled = {}
  /\ made = 0
  /\ cpc = [c \in Creators |-> "idle"]
  /\ crun = [c \in Creators |-> NoRun]
  /\ spc = [s \in Streams |-> "idle"]
  /\ srun = [s \in Streams |-> NoRun]
  /\ sread = [s \in Streams |-> AbsentRow]
  /\ shere = [s \in Streams |-> FALSE]
  /\ late = {}
  /\ queue = [s \in Streams |-> <<>>]
  /\ view = [s \in Streams |-> 0]
  /\ kpc = [k \in Cancellers |-> "idle"]
  /\ krun = [k \in Cancellers |-> NoRun]
  /\ ktext = [k \in Cancellers |-> 0]
  /\ restarts = 0

-----------------------------------------------------------------------------
(* The background task: _run_chat_in_background and execute_run_loop.      *)
(* While a cancel request waits for a task, only its delivery or a commit  *)
(* already under way can be its next step.                                 *)

(* The event loop runs the task for the first time: it enters its try. *)
Begin(r) ==
  /\ r \notin cancelled
  /\ Goto(r, "start", "prepare")
  /\ UNCHANGED <<row, erased, registryVars, text, asked, stored, replies,
                 cancelled, queue, handlerVars>>

(* Attachments are resolved and pipeline.prepare returns. *)
Prepared(r) ==
  /\ r \notin cancelled
  /\ Goto(r, "prepare", "stream")
  /\ UNCHANGED <<row, erased, registryVars, text, asked, stored, replies,
                 cancelled, queue, handlerVars>>

(* A TEXT_DELTA: accumulated, broadcast, copied to ActiveRun.state. *)
Emit(r) ==
  /\ r \notin cancelled
  /\ pc[r] = "stream"
  /\ text[r] < MaxText
  /\ text' = [text EXCEPT ![r] = @ + 1]
  /\ Broadcast(r, Delta)
  /\ UNCHANGED <<row, erased, registryVars, asked, pc, stored, replies,
                 cancelled, handlerVars>>

(* _hitl_callback up to its await: a Future, the status and the question. *)
Ask(r) ==
  /\ r \notin cancelled
  /\ asked[r] < MaxAsks
  /\ Goto(r, "stream", "ask")
  /\ asked' = [asked EXCEPT ![r] = @ + 1]
  /\ question' = [question EXCEPT ![r] = asked[r] + 1]
  /\ status' = [status EXCEPT ![r] = "awaiting_input"]
  /\ Broadcast(r, Signal("asked"))
  /\ UNCHANGED <<row, erased, local, answer, text, stored, replies, cancelled,
                 handlerVars>>

(* The finally clause of _hitl_callback, whatever ended the wait. *)
Resolve(r) ==
  /\ question' = [question EXCEPT ![r] = NoQuestion]
  /\ answer' = [answer EXCEPT ![r] = NoQuestion]
  /\ status' = [status EXCEPT ![r] = "running"]
  /\ Broadcast(r, Signal("resolved"))
  /\ UNCHANGED local

(* wait_for returns the answer. *)
TakeAnswer(r) ==
  /\ r \notin cancelled
  /\ answer[r] # NoQuestion
  /\ Goto(r, "ask", "stream")
  /\ replies' = replies \union {<<r, question[r], answer[r]>>}
  /\ Resolve(r)
  /\ UNCHANGED <<row, erased, text, asked, stored, cancelled, handlerVars>>

(* inline_question_timeout: the timer may also fire after the answer came   *)
(* and before the task resumed, and the answer is then lost.                *)
AskTimeout(r) ==
  /\ r \notin cancelled
  /\ Goto(r, "ask", "stream")
  /\ replies' = replies \union {<<r, question[r], NoQuestion>>}
  /\ Resolve(r)
  /\ UNCHANGED <<row, erased, text, asked, stored, cancelled, handlerVars>>

(* The model's stream ends, and the tool loop saves the session before it   *)
(* yields DONE. (prepare always chooses the tool loop.)                     *)
StreamEnd(r) ==
  /\ r \notin cancelled
  /\ Goto(r, "stream", "save")
  /\ UNCHANGED <<row, erased, registryVars, text, asked, stored, replies,
                 cancelled, queue, handlerVars>>

SaveDone(r) ==
  /\ r \notin cancelled
  /\ Goto(r, "save", "write")
  /\ UNCHANGED <<row, erased, registryVars, text, asked, stored, replies,
                 cancelled, queue, handlerVars>>

(* prepare or the stream raises; the stream saves the session on its way out. *)
Fail(r) ==
  /\ r \notin cancelled
  /\ \/ Goto(r, "prepare", "fail")
     \/ Goto(r, "stream", "unwindError")
  /\ UNCHANGED <<row, erased, registryVars, text, asked, stored, replies,
                 cancelled, queue, handlerVars>>

Unwound(r) ==
  /\ r \notin cancelled
  /\ \/ Goto(r, "unwindError", "fail")
     \/ Goto(r, "unwindCancel", "halt")
  /\ UNCHANGED <<row, erased, registryVars, text, asked, stored, replies,
                 cancelled, queue, handlerVars>>

(* execute_run_loop stores the text and "done"; the error column stays.     *)
(* A commit under way takes effect whether or not its task is cancelled.    *)
DoneWrite(r) ==
  /\ Goto(r, "write", "meta")
  /\ row' = Patched(r, "done", row[r].why, text[r])
  /\ stored' = [stored EXCEPT ![r] = ReturnedText(r, text[r])]
  /\ UNCHANGED <<erased, registryVars, text, asked, replies, cancelled, queue,
                 handlerVars>>

(* Mutant: the run leaves the registry before it is announced. *)
AnnounceAfterPop(r) ==
  /\ r \notin cancelled
  /\ Goto(r, "meta", "finished")
  /\ Pop(r)
  /\ UNCHANGED <<row, erased, text, asked, stored, replies, cancelled, queue,
                 handlerVars>>

(* After update_conversation_meta: snapshot, "done", and out of the registry. *)
Announce(r) ==
  /\ r \notin cancelled
  /\ Goto(r, "meta", "finished")
  /\ BroadcastLast(r, stored[r], Signal("done"))
  /\ Pop(r)
  /\ UNCHANGED <<row, erased, text, asked, stored, replies, cancelled, handlerVars>>

(* except Exception: the row becomes an error and keeps its text. *)
ErrorWrite(r) ==
  /\ Goto(r, "fail", "failed")
  /\ row' = Patched(r, "error", "failed", row[r].text)
  /\ stored' = [stored EXCEPT ![r] = ReturnedText(r, row[r].text)]
  /\ UNCHANGED <<erased, registryVars, text, asked, replies, cancelled, queue,
                 handlerVars>>

(* Mutant: a failed run is not popped. *)
ErrorAnnounceKeepsRun(r) ==
  /\ r \notin cancelled
  /\ Goto(r, "failed", "errored")
  /\ BroadcastLast(r, stored[r], Signal("error"))
  /\ UNCHANGED <<row, erased, registryVars, text, asked, stored, replies,
                 cancelled, handlerVars>>

ErrorAnnounce(r) ==
  /\ r \notin cancelled
  /\ Goto(r, "failed", "errored")
  /\ BroadcastLast(r, stored[r], Signal("error"))
  /\ Pop(r)
  /\ UNCHANGED <<row, erased, text, asked, stored, replies, cancelled, handlerVars>>

(* except CancelledError: the text so far is stored with the row. *)
HaltWrite(r) ==
  /\ Goto(r, "halt", "halted")
  /\ row' = Patched(r, "cancelled", "stopped", CancelText(r, text[r]))
  /\ stored' = [stored EXCEPT ![r] = ReturnedText(r, CancelText(r, text[r]))]
  /\ UNCHANGED <<erased, registryVars, text, asked, replies, cancelled, queue,
                 handlerVars>>

HaltAnnounce(r) ==
  /\ r \notin cancelled
  /\ Goto(r, "halted", "stopped")
  /\ BroadcastLast(r, stored[r], Signal("error"))
  /\ Pop(r)
  /\ UNCHANGED <<row, erased, text, asked, stored, replies, cancelled, handlerVars>>

(* CancelledError reaches a task that then runs its "except CancelledError".*)
(* One in the last await of _save_session_safe is swallowed there.          *)
InterruptRunning(r) ==
  /\ r \in cancelled
  /\ \/ Goto(r, "prepare", "halt")
     \/ Goto(r, "stream", "unwindCancel")
     \/ Goto(r, "save", "halt")
     \/ Goto(r, "save", "write")
     \/ Goto(r, "write", "halt")
     \/ Goto(r, "meta", "halt")
     \/ Goto(r, "unwindError", "halt")
     \/ Goto(r, "unwindError", "fail")
     \/ Goto(r, "unwindCancel", "halt")
  /\ cancelled' = cancelled \ {r}
  /\ UNCHANGED <<row, erased, registryVars, text, asked, stored, replies, queue,
                 handlerVars>>

(* Mutant: _hitl_callback without a finally clause. *)
InterruptAskNoFinally(r) ==
  /\ r \in cancelled
  /\ Goto(r, "ask", "unwindCancel")
  /\ cancelled' = cancelled \ {r}
  /\ UNCHANGED <<row, erased, registryVars, text, asked, stored, replies, queue,
                 handlerVars>>

(* The same while a question is open: the finally of _hitl_callback runs.   *)
InterruptAsk(r) ==
  /\ r \in cancelled
  /\ Goto(r, "ask", "unwindCancel")
  /\ Resolve(r)
  /\ cancelled' = cancelled \ {r}
  /\ UNCHANGED <<row, erased, text, asked, stored, replies, handlerVars>>

(* CancelledError inside a handler of the task leaves it at once: nothing   *)
(* is announced, and only the finally clause still runs.                    *)
InterruptHandler(r) ==
  /\ r \in cancelled
  /\ \E at \in {"fail", "failed", "halt", "halted"} : Goto(r, at, "cut")
  /\ Pop(r)
  /\ cancelled' = cancelled \ {r}
  /\ UNCHANGED <<row, erased, text, asked, stored, replies, queue, handlerVars>>

(* CancelledError is thrown into a coroutine that has not reached its try:  *)
(* neither a handler nor the finally clause runs, and the run stays in the  *)
(* registry.                                                                *)
InterruptUnstarted(r) ==
  /\ r \in cancelled
  /\ Goto(r, "start", "unstarted")
  /\ cancelled' = cancelled \ {r}
  /\ UNCHANGED <<row, erased, registryVars, text, asked, stored, replies, queue,
                 handlerVars>>

TaskStep(r) ==
  \/ Begin(r) \/ InterruptUnstarted(r)
  \/ Prepared(r) \/ Emit(r) \/ Ask(r) \/ TakeAnswer(r) \/ AskTimeout(r)
  \/ StreamEnd(r) \/ SaveDone(r) \/ Fail(r) \/ Unwound(r)
  \/ DoneWrite(r) \/ Announce(r) \/ ErrorWrite(r) \/ ErrorAnnounce(r)
  \/ HaltWrite(r) \/ HaltAnnounce(r)
  \/ InterruptRunning(r) \/ InterruptAsk(r) \/ InterruptHandler(r)

-----------------------------------------------------------------------------
(* POST /runs: create_chat_run. *)
taskAndRegistry == <<registryVars, taskVars, cancelled>>

RunningRows == {r \in Runs : row[r].st = "running"}

(* _get_active_run_row: the newest running row of the conversation. *)
Newest(r) == IF RunningRows = {} THEN r = NoRun
             ELSE r \in RunningRows /\ \A q \in RunningRows : q <= r

CreateRead(c) ==
  /\ cpc[c] = "idle"
  /\ \E r \in 0..MaxRuns : Newest(r) /\ crun' = [crun EXCEPT ![c] = r]
  /\ cpc' = [cpc EXCEPT ![c] = "decide"]
  /\ UNCHANGED <<row, erased, taskAndRegistry, queue, made, streamVars, view,
                 cancelVars, restarts>>

(* The run found has a task here: its id is the answer. *)
CreateReuse(c) ==
  /\ cpc[c] = "decide"
  /\ crun[c] \in local
  /\ cpc' = [cpc EXCEPT ![c] = "replied"]
  /\ UNCHANGED <<row, erased, taskAndRegistry, queue, made, crun, streamVars,
                 view, cancelVars, restarts>>

(* It has none: it is taken for the leftover of a restart. *)
CreateFoundStale(c) ==
  /\ cpc[c] = "decide"
  /\ crun[c] \notin local \union {NoRun}
  /\ cpc' = [cpc EXCEPT ![c] = "mark"]
  /\ UNCHANGED <<row, erased, taskAndRegistry, queue, made, crun, streamVars,
                 view, cancelVars, restarts>>

CreateMarkStale(c) ==
  /\ cpc[c] = "mark"
  /\ row' = Patched(crun[c], "error", "restarted", row[crun[c]].text)
  /\ crun' = [crun EXCEPT ![c] = NoRun]
  /\ cpc' = [cpc EXCEPT ![c] = "decide"]
  /\ UNCHANGED <<erased, taskAndRegistry, queue, made, streamVars, view,
                 cancelVars, restarts>>

(* create_chat_run_row up to its commit: the id and created_at are chosen. *)
CreateAllocate(c) ==
  /\ cpc[c] = "decide"
  /\ crun[c] = NoRun
  /\ made < MaxRuns
  /\ made' = made + 1
  /\ crun' = [crun EXCEPT ![c] = made + 1]
  /\ cpc' = [cpc EXCEPT ![c] = "insert"]
  /\ UNCHANGED <<row, erased, taskAndRegistry, queue, streamVars, view,
                 cancelVars, restarts>>

CreateInsert(c) ==
  /\ cpc[c] = "insert"
  /\ row' = [row EXCEPT ![crun[c]] = NewRow]
  /\ cpc' = [cpc EXCEPT ![c] = "register"]
  /\ UNCHANGED <<erased, taskAndRegistry, queue, made, crun, streamVars, view,
                 cancelVars, restarts>>

(* The ActiveRun is built from the row as inserted; its task is created. *)
CreateRegister(c) ==
  /\ cpc[c] = "register"
  /\ local' = local \union {crun[c]}
  /\ status' = [status EXCEPT ![crun[c]] = "running"]
  /\ pc' = [pc EXCEPT ![crun[c]] = "start"]
  /\ cpc' = [cpc EXCEPT ![c] = "replied"]
  /\ UNCHANGED <<row, erased, question, answer, text, asked, stored, replies,
                 cancelled, queue, made, crun, streamVars, view, cancelVars,
                 restarts>>

CreateStep(c) ==
  \/ CreateRead(c) \/ CreateReuse(c) \/ CreateFoundStale(c) \/ CreateMarkStale(c)
  \/ CreateAllocate(c) \/ CreateInsert(c) \/ CreateRegister(c)

-----------------------------------------------------------------------------
(* GET /runs/{id}/stream: the generator of stream_chat_run.                *)

(* A client asks for a run it has seen; the row is read. *)
StreamOpen(s, r) ==
  /\ spc[s] = "idle"
  /\ row[r].st # "absent"
  /\ spc' = [spc EXCEPT ![s] = "read"]
  /\ srun' = [srun EXCEPT ![s] = r]
  /\ sread' = [sread EXCEPT ![s] = row[r]]
  /\ UNCHANGED <<row, erased, taskAndRegistry, queue, createVars, shere, late,
                 view, cancelVars, restarts>>

(* "Run not found": the only event there is. *)
StreamNotFound(s) ==
  /\ spc[s] = "read"
  /\ sread[s].st = "deleted"
  /\ spc' = [spc EXCEPT ![s] = "missing"]
  /\ UNCHANGED <<row, erased, taskAndRegistry, queue, createVars, srun, sread,
                 shere, late, view, cancelVars, restarts>>

(* The registry is looked up and the first run_state is yielded: the live   *)
(* text of the run, or that of the row as it was read.                      *)
StreamState(s) ==
  /\ spc[s] = "read"
  /\ sread[s].st # "deleted"
  /\ LET here == srun[s] \in local IN
       /\ shere' = [shere EXCEPT ![s] = here]
       /\ view' = [view EXCEPT ![s] = IF here THEN text[srun[s]] ELSE sread[s].text]
  /\ spc' = [spc EXCEPT ![s] = "sent"]
  /\ UNCHANGED <<row, erased, taskAndRegistry, queue, createVars, srun, sread,
                 late, cancelVars, restarts>>

(* The row had already ended when it was read. *)
StreamAlreadyOver(s) ==
  /\ spc[s] = "sent"
  /\ sread[s].st \in Terminal
  /\ spc' = [spc EXCEPT ![s] = IF sread[s].st = "done" THEN "done" ELSE "error"]
  /\ UNCHANGED <<row, erased, taskAndRegistry, queue, createVars, srun, sread,
                 shere, late, view, cancelVars, restarts>>

(* The task will announce the end of the run, unless cancelled once more. *)
WillTell(r) == pc[r] \in Suspended /\ ~(pc[r] = "start" /\ r \in cancelled)

(* The queue joins the subscribers of the ActiveRun found before the yield, *)
(* which may have left the registry since or lost its task.                 *)
StreamSubscribe(s) ==
  /\ spc[s] = "sent"
  /\ sread[s].st = "running"
  /\ shere[s]
  /\ spc' = [spc EXCEPT ![s] = "listen"]
  /\ late' = IF WillTell(srun[s]) THEN late ELSE late \union {s}
  /\ UNCHANGED <<row, erased, taskAndRegistry, queue, createVars, srun, sread,
                 shere, view, cancelVars, restarts>>

StreamFoundStale(s) ==
  /\ spc[s] = "sent"
  /\ sread[s].st = "running"
  /\ ~shere[s]
  /\ spc' = [spc EXCEPT ![s] = "repair"]
  /\ UNCHANGED <<row, erased, taskAndRegistry, queue, createVars, srun, sread,
                 shere, late, view, cancelVars, restarts>>

(* No task here: the row is marked as interrupted. *)
StreamRepair(s) ==
  /\ spc[s] = "repair"
  /\ row' = Patched(srun[s], "error", "interrupted", row[srun[s]].text)
  /\ sread' = [sread EXCEPT ![s] = row'[srun[s]]]
  /\ spc' = [spc EXCEPT ![s] = "repaired"]
  /\ UNCHANGED <<erased, taskAndRegistry, queue, createVars, srun, shere, late,
                 view, cancelVars, restarts>>

StreamRepaired(s) ==
  /\ spc[s] = "repaired"
  /\ view' = IF sread[s].st = "deleted" THEN view
             ELSE [view EXCEPT ![s] = sread[s].text]
  /\ spc' = [spc EXCEPT ![s] = "error"]
  /\ UNCHANGED <<row, erased, taskAndRegistry, queue, createVars, srun, sread,
                 shere, late, cancelVars, restarts>>

(* What the client shows after an event: deltas append, run_state replaces. *)
Shown(txt, e) == IF e.ev = "message" THEN txt + e.text
                 ELSE IF e.ev = "run_state" THEN e.text ELSE txt

(* One event goes to the client. *)
StreamRead(s) ==
  /\ spc[s] = "listen"
  /\ queue[s] # <<>>
  /\ LET e == Head(queue[s]) IN
       /\ view' = [view EXCEPT ![s] = Shown(@, e)]
       /\ spc' = [spc EXCEPT ![s] = IF IsFinal(e) THEN e.ev ELSE "listen"]
  /\ queue' = [queue EXCEPT ![s] = Tail(@)]
  /\ UNCHANGED <<row, erased, taskAndRegistry, createVars, srun, sread, shere,
                 late, cancelVars, restarts>>

StreamStep(s) ==
  \/ StreamNotFound(s) \/ StreamState(s) \/ StreamAlreadyOver(s)
  \/ StreamSubscribe(s) \/ StreamFoundStale(s) \/ StreamRepair(s)
  \/ StreamRepaired(s) \/ StreamRead(s)

(* The client goes away: the generator is cancelled where it waits. *)
StreamLeave(s) ==
  /\ spc[s] \in {"read", "sent", "listen", "repair", "repaired"}
  /\ spc' = [spc EXCEPT ![s] = "gone"]
  /\ queue' = [queue EXCEPT ![s] = <<>>]
  /\ UNCHANGED <<row, erased, taskAndRegistry, createVars, srun, sread, shere,
                 late, view, cancelVars, restarts>>

-----------------------------------------------------------------------------
(* POST /runs/{id}/cancel: cancel_chat_run. *)
CancelRead(k, r) ==
  /\ kpc[k] = "idle"
  /\ Exists(r)
  /\ krun' = [krun EXCEPT ![k] = r]
  /\ kpc' = [kpc EXCEPT ![k] = "request"]
  /\ UNCHANGED <<row, erased, taskAndRegistry, queue, createVars, streamVars,
                 view, ktext, restarts>>

(* The patch is built, the task cancelled and the state marked, if local;   *)
(* cancelling a task that has ended does nothing.                           *)
CancelRequest(k) ==
  LET r == krun[k] IN
  /\ kpc[k] = "request"
  /\ IF r \in local
     THEN /\ ktext' = [ktext EXCEPT ![k] = text[r]]
          /\ cancelled' = cancelled \union {q \in {r} : pc[q] \in Suspended}
          /\ status' = [status EXCEPT ![r] = "cancelled"]
     ELSE UNCHANGED <<ktext, cancelled, status>>
  /\ kpc' = [kpc EXCEPT ![k] = "write"]
  /\ UNCHANGED <<row, erased, local, question, answer, taskVars, queue,
                 createVars, streamVars, view, krun, restarts>>

(* Mutant: the row of a local run is left to its task. *)
CancelWriteByTask(k) ==
  /\ kpc[k] = "write"
  /\ kpc' = [kpc EXCEPT ![k] = "announce"]
  /\ UNCHANGED <<row, erased, taskAndRegistry, queue, createVars, streamVars,
                 view, krun, ktext, restarts>>

CancelWrite(k) ==
  LET r == krun[k]
      txt == CancelText(r, ktext[k])
  IN
  /\ kpc[k] = "write"
  /\ row' = Patched(r, "cancelled", "stopped", txt)
  /\ ktext' = [ktext EXCEPT ![k] = ReturnedText(r, txt)]
  /\ kpc' = [kpc EXCEPT ![k] = "announce"]
  /\ UNCHANGED <<erased, taskAndRegistry, queue, createVars, streamVars, view,
                 krun, restarts>>

(* Mutant: the end is announced before it is stored. *)
CancelAnnounceEarly(k) ==
  /\ kpc[k] \in {"write", "announce"}
  /\ IF ktext[k] = NoRow THEN UNCHANGED queue
     ELSE BroadcastLast(krun[k], ktext[k], Signal("error"))
  /\ kpc' = [kpc EXCEPT ![k] = "replied"]
  /\ UNCHANGED <<row, erased, taskAndRegistry, createVars, streamVars, view,
                 krun, ktext, restarts>>

(* 404 without a row; otherwise snapshot and error, if the run is local. *)
CancelAnnounce(k) ==
  /\ kpc[k] = "announce"
  /\ IF ktext[k] = NoRow THEN UNCHANGED queue
     ELSE BroadcastLast(krun[k], ktext[k], Signal("error"))
  /\ kpc' = [kpc EXCEPT ![k] = "replied"]
  /\ UNCHANGED <<row, erased, taskAndRegistry, createVars, streamVars, view,
                 krun, ktext, restarts>>

CancelStep(k) == CancelRequest(k) \/ CancelWrite(k) \/ CancelAnnounce(k)

-----------------------------------------------------------------------------
(* Mutant: the question id is not compared. *)
AnswerAny(r, q) ==
  /\ r \in local
  /\ question[r] # NoQuestion
  /\ answer[r] = NoQuestion
  /\ answer' = [answer EXCEPT ![r] = q]
  /\ UNCHANGED <<row, erased, local, status, question, taskVars, cancelled, queue,
                 handlerVars>>

(* POST /runs/{id}/answer: 409 unless the question waits without an answer. *)
Answer(r, q) ==
  /\ r \in local
  /\ question[r] = q
  /\ answer[r] = NoQuestion
  /\ answer' = [answer EXCEPT ![r] = q]
  /\ UNCHANGED <<row, erased, local, status, question, taskVars, cancelled, queue,
                 handlerVars>>

(* DELETE /sessions/{id}: every row of the conversation. *)
DeleteSession ==
  /\ \E r \in Runs : Exists(r)
  /\ row' = [r \in Runs |-> IF Exists(r) THEN DeletedRow ELSE row[r]]
  /\ UNCHANGED <<erased, taskAndRegistry, queue, handlerVars>>

(* DELETE /sessions/{id}/messages: the user's message takes its row along,  *)
(* the assistant's message empties it. Neither looks at the status.         *)
DeleteMessage(r) ==
  /\ Exists(r)
  /\ row' = [row EXCEPT ![r] = DeletedRow]
  /\ UNCHANGED <<erased, taskAndRegistry, queue, handlerVars>>

EraseAnswer(r) ==
  /\ Exists(r)
  /\ row' = [row EXCEPT ![r] = [@ EXCEPT !.text = 0]]
  /\ erased' = erased \union {r}
  /\ UNCHANGED <<taskAndRegistry, queue, handlerVars>>

(* The process dies and starts again: only the rows remain. *)
Restart ==
  /\ restarts < MaxRestarts
  /\ restarts' = restarts + 1
  /\ local' = {}
  /\ status' = [r \in Runs |-> "none"]
  /\ question' = [r \in Runs |-> NoQuestion]
  /\ answer' = [r \in Runs |-> NoQuestion]
  /\ pc' = [r \in Runs |-> IF pc[r] \in Suspended THEN "dead" ELSE pc[r]]
  /\ cancelled' = {}
  /\ cpc' = [c \in Creators |->
               IF cpc[c] \in {"idle", "replied"} THEN cpc[c] ELSE "gone"]
  /\ spc' = [s \in Streams |->
               IF spc[s] \in {"idle", "missing", "done", "error"} THEN spc[s] ELSE "gone"]
  /\ kpc' = [k \in Cancellers |->
               IF kpc[k] \in {"idle", "replied"} THEN kpc[k] ELSE "gone"]
  /\ queue' = [s \in Streams |-> <<>>]
  /\ UNCHANGED <<row, erased, text, asked, stored, replies, made, crun, srun,
                 sread, shere, late, view, krun, ktext>>

-----------------------------------------------------------------------------
UserStep ==
  \/ \E s \in Streams, r \in Runs : StreamOpen(s, r)
  \/ \E s \in Streams : StreamLeave(s)
  \/ \E k \in Cancellers, r \in Runs : CancelRead(k, r)
  \/ \E r \in Runs, q \in 1..MaxAsks : Answer(r, q)
  \/ \E r \in Runs : DeleteMessage(r) \/ EraseAnswer(r)
  \/ DeleteSession

Next ==
  \/ \E r \in Runs : TaskStep(r)
  \/ \E c \in Creators : CreateStep(c)
  \/ \E s \in Streams : StreamStep(s)
  \/ \E k \in Cancellers : CancelStep(k)
  \/ UserStep
  \/ Restart

Spec == Init /\ [][Next]_vars

(* A suspended coroutine is resumed: the model's stream ends, the question  *)
(* times out, commits complete, clients read. Users owe nothing.            *)
Fairness ==
  /\ \A r \in Runs : WF_vars(TaskStep(r))
  /\ \A c \in Creators : WF_vars(CreateStep(c))
  /\ \A s \in Streams : WF_vars(StreamStep(s))
  /\ \A k \in Cancellers : WF_vars(CancelStep(k))

FairSpec == Spec /\ Fairness

-----------------------------------------------------------------------------
RowsOK ==
  /\ row \in [Runs -> Row]
  /\ erased \subseteq Runs
  /\ restarts \in 0..MaxRestarts

RegistryOK ==
  /\ local \subseteq Runs
  /\ cancelled \subseteq Runs
  /\ status \in [Runs -> {"none", "running", "awaiting_input", "cancelled"}]
  /\ question \in [Runs -> 0..MaxAsks]
  /\ answer \in [Runs -> 0..MaxAsks]

TasksOK ==
  /\ pc \in [Runs -> {"none"} \union Suspended \union Ended]
  /\ text \in [Runs -> 0..MaxText]
  /\ asked \in [Runs -> 0..MaxAsks]
  /\ stored \in [Runs -> 0..NoRow]
  /\ replies \subseteq (Runs \X (0..MaxAsks) \X (0..MaxAsks))

CreatorsOK ==
  /\ made \in 0..MaxRuns
  /\ cpc \in [Creators -> {"idle", "decide", "mark", "insert", "register",
                           "replied", "gone"}]
  /\ crun \in [Creators -> 0..MaxRuns]
  /\ \A c \in Creators : cpc[c] \in {"mark", "insert", "register"} => crun[c] \in Runs

StreamsOK ==
  /\ spc \in [Streams -> {"idle", "read", "sent", "listen", "repair", "repaired",
                          "missing", "done", "error", "gone"}]
  /\ srun \in [Streams -> 0..MaxRuns]
  /\ \A s \in Streams : spc[s] # "idle" => srun[s] \in Runs
  /\ sread \in [Streams -> Row]
  /\ shere \in [Streams -> BOOLEAN]
  /\ late \subseteq Streams
  /\ view \in [Streams -> Nat]

CancellersOK ==
  /\ kpc \in [Cancellers -> {"idle", "request", "write", "announce", "replied",
                             "gone"}]
  /\ krun \in [Cancellers -> 0..MaxRuns]
  /\ \A k \in Cancellers : kpc[k] # "idle" => krun[k] \in Runs
  /\ ktext \in [Cancellers -> 0..NoRow]
  /\ \A k \in Cancellers : kpc[k] \in {"idle", "request", "write"} => ktext[k] # NoRow

QueuesOK ==
  /\ queue \in [Streams -> Seq(Event)]
  /\ \A s \in Streams : Len(queue[s]) <= QueueSize

(* Every variable has its type, a request past its first step names a run,  *)
(* and no subscriber's queue outgrows its capacity (_enqueue on a queue of  *)
(* maxsize 200).                                                            *)
TypeOK ==
  /\ RowsOK
  /\ RegistryOK
  /\ TasksOK
  /\ CreatorsOK
  /\ StreamsOK
  /\ CancellersOK
  /\ QueuesOK

(* A run is in the registry exactly while its task lives, so "no ActiveRun" *)
(* means what create_chat_run and stream_chat_run take it to mean. The one  *)
(* entry that outlives its task is that of a task cancelled before its      *)
(* first step (its finally clause never runs): it stays until the process   *)
(* ends, marked as cancelled. A cancel request never waits for a task that  *)
(* is gone.                                                                 *)
RegistryTracksTasks ==
  \A r \in Runs :
    /\ r \in local <=> pc[r] \in Suspended \/ (pc[r] = "unstarted" /\ status[r] = "cancelled")
    /\ r \in cancelled => pc[r] \in Suspended

(* A question is open exactly while the tool that asked it waits, and the   *)
(* run is shown as awaiting input then and only then, unless a cancel       *)
(* request has overwritten the status: no dialog outlives its question.     *)
NoZombieQuestion ==
  \A r \in Runs :
    /\ question[r] # NoQuestion <=> pc[r] = "ask"
    /\ status[r] = "awaiting_input" => pc[r] = "ask"
    /\ pc[r] = "ask" /\ r \notin cancelled => status[r] = "awaiting_input"

(* A client that subscribed while the run was registered is told of its     *)
(* end: once the run has left the registry, a final event is the last one   *)
(* in its queue. A handler cut short by a second cancellation is the one    *)
(* exception.                                                               *)
ListenersTold ==
  \A s \in Streams :
    LET r == srun[s] IN
    spc[s] = "listen" /\ s \notin late /\ r \notin local /\ pc[r] # "cut"
      => queue[s] # <<>> /\ IsFinal(queue[s][Len(queue[s])])

(* A client whose stream ended with "done" shows the whole text, however    *)
(* late it joined and whatever its queue dropped.                           *)
DoneViewComplete ==
  \A s \in Streams :
    LET r == srun[s] IN
    spc[s] = "done" /\ Exists(r) /\ r \notin erased => view[s] = text[r]

(* No client is told of an end the database does not hold: the row has left *)
(* "running" before a final event is queued or sent for it.                 *)
AnnouncedOnlyIfStored ==
  \A s \in Streams :
    \/ spc[s] \in {"done", "error"}
    \/ \E i \in 1..Len(queue[s]) : IsFinal(queue[s][i])
    => row[srun[s]].st # "running"

(* A client is not told of an end before it is stored, and one that saw done *)
(* has the whole text (the end of execute_run_loop against subscriptions and *)
(* full queues).                                                             *)
ToldTheTruth == AnnouncedOnlyIfStored /\ DoneViewComplete

(* The tool that asked a question gets the answer to that question or the   *)
(* news that it timed out, never the answer to an earlier one.              *)
AnswerMatchesQuestion ==
  \A p \in replies : p[3] \in {p[2], NoQuestion}

(* Whoever wrote last, a run whose task said "done" or "stopped" has all it *)
(* generated in its row, unless a user deleted it.                          *)
OutputKept ==
  \A r \in Runs :
    pc[r] \in {"finished", "stopped"} /\ Exists(r) /\ r \notin erased
      => row[r].text = text[r]

(* Every write to chat_runs is one the ledger allows. *)
Ledger == INSTANCE RunLedger WITH
            ledger <- [r \in Runs |-> [st |-> row[r].st, text |-> row[r].text]],
            wiped <- erased

LedgerSpec == Ledger!Spec

(* While the process lives, a run whose task lives leaves "running": when   *)
(* its task is cut short, the canceller's own write settles it.             *)
RunSettles ==
  \A r \in Runs :
    pc[r] \in Suspended ~> row[r].st # "running" \/ restarts > 0

(* A question does not stay open for ever, answered or not. *)
QuestionEnds ==
  \A r \in Runs : question[r] # NoQuestion ~> question[r] = NoQuestion

(* A stream that listens ends, except when it subscribed too late, or the   *)
(* task was cut short inside its handler, or the task was cancelled before  *)
(* its first step and the row deleted: the canceller, the only one left to  *)
(* announce the end, then answers 404 instead.                              *)
ListenersEnd ==
  \A s \in Streams :
    LET r == srun[s] IN
    spc[s] = "listen" ~>
      \/ spc[s] # "listen" \/ s \in late \/ pc[r] = "cut"
      \/ pc[r] = "unstarted" /\ ~Exists(r)

-----------------------------------------------------------------------------
(* docs/前端设计方案.md:440: "SSE 订阅中断 | 重新查询 active run 并恢复订阅；只有 run    *)
(* 本身失败才展示错误" (an error is shown only when the run itself failed): a   *)
(* run whose task finished is not shown as interrupted.                     *)
ErrorOnlyIfRunFailed ==
  \A r \in Runs :
    row[r].st = "error" /\ row[r].why = "interrupted" => pc[r] # "finished"

(* docs/AstraCoreAI设计文档.md:349: "流式场景异常 | 发出 ERROR 类型 SSE 事件，避免前端  *)
(* 无限等待" (an exception in a stream sends an ERROR event so that the client *)
(* does not wait for ever): no client waits on an empty queue for a run     *)
(* that failed and left the registry.                                       *)
FailureReachesListeners ==
  \A s \in Streams :
    spc[s] = "listen" /\ srun[s] \notin local /\ row[srun[s]].why = "failed"
      => queue[s] # <<>>
=============================================================================
