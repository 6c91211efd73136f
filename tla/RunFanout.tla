------------------------------ MODULE RunFanout ------------------------------
(***************************************************************************)
(* One chat run seen from another worker process. The owner keeps the task *)
(* and its registry entry; Redis holds a snapshot of the entry and carries *)
(* three channels: events to the streams of other processes, answers and   *)
(* cancellations to the owner.                                             *)
(*                                                                         *)
(* Snapshots and messages are sent by tasks nobody awaits: they land in    *)
(* any order, or fail, after which their process does without Redis. A     *)
(* channel keeps nothing: what nobody is subscribed to is lost.            *)
(***************************************************************************)
EXTENDS Naturals, Sequences, FiniteSets

CONSTANTS
  Scenes,      \* which clients come to the other process together
  MaxText,     \* bound: pieces of text of the run
  MaxAsked,    \* bound: questions it asks
  MaxFailures  \* bound: Redis commands that fail

Kinds == {"stream", "cancel", "answer", "create", "crash"}

ASSUME FanoutAssumption ==
  /\ \A s \in Scenes : s \subseteq Kinds
  /\ {MaxText, MaxAsked, MaxFailures} \subseteq Nat

VARIABLES
  scene,    \* the clients of this behaviour
  row,      \* the run's row
  task,     \* what the run's task does next, or how it ended
  entry,    \* ActiveRun.state: status and text
  question, \* the question whose future is open, 0: none
  asked,    \* questions asked so far
  got,      \* the answers the futures were given: <<question, answered for>>
  ear,      \* the owner's two listeners
  air,      \* commands on their way to Redis
  snap,     \* the snapshot in Redis
  off,      \* processes that have disabled Redis
  fails,    \* commands failed so far
  stream,   \* a client's stream at the other process
  cancel,   \* a cancel request, and if the reply was cut short
  answer,   \* an answer given there
  create,   \* a request for a new run there
  twin      \* the run it made

ownerVars == <<row, task, entry, question, asked, got, ear>>
redisVars == <<air, snap, off, fails>>
clientVars == <<stream, cancel, answer, create, twin>>
vars == <<scene, ownerVars, redisVars, clientVars>>

-----------------------------------------------------------------------------
Terminal == {"done", "error", "cancelled"}

NoSnap == [st |-> "none", text |-> 0]
State(st, text) == [st |-> st, text |-> text]

Alive == task \notin {"over", "dead"}
Local == task \notin {"new", "over", "dead"}

(* The reply is still being produced. *)
Producing == task \in {"talking", "asking"}

(* _persist_state, _publish_json: a task of its own for each command. *)
Send(p, cmds) ==
  IF p \in off THEN UNCHANGED air
  ELSE air' = air \union {[c EXCEPT !.by = p] : c \in cmds}

(* Two equal commands on their way are one here. *)
Cmd(what, st, text) == [by |-> "", what |-> what, st |-> st, text |-> text]
Snapshot(e) == Cmd("set", e.st, e.text)

(* An event nobody can stream is as good as lost. *)
Event(name) == IF "stream" \in scene THEN {Cmd("event", name, 0)} ELSE {}

Init ==
  /\ scene \in Scenes
  /\ row = State("running", 0)
  /\ task = "new"
  /\ entry = State("running", 0)
  /\ question = 0
  /\ asked = 0
  /\ got = <<>>
  /\ ear = [hitl |-> "off", cancel |-> "off"]
  /\ air = {}
  /\ snap = NoSnap
  /\ off = {}
  /\ fails = 0
  /\ stream = [pc |-> "idle", row |-> "none", box |-> <<>>, told |-> {}]
  /\ cancel = [pc |-> "idle", text |-> 0, heard |-> FALSE]
  /\ answer = [pc |-> "idle", q |-> 0]
  /\ create = [pc |-> "idle", landed |-> FALSE]
  /\ twin = FALSE

-----------------------------------------------------------------------------
(* The owner. *)

(* The row exists; entry, first snapshot and listeners follow without await. *)
Register ==
  /\ task = "new"
  /\ task' = "talking"
  /\ Send("owner", {Snapshot(entry)})
  /\ ear' = IF "owner" \in off THEN ear ELSE [hitl |-> "starting", cancel |-> "starting"]
  /\ UNCHANGED <<scene, row, entry, question, asked, got, snap, off, fails, clientVars>>

(* update_state. The events beside it end no stream and are left out. *)
Show(e) ==
  /\ entry' = e
  /\ Send("owner", {Snapshot(e)})

Talk ==
  /\ task = "talking"
  /\ entry.text < MaxText
  /\ Show([entry EXCEPT !.text = @ + 1])
  /\ UNCHANGED <<scene, row, task, question, asked, got, ear, snap, off, fails, clientVars>>

(* Fewer where a cancellation multiplies the behaviours. *)
Questions == IF "cancel" \in scene THEN 1 ELSE MaxAsked

Ask ==
  /\ task = "talking"
  /\ asked < Questions
  /\ asked' = asked + 1
  /\ question' = asked + 1
  /\ task' = "asking"
  /\ Show([entry EXCEPT !.st = "awaiting_input"])
  /\ UNCHANGED <<scene, row, got, ear, snap, off, fails, clientVars>>

(* Answered, or timed out. *)
Resume ==
  /\ task = "asking"
  /\ task' = "talking"
  /\ question' = 0
  /\ Show([entry EXCEPT !.st = "running"])
  /\ UNCHANGED <<scene, row, asked, got, ear, snap, off, fails, clientVars>>

(* The model's stream is over: the session is saved, then the run's row. *)
Save ==
  /\ task = "talking"
  /\ task' = "saving"
  /\ UNCHANGED <<scene, row, entry, question, asked, got, ear, redisVars, clientVars>>

(* The commit lands even if the task that awaits it has been cancelled. *)
Store ==
  /\ task \in {"saving", "landing"}
  /\ row' = State("done", entry.text)
  /\ task' = IF task = "saving" THEN "stored" ELSE "halting"
  /\ UNCHANGED <<scene, entry, question, asked, got, ear, redisVars, clientVars>>

Deafen == ear' = [hitl |-> "off", cancel |-> "off"]

(* The last event, and out of the registry. The snapshot in Redis *)
(* stays as the last update_state left it.                                   *)
Leave(name) ==
  /\ task' = "over"
  /\ question' = 0
  /\ Send("owner", Event(name))
  /\ Deafen

Finish ==
  /\ task = "stored"
  /\ Leave("done")
  /\ UNCHANGED <<scene, row, entry, asked, got, snap, off, fails, clientVars>>

(* _build_cancel_patch. *)
CancelPatch(r, text) == State("cancelled", IF text = 0 THEN r.text ELSE text)

(* The task has been cancelled: its handler stores what there is... *)
Halt ==
  /\ task = "halting"
  /\ row' = CancelPatch(row, entry.text)
  /\ task' = "halted"
  /\ UNCHANGED <<scene, entry, question, asked, got, ear, redisVars, clientVars>>

(* ... and tells. *)
Halted ==
  /\ task = "halted"
  /\ Leave("error")
  /\ UNCHANGED <<scene, row, entry, asked, got, snap, off, fails, clientVars>>

(* task.cancel: at its next await. The save may be cut, or swallow the       *)
(* cancellation and go on; the commit behind it may land.                    *)
Interrupt ==
  /\ \/ task \in {"talking", "asking", "saving", "stored"} /\ task' = "halting"
     \/ task = "saving" /\ task' \in {"saving", "landing"}
     \/ task \notin {"talking", "asking", "saving", "stored"} /\ UNCHANGED task
  /\ question' = 0

(* A task that has not begun has no handler yet: nothing takes its run out   *)
(* of the registry. The listeners cannot be as fast.                         *)
Preempt ==
  /\ task = "talking"
  /\ entry.text = 0
  /\ asked = 0
  /\ task' = "unstarted"
  /\ UNCHANGED question

(* Everything of the process is lost; its subscriptions close. *)
Crash ==
  /\ "crash" \in scene
  /\ Alive
  /\ task' = "dead"
  /\ question' = 0
  /\ air' = {c \in air : c.by # "owner"}
  /\ Deafen
  /\ UNCHANGED <<scene, row, entry, asked, got, snap, off, fails, clientVars>>

-----------------------------------------------------------------------------
(* Redis. *)

Listening(what) == ear[what] = "on"

Subscribe(what) ==
  /\ ear[what] = "starting"
  /\ ear' = [ear EXCEPT ![what] = "on"]
  /\ UNCHANGED <<scene, row, task, entry, question, asked, got, redisVars, clientVars>>

(* Mutant: the open question takes any answer. *)
AnyQuestion(q) == question

(* _listen_hitl: a future of that id, still open. *)
Matching(q) == IF q = question THEN q ELSE 0

Resolve(q) ==
  IF Matching(q) # 0 /\ \A i \in 1..Len(got) : got[i][1] # Matching(q)
  THEN got' = Append(got, <<Matching(q), q>>) ELSE UNCHANGED got

(* Mutant: a question is not interrupted. *)
HeedUnlessAsking ==
  IF task = "asking" THEN UNCHANGED <<task, question>> ELSE Interrupt

Heed == Interrupt

LandSet(c) ==
  /\ c.what = "set"
  /\ snap' = State(c.st, c.text)
  /\ UNCHANGED <<task, question, got, ear, stream, cancel>>

LandEvent(c) ==
  /\ c.what = "event"
  /\ stream' = IF stream.pc = "on" THEN [stream EXCEPT !.box = Append(@, c.st)] ELSE stream
  /\ UNCHANGED <<snap, task, question, got, ear, cancel>>

(* The listener takes one cancellation. *)
LandCancel(c) ==
  /\ c.what = "cancel"
  /\ IF Listening("cancel")
     THEN /\ Heed
          /\ ear' = [ear EXCEPT !.cancel = "off"]
          /\ cancel' = [cancel EXCEPT !.heard = Producing]
     ELSE UNCHANGED <<task, question, ear, cancel>>
  /\ UNCHANGED <<snap, got, stream>>

Land ==
  /\ \E c \in air :
       /\ air' = air \ {c}
       /\ LandSet(c) \/ LandEvent(c) \/ LandCancel(c)
  /\ UNCHANGED <<scene, row, entry, asked, off, fails, answer, create, twin>>

(* _disable_redis: what is under way goes on. *)
Disable(p) == fails < MaxFailures /\ off' = off \union {p} /\ fails' = fails + 1

Drop ==
  /\ \E c \in air : air' = air \ {c} /\ Disable(c.by)
  /\ UNCHANGED <<scene, ownerVars, snap, clientVars>>

(* Six hours later. *)
Expire ==
  /\ snap # NoSnap
  /\ task = "dead"
  /\ snap' = NoSnap
  /\ UNCHANGED <<scene, ownerVars, air, off, fails, clientVars>>

(* load_state where the run is not local: the snapshot, or nothing. *)
Load(s) ==
  \/ /\ s = (IF "other" \in off THEN NoSnap ELSE snap)
     /\ UNCHANGED <<off, fails>>
  \/ /\ "other" \notin off
     /\ s = NoSnap
     /\ Disable("other")

Running(s) == s.st \notin Terminal \union {"none"}

-----------------------------------------------------------------------------
(* stream_chat_run at the other process. *)

StreamRead ==
  /\ "stream" \in scene
  /\ stream.pc = "idle"
  /\ stream' = [stream EXCEPT !.pc = "load", !.row = row.st]
  /\ UNCHANGED <<scene, ownerVars, redisVars, cancel, answer, create, twin>>

(* The first event; a run that was over when read ends the stream. *)
StreamLoad ==
  /\ stream.pc = "load"
  /\ \E s \in {snap, NoSnap} :
       /\ Load(s)
       /\ stream' = IF stream.row \in Terminal
                    THEN [stream EXCEPT !.pc = "end", !.told = {stream.row}]
                    ELSE [stream EXCEPT !.pc = IF Running(s) THEN "subscribe" ELSE "repair"]
  /\ UNCHANGED <<scene, ownerVars, air, snap, cancel, answer, create, twin>>

StreamSubscribe ==
  /\ stream.pc = "subscribe"
  /\ IF "other" \in off THEN stream' = [stream EXCEPT !.pc = "end"]
     ELSE stream' = [stream EXCEPT !.pc = "on"]
  /\ UNCHANGED <<scene, ownerVars, redisVars, cancel, answer, create, twin>>

Ends == {"done", "error"}

StreamTake ==
  /\ stream.pc = "on"
  /\ stream.box # <<>>
  /\ stream' = [stream EXCEPT !.box = Tail(@), !.told = @ \union {Head(stream.box)},
                              !.pc = IF Head(stream.box) \in Ends THEN "end" ELSE "on"]
  /\ UNCHANGED <<scene, ownerVars, redisVars, cancel, answer, create, twin>>

(* No snapshot, or one that says it is over: the run is taken for dead. *)
StreamRepair ==
  /\ stream.pc = "repair"
  /\ row' = [row EXCEPT !.st = "error"]
  /\ stream' = [stream EXCEPT !.pc = "end", !.told = {"error"}]
  /\ UNCHANGED <<scene, task, entry, question, asked, got, ear, redisVars, cancel, answer,
                 create, twin>>

-----------------------------------------------------------------------------
(* cancel_chat_run at the other process. *)

CancelLoad ==
  /\ "cancel" \in scene
  /\ cancel.pc = "idle"
  /\ \E s \in {snap, NoSnap} :
       Load(s) /\ cancel' = [cancel EXCEPT !.pc = "request", !.text = s.text]
  /\ UNCHANGED <<scene, ownerVars, air, snap, stream, answer, create, twin>>

(* Mutant: the streams are told before the row is written. *)
TellAtOnce ==
  /\ cancel.pc = "request"
  /\ Send("other", {Cmd("cancel", "", 0)} \union Event("error"))
  /\ cancel' = [cancel EXCEPT !.pc = "write"]
  /\ UNCHANGED <<scene, ownerVars, snap, off, fails, stream, answer, create, twin>>

CancelRequest ==
  /\ cancel.pc = "request"
  /\ Send("other", {Cmd("cancel", "", 0)})
  /\ cancel' = [cancel EXCEPT !.pc = "write"]
  /\ UNCHANGED <<scene, ownerVars, snap, off, fails, stream, answer, create, twin>>

CancelWrite ==
  /\ cancel.pc = "write"
  /\ row' = CancelPatch(row, cancel.text)
  /\ Send("other", Event("error"))
  /\ cancel' = [cancel EXCEPT !.pc = "done"]
  /\ UNCHANGED <<scene, task, entry, question, asked, got, ear, snap, off, fails, stream,
                 answer, create, twin>>

(* At the owner: the entry says cancelled before the row does. *)
CancelHere ==
  /\ "cancel" \in scene
  /\ cancel.pc = "idle"
  /\ Local
  /\ Interrupt \/ Preempt
  /\ entry' = [entry EXCEPT !.st = "cancelled"]
  /\ Send("owner", {Snapshot(State("cancelled", entry.text))})
  /\ cancel' = [pc |-> "write here", text |-> entry.text, heard |-> Producing]
  /\ UNCHANGED <<scene, row, asked, got, ear, snap, off, fails, stream, answer, create, twin>>

CancelWriteHere ==
  /\ cancel.pc = "write here"
  /\ task # "dead"
  /\ row' = CancelPatch(row, cancel.text)
  /\ Send("owner", Event("error"))
  /\ cancel' = [cancel EXCEPT !.pc = "done"]
  /\ UNCHANGED <<scene, task, entry, question, asked, got, ear, snap, off, fails, stream,
                 answer, create, twin>>

-----------------------------------------------------------------------------
(* answer_hitl_question. *)

(* The user answers what the stream or the page showed. *)
AnswerLoad ==
  /\ "answer" \in scene
  /\ answer.pc = "idle"
  /\ \E q \in 1..asked, s \in {snap, NoSnap} :
       Load(s) /\ answer' = [pc |-> IF Running(s) THEN "publish" ELSE "refused", q |-> q]
  /\ UNCHANGED <<scene, ownerVars, air, snap, stream, cancel, create, twin>>

(* publish is awaited here: it says whether anybody was subscribed. *)
AnswerPublish ==
  /\ answer.pc = "publish"
  /\ \/ /\ "other" \notin off
        /\ Listening("hitl")
        /\ Resolve(answer.q)
        /\ answer' = [answer EXCEPT !.pc = "ok"]
        /\ UNCHANGED <<off, fails>>
     \/ /\ "other" \in off \/ ~Listening("hitl")
        /\ answer' = [answer EXCEPT !.pc = "refused"]
        /\ UNCHANGED <<got, off, fails>>
     \/ /\ "other" \notin off
        /\ Disable("other")
        /\ answer' = [answer EXCEPT !.pc = "refused"]
        /\ UNCHANGED got
  /\ UNCHANGED <<scene, row, task, entry, question, asked, ear, air, snap, stream, cancel,
                 create, twin>>

(* At the owner: 409 unless the future is there and open. *)
AnswerHere ==
  /\ "answer" \in scene
  /\ Local
  /\ question # 0
  /\ Resolve(question)
  /\ got' # got
  /\ UNCHANGED <<scene, row, task, entry, question, asked, ear, redisVars, clientVars>>

-----------------------------------------------------------------------------
(* create_chat_run at the other process, which repeats until it has a run.   *)

CreateRead ==
  /\ "create" \in scene
  /\ create.pc = "idle"
  /\ ~twin
  /\ create' = [create EXCEPT !.pc = IF row.st = "running" THEN "load" ELSE "insert"]
  /\ UNCHANGED <<scene, ownerVars, redisVars, stream, cancel, answer, twin>>

Reusable(s) == Running(s)

CreateLoad ==
  /\ create.pc = "load"
  /\ \E s \in {snap, NoSnap} :
       /\ Load(s)
       /\ create' = [pc |-> IF Reusable(s) THEN "idle" ELSE "settle", landed |-> s # NoSnap]
  /\ UNCHANGED <<scene, ownerVars, air, snap, stream, cancel, answer, twin>>

(* Mutant: without a snapshot the row is believed. *)
LeaveAlone ==
  /\ create.pc = "settle"
  /\ create' = [create EXCEPT !.pc = "idle"]
  /\ UNCHANGED <<scene, ownerVars, redisVars, stream, cancel, answer, twin>>

CreateSettle ==
  /\ create.pc = "settle"
  /\ row' = [row EXCEPT !.st = "error"]
  /\ create' = [create EXCEPT !.pc = "insert"]
  /\ UNCHANGED <<scene, task, entry, question, asked, got, ear, redisVars, stream, cancel,
                 answer, twin>>

CreateInsert ==
  /\ create.pc = "insert"
  /\ twin' = TRUE
  /\ create' = [create EXCEPT !.pc = "done"]
  /\ UNCHANGED <<scene, ownerVars, redisVars, stream, cancel, answer>>

-----------------------------------------------------------------------------
Owner ==
  \/ Register \/ Talk \/ Ask \/ Resume \/ Save \/ Store
  \/ Finish \/ Halt \/ Halted
Redis == Land \/ (\E what \in {"hitl", "cancel"} : Subscribe(what))
Stream == StreamRead \/ StreamLoad \/ StreamSubscribe \/ StreamTake \/ StreamRepair
Cancel == CancelLoad \/ CancelRequest \/ CancelWrite \/ CancelHere \/ CancelWriteHere
Answer == AnswerLoad \/ AnswerPublish \/ AnswerHere
Create == CreateRead \/ CreateLoad \/ CreateSettle \/ CreateInsert

Next == Owner \/ Crash \/ Redis \/ Drop \/ Expire \/ Stream \/ Cancel \/ Answer \/ Create

(* Tasks and handlers go on, commands land, a snapshot expires. Nobody has   *)
(* to come, to answer or to cancel, and nothing has to fail. None of Work    *)
(* can go on for ever, so one condition does for all of it.                  *)
Work ==
  \/ Owner \/ Redis \/ Expire
  \/ StreamLoad \/ StreamSubscribe \/ StreamTake \/ StreamRepair
  \/ CancelRequest \/ CancelWrite \/ CancelWriteHere \/ AnswerPublish

Fairness == WF_vars(Work) /\ WF_vars(Create)

Spec == Init /\ [][Next]_vars /\ Fairness

-----------------------------------------------------------------------------
(* Properties. *)

TypeOK ==
  /\ row.st \in {"running"} \union Terminal
  /\ {row.text, entry.text, snap.text} \subseteq 0..MaxText
  /\ task \in {"new", "talking", "asking", "saving", "stored", "landing", "halting",
              "halted", "unstarted", "over", "dead"}
  /\ question = (IF task = "asking" THEN asked ELSE 0)
  /\ snap.st \in {"none", "running", "awaiting_input", "cancelled"}
  /\ \A c \in air : c.by \in {"owner", "other"}

(* Nobody is told of an end that the run's row does not show: who asks again *)
(* after the last event finds the run over.                                  *)
ToldIsStored == stream.told # {} => row.st # "running"

(* A second run is made beside a living one only if the first snapshot had   *)
(* not landed, for the request or for a stream that settled the row, Redis   *)
(* had failed or the run was being cancelled: not while it runs, and not     *)
(* while it waits for the user.                                              *)
NoTwin ==
  twin /\ task \in {"talking", "asking", "saving"} =>
    \/ ~create.landed
    \/ off # {}
    \/ cancel.pc # "idle"
    \/ "error" \in stream.told

(* A question takes one answer, and one that was given to it, whichever      *)
(* process it came through and however late it is.                           *)
AnsweredOnce ==
  /\ \A i \in 1..Len(got) : got[i][1] = got[i][2]
  /\ \A i, j \in 1..Len(got) : got[i][1] = got[j][1] => i = j

(* Text that is stored is not wiped by a later write: a cancellation that    *)
(* found no snapshot leaves it alone.                                        *)
NotWiped == [][row.text > 0 => row'.text > 0]_vars

(* Once the owner has heard of a cancellation while the reply was being       *)
(* produced, from its listener or from a request of its own, the run produces *)
(* nothing more and asks nothing more, whatever it was about, and is never    *)
(* recorded as done. (A reply that is complete may be: the save swallows a    *)
(* cancellation, and a commit lands that its task no longer awaits.)          *)
CancelHeard ==
  [][cancel.heard => /\ entry'.text = entry.text
                     /\ asked' = asked
                     /\ row'.st = "done" => row.st = "done"]_vars

(* Whoever is told of an end finds it in the row, and no write wipes the text *)
(* of a run.                                                                  *)
RowFirst == [](TypeOK /\ ToldIsStored) /\ NotWiped

(* No second run beside a living one and no second answer to a question, but  *)
(* for the races that the comments name.                                      *)
NothingTwice == NoTwin /\ AnsweredOnce

(* A stream that subscribed while the run was alive and received its last    *)
(* event ends.                                                               *)
StreamEnds == (\E i \in 1..Len(stream.box) : stream.box[i] \in {"done", "error"}) ~> stream.pc =
  "end"

(* After the owner died the conversation gets a run again: once the snapshot *)
(* has expired the request no longer finds the dead one.                     *)
Recovers == ("create" \in scene /\ task = "dead") ~> twin
=============================================================================
