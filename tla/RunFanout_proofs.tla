--------------------------- MODULE RunFanout_proofs ---------------------------
(***************************************************************************)
(* Proofs about RunFanout: through a process that does not own a run,      *)
(* nobody is told of an end before it is stored, no text is wiped, no      *)
(* question is answered twice and no second run is made but for the races  *)
(* that NoTwin names, in whatever order commands land, fail or are lost,   *)
(* and for any clients, texts, questions and failures.                     *)
(***************************************************************************)
EXTENDS RunFanout, TLAPS

-----------------------------------------------------------------------------
(* Parts of the inductive invariant. *)

EntryStatus == {"running", "awaiting_input", "cancelled"}
Tasks ==
  {"new", "talking", "asking", "saving", "stored", "landing", "halting", "halted", "unstarted",
   "over", "dead"}
Texts == 0..MaxText

Commands ==
  [by : {"owner", "other"}, what : {"set", "event", "cancel"},
   st : EntryStatus \union Ends \union {""}, text : Texts]

(* What the owner keeps, and what is between the processes. *)
OwnerTypes ==
  /\ row \in [st : {"running"} \union Terminal, text : Texts]
  /\ task \in Tasks
  /\ entry \in [st : EntryStatus, text : Texts]
  /\ asked \in Nat
  /\ question = (IF task = "asking" THEN asked ELSE 0)
  /\ got \in Seq(Nat \X Nat)
  /\ ear \in [hitl : {"off", "starting", "on"}, cancel : {"off", "starting", "on"}]

RedisTypes ==
  /\ air \subseteq Commands
  /\ \A c \in air : c.what = "set" => c.st \in EntryStatus
  /\ \A c \in air : c.what = "event" => c.st \in Ends
  /\ snap \in [st : EntryStatus, text : Texts] \union {NoSnap}

(* What the clients hold across their awaits. *)
StreamRecord ==
  [pc : {"idle", "load", "subscribe", "on", "repair", "end"},
   row : {"none", "running"} \union Terminal,
   box : Seq(Ends), told : SUBSET ({"running"} \union Terminal)]

CancelRecord ==
  [pc : {"idle", "request", "write", "write here", "done"}, text : Texts, heard : BOOLEAN]

ClientTypes ==
  /\ stream \in StreamRecord
  /\ cancel \in CancelRecord
  /\ answer \in [pc : {"idle", "publish", "refused", "ok"}, q : Nat]
  /\ create \in [pc : {"idle", "load", "settle", "insert", "done"}, landed : BOOLEAN]
  /\ twin \in BOOLEAN

FanoutTypes == OwnerTypes /\ RedisTypes /\ ClientTypes

(* No copy of the text is ahead of the run's own. *)
TextsBehind ==
  /\ row.text <= entry.text
  /\ snap.text <= entry.text
  /\ cancel.text <= entry.text
  /\ \A c \in air : c.text <= entry.text

(* An end that is stored, told or about to be told. *)
EndKnown ==
  \/ task \in {"stored", "halted"}
  \/ \E c \in air : c.what = "event"
  \/ stream.box # <<>>
  \/ stream.row \in Terminal
  \/ stream.told # {}

EndsStored == EndKnown => row.st # "running"

(* The listeners begin with the task, and a cancellation that was heard while *)
(* the reply was being produced has stopped it.                               *)
HeardStops ==
  /\ task = "new" => ear.cancel = "off"
  /\ cancel.heard => task \notin {"new", "talking", "asking", "saving", "stored", "landing"}

(* Only a cancellation makes an entry say so, and its snapshots. *)
CancelledByRequest ==
  (\/ entry.st = "cancelled"
   \/ snap.st = "cancelled"
   \/ \E c \in air : c.what = "set" /\ c.st = "cancelled") => cancel.pc # "idle"

(* Reasons for a twin that last: a failed Redis, a cancellation, a stream    *)
(* that settled the row.                                                     *)
Excused == off # {} \/ cancel.pc # "idle" \/ "error" \in stream.told

(* Why a row may be over, and a request about to make a run, while the run   *)
(* still talks, asks or saves.                                               *)
TwinExcused ==
  /\ twin => create.pc = "done"
  /\ task \in {"new", "talking", "asking", "saving"} =>
       /\ row.st # "running" => Excused \/ (~create.landed /\ create.pc \in {"insert", "done"})
       /\ create.pc \in {"settle", "insert", "done"} => Excused \/ ~create.landed

(* A stream is told nothing before it has read what Redis holds. *)
StreamFresh == stream.pc \in {"idle", "load"} => stream.told = {}

FanoutInv ==
  /\ FanoutTypes
  /\ StreamFresh
  /\ TextsBehind
  /\ EndsStored
  /\ HeardStops
  /\ CancelledByRequest
  /\ TwinExcused
  /\ AnsweredOnce

-----------------------------------------------------------------------------
(* Commands on their way, and records with a field changed. *)

LEMMA Numbers ==
  /\ MaxText \in Nat
  /\ 0 \in Texts
  /\ \A t \in Texts : t \in Nat
BY FanoutAssumption DEF FanoutAssumption, Texts

(* A command as its process sends it. *)
Addressed(p, what, st, text) == [by : {p}, what : {what}, st : {st}, text : {text}]

Sent(p, what, st, text) == [Cmd(what, st, text) EXCEPT !.by = p]

LEMMA SentParts ==
  ASSUME NEW p \in {"owner", "other"}, NEW what \in {"set", "event", "cancel"},
         NEW st \in EntryStatus \union Ends \union {""}, NEW text \in Texts
  PROVE  Sent(p, what, st, text) \in Addressed(p, what, st, text)
<1>1. Cmd(what, st, text) \in [by : {""}, what : {what}, st : {st}, text : {text}]
  BY DEF Cmd
<1>2. \A c \in [by : {""}, what : {what}, st : {st}, text : {text}] :
        [c EXCEPT !.by = p] \in Addressed(p, what, st, text)
  BY DEF Addressed
<1> QED
  BY <1>1, <1>2 DEF Sent

LEMMA SnapshotSent ==
  ASSUME NEW e \in [st : EntryStatus, text : Texts], Send("owner", {Snapshot(e)})
  PROVE  \A c \in air' :
           c \in air \/ (c \in Commands /\ c.what = "set" /\ c.st = e.st /\ c.text = e.text)
<1>1. air' = air \/ air' = air \union {Sent("owner", "set", e.st, e.text)}
  BY DEF Send, Snapshot, Sent
<1>2. e.st \in EntryStatus \union Ends \union {""} /\ e.text \in Texts
  OBVIOUS
<1>3. Sent("owner", "set", e.st, e.text) \in Addressed("owner", "set", e.st, e.text)
  BY <1>2, SentParts
<1>4. \A c \in Addressed("owner", "set", e.st, e.text) :
        c \in Commands /\ c.what = "set" /\ c.st = e.st /\ c.text = e.text
  BY <1>2 DEF Addressed, Commands
<1> QED
  BY <1>1, <1>3, <1>4

LEMMA CancelSent ==
  ASSUME Send("other", {Cmd("cancel", "", 0)})
  PROVE  \A c \in air' : c \in air \/ (c \in Commands /\ c.what = "cancel" /\ c.text = 0)
<1>1. air' = air \/ air' = air \union {Sent("other", "cancel", "", 0)}
  BY DEF Send, Sent
<1>2. "" \in EntryStatus \union Ends \union {""}
  OBVIOUS
<1>3. Sent("other", "cancel", "", 0) \in Addressed("other", "cancel", "", 0)
  BY <1>2, SentParts, Numbers
<1>4. \A c \in Addressed("other", "cancel", "", 0) :
        c \in Commands /\ c.what = "cancel" /\ c.text = 0
  BY Numbers DEF Addressed, Commands
<1> QED
  BY <1>1, <1>3, <1>4

LEMMA EventSent ==
  ASSUME NEW p \in {"owner", "other"}, NEW name \in Ends, Send(p, Event(name))
  PROVE  \A c \in air' :
           c \in air \/ (c \in Commands /\ c.what = "event" /\ c.st = name /\ c.text = 0)
<1>1. air' = air \/ air' = air \union {Sent(p, "event", name, 0)}
  BY DEF Send, Event, Sent
<1>2. name \in EntryStatus \union Ends \union {""}
  OBVIOUS
<1>3. Sent(p, "event", name, 0) \in Addressed(p, "event", name, 0)
  BY <1>2, SentParts, Numbers
<1>4. \A c \in Addressed(p, "event", name, 0) :
        c \in Commands /\ c.what = "event" /\ c.st = name /\ c.text = 0
  BY Numbers DEF Addressed, Commands
<1> QED
  BY <1>1, <1>3, <1>4

(* What a client reads of a run: Redis's snapshot or none. *)
LEMMA LoadParts ==
  ASSUME NEW s, Load(s)
  PROVE  /\ s \in {snap, NoSnap}
         /\ off \subseteq off'
BY DEF Load, Disable

(* A handler that reads, a subscription and an answer leave all of the run  *)
(* but its answers alone, and everything in Redis.                          *)
Reader ==
  \/ \E what \in {"hitl", "cancel"} : Subscribe(what)
  \/ StreamRead \/ StreamLoad \/ StreamSubscribe \/ StreamTake
  \/ AnswerLoad \/ AnswerPublish \/ AnswerHere
  \/ CreateRead \/ CreateLoad \/ CreateInsert

LEMMA ReaderFrame ==
  ASSUME Reader
  PROVE  UNCHANGED <<scene, row, task, entry, question, asked, air, snap, cancel>>
<1>1. ASSUME NEW what \in {"hitl", "cancel"}, Subscribe(what)
      PROVE  UNCHANGED <<scene, row, task, entry, question, asked, air, snap, cancel>>
  BY <1>1 DEF Subscribe, redisVars, clientVars
<1>2. CASE StreamRead \/ StreamLoad \/ StreamSubscribe \/ StreamTake
  BY <1>2 DEF StreamRead, StreamLoad, StreamSubscribe, StreamTake, ownerVars, redisVars
<1>3. CASE AnswerLoad \/ AnswerPublish \/ AnswerHere
  BY <1>3 DEF AnswerLoad, AnswerPublish, AnswerHere, ownerVars, redisVars, clientVars
<1>4. CASE CreateRead \/ CreateLoad \/ CreateInsert
  BY <1>4 DEF CreateRead, CreateLoad, CreateInsert, ownerVars, redisVars
<1> QED
  BY <1>1, <1>2, <1>3, <1>4 DEF Reader

Writer ==
  \/ Register \/ Talk \/ Ask \/ Resume \/ Save \/ Store \/ Finish \/ Halt \/ Halted
  \/ Crash \/ Land \/ Drop \/ Expire \/ StreamRepair \/ CreateSettle
  \/ CancelLoad \/ CancelRequest \/ CancelWrite \/ CancelHere \/ CancelWriteHere

LEMMA ReadersAndWriters == Next => Reader \/ Writer
BY DEF Next, Owner, Redis, Stream, Cancel, Answer, Create, Reader, Writer

(* What update_state makes of the entry, and how a cancellation at the owner *)
(* tells it.                                                                 *)
LEMMA ShownTypes ==
  ASSUME FanoutTypes, Talk \/ Ask \/ Resume, NEW e, Show(e)
  PROVE  /\ e \in [st : EntryStatus, text : Texts]
         /\ e.st \in {entry.st, "awaiting_input", "running"}
         /\ e.text >= entry.text
<1>1. entry \in [st : EntryStatus, text : Texts] /\ entry.text \in Nat
  BY Numbers DEF FanoutTypes, OwnerTypes
<1>2. e = entry'
  BY DEF Show
<1>3. CASE Talk
  <2>1. entry' = [entry EXCEPT !.text = @ + 1] /\ entry.text < MaxText
    BY <1>3 DEF Talk, Show
  <2> QED
    BY <1>1, <1>2, <2>1, Numbers DEF Texts
<1>4. CASE Ask \/ Resume
  <2>1. \E st \in {"awaiting_input", "running"} : entry' = [entry EXCEPT !.st = st]
    BY <1>4 DEF Ask, Resume, Show
  <2> QED
    BY <1>1, <1>2, <2>1 DEF EntryStatus
<1> QED
  BY <1>3, <1>4

LEMMA HereSent ==
  ASSUME FanoutTypes, CancelHere
  PROVE  /\ entry' \in [st : EntryStatus, text : Texts]
         /\ entry'.st = "cancelled"
         /\ entry'.text = entry.text
         /\ \A c \in air' :
              c \in air \/ (c \in Commands /\ c.what = "set" /\ c.st = "cancelled"
                                           /\ c.text = entry.text)
<1> DEFINE e == State("cancelled", entry.text)
<1>1. entry \in [st : EntryStatus, text : Texts]
  BY DEF FanoutTypes, OwnerTypes
<1>2. entry' = [entry EXCEPT !.st = "cancelled"] /\ Send("owner", {Snapshot(e)})
  BY DEF CancelHere
<1>3. e \in [st : EntryStatus, text : Texts] /\ e.st = "cancelled" /\ e.text = entry.text
  BY <1>1 DEF State, EntryStatus
<1>4. /\ entry' \in [st : EntryStatus, text : Texts]
      /\ entry'.st = "cancelled"
      /\ entry'.text = entry.text
  BY <1>1, <1>2 DEF EntryStatus
<1> HIDE DEF e
<1> QED
  BY <1>2, <1>3, <1>4, SnapshotSent

-----------------------------------------------------------------------------
(* Text. *)

LEMMA TextsInit == Init => TextsBehind
BY DEF Init, TextsBehind, State, NoSnap

(* A snapshot carries the text the run has by then. *)
LEMMA ShownText ==
  ASSUME FanoutTypes, TextsBehind, UNCHANGED <<row, snap, cancel>>,
         NEW e \in [st : EntryStatus, text : Texts], entry' = e, e.text >= entry.text,
         Send("owner", {Snapshot(e)})
  PROVE  TextsBehind'
<1>0. snap.text \in Texts
  BY Numbers DEF FanoutTypes, RedisTypes, NoSnap
<1>1. /\ entry.text \in Nat /\ e.text \in Nat /\ row.text \in Nat
      /\ snap.text \in Nat /\ cancel.text \in Nat
  BY <1>0, Numbers DEF FanoutTypes, OwnerTypes, ClientTypes, CancelRecord
<1>2. \A c \in air : c.text \in Nat
  BY Numbers DEF FanoutTypes, RedisTypes, Commands
<1>3. \A c \in air' : c.text <= e.text
  BY <1>1, <1>2, SnapshotSent DEF TextsBehind
<1>4. row.text <= e.text /\ snap.text <= e.text /\ cancel.text <= e.text
  BY <1>1 DEF TextsBehind
<1> QED
  BY <1>3, <1>4 DEF TextsBehind

LEMMA PatchText ==
  ASSUME FanoutTypes, NEW t \in Texts
  PROVE  /\ CancelPatch(row, t).st = "cancelled"
         /\ CancelPatch(row, t).text \in {row.text, t}
         /\ CancelPatch(row, t) \in [st : {"running"} \union Terminal, text : Texts]
         /\ row.text > 0 => CancelPatch(row, t).text > 0
BY Numbers DEF FanoutTypes, OwnerTypes, CancelPatch, State, Terminal

LEMMA TextsNext == FanoutInv /\ Next => TextsBehind'
<1> SUFFICES ASSUME FanoutInv, Next
             PROVE  TextsBehind'
  OBVIOUS
<1>t. /\ FanoutTypes /\ TextsBehind
      /\ entry \in [st : EntryStatus, text : Texts]
      /\ entry.text \in Nat /\ row.text \in Nat /\ cancel.text \in Texts
  BY Numbers DEF FanoutInv, FanoutTypes, OwnerTypes, ClientTypes, CancelRecord
<1>1. CASE Reader
  BY <1>t, <1>1, ReaderFrame DEF TextsBehind
<1>2. CASE Register
  <2>1. UNCHANGED <<row, entry, snap, cancel>> /\ Send("owner", {Snapshot(entry)})
    BY <1>2 DEF Register, clientVars
  <2> QED
    BY <1>t, <2>1, ShownText
<1>3. CASE Talk \/ Ask \/ Resume
  <2>1. PICK e : Show(e) /\ UNCHANGED <<row, snap, cancel>>
    BY <1>3 DEF Talk, Ask, Resume, clientVars
  <2>2. e \in [st : EntryStatus, text : Texts] /\ e.text >= entry.text
    BY <1>3, <1>t, <2>1, ShownTypes
  <2> QED
    BY <1>t, <2>1, <2>2, ShownText DEF Show
<1>5. CASE Save
  <2>1. UNCHANGED <<row, entry, snap, cancel, air>>
    BY <1>5 DEF Save, redisVars, clientVars
  <2> QED
    BY <1>t, <2>1 DEF TextsBehind
<1>6. CASE Store
  <2>1. UNCHANGED <<entry, snap, cancel, air>> /\ row'.text = entry.text
    BY <1>6 DEF Store, State, redisVars, clientVars
  <2> QED
    BY <1>t, <2>1 DEF TextsBehind
<1>7. CASE Finish \/ Halted
  <2>1. PICK name \in Ends : Leave(name) /\ UNCHANGED <<row, entry, snap, cancel>>
    BY <1>7 DEF Finish, Halted, Ends, clientVars
  <2>2. \A c \in air' : c \in air \/ c.text = 0
    BY <2>1, EventSent DEF Leave
  <2> QED
    BY <1>t, <2>1, <2>2 DEF TextsBehind
<1>8. CASE Halt
  <2>1. UNCHANGED <<entry, snap, cancel, air>> /\ row' = CancelPatch(row, entry.text)
    BY <1>8 DEF Halt, redisVars, clientVars
  <2>2. row'.text \in {row.text, entry.text}
    BY <1>t, <2>1, PatchText
  <2> QED
    BY <1>t, <2>1, <2>2 DEF TextsBehind
<1>9. CASE Crash \/ Drop
  <2>1. UNCHANGED <<row, entry, snap, cancel>> /\ air' \subseteq air
    BY <1>9 DEF Crash, Drop, ownerVars, clientVars
  <2> QED
    BY <1>t, <2>1 DEF TextsBehind
<1>10. CASE Land
  <2>1. PICK c \in air : air' = air \ {c} /\ (LandSet(c) \/ LandEvent(c) \/ LandCancel(c))
    BY <1>10 DEF Land
  <2>2. UNCHANGED <<row, entry>>
    BY <1>10, <2>1 DEF Land, LandSet, LandEvent, LandCancel
  <2>3. snap'.text \in {snap.text, c.text}
    BY <2>1 DEF LandSet, LandEvent, LandCancel, State
  <2>4. cancel'.text = cancel.text
    BY <1>t, <2>1 DEF LandSet, LandEvent, LandCancel, FanoutTypes, ClientTypes,
                      CancelRecord
  <2> QED
    BY <1>t, <2>1, <2>2, <2>3, <2>4 DEF TextsBehind
<1>11. CASE Expire
  <2>1. UNCHANGED <<row, entry, cancel, air>> /\ snap'.text = 0
    BY <1>11 DEF Expire, NoSnap, ownerVars, clientVars
  <2> QED
    BY <1>t, <2>1 DEF TextsBehind
<1>12. CASE StreamRepair \/ CreateSettle
  <2>1. UNCHANGED <<entry, snap, cancel, air>> /\ row' = [row EXCEPT !.st = "error"]
    BY <1>12 DEF StreamRepair, CreateSettle, redisVars
  <2>2. row'.text = row.text
    BY <1>t, <2>1 DEF FanoutTypes, OwnerTypes
  <2> QED
    BY <1>t, <2>1, <2>2 DEF TextsBehind
<1>13. CASE CancelLoad
  <2>1. PICK s \in {snap, NoSnap} :
          Load(s) /\ cancel' = [cancel EXCEPT !.pc = "request", !.text = s.text]
    BY <1>13 DEF CancelLoad
  <2>2. UNCHANGED <<row, entry, snap, air>>
    BY <1>13 DEF CancelLoad, ownerVars
  <2>3. s.text \in {snap.text, 0}
    BY <2>1 DEF NoSnap
  <2>4. cancel'.text = s.text
    BY <1>t, <2>1 DEF FanoutTypes, ClientTypes, CancelRecord
  <2> QED
    BY <1>t, <2>2, <2>3, <2>4 DEF TextsBehind
<1>14. CASE CancelRequest
  <2>1. UNCHANGED <<row, entry, snap>>
    BY <1>14 DEF CancelRequest, ownerVars
  <2>2. cancel'.text = cancel.text
    BY <1>t, <1>14 DEF CancelRequest, FanoutTypes, ClientTypes, CancelRecord
  <2>3. \A c \in air' : c \in air \/ c.text = 0
    BY <1>14, CancelSent DEF CancelRequest
  <2> QED
    BY <1>t, <2>1, <2>2, <2>3 DEF TextsBehind
<1>15. CASE CancelWrite \/ CancelWriteHere
  <2>1. PICK p \in {"owner", "other"} :
          /\ Send(p, Event("error"))
          /\ UNCHANGED <<entry, snap>>
          /\ row' = CancelPatch(row, cancel.text)
          /\ cancel' = [cancel EXCEPT !.pc = "done"]
    BY <1>15 DEF CancelWrite, CancelWriteHere
  <2>2. row'.text \in {row.text, cancel.text} /\ cancel'.text = cancel.text
    BY <1>t, <2>1, PatchText DEF FanoutTypes, ClientTypes, CancelRecord
  <2>3. \A c \in air' : c \in air \/ c.text = 0
    BY <2>1, EventSent DEF Ends
  <2> QED
    BY <1>t, <2>1, <2>2, <2>3 DEF TextsBehind
<1>16. CASE CancelHere
  <2>1. /\ UNCHANGED <<row, snap>>
        /\ cancel' = [pc |-> "write here", text |-> entry.text, heard |-> Producing]
    BY <1>16 DEF CancelHere
  <2>2. cancel'.text = entry.text
    BY <2>1
  <2>3. entry'.text = entry.text /\ \A c \in air' : c \in air \/ c.text = entry.text
    BY <1>t, <1>16, HereSent
  <2>4. UNCHANGED <<row, snap>>
    BY <2>1
  <2> QED
    BY <1>t, <2>2, <2>3, <2>4 DEF TextsBehind
<1> QED
  BY <1>1, <1>2, <1>3, <1>5, <1>6, <1>7, <1>8, <1>9, <1>10, <1>11, <1>12, <1>13, <1>14,
     <1>15, <1>16, ReadersAndWriters DEF Writer

-----------------------------------------------------------------------------
(* Ends. *)

(* What anybody may write into the row. *)
RowWrite ==
  \/ row' = row
  \/ task \in {"saving", "landing"} /\ row' = State("done", entry.text)
  \/ \E t \in Texts : row' = CancelPatch(row, t)
  \/ row' = [row EXCEPT !.st = "error"]

LEMMA RowWrites == FanoutTypes /\ Next => RowWrite
<1> SUFFICES ASSUME FanoutTypes, Next
             PROVE  RowWrite
  OBVIOUS
<1>1. CASE Reader
  BY <1>1, ReaderFrame DEF RowWrite
<1>2. CASE Register \/ Talk \/ Ask \/ Resume \/ Save \/ Finish \/ Halted \/ Crash
  BY <1>2 DEF Register, Talk, Ask, Resume, Save, Finish, Halted, Crash, RowWrite
<1>3. CASE Store
  BY <1>3 DEF Store, RowWrite
<1>4. CASE Halt
  <2>1. row' = CancelPatch(row, entry.text) /\ entry.text \in Texts
    BY <1>4 DEF Halt, FanoutTypes, OwnerTypes
  <2> QED
    BY <2>1 DEF RowWrite
<1>5. CASE Land
  BY <1>5 DEF Land, LandSet, LandEvent, LandCancel, RowWrite
<1>6. CASE Drop \/ Expire \/ CancelLoad \/ CancelRequest \/ CancelHere
  BY <1>6 DEF Drop, Expire, CancelLoad, CancelRequest, CancelHere, ownerVars, RowWrite
<1>7. CASE StreamRepair \/ CreateSettle
  BY <1>7 DEF StreamRepair, CreateSettle, RowWrite
<1>8. CASE CancelWrite \/ CancelWriteHere
  <2>1. row' = CancelPatch(row, cancel.text) /\ cancel.text \in Texts
    BY <1>8 DEF CancelWrite, CancelWriteHere, FanoutTypes, ClientTypes, CancelRecord
  <2> QED
    BY <2>1 DEF RowWrite
<1> QED
  BY <1>1, <1>2, <1>3, <1>4, <1>5, <1>6, <1>7, <1>8, ReadersAndWriters DEF Writer

(* A row that is over stays so, and its type is kept. *)
LEMMA RowSettles ==
  ASSUME FanoutTypes, RowWrite
  PROVE  /\ row.st # "running" => row'.st # "running"
         /\ row' \in [st : {"running"} \union Terminal, text : Texts]
<1>1. /\ row \in [st : {"running"} \union Terminal, text : Texts]
      /\ entry.text \in Texts
  BY DEF FanoutTypes, OwnerTypes
<1>2. CASE row' = State("done", entry.text)
  BY <1>1, <1>2 DEF State, Terminal
<1>3. CASE \E t \in Texts : row' = CancelPatch(row, t)
  BY <1>3, PatchText
<1>4. CASE row' = [row EXCEPT !.st = "error"]
  BY <1>1, <1>4 DEF Terminal
<1> QED
  BY <1>1, <1>2, <1>3, <1>4 DEF RowWrite

LEMMA EndsInit == Init => EndsStored
BY DEF Init, EndsStored, EndKnown, Terminal, State

(* Of what the streams know, a step of the run or of another client changes  *)
(* nothing.                                                                  *)
LEMMA NoNewEnd ==
  ASSUME ~EndKnown, UNCHANGED stream, task' \notin {"stored", "halted"},
         \A c \in air' : c \in air \/ c.what # "event"
  PROVE  ~EndKnown'
BY DEF EndKnown

LEMMA EndsNext == FanoutInv /\ Next => EndsStored'
<1> SUFFICES ASSUME FanoutInv, Next, row'.st = "running"
             PROVE  ~EndKnown'
  BY DEF EndsStored
<1>t. FanoutTypes /\ EndsStored
  BY DEF FanoutInv
<1>k. ~EndKnown /\ row.st = "running"
  BY <1>t, RowWrites, RowSettles DEF EndsStored
<1>p. /\ task \notin {"stored", "halted"}
      /\ \A c \in air : c.what # "event"
      /\ stream.box = <<>>
      /\ stream.row \notin Terminal
      /\ stream.told = {}
  BY <1>k DEF EndKnown
<1>1. CASE Reader
  <2>1. UNCHANGED <<task, air>>
    BY <1>1, ReaderFrame
  <2>2. CASE StreamRead
    <3>1. stream' = [stream EXCEPT !.pc = "load", !.row = row.st]
      BY <2>2 DEF StreamRead
    <3>2. stream'.row = "running" /\ stream'.box = stream.box /\ stream'.told = stream.told
      BY <1>t, <1>k, <3>1 DEF FanoutTypes, ClientTypes, StreamRecord
    <3> QED
      BY <1>p, <2>1, <3>2 DEF EndKnown, Terminal
  <2>3. CASE StreamLoad
    <3>1. \E pc \in {"subscribe", "repair"} : stream' = [stream EXCEPT !.pc = pc]
      BY <1>p, <2>3 DEF StreamLoad
    <3>2. stream'.row = stream.row /\ stream'.box = stream.box /\ stream'.told = stream.told
      BY <1>t, <3>1 DEF FanoutTypes, ClientTypes, StreamRecord
    <3> QED
      BY <1>p, <2>1, <3>2 DEF EndKnown
  <2>4. CASE StreamSubscribe
    <3>1. \E pc \in {"end", "on"} : stream' = [stream EXCEPT !.pc = pc]
      BY <2>4 DEF StreamSubscribe
    <3>2. stream'.row = stream.row /\ stream'.box = stream.box /\ stream'.told = stream.told
      BY <1>t, <3>1 DEF FanoutTypes, ClientTypes, StreamRecord
    <3> QED
      BY <1>p, <2>1, <3>2 DEF EndKnown
  <2>5. CASE StreamTake
    BY <1>p, <2>5 DEF StreamTake
  <2>6. ASSUME NEW what \in {"hitl", "cancel"}, Subscribe(what)
        PROVE  ~EndKnown'
    <3>1. UNCHANGED stream
      BY <2>6 DEF Subscribe, clientVars
    <3> QED
      BY <1>k, <1>p, <2>1, <3>1, NoNewEnd
  <2>7. CASE AnswerLoad \/ AnswerPublish \/ AnswerHere
    <3>1. UNCHANGED stream
      BY <2>7 DEF AnswerLoad, AnswerPublish, AnswerHere, clientVars
    <3> QED
      BY <1>k, <1>p, <2>1, <3>1, NoNewEnd
  <2>8. CASE CreateRead \/ CreateLoad \/ CreateInsert
    <3>1. UNCHANGED stream
      BY <2>8 DEF CreateRead, CreateLoad, CreateInsert
    <3> QED
      BY <1>k, <1>p, <2>1, <3>1, NoNewEnd
  <2> QED
    BY <1>1, <2>2, <2>3, <2>4, <2>5, <2>6, <2>7, <2>8 DEF Reader
<1>2. CASE Register
  <2>1. Send("owner", {Snapshot(entry)}) /\ UNCHANGED stream /\ task' = "talking"
    BY <1>2 DEF Register, clientVars
  <2>2. entry \in [st : EntryStatus, text : Texts]
    BY <1>t DEF FanoutTypes, OwnerTypes
  <2>3. \A c \in air' : c \in air \/ c.what # "event"
    BY <2>1, <2>2, SnapshotSent
  <2> QED
    BY <1>k, <2>1, <2>3, NoNewEnd
<1>3. CASE Talk \/ Ask \/ Resume
  <2>1. PICK e : Show(e) /\ UNCHANGED stream /\ task' \in {"talking", "asking"}
    BY <1>3 DEF Talk, Ask, Resume, clientVars
  <2>2. e \in [st : EntryStatus, text : Texts]
    BY <1>3, <1>t, <2>1, ShownTypes
  <2>3. \A c \in air' : c \in air \/ c.what # "event"
    BY <2>1, <2>2, SnapshotSent DEF Show
  <2> QED
    BY <1>k, <2>1, <2>3, NoNewEnd
<1>14. CASE Save
  <2>1. UNCHANGED <<stream, air>> /\ task' = "saving"
    BY <1>14 DEF Save, redisVars, clientVars
  <2> QED
    BY <1>k, <2>1, NoNewEnd
<1>4. CASE Store
  BY <1>4 DEF Store, State
<1>5. CASE Finish \/ Halted
  BY <1>p, <1>5 DEF Finish, Halted
<1>6. CASE Halt
  <2>1. row' = CancelPatch(row, entry.text)
    BY <1>6 DEF Halt
  <2> QED
    BY <2>1 DEF CancelPatch, State
<1>7. CASE Crash \/ Drop \/ Expire
  <2>1. air' \subseteq air /\ UNCHANGED stream /\ task' \in {task, "dead"}
    BY <1>7 DEF Crash, Drop, Expire, ownerVars, clientVars
  <2> QED
    BY <1>k, <1>p, <2>1, NoNewEnd
<1>8. CASE Land
  <2>1. PICK c \in air : air' = air \ {c} /\ (LandSet(c) \/ LandEvent(c) \/ LandCancel(c))
    BY <1>8 DEF Land
  <2>2. ~LandEvent(c)
    BY <1>p DEF LandEvent
  <2>3. UNCHANGED stream /\ task' \in {task, "halting", "saving", "landing"}
    BY <2>1, <2>2 DEF LandSet, LandCancel, Heed, Interrupt
  <2> QED
    BY <1>k, <1>p, <2>1, <2>3, NoNewEnd
<1>9. CASE StreamRepair \/ CreateSettle
  <2>1. row' = [row EXCEPT !.st = "error"]
    BY <1>9 DEF StreamRepair, CreateSettle
  <2> QED
    BY <1>t, <2>1 DEF FanoutTypes, OwnerTypes
<1>10. CASE CancelLoad
  <2>1. UNCHANGED <<stream, task, air>>
    BY <1>10 DEF CancelLoad, ownerVars
  <2> QED
    BY <1>k, <1>p, <2>1, NoNewEnd
<1>11. CASE CancelRequest
  <2>1. UNCHANGED <<stream, task>>
    BY <1>11 DEF CancelRequest, ownerVars
  <2>2. \A c \in air' : c \in air \/ c.what # "event"
    BY <1>11, CancelSent DEF CancelRequest
  <2> QED
    BY <1>k, <1>p, <2>1, <2>2, NoNewEnd
<1>12. CASE CancelWrite \/ CancelWriteHere
  <2>1. row' = CancelPatch(row, cancel.text)
    BY <1>12 DEF CancelWrite, CancelWriteHere
  <2> QED
    BY <2>1 DEF CancelPatch, State
<1>13. CASE CancelHere
  <2>1. UNCHANGED stream /\ task' \in {task, "halting", "saving", "landing", "unstarted"}
    BY <1>13 DEF CancelHere, Interrupt, Preempt
  <2>2. \A c \in air' : c \in air \/ c.what # "event"
    BY <1>13, <1>t, HereSent
  <2> QED
    BY <1>k, <1>p, <2>1, <2>2, NoNewEnd
<1> QED
  BY <1>1, <1>2, <1>3, <1>4, <1>5, <1>6, <1>7, <1>8, <1>9, <1>10, <1>11, <1>12, <1>13,
     <1>14, ReadersAndWriters DEF Writer

-----------------------------------------------------------------------------
(* Listeners, cancellations and reasons for a twin. *)

LEMMA HeardInit == Init => HeardStops
BY DEF Init, HeardStops

LEMMA HeardNext == FanoutInv /\ Next => HeardStops'
<1> SUFFICES ASSUME FanoutInv, Next
             PROVE  HeardStops'
  OBVIOUS
<1>t. FanoutTypes /\ HeardStops
  BY DEF FanoutInv
<1>1. CASE Reader
  <2>1. UNCHANGED <<task, cancel>>
    BY <1>1, ReaderFrame
  <2>2. ear'.cancel = ear.cancel \/ ear.cancel = "starting"
    <3>1. ASSUME NEW what \in {"hitl", "cancel"}, Subscribe(what)
          PROVE  ear'.cancel = ear.cancel \/ ear.cancel = "starting"
      BY <1>t, <3>1 DEF Subscribe, FanoutTypes, OwnerTypes
    <3>2. CASE StreamRead \/ StreamLoad \/ StreamSubscribe \/ StreamTake
      BY <3>2 DEF StreamRead, StreamLoad, StreamSubscribe, StreamTake, ownerVars
    <3>3. CASE AnswerLoad \/ AnswerPublish \/ AnswerHere
      BY <3>3 DEF AnswerLoad, AnswerPublish, AnswerHere, ownerVars
    <3>4. CASE CreateRead \/ CreateLoad \/ CreateInsert
      BY <3>4 DEF CreateRead, CreateLoad, CreateInsert, ownerVars
    <3> QED
      BY <1>1, <3>1, <3>2, <3>3, <3>4 DEF Reader
  <2> QED
    BY <1>t, <2>1, <2>2 DEF HeardStops
<1>2. CASE Register \/ Talk \/ Ask \/ Resume \/ Save \/ Store \/ Finish
  <2>1. /\ task \in {"new", "talking", "asking", "saving", "stored", "landing"}
        /\ task' # "new"
        /\ UNCHANGED cancel
    BY <1>2 DEF Register, Talk, Ask, Resume, Save, Store, Finish, Leave, clientVars
  <2> QED
    BY <1>t, <2>1 DEF HeardStops
<1>3. CASE Halt \/ Halted \/ Crash
  <2>1. task' \in {"halted", "over", "dead"} /\ UNCHANGED cancel
    BY <1>3 DEF Halt, Halted, Crash, Leave, clientVars
  <2> QED
    BY <2>1 DEF HeardStops
<1>4. CASE Land
  <2>1. PICK c \in air : LandSet(c) \/ LandEvent(c) \/ LandCancel(c)
    BY <1>4 DEF Land
  <2>2. CASE UNCHANGED <<task, ear, cancel>>
    BY <1>t, <2>2 DEF HeardStops
  <2>3. CASE LandCancel(c) /\ Listening("cancel")
    <3>1. ear.cancel = "on" /\ cancel' = [cancel EXCEPT !.heard = Producing] /\ Interrupt
      BY <2>3 DEF LandCancel, Listening, Heed
    <3>2. task # "new"
      BY <1>t, <3>1 DEF HeardStops
    <3>3. task' # "new" /\ (Producing => task' = "halting")
      BY <3>1, <3>2 DEF Interrupt, Producing
    <3>4. cancel'.heard = Producing
      BY <1>t, <3>1 DEF FanoutTypes, ClientTypes, CancelRecord
    <3> QED
      BY <3>3, <3>4 DEF HeardStops
  <2> QED
    BY <2>1, <2>2, <2>3 DEF LandSet, LandEvent, LandCancel
<1>5. CASE Drop \/ Expire \/ StreamRepair \/ CreateSettle
  <2>1. UNCHANGED <<task, ear, cancel>>
    BY <1>5 DEF Drop, Expire, StreamRepair, CreateSettle, ownerVars, clientVars
  <2> QED
    BY <1>t, <2>1 DEF HeardStops
<1>6. CASE CancelLoad \/ CancelRequest \/ CancelWrite \/ CancelWriteHere
  <2>1. UNCHANGED <<task, ear>>
    BY <1>6 DEF CancelLoad, CancelRequest, CancelWrite, CancelWriteHere, ownerVars
  <2>2. cancel'.heard = cancel.heard
    BY <1>t, <1>6 DEF CancelLoad, CancelRequest, CancelWrite, CancelWriteHere,
                      FanoutTypes, ClientTypes, CancelRecord
  <2> QED
    BY <1>t, <2>1, <2>2 DEF HeardStops
<1>7. CASE CancelHere
  <2>1. /\ task # "new"
        /\ Interrupt \/ Preempt
        /\ cancel' = [pc |-> "write here", text |-> entry.text, heard |-> Producing]
    BY <1>7 DEF CancelHere, Local
  <2>2. task' # "new" /\ (Producing => task' \in {"halting", "unstarted"})
    BY <2>1 DEF Interrupt, Preempt, Producing
  <2>3. cancel'.heard = Producing
    BY <2>1
  <2> QED
    BY <2>2, <2>3 DEF HeardStops
<1> QED
  BY <1>1, <1>2, <1>3, <1>4, <1>5, <1>6, <1>7, ReadersAndWriters DEF Writer

(* What goes on only in one direction. *)
LEMMA StreamGoesOn ==
  ASSUME FanoutTypes, Next
  PROVE  /\ stream.pc \notin {"idle", "load"} =>
              /\ stream'.pc \notin {"idle", "load"}
              /\ "error" \in stream.told => "error" \in stream'.told
         /\ stream'.pc \in {"idle", "load"} => stream'.told = stream.told
<1> DEFINE P == /\ stream.pc \notin {"idle", "load"} =>
                     /\ stream'.pc \notin {"idle", "load"}
                     /\ "error" \in stream.told => "error" \in stream'.told
                /\ stream'.pc \in {"idle", "load"} => stream'.told = stream.told
<1>t. stream \in [pc : {"idle", "load", "subscribe", "on", "repair", "end"},
                  row : {"none", "running"} \union Terminal,
                  box : Seq(Ends), told : SUBSET ({"running"} \union Terminal)]
  BY DEF FanoutTypes, ClientTypes, StreamRecord
<1>0. CASE UNCHANGED stream
  BY <1>0
<1>1. CASE StreamRead
  BY <1>t, <1>1 DEF StreamRead
<1>2. CASE StreamLoad
  <2>1. stream.pc = "load"
    BY <1>2 DEF StreamLoad
  <2>2. \/ stream' = [stream EXCEPT !.pc = "end", !.told = {stream.row}]
        \/ \E pc \in {"subscribe", "repair"} : stream' = [stream EXCEPT !.pc = pc]
    BY <1>2 DEF StreamLoad
  <2>3. stream'.pc \notin {"idle", "load"}
    BY <1>t, <2>2
  <2> QED
    BY <2>1, <2>3
<1>3. CASE StreamSubscribe
  <2>1. \E pc \in {"end", "on"} : stream' = [stream EXCEPT !.pc = pc]
    BY <1>3 DEF StreamSubscribe
  <2>2. stream'.pc \in {"end", "on"} /\ stream'.told = stream.told
    BY <1>t, <2>1
  <2> QED
    BY <2>2
<1>4. CASE StreamTake
  <2>1. PICK pc \in {"end", "on"} :
          stream' = [stream EXCEPT !.box = Tail(@), !.told = @ \union {Head(stream.box)}, !.pc = pc]
    BY <1>4 DEF StreamTake
  <2>2. stream'.pc \in {"end", "on"} /\ stream.told \subseteq stream'.told
    BY <1>t, <2>1
  <2> QED
    BY <2>2
<1>5. CASE StreamRepair
  BY <1>t, <1>5 DEF StreamRepair
<1>6. CASE Land
  <2>1. stream' = stream \/ \E b : stream' = [stream EXCEPT !.box = b]
    BY <1>6 DEF Land, LandSet, LandEvent, LandCancel
  <2> QED
    BY <1>t, <2>1
<1>7. CASE Owner \/ Crash \/ Drop \/ Expire \/ Answer
  <2>1. UNCHANGED stream
    BY <1>7 DEF Owner, Register, Talk, Ask, Resume, Save, Store, Finish, Halt, Halted,
              Crash, Drop, Expire, Answer, AnswerLoad, AnswerPublish, AnswerHere, clientVars
  <2> QED
    BY <1>0, <2>1
<1>8. CASE Cancel \/ Create
  <2>1. UNCHANGED stream
    BY <1>8 DEF Cancel, CancelLoad, CancelRequest, CancelWrite, CancelHere, CancelWriteHere,
                Create, CreateRead, CreateLoad, CreateSettle, CreateInsert
  <2> QED
    BY <1>0, <2>1
<1>9. ASSUME NEW what \in {"hitl", "cancel"}, Subscribe(what)
      PROVE  P
  <2>1. UNCHANGED stream
    BY <1>9 DEF Subscribe, clientVars
  <2> QED
    BY <1>0, <2>1
<1> QED
  BY <1>1, <1>2, <1>3, <1>4, <1>5, <1>6, <1>7, <1>8, <1>9 DEF Next, Stream, Redis

LEMMA CancelGoesOn == FanoutTypes /\ Next /\ cancel.pc # "idle" => cancel'.pc # "idle"
<1> SUFFICES ASSUME FanoutTypes, Next, cancel.pc # "idle"
             PROVE  cancel'.pc # "idle"
  OBVIOUS
<1>t. cancel \in [pc : {"idle", "request", "write", "write here", "done"}, text : Texts,
                  heard : BOOLEAN]
  BY DEF FanoutTypes, ClientTypes, CancelRecord
<1>1. CASE Reader
  BY <1>1, ReaderFrame
<1>2. CASE Owner \/ Crash \/ Drop \/ Expire
  BY <1>2 DEF Owner, Register, Talk, Ask, Resume, Save, Store, Finish, Halt, Halted,
              Crash, Drop, Expire, clientVars
<1>3. CASE Land
  <2>1. cancel' = cancel \/ cancel' = [cancel EXCEPT !.heard = Producing]
    BY <1>3 DEF Land, LandSet, LandEvent, LandCancel
  <2> QED
    BY <1>t, <2>1
<1>4. CASE StreamRepair \/ CreateSettle
  BY <1>4 DEF StreamRepair, CreateSettle
<1>5. CASE CancelLoad
  <2>1. \E t : cancel' = [cancel EXCEPT !.pc = "request", !.text = t]
    BY <1>5 DEF CancelLoad
  <2> QED
    BY <1>t, <2>1
<1>7. CASE CancelHere
  BY <1>7 DEF CancelHere
<1>6. CASE CancelRequest \/ CancelWrite \/ CancelWriteHere
  <2>1. \E pc \in {"write", "done"} : cancel' = [cancel EXCEPT !.pc = pc]
    BY <1>6 DEF CancelRequest, CancelWrite, CancelWriteHere
  <2> QED
    BY <1>t, <2>1
<1> QED
  BY <1>1, <1>2, <1>3, <1>4, <1>5, <1>6, <1>7, ReadersAndWriters DEF Writer, Owner

LEMMA OffGrows == Next => off \subseteq off'
<1> SUFFICES ASSUME Next
             PROVE  off \subseteq off'
  OBVIOUS
<1>1. CASE Owner \/ Crash \/ Expire
  BY <1>1 DEF Owner, Register, Talk, Ask, Resume, Save, Store, Finish, Halt, Halted,
              Crash, Expire, redisVars
<1>2. CASE Land
  BY <1>2 DEF Land
<1>3. CASE Drop
  BY <1>3 DEF Drop, Disable
<1>4. ASSUME NEW what \in {"hitl", "cancel"}, Subscribe(what)
      PROVE  off \subseteq off'
  BY <1>4 DEF Subscribe, redisVars
<1>5. CASE StreamLoad \/ CancelLoad \/ AnswerLoad \/ CreateLoad
  BY <1>5, LoadParts DEF StreamLoad, CancelLoad, AnswerLoad, CreateLoad
<1>6. CASE StreamRead \/ StreamSubscribe \/ StreamTake \/ StreamRepair
  BY <1>6 DEF StreamRead, StreamSubscribe, StreamTake, StreamRepair, redisVars
<1>7. CASE CancelRequest \/ CancelWrite \/ CancelHere \/ CancelWriteHere
  BY <1>7 DEF CancelRequest, CancelWrite, CancelHere, CancelWriteHere
<1>8. CASE AnswerPublish \/ AnswerHere
  BY <1>8 DEF AnswerPublish, AnswerHere, Disable, redisVars
<1>9. CASE CreateRead \/ CreateSettle \/ CreateInsert
  BY <1>9 DEF CreateRead, CreateSettle, CreateInsert, redisVars
<1> QED
  BY <1>1, <1>2, <1>3, <1>4, <1>5, <1>6, <1>7, <1>8, <1>9
     DEF Next, Redis, Stream, Cancel, Answer, Create

LEMMA FreshInit == Init => StreamFresh
BY DEF Init, StreamFresh

LEMMA FreshNext == FanoutInv /\ Next => StreamFresh'
BY StreamGoesOn DEF FanoutInv, StreamFresh

LEMMA ExcuseLasts == FanoutInv /\ Next /\ Excused => Excused'
BY StreamGoesOn, CancelGoesOn, OffGrows DEF FanoutInv, StreamFresh, Excused

LEMMA CancelledInit == Init => CancelledByRequest
BY DEF Init, CancelledByRequest, State, NoSnap

LEMMA CancelledNext == FanoutInv /\ Next => CancelledByRequest'
<1> SUFFICES ASSUME FanoutInv, Next, cancel'.pc = "idle"
             PROVE  /\ entry'.st # "cancelled"
                    /\ snap'.st # "cancelled"
                    /\ \A c \in air' : c.what = "set" => c.st # "cancelled"
  BY DEF CancelledByRequest
<1>t. FanoutTypes
  BY DEF FanoutInv
<1>p. /\ cancel.pc = "idle"
      /\ entry.st # "cancelled"
      /\ snap.st # "cancelled"
      /\ \A c \in air : c.what = "set" => c.st # "cancelled"
  BY <1>t, CancelGoesOn DEF FanoutInv, CancelledByRequest
<1>1. CASE Reader
  BY <1>p, <1>1, ReaderFrame
<1>2. CASE Register
  <2>1. UNCHANGED <<entry, snap>> /\ Send("owner", {Snapshot(entry)})
    BY <1>2 DEF Register
  <2>2. entry \in [st : EntryStatus, text : Texts]
    BY <1>t DEF FanoutTypes, OwnerTypes
  <2>3. \A c \in air' : c \in air \/ c.st = entry.st
    BY <2>1, <2>2, SnapshotSent
  <2> QED
    BY <1>p, <2>1, <2>3
<1>3. CASE Talk \/ Ask \/ Resume
  <2>1. PICK e : Show(e) /\ UNCHANGED snap
    BY <1>3 DEF Talk, Ask, Resume
  <2>2. e \in [st : EntryStatus, text : Texts] /\ e.st # "cancelled"
    BY <1>3, <1>t, <1>p, <2>1, ShownTypes
  <2>3. \A c \in air' : c \in air \/ c.st = e.st
    BY <2>1, <2>2, SnapshotSent DEF Show
  <2> QED
    BY <1>p, <2>1, <2>2, <2>3 DEF Show
<1>4. CASE Save \/ Store \/ Halt
  BY <1>p, <1>4 DEF Save, Store, Halt, redisVars
<1>5. CASE Finish \/ Halted
  <2>1. PICK name \in Ends : Leave(name) /\ UNCHANGED <<entry, snap>>
    BY <1>5 DEF Finish, Halted, Ends
  <2>2. \A c \in air' : c \in air \/ c.what # "set"
    BY <2>1, EventSent DEF Leave
  <2> QED
    BY <1>p, <2>1, <2>2
<1>6. CASE Crash \/ Drop
  <2>1. UNCHANGED <<entry, snap>> /\ air' \subseteq air
    BY <1>6 DEF Crash, Drop, ownerVars
  <2> QED
    BY <1>p, <2>1
<1>7. CASE Land
  <2>1. PICK c \in air : air' = air \ {c} /\ (LandSet(c) \/ LandEvent(c) \/ LandCancel(c))
    BY <1>7 DEF Land
  <2>2. entry' = entry
    BY <1>7 DEF Land
  <2>3. snap' = snap \/ (c.what = "set" /\ snap'.st = c.st)
    BY <2>1 DEF LandSet, LandEvent, LandCancel, State
  <2> QED
    BY <1>p, <2>1, <2>2, <2>3
<1>8. CASE Expire
  BY <1>p, <1>8 DEF Expire, NoSnap, ownerVars
<1>9. CASE StreamRepair \/ CreateSettle
  BY <1>p, <1>9 DEF StreamRepair, CreateSettle, redisVars
<1>10. CASE CancelLoad
  <2>1. \E t : cancel' = [cancel EXCEPT !.pc = "request", !.text = t]
    BY <1>10 DEF CancelLoad
  <2>2. cancel'.pc # "idle"
    BY <1>t, <2>1 DEF FanoutTypes, ClientTypes, CancelRecord
  <2> QED
    BY <2>2
<1>12. CASE CancelHere
  BY <1>12 DEF CancelHere
<1>11. CASE CancelRequest \/ CancelWrite \/ CancelWriteHere
  BY <1>p, <1>11 DEF CancelRequest, CancelWrite, CancelWriteHere
<1> QED
  BY <1>1, <1>2, <1>3, <1>4, <1>5, <1>6, <1>7, <1>8, <1>9, <1>10, <1>11, <1>12,
     ReadersAndWriters DEF Writer

Young == task \in {"new", "talking", "asking", "saving"}

LEMMA YoungBefore == Next /\ Young' => Young
<1> SUFFICES ASSUME Next, Young'
             PROVE  Young
  OBVIOUS
<1>1. CASE Reader
  BY <1>1, ReaderFrame DEF Young
<1>2. CASE Register \/ Talk \/ Ask \/ Resume \/ Save \/ Store
  BY <1>2 DEF Register, Talk, Ask, Resume, Save, Store, Young
<1>3. CASE Finish \/ Halt \/ Halted \/ Crash
  BY <1>3 DEF Finish, Halt, Halted, Crash, Leave, Young
<1>4. CASE Land
  BY <1>4 DEF Land, LandSet, LandEvent, LandCancel, Heed, Interrupt, Young
<1>5. CASE Drop \/ Expire \/ StreamRepair \/ CreateSettle
  BY <1>5 DEF Drop, Expire, StreamRepair, CreateSettle, ownerVars, Young
<1>6. CASE CancelLoad \/ CancelRequest \/ CancelWrite \/ CancelWriteHere
  BY <1>6 DEF CancelLoad, CancelRequest, CancelWrite, CancelWriteHere, ownerVars, Young
<1>7. CASE CancelHere
  BY <1>7 DEF CancelHere, Interrupt, Preempt, Young
<1> QED
  BY <1>1, <1>2, <1>3, <1>4, <1>5, <1>6, <1>7, ReadersAndWriters DEF Writer

LEMMA TwinInit == Init => TwinExcused
BY DEF Init, TwinExcused, State

LEMMA TwinKept ==
  ASSUME FanoutInv, Next, UNCHANGED <<create, twin>>, Young' => row'.st = row.st \/ Excused'
  PROVE  TwinExcused'
BY ExcuseLasts, YoungBefore DEF FanoutInv, TwinExcused, Young

(* Where a run is not over, a request finds it over or dead only with an     *)
(* excuse.                                                                   *)
LEMMA TwinNext == FanoutInv /\ Next => TwinExcused'
<1> SUFFICES ASSUME FanoutInv, Next
             PROVE  TwinExcused'
  OBVIOUS
<1>t. /\ FanoutTypes
      /\ create \in [pc : {"idle", "load", "settle", "insert", "done"}, landed : BOOLEAN]
  BY DEF FanoutInv, FanoutTypes, ClientTypes
<1>p. /\ twin => create.pc = "done"
      /\ Young =>
           /\ row.st # "running" =>
                Excused \/ (~create.landed /\ create.pc \in {"insert", "done"})
           /\ create.pc \in {"settle", "insert", "done"} => Excused \/ ~create.landed
  BY DEF FanoutInv, TwinExcused, Young
<1>e. Excused => Excused'
  BY ExcuseLasts
<1>y. Young' => Young
  BY YoungBefore
<1>1. CASE Reader /\ UNCHANGED <<create, twin>>
  BY <1>1, ReaderFrame, TwinKept
<1>2. CASE Subscribe("hitl") \/ Subscribe("cancel")
  <2>1. UNCHANGED <<row, create, twin>>
    BY <1>2 DEF Subscribe, clientVars
  <2> QED
    BY <2>1, TwinKept
<1>3. CASE StreamRead \/ StreamLoad \/ StreamSubscribe \/ StreamTake
  BY <1>1, <1>3 DEF Reader, StreamRead, StreamLoad, StreamSubscribe, StreamTake
<1>4. CASE AnswerLoad \/ AnswerPublish \/ AnswerHere
  BY <1>1, <1>4 DEF Reader, AnswerLoad, AnswerPublish, AnswerHere, clientVars
<1>5. CASE CreateRead
  <2>1. /\ UNCHANGED <<row, twin>>
        /\ create.pc = "idle" /\ ~twin
        /\ create' = [create EXCEPT !.pc = IF row.st = "running" THEN "load" ELSE "insert"]
    BY <1>5 DEF CreateRead, ownerVars
  <2>2. /\ create'.pc = (IF row.st = "running" THEN "load" ELSE "insert")
        /\ create'.landed = create.landed
    BY <1>t, <2>1
  <2>3. UNCHANGED <<row, twin>> /\ create.pc = "idle" /\ ~twin
    BY <2>1
  <2>4. Young' /\ row.st # "running" => Excused'
    BY <1>p, <1>e, <1>y, <2>3
  <2> QED
    BY <2>2, <2>3, <2>4 DEF TwinExcused, Young
<1>6. CASE CreateLoad
  <2>1. PICK s :
          /\ Load(s)
          /\ create' = [pc |-> IF Reusable(s) THEN "idle" ELSE "settle", landed |-> s # NoSnap]
    BY <1>6 DEF CreateLoad
  <2>2. UNCHANGED <<row, twin>> /\ create.pc = "load"
    BY <1>6 DEF CreateLoad, ownerVars
  <2>3. create'.pc = "settle" /\ create'.landed => snap.st = "cancelled"
    <3>1. CASE s = NoSnap
      BY <2>1, <3>1
    <3>2. CASE s = snap /\ snap # NoSnap
      <4>1. snap.st \in EntryStatus
        BY <1>t, <3>2 DEF FanoutTypes, RedisTypes
      <4> QED
        BY <2>1, <3>2, <4>1 DEF Reusable, Running, EntryStatus, Terminal
    <3> QED
      BY <2>1, <3>1, <3>2, LoadParts
  <2>4. create'.pc \in {"idle", "settle"} /\ create'.landed \in BOOLEAN
    BY <2>1
  <2>5. snap.st = "cancelled" => Excused
    BY DEF FanoutInv, CancelledByRequest, Excused
  <2>6. Young' /\ row.st # "running" => Excused'
    BY <1>p, <1>e, <1>y, <2>2
  <2>7. ~twin'
    BY <1>p, <2>2
  <2> QED
    BY <1>e, <2>2, <2>3, <2>4, <2>5, <2>6, <2>7 DEF TwinExcused, Young
<1>7. CASE CreateInsert
  <2>1. /\ UNCHANGED row
        /\ create.pc = "insert"
        /\ create'.pc = "done" /\ create'.landed = create.landed
    BY <1>t, <1>7 DEF CreateInsert, ownerVars
  <2> QED
    BY <1>p, <1>e, <1>y, <2>1 DEF TwinExcused, Young
<1>8. CASE CreateSettle
  <2>1. /\ UNCHANGED twin
        /\ create.pc = "settle"
        /\ create'.pc = "insert" /\ create'.landed = create.landed
    BY <1>t, <1>8 DEF CreateSettle
  <2> QED
    BY <1>p, <1>e, <1>y, <2>1 DEF TwinExcused, Young
<1>9. CASE Register \/ Talk \/ Ask \/ Resume \/ Save \/ Finish \/ Halted \/ Crash
  <2>1. UNCHANGED <<row, create, twin>>
    BY <1>9 DEF Register, Talk, Ask, Resume, Save, Finish, Halted, Crash, clientVars
  <2> QED
    BY <2>1, TwinKept
<1>10. CASE Store \/ Halt
  <2>1. UNCHANGED <<create, twin>> /\ ~Young'
    BY <1>10 DEF Store, Halt, clientVars, Young
  <2> QED
    BY <2>1, TwinKept
<1>11. CASE Land \/ Drop \/ Expire \/ CancelLoad \/ CancelRequest \/ CancelHere
  <2>1. UNCHANGED <<row, create, twin>>
    BY <1>11 DEF Land, Drop, Expire, CancelLoad, CancelRequest, CancelHere, ownerVars, clientVars
  <2> QED
    BY <2>1, TwinKept
<1>12. CASE StreamRepair
  <2>1. UNCHANGED <<create, twin>> /\ stream' = [stream EXCEPT !.pc = "end", !.told = {"error"}]
    BY <1>12 DEF StreamRepair
  <2>2. "error" \in stream'.told
    BY <1>t, <2>1 DEF FanoutTypes, ClientTypes, StreamRecord
  <2> QED
    BY <2>1, <2>2, TwinKept DEF Excused
<1>13. CASE CancelWrite \/ CancelWriteHere
  <2>1. UNCHANGED <<create, twin>> /\ cancel.pc # "idle"
    BY <1>13 DEF CancelWrite, CancelWriteHere
  <2> QED
    BY <1>e, <2>1, TwinKept DEF Excused
<1> QED
  BY <1>2, <1>3, <1>4, <1>5, <1>6, <1>7, <1>8, <1>9, <1>10, <1>11, <1>12, <1>13,
     ReadersAndWriters DEF Reader, Writer

-----------------------------------------------------------------------------
(* Answers. *)

LEMMA AnswersInit == Init => AnsweredOnce
BY DEF Init, AnsweredOnce

LEMMA Answered ==
  ASSUME got \in Seq(Nat \X Nat), AnsweredOnce, NEW q \in Nat, question \in Nat, Resolve(q)
  PROVE  AnsweredOnce' /\ got' \in Seq(Nat \X Nat)
<1>1. CASE UNCHANGED got
  BY <1>1 DEF AnsweredOnce
<1>2. CASE /\ q # 0
           /\ \A i \in 1..Len(got) : got[i][1] # q
           /\ got' = Append(got, <<q, q>>)
  <2>1. /\ Len(got') = Len(got) + 1
        /\ \A i \in 1..Len(got) : got'[i] = got[i]
        /\ got'[Len(got) + 1] = <<q, q>>
        /\ got' \in Seq(Nat \X Nat)
    BY <1>2
  <2>2. \A i \in 1..Len(got') : i \in 1..Len(got) \/ i = Len(got) + 1
    BY <2>1
  <2>4. \A i \in 1..Len(got) : got'[i][1] # q
    BY <1>2, <2>1
  <2>5. got'[Len(got) + 1][1] = q /\ got'[Len(got) + 1][2] = q
    BY <2>1
  <2>8. \A i \in 1..Len(got) : got'[i][1] = got'[i][2]
    BY <2>1 DEF AnsweredOnce
  <2>3. \A i \in 1..Len(got') : got'[i][1] = got'[i][2]
    BY <2>2, <2>5, <2>8
  <2>6. \A i, j \in 1..Len(got) : got'[i][1] = got'[j][1] => i = j
    BY <2>1 DEF AnsweredOnce
  <2>7. \A i, j \in 1..Len(got') : got'[i][1] = got'[j][1] => i = j
    BY <2>2, <2>4, <2>5, <2>6
  <2> QED
    BY <2>1, <2>3, <2>7 DEF AnsweredOnce
<1> QED
  BY <1>1, <1>2 DEF Resolve, Matching

LEMMA AnswersNext == FanoutInv /\ Next => AnsweredOnce' /\ got' \in Seq(Nat \X Nat)
<1> SUFFICES ASSUME FanoutInv, Next
             PROVE  AnsweredOnce' /\ got' \in Seq(Nat \X Nat)
  OBVIOUS
<1>t. /\ got \in Seq(Nat \X Nat) /\ AnsweredOnce
      /\ question \in Nat /\ answer.q \in Nat
  BY DEF FanoutInv, FanoutTypes, OwnerTypes, ClientTypes, CancelRecord
<1>1. CASE UNCHANGED got
  BY <1>t, <1>1 DEF AnsweredOnce
<1>2. CASE AnswerPublish
  BY <1>t, <1>1, <1>2, Answered DEF AnswerPublish
<1>3. CASE AnswerHere
  BY <1>t, <1>3, Answered DEF AnswerHere
<1>4. CASE Owner \/ Crash \/ Drop \/ Expire
  <2>1. UNCHANGED got
    BY <1>4 DEF Owner, Register, Talk, Ask, Resume, Save, Store, Finish, Halt, Halted,
              Crash, Drop, Expire, ownerVars
  <2> QED
    BY <1>1, <2>1
<1>5. CASE Land \/ Subscribe("hitl") \/ Subscribe("cancel")
  <2>1. UNCHANGED got
    BY <1>5 DEF Land, LandSet, LandEvent, LandCancel, Subscribe
  <2> QED
    BY <1>1, <2>1
<1>6. CASE Stream \/ Cancel
  <2>1. UNCHANGED got
    BY <1>6 DEF Stream, StreamRead, StreamLoad, StreamSubscribe, StreamTake, StreamRepair,
                ownerVars, Cancel, CancelLoad, CancelRequest, CancelWrite, CancelHere,
                CancelWriteHere
  <2> QED
    BY <1>1, <2>1
<1>7. CASE AnswerLoad \/ Create
  <2>1. UNCHANGED got
    BY <1>7 DEF AnswerLoad, Create, CreateRead, CreateLoad, CreateSettle, CreateInsert,
                ownerVars
  <2> QED
    BY <1>1, <2>1
<1> QED
  BY <1>2, <1>3, <1>4, <1>5, <1>6, <1>7 DEF Next, Redis, Answer

-----------------------------------------------------------------------------
(* Types. *)

LEMMA TypesInit == Init => FanoutTypes
<1> SUFFICES ASSUME Init
             PROVE  FanoutTypes
  OBVIOUS
<1>1. OwnerTypes
  BY Numbers DEF Init, OwnerTypes, State, Tasks, EntryStatus, Terminal
<1>2. RedisTypes
  BY DEF Init, RedisTypes
<1>3. ClientTypes
  <2>1. stream \in StreamRecord
    BY DEF Init, StreamRecord
  <2>2. cancel \in CancelRecord
    BY Numbers DEF Init, CancelRecord
  <2> QED
    BY <2>1, <2>2 DEF Init, ClientTypes
<1> QED
  BY <1>1, <1>2, <1>3 DEF FanoutTypes

LEMMA EntryNext == FanoutTypes /\ Next => entry' \in [st : EntryStatus, text : Texts]
<1> SUFFICES ASSUME FanoutTypes, Next
             PROVE  entry' \in [st : EntryStatus, text : Texts]
  OBVIOUS
<1>0. CASE UNCHANGED entry
  BY <1>0 DEF FanoutTypes, OwnerTypes
<1>1. CASE Reader
  BY <1>0, <1>1, ReaderFrame
<1>2. CASE Talk \/ Ask \/ Resume
  BY <1>2, ShownTypes DEF Talk, Ask, Resume, Show
<1>3. CASE CancelHere
  BY <1>3, HereSent
<1>4. CASE Register \/ Save \/ Store \/ Finish \/ Halt \/ Halted \/ Crash
  BY <1>0, <1>4 DEF Register, Save, Store, Finish, Halt, Halted, Crash
<1>5. CASE Land \/ Drop \/ Expire \/ StreamRepair \/ CreateSettle
  BY <1>0, <1>5 DEF Land, Drop, Expire, StreamRepair, CreateSettle, ownerVars
<1>6. CASE CancelLoad \/ CancelRequest \/ CancelWrite \/ CancelWriteHere
  BY <1>0, <1>6 DEF CancelLoad, CancelRequest, CancelWrite, CancelWriteHere, ownerVars
<1> QED
  BY <1>1, <1>2, <1>3, <1>4, <1>5, <1>6, ReadersAndWriters DEF Writer

(* Only the question of a task that asks is open. *)
TaskTypes ==
  /\ task \in Tasks
  /\ asked \in Nat
  /\ question = (IF task = "asking" THEN asked ELSE 0)

LEMMA TaskNext == FanoutTypes /\ Next => TaskTypes'
<1> SUFFICES ASSUME FanoutTypes, Next
             PROVE  TaskTypes'
  OBVIOUS
<1>t. TaskTypes
  BY DEF FanoutTypes, OwnerTypes, TaskTypes
<1>0. CASE UNCHANGED <<task, question, asked>>
  BY <1>t, <1>0 DEF TaskTypes
<1>1. CASE Interrupt /\ UNCHANGED asked
  BY <1>t, <1>1 DEF Interrupt, TaskTypes, Tasks
<1>2. CASE Reader
  BY <1>0, <1>2, ReaderFrame
<1>3. CASE Register \/ Talk \/ Save \/ Store \/ Halt
  BY <1>t, <1>3 DEF Register, Talk, Save, Store, Halt, TaskTypes, Tasks
<1>11. CASE Preempt /\ UNCHANGED asked
  BY <1>t, <1>11 DEF Preempt, TaskTypes, Tasks
<1>4. CASE Ask
  BY <1>t, <1>4 DEF Ask, TaskTypes, Tasks
<1>5. CASE Resume
  BY <1>t, <1>5 DEF Resume, TaskTypes, Tasks
<1>6. CASE Finish \/ Halted \/ Crash
  BY <1>t, <1>6 DEF Finish, Halted, Crash, Leave, TaskTypes, Tasks
<1>7. CASE Land
  <2>1. UNCHANGED <<task, question>> \/ Interrupt
    BY <1>7 DEF Land, LandSet, LandEvent, LandCancel, Heed
  <2> QED
    BY <1>0, <1>1, <1>7, <2>1 DEF Land
<1>8. CASE Drop \/ Expire \/ StreamRepair \/ CreateSettle
  BY <1>0, <1>8 DEF Drop, Expire, StreamRepair, CreateSettle, ownerVars
<1>9. CASE CancelLoad \/ CancelRequest \/ CancelWrite \/ CancelWriteHere
  BY <1>0, <1>9 DEF CancelLoad, CancelRequest, CancelWrite, CancelWriteHere, ownerVars
<1>10. CASE CancelHere
  BY <1>1, <1>10, <1>11 DEF CancelHere
<1> QED
  BY <1>2, <1>3, <1>4, <1>5, <1>6, <1>7, <1>8, <1>9, <1>10, ReadersAndWriters DEF Writer

Ears == [hitl : {"off", "starting", "on"}, cancel : {"off", "starting", "on"}]

LEMMA EarNext == FanoutTypes /\ Next => ear' \in Ears
<1> SUFFICES ASSUME FanoutTypes, Next
             PROVE  ear' \in Ears
  OBVIOUS
<1>t. ear \in Ears
  BY DEF FanoutTypes, OwnerTypes, Ears
<1>1. CASE Register
  <2>1. ear' \in {ear, [hitl |-> "starting", cancel |-> "starting"]}
    BY <1>1 DEF Register
  <2> QED
    BY <1>t, <2>1 DEF Ears
<1>2. CASE Finish \/ Halted \/ Crash
  BY <1>2 DEF Finish, Halted, Crash, Leave, Deafen, Ears
<1>3. CASE Talk \/ Ask \/ Resume \/ Save \/ Store \/ Halt
  BY <1>t, <1>3 DEF Talk, Ask, Resume, Save, Store, Halt
<1>4. CASE Land
  <2>1. ear' = ear \/ ear' = [ear EXCEPT !.cancel = "off"]
    BY <1>4 DEF Land, LandSet, LandEvent, LandCancel
  <2> QED
    BY <1>t, <2>1 DEF Ears
<1>5. CASE Subscribe("hitl")
  <2>1. ear' = [ear EXCEPT !.hitl = "on"]
    BY <1>5 DEF Subscribe
  <2> QED
    BY <1>t, <2>1 DEF Ears
<1>6. CASE Subscribe("cancel")
  <2>1. ear' = [ear EXCEPT !.cancel = "on"]
    BY <1>6 DEF Subscribe
  <2> QED
    BY <1>t, <2>1 DEF Ears
<1>7. CASE Drop \/ Expire \/ Stream
  BY <1>t, <1>7 DEF Drop, Expire, Stream, StreamRead, StreamLoad, StreamSubscribe, StreamTake,
                    StreamRepair, ownerVars
<1>8. CASE Cancel
  BY <1>t, <1>8 DEF Cancel, CancelLoad, CancelRequest, CancelWrite, CancelHere, CancelWriteHere,
                    ownerVars
<1>9. CASE Answer
  BY <1>t, <1>9 DEF Answer, AnswerLoad, AnswerPublish, AnswerHere, ownerVars
<1>10. CASE Create
  BY <1>t, <1>10 DEF Create, CreateRead, CreateLoad, CreateSettle, CreateInsert, ownerVars
<1> QED
  BY <1>1, <1>2, <1>3, <1>4, <1>5, <1>6, <1>7, <1>8, <1>9, <1>10 DEF Next, Owner, Redis

LEMMA OwnerNext == FanoutInv /\ Next => OwnerTypes'
<1> SUFFICES ASSUME FanoutInv, Next
             PROVE  OwnerTypes'
  OBVIOUS
<1>1. FanoutTypes
  BY DEF FanoutInv
<1>2. row' \in [st : {"running"} \union Terminal, text : Texts]
  BY <1>1, RowWrites, RowSettles
<1>3. entry' \in [st : EntryStatus, text : Texts] /\ ear' \in Ears /\ TaskTypes'
  BY <1>1, EntryNext, EarNext, TaskNext
<1>4. got' \in Seq(Nat \X Nat)
  BY AnswersNext
<1> QED
  BY <1>2, <1>3, <1>4 DEF OwnerTypes, TaskTypes, Ears

(* A command that is sent, and those on their way already, are of a kind.    *)
Fit(c) ==
  /\ c \in Commands
  /\ c.what = "set" => c.st \in EntryStatus
  /\ c.what = "event" => c.st \in Ends

LEMMA AirNext == FanoutTypes /\ Next => \A c \in air' : Fit(c)
<1> SUFFICES ASSUME FanoutTypes, Next, NEW c \in air'
             PROVE  Fit(c)
  OBVIOUS
<1>t. entry \in [st : EntryStatus, text : Texts]
  BY DEF FanoutTypes, OwnerTypes
<1>0. CASE c \in air
  BY <1>0 DEF FanoutTypes, RedisTypes, Fit
<1>s. ASSUME NEW e \in [st : EntryStatus, text : Texts], Send("owner", {Snapshot(e)})
      PROVE  Fit(c)
  <2>1. c \in air \/ (c \in Commands /\ c.what = "set" /\ c.st = e.st)
    BY <1>s, SnapshotSent
  <2> QED
    BY <1>0, <2>1 DEF Fit
<1>e. ASSUME NEW p \in {"owner", "other"}, NEW name \in Ends, Send(p, Event(name))
      PROVE  Fit(c)
  <2>1. c \in air \/ (c \in Commands /\ c.what = "event" /\ c.st = name)
    BY <1>e, EventSent
  <2> QED
    BY <1>0, <2>1 DEF Fit
<1>1. CASE Reader
  BY <1>0, <1>1, ReaderFrame
<1>2. CASE Register
  BY <1>t, <1>s, <1>2 DEF Register
<1>3. CASE Talk \/ Ask \/ Resume
  <2>1. PICK e : Show(e)
    BY <1>3 DEF Talk, Ask, Resume
  <2>2. e \in [st : EntryStatus, text : Texts]
    BY <1>3, <2>1, ShownTypes
  <2> QED
    BY <1>s, <2>1, <2>2 DEF Show
<1>4. CASE Finish \/ Halted
  <2>1. PICK name \in Ends : Leave(name)
    BY <1>4 DEF Finish, Halted, Ends
  <2> QED
    BY <1>e, <2>1 DEF Leave
<1>5. CASE Save \/ Store \/ Halt \/ Expire \/ StreamRepair \/ CreateSettle \/ CancelLoad
  BY <1>0, <1>5 DEF Save, Store, Halt, Expire, StreamRepair, CreateSettle, CancelLoad, redisVars
<1>6. CASE Crash \/ Land \/ Drop
  BY <1>0, <1>6 DEF Crash, Land, Drop
<1>7. CASE CancelRequest
  <2>1. c \in air \/ (c \in Commands /\ c.what = "cancel")
    BY <1>7, CancelSent DEF CancelRequest
  <2> QED
    BY <1>0, <2>1 DEF Fit
<1>8. CASE CancelWrite \/ CancelWriteHere
  <2>1. PICK p \in {"owner", "other"} : Send(p, Event("error"))
    BY <1>8 DEF CancelWrite, CancelWriteHere
  <2> QED
    BY <1>e, <2>1 DEF Ends
<1>9. CASE CancelHere
  <2>1. c \in air \/ (c \in Commands /\ c.what = "set" /\ c.st = "cancelled")
    BY <1>9, HereSent
  <2> QED
    BY <1>0, <2>1 DEF Fit, EntryStatus
<1> QED
  BY <1>1, <1>2, <1>3, <1>4, <1>5, <1>6, <1>7, <1>8, <1>9, ReadersAndWriters DEF Writer

LEMMA SnapNext ==
  FanoutTypes /\ Next => snap' \in [st : EntryStatus, text : Texts] \union {NoSnap}
<1> SUFFICES ASSUME FanoutTypes, Next
             PROVE  snap' \in [st : EntryStatus, text : Texts] \union {NoSnap}
  OBVIOUS
<1>0. CASE UNCHANGED snap
  BY <1>0 DEF FanoutTypes, RedisTypes
<1>1. CASE Reader
  BY <1>0, <1>1, ReaderFrame
<1>2. CASE Land
  <2>1. PICK c \in air : LandSet(c) \/ LandEvent(c) \/ LandCancel(c)
    BY <1>2 DEF Land
  <2>2. CASE LandSet(c)
    <3>1. c.st \in EntryStatus /\ c.text \in Texts
      BY <2>2 DEF LandSet, FanoutTypes, RedisTypes, Commands
    <3> QED
      BY <2>2, <3>1 DEF LandSet, State
  <2> QED
    BY <1>0, <2>1, <2>2 DEF LandEvent, LandCancel
<1>3. CASE Expire
  BY <1>3 DEF Expire
<1>4. CASE Owner \/ Crash \/ Drop \/ StreamRepair \/ CreateSettle
  BY <1>0, <1>4 DEF Owner, Register, Talk, Ask, Resume, Save, Store, Finish, Halt, Halted,
              Crash, Drop, StreamRepair, CreateSettle, redisVars
<1>5. CASE Cancel
  BY <1>0, <1>5 DEF Cancel, CancelLoad, CancelRequest, CancelWrite, CancelHere, CancelWriteHere
<1> QED
  BY <1>1, <1>2, <1>3, <1>4, <1>5, ReadersAndWriters DEF Writer, Owner, Cancel

LEMMA RedisNext == FanoutInv /\ Next => RedisTypes'
BY AirNext, SnapNext DEF FanoutInv, RedisTypes, Fit

LEMMA StreamNext == FanoutTypes /\ Next => stream' \in StreamRecord
<1> SUFFICES ASSUME FanoutTypes, Next
             PROVE  stream' \in StreamRecord
  OBVIOUS
<1>t. stream \in StreamRecord
  BY DEF FanoutTypes, ClientTypes
<1>0. CASE UNCHANGED stream
  BY <1>t, <1>0
<1>1. CASE StreamRead
  <2>1. stream' = [stream EXCEPT !.pc = "load", !.row = row.st]
    BY <1>1 DEF StreamRead
  <2>2. row.st \in {"running"} \union Terminal
    BY DEF FanoutTypes, OwnerTypes
  <2> QED
    BY <1>t, <2>1, <2>2 DEF StreamRecord
<1>2. CASE StreamLoad
  <2>1. \/ /\ stream' = [stream EXCEPT !.pc = "end", !.told = {stream.row}]
           /\ stream.row \in Terminal
        \/ \E pc \in {"subscribe", "repair"} : stream' = [stream EXCEPT !.pc = pc]
    BY <1>2 DEF StreamLoad
  <2>2. CASE stream' = [stream EXCEPT !.pc = "end", !.told = {stream.row}]
             /\ stream.row \in Terminal
    BY <1>t, <2>2 DEF StreamRecord
  <2>3. ASSUME NEW pc \in {"subscribe", "repair"}, stream' = [stream EXCEPT !.pc = pc]
        PROVE  stream' \in StreamRecord
    BY <1>t, <2>3 DEF StreamRecord
  <2> QED
    BY <2>1, <2>2, <2>3
<1>3. CASE StreamSubscribe
  <2>1. \E pc \in {"end", "on"} : stream' = [stream EXCEPT !.pc = pc]
    BY <1>3 DEF StreamSubscribe
  <2> QED
    BY <1>t, <2>1 DEF StreamRecord
<1>4. CASE StreamTake
  <2>1. PICK pc \in {"end", "on"} :
          stream' = [stream EXCEPT !.box = Tail(@), !.told = @ \union {Head(stream.box)}, !.pc = pc]
    BY <1>4 DEF StreamTake
  <2>2. stream.box \in Seq(Ends) /\ stream.box # <<>>
    BY <1>t, <1>4 DEF StreamTake, StreamRecord
  <2>3. Tail(stream.box) \in Seq(Ends) /\ Head(stream.box) \in Ends
    BY <2>2
  <2>4. Head(stream.box) \in {"running"} \union Terminal
    BY <2>3 DEF Ends, Terminal
  <2> QED
    BY <1>t, <2>1, <2>3, <2>4 DEF StreamRecord
<1>5. CASE StreamRepair
  <2>1. stream' = [stream EXCEPT !.pc = "end", !.told = {"error"}]
    BY <1>5 DEF StreamRepair
  <2> QED
    BY <1>t, <2>1 DEF StreamRecord, Terminal
<1>6. CASE Land
  <2>1. PICK c \in air : LandSet(c) \/ LandEvent(c) \/ LandCancel(c)
    BY <1>6 DEF Land
  <2>2. CASE LandEvent(c)
    <3>1. stream' = stream \/ stream' = [stream EXCEPT !.box = Append(@, c.st)]
      BY <2>2 DEF LandEvent
    <3>2. c.st \in Ends
      BY <2>2 DEF LandEvent, FanoutTypes, RedisTypes
    <3>3. Append(stream.box, c.st) \in Seq(Ends)
      BY <1>t, <3>2 DEF StreamRecord
    <3> QED
      BY <1>t, <3>1, <3>3 DEF StreamRecord
  <2> QED
    BY <1>0, <2>1, <2>2 DEF LandSet, LandCancel
<1>7. CASE Owner \/ Crash \/ Drop \/ Expire \/ Answer
  BY <1>0, <1>7 DEF Owner, Register, Talk, Ask, Resume, Save, Store, Finish, Halt, Halted,
              Crash, Drop, Expire, Answer, AnswerLoad, AnswerPublish, AnswerHere, clientVars
<1>8. CASE Cancel \/ Create
  BY <1>0, <1>8 DEF Cancel, CancelLoad, CancelRequest, CancelWrite, CancelHere, CancelWriteHere,
                    Create, CreateRead, CreateLoad, CreateSettle, CreateInsert
<1>9. ASSUME NEW what \in {"hitl", "cancel"}, Subscribe(what)
      PROVE  stream' \in StreamRecord
  BY <1>0, <1>9 DEF Subscribe, clientVars
<1> QED
  BY <1>1, <1>2, <1>3, <1>4, <1>5, <1>6, <1>7, <1>8, <1>9 DEF Next, Stream, Redis

LEMMA CancelNext == FanoutTypes /\ Next => cancel' \in CancelRecord
<1> SUFFICES ASSUME FanoutTypes, Next
             PROVE  cancel' \in CancelRecord
  OBVIOUS
<1>t. cancel \in CancelRecord /\ entry.text \in Texts /\ snap.text \in Texts
  <2>1. cancel \in CancelRecord /\ entry.text \in Texts
    BY DEF FanoutTypes, OwnerTypes, ClientTypes
  <2>2. snap.text \in Texts
    BY Numbers DEF FanoutTypes, RedisTypes, NoSnap
  <2> QED
    BY <2>1, <2>2
<1>h. Producing \in BOOLEAN
  BY SMT DEF Producing
<1>0. CASE UNCHANGED cancel
  BY <1>t, <1>0
<1>1. CASE Reader
  BY <1>0, <1>1, ReaderFrame
<1>2. CASE Owner \/ Crash \/ Drop \/ Expire
  BY <1>0, <1>2 DEF Owner, Register, Talk, Ask, Resume, Save, Store, Finish, Halt, Halted,
              Crash, Drop, Expire, clientVars
<1>3. CASE Land
  <2>1. cancel' = cancel \/ cancel' = [cancel EXCEPT !.heard = Producing]
    BY <1>3 DEF Land, LandSet, LandEvent, LandCancel
  <2> QED
    BY <1>t, <1>h, <2>1 DEF CancelRecord
<1>4. CASE StreamRepair \/ CreateSettle
  BY <1>0, <1>4 DEF StreamRepair, CreateSettle
<1>5. CASE CancelLoad
  <2>1. PICK s \in {snap, NoSnap} : cancel' = [cancel EXCEPT !.pc = "request", !.text = s.text]
    BY <1>5 DEF CancelLoad
  <2>2. s.text \in Texts
    BY <1>t, Numbers DEF NoSnap
  <2> QED
    BY <1>t, <2>1, <2>2 DEF CancelRecord
<1>6. CASE CancelRequest \/ CancelWrite \/ CancelWriteHere
  <2>1. \E pc \in {"write", "done"} : cancel' = [cancel EXCEPT !.pc = pc]
    BY <1>6 DEF CancelRequest, CancelWrite, CancelWriteHere
  <2> QED
    BY <1>t, <2>1 DEF CancelRecord
<1>7. CASE CancelHere
  <2>1. cancel' = [pc |-> "write here", text |-> entry.text, heard |-> Producing]
    BY <1>7 DEF CancelHere
  <2> QED
    BY <1>t, <1>h, <2>1 DEF CancelRecord
<1> QED
  BY <1>1, <1>2, <1>3, <1>4, <1>5, <1>6, <1>7, ReadersAndWriters DEF Writer, Owner

AnswerTypes == answer \in [pc : {"idle", "publish", "refused", "ok"}, q : Nat]

LEMMA AnswerNext == FanoutTypes /\ Next => AnswerTypes'
<1> SUFFICES ASSUME FanoutTypes, Next
             PROVE  AnswerTypes'
  OBVIOUS
<1>t. AnswerTypes /\ asked \in Nat
  BY DEF FanoutTypes, OwnerTypes, ClientTypes, AnswerTypes
<1>0. CASE UNCHANGED answer
  BY <1>t, <1>0 DEF AnswerTypes
<1>1. CASE AnswerLoad
  <2>1. PICK q \in 1..asked : \E pc \in {"publish", "refused"} : answer' = [pc |-> pc, q |-> q]
    BY <1>1 DEF AnswerLoad
  <2>2. q \in Nat
    BY <1>t
  <2> QED
    BY <2>1, <2>2 DEF AnswerTypes
<1>2. CASE AnswerPublish
  <2>1. \E pc \in {"ok", "refused"} : answer' = [answer EXCEPT !.pc = pc]
    BY <1>2 DEF AnswerPublish
  <2> QED
    BY <1>t, <2>1 DEF AnswerTypes
<1>3. CASE Owner \/ Crash \/ Drop \/ Expire \/ AnswerHere
  BY <1>0, <1>3 DEF Owner, Register, Talk, Ask, Resume, Save, Store, Finish, Halt, Halted,
              Crash, Drop, Expire, AnswerHere, clientVars
<1>4. CASE Land \/ Subscribe("hitl") \/ Subscribe("cancel")
  BY <1>0, <1>4 DEF Land, Subscribe, clientVars
<1>5. CASE Stream \/ Cancel
  BY <1>0, <1>5 DEF Stream, StreamRead, StreamLoad, StreamSubscribe, StreamTake, StreamRepair,
                    Cancel, CancelLoad, CancelRequest, CancelWrite, CancelHere, CancelWriteHere
<1>6. CASE Create
  BY <1>0, <1>6 DEF Create, CreateRead, CreateLoad, CreateSettle, CreateInsert
<1> QED
  BY <1>1, <1>2, <1>3, <1>4, <1>5, <1>6 DEF Next, Redis, Answer

CreateTypes ==
  /\ create \in [pc : {"idle", "load", "settle", "insert", "done"}, landed : BOOLEAN]
  /\ twin \in BOOLEAN

LEMMA CreateNext == FanoutTypes /\ Next => CreateTypes'
<1> SUFFICES ASSUME FanoutTypes, Next
             PROVE  CreateTypes'
  OBVIOUS
<1>t. CreateTypes
  BY DEF FanoutTypes, ClientTypes, CreateTypes
<1>0. CASE UNCHANGED <<create, twin>>
  BY <1>t, <1>0 DEF CreateTypes
<1>1. CASE CreateRead \/ CreateSettle \/ CreateInsert
  <2>1. /\ \E pc \in {"load", "insert", "done"} : create' = [create EXCEPT !.pc = pc]
        /\ twin' \in {twin, TRUE}
    BY <1>1 DEF CreateRead, CreateSettle, CreateInsert
  <2> QED
    BY <1>t, <2>1 DEF CreateTypes
<1>2. CASE CreateLoad
  <2>1. \E pc \in {"idle", "settle"}, b \in BOOLEAN : create' = [pc |-> pc, landed |-> b]
    BY <1>2 DEF CreateLoad
  <2>2. UNCHANGED twin
    BY <1>2 DEF CreateLoad
  <2> QED
    BY <1>t, <2>1, <2>2 DEF CreateTypes
<1>3. CASE Owner \/ Crash \/ Drop \/ Expire
  BY <1>0, <1>3 DEF Owner, Register, Talk, Ask, Resume, Save, Store, Finish, Halt, Halted,
              Crash, Drop, Expire, clientVars
<1>4. CASE Land \/ Subscribe("hitl") \/ Subscribe("cancel")
  BY <1>0, <1>4 DEF Land, Subscribe, clientVars
<1>5. CASE Stream \/ Cancel
  BY <1>0, <1>5 DEF Stream, StreamRead, StreamLoad, StreamSubscribe, StreamTake, StreamRepair,
                    Cancel, CancelLoad, CancelRequest, CancelWrite, CancelHere, CancelWriteHere
<1>6. CASE Answer
  BY <1>0, <1>6 DEF Answer, AnswerLoad, AnswerPublish, AnswerHere, clientVars
<1> QED
  BY <1>1, <1>2, <1>3, <1>4, <1>5, <1>6 DEF Next, Redis, Create

LEMMA TypesNext == FanoutInv /\ Next => FanoutTypes'
BY OwnerNext, RedisNext, StreamNext, CancelNext, AnswerNext, CreateNext
   DEF FanoutInv, FanoutTypes, ClientTypes, AnswerTypes, CreateTypes

-----------------------------------------------------------------------------
(* Theorems. *)

LEMMA FanoutInit == Init => FanoutInv
BY TypesInit, FreshInit, TextsInit, EndsInit, HeardInit, CancelledInit, TwinInit, AnswersInit
   DEF FanoutInv

LEMMA FanoutNext == FanoutInv /\ [Next]_vars => FanoutInv'
<1> SUFFICES ASSUME FanoutInv, [Next]_vars
             PROVE  FanoutInv'
  OBVIOUS
<1>1. CASE Next
  BY <1>1, TypesNext, FreshNext, TextsNext, EndsNext, HeardNext, CancelledNext, TwinNext,
     AnswersNext DEF FanoutInv
<1>2. CASE UNCHANGED vars
  <2>1. UNCHANGED <<row, task, entry, question, asked, got, ear, air, snap, off, stream, cancel,
                    answer, create, twin>>
    BY <1>2 DEF vars, ownerVars, redisVars, clientVars
  <2>2. FanoutTypes'
    BY <2>1 DEF FanoutInv, FanoutTypes, OwnerTypes, RedisTypes, ClientTypes
  <2>3. StreamFresh' /\ TextsBehind' /\ EndsStored' /\ HeardStops'
    BY <2>1 DEF FanoutInv, StreamFresh, TextsBehind, EndsStored, EndKnown, HeardStops
  <2>4. CancelledByRequest' /\ TwinExcused' /\ AnsweredOnce'
    BY <2>1 DEF FanoutInv, CancelledByRequest, TwinExcused, Excused, AnsweredOnce
  <2> QED
    BY <2>2, <2>3, <2>4 DEF FanoutInv
<1> QED
  BY <1>1, <1>2

(* The inductive invariant of a run seen from another process: no copy of    *)
(* its text is ahead of the run, no end is known before it is stored, a      *)
(* cancellation that was heard has stopped it, and whoever may make a second *)
(* run has a reason.                                                         *)
THEOREM FanoutInvHolds == Spec => []FanoutInv
BY FanoutInit, FanoutNext, PTL DEF Spec

(* A conversation does not get a second run beside a living one, and a       *)
(* question no second answer, but for the races that NoTwin names.           *)
THEOREM NothingHappensTwice == Spec => []NothingTwice
<1>1. FanoutInv => NothingTwice
  BY DEF FanoutInv, TwinExcused, Excused, NothingTwice, NoTwin
<1> QED
  BY <1>1, FanoutInvHolds, PTL

LEMMA TypesSuffice == FanoutInv => TypeOK /\ ToldIsStored
<1> SUFFICES ASSUME FanoutInv
             PROVE  TypeOK /\ ToldIsStored
  OBVIOUS
<1>1. FanoutTypes
  BY DEF FanoutInv
<1>2. snap.st \in {"none", "running", "awaiting_input", "cancelled"} /\ snap.text \in Texts
  BY <1>1, Numbers DEF FanoutTypes, RedisTypes, EntryStatus, NoSnap
<1>3. \A c \in air : c.by \in {"owner", "other"}
  BY <1>1 DEF FanoutTypes, RedisTypes, Commands
<1>4. TypeOK
  BY <1>1, <1>2, <1>3 DEF FanoutTypes, OwnerTypes, Tasks, Texts, TypeOK
<1>5. ToldIsStored
  BY DEF FanoutInv, EndsStored, EndKnown, ToldIsStored
<1> QED
  BY <1>4, <1>5

LEMMA TextKept ==
  FanoutInv /\ [Next]_vars => [row.text > 0 => row'.text > 0]_vars
<1> SUFFICES ASSUME FanoutInv, Next, row.text > 0
             PROVE  row'.text > 0
  OBVIOUS
<1>1. /\ FanoutTypes /\ row.text <= entry.text
      /\ row \in [st : {"running"} \union Terminal, text : Texts]
      /\ row.text \in Nat /\ entry.text \in Nat
  BY Numbers DEF FanoutInv, FanoutTypes, OwnerTypes, TextsBehind
<1>2. CASE row' = State("done", entry.text)
  BY <1>1, <1>2 DEF State
<1>3. CASE \E t \in Texts : row' = CancelPatch(row, t)
  BY <1>1, <1>3, PatchText
<1>4. CASE row' = [row EXCEPT !.st = "error"]
  BY <1>1, <1>4
<1> QED
  BY <1>1, <1>2, <1>3, <1>4, RowWrites DEF RowWrite

(* Whoever is told of an end at another process finds it in the row, and no  *)
(* write, of whichever process, wipes the text of a run.                     *)
THEOREM RowComesFirst == Spec => RowFirst
<1>1. Spec => [](TypeOK /\ ToldIsStored)
  BY TypesSuffice, FanoutInvHolds, PTL
<1>2. Spec => NotWiped
  BY TextKept, FanoutInvHolds, PTL DEF Spec, NotWiped
<1> QED
  BY <1>1, <1>2 DEF RowFirst

LEMMA NothingMore ==
  FanoutInv /\ [Next]_vars =>
    [cancel.heard => /\ entry'.text = entry.text
                     /\ asked' = asked
                     /\ row'.st = "done" => row.st = "done"]_vars
<1> SUFFICES ASSUME FanoutInv, Next, cancel.heard
             PROVE  /\ entry'.text = entry.text
                    /\ asked' = asked
                    /\ row'.st = "done" => row.st = "done"
  OBVIOUS
<1>1. FanoutTypes /\ task \notin {"new", "talking", "asking", "saving", "stored", "landing"}
  BY DEF FanoutInv, HeardStops
<1>2. row'.st = "done" => row.st = "done"
  <2>1. CASE \E t \in Texts : row' = CancelPatch(row, t)
    BY <1>1, <2>1, PatchText
  <2>2. CASE row' = [row EXCEPT !.st = "error"]
    BY <1>1, <2>2 DEF FanoutTypes, OwnerTypes
  <2> QED
    BY <1>1, <2>1, <2>2, RowWrites DEF RowWrite
<1>3. entry'.text = entry.text /\ asked' = asked
  <2>1. CASE Reader
    BY <2>1, ReaderFrame
  <2>2. ~Register /\ ~Talk /\ ~Ask /\ ~Resume /\ ~Save /\ ~Store /\ ~Finish
    BY <1>1 DEF Register, Talk, Ask, Resume, Save, Store, Finish
  <2>3. CASE CancelHere
    BY <1>1, <2>3, HereSent DEF CancelHere
  <2>4. CASE Halt \/ Halted \/ Crash \/ Land
    BY <2>4 DEF Halt, Halted, Crash, Land
  <2>5. CASE Drop \/ Expire \/ StreamRepair \/ CreateSettle
    BY <2>5 DEF Drop, Expire, StreamRepair, CreateSettle, ownerVars
  <2>6. CASE CancelLoad \/ CancelRequest \/ CancelWrite \/ CancelWriteHere
    BY <2>6 DEF CancelLoad, CancelRequest, CancelWrite, CancelWriteHere, ownerVars
  <2> QED
    BY <2>1, <2>2, <2>3, <2>4, <2>5, <2>6, ReadersAndWriters DEF Writer
<1> QED
  BY <1>2, <1>3

(* A run whose process hears of a cancellation while it produces its reply    *)
(* adds no more text, asks no more questions and is not recorded as done.     *)
THEOREM CancellationsAreHeard == Spec => CancelHeard
BY NothingMore, FanoutInvHolds, PTL DEF Spec, CancelHeard
=============================================================================
