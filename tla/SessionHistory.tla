--------------------------- MODULE SessionHistory ---------------------------
(***************************************************************************)
(* The history of one conversation, kept in four places: the rows of its   *)
(* runs (chat_runs), the append-only transcript (transcript_events), the   *)
(* short-term row (chat_sessions) and its Redis copy. Turns                *)
(* (ChatPipeline.stream) read and write it, deletions of messages rewrite  *)
(* it, several server processes may serve it, and any of them may restart. *)
(*                                                                         *)
(* A message is an id, a kind and the parts of the conversation it says:   *)
(* <<t, "user">> and <<t, "answer">> for turn t; a summary says several.   *)
(* The system prompt is never stored and is left out.                      *)
(***************************************************************************)
EXTENDS Naturals, Sequences, FiniteSets, SequencesExt

CONSTANTS
  NoCopy,        \* model value: there is no copy
  MaxTurns,      \* bound: turns of the conversation
  Deletions,     \* DELETE /sessions/{id}/messages requests
  Processes,     \* server processes, each with one HybridMemoryAdapter
  Scenes         \* what requests do and what fails: see SceneType

(* Bounds beside MaxTurns: rounds with tool calls in one turn, failed         *)
(* operations (Redis, database, summariser), turns cancelled or failed, saves *)
(* interrupted by a cancellation, restarts of a process.                      *)
SceneType ==
  [turns : 1..MaxTurns, deletes : BOOLEAN,
   overlapping : BOOLEAN,   \* requests overlap, or each waits for the last
   skill : BOOLEAN,         \* the tools a model calls include load_skill
   rounds : Nat, faults : Nat, stops : Nat, cuts : Nat, restarts : Nat]

ASSUME HistoryAssumption ==
  /\ MaxTurns \in Nat
  /\ Scenes \subseteq SceneType
  /\ Deletions \intersect (1..MaxTurns) = {}

Turns == 1..MaxTurns
Writers == Turns \union Deletions    \* the callers of save_short_term

VARIABLES
  rows,      \* ChatRunRow of each turn: "none", "running", "visible", "deleted"
  answered,  \* turns whose row has a nonempty assistant_content
  log,       \* the transcript: its messages in the order of their seq
  short,     \* ChatSessionRow.messages, NoCopy when there is no row
  cache,     \* the Redis value, NoCopy when there is none
  disabled,  \* processes whose adapter has _redis_disabled set
  nextId,    \* a message id not used yet
  home,      \* process of each turn and of each deletion
  pc,        \* where a turn is
  mem,       \* messages of a turn's SessionState
  rounds,    \* rounds with tool calls so far
  wpc,       \* where the (shielded) save of a writer is
  wlist,     \* what it writes to the short-term copies
  base,      \* length of the transcript its append has read
  dpc,       \* where a deletion is
  dpart,     \* parts a deletion removes
  stopped,   \* history: turns cancelled or failed after their history was loaded
  spoke,     \* history: of those, the ones whose last round had produced text
  cut,       \* history: turns whose save was interrupted
  unlogged,  \* history: turns whose append failed
  replayed,  \* history: turns that replayed the transcript
  erased,    \* history: parts removed by deletions that completed
  disturbed, \* history: two writers overlapped, a save was cut or failed
  faults, restarts,
  scene

copies == <<log, short, cache>>
rowVars == <<rows, answered>>
turnVars == <<home, pc, mem, rounds>>
writeVars == <<wpc, wlist, base>>
deleteVars == <<dpc, dpart, erased>>
historyVars == <<stopped, spoke, cut, unlogged, replayed, disturbed>>
bounds == <<faults, restarts, scene>>
vars == <<rowVars, copies, disabled, nextId, turnVars, writeVars, deleteVars,
          historyVars, bounds>>

-----------------------------------------------------------------------------
Kinds == {"user", "assistant", "calls", "skillCalls", "results", "skill", "summary"}
Parts == Turns \X {"user", "answer"}
Message == [id : Nat, kind : Kinds, says : SUBSET Parts]

ASSUME NoCopyAssumption == NoCopy \notin Seq(Message)

Msg(id, kind, says) == [id |-> id, kind |-> kind, says |-> says]

Elements(s) == {s[i] : i \in 1..Len(s)}
Said(s) == UNION {m.says : m \in Elements(s)}
Held(copy) == IF copy = NoCopy THEN <<>> ELSE copy
Ids(s) == {m.id : m \in Elements(s)}

(* The same messages under fresh ids, as entries_to_messages builds them.   *)
Rebuilt(s, id) == [i \in 1..Len(s) |-> [s[i] EXCEPT !.id = id + i]]

(* Mutant: summaries are synthetic and go, too. *)
PreparedNoSummary(s, id) ==
  FlattenSeq([i \in 1..Len(s) |->
    IF s[i].kind \in {"calls", "skillCalls", "results", "summary"} THEN <<>>
    ELSE <<s[i]>>])

(* prepare_for_save: tool calls and results go, load_skill leaves a thin    *)
(* record with an id of its own, summaries stay.                            *)
Prepared(s, id) ==
  FlattenSeq([i \in 1..Len(s) |->
    IF s[i].kind \in {"calls", "results"} THEN <<>>
    ELSE IF s[i].kind = "skillCalls" THEN <<Msg(id + i, "skill", s[i].says)>>
    ELSE <<s[i]>>])

Idle(t) == pc[t] \in {"idle", "over", "dead"}
Asleep(w) == wpc[w] = "idle"
Busy == \/ \E t \in Turns : ~Idle(t) \/ rows[t] = "running"
        \/ \E w \in Writers : ~Asleep(w)
        \/ \E d \in Deletions : dpc[d] \notin {"idle", "over", "dead"}

CanStart == scene.overlapping \/ ~Busy

CanFail == faults < scene.faults

Init ==
  /\ rows = [t \in Turns |-> "none"]
  /\ answered = {}
  /\ log = <<>>
  /\ short = NoCopy
  /\ cache = NoCopy
  /\ disabled = {}
  /\ nextId = 0
  /\ home \in [Writers -> Processes]
  /\ pc = [t \in Turns |-> "idle"]
  /\ mem = [t \in Turns |-> <<>>]
  /\ rounds = [t \in Turns |-> 0]
  /\ wpc = [w \in Writers |-> "idle"]
  /\ wlist = [w \in Writers |-> <<>>]
  /\ base = [t \in Turns |-> 0]
  /\ dpc = [d \in Deletions |-> "idle"]
  /\ dpart = [d \in Deletions |-> {}]
  /\ stopped = {} /\ spoke = {} /\ cut = {} /\ unlogged = {} /\ replayed = {}
  /\ erased = {}
  /\ disturbed = FALSE
  /\ faults = 0 /\ restarts = 0
  /\ scene \in Scenes

-----------------------------------------------------------------------------
(* A turn: load_history, HistoryCompactor.maybe_compact, the tool loop and  *)
(* _save_session_safe. The calls of one turn are sequential.                *)

Step(t, from, to) == /\ pc[t] = from
                     /\ pc' = [pc EXCEPT ![t] = to]

(* The history a turn starts from; an empty one is replayed. *)
Loaded(t, from, list) ==
  /\ Step(t, from, IF list = <<>> THEN "replay" ELSE "ready")
  /\ mem' = [mem EXCEPT ![t] = list]

Start(t) ==
  /\ rows[t] = "none" /\ t <= scene.turns
  /\ \A u \in 1..(t - 1) : rows[u] # "none"
  /\ CanStart
  /\ Step(t, "idle", "load")
  /\ rows' = [rows EXCEPT ![t] = "running"]
  /\ disturbed' = (disturbed \/ Busy)
  /\ UNCHANGED <<answered, copies, disabled, nextId, home, mem, rounds, writeVars,
                 deleteVars, stopped, spoke, cut, unlogged, replayed, bounds>>

(* redis.get: an empty list that was stored is found, not passed over. *)
LoadCache(t) ==
  /\ IF home[t] \in disabled \/ cache = NoCopy
     THEN Step(t, "load", "loadRow") /\ UNCHANGED mem
     ELSE Loaded(t, "load", cache)
  /\ UNCHANGED <<rowVars, copies, disabled, nextId, home, rounds, writeVars,
                 deleteVars, historyVars, bounds>>

(* A Redis error: this adapter never uses Redis again. *)
LoadCacheFails(t) ==
  /\ CanFail
  /\ home[t] \notin disabled
  /\ Step(t, "load", "loadRow")
  /\ disabled' = disabled \union {home[t]}
  /\ faults' = faults + 1
  /\ disturbed' = TRUE
  /\ UNCHANGED <<rowVars, copies, nextId, home, mem, rounds, writeVars, deleteVars,
                 stopped, spoke, cut, unlogged, replayed, restarts, scene>>

LoadRow(t) ==
  /\ Loaded(t, "loadRow", Held(short))
  /\ UNCHANGED <<rowVars, copies, disabled, nextId, home, rounds, writeVars,
                 deleteVars, historyVars, bounds>>

(* A database error reads as an empty history. *)
LoadRowFails(t) ==
  /\ CanFail
  /\ Loaded(t, "loadRow", <<>>)
  /\ faults' = faults + 1
  /\ disturbed' = TRUE
  /\ UNCHANGED <<rowVars, copies, disabled, nextId, home, rounds, writeVars,
                 deleteVars, stopped, spoke, cut, unlogged, replayed, restarts, scene>>

(* The transcript is replayed and what it yields is saved as short-term.    *)
Replay(t) ==
  LET list == Prepared(Rebuilt(log, nextId), nextId + Len(log)) IN
  /\ mem' = [mem EXCEPT ![t] = list]
  /\ IF log = <<>>
     THEN Step(t, "replay", "ready") /\ UNCHANGED <<nextId, wpc, wlist, replayed>>
     ELSE /\ Step(t, "replay", "backfill")
          /\ nextId' = nextId + 2 * Len(log)
          /\ wpc' = [wpc EXCEPT ![t] = "cache"]
          /\ wlist' = [wlist EXCEPT ![t] = list]
          /\ replayed' = replayed \union {t}
  /\ UNCHANGED <<rowVars, copies, disabled, home, rounds, base, deleteVars,
                 stopped, spoke, cut, unlogged, disturbed, bounds>>

BackfillDone(t) ==
  /\ Asleep(t)
  /\ Step(t, "backfill", "ready")
  /\ UNCHANGED <<rowVars, copies, disabled, nextId, home, mem, rounds, writeVars,
                 deleteVars, historyVars, bounds>>

(* The oldest 60% of the messages, two at least. *)
Batch(s) == LET k == (3 * Len(s)) \div 5
            IN  IF Len(s) < 2 THEN Len(s) ELSE IF k < 2 THEN 2 ELSE k

Compacted(s, id) ==
  <<Msg(id, "summary", Said(SubSeq(s, 1, Batch(s))))>>
    \o SubSeq(s, Batch(s) + 1, Len(s))

(* The history, or its compacted form when it is long, and the user's message. *)
Compose(t) ==
  /\ Step(t, "ready", "talk")
  /\ \E list \in {mem[t]} \union (IF mem[t] = <<>> THEN {} ELSE {Compacted(mem[t], nextId + 1)}) :
       mem' = [mem EXCEPT ![t] = Append(list, Msg(nextId + 2, "user", {<<t, "user">>}))]
  /\ nextId' = nextId + 2
  /\ UNCHANGED <<rowVars, copies, disabled, home, rounds, writeVars, deleteVars,
                 historyVars, bounds>>

(* The summariser fails: only the newest messages remain. *)
ComposeTrimmed(t) ==
  /\ CanFail
  /\ Step(t, "ready", "talk")
  /\ Len(mem[t]) > 1
  /\ \E k \in 2..Len(mem[t]) :
       mem' = [mem EXCEPT ![t] = Append(SubSeq(@, k, Len(@)),
                                        Msg(nextId + 1, "user", {<<t, "user">>}))]
  /\ nextId' = nextId + 1
  /\ faults' = faults + 1
  /\ disturbed' = TRUE
  /\ UNCHANGED <<rowVars, copies, disabled, home, rounds, writeVars, deleteVars,
                 stopped, spoke, cut, unlogged, replayed, restarts, scene>>

Speak(t, from, to, kind, says) ==
  /\ Step(t, from, to)
  /\ mem' = [mem EXCEPT ![t] = Append(@, Msg(nextId + 1, kind, says))]
  /\ nextId' = nextId + 1

(* A round of the model that calls tools. *)
CallTools(t) ==
  /\ rounds[t] < scene.rounds
  /\ rounds' = [rounds EXCEPT ![t] = @ + 1]
  /\ Speak(t, "talk", "tools", IF scene.skill THEN "skillCalls" ELSE "calls", {})
  /\ UNCHANGED <<rowVars, copies, disabled, home, writeVars, deleteVars,
                 historyVars, bounds>>

ToolsDone(t) ==
  /\ Speak(t, "tools", "talk", "results", {})
  /\ UNCHANGED <<rowVars, copies, disabled, home, rounds, writeVars, deleteVars,
                 historyVars, bounds>>

(* The last round: the answer, then _save_session_safe starts. *)
Answer(t) ==
  /\ Speak(t, "talk", "saving", "assistant", {<<t, "answer">>})
  /\ wpc' = [wpc EXCEPT ![t] = "append"]
  /\ UNCHANGED <<rowVars, copies, disabled, home, rounds, wlist, base, deleteVars,
                 historyVars, bounds>>

CanStop == Cardinality(stopped) < scene.stops

(* The turn is cancelled or raises: the session is saved as it is. What the *)
(* round under way had said is not in it: the exception that ends the round *)
(* skips session.add_message.                                               *)
Break(t) ==
  /\ CanStop
  /\ \/ Step(t, "talk", "saving") /\ spoke' \in {spoke, spoke \union {t}}
     \/ Step(t, "tools", "saving") /\ UNCHANGED spoke
  /\ stopped' = stopped \union {t}
  /\ wpc' = [wpc EXCEPT ![t] = "append"]
  /\ UNCHANGED <<rowVars, copies, disabled, nextId, home, mem, rounds, wlist, base,
                 deleteVars, cut, unlogged, replayed, disturbed, bounds>>

(* The same before there is a session: nothing is saved. *)
BreakEarly(t) ==
  /\ CanStop
  /\ \E at \in {"load", "loadRow", "replay", "backfill", "ready"} : Step(t, at, "over")
  /\ mem' = [mem EXCEPT ![t] = <<>>]
  /\ stopped' = stopped \union {t}
  /\ wpc' = [wpc EXCEPT ![t] = "idle"]
  /\ disturbed' = (disturbed \/ ~Asleep(t))
  /\ UNCHANGED <<rowVars, copies, disabled, nextId, home, rounds, wlist, base,
                 deleteVars, spoke, cut, unlogged, replayed, bounds>>

SaveDone(t) ==
  /\ Asleep(t)
  /\ Step(t, "saving", "over")
  /\ UNCHANGED <<rowVars, copies, disabled, nextId, home, mem, rounds, writeVars,
                 deleteVars, historyVars, bounds>>

(* A cancellation during the save: what the shield protects goes on, but an *)
(* append is then not followed by the short-term copies.                    *)
CutSave(t) ==
  /\ Cardinality(cut) < scene.cuts
  /\ ~Asleep(t)
  /\ Step(t, "saving", "over")
  /\ cut' = cut \union {t}
  /\ disturbed' = TRUE
  /\ UNCHANGED <<rowVars, copies, disabled, nextId, home, mem, rounds, writeVars,
                 deleteVars, stopped, spoke, unlogged, replayed, bounds>>

(* The row of the run leaves "running": with the text it streamed, or, when *)
(* the run was stopped, with what there was of it.                          *)
Finish(t) ==
  /\ rows[t] = "running"
  /\ pc[t] \in {"over", "dead"} \/ (pc[t] = "saving" /\ t \in stopped)
  /\ rows' = [rows EXCEPT ![t] = "visible"]
  /\ IF pc[t] = "dead" THEN UNCHANGED answered
     ELSE /\ answered' \in {answered, answered \union {t}}
          /\ t \in answered' \/ t \in stopped
  /\ UNCHANGED <<copies, disabled, nextId, turnVars, writeVars, deleteVars,
                 historyVars, bounds>>

-----------------------------------------------------------------------------
(* The shielded coroutines: SQLTranscriptStore.append_messages, then        *)
(* HybridMemoryAdapter.save_short_term.                                     *)

(* append_messages reads which ids are known and the last seq. *)
AppendRead(t) ==
  /\ wpc[t] = "append"
  /\ wpc' = [wpc EXCEPT ![t] = "commit"]
  /\ base' = [base EXCEPT ![t] = Len(log)]
  /\ UNCHANGED <<rowVars, copies, disabled, nextId, turnVars, wlist, deleteVars,
                 historyVars, bounds>>

(* What follows an append, unless the turn that waited for it is gone.      *)
AfterAppend(t) ==
  IF pc[t] = "saving"
  THEN /\ wpc' = [wpc EXCEPT ![t] = "cache"]
       /\ wlist' = [wlist EXCEPT ![t] = Prepared(mem[t], nextId)]
       /\ nextId' = nextId + Len(mem[t])
  ELSE /\ wpc' = [wpc EXCEPT ![t] = "idle"]
       /\ UNCHANGED <<wlist, nextId>>

Unknown(t) ==
  LET known == Ids(SubSeq(log, 1, base[t])) IN
  FlattenSeq([i \in 1..Len(mem[t]) |->
    IF mem[t][i].id \in known THEN <<>> ELSE <<mem[t][i]>>])

(* Mutant: the entries are added but not committed. *)
AppendUncommitted(t) ==
  /\ wpc[t] = "commit"
  /\ AfterAppend(t)
  /\ UNCHANGED <<log, unlogged, rowVars, short, cache, disabled, turnVars, base,
                 deleteVars, stopped, spoke, cut, replayed, disturbed, bounds>>

(* The unique (conversation, seq) refuses entries numbered from a last seq  *)
(* that is not the last any more.                                           *)
AppendCommit(t) ==
  /\ wpc[t] = "commit"
  /\ IF Len(log) = base[t] \/ Unknown(t) = <<>>
     THEN log' = log \o Unknown(t) /\ UNCHANGED unlogged
     ELSE unlogged' = unlogged \union {t} /\ UNCHANGED log
  /\ AfterAppend(t)
  /\ UNCHANGED <<rowVars, short, cache, disabled, turnVars, base, deleteVars,
                 stopped, spoke, cut, replayed, disturbed, bounds>>

AppendFails(t) ==
  /\ CanFail
  /\ wpc[t] \in {"append", "commit"}
  /\ unlogged' = unlogged \union {t}
  /\ AfterAppend(t)
  /\ faults' = faults + 1
  /\ disturbed' = TRUE
  /\ UNCHANGED <<rowVars, copies, disabled, turnVars, base, deleteVars, stopped,
                 spoke, cut, replayed, restarts, scene>>

WriteStep(w, from, to) == /\ wpc[w] = from
                          /\ wpc' = [wpc EXCEPT ![w] = to]

(* redis.setex, unless this process has given Redis up. *)
WriteCache(w) ==
  /\ WriteStep(w, "cache", "row")
  /\ cache' = IF home[w] \in disabled THEN cache ELSE wlist[w]
  /\ UNCHANGED <<rowVars, log, short, disabled, nextId, turnVars, wlist, base,
                 deleteVars, historyVars, bounds>>

(* It raises, applied or not, and this process gives Redis up. *)
WriteCacheFails(w) ==
  /\ CanFail
  /\ home[w] \notin disabled
  /\ WriteStep(w, "cache", "row")
  /\ cache' \in {cache, wlist[w]}
  /\ disabled' = disabled \union {home[w]}
  /\ faults' = faults + 1
  /\ disturbed' = TRUE
  /\ UNCHANGED <<rowVars, log, short, nextId, turnVars, wlist, base, deleteVars,
                 stopped, spoke, cut, unlogged, replayed, restarts, scene>>

(* Mutant: the row is left alone while Redis holds the conversation. *)
WriteRowUncached(w) ==
  /\ WriteStep(w, "row", "idle")
  /\ short' = IF cache = NoCopy THEN wlist[w] ELSE short
  /\ UNCHANGED <<rowVars, log, cache, disabled, nextId, turnVars, wlist, base,
                 deleteVars, historyVars, bounds>>

WriteRow(w) ==
  /\ WriteStep(w, "row", "idle")
  /\ short' = wlist[w]
  /\ UNCHANGED <<rowVars, log, cache, disabled, nextId, turnVars, wlist, base,
                 deleteVars, historyVars, bounds>>

(* The upsert raises: a turn only logs it, a deletion answers 500.          *)
WriteRowFails(w) ==
  /\ CanFail
  /\ WriteStep(w, "row", "idle")
  /\ faults' = faults + 1
  /\ disturbed' = TRUE
  /\ UNCHANGED <<rowVars, copies, disabled, nextId, turnVars, wlist, base,
                 deleteVars, stopped, spoke, cut, unlogged, replayed, restarts, scene>>

(* The Redis value reaches its ttl_seconds. *)
Expire ==
  /\ cache # NoCopy
  /\ cache' = NoCopy
  /\ UNCHANGED <<rowVars, log, short, disabled, nextId, turnVars, writeVars,
                 deleteVars, historyVars, bounds>>

-----------------------------------------------------------------------------
(* delete_session_message: the row first, then the short-term copies are    *)
(* rebuilt from the rows that are left.                                     *)

DeleteStep(d, from, to) == /\ dpc[d] = from /\ scene.deletes
                           /\ dpc' = [dpc EXCEPT ![d] = to]

DeleteUser(d, t) ==
  /\ CanStart
  /\ DeleteStep(d, "idle", "rebuild")
  /\ rows[t] \in {"running", "visible"}
  /\ rows' = [rows EXCEPT ![t] = "deleted"]
  /\ dpart' = [dpart EXCEPT ![d] = {<<t, "user">>, <<t, "answer">>}]
  /\ disturbed' = (disturbed \/ Busy)
  /\ UNCHANGED <<answered, copies, disabled, nextId, turnVars, writeVars, erased,
                 stopped, spoke, cut, unlogged, replayed, bounds>>

DeleteAnswer(d, t) ==
  /\ CanStart
  /\ DeleteStep(d, "idle", "rebuild")
  /\ rows[t] \in {"running", "visible"}
  /\ answered' = answered \ {t}
  /\ dpart' = [dpart EXCEPT ![d] = {<<t, "answer">>}]
  /\ disturbed' = (disturbed \/ Busy)
  /\ UNCHANGED <<rows, copies, disabled, nextId, turnVars, writeVars, erased,
                 stopped, spoke, cut, unlogged, replayed, bounds>>

(* The messages of the visible rows, oldest first. *)
FromRows(id) ==
  LET User(t) == Msg(id + 2 * t - 1, "user", {<<t, "user">>})
      Reply(t) == Msg(id + 2 * t, "assistant", {<<t, "answer">>})
  IN  FlattenSeq([t \in Turns |-> IF rows[t] # "visible" THEN <<>>
                                  ELSE IF t \notin answered THEN <<User(t)>>
                                  ELSE <<User(t), Reply(t)>>])

(* Mutant: the short-term copies are not rebuilt. *)
RebuildNothing(d) ==
  /\ DeleteStep(d, "rebuild", "over")
  /\ erased' = erased \union dpart[d]
  /\ UNCHANGED <<wpc, wlist, nextId, rowVars, copies, disabled, turnVars, base,
                 dpart, historyVars, bounds>>

(* _rebuild_short_term_from_runs. *)
Rebuild(d) ==
  /\ DeleteStep(d, "rebuild", "save")
  /\ wpc' = [wpc EXCEPT ![d] = "cache"]
  /\ wlist' = [wlist EXCEPT ![d] = FromRows(nextId)]
  /\ nextId' = nextId + 2 * MaxTurns
  /\ UNCHANGED <<rowVars, copies, disabled, turnVars, base, dpart, erased,
                 historyVars, bounds>>

DeleteDone(d) ==
  /\ Asleep(d)
  /\ DeleteStep(d, "save", "over")
  /\ erased' = erased \union dpart[d]
  /\ UNCHANGED <<rowVars, copies, disabled, nextId, turnVars, writeVars, dpart,
                 historyVars, bounds>>

(* delete_session: delete_session_memory, then the rows of the runs. The    *)
(* transcript stays.                                                        *)
WipeCache(d) ==
  /\ CanStart
  /\ DeleteStep(d, "idle", "wipe")
  /\ cache' = IF home[d] \in disabled THEN cache ELSE NoCopy
  /\ disturbed' = (disturbed \/ Busy)
  /\ UNCHANGED <<rowVars, log, short, disabled, nextId, turnVars, writeVars, dpart,
                 erased, stopped, spoke, cut, unlogged, replayed, bounds>>

WipeRow(d) ==
  /\ DeleteStep(d, "wipe", "wipeRuns")
  /\ short' = NoCopy
  /\ UNCHANGED <<rowVars, log, cache, disabled, nextId, turnVars, writeVars, dpart,
                 erased, historyVars, bounds>>

WipeRuns(d) ==
  /\ DeleteStep(d, "wipeRuns", "over")
  /\ rows' = [t \in Turns |-> IF rows[t] = "none" THEN "none" ELSE "deleted"]
  /\ erased' = erased \union {p \in Parts : rows[p[1]] # "none"}
  /\ UNCHANGED <<answered, copies, disabled, nextId, turnVars, writeVars, dpart,
                 historyVars, bounds>>

(* A process dies and starts again, with a fresh adapter. *)
Restart(p) ==
  LET lost == {w \in Writers : home[w] = p} IN
  /\ restarts < scene.restarts
  /\ restarts' = restarts + 1
  /\ disabled' = disabled \ {p}
  /\ pc' = [t \in Turns |-> IF t \in lost /\ ~Idle(t) THEN "dead" ELSE pc[t]]
  /\ wpc' = [w \in Writers |-> IF w \in lost THEN "idle" ELSE wpc[w]]
  /\ dpc' = [d \in Deletions |-> IF d \in lost /\ dpc[d] \notin {"idle", "over"}
                                 THEN "dead" ELSE dpc[d]]
  /\ disturbed' = (disturbed \/ Busy)
  /\ UNCHANGED <<rowVars, copies, nextId, home, mem, rounds, wlist, base, dpart,
                 erased, stopped, spoke, cut, unlogged, replayed, faults, scene>>

-----------------------------------------------------------------------------
TurnStep(t) ==
  \/ Start(t) \/ LoadCache(t) \/ LoadCacheFails(t) \/ LoadRow(t) \/ LoadRowFails(t)
  \/ Replay(t) \/ BackfillDone(t) \/ Compose(t) \/ ComposeTrimmed(t)
  \/ CallTools(t) \/ ToolsDone(t) \/ Answer(t) \/ Break(t) \/ BreakEarly(t)
  \/ SaveDone(t) \/ CutSave(t) \/ Finish(t)
  \/ AppendRead(t) \/ AppendCommit(t) \/ AppendFails(t)

WriterStep(w) ==
  WriteCache(w) \/ WriteCacheFails(w) \/ WriteRow(w) \/ WriteRowFails(w)

DeletionStep(d) ==
  \/ \E t \in Turns : DeleteUser(d, t) \/ DeleteAnswer(d, t)
  \/ Rebuild(d) \/ DeleteDone(d)
  \/ WipeCache(d) \/ WipeRow(d) \/ WipeRuns(d)

Next ==
  \/ \E t \in Turns : TurnStep(t)
  \/ \E w \in Writers : WriterStep(w)
  \/ \E d \in Deletions : DeletionStep(d)
  \/ Expire
  \/ \E p \in Processes : Restart(p)

Spec == Init /\ [][Next]_vars

-----------------------------------------------------------------------------
IsHistory(s) == s \in Seq([id : 0..nextId, kind : Kinds, says : SUBSET Parts])

(* Every variable has its type; ids are handed out before they are used,    *)
(* and the copies fed to the model never hold a tool call or its result.    *)
TypeOK ==
  /\ rows \in [Turns -> {"none", "running", "visible", "deleted"}]
  /\ answered \subseteq Turns
  /\ IsHistory(log)
  /\ \A copy \in {short, cache} :
       copy # NoCopy => /\ IsHistory(copy)
                        /\ \A m \in Elements(copy) :
                             m.kind \in {"user", "assistant", "skill", "summary"}
  /\ disabled \subseteq Processes
  /\ home \in [Writers -> Processes]
  /\ pc \in [Turns -> {"idle", "load", "loadRow", "replay", "backfill", "ready",
                       "talk", "tools", "saving", "over", "dead"}]
  /\ \A t \in Turns : IsHistory(mem[t]) /\ rounds[t] \in 0..scene.rounds /\ base[t] \in 0..Len(log)
  /\ wpc \in [Writers -> {"idle", "append", "commit", "cache", "row"}]
  /\ \A w \in Writers : IsHistory(wlist[w])
  /\ dpc \in [Deletions -> {"idle", "rebuild", "save", "wipe", "wipeRuns", "over", "dead"}]
  /\ \A d \in Deletions : dpart[d] \subseteq Parts
  /\ erased \subseteq Parts
  /\ stopped \union spoke \union cut \union unlogged \union replayed \subseteq Turns
  /\ disturbed \in BOOLEAN

Speaking(t) == pc[t] \in {"talk", "tools"}

(* Each turn hands the model everything the session of an earlier turn      *)
(* said, in full or in a summary, unless its user deleted it: through the   *)
(* filter of prepare_for_save, compaction, an expired Redis value and a     *)
(* replay, as long as the writers of the copies came one after the other    *)
(* and none was interrupted.                                                *)
KeepsHistory ==
  ~disturbed => \A t \in Turns, u \in Turns :
    Speaking(t) /\ pc[u] = "over" /\ u < t => Said(mem[u]) \ erased \subseteq Said(mem[t])

(* With nobody at work the Redis value, if there is one, is the short-term  *)
(* row, so that its expiry loses nothing.                                   *)
CopiesAgree == ~disturbed /\ ~Busy => cache \in {NoCopy, short}

(* The copies of the history hold no tool call and no result, and between   *)
(* requests the Redis value is the row (save_short_term).                   *)
CopiesConsistent == TypeOK /\ CopiesAgree

(* The transcript comes first: whatever the short-term copies say of a turn *)
(* that ran to its end is in the transcript, whoever else was writing and   *)
(* whatever was interrupted, unless that very append failed.                *)
TranscriptFirst ==
  \A t \in Turns \ (stopped \union cut \union unlogged) :
    pc[t] # "dead" =>
      (Said(Held(short)) \union Said(Held(cache))) \intersect ({t} \X {"user", "answer"})
        \subseteq Said(log)

(* What a user deleted does not come back while the short-term copies are   *)
(* never replayed from the transcript, provided nothing else was writing.   *)
DeletionsHold ==
  ~disturbed /\ replayed = {} =>
    \A t \in Turns : Speaking(t) => Said(mem[t]) \intersect erased = {}

-----------------------------------------------------------------------------
(* api.py:442: "Must be called after any message deletion so the LLM no     *)
(* longer sees deleted messages on the next turn."                          *)
DeletedStaysDeleted ==
  \A t \in Turns, d \in Deletions :
    ~disturbed /\ Speaking(t) /\ dpc[d] = "over" => Said(mem[t]) \intersect dpart[d] = {}

(* transcript_store.py:45: append_messages expands and appends the messages *)
(* not recorded yet ("将尚未记录的消息展开为事件并追加"): no user's message is  *)
(* recorded twice.                                                          *)
RecordedOnce ==
  ~disturbed => \A i, j \in 1..Len(log) :
    log[i].kind = "user" /\ log[j].kind = "user" /\ log[i].says = log[j].says => i = j

(* hybrid.py:20: "Safe for multi-process deployments — no in-process        *)
(* state.": with nobody at work, every process loads the same history.      *)
ProcessesAgree ==
  LET LoadedBy(p) == IF p \in disabled \/ cache = NoCopy THEN Held(short) ELSE cache
  IN  ~Busy => \A p, q \in Processes : LoadedBy(p) = LoadedBy(q)

(* llm_round.py:176: on an interruption the text so far is carried back so  *)
(* that the caller saves the session with it ("中断时先把已累积内容带回         *)
(* outcome，再向上抛，让上层保存 session").                                    *)
InterruptedTextSaved ==
  \A t \in spoke \ (cut \union unlogged) :
    pc[t] = "over" => <<t, "answer">> \in Said(log)
=============================================================================
